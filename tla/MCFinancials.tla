---------------------------- MODULE MCFinancials ----------------------------
(* One annual filing and its decisions, and the worlds that differ from it: *)
(* every pair and triple of amounts in small ranges, and one change to each *)
(* thing else a build depends on.                                           *)
EXTENDS Financials, TLC

MCMetrics == {"income", "cash"}
MCPeriodType == ("income" :> "duration" @@ "cash" :> "instant")

UsGaap == <<"us-gaap", 2023>>
Fact(id, name) ==
  [id |-> id, ns |-> UsGaap, name |-> name, context |-> 1, entity |-> "c", valid |-> TRUE,
   value |-> 10, decimals |-> 0, usd |-> TRUE, kind |-> "duration", start |-> "jan", end |-> "dec",
   dims |-> FALSE, text |-> Null]
Instant(f) == [f EXCEPT !.kind = "instant", !.start = Null, !.context = 2]
Cover(id, name, text) ==
  [Fact(id, name) EXCEPT !.ns = <<"dei", 2023>>, !.valid = FALSE, !.usd = FALSE, !.text = text]
Amount(id, name, v, d) == [Fact(id, name) EXCEPT !.value = v, !.decimals = d]

PeriodEnd == Cover(1, "DocumentPeriodEndDate", "dec")
Year      == Cover(2, "DocumentFiscalYearFocus", "2023")

Decision(metric, name) ==
  [metric |-> metric, family |-> "us-gaap", issuer |-> Null, name |-> name, relation |-> "exact",
   accepted |-> TRUE, stale |-> FALSE, excludes |-> {}, excludeQNames |-> {}]

Filing(facts) ==
  [present |-> TRUE, cik |-> "c", form |-> "10-K", reports |-> 1, bundles |-> 1, facts |-> facts, next |-> Null,
   schema |-> {<<UsGaap, n>> : n \in {"Net", "Profit", "Cash"}}]

Point(v) == [filing |-> 1, family |-> "us-gaap", name |-> "Net", start |-> "jan", end |-> "dec", value |-> v]

World(facts) ==
  [decisions |-> <<Decision("income", "Net"), Decision("income", "Profit"), Decision("cash", "Cash")>>,
   filings |-> <<Filing(facts)>>, gold |-> {}, points |-> {Point(10)}, cached |-> TRUE]

Plain == World({PeriodEnd, Year, Amount(3, "Net", 10, 0), Instant(Fact(4, "Cash"))})

\* Pairs of amounts of one or two concepts, and triples of one.
Pairs ==
  {World({PeriodEnd, Amount(3, "Net", v[1], d[1]), Amount(4, n, v[2], d[2])}) :
     n \in {"Net", "Profit"}, v \in {10, 12, 15} \X {10, 12, 15},
     d \in {NoDecimals, -1, 0, Inf} \X {NoDecimals, -1, 0, Inf}}
Triples ==
  {World({PeriodEnd, Amount(3, "Net", v[1], d[1]), Amount(4, "Net", v[2], d[2]), Amount(5, n, v[3], d[3])}) :
     n \in {"Net", "Profit"}, v \in {10} \X {10, 14} \X {10, 14, 19}, d \in {-1, 0} \X {-1, 0} \X {-1, 0}}

\* Balance sheets: alone, with a noncontrolling interest, with one side filed
\* twice, and with the assets of the year before.
Sheets ==
  {World({PeriodEnd} \union extra \union
     {Instant(Amount(3, "Assets", v[1], d[1])), Instant(Amount(4, "Liabilities", 10, d[2])),
      Instant(Amount(5, n, v[2], d[3]))}) :
     v \in {20, 21, 30} \X {10, 15}, d \in {-1, 0} \X {-1, 0} \X {0, Inf},
     n \in {"TotalEquity", "StockholdersEquity"},
     extra \in {{}, {Instant(Fact(6, "MinorityInterest"))}, {Instant(Amount(6, "Assets", 22, -1))},
               {[Instant(Amount(6, "Assets", 22, 0)) EXCEPT !.end = "nov"]}}}
Splits ==
  {World({PeriodEnd, Amount(3, "ProfitLoss", v, 0), Fact(4, "NetIncomeLoss"), Fact(5, "NciIncome")}) :
     v \in {20, 21}}

\* What may become of one fact, and of the cover.
Income == {f \in Plain.filings[1].facts : f.name = "Net"}
FactEdits ==
  {World({PeriodEnd, Year, Amount(5, "Net", 12, 0), f}) :
     f \in UNION {{[g EXCEPT !.dims = TRUE], [g EXCEPT !.valid = FALSE], [g EXCEPT !.usd = FALSE],
                   [g EXCEPT !.entity = "other"], [g EXCEPT !.start = "feb"], [g EXCEPT !.end = "nov"],
                   [g EXCEPT !.ns = <<"issuer", 2023>>], Instant(g), [g EXCEPT !.ns = <<"us-gaap", 2022>>]}
                  : g \in Income}}
CoverEdits ==
  {[Plain EXCEPT !.filings[1].facts = (@ \ {PeriodEnd}) \union c] : c \in
     UNION {{{e}, {PeriodEnd, [e EXCEPT !.id = 9]}} : e \in
       {PeriodEnd, [PeriodEnd EXCEPT !.text = "nov"], [PeriodEnd EXCEPT !.end = "nov"],
        [PeriodEnd EXCEPT !.text = Null], [PeriodEnd EXCEPT !.entity = "other"], Instant(PeriodEnd),
        [PeriodEnd EXCEPT !.start = "feb"], [PeriodEnd EXCEPT !.dims = TRUE],
        [PeriodEnd EXCEPT !.context = 3]}}}
    \union {[Plain EXCEPT !.filings[1].facts = @ \union
               {[PeriodEnd EXCEPT !.text = "nov", !.id = 9], [PeriodEnd EXCEPT !.text = "nov", !.id = 8]}]}

First(d) == [Plain EXCEPT !.decisions[1] = d]
NetDecision == Decision("income", "Net")
DecisionEdits ==
  {First(d) : d \in {[NetDecision EXCEPT !.stale = TRUE], [NetDecision EXCEPT !.stale = TRUE, !.accepted = FALSE],
     [NetDecision EXCEPT !.accepted = FALSE], [NetDecision EXCEPT !.relation = "broader"], [NetDecision EXCEPT !.excludes = {"c"}],
     [NetDecision EXCEPT !.excludeQNames = {<<UsGaap, "Net">>}], [NetDecision EXCEPT !.family = "issuer", !.issuer = "c"]}}
    \union {[First(NetDecision) EXCEPT !.decisions = Append(@, d)] : d \in
              {NetDecision, [NetDecision EXCEPT !.relation = "broader"], [NetDecision EXCEPT !.metric = "cash"],
               [NetDecision EXCEPT !.stale = TRUE, !.accepted = FALSE]}}
    \union {[Plain EXCEPT !.decisions = <<[NetDecision EXCEPT !.excludes = {"c"}], Decision("cash", "Cash")>>],
            [Plain EXCEPT !.decisions = <<[NetDecision EXCEPT !.relation = "broader"], Decision("cash", "Cash")>>],
            [Plain EXCEPT !.decisions[1].family = "srt", !.filings[1].facts =
               {PeriodEnd, [Amount(3, "Net", 10, 0) EXCEPT !.ns = <<"srt", 2023>>]},
               !.filings[1].schema = {<<UsGaap, "Cash">>, <<<<"srt", 2023>>, "Net">>}]}

Asserted ==
  [filing |-> 1, metric |-> "income", status |-> "value", reason |-> Null, start |-> "jan", end |-> "dec",
   numeric |-> 10]
OtherEdits ==
  {[Plain EXCEPT !.filings = Append(@, f)] : f \in
     {[Filing({}) EXCEPT !.form = "10-Q"], [Filing({}) EXCEPT !.present = FALSE],
      [Filing({}) EXCEPT !.reports = 2], [Filing({}) EXCEPT !.form = "10-Q", !.reports = 2], [Filing({}) EXCEPT !.reports = 0],
      Filing({PeriodEnd, Amount(8, "Net", 15, -1)}), [Filing({PeriodEnd}) EXCEPT !.schema = {}],
      [Filing({PeriodEnd}) EXCEPT !.bundles = 2], [Filing({}) EXCEPT !.form = "10-Q", !.bundles = 0]}}
    \union {[Plain EXCEPT !.gold = {a}] : a \in
              {Asserted, [Asserted EXCEPT !.numeric = 12], [Asserted EXCEPT !.end = "nov"],
               [Asserted EXCEPT !.filing = 5, !.numeric = 12],
               [Asserted EXCEPT !.status = "unsupported", !.reason = "wrong_form"]}}
    \union {[Plain EXCEPT !.points = p] : p \in {{}, {Point(12)}, {Point(10), Point(12)}}}
    \union {[Plain EXCEPT !.cached = FALSE]}
    \union {[Plain EXCEPT !.filings[1].next = {PeriodEnd, n}] : n \in
              {Amount(9, "Net", 12, 0), Amount(9, "Net", 10, 0)}}
    \union {[World({PeriodEnd, Amount(3, "Other", 10, 0), Amount(4, "Net", 10, 0)})
               EXCEPT !.points = {Point(10), [Point(12) EXCEPT !.name = "Other"]}]}

MCWorlds ==
  {Plain} \union Pairs \union Triples \union Sheets \union Splits \union FactEdits \union CoverEdits
    \union DecisionEdits \union OtherEdits
=============================================================================
