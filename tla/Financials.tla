----------------------------- MODULE Financials -----------------------------
(***************************************************************************)
(* edgar build: from the stored facts of filings to one observation per    *)
(* filing and metric (financials/: decisions, period, decimals, resolve,   *)
(* select, validate, build), and the quality report that follows it        *)
(* (quality, oracle, taxonomy_availability).                               *)
(*                                                                         *)
(* A world is what a build meets: the decision files, the filings and      *)
(* their facts, the gold assertions, the cached companyfacts points.  The  *)
(* query for facts has no order, so a build sees them in any.  Meanwhile a *)
(* filing may be extracted again, another build may claim the output       *)
(* directory, and the process may die.                                     *)
(*                                                                         *)
(* A namespace is <<family, release>>, with the family "issuer" for what   *)
(* is not of a standard taxonomy.  Amounts are whole numbers; intervals    *)
(* are in halves of a unit, and decimals is at most 0, Inf or NoDecimals.  *)
(*                                                                         *)
(* A definition Op_Slip is Op with a plausible slip; it is not part of the *)
(* model and shows that a property notices the slip.                       *)
(***************************************************************************)
EXTENDS Integers, Sequences, FiniteSetsExt, SequencesExt

CONSTANTS
  Null,
  Metrics,       \* the metrics of the cohort
  PeriodType,    \* per metric: "duration" or "instant"
  Worlds

ASSUME MetricsAssumption == Metrics # {} /\ PeriodType \in [Metrics -> {"duration", "instant"}]

Inf == 1000
NoDecimals == -1000

(* What decimals round to; as half a unit of it either way, counted in     *)
(* halves, it is how far an interval reaches.                              *)
Rounding(f) == IF f.decimals \in {Inf, NoDecimals} THEN 0 ELSE 10 ^ (- f.decimals)

(* The facts of a filing, now or after it is extracted again. *)
FactsOf(filing) == filing.facts \union (IF filing.next = Null THEN {} ELSE filing.next)

(* What the tables and the decision files hold: a fact has an id of its    *)
(* own, a duration a start, and only a decision for an issuer names one.   *)
ASSUME WorldsAssumption ==
  /\ Null \notin Int
  /\ \A w \in Worlds :
       /\ Len(w.filings) \in Nat /\ DOMAIN w.filings = 1 .. Len(w.filings)
       /\ \A i \in DOMAIN w.filings : \A f, g \in FactsOf(w.filings[i]) :
            /\ f.id \in Nat /\ f.value \in Int /\ f.decimals \in Int /\ Rounding(f) \in Nat
            /\ f.kind = "duration" => f.start # Null
            /\ f.id = g.id => f = g
       /\ \A i \in DOMAIN w.filings : IsFiniteSet(FactsOf(w.filings[i]))
       /\ \A i \in DOMAIN w.decisions :
            w.decisions[i].family # "issuer" => w.decisions[i].issuer = Null
       /\ IsFiniteSet(w.points)

VARIABLES
  world,
  stored,                  \* per filing: its facts in the database
  step, nth,               \* the build's step, and the filing it is at
  loaded,                  \* per filing built: the facts as they were read
  observations, findings,
  output,                  \* the output directory
  report                   \* the slots of the quality report

financialsVars == <<world, stored, step, nth, loaded, observations, findings, output, report>>

AnnualForms == {"10-K", "10-K/A"}

-----------------------------------------------------------------------------
(* Decisions.                                                              *)

DecisionKey(d) == <<d.metric, d.family, d.issuer, d.name>>

Active(d) == ~ d.stale /\ d.accepted

(* load_decisions: a stale accepted decision is fatal, other stale ones    *)
(* are inactive; two active decisions never have the same key.             *)
RegistryLoads(decisions) ==
  /\ \A i \in DOMAIN decisions :
       decisions[i].metric \in Metrics /\ (decisions[i].accepted => ~ decisions[i].stale)
  /\ \A i, j \in DOMAIN decisions :
       i # j /\ ~ decisions[i].stale /\ ~ decisions[j].stale
         => DecisionKey(decisions[i]) # DecisionKey(decisions[j])

Excluded(d, cik) == cik \in d.excludes

(* decision_applies_to_filing *)
AppliesTo(d, cik) == ~ Excluded(d, cik) /\ (d.family = "issuer" => d.issuer = cik)

(* concept_matches_decision *)
Matches(d, cik, ns, name) ==
  /\ d.name = name
  /\ <<ns, name>> \notin d.excludeQNames
  /\ d.family = ns[1]
  /\ d.family = "issuer" => d.issuer = cik

(* resolve_supports, for one fact and metric: the decisions that support it. *)
SupportsOf(f, metric, relation, cik) ==
  {i \in DOMAIN world.decisions :
     LET d == world.decisions[i]
     IN  /\ Active(d) /\ d.metric = metric /\ d.relation = relation
         /\ ~ Excluded(d, cik) /\ Matches(d, cik, f.ns, f.name)}

-----------------------------------------------------------------------------
(* Decimals: the interval of a reported amount, and duplicates.            *)

FactInterval(f) == [lo |-> 2 * f.value - Rounding(f), hi |-> 2 * f.value + Rounding(f)]

Meets(a, b) == a.lo <= b.hi /\ b.lo <= a.hi
Plus(a, b)  == [lo |-> a.lo + b.lo, hi |-> a.hi + b.hi]

(* survivor_rank: the most precise, and among those the least fact id. *)
Outranks(f, g) == f.decimals > g.decimals \/ (f.decimals = g.decimals /\ f.id < g.id)

(* oim_reduce_group, of a group given by the places of its facts in the    *)
(* rows: the facts are taken in the order they were read.                  *)

Survivor_First(rows, group) == rows[Min(group)]
Survivor(rows, group) ==
  rows[CHOOSE i \in group : \A j \in group : i = j \/ Outranks(rows[i], rows[j])]

(* The intersection of their intervals. *)
Common(rows, group) ==
  [lo |-> Max({FactInterval(rows[i]).lo : i \in group}), hi |-> Min({FactInterval(rows[i]).hi : i \in group})]

(* No fact misses the intersection of those before it, and none has        *)
(* another value at the same precision.                                    *)
Reduces(rows, group) ==
  /\ \A i \in group :
       LET before == {j \in group : j < i}
       IN  before # {} => Meets(Common(rows, before), FactInterval(rows[i]))
  /\ \A i, j \in group : rows[i].decimals = rows[j].decimals => rows[i].value = rows[j].value

SameConcept(f, g) == f.ns = g.ns /\ f.name = g.name

ByConcept(rows, places) == {{j \in places : SameConcept(rows[i], rows[j])} : i \in places}

-----------------------------------------------------------------------------
(* The reporting period: resolve_required_reporting_period.                *)

IsDei(f, name) == f.ns[1] = "dei" /\ f.name = name /\ ~ f.dims

(* The cover facts of the filer. *)
OwnCovers(rows, cik) ==
  {i \in DOMAIN rows : IsDei(rows[i], "DocumentPeriodEndDate") /\ rows[i].text # Null /\ rows[i].entity = cik}

SameWindow(f, g) == f.kind = g.kind /\ f.start = g.start /\ f.end = g.end

(* _candidates_equivalent, of two candidates of the filer's own entity. *)
Equivalent(f, g) == SameWindow(f, g) /\ f.text = g.text /\ f.text = f.end

(* _fiscal_focus: the last such fact of the context that says something. *)
Focus(rows, context, name) ==
  LET said == {i \in DOMAIN rows : rows[i].context = context /\ IsDei(rows[i], name) /\ rows[i].text # Null}
  IN  IF said = {} THEN Null ELSE rows[Max(said)].text

(* The first candidate starts a group, and another group is a conflict;    *)
(* else RequiredPeriodError.                                               *)
PeriodResolves(rows, cik) ==
  LET own == OwnCovers(rows, cik)
  IN  /\ own # {}
      /\ \A i \in own \ {Min(own)} : Equivalent(rows[Min(own)], rows[i])
      /\ rows[Min(own)].kind = "duration"

RequiredPeriod(rows, cik) ==
  LET cover == rows[Min(OwnCovers(rows, cik))]
  IN  [start |-> cover.start, end |-> cover.end,
       year |-> Focus(rows, cover.context, "DocumentFiscalYearFocus")]

NoPeriod == [start |-> Null, end |-> Null, year |-> Null]

(* period_matches_metric *)
PeriodMatches(type, period, f) ==
  /\ f.kind = type
  /\ f.end = period.end
  /\ type = "duration" => f.start = period.start

-----------------------------------------------------------------------------
(* Selection: select_metric.                                               *)

(* _fact_qualifies_slot: a valid US dollar amount of the filer, without    *)
(* dimensions, for the period.                                             *)
Qualifies(f, cik, period, type) ==
  ~ f.dims /\ f.valid /\ f.entity = cik /\ f.usd /\ PeriodMatches(type, period, f)

Candidates(rows, metric, relation, cik, period) ==
  {i \in DOMAIN rows : /\ SupportsOf(rows[i], metric, relation, cik) # {}
                       /\ Qualifies(rows[i], cik, period, PeriodType[metric])}

NoValue(i, metric, period, status, reason) ==
  [filing |-> i, metric |-> metric, status |-> status, reason |-> reason,
   numeric |-> Null, decimals |-> Null, facts |-> {}, decisions |-> {},
   start |-> IF PeriodType[metric] = "duration" THEN period.start ELSE Null,
   end |-> period.end, year |-> period.year]

(* Every exact decision for the metric leaves this filer out. *)
OutOfScope(metric, cik) ==
  LET exact == {d \in ToSet(world.decisions) : Active(d) /\ d.relation = "exact" /\ d.metric = metric}
  IN  exact # {} /\ \A d \in exact : ~ AppliesTo(d, cik)

(* One fact of each concept. *)
Survivors(rows, places) == {Survivor(rows, group) : group \in ByConcept(rows, places)}

(* The facts of one concept disagree, or two concepts do. *)
Clash(rows, places) ==
  \/ \E group \in ByConcept(rows, places) : ~ Reduces(rows, group)
  \/ Cardinality({f.value : f \in Survivors(rows, places)}) > 1

Best(rows, places) ==
  CHOOSE f \in Survivors(rows, places) : \A g \in Survivors(rows, places) : g = f \/ Outranks(f, g)

SelectMetric(i, metric, cik, period, rows) ==
  LET candidates == Candidates(rows, metric, "exact", cik, period)
      none(status, reason) == NoValue(i, metric, period, status, reason)
  IN  IF OutOfScope(metric, cik) THEN none("unsupported", "decision_scope")
      ELSE IF candidates = {}
      THEN none("missing", IF Candidates(rows, metric, "broader", cik, period) # {}
                           THEN "broader_only" ELSE Null)
      ELSE IF Clash(rows, candidates) THEN none("conflict", Null)
      ELSE [none("value", Null) EXCEPT
              !.numeric = Best(rows, candidates).value, !.decimals = Best(rows, candidates).decimals,
              !.facts = {rows[j].id : j \in candidates},
              !.decisions = UNION {SupportsOf(rows[j], metric, "exact", cik) : j \in candidates}]

-----------------------------------------------------------------------------
(* Accounting identities: run_identity_checks.                             *)

(* _qualifying_facts *)
OfConcept(rows, cik, period, name, type) ==
  {i \in DOMAIN rows : /\ rows[i].name = name /\ rows[i].ns[1] = "us-gaap"
                       /\ Qualifies(rows[i], cik, period, type)}

(* _operand_interval: the intersection over all concepts, unless they      *)
(* disagree.                                                               *)
Operand(rows, places) ==
  [lo |-> Max({Common(rows, group).lo : group \in ByConcept(rows, places)}),
   hi |-> Min({Common(rows, group).hi : group \in ByConcept(rows, places)})]

HasOperand(rows, places) ==
  /\ \A group \in ByConcept(rows, places) : Reduces(rows, group)
  /\ Cardinality({Survivor(rows, group).value : group \in ByConcept(rows, places)}) <= 1
  /\ Operand(rows, places).lo <= Operand(rows, places).hi

(* total = part + rest, as far as the rounding of the three tells. *)
Identity_Exact(rows, total, part, rest) ==
  IF /\ HasOperand(rows, total) /\ HasOperand(rows, part) /\ HasOperand(rows, rest)
     /\ Operand(rows, total) = Plus(Operand(rows, part), Operand(rows, rest))
  THEN "pass" ELSE "fail"
Identity(rows, total, part, rest) ==
  IF /\ HasOperand(rows, total) /\ HasOperand(rows, part) /\ HasOperand(rows, rest)
     /\ Meets(Operand(rows, total), Plus(Operand(rows, part), Operand(rows, rest)))
  THEN "pass" ELSE "fail"

NciSplit(rows, cik, period) ==
  LET of(name) == OfConcept(rows, cik, period, name, "duration")
  IN  IF {} \in {of("ProfitLoss"), of("NetIncomeLoss"), of("NciIncome")} THEN "not_applicable"
      ELSE Identity(rows, of("ProfitLoss"), of("NetIncomeLoss"), of("NciIncome"))

(* The equity is the total, or the parent's where nothing speaks of a      *)
(* noncontrolling interest.                                                *)
EquityOf(rows, cik, period) ==
  LET of(name, type) == OfConcept(rows, cik, period, name, type)
  IN  IF of("TotalEquity", "instant") # {} THEN of("TotalEquity", "instant")
      ELSE IF of("MinorityInterest", "instant") = {} /\ of("NciIncome", "duration") = {}
      THEN of("StockholdersEquity", "instant") ELSE {}

BalanceSheet(rows, cik, period) ==
  LET of(name) == OfConcept(rows, cik, period, name, "instant")
      equity == EquityOf(rows, cik, period)
  IN  IF {} \in {of("Assets"), of("Liabilities"), equity} THEN "not_applicable"
      ELSE Identity(rows, of("Assets"), of("Liabilities"), equity)

-----------------------------------------------------------------------------
(* The build: run_build and write_build_output.                            *)

Fail == step' = "failed"

LoadRegistry ==
  /\ step = "registry"
  /\ IF RegistryLoads(world.decisions) THEN step' = "filings" ELSE Fail
  /\ UNCHANGED <<world, stored, nth, loaded, observations, findings, output, report>>

TheFiling == world.filings[nth]

(* The rows come in any order; a filing has one report, or none and no     *)
(* facts.                                                                  *)
LoadedRows == SetToSeqs(IF TheFiling.reports = 0 THEN {} ELSE stored[nth])

(* A filing of another form has observations without a look at its facts.  *)
BuildOtherForm ==
  /\ step = "filings" /\ nth <= Len(world.filings)
  /\ TheFiling.present /\ TheFiling.form \notin AnnualForms
  /\ observations' = observations \union
       {NoValue(nth, m, NoPeriod, "unsupported", "wrong_form") : m \in Metrics}
  /\ loaded' = Append(loaded, {}) /\ nth' = nth + 1
  /\ UNCHANGED <<world, stored, step, findings, output, report>>

(* The period is required, and several reports are refused.                *)
BuildAnnual ==
  /\ step = "filings" /\ nth <= Len(world.filings)
  /\ TheFiling.present /\ TheFiling.form \in AnnualForms
  /\ \E rows \in LoadedRows :
       LET cik == TheFiling.cik
           period == RequiredPeriod(rows, cik)
       IN  IF TheFiling.reports > 1 \/ ~ PeriodResolves(rows, cik)
           THEN Fail /\ UNCHANGED <<nth, loaded, observations, findings>>
           ELSE /\ observations' = observations \union
                     {SelectMetric(nth, m, cik, period, rows) : m \in Metrics}
                /\ findings' = findings \union
                     {[filing |-> nth, name |-> "nci_split", status |-> NciSplit(rows, cik, period)],
                      [filing |-> nth, name |-> "balance_sheet",
                       status |-> BalanceSheet(rows, cik, period)]}
                /\ loaded' = Append(loaded, ToSet(rows)) /\ nth' = nth + 1
                /\ UNCHANGED step
  /\ UNCHANGED <<world, stored, output, report>>

BuildAbsent ==
  /\ step = "filings" /\ nth <= Len(world.filings)
  /\ ~ TheFiling.present
  /\ Fail
  /\ UNCHANGED <<world, stored, nth, loaded, observations, findings, output, report>>

(* compare_gold *)
GoldAgrees(a, o) ==
  /\ a.status = o.status
  /\ a.status # "value" => a.reason = o.reason
  /\ \/ a.status = "unsupported" /\ a.reason = "wrong_form"
     \/ a.start = o.start /\ a.end = o.end /\ a.numeric = o.numeric

(* check_gold_assertions: an assertion about a filing of this build needs  *)
(* its observation.                                                        *)
GoldHolds ==
  \A a \in world.gold : a.filing \in DOMAIN world.filings =>
    \E o \in observations : o.filing = a.filing /\ o.metric = a.metric /\ GoldAgrees(a, o)

CheckGold ==
  /\ step = "filings" /\ nth > Len(world.filings)
  /\ IF GoldHolds THEN step' = "write" ELSE Fail
  /\ UNCHANGED <<world, stored, nth, loaded, observations, findings, output, report>>

Directory(obs, found) == [ours |-> TRUE, observations |-> obs, findings |-> found]

(* The files are written in a temporary directory next to the output. *)
StartWriting ==
  /\ step = "write"
  /\ IF output # Null THEN Fail ELSE step' = "rename"
  /\ UNCHANGED <<world, stored, nth, loaded, observations, findings, output, report>>

(* A directory with files in it is never renamed over. *)
RenameOutput_Over ==
  /\ step = "rename"
  /\ output' = Directory(observations, findings) /\ step' = "quality"
  /\ UNCHANGED <<world, stored, nth, loaded, observations, findings, report>>

RenameOutput ==
  /\ step = "rename"
  /\ IF output # Null THEN Fail /\ UNCHANGED output
     ELSE output' = Directory(observations, findings) /\ step' = "quality"
  /\ UNCHANGED <<world, stored, nth, loaded, observations, findings, report>>

-----------------------------------------------------------------------------
(* The quality report: write_quality_report.                               *)

(* The US-GAAP concepts of the captured schemas, and their release.        *)
Releases(i) == {c[1][2] : c \in {d \in world.filings[i].schema : d[1][1] = "us-gaap"}}

(* load_filing_taxonomy_availability: a filing has one published bundle,   *)
(* and an annual one a US-GAAP schema in it; and                           *)
(* load_quality_filing_source: no filing has two reports.                  *)
Available(i) ==
  /\ world.filings[i].reports <= 1 /\ world.filings[i].bundles = 1
  /\ world.filings[i].form \in AnnualForms => Releases(i) # {}

(* slot_decision_applicable; with one release every US-GAAP concept is of  *)
(* it, and with several (mixed) all count.                                 *)
Applicable(i, metric) ==
  LET cik == world.filings[i].cik
  IN  /\ world.filings[i].form \in AnnualForms
      /\ \E d \in ToSet(world.decisions) :
           /\ Active(d) /\ d.relation = "exact" /\ d.metric = metric
           /\ d.family = "us-gaap" /\ AppliesTo(d, cik)
           /\ \E c \in world.filings[i].schema : c[1][1] = "us-gaap" /\ Matches(d, cik, c[1], c[2])

(* source_fact_oracle_eligible *)
OracleEligible(f) == f.ns[1] \in {"us-gaap", "dei", "srt"} /\ ~ f.dims /\ f.usd

(* oracle_value: the distinct values of the points for that fact. *)
OracleValues(o, f) ==
  {p.value : p \in {q \in world.points :
     q.filing = o.filing /\ q.family = f.ns[1] /\ q.name = f.name /\ q.start = o.start /\ q.end = o.end}}

(* oracle_comparison_for_observation, on the facts as they are read again. *)
OracleFact_SameValue(o, facts) == {f \in facts : OracleEligible(f) /\ f.valid /\ f.value = o.numeric}
OracleFact(o, facts) ==
  {f \in facts : f.id \in o.facts /\ OracleEligible(f) /\ f.valid /\ f.value = o.numeric}

OracleLabel(o, facts) ==
  LET eligible == OracleFact(o, facts)
      values == OracleValues(o, CHOOSE f \in eligible : \A g \in eligible : f.id <= g.id)
  IN  IF o.status # "value" \/ eligible = {} \/ ~ world.cached THEN "na"
      ELSE IF values = {} THEN "absent"
      ELSE IF Cardinality(values) > 1 THEN "ambiguous"
      ELSE IF values = {o.numeric} THEN "agree" ELSE "differ"

(* build_quality_document refuses a published value without an applicable  *)
(* decision.                                                               *)
SlotRefused == \E o \in observations : o.status = "value" /\ ~ Applicable(o.filing, o.metric)

AllAvailable == \A i \in DOMAIN world.filings : Available(i)

FailQuality ==
  /\ step = "quality"
  /\ ~ AllAvailable
  /\ Fail
  /\ UNCHANGED <<world, stored, nth, loaded, observations, findings, output, report>>

RefuseQuality ==
  /\ step = "quality"
  /\ AllAvailable /\ SlotRefused
  /\ step' = "refused"
  /\ UNCHANGED <<world, stored, nth, loaded, observations, findings, output, report>>

ReportQuality ==
  /\ step = "quality"
  /\ AllAvailable /\ ~ SlotRefused
  /\ report' = {[slot |-> o, label |-> OracleLabel(o, stored[o.filing])] : o \in observations}
  /\ step' = "done"
  /\ UNCHANGED <<world, stored, nth, loaded, observations, findings, output>>

-----------------------------------------------------------------------------
(* What happens meanwhile.                                                 *)

(* The filing is extracted again while the build or its report runs: other *)
(* rows, with other ids.                                                   *)
Reextract ==
  /\ step \notin {"failed", "refused", "done"}
  /\ \E i \in DOMAIN world.filings :
       /\ world.filings[i].next # Null /\ stored[i] = world.filings[i].facts
       /\ stored' = [stored EXCEPT ![i] = world.filings[i].next]
  /\ UNCHANGED <<world, step, nth, loaded, observations, findings, output, report>>

OtherBuild ==
  /\ output = Null
  /\ output' = [ours |-> FALSE]
  /\ UNCHANGED <<world, stored, step, nth, loaded, observations, findings, report>>

BuildDies ==
  /\ step \notin {"failed", "refused", "done"}
  /\ Fail
  /\ UNCHANGED <<world, stored, nth, loaded, observations, findings, output, report>>

FinancialsInit ==
  /\ world \in Worlds
  /\ stored = [i \in DOMAIN world.filings |-> world.filings[i].facts]
  /\ step = "registry" /\ nth = 1 /\ loaded = <<>>
  /\ observations = {} /\ findings = {}
  /\ output = Null /\ report = {}

FinancialsNext ==
  \/ LoadRegistry \/ BuildOtherForm \/ BuildAnnual \/ BuildAbsent \/ CheckGold
  \/ StartWriting \/ RenameOutput \/ FailQuality \/ RefuseQuality \/ ReportQuality
  \/ Reextract \/ OtherBuild \/ BuildDies

FinancialsSpec == FinancialsInit /\ [][FinancialsNext]_financialsVars

-----------------------------------------------------------------------------
(* Properties.                                                             *)

(* The state of a build between its steps. *)
FinancialsTypeOK ==
  /\ step \in {"idle", "registry", "filings", "write", "rename", "quality", "done", "refused", "failed"}
  /\ nth \in 1 .. Len(world.filings) + 1 /\ Len(loaded) = nth - 1
  /\ \A o \in observations :
       /\ o.filing \in 1 .. nth - 1 /\ o.metric \in Metrics
       /\ o.status \in {"value", "missing", "unsupported", "conflict"}
       /\ (o.numeric = Null) = (o.status # "value")
  /\ \A o, q \in observations : o.filing = q.filing /\ o.metric = q.metric => o = q

(* The facts that speak for a metric: of the filing as it was read, by an  *)
(* exact decision in force, in the window the observation names.           *)
Speaking(o) ==
  {f \in loaded[o.filing] :
     /\ ~ f.dims /\ f.valid /\ f.usd /\ f.entity = world.filings[o.filing].cik
     /\ f.kind = PeriodType[o.metric] /\ f.end = o.end /\ (o.start # Null => f.start = o.start)
     /\ \E d \in ToSet(world.decisions) :
          /\ d.accepted /\ d.relation = "exact" /\ d.metric = o.metric
          /\ AppliesTo(d, f.entity) /\ Matches(d, f.entity, f.ns, f.name)}

Disagree(f, g) ==
  \/ f.decimals = g.decimals /\ f.value # g.value
  \/ FactInterval(f).hi < FactInterval(g).lo \/ FactInterval(g).hi < FactInterval(f).lo

MostPrecise(f, S) == \A g \in S : SameConcept(f, g) => g.decimals <= f.decimals

(* No two facts of one concept disagree, and the most precise of each      *)
(* concept have one value.                                                 *)
Agree(S) ==
  /\ \A f, g \in S : SameConcept(f, g) => ~ Disagree(f, g)
  /\ \A f, g \in S : MostPrecise(f, S) /\ MostPrecise(g, S) => f.value = g.value

(* What select_metric and oim_reduce_group must come to, whatever order    *)
(* the rows came in: a value when all the facts that speak for the metric  *)
(* agree, with all of them cited, each by one decision, and the greatest   *)
(* precision; a conflict when they do not; missing when there are none.    *)
SelectionIsRight ==
  \A o \in {p \in observations : p.reason \notin {"wrong_form", "decision_scope"}} :
    LET S == Speaking(o)
    IN  /\ o.status = "missing" <=> S = {}
        /\ o.status = "value" <=> S # {} /\ Agree(S)
        /\ o.status = "value" =>
             /\ o.facts = {f.id : f \in S}
             /\ o.decimals = Max({f.decimals : f \in S})
             /\ \E f \in S : f.value = o.numeric /\ f.decimals = o.decimals
             /\ \A f \in S :
                  Cardinality(SupportsOf(f, o.metric, "exact", world.filings[o.filing].cik)) = 1

(* A filing is built for one period only: every cover fact of the filer    *)
(* names the same window, whichever is read first; a second one is         *)
(* believed only if its text is the end of that window (the grouping of    *)
(* resolve_required_reporting_period).                                     *)
PeriodIsUnambiguous ==
  \A o \in {p \in observations : p.end # Null} :
    LET own == {f \in loaded[o.filing] :
                  /\ IsDei(f, "DocumentPeriodEndDate") /\ f.text # Null
                  /\ f.entity = world.filings[o.filing].cik}
    IN  /\ own # {}
        /\ \A f \in own : f.kind = "duration" /\ f.end = o.end /\ (o.start # Null => f.start = o.start)
        /\ Cardinality(own) > 1 => \A f \in own : f.text = o.end

(* Every observation is the one that all the facts of the filing, and only *)
(* they, call for: of the one period, and of the agreed value.             *)
ObservationsAreRight == FinancialsTypeOK /\ SelectionIsRight /\ PeriodIsUnambiguous

(* The facts of a concept that the balance sheet of a filing compares. *)
SheetFacts(i, name) ==
  {f \in loaded[i] :
     /\ f.name = name /\ f.ns[1] = "us-gaap" /\ ~ f.dims /\ f.valid /\ f.usd /\ f.kind = "instant"
     /\ f.entity = world.filings[i].cik /\ \A o \in observations : o.filing = i => o.end = f.end}

(* The amounts, in halves of a unit, that the rounding of all of S allows. *)
Within(S) ==
  {x \in Min({FactInterval(f).lo : f \in S}) .. Max({FactInterval(f).hi : f \in S}) :
     \A f \in S : FactInterval(f).lo <= x /\ x <= FactInterval(f).hi}

(* The equity of the sheet: the total's, or else the parent's. *)
SheetEquity(i) ==
  IF SheetFacts(i, "TotalEquity") # {} THEN SheetFacts(i, "TotalEquity")
  ELSE SheetFacts(i, "StockholdersEquity")

CanBalance(i) ==
  \E l \in Within(SheetFacts(i, "Liabilities")), e \in Within(SheetEquity(i)) :
    l + e \in Within(SheetFacts(i, "Assets"))

(* The facts at the end of the period, side by side, do not contradict     *)
(* each other.                                                             *)
SidesAgree(i) ==
  Agree(SheetFacts(i, "Assets")) /\ Agree(SheetFacts(i, "Liabilities")) /\ Agree(SheetEquity(i))

(* A balance sheet passes exactly if amounts within the rounding of all    *)
(* that was filed for each side at the end of the period satisfy the       *)
(* identity, and the facts of each side agree among themselves.  So it     *)
(* fails only for one of the two reasons validate.py gives: no amounts     *)
(* balance ("intervals disjoint"), or one side was filed twice and         *)
(* differently ("inconsistent duplicate facts"), even where some of the    *)
(* amounts would balance; comparative years have no part in it             *)
(* (_operand_interval, ClosedInterval, _balance_sheet).                    *)
IdentitiesAreSound ==
  \A r \in {q \in findings : q.name = "balance_sheet" /\ q.status # "not_applicable"} :
    r.status = "pass" <=> CanBalance(r.filing) /\ SidesAgree(r.filing)

(* The output directory appears whole: all the observations and findings   *)
(* of all the filings, although the build may die between any two writes.  *)
OutputIsWhole ==
  output # Null /\ output.ours =>
    /\ {<<o.filing, o.metric>> : o \in output.observations} = (DOMAIN world.filings) \X Metrics
    /\ {<<r.filing, r.name>> : r \in output.findings} =
         {i \in DOMAIN world.filings : world.filings[i].form \in AnnualForms}
           \X {"nci_split", "balance_sheet"}

(* The output directory appears whole, and what a build has published, or  *)
(* another build has, is never replaced (the check before the files are    *)
(* written is repeated by the rename).                                     *)
OutputIsFinal == []OutputIsWhole /\ [][output # Null => output' = output]_financialsVars

(* A companyfacts verdict is about a fact the build read and chose: a fact *)
(* that speaks for the metric and carries the published value, compared    *)
(* with the points of its own concept, although the filing may have been   *)
(* extracted again between the build and the report                        *)
(* (oracle_comparison_for_observation).                                    *)
OracleFollowsTheFact ==
  \A s \in report : s.label # "na" =>
    \E f \in Speaking(s.slot) :
      /\ f.value = s.slot.numeric /\ f \in stored[s.slot.filing]
      /\ LET said == OracleValues(s.slot, f)
         IN  /\ s.label = "absent" => said = {}
             /\ s.label = "agree"  => said = {f.value}
             /\ s.label = "differ" => said # {} /\ f.value \notin said

(* docs/development.md:68: n_decision_applicable uses the same QName match *)
(* as selection; then no value that was selected is without an applicable  *)
(* decision, and build_quality_document has nothing to refuse.             *)
ApplicableAsSelected == step # "refused"
=============================================================================
