------------------------------ MODULE Sections ------------------------------
(***************************************************************************)
(* Extraction of the regulatory sections of a filing from the blocks of    *)
(* its main document (parsing/sections.py).                                *)
(*                                                                         *)
(* A block is a record of what the regular expressions and the signals say *)
(* of it.  Part I to IV markers, Item markers and the signature heading    *)
(* are exclusive, since all three are anchored at the start of the text.   *)
(* A block without a signal is one whose flags are FALSE.                  *)
(*                                                                         *)
(* A definition Op_Slip is Op with a plausible slip; it is not part of the *)
(* model and shows that a property notices the slip.                       *)
(***************************************************************************)
EXTENDS Integers, Sequences, FiniteSets, SequencesExt, FiniteSetsExt, TLC

CONSTANTS
    Documents,            \* the inputs considered: <<form, sequence of blocks>>
    ItemNeighborhood,   \* _TOC_ITEM_NEIGHBORHOOD, 30 in the code
    HeadingNeighborhood \* _TOC_HEADING_NEIGHBORHOOD, 15 in the code

ASSUME NeighborhoodAssumption ==
    ItemNeighborhood \in Nat /\ HeadingNeighborhood \in Nat

\* The forms of extract_filing_sections, and what is known of a block.
Forms == {"10-K", "10-K/A", "10-Q", "10-Q/A"}
BlockRecords ==
    [signature : BOOLEAN, part : 0..4, items : Seq(STRING), tocText : BOOLEAN,
     heading : BOOLEAN, bold : BOOLEAN, anchor : BOOLEAN, short : BOOLEAN,
     linkHeavy : BOOLEAN, manyLinks : BOOLEAN, pageSuffix : BOOLEAN]

ASSUME DocumentsAssumption ==
    \A d \in Documents : d \in Forms \X Seq(BlockRecords)

VARIABLES
    form, doc,      \* the input
    phase,          \* the step extract_filing_sections is about to take
    marks,          \* Part, Item and terminal occurrences and the TOC ordinals
    cands,          \* Item candidates with their Part, and unresolved ones
    chosen,         \* starts, ambiguous keys, collapsed keys, the terminal
    out             \* sections, issues and status

sectionsVars == <<form, doc, phase, marks, cands, chosen, out>>

NoOrdinal == -1          \* no ordinal; also the ordinal before the first

-----------------------------------------------------------------------------
(* Grammar.  A key <<p, i>> is part_p.item_i; a persisted section is named *)
(* by the boundary where it starts.                                        *)

BaseForm(f) == IF f \in {"10-K", "10-K/A"} THEN "10-K" ELSE "10-Q"
IsAmendment(f) == f \in {"10-K/A", "10-Q/A"}

Boundary10K ==
    <<<<1, "1">>, <<1, "1a">>, <<1, "1b">>, <<1, "1c">>, <<1, "2">>,
      <<1, "3">>, <<1, "4">>, <<2, "5">>, <<2, "6">>, <<2, "7">>, <<2, "7a">>,
      <<2, "8">>, <<2, "9">>, <<2, "9a">>, <<2, "9b">>, <<2, "9c">>,
      <<3, "10">>, <<3, "11">>, <<3, "12">>, <<3, "13">>, <<3, "14">>,
      <<4, "15">>, <<4, "16">>>>

Boundary10Q ==
    <<<<1, "1">>, <<1, "2">>, <<1, "3">>, <<1, "4">>, <<2, "1">>, <<2, "1a">>,
      <<2, "2">>, <<2, "3">>, <<2, "4">>, <<2, "5">>, <<2, "6">>>>

BoundaryKeys(f) == IF BaseForm(f) = "10-K" THEN Boundary10K ELSE Boundary10Q

PersistedKeys(f) ==
    IF BaseForm(f) = "10-K"
    THEN {<<1, "1">>, <<1, "1a">>, <<1, "1b">>, <<1, "1c">>, <<2, "7">>,
          <<2, "7a">>, <<2, "8">>}
    ELSE {<<1, "1">>, <<1, "2">>, <<1, "3">>, <<1, "4">>, <<2, "1">>, <<2, "1a">>}

\* The Part of an Item of a 10-K.  The Part markers of a 10-K only confirm
\* it; a token outside the grammar counts for Part I and then has no key.
DefaultPart10K(token) ==
    LET keys == {k \in Range(Boundary10K) : k[2] = token}
    IN  IF keys = {} THEN 1 ELSE (CHOOSE k \in keys : TRUE)[1]

Index(order, key) == CHOOSE i \in DOMAIN order : order[i] = key
Successors(order, key) == {order[i] : i \in (Index(order, key) + 1)..Len(order)}

\* The records of a set in the order of their ordinals, which all differ.
ByOrdinal(set) ==
    [i \in 1..Cardinality(set) |->
        CHOOSE x \in set : Cardinality({y \in set : y.ord < x.ord}) = i - 1]

-----------------------------------------------------------------------------
(* Scores (sec-item-sequence-v2).                                          *)

ItemBase == 40
PartBase == 40
SignatureBase == 50
MultiItemCap == 25
ClusterPenalty == 60
BodyBaseline == 30
ScoreGap == 15

TocPenalty(b, ord, n) ==
    (IF b.linkHeavy THEN 40 ELSE 0) + (IF b.manyLinks THEN 25 ELSE 0)
    + (IF b.pageSuffix THEN 20 ELSE 0)
    + (IF (b.linkHeavy \/ b.pageSuffix) /\ ord * 10 < n THEN 5 ELSE 0)

BodyBonus(b) ==
    (IF b.heading THEN 25 ELSE 0) + (IF b.bold THEN 15 ELSE 0)
    + (IF b.anchor THEN 20 ELSE 0) + (IF b.short THEN 10 ELSE 0)

Score(base, b, ord, n) == base + BodyBonus(b) - TocPenalty(b, ord, n)

Selectable(score) == score > BodyBaseline
Contribution(score) == score - BodyBaseline

-----------------------------------------------------------------------------
(* Occurrences and the table of contents.                                  *)

Block(ord) == doc[ord + 1]
Ordinals == 0..(Len(doc) - 1)

Occurrences ==
    LET n == Len(doc)
        S(base, o) == Score(base, Block(o), o, n)
        Capped(o) == IF Len(Block(o).items) > 1 THEN Min({S(ItemBase, o), MultiItemCap})
                                                ELSE S(ItemBase, o)
    IN  [terminals |-> {[ord |-> o, score |-> S(SignatureBase, o)] :
                          o \in {x \in Ordinals : Block(x).signature}},
         parts |-> {[ord |-> o, score |-> S(PartBase, o), part |-> Block(o).part] :
                      o \in {x \in Ordinals : Block(x).part # 0}},
         items |-> {[ord |-> o, score |-> Capped(o), tokens |-> Block(o).items] :
                      o \in {x \in Ordinals : Block(x).items # <<>>}}]

Distance(a, b) == IF a > b THEN a - b ELSE b - a
TocHeadings == {o \in Ordinals : Block(o).tocText}
NearTocHeading(o) == \E h \in TocHeadings : Distance(o, h) <= HeadingNeighborhood
StrongBody(b) == ~b.linkHeavy /\ (b.heading \/ b.bold \/ b.anchor)

\* Items that look like entries of a table of contents.  A heading, bold or
\* anchored Item needs evidence of its own.
TocCluster(itemOrds) ==
    {i \in itemOrds :
        /\ \E o \in itemOrds : /\ Distance(o, i) <= ItemNeighborhood
                               /\ NearTocHeading(o) \/ Block(o).linkHeavy
        /\ \/ Block(i).pageSuffix
           \/ Block(i).linkHeavy
           \/ ~StrongBody(Block(i)) /\ NearTocHeading(i)}

\* The spans of the clusters of TOC Items: from the first Item, or a TOC
\* heading shortly before it, to the last one.
TocSpans(tocItems) ==
    LET ordered == SetToSortSeq(tocItems, <)
        Grow(clusters, o) ==
            IF clusters # <<>> /\ o - Last(clusters)[2] <= ItemNeighborhood
            THEN ReplaceAt(clusters, Len(clusters), <<Last(clusters)[1], o>>)
            ELSE Append(clusters, <<o, o>>)
        Heading(first) ==
            LET before == {h \in TocHeadings : h <= first}
            IN  IF before # {} /\ first - Max(before) <= HeadingNeighborhood
                THEN Max(before) ELSE first
    IN  {<<Heading(c[1]), c[2]>> : c \in Range(FoldLeft(Grow, <<>>, ordered))}

\* Parts and terminals are TOC entries inside a span; TOC entries lose score.
TocMarks(occ) ==
    LET tocItems == TocCluster({o.ord : o \in occ.items})
        spans == TocSpans(tocItems)
        toc == tocItems \cup {x.ord : x \in {y \in occ.parts \cup occ.terminals :
                                \E s \in spans : s[1] <= y.ord /\ y.ord <= s[2]}}
        Adjust(set) == {IF o.ord \in toc THEN [o EXCEPT !.score = @ - ClusterPenalty]
                                         ELSE o : o \in set}
    IN  [parts |-> Adjust(occ.parts), items |-> Adjust(occ.items),
         terminals |-> Adjust(occ.terminals), toc |-> toc]

-----------------------------------------------------------------------------
(* The best monotonic sequence of boundaries.                              *)
(*                                                                         *)
(* options[i] is a sequence of choices for the i-th boundary, the first of *)
(* them to skip it.  A layer is a sequence of nodes with distinct last     *)
(* ordinals, in the order in which the dictionary got them.                *)

Skip == [ord |-> NoOrdinal, score |-> 0]

OptionsFor(order, candidates) ==
    [i \in DOMAIN order |->
        <<Skip>> \o ByOrdinal({[ord |-> c.ord, score |-> c.score] :
                        c \in {x \in candidates : x.key = order[i] /\ Selectable(x.score)}})]

NodeBetter(a, b) ==
    \/ a.score > b.score
    \/ a.score = b.score /\ a.last < b.last
    \/ a.score = b.score /\ a.last = b.last /\ a.skipped /\ ~b.skipped

\* A node takes the place of a worse one with the same last ordinal.
Put(next, node) ==
    LET same == {i \in DOMAIN next : next[i].last = node.last}
    IN  IF same = {} THEN Append(next, node)
        ELSE LET i == CHOOSE x \in same : TRUE
             IN  IF NodeBetter(node, next[i]) THEN [next EXCEPT ![i] = node] ELSE next

Follows(prev, opt) == opt = Skip \/ opt.ord > prev.last

\* The node that prev and then opt lead to.
Follow(prev, opt) ==
    IF opt = Skip
    THEN [prev EXCEPT !.path = Append(@, NoOrdinal), !.skipped = TRUE]
    ELSE [score |-> prev.score + Contribution(opt.score), last |-> opt.ord,
          skipped |-> FALSE, path |-> Append(prev.path, opt.ord)]

\* One layer of the dynamic programme: every option after every node.
Extend(layer, next, opt) ==
    FoldLeft(LAMBDA nodes, prev : IF Follows(prev, opt) THEN Put(nodes, Follow(prev, opt))
                                                         ELSE nodes,
             next, layer)
NextLayer(layer, opts) == FoldLeft(LAMBDA next, opt : Extend(layer, next, opt), <<>>, opts)

FirstNode == [score |-> 0, last |-> NoOrdinal, skipped |-> TRUE, path |-> <<>>]
LastLayer(options) == FoldLeft(NextLayer, <<FirstNode>>, options)

BestNode(layer) ==
    FoldLeft(LAMBDA best, node : IF NodeBetter(node, best) THEN node ELSE best,
             Head(layer), Tail(layer))

\* The other choices for a boundary; to skip it is one of them.
Alternatives_Slip(opts, ord) == {opt \in Range(opts) : opt.ord # ord /\ opt # Skip}
Alternatives(opts, ord) == {opt \in Range(opts) : opt.ord # ord}

\* The best sequence with opt for the i-th boundary is nearly as good as best.
Close(options, best, i, opt) ==
    LET layer == LastLayer([options EXCEPT ![i] = <<opt>>])
    IN  layer # <<>> /\ best.score - BestNode(layer).score <= ScoreGap

CloseAlternatives(options, best, i) ==
    {opt \in Alternatives(options[i], best.path[i]) : Close(options, best, i, opt)}

\* selected maps a key to an ordinal or NoOrdinal; a key is ambiguous when some
\* other choice for it comes within the gap of the best score.
MonotonicDp(order, candidates) ==
    LET options == OptionsFor(order, candidates)
        best == BestNode(LastLayer(options))
        alts == [i \in DOMAIN order |-> CloseAlternatives(options, best, i)]
    IN  [selected |-> [k \in Range(order) |->
                         LET i == Index(order, k) IN IF alts[i] = {} THEN best.path[i] ELSE NoOrdinal],
         ambiguous |-> {order[i] : i \in {j \in DOMAIN order : alts[j] # {}}},
         alts |-> [k \in Range(order) |->
                     LET i == Index(order, k)
                     IN  IF alts[i] = {} THEN {}
                         ELSE ({o.ord : o \in alts[i]} \cup {best.path[i]}) \ {NoOrdinal}]]

-----------------------------------------------------------------------------
(* Parts.                                                                  *)

\* Where Part I and Part II of a 10-Q begin.
Resolve10QParts(m) ==
    LET of(p) == {[key |-> p, ord |-> o.ord, score |-> o.score] :
                    o \in {x \in m.parts : x.part = p /\ x.ord \notin m.toc}}
    IN  MonotonicDp(<<1, 2>>, of(1) \cup of(2))

PartIOrder == <<"1", "2", "3", "4">>

\* The Part of one Item of a 10-Q: 1, 2 or NoOrdinal, and what is remembered of
\* Part I (the rank of its last Item, and whether it has ended).
PartOf10QItem(res, memo, ord, token) ==
    LET p1 == res.selected[1]
        p2 == res.selected[2]
        rank == IF token \in Range(PartIOrder) THEN Index(PartIOrder, token) ELSE 0
        resolved(p) == [memo EXCEPT !.part = p]
        ended == [memo EXCEPT !.part = NoOrdinal, !.ended = TRUE]
        unresolved == [memo EXCEPT !.part = NoOrdinal]
        inPartI == IF rank = 0 \/ rank < memo.rank THEN ended
                   ELSE [memo EXCEPT !.part = 1, !.rank = rank]
    IN  CASE p2 # NoOrdinal /\ ord >= p2 -> resolved(2)
          [] p2 # NoOrdinal /\ ord < p2 -> IF p1 # NoOrdinal /\ ord >= p1 THEN resolved(1) ELSE unresolved
          [] p2 = NoOrdinal /\ p1 = NoOrdinal -> unresolved
          [] p2 = NoOrdinal /\ p1 # NoOrdinal /\ 2 \in res.ambiguous ->
                IF memo.ended THEN unresolved
                ELSE IF res.alts[2] # {} /\ ord >= Min(res.alts[2]) THEN ended
                ELSE IF ord < p1 THEN unresolved
                ELSE inPartI
          [] OTHER -> IF ord < p1 \/ memo.ended THEN unresolved ELSE inPartI

\* One Item named at o: with its key, or without a Part.
AssignToken(f, m, res, acc, o, token) ==
    LET boundary == Range(BoundaryKeys(f))
        memo == IF BaseForm(f) = "10-K"
                THEN [acc.memo EXCEPT !.part = DefaultPart10K(token)]
                ELSE PartOf10QItem(res, acc.memo, o.ord, token)
        key == <<memo.part, token>>
    IN  [memo |-> memo,
         items |-> IF memo.part # NoOrdinal /\ key \in boundary
                   THEN acc.items \cup {[key |-> key, ord |-> o.ord, score |-> o.score,
                                         toc |-> o.ord \in m.toc]}
                   ELSE acc.items,
         unresolved |-> IF memo.part # NoOrdinal THEN acc.unresolved
                        ELSE acc.unresolved \cup
                               {<<<<p, token>>, o.ord>> : p \in {q \in {1, 2} : <<q, token>> \in boundary}}]

AssignItem(f, m, res, acc, o) ==
    FoldLeft(LAMBDA x, token : AssignToken(f, m, res, x, o, token), acc, o.tokens)

NothingAssigned ==
    [memo |-> [part |-> NoOrdinal, rank |-> 0, ended |-> FALSE], items |-> {}, unresolved |-> {}]

\* Candidates with their keys, and the ordinals whose Part is unresolved.
AssignItemParts(f, m, res) ==
    FoldLeft(LAMBDA acc, o : AssignItem(f, m, res, acc, o), NothingAssigned, ByOrdinal(m.items))

-----------------------------------------------------------------------------
(* Starts, the terminal and the ends of sections.                          *)

Body(c) == {x \in c.items : ~x.toc}

\* Pairs <<key, ordinal>> of body candidates that share their ordinal with
\* another key.
Collapsed(c) ==
    {<<x.key, x.ord>> : x \in {y \in Body(c) : \E z \in Body(c) :
                                  z.ord = y.ord /\ z.key # y.key}}

\* The signature heading after the last start: the best one, unless another
\* one is nearly as good.
ResolveTerminal(m, lastBody) ==
    LET after == {t \in m.terminals : t.ord \notin m.toc /\ t.ord > lastBody}
        bodyish == IF \E t \in after : Selectable(t.score)
                   THEN {t \in after : Selectable(t.score)} ELSE after
        best == CHOOSE t \in bodyish : \A u \in bodyish :
                    t.score > u.score \/ (t.score = u.score /\ t.ord <= u.ord)
        tie == \E u \in bodyish : u # best /\ best.score - u.score <= ScoreGap
    IN  [ord |-> IF bodyish = {} \/ tie THEN NoOrdinal ELSE best.ord,
         issues |-> IF tie THEN {[code |-> "BOUNDARY_UNRESOLVED", key |-> <<0, "terminal">>]}
                           ELSE {}]

Choose(f, m, c) ==
    LET order == BoundaryKeys(f)
        collapsed == Collapsed(c)
        keys == {p[1] : p \in collapsed}
        dp == MonotonicDp(order, {x \in Body(c) : x.key \notin keys})
        starts == {dp.selected[k] : k \in DOMAIN dp.selected}
    IN  [selected |-> dp.selected, ambiguous |-> dp.ambiguous, alts |-> dp.alts,
         collapsed |-> collapsed, terminal |-> ResolveTerminal(m, Max(starts \cup {NoOrdinal}))]

\* Ordinals where a later boundary than key may lie: collapsed, ambiguous, or
\* without a Part.
Doubtful(f, c, ch, key) ==
    LET succ == Successors(BoundaryKeys(f), key)
    IN  {p[2] : p \in {q \in ch.collapsed \cup c.unresolved : q[1] \in succ}}
        \cup UNION {ch.alts[k] : k \in succ}

ProspectiveEnd_Slip(next, terminal) == IF terminal # NoOrdinal THEN terminal ELSE next
ProspectiveEnd(next, terminal) == IF next # NoOrdinal THEN next ELSE terminal

\* The end of the section that starts at key, or NoOrdinal: the next start in the
\* order of the grammar, else the terminal, provided that nothing in between
\* may be a later boundary.
EndFor(f, c, ch, key) ==
    LET start == ch.selected[key]
        order == BoundaryKeys(f)
        later == {i \in DOMAIN order : ch.selected[order[i]] > start}
        next == IF later # {} THEN ch.selected[order[Min(later)]] ELSE NoOrdinal
        terminal == IF ch.terminal.ord > start THEN ch.terminal.ord ELSE NoOrdinal
        end == ProspectiveEnd(next, terminal)
    IN  IF \E o \in Doubtful(f, c, ch, key) : start < o /\ (end = NoOrdinal \/ o < end) THEN NoOrdinal
        ELSE IF end # NoOrdinal /\ terminal # NoOrdinal THEN Min({end, terminal})
        ELSE end

TocKeys(f, m) ==
    UNION {{<<IF BaseForm(f) = "10-K" THEN DefaultPart10K(t) ELSE 1, t>> : t \in Range(o.tokens)} :
             o \in {x \in m.items : x.ord \in m.toc}}

\* Why a persisted section has no start.
MissingStart_Slip(f, m, c, ch, key) ==
    LET tocKeys == TocKeys(f, m)
        tocMatch == \/ key \in tocKeys
                    \/ BaseForm(f) = "10-Q" /\ \E p \in {1, 2} : <<p, key[2]>> \in tocKeys
    IN  CASE key \in {p[1] : p \in ch.collapsed} -> "BOUNDARY_UNRESOLVED"
          [] key \in {p[1] : p \in c.unresolved} -> "AMBIGUOUS"
          [] tocMatch /\ ~ \E x \in Body(c) : x.key = key -> "TOC_ONLY"
          [] OTHER -> IF IsAmendment(f) THEN "none" ELSE "NOT_FOUND"

MissingStart(f, m, c, ch, key) ==
    LET tocKeys == TocKeys(f, m)
        tocMatch == \/ key \in tocKeys
                    \/ BaseForm(f) = "10-Q" /\ \E p \in {1, 2} : <<p, key[2]>> \in tocKeys
    IN  CASE key \in {p[1] : p \in ch.collapsed} -> "BOUNDARY_UNRESOLVED"
          [] key \in ch.ambiguous \cup {p[1] : p \in c.unresolved} -> "AMBIGUOUS"
          [] tocMatch /\ ~ \E x \in Body(c) : x.key = key -> "TOC_ONLY"
          [] OTHER -> IF IsAmendment(f) THEN "none" ELSE "NOT_FOUND"

Confidence(score) == Max({0, Min({100, score})})
ScoreAt(c, key, ord) == (CHOOSE x \in Body(c) : x.key = key /\ x.ord = ord).score

AssembleSections(f, m, c, ch) ==
    LET persisted == PersistedKeys(f)
        started == {k \in persisted : ch.selected[k] # NoOrdinal}
        ended == {k \in started : EndFor(f, c, ch, k) > ch.selected[k]}
        issues == {[code |-> MissingStart(f, m, c, ch, k), key |-> k] : k \in persisted \ started}
                  \cup {[code |-> "BOUNDARY_UNRESOLVED", key |-> k] : k \in started \ ended}
        kept == {i \in issues : i.code # "none"}
    IN  [sections |-> {[key |-> k, start |-> ch.selected[k], end |-> EndFor(f, c, ch, k),
                        confidence |-> Confidence(ScoreAt(c, k, ch.selected[k]))] :
                         k \in ended},
         issues |-> kept \cup ch.terminal.issues,
         status |-> IF \A i \in kept : i.code = "NOT_FOUND" THEN "complete" ELSE "incomplete"]

-----------------------------------------------------------------------------
(* extract_filing_sections, one action per step.                           *)

NoMarks == [parts |-> {}, items |-> {}, terminals |-> {}, toc |-> {}]
NoParts == [selected |-> <<NoOrdinal, NoOrdinal>>, ambiguous |-> {}, alts |-> <<{}, {}>>]
NoChoice == [collapsed |-> {}]
NoCandidates == [items |-> {}, unresolved |-> {}]
NoOutput == [sections |-> {}, issues |-> {}, status |-> "none"]

SectionsInit ==
    /\ \E f \in Documents : form = f[1] /\ doc = f[2]
    /\ phase = "mark"
    /\ marks = NoMarks /\ cands = NoCandidates /\ chosen = NoChoice /\ out = NoOutput

\* A document other than the main one: no sections are looked for.
Attachment ==
    /\ form = "10-K" /\ doc = <<>> /\ phase = "skipped"
    /\ marks = NoMarks /\ cands = NoCandidates /\ chosen = NoChoice
    /\ out = [NoOutput EXCEPT !.status = "complete"]

\* _collect_raw_occurrences and _apply_toc_marks.
Mark ==
    /\ phase = "mark"
    /\ marks' = TocMarks(Occurrences)
    /\ phase' = "assign"
    /\ UNCHANGED <<form, doc, cands, chosen, out>>

\* _resolve_10q_parts and _assign_item_parts.
Assign ==
    /\ phase = "assign"
    /\ LET res == IF BaseForm(form) = "10-Q" THEN Resolve10QParts(marks) ELSE NoParts
           a == AssignItemParts(form, marks, res)
       IN  cands' = [items |-> a.items, unresolved |-> a.unresolved]
    /\ phase' = "choose"
    /\ UNCHANGED <<form, doc, marks, chosen, out>>

\* _detect_same_ordinal_collapse, _global_monotonic_dp, _resolve_terminal.
ChooseStarts ==
    /\ phase = "choose"
    /\ chosen' = Choose(form, marks, cands)
    /\ phase' = "emit"
    /\ UNCHANGED <<form, doc, marks, cands, out>>

Emit ==
    /\ phase = "emit"
    /\ out' = AssembleSections(form, marks, cands, chosen)
    /\ phase' = "done"
    /\ UNCHANGED <<form, doc, marks, cands, chosen>>

SectionsNext == Mark \/ Assign \/ ChooseStarts \/ Emit
SectionsSpec == SectionsInit /\ [][SectionsNext]_sectionsVars

-----------------------------------------------------------------------------
(* Properties.                                                             *)

SectionsTypeOK ==
    /\ phase = "skipped" \/ <<form, doc>> \in Documents
    /\ phase \in {"skipped", "mark", "assign", "choose", "emit", "done"}
    /\ marks.toc \subseteq Ordinals
    /\ \A x \in cands.items : x.ord \in Ordinals /\ x.key \in Range(BoundaryKeys(form))
    /\ \A s \in out.sections : s.start \in Ordinals /\ s.confidence \in 0..100

\* All ways to pick starts in ascending order, and their score; written
\* without the dynamic programme.
StartKeys == {x.key : x \in Body(cands)} \ {p[1] : p \in Collapsed(cands)}
Pool == {x \in Body(cands) : x.key \in StartKeys /\ Selectable(x.score)}
Picks ==
    {P \in SUBSET Pool :
        \A x, y \in P : x # y =>
            /\ x.key # y.key
            /\ Index(BoundaryKeys(form), x.key) < Index(BoundaryKeys(form), y.key) => x.ord < y.ord}
Worth(P) == MapThenSumSet(LAMBDA x : Contribution(x.score), P)
NearBest == LET best == Max({Worth(P) : P \in Picks})
            IN  {P \in Picks : best - Worth(P) <= ScoreGap}

\* The dynamic programme selects exactly the starts that every nearly best
\* sequence of starts agrees on: a start in doubt is never chosen, and one
\* beyond doubt is never lost.  In particular the outcome does not depend on
\* the order in which equally good nodes meet.
StartsAreBeyondDoubt ==
    phase = "emit" =>
        LET near == NearBest
            StartIn(P, k) == {x.ord : x \in {y \in P : y.key = k}}
        IN  \A k \in Range(BoundaryKeys(form)) :
                LET starts == {StartIn(P, k) : P \in near}
                IN  IF starts = {} \/ Cardinality(starts) > 1
                    THEN chosen.selected[k] = NoOrdinal
                    ELSE {chosen.selected[k]} \ {NoOrdinal} = UNION starts

\* Sections never overlap, and never start inside the table of contents.
SectionsAreDisjoint ==
    /\ \A s, t \in out.sections : s # t => s.end <= t.start \/ t.end <= s.start
    /\ \A s \in out.sections : s.start < s.end /\ s.start \notin marks.toc

\* A section never contains a heading with which any nearly best reading of
\* the document starts another item, be the section's own end beyond doubt:
\* text of two items is never filed under one.
NoItemIsSwallowed ==
    out.sections # {} =>
        LET headings == {x.ord : x \in UNION NearBest}
        IN  \A s \in out.sections : \A o \in headings : ~(s.start < o /\ o < s.end)

\* A section is the text of one item: no two share a block, none starts in the
\* table of contents, and none runs over the heading of another item.
SectionsAreOfOneItem == SectionsTypeOK /\ SectionsAreDisjoint /\ NoItemIsSwallowed

\* Every persisted section is accounted for once: it has a range or a reason,
\* and only an amendment may be silent.  What is reported as not found, or
\* passed over in silence, is a section that no nearly best reading of the
\* document has a heading for.
EverySectionIsAccountedFor ==
    phase = "done" =>
        \A k \in PersistedKeys(form) :
            LET ranges == {s \in out.sections : s.key = k}
                reasons == {i \in out.issues : i.key = k}
            IN  /\ \/ Cardinality(ranges) + Cardinality(reasons) = 1
                   \/ IsAmendment(form) /\ ranges = {} /\ reasons = {}
                /\ ranges = {} /\ {i.code : i \in reasons} \subseteq {"NOT_FOUND"}
                     => \A P \in NearBest : \A x \in P : x.key # k
=============================================================================
