------------------------------ MODULE Inventory -----------------------------
(***************************************************************************)
(* The parent's own scan of a filing (xbrl/upstream_inventory.py): before  *)
(* any worker runs, the raw documents of every report input are counted,   *)
(* their context and unit ids compared, and the inline continuation chains *)
(* followed.  What the scan cannot read unambiguously fails the filing.    *)
(*                                                                         *)
(* A document is a record of what it files: contexts, units, items, the    *)
(* continuations that have an id, and footnotes that are continued, in     *)
(* document order.  An id or a reference is a name or None.                *)
(***************************************************************************)
EXTENDS Naturals, FiniteSets, Sequences, SequencesExt

None == "none"
DefaultTarget == "default"

\* The n-th of a set of places, and what a sequence has at places that qualify.
Nth(places, n) == CHOOSE i \in places : Cardinality({j \in places : j < i}) = n - 1
Pick(s, places) == [n \in 1..Cardinality(places) |-> s[Nth(places, n)]]
Selection(s, Keep(_)) == Pick(s, {i \in DOMAIN s : Keep(s[i])})

\* What the documents file, one after the other, with the place of each.
Filed(f, uris, field) ==
    FlattenSeq([i \in DOMAIN uris |->
        LET d == f.docs[uris[i]]
        IN  [k \in DOMAIN d[field] |->
                [is |-> d[field][k], uri |-> d.seenAs, at |-> <<uris[i], field, k>>]]])

\* The binding a member URI names, directly or as a replay alias.
Canonical(f, uri) ==
    LET names == {u \in f.bound : u = uri \/ <<uri, u>> \in f.aliases}
    IN  IF Cardinality(names) = 1 THEN CHOOSE u \in names : TRUE ELSE None

Members(f, r) == [i \in DOMAIN r.uris |-> Canonical(f, r.uris[i])]

Repeated(s) == \E i, j \in DOMAIN s : i < j /\ s[i] = s[j]
IdsOf(occurrences) ==
    Selection([i \in DOMAIN occurrences |-> occurrences[i].is.id], LAMBDA id : id # None)

\* Two contexts, or two units, anywhere in the report's documents share an id.
Collision(f, uris) ==
    \E kind \in {"contexts", "units"} : Repeated(IdsOf(Filed(f, uris, kind)))

\* Following continuedAt from one reference: one more step of the loop.
Named(conts, ref) == {i \in DOMAIN conts : conts[i].id = ref}
Unique(conts, ref) == Cardinality(Named(conts, ref)) = 1
ContinuedAt(conts, ref) == conts[CHOOSE i \in Named(conts, ref) : TRUE].next
Advance(conts, w) ==
    IF w.current = None \/ w.error # None THEN w
    ELSE IF ~Unique(conts, w.current)
    THEN [w EXCEPT !.error = IF Named(conts, w.current) = {} THEN "CONTINUATION_UNRESOLVED"
                                                              ELSE "CONTINUATION_AMBIGUOUS"]
    ELSE IF Contains(w.chain, w.current)
    THEN [w EXCEPT !.error = "CONTINUATION_CYCLE"]
    ELSE [w EXCEPT !.chain = Append(@, w.current), !.current = ContinuedAt(conts, w.current)]

\* The chain, and why it stopped; a walk longer than its bound is a cycle.
MaxSteps(conts) == IF Len(conts) = 0 THEN 1 ELSE Len(conts)
WalkChain(conts, ref) ==
    LET walk[n \in 0..(MaxSteps(conts) + 1)] ==
            IF n = 0 THEN [error |-> None, chain |-> <<>>, current |-> ref]
                     ELSE Advance(conts, walk[n - 1])
        end == walk[MaxSteps(conts) + 1]
    IN  IF end.error = None /\ Len(end.chain) > MaxSteps(conts)
        THEN [end EXCEPT !.error = "CONTINUATION_CYCLE"] ELSE end

Conts(f, uris) ==
    LET filed == Filed(f, uris, "conts") IN [i \in DOMAIN filed |-> filed[i].is]

\* Every element a chain may start from: items of any target, then footnotes.
Roots(f, uris) ==
    LET items == Selection(Filed(f, uris, "items"), LAMBDA x : x.is.cont # None)
        notes == Filed(f, uris, "notes")
    IN  [i \in DOMAIN items |-> [target |-> items[i].is.target, ref |-> items[i].is.cont]]
        \o [i \in DOMAIN notes |-> [target |-> "footnote", ref |-> notes[i].is]]

\* A chain of a selected item must resolve, and may share no continuation.
ChainFailure(f, uris) ==
    LET roots == Roots(f, uris)
        selected == {i \in DOMAIN roots : roots[i].target = DefaultTarget}
        walks == [i \in DOMAIN roots |-> WalkChain(Conts(f, uris), roots[i].ref)]
        broken == {i \in selected : walks[i].error # None}
    IN  CASE broken # {} -> walks[CHOOSE i \in broken : \A j \in broken : i <= j].error
          [] broken = {} /\ \E i \in selected, j \in DOMAIN roots :
                i # j /\ Range(walks[i].chain) \cap Range(walks[j].chain) # {} -> "CONTINUATION_REUSE"
          [] OTHER -> None

Selected(f, uris) ==
    Selection(Filed(f, uris, "items"), LAMBDA x : x.is.target = DefaultTarget)

\* Fractions and tuples are scanned for in inline documents only.
FractionOrTuple(f, uris) ==
    \E i \in DOMAIN Selected(f, uris) :
        LET x == Selected(f, uris)[i].is IN x.kind = "fraction" \/ x.inTuple

Success(n) == [failure |-> None, items |-> n]
Failure(code) == [failure |-> code, items |-> 0]

\* An inline report: a set of documents read as one.
IxdsInventory(f, r) ==
    LET uris == Members(f, r)
    IN  CASE None \in Range(uris) -> Failure("IXDS_MEMBER_URI_AMBIGUOUS")
          [] None \notin Range(uris) /\ Repeated(uris) ->
                Failure("IXDS_DUPLICATE_CANONICAL_MEMBER")
          [] None \notin Range(uris) /\ ~Repeated(uris)
             /\ \E u \in Range(uris) : ~f.docs[u].wellFormed -> Failure("INVENTORY_SCAN_FAILED")
          [] OTHER ->
                CASE Collision(f, uris) -> Failure("ID_COLLISION")
                  [] ~Collision(f, uris) /\ FractionOrTuple(f, uris) ->
                        Failure("UNSUPPORTED_INLINE_FRACTION_OR_TUPLE")
                  [] ~Collision(f, uris) /\ ~FractionOrTuple(f, uris)
                     /\ ChainFailure(f, uris) # None -> Failure(ChainFailure(f, uris))
                  [] OTHER -> Success(Len(Selected(f, uris)))

\* An XML instance: one document, every element with a contextRef an item.
InstanceInventory(f, r) ==
    LET uri == Canonical(f, r.uris[1])
    IN  CASE uri = None -> Failure("INVENTORY_SCAN_FAILED")
          [] uri # None /\ ~f.docs[uri].wellFormed -> Failure("INVENTORY_SCAN_FAILED")
          [] uri # None /\ f.docs[uri].wellFormed /\ f.docs[uri].root # "xbrl" ->
                Failure("INSTANCE_ROOT_INVALID")
          [] OTHER -> IF Collision(f, <<uri>>) THEN Failure("ID_COLLISION")
                                               ELSE Success(Len(Filed(f, <<uri>>, "items")))

InventoryOf(f, r) == IF r.kind = "ixds" THEN IxdsInventory(f, r) ELSE InstanceInventory(f, r)

\* One outcome for each report input; the first failure fails the filing.
InventoryFails(f) ==
    \/ Repeated(f.reports)
    \/ \E i \in DOMAIN f.reports : InventoryOf(f, f.reports[i]).failure # None

---------------------------------------------------------------------------
(* What a sound chain is, without the walk. *)

\* The continuations that follow a reference, as far as each is unique.
Following(conts, ref) ==
    LET step[n \in 0..Len(conts)] ==
            IF n = 0 THEN {ref} \ {None}
            ELSE step[n - 1] \cup ({ContinuedAt(conts, r) : r \in {x \in step[n - 1] : Unique(conts, x)}} \ {None})
    IN  step[Len(conts)]

ChainIsSound(f, uris, root) ==
    LET conts == Conts(f, uris)
        after == Following(conts, root.ref)
    IN  /\ \A r \in after : Unique(conts, r)
        /\ \E r \in after : ContinuedAt(conts, r) = None
=============================================================================
