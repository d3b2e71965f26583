--------------------------- MODULE MCMappingLedger --------------------------
(* Small instances of MappingLedger. *)
EXTENDS MappingLedger, TLC

CONSTANTS c1, m1, m2, a, b, v1, v2, h1, h2

Stated(c, m, r, i, f, t) ==
  [concept |-> c, metric |-> m, relation |-> r, issuer |-> i, from |-> f, to |-> t]

(* A global mapping from day 2 on and an issuer's one up to day 2, which   *)
(* meet on a single day, and a non-exact relation that never conflicts.    *)
MCProposals ==
  { Stated(c1, m1, "exact", None, 2, None),
    Stated(c1, m1, "exact", a, None, 2),
    Stated(c1, m1, "related", None, None, None) }

MCHash == [d \in Defs |-> IF d = v1 THEN h1 ELSE h2]

MCOne == { Stated(c1, m1, "exact", None, None, None) }
=============================================================================
