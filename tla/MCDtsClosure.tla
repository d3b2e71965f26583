---------------------------- MODULE MCDtsClosure ----------------------------
(* A report e of the accession that refers to a schema s of the accession, *)
(* a taxonomy x on the web and a validation resource v.  The web may serve *)
(* x in three versions: one of them refers to y, which refers back to x,   *)
(* and one is larger than a single document may be.  Of the versions of y  *)
(* one fits the budget to the last byte, and one leaves nothing for v.     *)
(* The first version of x also refers to i, which has no canonical URI,    *)
(* and one of the versions of v to l, a file out of the workspace.         *)
EXTENDS DtsClosure, TLC

CONSTANTS e, s, x, y, v, ce, cs, cx1, cx2, cx3, cy1, cy2, cv1, cv2, i, l

MCAccession == [u \in Uris |-> IF u = e THEN ce ELSE IF u = s THEN cs ELSE None]

MCWeb == (e :> {} @@ s :> {} @@ x :> {cx1, cx2, cx3} @@ y :> {cy1, cy2} @@ v :> {cv1, cv2})

MCRefs == (ce :> {s, x} @@ cs :> {v} @@ cx1 :> {i} @@ cx2 :> {y} @@ cx3 :> {} @@ cy1 :> {x}
            @@ cy2 :> {x} @@ cv1 :> {} @@ cv2 :> {l})

MCSize == (ce :> 1 @@ cs :> 1 @@ cx1 :> 1 @@ cx2 :> 2 @@ cx3 :> 3 @@ cy1 :> 1 @@ cy2 :> 2
            @@ cv1 :> 1 @@ cv2 :> 1)
=============================================================================
