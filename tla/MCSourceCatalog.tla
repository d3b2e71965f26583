--------------------------- MODULE MCSourceCatalog --------------------------
(* Small instances of SourceCatalog: two bundles of one filing with the    *)
(* same inventory, a third one with another inventory, and a filing of the *)
(* same issuer that meets the same concepts in the opposite order; and,    *)
(* while they rest, of BatchExtract.                                       *)
EXTENDS SourceCatalog, BatchExtract, TLC

CONSTANTS f, g, i, b1, b2, b3, b4, v1, v2, c1, c2, p, q

VARIABLE part  \* which of the two runs

MCIssuerOf == (f :> i @@ g :> i)
MCFilingOf == (b1 :> f @@ b2 :> f @@ b3 :> f @@ b4 :> g)
MCInventoryOf == (b1 :> v1 @@ b2 :> v1 @@ b3 :> v2 @@ b4 :> v1)
MCConceptsOf == (b1 :> <<c1, c2>> @@ b2 :> <<c1>> @@ b3 :> <<c2>> @@ b4 :> <<c2, c1>>)

(* Three extractions: two that overlap, and one before, between or after.  *)
MaxExtractions == 3

PersistenceInit == Init /\ BatchInit /\ part \in {"source", "batch"}

PersistenceNext ==
  \/ /\ part = "source" /\ Next /\ run'[p] + run'[q] <= MaxExtractions
     /\ UNCHANGED <<batchVars, part>>
  \/ part = "batch" /\ BatchNext /\ UNCHANGED <<vars, part>>

PersistenceSpec ==
  /\ PersistenceInit /\ [][PersistenceNext]_<<vars, batchVars, part>>
  /\ Fairness /\ BatchFairness
=============================================================================
