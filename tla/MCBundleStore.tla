---------------------------- MODULE MCBundleStore ---------------------------
(* Small instances of BundleStore: two bundles of one filing that share an *)
(* object, as when SEC changes an index page between two acquisitions, and *)
(* a bundle of another filing with an object in common.                    *)
EXTENDS BundleStore, TLC

CONSTANTS b1, b2, b3, d1, d2, f, g, p, q

MCAccessionOf == (b1 :> f @@ b2 :> f @@ b3 :> g)
MCArtifactsOf == (b1 :> {d1} @@ b2 :> {d1, d2} @@ b3 :> {d2})

(* Two acquisitions of one filing that differ by a changed page; a restart *)
(* makes their goals equal.  The two filings have locks of their own and   *)
(* meet only in the object they share, which matters when it is damaged.   *)
(* Nothing is claimed of readers when the disk itself fails, and they      *)
(* write nothing: there they stay idle.                                    *)
FirstGoals == {<<b1, b2>>} \union (IF "damage" \in faults THEN {<<b2, b3>>} ELSE {})
Watched == faults \subseteq {"crash", "io"}

MCInit == Init /\ <<goal[p], goal[q]>> \in FirstGoals
MCNext == Next /\ (Watched \/ UNCHANGED rpc \/ (\A r \in Readers : rpc'[r] = "idle"))
MCFairSpec == MCInit /\ [][MCNext]_vars /\ \A x \in Publishers : WF_vars(PublisherStep(x))
=============================================================================
