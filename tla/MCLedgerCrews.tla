---------------------------- MODULE MCLedgerCrews ---------------------------
(* The ledger with one of two crews: two curators at once, with proposals   *)
(* that overlap in different ways, beside one sync of one definition; or    *)
(* one curator beside two syncs at once of a file with two definitions.     *)
EXTENDS MCMappingLedger

VARIABLE crew

Deciding == [curators |-> 2, syncers |-> 1, defs |-> {v1}, proposals |-> MCProposals, size |-> 4]
Syncing  == [curators |-> 1, syncers |-> 2, defs |-> {v1, v2},
             proposals |-> {Stated(c1, m1, "exact", None, 2, None)}, size |-> 2]

Busy(step) == {t \in DOMAIN step : step[t] # "idle"}

(* What the crew may do at once, and how far its ledger may grow. *)
WithinCrew ==
  /\ Cardinality(Busy(pc')) <= crew.curators
  /\ Cardinality(Busy(pc')) + Cardinality(Written(rows')) <= crew.size
  /\ Cardinality(Busy(spc')) <= crew.syncers
  /\ \A m \in Metrics : yaml'[m] \in crew.defs \union {None}
  /\ \A t \in Busy(pc') : job'[t].stated \in crew.proposals \union {None}

CrewInit ==
  /\ Init /\ crew \in {Deciding, Syncing}
  /\ \A m \in Metrics : yaml[m] \in crew.defs \union {None}

CrewNext == Next /\ WithinCrew /\ UNCHANGED crew

CrewSpec == CrewInit /\ [][CrewNext]_<<vars, crew>>

(* Ids are not symmetric: NextId takes them in a fixed order. *)
Interchangeable == Permutations(Curators) \union Permutations(Syncers)
=============================================================================
