---------------------------- MODULE MappingLedger ---------------------------
(***************************************************************************)
(* The mapping-decision ledger (registry/service.py over db/registry.py)   *)
(* as concurrent PostgreSQL transactions at the default READ COMMITTED     *)
(* level: every statement sees what is committed when it starts.           *)
(*                                                                         *)
(* Curators run propose, accept and reject; syncers run the metric sync.   *)
(* One action is one statement (or a run of reads of immutable data), so   *)
(* other transactions may commit between any two of them.  A failed check  *)
(* or a violated constraint raises, and engine.begin() rolls back.         *)
(*                                                                         *)
(* PostgreSQL's part: rows become visible at Commit; UNIQUE(supersedes_id) *)
(* makes a second inserter wait for the first one's end; the foreign keys  *)
(* of an inserted row are checked after it is in the index, and take KEY   *)
(* SHARE on the concept and on the metric; FOR UPDATE on a concept         *)
(* excludes KEY SHARE; a cycle of waits is broken by aborting a member.    *)
(*                                                                         *)
(* A definition Op_Slip is Op with a plausible slip; it is not part of the *)
(* model and shows that a property notices the slip.                       *)
(***************************************************************************)
EXTENDS LedgerContract, FiniteSets

CONSTANTS Curators, Syncers

VARIABLES
  yaml,      \* registry/metrics.yml: a definition per metric, or None
  pc, job,   \* per curator: the next statement, and the command's locals
  spc, sjob  \* per syncer: the same

(* rows and mirror, from the contract, are the committed tables.           *)

curatorVars == <<pc, job>>
syncerVars  == <<spc, sjob>>
vars == <<yaml, mirror, rows, curatorVars, syncerVars>>

Definition == Defs \union {None}

(* A command's locals: the row it decides on, the claim it will write, the *)
(* definition it read from the YAML file, and whether the revision carries *)
(* the rationale and evidence snapshots its decision needs.                *)
Job == [ op     : {"propose", "accept", "reject"},
         base   : Ids \union {None},
         stated : Proposals \union {None},
         hash   : Hashes \union {None},
         seen   : Definition,
         backed : BOOLEAN ]

Plan == [ yaml : [Metrics -> Definition], existing : [Metrics -> Definition] ]

CuratorSteps == {"idle", "current", "yaml", "mirror", "lock", "conflict", "insert", "fk", "commit"}
SyncerSteps  == {"idle", "fetch", "write", "remove", "delete", "commit"}

TypeOK ==
  /\ yaml \in [Metrics -> Definition]
  /\ mirror \in [Metrics -> Definition]
  /\ rows \in [Ids -> Row \union {NoRow}]
  /\ pc \in [Curators -> CuratorSteps]
  /\ job \in [Curators -> Job \union {None}]
  /\ spc \in [Syncers -> SyncerSteps]
  /\ sjob \in [Syncers -> Plan \union {None}]

Init ==
  /\ yaml \in [Metrics -> Definition]
  /\ mirror = [m \in Metrics |-> None]
  /\ rows = [i \in Ids |-> NoRow]
  /\ pc = [t \in Curators |-> "idle"]
  /\ job = [t \in Curators |-> None]
  /\ spc = [s \in Syncers |-> "idle"]
  /\ sjob = [s \in Syncers |-> None]

-----------------------------------------------------------------------------
(* Locks.  They are functions of where each transaction is.                *)

(* SELECT ... FOR UPDATE on the concept, held to the end. *)
HoldsForUpdate_Plain(t, c) == FALSE

HoldsForUpdate(t, c) ==
  /\ pc[t] \in {"conflict", "insert", "fk", "commit"}
  /\ job[t].op = "accept"
  /\ job[t].stated.concept = c

(* KEY SHARE on the concept and the metric, taken by the foreign keys. *)
HoldsKeyShare(t, c) == pc[t] = "commit" /\ job[t].stated.concept = c

HoldsMetricShare(t, m) == pc[t] = "commit" /\ job[t].stated.metric = m

(* An index entry for supersedes_id that is not yet committed. *)
HoldsSupersedes(t, i) == pc[t] \in {"fk", "commit"} /\ job[t].base = i

Outdated(s) == { m \in Metrics : sjob[s].yaml[m] # None /\ sjob[s].yaml[m] # sjob[s].existing[m] }
Removed(s)  == { m \in Metrics : sjob[s].yaml[m] = None /\ sjob[s].existing[m] # None }

(* Row locks of a sync: its inserted and updated metrics after the writes, *)
(* its deleted ones after the DELETE.  A statement that finds no row locks *)
(* none: an insert always has one, an UPDATE or DELETE only a row that is  *)
(* still committed.                                                        *)
Finds(s, m)   == sjob[s].existing[m] = None \/ mirror[m] # None
Writes(s, m)  == spc[s] \in {"remove", "delete", "commit"} /\ m \in Outdated(s)
Deletes(s, m) == spc[s] = "commit" /\ m \in Removed(s)

ConceptLockBlockers(t) ==
  { u \in Curators \ {t} : HoldsForUpdate(u, job[t].stated.concept)
                        \/ HoldsKeyShare(u, job[t].stated.concept) }

UniqueBlockers(t) ==
  { u \in Curators \ {t} : job[t].base # None /\ HoldsSupersedes(u, job[t].base) }

ForeignKeyBlockers(t) ==
     { u \in Curators \ {t} : HoldsForUpdate(u, job[t].stated.concept) }
  \union { s \in Syncers : Deletes(s, job[t].stated.metric) }

WriteBlockers(s) ==
  { u \in Syncers \ {s} : \E m \in Outdated(s) : Finds(s, m) /\ (Writes(u, m) \/ Deletes(u, m)) }

DeleteBlockers(s) ==
     { u \in Syncers \ {s} : \E m \in Removed(s) : Finds(s, m) /\ (Writes(u, m) \/ Deletes(u, m)) }
  \union { t \in Curators : \E m \in Removed(s) : HoldsMetricShare(t, m) }

(* The waits-for relation PostgreSQL's deadlock detector searches. *)
Blockers(t) ==
  IF t \in Curators
  THEN CASE pc[t] = "lock"   -> ConceptLockBlockers(t)
         [] pc[t] = "insert" -> UniqueBlockers(t)
         [] pc[t] = "fk"     -> ForeignKeyBlockers(t)
         [] OTHER            -> {}
  ELSE CASE spc[t] = "write"  -> WriteBlockers(t)
         [] spc[t] = "delete" -> DeleteBlockers(t)
         [] OTHER             -> {}

Stuck(S) == S # {} /\ \A t \in S : Blockers(t) \intersect S # {}

(* A smallest set of transactions that wait only for each other: a cycle.  *)
WaitCycle(S) == Stuck(S) /\ \A R \in SUBSET S : Stuck(R) => R = S

-----------------------------------------------------------------------------
(* Curators: propose, accept, reject.                                      *)

Rollback(t) ==
  /\ pc' = [pc EXCEPT ![t] = "idle"]
  /\ job' = [job EXCEPT ![t] = None]
  /\ UNCHANGED <<yaml, mirror, rows, syncerVars>>

Go(t, step, locals) ==
  /\ pc' = [pc EXCEPT ![t] = step]
  /\ job' = [job EXCEPT ![t] = locals]
  /\ UNCHANGED <<yaml, mirror, rows, syncerVars>>

Unused == { i \in Ids : rows[i] = NoRow }

(* The finite Ids bound the ledger: a command starts only while there is   *)
(* an id left for every command that runs.                                 *)
Room == Cardinality({t \in Curators : pc[t] # "idle"}) < Cardinality(Unused)

(* _propose_mapping; the concept and the issuer are known source rows.     *)
BeginPropose(t) ==
  /\ pc[t] = "idle"
  /\ Room
  /\ \E p \in Proposals :
       Go(t, "yaml", [op |-> "propose", base |-> None, stated |-> p, hash |-> None,
                      seen |-> None, backed |-> TRUE])

(* _accept_mapping and _reject_mapping of any assertion id. *)
BeginDecision(t) ==
  /\ pc[t] = "idle"
  /\ Room
  /\ \E op \in {"accept", "reject"}, i \in Ids, b \in BOOLEAN :
       Go(t, "current", [op |-> op, base |-> i, stated |-> None, hash |-> None,
                         seen |-> None, backed |-> b])

Decidable_AnyStatus(t) ==
  job[t].base \in Current(rows) /\ (job[t].op = "reject" => job[t].backed)

Decidable(t) ==
  /\ job[t].base \in Current(rows)
  /\ rows[job[t].base].status \in
       (IF job[t].op = "accept" THEN {"candidate"} ELSE {"candidate", "accepted"})
  /\ job[t].op = "reject" => job[t].backed

(* _require_current and the status check; for a rejection the rationale    *)
(* check too, after which it inserts.                                      *)
RequireCurrent_Waits(t) ==
  /\ pc[t] = "current"
  /\ Decidable(t)
  /\ LET claim == rows[job[t].base].claim
     IN  Go(t, IF job[t].op = "accept" THEN "yaml" ELSE "insert",
            [job[t] EXCEPT !.stated = claim.stated, !.hash = claim.hash])

RequireCurrent(t) ==
  /\ pc[t] = "current"
  /\ IF Decidable(t)
     THEN LET claim == rows[job[t].base].claim
          IN  Go(t, IF job[t].op = "accept" THEN "yaml" ELSE "insert",
                 [job[t] EXCEPT !.stated = claim.stated, !.hash = claim.hash])
     ELSE Rollback(t)

(* _require_yaml_metric, first half: the definition in the YAML file. *)
LoadYaml(t) ==
  /\ pc[t] = "yaml"
  /\ LET d == yaml[job[t].stated.metric]
     IN  IF d = None THEN Rollback(t) ELSE Go(t, "mirror", [job[t] EXCEPT !.seen = d])

(* _require_yaml_metric, second half, and _require_accepted_evidence.  A   *)
(* proposal snapshots the YAML hash; a candidate may be accepted after an  *)
(* edit of the metric's name, which the hash leaves out.                   *)
MatchMirror(t) ==
  /\ pc[t] = "mirror"
  /\ IF mirror[job[t].stated.metric] # job[t].seen
     THEN Rollback(t)
     ELSE IF job[t].op = "propose"
          THEN Go(t, "insert", [job[t] EXCEPT !.hash = definition_hash[job[t].seen]])
          ELSE IF job[t].hash = definition_hash[job[t].seen] /\ job[t].backed
               THEN Go(t, "lock", job[t])
               ELSE Rollback(t)

(* lock_source_concept *)
LockConcept(t) ==
  /\ pc[t] = "lock"
  /\ ConceptLockBlockers(t) = {}
  /\ Go(t, "conflict", job[t])

(* _conflict_if_needed *)
ConflictCheck(t) ==
  /\ pc[t] = "conflict"
  /\ IF /\ job[t].stated.relation = "exact"
        /\ \E i \in InForce(rows) \ {job[t].base} :
             /\ rows[i].claim.stated.concept = job[t].stated.concept
             /\ scopes_overlap(job[t].stated, rows[i].claim.stated)
     THEN Rollback(t)
     ELSE Go(t, "insert", job[t])

(* insert_mapping_assertion, up to the unique index on supersedes_id. *)
Insert_NotUnique(t) == pc[t] = "insert" /\ Go(t, "fk", job[t])

Insert(t) ==
  /\ pc[t] = "insert"
  /\ UniqueBlockers(t) = {}
  /\ IF job[t].base # None /\ Superseded(rows, job[t].base)
     THEN Rollback(t)
     ELSE Go(t, "fk", job[t])

(* The same statement's foreign-key triggers: the metric row must exist.   *)
CheckForeignKeys(t) ==
  /\ pc[t] = "fk"
  /\ ForeignKeyBlockers(t) = {}
  /\ IF mirror[job[t].stated.metric] = None THEN Rollback(t) ELSE Go(t, "commit", job[t])

Decision == [propose |-> "candidate", accept |-> "accepted", reject |-> "rejected"]

(* The identity column gives every row an id of its own; an uncommitted    *)
(* row's id is seen by nobody, so the model gives it at the commit.        *)
NextId == CHOOSE i \in Unused : TRUE

Commit(t) ==
  /\ pc[t] = "commit"
  /\ Unused # {}
  /\ rows' = [rows EXCEPT ![NextId] =
                [ supersedes |-> job[t].base,
                  claim      |-> [stated |-> job[t].stated, hash |-> job[t].hash],
                  status     |-> Decision[job[t].op] ]]
  /\ pc' = [pc EXCEPT ![t] = "idle"]
  /\ job' = [job EXCEPT ![t] = None]
  /\ UNCHANGED <<yaml, mirror, syncerVars>>

(* The command is interrupted or loses its connection. *)
Disconnect(t) == pc[t] # "idle" /\ Rollback(t)

-----------------------------------------------------------------------------
(* Syncers: sync_canonical_metrics.                                        *)

SyncRollback(s) ==
  /\ spc' = [spc EXCEPT ![s] = "idle"]
  /\ sjob' = [sjob EXCEPT ![s] = None]
  /\ UNCHANGED <<yaml, mirror, rows, curatorVars>>

SyncGo(s, step, plan) ==
  /\ spc' = [spc EXCEPT ![s] = step]
  /\ sjob' = [sjob EXCEPT ![s] = plan]
  /\ UNCHANGED <<yaml, mirror, rows, curatorVars>>

(* The YAML file is read before the transaction begins. *)
SyncLoad(s) ==
  /\ spc[s] = "idle"
  /\ SyncGo(s, "fetch", [yaml |-> yaml, existing |-> [m \in Metrics |-> None]])

SyncFetch(s) ==
  /\ spc[s] = "fetch"
  /\ SyncGo(s, "write", [sjob[s] EXCEPT !.existing = mirror])

(* The inserts and updates.  Inserting a key that another sync has added   *)
(* meanwhile violates the primary key; an UPDATE that finds no row changes *)
(* nothing, and the plan forgets it.                                       *)
SyncWrite(s) ==
  /\ spc[s] = "write"
  /\ WriteBlockers(s) = {}
  /\ IF \E m \in Outdated(s) : sjob[s].existing[m] = None /\ mirror[m] # None
     THEN SyncRollback(s)
     ELSE SyncGo(s, IF Removed(s) = {} THEN "commit" ELSE "remove",
            [sjob[s] EXCEPT !.existing =
               [m \in Metrics |-> IF m \in Outdated(s) /\ ~ Finds(s, m)
                                  THEN sjob[s].yaml[m]
                                  ELSE sjob[s].existing[m]]])

(* referenced_metric_keys: UnsafeMetricDeletionError when one is removed.  *)
SyncCheckReferenced(s) ==
  /\ spc[s] = "remove"
  /\ IF Removed(s) \intersect Referenced(rows) # {}
     THEN SyncRollback(s)
     ELSE SyncGo(s, "delete", sjob[s])

(* The DELETE, with the foreign key checked against what is committed now. *)
SyncDelete_NoForeignKey(s) ==
  /\ spc[s] = "delete"
  /\ DeleteBlockers(s) = {}
  /\ SyncGo(s, "commit", sjob[s])

SyncDelete(s) ==
  /\ spc[s] = "delete"
  /\ DeleteBlockers(s) = {}
  /\ IF Removed(s) \intersect Referenced(rows) # {}
     THEN SyncRollback(s)
     ELSE SyncGo(s, "commit",
            [sjob[s] EXCEPT !.existing =
               [m \in Metrics |-> IF m \in Removed(s) /\ ~ Finds(s, m)
                                  THEN None
                                  ELSE sjob[s].existing[m]]])

SyncCommit(s) ==
  /\ spc[s] = "commit"
  /\ mirror' = [m \in Metrics |->
       IF m \in Removed(s) THEN None
       ELSE IF m \in Outdated(s) THEN sjob[s].yaml[m]
       ELSE mirror[m]]
  /\ spc' = [spc EXCEPT ![s] = "idle"]
  /\ sjob' = [sjob EXCEPT ![s] = None]
  /\ UNCHANGED <<yaml, rows, curatorVars>>

SyncDisconnect(s) == spc[s] # "idle" /\ SyncRollback(s)

-----------------------------------------------------------------------------

(* A curator edits the YAML file, at any time. *)
EditYaml ==
  /\ \E m \in Metrics, d \in Definition : yaml' = [yaml EXCEPT ![m] = d]
  /\ UNCHANGED <<mirror, rows, curatorVars, syncerVars>>

(* deadlock_timeout: one member of a cycle of waits is aborted. *)
BreakDeadlock ==
  \E S \in SUBSET (Curators \union Syncers) :
    /\ WaitCycle(S)
    /\ \E t \in S : IF t \in Curators THEN Rollback(t) ELSE SyncRollback(t)

CuratorStep(t) ==
  \/ RequireCurrent(t) \/ LoadYaml(t) \/ MatchMirror(t) \/ LockConcept(t)
  \/ ConflictCheck(t) \/ Insert(t) \/ CheckForeignKeys(t) \/ Commit(t)

SyncerStep(s) ==
  \/ SyncFetch(s) \/ SyncWrite(s) \/ SyncCheckReferenced(s) \/ SyncDelete(s) \/ SyncCommit(s)

Next ==
  \/ \E t \in Curators : BeginPropose(t) \/ BeginDecision(t) \/ CuratorStep(t) \/ Disconnect(t)
  \/ \E s \in Syncers : SyncLoad(s) \/ SyncerStep(s) \/ SyncDisconnect(s)
  \/ EditYaml
  \/ BreakDeadlock

Spec == Init /\ [][Next]_vars

(* A client executes its statements until its command ends; PostgreSQL     *)
(* queues lock waiters and grants them in turn; the detector always runs;  *)
(* a connection is not lost at every COMMIT.  Nobody has to start a        *)
(* command, edit the file or lose a connection.                            *)
Fairness ==
  /\ \A t \in Curators : SF_vars(CuratorStep(t)) /\ SF_vars(Commit(t))
  /\ \A s \in Syncers : SF_vars(SyncerStep(s))
  /\ WF_vars(BreakDeadlock)

FairSpec == Spec /\ Fairness

-----------------------------------------------------------------------------
(* Properties.                                                             *)

(* No fact is covered by two current accepted exact mappings: whatever the *)
(* issuer and the report period end (or its absence), the rule of          *)
(* _affected_facts picks at most one, although _accept_mapping only tests  *)
(* overlap, under a lock taken after the candidate was read.               *)
NoAmbiguity ==
  \A i, j \in InForce(rows) :
    rows[i].claim.stated.concept = rows[j].claim.stated.concept /\ i # j =>
      ~ \E issuer \in Issuers, d \in Dates \union {None} :
          /\ AppliesTo(rows[i].claim.stated, issuer, d)
          /\ AppliesTo(rows[j].claim.stated, issuer, d)

(* Revision chains never branch, never change their claim, and only move   *)
(* candidate -> accepted -> rejected or candidate -> rejected, although    *)
(* the currency check of _require_current may be stale at the INSERT.      *)
ChainsAreSound ==
  \A i \in Written(rows) :
    LET base == rows[i].supersedes
    IN  IF base = None
        THEN rows[i].status = "candidate"
        ELSE /\ base \in Written(rows)
             /\ rows[i].claim = rows[base].claim
             /\ MayFollow(rows[base].status, rows[i].status)
             /\ \A j \in Written(rows) : rows[j].supersedes = base => j = i

(* A metric some assertion refers to is never missing from the mirror,     *)
(* although _sync reads the referenced keys before it deletes and a        *)
(* proposal may commit in between.                                         *)
MetricsStayDefined == \A m \in Referenced(rows) : mirror[m] # None

(* The refinement mapping hides the transactions: what the contract sees   *)
(* are the committed rows and the committed mirror.                        *)
Contract == INSTANCE LedgerContract WITH rows <- rows, mirror <- mirror

(* The interleaved transactions of the service implement the contract.     *)
RefinesContract == Contract!ContractSpec

(* Every command ends, in a commit or an error: no transaction waits for   *)
(* ever for the concept lock, for an index entry or for a metric row.      *)
EveryCommandEnds ==
  /\ \A t \in Curators : pc[t] # "idle" ~> pc[t] = "idle"
  /\ \A s \in Syncers : spc[s] # "idle" ~> spc[s] = "idle"

=============================================================================
