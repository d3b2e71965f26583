---------------------------- MODULE BatchExtract ----------------------------
(***************************************************************************)
(* run_batch_extract (ingestion/batch_extract.py): a parent process and a  *)
(* pool of worker processes that extract one accession each.               *)
(*                                                                         *)
(* What one extraction does to the database is SourceCatalog; here it only *)
(* commits a snapshot or does not.  A worker turns every exception into a  *)
(* failure record, but a worker that dies breaks the pool: the executor    *)
(* kills the other workers, and pool.map raises in the parent.             *)
(*                                                                         *)
(* A definition Op_Slip is Op with a plausible slip; it is not part of the *)
(* model and shows that a property notices the slip.                       *)
(***************************************************************************)
EXTENDS FiniteSets, Naturals

CONSTANTS
  Nothing,
  Workers,      \* the pool of jobs processes
  Accessions,   \* the accession file; it has no duplicates
  MaxBatches    \* how often the operator runs the command

Outcome == {"success", "failure"}

ASSUME BatchAssumption ==
  /\ Nothing \notin Accessions \union Outcome
  /\ MaxBatches \in Nat
  /\ IsFiniteSet(Accessions)

VARIABLES
  batch,       \* the number of the current batch
  parent,      \* "idle", "running", or "ended"
  queue,       \* accessions no worker has taken
  at, step,    \* per worker: its accession, and how far it is
  record,      \* per accession: the record the worker has returned
  snapshot,    \* per accession: the batch that last committed its rows
  batchReport  \* p2-extract.json: the batch that wrote it, and its records

pool == <<queue, at, step, record>>
batchVars == <<batch, parent, pool, snapshot, batchReport>>

BatchTypeOK ==
  /\ batch \in 0 .. MaxBatches
  /\ parent \in {"idle", "running", "ended"}
  /\ queue \in SUBSET Accessions
  /\ at \in [Workers -> Accessions \union {Nothing}]
  /\ step \in [Workers -> {"free", "started", "committed", "dead"}]
  /\ \A w \in Workers : step[w] \in {"started", "committed"} <=> at[w] # Nothing
  /\ record \in [Accessions -> Outcome \union {Nothing}]
  /\ snapshot \in [Accessions -> 0 .. MaxBatches]
  /\ batchReport \in [batch : 0 .. MaxBatches, records : [Accessions -> Outcome \union {Nothing}]]

BatchInit ==
  /\ batch = 0
  /\ parent = "idle"
  /\ queue = {}
  /\ at = [w \in Workers |-> Nothing]
  /\ step = [w \in Workers |-> "free"]
  /\ record = [a \in Accessions |-> Nothing]
  /\ snapshot = [a \in Accessions |-> 0]
  /\ batchReport = [batch |-> 0, records |-> [a \in Accessions |-> Nothing]]

-----------------------------------------------------------------------------

(* The command starts; pool.map submits every accession. *)
Begin ==
  /\ parent # "running"
  /\ batch < MaxBatches
  /\ batch' = batch + 1
  /\ parent' = "running"
  /\ queue' = Accessions
  /\ at' = [w \in Workers |-> Nothing]
  /\ step' = [w \in Workers |-> "free"]
  /\ record' = [a \in Accessions |-> Nothing]
  /\ UNCHANGED <<snapshot, batchReport>>

Broken == \E w \in Workers : step[w] = "dead"

Take(w) ==
  /\ parent = "running"
  /\ ~ Broken
  /\ step[w] = "free"
  /\ \E a \in queue : queue' = queue \ {a} /\ at' = [at EXCEPT ![w] = a]
  /\ step' = [step EXCEPT ![w] = "started"]
  /\ UNCHANGED <<batch, parent, record, snapshot, batchReport>>

(* extract_published_accession: exactly one published bundle, catalogued,  *)
(* extracted and persisted.                                                *)
CommitSnapshot(w) ==
  /\ step[w] = "started"
  /\ step' = [step EXCEPT ![w] = "committed"]
  /\ snapshot' = [snapshot EXCEPT ![at[w]] = batch]
  /\ UNCHANGED <<batch, parent, queue, at, record, batchReport>>

Finish(w, outcome) ==
  /\ record' = [record EXCEPT ![at[w]] = outcome]
  /\ step' = [step EXCEPT ![w] = "free"]
  /\ at' = [at EXCEPT ![w] = Nothing]
  /\ UNCHANGED <<batch, parent, queue, snapshot, batchReport>>

Return_Early(w) == step[w] \in {"started", "committed"} /\ Finish(w, "success")

Return(w) == step[w] = "committed" /\ Finish(w, "success")

(* Any exception; after the commit, when its acknowledgement is lost.      *)
Raise(w) == step[w] \in {"started", "committed"} /\ Finish(w, "failure")

(* The process is killed, by the system for lack of memory say, and the    *)
(* executor terminates the others.                                         *)
Die(w) ==
  /\ parent = "running"
  /\ ~ Broken
  /\ step' = [u \in Workers |-> "dead"]
  /\ at' = [u \in Workers |-> Nothing]
  /\ UNCHANGED <<batch, parent, queue, record, snapshot, batchReport>>

Complete == \A a \in Accessions : record[a] # Nothing

(* All results have come: the sorted records are written. *)
WriteReport ==
  /\ parent = "running"
  /\ Complete
  /\ batchReport' = [batch |-> batch, records |-> record]
  /\ parent' = "ended"
  /\ UNCHANGED <<batch, pool, snapshot>>

(* write_json_atomic fails, and the report of an earlier batch stays. *)
WriteFails ==
  /\ parent = "running"
  /\ Complete
  /\ parent' = "ended"
  /\ UNCHANGED <<batch, pool, snapshot, batchReport>>

(* A result is missing for ever: BrokenProcessPool leaves the function.    *)
PoolRaises_Unnoticed ==
  /\ parent = "running" /\ Broken /\ Complete
  /\ parent' = "ended"
  /\ UNCHANGED <<batch, pool, snapshot, batchReport>>

PoolRaises ==
  /\ parent = "running"
  /\ Broken /\ ~ Complete
  /\ parent' = "ended"
  /\ UNCHANGED <<batch, pool, snapshot, batchReport>>

WorkerStep(w) == Take(w) \/ CommitSnapshot(w) \/ Return(w) \/ Raise(w)

BatchNext ==
  \/ Begin \/ WriteReport \/ WriteFails \/ PoolRaises
  \/ \E w \in Workers : WorkerStep(w) \/ Die(w)

BatchSpec == BatchInit /\ [][BatchNext]_batchVars

(* Workers and the parent run; an extraction ends, by its timeout at last. *)
BatchFairness ==
  /\ \A w \in Workers : WF_batchVars(WorkerStep(w))
  /\ WF_batchVars(WriteReport) /\ WF_batchVars(PoolRaises)

-----------------------------------------------------------------------------
(* Properties.                                                             *)

(* The report on disk, whichever batch wrote it, has a record for every    *)
(* accession, and one that says success is backed by a snapshot that this  *)
(* batch or a later one committed, whatever workers died since.            *)
ReportIsFaithful ==
  /\ BatchTypeOK
  /\ batchReport.batch > 0 =>
       \A a \in Accessions :
         /\ batchReport.records[a] # Nothing
         /\ batchReport.records[a] = "success" => snapshot[a] >= batchReport.batch

(* Every batch ends: the parent is not left waiting for a dead worker.     *)
EveryBatchEnds == parent = "running" ~> parent = "ended"

(* "The parent process always writes the report" (the module docstring):   *)
(* a batch that has ended has written its own report.                      *)
ReportAlwaysWritten == parent = "ended" => batchReport.batch = batch

=============================================================================
