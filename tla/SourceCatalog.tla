---------------------------- MODULE SourceCatalog ---------------------------
(***************************************************************************)
(* The source catalog and the extraction snapshots (db/source.py), written *)
(* by CatalogService and SourceExtractService and read by load_filing.     *)
(*                                                                         *)
(* An extractor handles one published bundle: a first transaction catalogs *)
(* the filing, the extraction runs outside any transaction, and a second   *)
(* transaction replaces the filing's snapshot.  Transactions are READ      *)
(* COMMITTED; one action is one statement, or one row of the multi-row     *)
(* concept upsert, whose rows are inserted one after the other.  A reader  *)
(* loads a filing with several statements outside any snapshot.            *)
(*                                                                         *)
(* PostgreSQL's part: an insert of a key that another transaction has      *)
(* inserted waits for its end, with ON CONFLICT DO NOTHING too; a cycle of *)
(* waits is broken by aborting a member.  UNIQUE(filing_id, report_key) is *)
(* left out: whoever inserts reports holds the filing's row lock and has   *)
(* deleted the others.                                                     *)
(*                                                                         *)
(* A definition Op_Slip is Op with a plausible slip; it is not part of the *)
(* model and shows that a property notices the slip.                       *)
(***************************************************************************)
EXTENDS FiniteSets, Naturals, Sequences

CONSTANTS
  None,
  Extractors, Readers,
  Filings, Issuers, Concepts, Bundles, Inventories,
  IssuerOf,      \* of a filing
  FilingOf,      \* of a bundle
  InventoryOf,   \* of a bundle: its identity fields and documents
  ConceptsOf,    \* of a bundle: its concepts, in the order they are met
  MaxRuns        \* how often an extractor is started

ASSUME BundlesAssumption ==
  /\ IssuerOf \in [Filings -> Issuers]
  /\ FilingOf \in [Bundles -> Filings]
  /\ InventoryOf \in [Bundles -> Inventories]
  /\ ConceptsOf \in [Bundles -> Seq(Concepts)]
  /\ None \notin Inventories \union Bundles
  /\ MaxRuns \in Nat

VARIABLES
  issuers, filing, concepts, source,     \* the committed tables
  pc, bundle, run, made, next, mine, doomed,
  rpc, report, got

tables    == <<issuers, filing, concepts, source>>
extractor == <<pc, bundle, run, made, next, mine, doomed>>
reader    == <<rpc, report, got>>
vars      == <<tables, extractor, reader>>

(* What one extraction inserts: reports, their unit measures and facts,    *)
(* which go with the report, and issues, which belong to the filing.       *)
Parts == {"report", "measures", "facts", "issues"}

Row == [ by : Extractors, run : 1 .. MaxRuns, bundle : Bundles, part : Parts ]

Cataloging == {"issuer", "filing", "insert", "reuse", "inserted"}
Persisting == {"delete", "concepts", "rows", "persisted"}
ExtractorSteps == {"idle", "extract", "lock", "done", "failed"} \union Cataloging \union Persisting

TypeOK ==
  /\ issuers \in SUBSET Issuers
  /\ filing \in [Filings -> Inventories \union {None}]
  /\ concepts \in SUBSET Concepts
  /\ source \in [Filings -> SUBSET Row]
  /\ pc \in [Extractors -> ExtractorSteps]
  /\ bundle \in [Extractors -> Bundles \union {None}]
  /\ run \in [Extractors -> 0 .. MaxRuns]
  /\ made \in [Extractors -> BOOLEAN]
  /\ next \in [Extractors -> Nat \ {0}]
  /\ \A e \in Extractors : bundle[e] # None => next[e] <= Len(ConceptsOf[bundle[e]]) + 1
  /\ mine \in [Extractors -> SUBSET Concepts]
  /\ doomed \in [Extractors -> SUBSET Row]
  /\ rpc \in [Readers -> {"idle", "measures", "facts", "loaded"}]
  /\ report \in [Readers -> Row \union {None}]
  /\ got \in [Readers -> SUBSET Row]

Init ==
  /\ issuers = {} /\ concepts = {}
  /\ filing = [f \in Filings |-> None]
  /\ source = [f \in Filings |-> {}]
  /\ pc = [e \in Extractors |-> "idle"]
  /\ bundle = [e \in Extractors |-> None]
  /\ run = [e \in Extractors |-> 0]
  /\ made = [e \in Extractors |-> FALSE]
  /\ next = [e \in Extractors |-> 1]
  /\ mine = [e \in Extractors |-> {}]
  /\ doomed = [e \in Extractors |-> {}]
  /\ rpc = [r \in Readers |-> "idle"]
  /\ report = [r \in Readers |-> None]
  /\ got = [r \in Readers |-> {}]

-----------------------------------------------------------------------------

Filing(e) == FilingOf[bundle[e]]

Goto(e, step) == pc' = [pc EXCEPT ![e] = step]

(* What a transaction holds is gone with it. *)
Forget(e) ==
  /\ made' = [made EXCEPT ![e] = FALSE]
  /\ next' = [next EXCEPT ![e] = 1]
  /\ mine' = [mine EXCEPT ![e] = {}]
  /\ doomed' = [doomed EXCEPT ![e] = {}]

Rollback(e) ==
  /\ Goto(e, "failed")
  /\ Forget(e)
  /\ UNCHANGED <<tables, bundle, run, reader>>

(* The FOR UPDATE lock on the filing's row. *)
HoldsFiling_Plain(u, f) == FALSE
HoldsFiling(u, f) == pc[u] \in Persisting /\ Filing(u) = f

(* Who an extractor waits for. *)
IssuerBlockers(e) == { u \in Extractors \ {e} : made[u] /\ IssuerOf[Filing(u)] = IssuerOf[Filing(e)] }
InsertBlockers(e) == { u \in Extractors \ {e} : pc[u] = "inserted" /\ Filing(u) = Filing(e) }
LockBlockers(e)   == { u \in Extractors \ {e} : HoldsFiling(u, Filing(e)) }
ConceptBlockers(e) ==
  { u \in Extractors \ {e} : next[e] <= Len(ConceptsOf[bundle[e]])
                          /\ ConceptsOf[bundle[e]][next[e]] \in mine[u] }

Blockers(e) ==
  CASE pc[e] = "issuer"   -> IssuerBlockers(e)
    [] pc[e] = "insert"   -> InsertBlockers(e)
    [] pc[e] = "lock"     -> LockBlockers(e)
    [] pc[e] = "concepts" -> ConceptBlockers(e)
    [] OTHER              -> {}

Stuck(S) == S # {} /\ \A e \in S : Blockers(e) \intersect S # {}
WaitCycle(S) == Stuck(S) /\ \A R \in SUBSET S : Stuck(R) => R = S

-----------------------------------------------------------------------------
(* The catalog transaction.                                                *)

(* A bundle of the store is loaded and its descriptor captured. *)
Start(e) ==
  /\ pc[e] \in {"idle", "done", "failed"}
  /\ run[e] < MaxRuns
  /\ run' = [run EXCEPT ![e] = @ + 1]
  /\ \E b \in Bundles : bundle' = [bundle EXCEPT ![e] = b]
  /\ Goto(e, "issuer")
  /\ UNCHANGED <<tables, made, next, mine, doomed, reader>>

UpsertIssuer(e) ==
  /\ pc[e] = "issuer"
  /\ IssuerBlockers(e) = {}
  /\ made' = [made EXCEPT ![e] = IssuerOf[Filing(e)] \notin issuers]
  /\ Goto(e, "filing")
  /\ UNCHANGED <<tables, bundle, run, next, mine, doomed, reader>>

(* A filing that is there must have the same metadata and inventory. *)
SelectFiling_Trusts(e) ==
  /\ pc[e] = "filing"
  /\ Goto(e, IF filing[Filing(e)] = None THEN "insert" ELSE "reuse")
  /\ UNCHANGED <<tables, bundle, run, made, next, mine, doomed, reader>>

SelectFiling_Waits(e) ==
  /\ pc[e] = "filing"
  /\ filing[Filing(e)] \in {None, InventoryOf[bundle[e]]}
  /\ Goto(e, IF filing[Filing(e)] = None THEN "insert" ELSE "reuse")
  /\ UNCHANGED <<tables, bundle, run, made, next, mine, doomed, reader>>

SelectFiling(e) ==
  /\ pc[e] = "filing"
  /\ IF filing[Filing(e)] \notin {None, InventoryOf[bundle[e]]}
     THEN Rollback(e)
     ELSE /\ Goto(e, IF filing[Filing(e)] = None THEN "insert" ELSE "reuse")
          /\ UNCHANGED <<tables, bundle, run, made, next, mine, doomed, reader>>

(* A filing another process has catalogued meanwhile violates the unique   *)
(* accession, whatever its inventory.                                      *)
InsertFiling(e) ==
  /\ pc[e] = "insert"
  /\ InsertBlockers(e) = {}
  /\ IF filing[Filing(e)] # None
     THEN Rollback(e)
     ELSE /\ Goto(e, "inserted")
          /\ UNCHANGED <<tables, bundle, run, made, next, mine, doomed, reader>>

(* The commit.  CatalogService ends here. *)
CommitCatalog(e) ==
  /\ pc[e] \in {"reuse", "inserted"}
  /\ issuers' = issuers \union {IssuerOf[Filing(e)]}
  /\ filing' = IF pc[e] = "inserted"
               THEN [filing EXCEPT ![Filing(e)] = InventoryOf[bundle[e]]]
               ELSE filing
  /\ \E step \in {"extract", "done"} : Goto(e, step)
  /\ Forget(e)
  /\ UNCHANGED <<concepts, source, bundle, run, reader>>

-----------------------------------------------------------------------------
(* Extraction, and the persisting transaction.                             *)

(* Workers extract every report; the implementation, the lock file and the *)
(* descriptor are the same as before.  Any failure is an Abort.            *)
Extract(e) ==
  /\ pc[e] = "extract"
  /\ Goto(e, "lock")
  /\ UNCHANGED <<tables, bundle, run, made, next, mine, doomed, reader>>

LockFiling(e) ==
  /\ pc[e] = "lock"
  /\ LockBlockers(e) = {}
  /\ Goto(e, "delete")
  /\ UNCHANGED <<tables, bundle, run, made, next, mine, doomed, reader>>

(* The deletes see what is committed now. *)
DeleteExtractionOwned(e) ==
  /\ pc[e] = "delete"
  /\ doomed' = [doomed EXCEPT ![e] = source[Filing(e)]]
  /\ Goto(e, "concepts")
  /\ UNCHANGED <<tables, bundle, run, made, next, mine, reader>>

(* _upsert_concepts, in the order the extraction met them. *)
UpsertConcept(e) ==
  /\ pc[e] = "concepts"
  /\ ConceptBlockers(e) = {}
  /\ IF next[e] > Len(ConceptsOf[bundle[e]])
     THEN Goto(e, "rows") /\ UNCHANGED <<next, mine>>
     ELSE LET c == ConceptsOf[bundle[e]][next[e]]
          IN  /\ next' = [next EXCEPT ![e] = @ + 1]
              /\ mine' = [mine EXCEPT ![e] = IF c \in concepts THEN @ ELSE @ \union {c}]
              /\ UNCHANGED pc
  /\ UNCHANGED <<tables, bundle, run, made, doomed, reader>>

Known(e) == { c \in Concepts : \E i \in 1 .. Len(ConceptsOf[bundle[e]]) : ConceptsOf[bundle[e]][i] = c }

(* The reports and their children, which refer to the concepts. *)
InsertReports(e) ==
  /\ pc[e] = "rows"
  /\ IF Known(e) \subseteq concepts \union mine[e]
     THEN /\ Goto(e, "persisted")
          /\ UNCHANGED <<tables, bundle, run, made, next, mine, doomed, reader>>
     ELSE Rollback(e)

Inserted(e) == [by : {e}, run : {run[e]}, bundle : {bundle[e]}, part : Parts]

CommitExtraction(e) ==
  /\ pc[e] = "persisted"
  /\ concepts' = concepts \union mine[e]
  /\ source' = [source EXCEPT ![Filing(e)] = (@ \ doomed[e]) \union Inserted(e)]
  /\ Goto(e, "done")
  /\ Forget(e)
  /\ UNCHANGED <<issuers, filing, bundle, run, reader>>

(* A failed extraction or check, an I/O error, a lost connection, a death. *)
Abort(e) == pc[e] \notin {"idle", "done", "failed"} /\ Rollback(e)

BreakDeadlock ==
  \E S \in SUBSET Extractors : WaitCycle(S) /\ \E e \in S : Rollback(e)

-----------------------------------------------------------------------------
(* _load_filing_body: the report id, then the measures of its units, then  *)
(* its facts.                                                              *)

PartOf(x, part) == [x EXCEPT !.part = part]
Committed == UNION { source[f] : f \in Filings }

ReadReport(r) ==
  /\ rpc[r] = "idle"
  /\ \E f \in Filings :
       LET reports == { x \in source[f] : x.part = "report" }
       IN  IF reports = {}
           THEN rpc' = [rpc EXCEPT ![r] = "loaded"] /\ UNCHANGED report
           ELSE /\ \E x \in reports : report' = [report EXCEPT ![r] = x]
                /\ rpc' = [rpc EXCEPT ![r] = "measures"]
  /\ UNCHANGED <<tables, extractor, got>>

(* By the report's id. *)
Belonging_ByFiling(x, part) ==
  { y \in Committed : y.part = part /\ FilingOf[y.bundle] = FilingOf[x.bundle] }

Belonging(x, part) == { y \in Committed : y = PartOf(x, part) }

ReadPart(r, part, step) ==
  /\ rpc[r] = part
  /\ got' = [got EXCEPT ![r] = @ \union Belonging(report[r], part)]
  /\ rpc' = [rpc EXCEPT ![r] = step]
  /\ UNCHANGED <<tables, extractor, report>>

ReadMeasures(r) == ReadPart(r, "measures", "facts")
ReadFacts(r) == ReadPart(r, "facts", "loaded")

ReadAgain(r) ==
  /\ rpc[r] = "loaded"
  /\ rpc' = [rpc EXCEPT ![r] = "idle"]
  /\ report' = [report EXCEPT ![r] = None]
  /\ got' = [got EXCEPT ![r] = {}]
  /\ UNCHANGED <<tables, extractor>>

-----------------------------------------------------------------------------

ExtractorStep(e) ==
  \/ UpsertIssuer(e) \/ SelectFiling(e) \/ InsertFiling(e) \/ CommitCatalog(e) \/ Extract(e)
  \/ LockFiling(e) \/ DeleteExtractionOwned(e) \/ UpsertConcept(e) \/ InsertReports(e)
  \/ CommitExtraction(e)

Next ==
  \/ \E e \in Extractors : Start(e) \/ ExtractorStep(e) \/ Abort(e)
  \/ BreakDeadlock
  \/ \E r \in Readers : ReadReport(r) \/ ReadMeasures(r) \/ ReadFacts(r) \/ ReadAgain(r)

Spec == Init /\ [][Next]_vars

(* A process goes on with its statements; a worker has a timeout; the      *)
(* deadlock detector always runs.  Starts are bounded, so nobody is        *)
(* overtaken for ever.                                                     *)
Fairness == (\A e \in Extractors : WF_vars(ExtractorStep(e))) /\ WF_vars(BreakDeadlock)
FairSpec == Spec /\ Fairness

-----------------------------------------------------------------------------
(* Properties.                                                             *)

(* The rows of a filing are those of one extraction, all of them, or there *)
(* are none: two extractors that replace the snapshot of one filing never  *)
(* leave a mixture, although each deletes only what it sees committed.     *)
SnapshotIsWhole ==
  \A f \in Filings :
    \/ source[f] = {}
    \/ \E x \in source[f] : source[f] = { PartOf(x, part) : part \in Parts }

(* A filing's snapshot was extracted from a bundle with the inventory that *)
(* is catalogued, although the catalog transaction ended long before the   *)
(* snapshot is replaced and several bundles of the filing are published.   *)
EvidenceMatchesCatalog ==
  \A f \in Filings : \A x \in source[f] :
    FilingOf[x.bundle] = f /\ filing[f] = InventoryOf[x.bundle]

(* When the reports are inserted every concept they refer to is committed  *)
(* or the transaction's own, although ON CONFLICT DO NOTHING skips those   *)
(* that others insert, and the others may still roll back.                 *)
ConceptsAreThere ==
  \A e \in Extractors : pc[e] \in {"rows", "persisted"} => Known(e) \subseteq concepts \union mine[e]

(* A snapshot is whole and refers to nothing that may still be undone.     *)
SnapshotsAreSound == TypeOK /\ SnapshotIsWhole /\ ConceptsAreThere

(* Facts are loaded with the measures of their units or not at all,        *)
(* although a replacement may commit between the statements of a load.     *)
LoadIsConsistent ==
  \A r \in Readers : \A x \in got[r] :
    rpc[r] = "loaded" /\ x.part = "facts" => PartOf(x, "measures") \in got[r]

(* Every command ends, although extractors of different filings insert the *)
(* concepts they share in different orders and so may wait in a cycle.     *)
EveryExtractEnds ==
  \A e \in Extractors : pc[e] \notin {"idle", "done", "failed"} ~> pc[e] \in {"done", "failed"}

=============================================================================
