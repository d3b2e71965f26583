------------------------- MODULE SourceCatalogProofs -------------------------
(***************************************************************************)
(* Proofs about the source catalog, for every set of extractors, readers,  *)
(* filings, bundles and concepts, and any number of extractions.           *)
(*                                                                         *)
(* The FOR UPDATE lock makes the rows a transaction deletes exactly those  *)
(* of the filing, and the unique accession makes a catalogued inventory    *)
(* final, so that what the first transaction compared still holds in the   *)
(* second.  A reader has no transaction at all: it is safe because no      *)
(* extraction ever commits twice, so a report that has gone never returns. *)
(*                                                                         *)
(* The last part is about the batches that extract into the catalog, for   *)
(* every pool of workers and any number of batches.  The report copies the *)
(* records, and a record is written from what the worker had done before:  *)
(* so the snapshot behind a success is followed from the worker that       *)
(* committed it to the record and on to the report.  Batches only go up,   *)
(* and so the snapshot of a later batch serves too.                        *)
(***************************************************************************)
EXTENDS SourceCatalog, BatchExtract, TLAPS

Replacing == {"concepts", "rows", "persisted"}   \* after the deletes
Cataloged == {"reuse", "extract", "lock"} \union Persisting

(* What an extractor relies on at each of its steps. *)
AtStep(e) ==
  /\ pc[e] # "idle" => bundle[e] \in Bundles /\ run[e] >= 1
  /\ pc[e] \notin Replacing => next[e] = 1
  \* What SelectFiling compared, and what InsertFiling found, still holds.
  /\ pc[e] \in Cataloged => filing[Filing(e)] = InventoryOf[bundle[e]]
  /\ pc[e] = "inserted" => filing[Filing(e)] = None
  \* What the deletes saw committed is all there is.
  /\ pc[e] \in Replacing => doomed[e] = source[Filing(e)]
  \* A concept that the upsert skipped was committed.
  /\ pc[e] = "concepts" =>
       \A i \in 1 .. next[e] - 1 : ConceptsOf[bundle[e]][i] \in concepts \union mine[e]
  /\ pc[e] \in {"rows", "persisted"} => Known(e) \subseteq concepts \union mine[e]

(* The row lock of the filing, and the unique accession. *)
Apart(e, u) ==
  /\ pc[e] \in Persisting /\ pc[u] \in Persisting => Filing(e) # Filing(u)
  /\ pc[e] = "inserted" /\ pc[u] = "inserted" => Filing(e) # Filing(u)

ExtractorInv ==
  /\ \A e \in Extractors : AtStep(e)
  /\ \A e, u \in Extractors : e # u => Apart(e, u)

(* The extraction that made the row has committed, and so will not again. *)
Spent(x) == x.run < run[x.by] \/ (x.run = run[x.by] /\ pc[x.by] = "done")

TableInv ==
  /\ SnapshotIsWhole
  /\ EvidenceMatchesCatalog
  /\ \A f \in Filings : \A x \in source[f] : Spent(x)

(* Between its statements a reader has the measures of any facts that its  *)
(* report still has.                                                       *)
AtRead(r) ==
  /\ rpc[r] \in {"idle", "measures"} => got[r] = {}
  /\ rpc[r] \in {"measures", "facts"} => report[r] \in Row /\ Spent(report[r])
  /\ rpc[r] = "facts" =>
       /\ got[r] \subseteq {PartOf(report[r], "measures")}
       /\ PartOf(report[r], "facts") \in Committed => PartOf(report[r], "measures") \in got[r]
  /\ rpc[r] = "loaded" =>
       \A x \in got[r] : x.part = "facts" => PartOf(x, "measures") \in got[r]

ReaderInv == \A r \in Readers : AtRead(r)

IInv == TypeOK /\ ExtractorInv /\ TableInv /\ ReaderInv
-----------------------------------------------------------------------------
(* Rows.                                                                   *)

(* The rows of one extraction differ only in their part. *)
LEMMA PartOfRow ==
  ASSUME NEW x \in Row, NEW part \in Parts
  PROVE  /\ PartOf(x, part) \in Row
         /\ PartOf(x, part).part = part
         /\ PartOf(x, part).by = x.by /\ PartOf(x, part).run = x.run
         /\ PartOf(x, part).bundle = x.bundle
         /\ \A other \in Parts : PartOf(PartOf(x, part), other) = PartOf(x, other)
  <1>. DEFINE y(p) == [by |-> x.by, run |-> x.run, bundle |-> x.bundle, part |-> p]
  <1>0. x = [by |-> x.by, run |-> x.run, bundle |-> x.bundle, part |-> x.part]
    BY DEF Row
  <1>1. PartOf(x, part) = y(part)
    BY <1>0 DEF PartOf
  <1>2. \A other \in Parts : PartOf(x, other) = y(other)
    BY <1>0 DEF PartOf
  <1>3. \A other \in Parts : PartOf(y(part), other) = y(other)
    BY DEF PartOf
  <1>. QED  BY <1>1, <1>2, <1>3 DEF Row

(* An extraction inserts every part of one report. *)
LEMMA InsertedRows ==
  ASSUME TypeOK, NEW e \in Extractors, bundle[e] \in Bundles, run[e] >= 1
  PROVE  LET x == [by |-> e, run |-> run[e], bundle |-> bundle[e], part |-> "report"]
         IN  /\ x \in Row /\ x \in Inserted(e)
             /\ Inserted(e) = { PartOf(x, part) : part \in Parts }
             /\ Inserted(e) \subseteq Row
             /\ \A y \in Inserted(e) : y.by = e /\ y.run = run[e] /\ y.bundle = bundle[e]
  <1>. DEFINE x == [by |-> e, run |-> run[e], bundle |-> bundle[e], part |-> "report"]
  <1>1. run[e] \in 1 .. MaxRuns
    BY BundlesAssumption DEF TypeOK
  <1>2. x \in Row /\ x \in Inserted(e) /\ Inserted(e) \subseteq Row
    BY <1>1 DEF Row, Inserted, Parts
  <1>3. \A y \in Inserted(e) : y.by = e /\ y.run = run[e] /\ y.bundle = bundle[e]
    BY DEF Inserted
  <1>4. \A part \in Parts :
          PartOf(x, part) = [by |-> e, run |-> run[e], bundle |-> bundle[e], part |-> part]
    BY DEF PartOf
  <1>5. \A part \in Parts : PartOf(x, part) \in Inserted(e)
    <2>1. \A part \in Parts :
            [by |-> e, run |-> run[e], bundle |-> bundle[e], part |-> part] \in Inserted(e)
      BY DEF Inserted
    <2>. QED  BY <1>4, <2>1
  <1>6. \A y \in Inserted(e) : y.part \in Parts /\ y = PartOf(x, y.part)
    BY <1>4 DEF Inserted
  <1>7. Inserted(e) = { PartOf(x, part) : part \in Parts }
    BY <1>5, <1>6
  <1>. QED  BY <1>2, <1>3, <1>7

(* A whole snapshot holds every part of each of its reports. *)
LEMMA WholeParts ==
  ASSUME TypeOK, SnapshotIsWhole, NEW x \in Committed, NEW part \in Parts
  PROVE  x \in Row /\ PartOf(x, part) \in Committed
  <1>1. PICK f \in Filings : x \in source[f]
    BY DEF Committed
  <1>2. source[f] \subseteq Row
    BY DEF TypeOK
  <1>3. PICK y \in source[f] : source[f] = { PartOf(y, p) : p \in Parts }
    BY <1>1 DEF SnapshotIsWhole
  <1>4. PICK q \in Parts : x = PartOf(y, q)
    BY <1>1, <1>3
  <1>5. PartOf(x, part) = PartOf(y, part)
    BY <1>2, <1>4, PartOfRow
  <1>. QED  BY <1>1, <1>2, <1>3, <1>5 DEF Committed

-----------------------------------------------------------------------------
(* What the steps have in common.                                          *)

(* A step of extractor e: it writes no other extractor's variables, goes   *)
(* back from done only to another run, catalogs the filing it has inserted *)
(* and replaces the snapshot it has locked.                                *)
StepOf(e) ==
  /\ \A u \in Extractors \ {e} :
       /\ pc'[u] = pc[u] /\ bundle'[u] = bundle[u] /\ run'[u] = run[u]
       /\ next'[u] = next[u] /\ mine'[u] = mine[u] /\ doomed'[u] = doomed[u]
  /\ run'[e] = run[e] + 1 \/ (run'[e] = run[e] /\ pc[e] # "done")
  /\ concepts \subseteq concepts'
  /\ \A f \in Filings : filing'[f] # filing[f] => pc[e] = "inserted" /\ f = Filing(e)
  /\ \A f \in Filings : source'[f] # source[f] => pc[e] = "persisted" /\ f = Filing(e)
  /\ UNCHANGED reader

(* The filing of an extractor that has a bundle. *)
LEMMA BundleType ==
  ASSUME TypeOK, NEW e \in Extractors, AtStep(e), pc[e] # "idle"
  PROVE  /\ bundle[e] \in Bundles /\ bundle[e] # None
         /\ Filing(e) \in Filings
         /\ InventoryOf[bundle[e]] \in Inventories /\ InventoryOf[bundle[e]] # None
         /\ ConceptsOf[bundle[e]] \in Seq(Concepts)
         /\ Len(ConceptsOf[bundle[e]]) \in Nat
  BY BundlesAssumption DEF AtStep, Filing

(* Rows of an extraction that has committed stay such rows. *)
LEMMA SpentKept ==
  ASSUME TypeOK, NEW e \in Extractors, StepOf(e), NEW x \in Row, Spent(x)
  PROVE  Spent(x)'
  <1>1. x.by \in Extractors /\ x.run \in Nat /\ run[x.by] \in Nat
    BY BundlesAssumption DEF Row, TypeOK
  <1>2. CASE x.by = e
    BY <1>1, <1>2 DEF StepOf, Spent
  <1>3. CASE x.by # e
    BY <1>1, <1>3 DEF StepOf, Spent
  <1>. QED  BY <1>2, <1>3

(* The row lock and the unique accession shield an extractor from the      *)
(* commits of the others.                                                  *)
LEMMA OthersUndisturbed ==
  ASSUME IInv, NEW e \in Extractors, StepOf(e), NEW u \in Extractors, u # e
  PROVE  AtStep(u)'
  <1>1. /\ pc'[u] = pc[u] /\ bundle'[u] = bundle[u] /\ run'[u] = run[u]
        /\ next'[u] = next[u] /\ mine'[u] = mine[u] /\ doomed'[u] = doomed[u]
        /\ Filing(u)' = Filing(u) /\ Known(u)' = Known(u) /\ concepts \subseteq concepts'
    BY DEF StepOf, Filing, Known
  <1>2. TypeOK /\ AtStep(u) /\ AtStep(e) /\ Apart(u, e)
    BY DEF IInv, ExtractorInv
  <1>3. CASE pc[u] = "idle"
    BY <1>1, <1>2, <1>3 DEF AtStep, Replacing, Cataloged, Persisting
  <1>4. CASE pc[u] # "idle"
    <2>1. Filing(u) \in Filings /\ InventoryOf[bundle[u]] # None
      BY <1>2, <1>4, BundleType
    <2>2. pc[u] \in Cataloged \/ pc[u] = "inserted" => filing'[Filing(u)] = filing[Filing(u)]
      BY <1>2, <2>1 DEF StepOf, AtStep, Apart
    <2>3. pc[u] \in Persisting => source'[Filing(u)] = source[Filing(u)]
      BY <1>2, <2>1 DEF StepOf, Apart, Persisting
    <2>. QED  BY <1>1, <1>2, <2>2, <2>3 DEF AtStep, Replacing, Persisting
  <1>. QED  BY <1>3, <1>4

(* A reader that goes on after a replacement sees no facts that it has not *)
(* the measures of: a report that is gone does not come back.              *)
LEMMA ReadersUndisturbed ==
  ASSUME IInv, NEW e \in Extractors, StepOf(e), TableInv',
         \A f \in Filings : \A y \in source'[f] : y \in source[f] \/ (y.by = e /\ y.run = run[e])
  PROVE  ReaderInv'
  <1>. SUFFICES ASSUME NEW r \in Readers PROVE AtRead(r)'
    BY DEF ReaderInv
  <1>1. AtRead(r) /\ TypeOK
    BY DEF IInv, ReaderInv
  <1>2. rpc' = rpc /\ report' = report /\ got' = got
    BY DEF StepOf, reader
  <1>3. rpc[r] \in {"measures", "facts"} => report[r] \in Row /\ Spent(report[r])'
    <2>. SUFFICES ASSUME rpc[r] \in {"measures", "facts"}
                  PROVE  report[r] \in Row /\ Spent(report[r])'
      OBVIOUS
    <2>1. PICK x \in Row : x = report[r]
      BY <1>1 DEF AtRead
    <2>2. Spent(x)'
      BY <1>1, <2>1, SpentKept DEF AtRead
    <2>. QED  BY <1>2, <2>1, <2>2 DEF Spent
  <1>4. ASSUME rpc[r] = "facts", PartOf(report[r], "facts") \in Committed'
        PROVE  PartOf(report[r], "facts") \in Committed
    <2>1. PICK f \in Filings : PartOf(report[r], "facts") \in source'[f]
      BY <1>4 DEF Committed
    <2>2. report[r] \in Row /\ Spent(report[r])
      BY <1>1, <1>4 DEF AtRead
    <2>3. PartOf(report[r], "facts").by = report[r].by /\ PartOf(report[r], "facts").run = report[r].run
      BY <2>2, PartOfRow DEF Parts
    <2>4. CASE PartOf(report[r], "facts") \in source[f]
      BY <2>4 DEF Committed
    <2>5. CASE PartOf(report[r], "facts") \notin source[f]
      <3>1. report[r].by = e /\ report[r].run = run[e] /\ run[e] \in Nat
        BY <1>1, <2>1, <2>3, <2>5, BundlesAssumption DEF TypeOK
      <3>2. source'[f] # source[f]
        BY <2>1, <2>5
      <3>3. pc[e] = "persisted"
        BY <3>2 DEF StepOf
      <3>. QED  BY <2>2, <3>1, <3>3 DEF Spent
    <2>. QED  BY <2>4, <2>5
  <1>. QED  BY <1>1, <1>2, <1>3, <1>4 DEF AtRead

(* A step that commits nothing leaves the tables as they were. *)
LEMMA TablesKept ==
  ASSUME IInv, NEW e \in Extractors, StepOf(e), UNCHANGED <<filing, source>>
  PROVE  TableInv'
  <1>1. TypeOK /\ TableInv
    BY DEF IInv
  <1>2. SnapshotIsWhole' /\ EvidenceMatchesCatalog'
    BY <1>1 DEF TableInv, SnapshotIsWhole, EvidenceMatchesCatalog
  <1>3. ASSUME NEW f \in Filings, NEW x \in source[f]
        PROVE  Spent(x)'
    <2>1. x \in Row /\ Spent(x)
      BY <1>1 DEF TypeOK, TableInv
    <2>. QED  BY <1>1, <2>1, SpentKept
  <1>. QED  BY <1>2, <1>3 DEF TableInv
-----------------------------------------------------------------------------
(* The steps.                                                              *)

(* No filing is catalogued and nobody is at work. *)
LEMMA InitIInv == Init => IInv
  <1>. SUFFICES ASSUME Init PROVE IInv
    OBVIOUS
  <1>. USE BundlesAssumption DEF Init
  <1>1. TypeOK
    BY DEF TypeOK, ExtractorSteps
  <1>2. ExtractorInv
    BY DEF ExtractorInv, AtStep, Apart, Replacing, Cataloged, Persisting
  <1>3. TableInv
    BY DEF TableInv, SnapshotIsWhole, EvidenceMatchesCatalog
  <1>4. ReaderInv
    BY DEF ReaderInv, AtRead
  <1>. QED  BY <1>1, <1>2, <1>3, <1>4 DEF IInv

(* The statements of an extractor that commit nothing. *)
Statement(e) ==
  \/ UpsertIssuer(e) \/ SelectFiling(e) \/ InsertFiling(e) \/ Extract(e) \/ LockFiling(e)
  \/ DeleteExtractionOwned(e) \/ UpsertConcept(e) \/ InsertReports(e)

Commit(e) == CommitCatalog(e) \/ CommitExtraction(e)

(* A deadlock is broken by a rollback of a waiting transaction. *)
LEMMA DeadlockAborts == BreakDeadlock => \E e \in Extractors : Abort(e)
  <1>. SUFFICES ASSUME BreakDeadlock PROVE \E e \in Extractors : Abort(e)
    OBVIOUS
  <1>1. PICK S \in SUBSET Extractors : WaitCycle(S) /\ \E e \in S : Rollback(e)
    BY DEF BreakDeadlock
  <1>2. PICK e \in S : Rollback(e)
    BY <1>1
  <1>3. Blockers(e) # {}
    BY <1>1 DEF WaitCycle, Stuck
  <1>4. pc[e] \in {"issuer", "insert", "lock", "concepts"}
    BY <1>3 DEF Blockers
  <1>. QED  BY <1>2, <1>4 DEF Abort

(* Every step of an extractor is one in the sense of StepOf. *)
LEMMA ExtractorFrame ==
  ASSUME TypeOK, NEW e \in Extractors, AtStep(e), Start(e) \/ Statement(e) \/ Commit(e) \/ Abort(e)
  PROVE  StepOf(e)
  <1>. USE DEF Goto, tables
  <1>1. CASE Abort(e)
    BY <1>1 DEF Abort, Rollback, Forget, TypeOK, StepOf
  <1>2. CASE Start(e)
    BY <1>2 DEF Start, TypeOK, StepOf
  <1>3. CASE Statement(e) /\ ~ Abort(e)
    <2>1. pc[e] \notin {"idle", "done", "failed"}
      BY <1>3
      DEF Statement, UpsertIssuer, SelectFiling, InsertFiling, Extract, LockFiling,
          DeleteExtractionOwned, UpsertConcept, InsertReports
    <2>2. UNCHANGED <<tables, bundle, run, reader>>
      BY <1>3
      DEF Statement, UpsertIssuer, SelectFiling, InsertFiling, Extract, LockFiling,
          DeleteExtractionOwned, UpsertConcept, InsertReports, Rollback
    <2>3. \A u \in Extractors \ {e} :
            pc'[u] = pc[u] /\ next'[u] = next[u] /\ mine'[u] = mine[u] /\ doomed'[u] = doomed[u]
      BY <1>3, <2>1
      DEF Statement, UpsertIssuer, SelectFiling, InsertFiling, Extract, LockFiling,
          DeleteExtractionOwned, UpsertConcept, InsertReports, Abort, TypeOK
    <2>. QED  BY <2>1, <2>2, <2>3 DEF StepOf
  <1>4. CASE CommitCatalog(e)
    <2>1. \A f \in Filings : filing'[f] # filing[f] => pc[e] = "inserted" /\ f = Filing(e)
      BY <1>4 DEF CommitCatalog, TypeOK
    <2>2. \A u \in Extractors \ {e} : pc'[u] = pc[u]
      BY <1>4 DEF CommitCatalog, TypeOK
    <2>3. \A u \in Extractors \ {e} :
            next'[u] = next[u] /\ mine'[u] = mine[u] /\ doomed'[u] = doomed[u]
      BY <1>4 DEF CommitCatalog, Forget, TypeOK
    <2>. QED  BY <1>4, <2>1, <2>2, <2>3 DEF CommitCatalog, StepOf
  <1>5. CASE CommitExtraction(e)
    <2>1. \A f \in Filings : source'[f] # source[f] => f = Filing(e)
      BY <1>5 DEF CommitExtraction, TypeOK
    <2>2. \A u \in Extractors \ {e} : pc'[u] = pc[u]
      BY <1>5 DEF CommitExtraction, TypeOK
    <2>3. \A u \in Extractors \ {e} :
            next'[u] = next[u] /\ mine'[u] = mine[u] /\ doomed'[u] = doomed[u]
      BY <1>5 DEF CommitExtraction, Forget, TypeOK
    <2>. QED  BY <1>5, <2>1, <2>2, <2>3 DEF CommitExtraction, StepOf
  <1>. QED  BY <1>1, <1>2, <1>3, <1>4, <1>5 DEF Commit

(* Every step of an extractor keeps the type. *)
LEMMA ExtractorType ==
  ASSUME TypeOK, NEW e \in Extractors, AtStep(e), Start(e) \/ Statement(e) \/ Commit(e) \/ Abort(e)
  PROVE  TypeOK'
  <1>. USE BundlesAssumption DEF Goto, tables, reader
  <1>. DEFINE Long(u) == bundle[u] # None => next[u] <= Len(ConceptsOf[bundle[u]]) + 1
  <1>1. CASE Abort(e)
    <2>1. /\ pc' \in [Extractors -> ExtractorSteps] /\ made' \in [Extractors -> BOOLEAN]
          /\ next' \in [Extractors -> Nat \ {0}] /\ mine' \in [Extractors -> SUBSET Concepts]
          /\ doomed' \in [Extractors -> SUBSET Row]
      BY <1>1 DEF Abort, Rollback, Forget, TypeOK, ExtractorSteps
    <2>2. \A u \in Extractors : Long(u)'
      BY <1>1 DEF Abort, Rollback, Forget, TypeOK
    <2>. QED  BY <1>1, <2>1, <2>2 DEF Abort, Rollback, TypeOK
  <1>2. CASE Start(e)
    <2>1. next[e] = 1
      BY <1>2 DEF Start, AtStep, Replacing
    <2>2. PICK b \in Bundles : bundle' = [bundle EXCEPT ![e] = b]
      BY <1>2 DEF Start
    <2>3. Len(ConceptsOf[b]) \in Nat
      BY <2>2
    <2>4. \A u \in Extractors : Long(u)'
      BY <1>2, <2>1, <2>2, <2>3 DEF Start, TypeOK
    <2>5. /\ run' \in [Extractors -> 0 .. MaxRuns] /\ pc' \in [Extractors -> ExtractorSteps]
          /\ bundle' \in [Extractors -> Bundles \union {None}]
      BY <1>2, <2>2 DEF Start, TypeOK, ExtractorSteps, Cataloging
    <2>. QED  BY <1>2, <2>4, <2>5 DEF Start, TypeOK
  <1>3. CASE Statement(e) /\ ~ Abort(e)
    <2>1. UNCHANGED <<tables, bundle, run, reader>>
      BY <1>3
      DEF Statement, UpsertIssuer, SelectFiling, InsertFiling, Extract, LockFiling,
          DeleteExtractionOwned, UpsertConcept, InsertReports, Rollback
    <2>2. pc' \in [Extractors -> ExtractorSteps] /\ made' \in [Extractors -> BOOLEAN]
      BY <1>3
      DEF Statement, UpsertIssuer, SelectFiling, InsertFiling, Extract, LockFiling, Abort,
          DeleteExtractionOwned, UpsertConcept, InsertReports, TypeOK, ExtractorSteps,
          Cataloging, Persisting
    <2>3. doomed' \in [Extractors -> SUBSET Row]
      <3>1. pc[e] = "delete" => source[Filing(e)] \in SUBSET Row
        BY BundleType DEF TypeOK
      <3>. QED
        BY <1>3, <3>1
        DEF Statement, UpsertIssuer, SelectFiling, InsertFiling, Extract, LockFiling, Abort,
            DeleteExtractionOwned, UpsertConcept, InsertReports, TypeOK
    <2>4. /\ next' \in [Extractors -> Nat \ {0}] /\ mine' \in [Extractors -> SUBSET Concepts]
          /\ \A u \in Extractors : Long(u)'
      <3>1. CASE UpsertConcept(e)
        <4>1. bundle[e] \in Bundles /\ Len(ConceptsOf[bundle[e]]) \in Nat
              /\ ConceptsOf[bundle[e]] \in Seq(Concepts)
          BY <3>1, BundleType DEF UpsertConcept
        <4>2. next[e] \in Nat \ {0} /\ next[e] + 1 \in Nat \ {0}
          BY DEF TypeOK
        <4>3. next[e] <= Len(ConceptsOf[bundle[e]]) => ConceptsOf[bundle[e]][next[e]] \in Concepts
          BY <4>1, <4>2
        <4>4. next' \in [Extractors -> Nat \ {0}]
          BY <3>1, <4>2 DEF UpsertConcept, TypeOK
        <4>5. CASE next[e] > Len(ConceptsOf[bundle[e]])
          BY <2>1, <3>1, <4>4, <4>5 DEF UpsertConcept, TypeOK
        <4>6. CASE ~ (next[e] > Len(ConceptsOf[bundle[e]]))
          <5>. DEFINE c == ConceptsOf[bundle[e]][next[e]]
          <5>1. /\ next' = [next EXCEPT ![e] = @ + 1]
                /\ mine' = [mine EXCEPT ![e] = IF c \in concepts THEN @ ELSE @ \union {c}]
            BY <3>1, <4>6 DEF UpsertConcept
          <5>2. c \in Concepts /\ next[e] + 1 <= Len(ConceptsOf[bundle[e]]) + 1
            BY <4>1, <4>2, <4>3, <4>6
          <5>. HIDE DEF c
          <5>3. mine' \in [Extractors -> SUBSET Concepts]
            BY <5>1, <5>2 DEF TypeOK
          <5>4. \A u \in Extractors : Long(u)'
            BY <2>1, <5>1, <5>2 DEF TypeOK
          <5>. QED  BY <4>4, <5>3, <5>4
        <4>. QED  BY <4>5, <4>6
      <3>2. CASE ~ UpsertConcept(e)
        <4>1. UNCHANGED <<next, mine>>
          BY <1>3, <3>2
          DEF Statement, UpsertIssuer, SelectFiling, InsertFiling, Extract, LockFiling, Abort,
              DeleteExtractionOwned, InsertReports
        <4>. QED  BY <2>1, <4>1 DEF TypeOK
      <3>. QED  BY <3>1, <3>2
    <2>. QED  BY <2>1, <2>2, <2>3, <2>4 DEF TypeOK
  <1>4. CASE Commit(e)
    <2>1. pc[e] # "idle"
      BY <1>4 DEF Commit, CommitCatalog, CommitExtraction
    <2>2. /\ bundle[e] \in Bundles /\ Filing(e) \in Filings /\ InventoryOf[bundle[e]] \in Inventories
          /\ IssuerOf[Filing(e)] \in Issuers
      BY <2>1, BundleType
    <2>3. Forget(e) /\ UNCHANGED <<bundle, run, reader>>
      BY <1>4 DEF Commit, CommitCatalog, CommitExtraction
    <2>4. /\ made' \in [Extractors -> BOOLEAN]
          /\ next' \in [Extractors -> Nat \ {0}] /\ mine' \in [Extractors -> SUBSET Concepts]
          /\ doomed' \in [Extractors -> SUBSET Row]
      BY <2>3 DEF Forget, TypeOK
    <2>5. \A u \in Extractors : Long(u)'
      BY <2>2, <2>3 DEF Forget, TypeOK
    <2>6. pc' \in [Extractors -> ExtractorSteps]
      BY <1>4 DEF Commit, CommitCatalog, CommitExtraction, TypeOK, ExtractorSteps
    <2>7. issuers' \in SUBSET Issuers /\ filing' \in [Filings -> Inventories \union {None}]
      BY <1>4, <2>2 DEF Commit, CommitCatalog, CommitExtraction, TypeOK
    <2>8. concepts' \in SUBSET Concepts
      BY <1>4 DEF Commit, CommitCatalog, CommitExtraction, TypeOK
    <2>9. source' \in [Filings -> SUBSET Row]
      <3>1. Inserted(e) \subseteq Row
        BY <2>1, <2>2, InsertedRows DEF AtStep
      <3>2. source[Filing(e)] \in SUBSET Row
        BY <2>2 DEF TypeOK
      <3>3. (source[Filing(e)] \ doomed[e]) \union Inserted(e) \in SUBSET Row
        BY <3>1, <3>2
      <3>4. \/ source' = source
            \/ source' = [source EXCEPT ![Filing(e)] = (source[Filing(e)] \ doomed[e]) \union Inserted(e)]
        BY <1>4 DEF Commit, CommitCatalog, CommitExtraction
      <3>. QED  BY <3>3, <3>4 DEF TypeOK
    <2>. QED  BY <2>3, <2>4, <2>5, <2>6, <2>7, <2>8, <2>9 DEF TypeOK
  <1>. QED  BY <1>1, <1>2, <1>3, <1>4
(* From step to step an extractor comes to know what the next one needs.   *)
LEMMA ExtractorAtStep ==
  ASSUME IInv, NEW e \in Extractors, Start(e) \/ Statement(e) \/ Commit(e) \/ Abort(e)
  PROVE  AtStep(e)'
  <1>. USE BundlesAssumption DEF Goto, tables
  <1>1. TypeOK /\ AtStep(e)
    BY DEF IInv, ExtractorInv
  <1>2. TypeOK'
    BY <1>1, ExtractorType
  <1>3. CASE Abort(e)
    <2>1. /\ pc'[e] = "failed" /\ next'[e] = 1 /\ bundle' = bundle /\ run' = run /\ pc[e] # "idle"
      BY <1>1, <1>3 DEF Abort, Rollback, Forget, TypeOK
    <2>. QED  BY <1>1, <2>1 DEF AtStep, Replacing, Cataloged, Persisting
  <1>4. CASE Start(e)
    <2>1. pc'[e] = "issuer" /\ bundle'[e] \in Bundles /\ run'[e] >= 1 /\ next'[e] = 1
      BY <1>1, <1>4 DEF Start, TypeOK, AtStep, Replacing
    <2>. QED  BY <2>1 DEF AtStep, Replacing, Cataloged, Persisting
  <1>5. CASE Statement(e) /\ ~ Abort(e)
    <2>1. /\ pc[e] \notin {"idle", "done", "failed"}
          /\ UNCHANGED <<tables, bundle, run>> /\ Filing(e)' = Filing(e) /\ Known(e)' = Known(e)
      BY <1>5
      DEF Statement, UpsertIssuer, SelectFiling, InsertFiling, Extract, LockFiling,
          DeleteExtractionOwned, UpsertConcept, InsertReports, Rollback, Filing, Known
    <2>2. bundle'[e] \in Bundles /\ run'[e] >= 1
      BY <1>1, <2>1 DEF AtStep
    <2>3. CASE \/ UpsertIssuer(e) \/ SelectFiling(e) \/ InsertFiling(e) \/ Extract(e)
               \/ LockFiling(e)
      <3>1. next[e] = 1 /\ next' = next
        BY <1>1, <1>5, <2>1, <2>3
        DEF UpsertIssuer, SelectFiling, InsertFiling, Extract, LockFiling, Abort, AtStep, Replacing
      <3>2. /\ pc'[e] \in {"filing", "insert", "reuse", "inserted", "lock", "delete"}
            /\ pc'[e] \in {"lock", "delete"} => pc[e] \in {"extract", "lock"}
            /\ pc'[e] = "reuse" => filing[Filing(e)] = InventoryOf[bundle[e]]
            /\ pc'[e] = "inserted" => filing[Filing(e)] = None
        BY <1>1, <1>5, <2>1, <2>3
        DEF UpsertIssuer, SelectFiling, InsertFiling, Extract, LockFiling, Abort, TypeOK
      <3>. QED  BY <1>1, <2>1, <2>2, <3>1, <3>2 DEF AtStep, Replacing, Cataloged, Persisting
    <2>4. CASE DeleteExtractionOwned(e)
      <3>1. /\ pc[e] = "delete" /\ pc'[e] = "concepts" /\ next' = next /\ next[e] = 1
            /\ doomed'[e] = source[Filing(e)]
        BY <1>1, <2>4 DEF DeleteExtractionOwned, TypeOK, AtStep, Replacing
      <3>. QED  BY <1>1, <2>1, <2>2, <3>1 DEF AtStep, Replacing, Cataloged, Persisting
    <2>5. CASE UpsertConcept(e)
      <3>1. /\ pc[e] = "concepts" /\ UNCHANGED <<doomed, concepts>>
            /\ Len(ConceptsOf[bundle[e]]) \in Nat /\ next[e] \in Nat
        BY <1>1, <2>1, <2>5, BundleType DEF UpsertConcept, TypeOK
      <3>2. CASE next[e] > Len(ConceptsOf[bundle[e]])
        <4>1. pc'[e] = "rows" /\ UNCHANGED <<next, mine>>
          BY <1>1, <2>5, <3>2 DEF UpsertConcept, TypeOK
        <4>2. Known(e) \subseteq concepts \union mine[e]
          <5>1. \A i \in 1 .. Len(ConceptsOf[bundle[e]]) : i \in 1 .. next[e] - 1
            BY <3>1, <3>2
          <5>2. \A i \in 1 .. next[e] - 1 : ConceptsOf[bundle[e]][i] \in concepts \union mine[e]
            BY <1>1, <3>1 DEF AtStep
          <5>. QED  BY <5>1, <5>2 DEF Known
        <4>. QED  BY <1>1, <2>1, <2>2, <3>1, <4>1, <4>2 DEF AtStep, Replacing, Cataloged, Persisting
      <3>3. CASE ~ (next[e] > Len(ConceptsOf[bundle[e]]))
        <4>. DEFINE c == ConceptsOf[bundle[e]][next[e]]
        <4>1. /\ pc' = pc /\ next'[e] = next[e] + 1
              /\ mine'[e] = IF c \in concepts THEN mine[e] ELSE mine[e] \union {c}
          BY <1>1, <2>5, <3>3 DEF UpsertConcept, TypeOK
        <4>2. \A i \in 1 .. next[e] - 1 : ConceptsOf[bundle[e]][i] \in concepts \union mine[e]
          BY <1>1, <3>1 DEF AtStep
        <4>3. ASSUME NEW i \in 1 .. next'[e] - 1
              PROVE  ConceptsOf[bundle[e]][i] \in concepts \union mine'[e]
          <5>1. CASE i = next[e]
            BY <4>1, <5>1
          <5>2. CASE i # next[e]
            <6>1. i \in 1 .. next[e] - 1
              BY <3>1, <4>1, <5>2
            <6>. QED  BY <4>1, <4>2, <6>1
          <5>. QED  BY <5>1, <5>2
        <4>. HIDE DEF c
        <4>. QED  BY <1>1, <2>1, <2>2, <3>1, <4>1, <4>3 DEF AtStep, Replacing, Cataloged, Persisting
      <3>. QED  BY <3>2, <3>3
    <2>6. CASE InsertReports(e)
      <3>1. pc[e] = "rows" /\ pc'[e] = "persisted" /\ UNCHANGED <<next, mine, doomed>>
        BY <1>1, <1>5, <2>1, <2>6 DEF InsertReports, Abort, TypeOK
      <3>. QED  BY <1>1, <2>1, <2>2, <3>1 DEF AtStep, Replacing, Cataloged, Persisting
    <2>. QED  BY <1>5, <2>3, <2>4, <2>5, <2>6 DEF Statement
  <1>6. CASE CommitCatalog(e)
    <2>1. /\ pc[e] \in {"reuse", "inserted"} /\ pc'[e] \in {"extract", "done"} /\ next'[e] = 1
          /\ bundle' = bundle /\ run' = run
      BY <1>1, <1>6 DEF CommitCatalog, Forget, TypeOK
    <2>2. filing'[Filing(e)] = InventoryOf[bundle[e]]
      <3>1. Filing(e) \in Filings
        BY <1>1, <2>1, BundleType
      <3>. QED  BY <1>1, <1>6, <2>1, <3>1 DEF CommitCatalog, TypeOK, AtStep, Cataloged
    <2>. QED  BY <1>1, <2>1, <2>2 DEF AtStep, Filing, Replacing, Cataloged, Persisting
  <1>7. CASE CommitExtraction(e)
    <2>1. /\ pc[e] = "persisted" /\ pc'[e] = "done" /\ next'[e] = 1
          /\ bundle' = bundle /\ run' = run
      BY <1>1, <1>7 DEF CommitExtraction, Forget, TypeOK
    <2>. QED  BY <1>1, <2>1 DEF AtStep, Replacing, Cataloged, Persisting
  <1>. QED  BY <1>3, <1>4, <1>5, <1>6, <1>7 DEF Commit

(* Only LockFiling enters the locked part and only InsertFiling inserts,   *)
(* each when nobody else is there for the same filing.                     *)
LEMMA ExtractorApart ==
  ASSUME IInv, NEW e \in Extractors, Start(e) \/ Statement(e) \/ Commit(e) \/ Abort(e),
         NEW u \in Extractors, u # e
  PROVE  Apart(e, u)'
  <1>. USE DEF Goto, tables
  <1>1. TypeOK /\ AtStep(e) /\ Apart(e, u)
    BY DEF IInv, ExtractorInv
  <1>2. pc'[u] = pc[u] /\ Filing(u)' = Filing(u)
    BY <1>1, ExtractorFrame DEF StepOf, Filing
  <1>3. CASE LockFiling(e)
    <2>1. /\ pc'[e] = "delete" /\ Filing(e)' = Filing(e)
          /\ pc[u] \in Persisting => Filing(u) # Filing(e)
      BY <1>1, <1>3 DEF LockFiling, LockBlockers, HoldsFiling, Filing, TypeOK
    <2>. QED  BY <1>2, <2>1 DEF Apart, Persisting
  <1>4. CASE InsertFiling(e) /\ ~ Abort(e)
    <2>1. /\ pc'[e] = "inserted" /\ Filing(e)' = Filing(e)
          /\ pc[u] = "inserted" => Filing(u) # Filing(e)
      BY <1>1, <1>4 DEF InsertFiling, InsertBlockers, Abort, Filing, TypeOK
    <2>. QED  BY <1>2, <2>1 DEF Apart, Persisting
  <1>5. CASE ~ (LockFiling(e) \/ (InsertFiling(e) /\ ~ Abort(e)))
    <2>1. pc'[e] # "inserted"
      BY <1>1, <1>5
      DEF Start, Statement, UpsertIssuer, SelectFiling, Extract, DeleteExtractionOwned,
          UpsertConcept, InsertReports, Commit, CommitCatalog, CommitExtraction, Abort, Rollback,
          TypeOK
    <2>2. pc'[e] \in Persisting => pc[e] \in Persisting /\ Filing(e)' = Filing(e)
      BY <1>1, <1>5
      DEF Start, Statement, UpsertIssuer, SelectFiling, Extract, DeleteExtractionOwned,
          UpsertConcept, InsertReports, Commit, CommitCatalog, CommitExtraction, Abort, Rollback,
          TypeOK, Filing, Persisting
    <2>. QED  BY <1>1, <1>2, <2>1, <2>2 DEF Apart
  <1>. QED  BY <1>3, <1>4, <1>5

(* A filing that is being inserted has no snapshot yet. *)
LEMMA CatalogCommit ==
  ASSUME IInv, NEW e \in Extractors, CommitCatalog(e)
  PROVE  TableInv'
  <1>1. TypeOK /\ AtStep(e) /\ TableInv
    BY DEF IInv, ExtractorInv
  <1>2. StepOf(e) /\ source' = source
    BY <1>1, ExtractorFrame DEF CommitCatalog, Commit
  <1>3. CASE pc[e] = "reuse"
    <2>1. filing' = filing
      BY <1>3 DEF CommitCatalog
    <2>. QED  BY <1>2, <2>1, TablesKept
  <1>4. CASE pc[e] = "inserted"
    <2>1. filing[Filing(e)] = None /\ Filing(e) \in Filings
      BY <1>1, <1>4, BundleType DEF AtStep
    <2>2. ASSUME NEW f \in Filings, NEW x \in source[f]
          PROVE  x \in Row /\ Spent(x)' /\ FilingOf[x.bundle] = f /\ filing'[f] = InventoryOf[x.bundle]
      <3>1. /\ x \in Row /\ Spent(x) /\ FilingOf[x.bundle] = f
            /\ filing[f] = InventoryOf[x.bundle]
        BY <1>1 DEF TypeOK, TableInv, EvidenceMatchesCatalog
      <3>2. filing[f] # None
        BY <3>1, BundlesAssumption DEF Row
      <3>3. filing'[f] = filing[f]
        BY <1>2, <2>1, <3>2 DEF StepOf
      <3>. QED  BY <1>1, <1>2, <3>1, <3>3, SpentKept
    <2>3. EvidenceMatchesCatalog'
      BY <1>2, <2>2 DEF EvidenceMatchesCatalog
    <2>4. SnapshotIsWhole'
      BY <1>1, <1>2 DEF TableInv, SnapshotIsWhole
    <2>. QED  BY <1>2, <2>2, <2>3, <2>4 DEF TableInv
  <1>. QED  BY <1>3, <1>4 DEF CommitCatalog

(* The deletes saw the whole snapshot, so what stays is what was inserted. *)
LEMMA ReplacedSnapshot ==
  ASSUME IInv, NEW e \in Extractors, CommitExtraction(e)
  PROVE  /\ Filing(e) \in Filings
         /\ source'[Filing(e)] = Inserted(e)
         /\ \A f \in Filings \ {Filing(e)} : source'[f] = source[f]
  <1>1. TypeOK /\ AtStep(e) /\ pc[e] = "persisted"
    BY DEF IInv, ExtractorInv, CommitExtraction
  <1>2. Filing(e) \in Filings /\ doomed[e] = source[Filing(e)]
    BY <1>1, BundleType DEF AtStep, Replacing
  <1>3. (source[Filing(e)] \ doomed[e]) \union Inserted(e) = Inserted(e)
    BY <1>2
  <1>4. source' = [source EXCEPT ![Filing(e)] = Inserted(e)]
    BY <1>3 DEF CommitExtraction
  <1>. QED  BY <1>1, <1>2, <1>4 DEF TypeOK

(* The snapshot that replaces another is whole, and of the bundle that the *)
(* catalog describes.                                                      *)
LEMMA ExtractionCommit ==
  ASSUME IInv, NEW e \in Extractors, CommitExtraction(e)
  PROVE  TableInv'
  <1>1. TypeOK /\ AtStep(e) /\ TableInv /\ pc[e] = "persisted"
    BY DEF IInv, ExtractorInv, CommitExtraction
  <1>2. StepOf(e) /\ UNCHANGED <<filing, run, bundle>> /\ pc'[e] = "done"
    BY <1>1, ExtractorFrame DEF CommitExtraction, Commit, Goto, TypeOK
  <1>3. /\ Filing(e) \in Filings /\ source'[Filing(e)] = Inserted(e)
        /\ \A f \in Filings \ {Filing(e)} : source'[f] = source[f]
    BY ReplacedSnapshot
  <1>. DEFINE x0 == [by |-> e, run |-> run[e], bundle |-> bundle[e], part |-> "report"]
  <1>4. /\ x0 \in Inserted(e) /\ Inserted(e) = { PartOf(x0, part) : part \in Parts }
        /\ \A y \in Inserted(e) : y.by = e /\ y.run = run[e] /\ y.bundle = bundle[e]
    BY <1>1, InsertedRows DEF AtStep
  <1>. HIDE DEF x0
  <1>5. SnapshotIsWhole'
    <2>. SUFFICES ASSUME NEW f \in Filings
                  PROVE  \/ source'[f] = {}
                         \/ \E x \in source'[f] : source'[f] = { PartOf(x, part) : part \in Parts }
      BY DEF SnapshotIsWhole
    <2>1. CASE f = Filing(e)
      BY <1>3, <1>4, <2>1
    <2>2. CASE f # Filing(e)
      BY <1>1, <1>3, <2>2 DEF TableInv, SnapshotIsWhole
    <2>. QED  BY <2>1, <2>2
  <1>6. EvidenceMatchesCatalog'
    <2>. SUFFICES ASSUME NEW f \in Filings, NEW x \in source'[f]
                  PROVE  FilingOf[x.bundle] = f /\ filing[f] = InventoryOf[x.bundle]
      BY <1>2 DEF EvidenceMatchesCatalog
    <2>1. CASE f = Filing(e)
      <3>1. filing[Filing(e)] = InventoryOf[bundle[e]]
        BY <1>1 DEF AtStep, Cataloged, Persisting
      <3>. QED  BY <1>3, <1>4, <2>1, <3>1 DEF Filing
    <2>2. CASE f # Filing(e)
      BY <1>1, <1>3, <2>2 DEF TableInv, EvidenceMatchesCatalog
    <2>. QED  BY <2>1, <2>2
  <1>7. ASSUME NEW f \in Filings, NEW x \in source'[f]
        PROVE  Spent(x)'
    <2>1. CASE f = Filing(e)
      BY <1>2, <1>3, <1>4, <2>1 DEF Spent
    <2>2. CASE f # Filing(e)
      <3>1. x \in Row /\ Spent(x)
        BY <1>1, <1>3, <2>2 DEF TypeOK, TableInv
      <3>. QED  BY <1>1, <1>2, <3>1, SpentKept
    <2>. QED  BY <2>1, <2>2
  <1>. QED  BY <1>5, <1>6, <1>7 DEF TableInv

(* An extractor's step keeps the invariant. *)
LEMMA ExtractorKeeps ==
  ASSUME IInv, NEW e \in Extractors, Start(e) \/ Statement(e) \/ Commit(e) \/ Abort(e)
  PROVE  IInv'
  <1>1. TypeOK /\ AtStep(e)
    BY DEF IInv, ExtractorInv
  <1>2. StepOf(e) /\ TypeOK'
    BY <1>1, ExtractorFrame, ExtractorType
  <1>3. ExtractorInv'
    <2>1. ASSUME NEW u \in Extractors, NEW v \in Extractors, u # v
          PROVE  Apart(u, v)'
      <3>1. CASE u = e
        BY <2>1, <3>1, ExtractorApart
      <3>2. CASE v = e
        <4>1. Apart(v, u)'
          BY <2>1, <3>2, ExtractorApart
        <4>. QED  BY <4>1 DEF Apart
      <3>3. CASE u # e /\ v # e
        BY <1>2, <2>1, <3>3 DEF IInv, ExtractorInv, Apart, StepOf, Filing
      <3>. QED  BY <3>1, <3>2, <3>3
    <2>. QED  BY <1>2, <2>1, OthersUndisturbed, ExtractorAtStep DEF ExtractorInv
  <1>4. TableInv' /\ \A f \in Filings : \A y \in source'[f] : y \in source[f] \/ (y.by = e /\ y.run = run[e])
    <2>1. CASE CommitCatalog(e)
      BY <2>1, CatalogCommit DEF CommitCatalog
    <2>2. CASE CommitExtraction(e)
      <3>1. \A y \in Inserted(e) : y.by = e /\ y.run = run[e]
        BY DEF Inserted
      <3>. QED  BY <2>2, <3>1, ExtractionCommit, ReplacedSnapshot
    <2>3. CASE Start(e) \/ Statement(e) \/ Abort(e)
      <3>1. UNCHANGED <<filing, source>>
        BY <2>3
        DEF Start, Statement, UpsertIssuer, SelectFiling, InsertFiling, Extract, LockFiling,
            DeleteExtractionOwned, UpsertConcept, InsertReports, Abort, Rollback, tables
      <3>. QED  BY <1>2, <3>1, TablesKept
    <2>. QED  BY <2>1, <2>2, <2>3 DEF Commit
  <1>5. ReaderInv'
    BY <1>2, <1>4, ReadersUndisturbed
  <1>. QED  BY <1>2, <1>3, <1>4, <1>5 DEF IInv

(* A reader writes no table; the statements it has run agree with the      *)
(* ones it will run.                                                       *)
LEMMA ReaderKeeps ==
  ASSUME IInv, NEW r \in Readers, ReadReport(r) \/ ReadMeasures(r) \/ ReadFacts(r) \/ ReadAgain(r)
  PROVE  IInv'
  <1>. USE DEF tables, extractor
  <1>1. /\ TypeOK /\ AtRead(r) /\ TableInv
        /\ UNCHANGED <<issuers, filing, concepts, source, pc, bundle, run, made, next, mine, doomed>>
    BY DEF IInv, ReaderInv, ReadReport, ReadMeasures, ReadFacts, ReadPart, ReadAgain
  <1>2. ExtractorInv' /\ TableInv'
    BY <1>1 DEF IInv, ExtractorInv, AtStep, Apart, Filing, Known, TableInv, SnapshotIsWhole,
                EvidenceMatchesCatalog, Spent
  <1>3. \A x \in Committed : x \in Row /\ Spent(x)
    BY <1>1 DEF Committed, TypeOK, TableInv
  <1>4. \A x, part : Belonging(x, part) \subseteq {PartOf(x, part)} \intersect Committed
                  /\ (PartOf(x, part) \in Committed => PartOf(x, part) \in Belonging(x, part))
    BY DEF Belonging
  <1>5. /\ rpc' \in [Readers -> {"idle", "measures", "facts", "loaded"}]
        /\ report' \in [Readers -> Row \union {None}] /\ got' \in [Readers -> SUBSET Row]
        /\ \A q \in Readers \ {r} : rpc'[q] = rpc[q] /\ report'[q] = report[q] /\ got'[q] = got[q]
    <2>1. CASE ReadReport(r)
      <3>1. \A f \in Filings : source[f] \subseteq Row
        BY <1>1 DEF TypeOK
      <3>. QED  BY <1>1, <2>1, <3>1 DEF ReadReport, TypeOK
    <2>2. CASE ReadMeasures(r)
      <3>1. Belonging(report[r], "measures") \subseteq Row
        BY <1>3, <1>4
      <3>. QED  BY <1>1, <2>2, <3>1 DEF ReadMeasures, ReadPart, TypeOK
    <2>3. CASE ReadFacts(r)
      <3>1. Belonging(report[r], "facts") \subseteq Row
        BY <1>3, <1>4
      <3>. QED  BY <1>1, <2>3, <3>1 DEF ReadFacts, ReadPart, TypeOK
    <2>4. CASE ReadAgain(r)
      BY <1>1, <2>4 DEF ReadAgain, TypeOK
    <2>. QED  BY <2>1, <2>2, <2>3, <2>4
  <1>6. TypeOK'
    BY <1>1, <1>5 DEF TypeOK
  <1>7. Committed' = Committed /\ \A x \in Row : (Spent(x)' <=> Spent(x))
    BY <1>1 DEF Committed, Spent
  <1>8. AtRead(r)'
    <2>1. CASE ReadReport(r)
      <3>1. CASE rpc'[r] = "loaded"
        BY <1>1, <2>1, <3>1 DEF ReadReport, AtRead
      <3>2. CASE rpc'[r] # "loaded"
        <4>1. PICK x \in Committed :
                report' = [report EXCEPT ![r] = x] /\ rpc' = [rpc EXCEPT ![r] = "measures"]
          BY <1>1, <2>1, <3>2 DEF ReadReport, TypeOK, Committed
        <4>2. x \in Row /\ Spent(x)
          BY <1>3, <4>1
        <4>3. report'[r] = x /\ rpc'[r] = "measures" /\ got' = got /\ got[r] = {}
          BY <1>1, <2>1, <4>1 DEF ReadReport, AtRead, TypeOK
        <4>. QED  BY <1>1, <4>2, <4>3 DEF AtRead, Spent
      <3>. QED  BY <3>1, <3>2
    <2>2. CASE ReadMeasures(r)
      <3>. DEFINE x == report[r]
      <3>1. /\ rpc[r] = "measures" /\ rpc'[r] = "facts" /\ report' = report /\ got[r] = {}
            /\ got'[r] = Belonging(x, "measures")
        BY <1>1, <2>2 DEF ReadMeasures, ReadPart, AtRead, TypeOK
      <3>2. x \in Row /\ Spent(x)
        BY <1>1, <3>1 DEF AtRead
      <3>3. PartOf(x, "facts") \in Committed => PartOf(x, "measures") \in Committed
        <4>1. PartOf(PartOf(x, "facts"), "measures") = PartOf(x, "measures")
          BY <3>2, PartOfRow DEF Parts
        <4>2. \A y \in Committed : PartOf(y, "measures") \in Committed
          BY <1>1, WholeParts DEF TableInv, Parts
        <4>. QED  BY <4>1, <4>2
      <3>. QED  BY <1>1, <1>4, <1>7, <3>1, <3>2, <3>3 DEF AtRead, Spent
    <2>3. CASE ReadFacts(r)
      <3>. DEFINE x == report[r]
      <3>1. /\ rpc[r] = "facts" /\ rpc'[r] = "loaded"
            /\ got'[r] = got[r] \union Belonging(x, "facts")
        BY <1>1, <2>3 DEF ReadFacts, ReadPart, TypeOK
      <3>2. /\ x \in Row /\ got[r] \subseteq {PartOf(x, "measures")}
            /\ PartOf(x, "facts") \in Committed => PartOf(x, "measures") \in got[r]
        BY <1>1, <3>1 DEF AtRead
      <3>3. /\ PartOf(x, "measures").part = "measures"
            /\ PartOf(PartOf(x, "facts"), "measures") = PartOf(x, "measures")
        BY <3>2, PartOfRow DEF Parts
      <3>4. ASSUME NEW y \in got'[r], y.part = "facts"
            PROVE  PartOf(y, "measures") \in got'[r]
        <4>1. y \in Belonging(x, "facts")
          BY <3>1, <3>2, <3>3, <3>4
        <4>2. y = PartOf(x, "facts") /\ y \in Committed
          BY <1>4, <4>1
        <4>. QED  BY <3>1, <3>2, <3>3, <4>2
      <3>. QED  BY <3>1, <3>4 DEF AtRead
    <2>4. CASE ReadAgain(r)
      <3>1. rpc'[r] = "idle" /\ got'[r] = {}
        BY <1>1, <2>4 DEF ReadAgain, TypeOK
      <3>. QED  BY <3>1 DEF AtRead
    <2>. QED  BY <2>1, <2>2, <2>3, <2>4
  <1>9. \A q \in Readers \ {r} : AtRead(q)'
    BY <1>1, <1>5, <1>7 DEF IInv, ReaderInv, AtRead, Spent
  <1>. QED  BY <1>2, <1>6, <1>8, <1>9 DEF IInv, ReaderInv

-----------------------------------------------------------------------------
(* The theorems.                                                           *)

(* Every state of the catalog satisfies the invariant. *)
THEOREM Invariance == Spec => []IInv
  <1>1. IInv /\ [Next]_vars => IInv'
    <2>. SUFFICES ASSUME IInv, [Next]_vars PROVE IInv'
      OBVIOUS
    <2>1. CASE \E e \in Extractors : Start(e) \/ ExtractorStep(e) \/ Abort(e)
      BY <2>1, ExtractorKeeps DEF ExtractorStep, Statement, Commit
    <2>2. CASE BreakDeadlock
      BY <2>2, DeadlockAborts, ExtractorKeeps
    <2>3. CASE \E r \in Readers : ReadReport(r) \/ ReadMeasures(r) \/ ReadFacts(r) \/ ReadAgain(r)
      BY <2>3, ReaderKeeps
    <2>4. CASE UNCHANGED vars
      <3>. USE <2>4 DEF vars, tables, extractor, reader
      <3>1. TypeOK'
        BY DEF IInv, TypeOK
      <3>2. ExtractorInv'
        BY DEF IInv, ExtractorInv, AtStep, Apart, Filing, Known
      <3>3. TableInv'
        BY DEF IInv, TableInv, SnapshotIsWhole, EvidenceMatchesCatalog, Spent
      <3>4. ReaderInv'
        BY DEF IInv, ReaderInv, AtRead, Committed, Spent
      <3>. QED  BY <3>1, <3>2, <3>3, <3>4 DEF IInv
    <2>. QED  BY <2>1, <2>2, <2>3, <2>4 DEF Next
  <1>. QED  BY <1>1, InitIInv, PTL DEF Spec

(* replace_filing_source leaves the rows of exactly one extraction of a    *)
(* filing, and no report refers to a concept that may still be undone.     *)
THEOREM SnapshotsSound == Spec => []SnapshotsAreSound
  <1>1. IInv => SnapshotsAreSound
    BY DEF IInv, TableInv, ExtractorInv, AtStep, SnapshotsAreSound, ConceptsAreThere
  <1>. QED  BY <1>1, Invariance, PTL

(* The snapshot of a filing is of a bundle with the inventory the catalog  *)
(* has, although it is replaced in a later transaction.                    *)
THEOREM EvidenceMatches == Spec => []EvidenceMatchesCatalog
  <1>1. IInv => EvidenceMatchesCatalog
    BY DEF IInv, TableInv
  <1>. QED  BY <1>1, Invariance, PTL

(* _load_filing_body never returns facts without the measures of their     *)
(* units, although it runs its statements outside any snapshot.            *)
THEOREM LoadsConsistent == Spec => []LoadIsConsistent
  <1>1. IInv => LoadIsConsistent
    BY DEF IInv, ReaderInv, AtRead, LoadIsConsistent
  <1>. QED  BY <1>1, Invariance, PTL

-----------------------------------------------------------------------------
(* The batch that extracts into the catalog.                               *)

(* A worker that has committed, and a record of success, stand for a       *)
(* snapshot of the batch that runs.                                        *)
WorkInv ==
  /\ \A w \in Workers : step[w] = "committed" => snapshot[at[w]] = batch
  /\ \A a \in Accessions : record[a] = "success" => snapshot[a] = batch

(* Nothing on disk is of a batch that has not begun. *)
PastInv == batchReport.batch <= batch /\ \A a \in Accessions : snapshot[a] <= batch

BatchInv == ReportIsFaithful /\ WorkInv /\ PastInv

(* The inductive invariant holds before the first batch. *)
LEMMA BatchInitInv == BatchInit => BatchInv
  BY BatchAssumption
  DEF BatchInit, BatchInv, ReportIsFaithful, BatchTypeOK, WorkInv, PastInv, Outcome

(* Starting a batch forgets every worker and record, keeps the snapshots   *)
(* and the report, and has a number greater than all of theirs.            *)
LEMMA BeginStep == BatchInv /\ Begin => BatchInv'
  <1>. SUFFICES ASSUME BatchInv, Begin PROVE BatchInv'
    OBVIOUS
  <1>. USE BatchAssumption DEF Outcome, BatchInv, Begin
  <1>1. BatchTypeOK'
    BY DEF ReportIsFaithful, BatchTypeOK, Outcome
  <1>2. ReportIsFaithful'
    BY <1>1 DEF ReportIsFaithful
  <1>3. WorkInv'
    BY DEF WorkInv, ReportIsFaithful, BatchTypeOK
  <1>4. PastInv'
    BY DEF PastInv, ReportIsFaithful, BatchTypeOK
  <1>. QED  BY <1>2, <1>3, <1>4

(* A worker of the pool: only a commit touches the snapshots, and it moves *)
(* its accession to the running batch; success is recorded after it.       *)
LEMMA WorkerSteps ==
  ASSUME BatchInv, NEW w \in Workers, WorkerStep(w) \/ Die(w)
  PROVE  BatchInv'
  <1>. USE BatchAssumption DEF Outcome, BatchInv
  <1>1. CASE Take(w)
    <2>1. PICK a \in queue : queue' = queue \ {a} /\ at' = [at EXCEPT ![w] = a]
      BY <1>1 DEF Take
    <2>2. a \in Accessions /\ a # Nothing
      BY <2>1 DEF ReportIsFaithful, BatchTypeOK
    <2>3. BatchTypeOK'
      BY <1>1, <2>1, <2>2 DEF Take, ReportIsFaithful, BatchTypeOK
    <2>4. ReportIsFaithful'
      BY <1>1, <2>3 DEF Take, ReportIsFaithful
    <2>5. WorkInv'
      BY <1>1, <2>1 DEF Take, WorkInv, ReportIsFaithful, BatchTypeOK
    <2>6. PastInv'
      BY <1>1 DEF Take, PastInv
    <2>. QED  BY <2>4, <2>5, <2>6
  <1>2. CASE CommitSnapshot(w)
    <2>1. at[w] \in Accessions /\ batch \in Nat
      BY <1>2 DEF CommitSnapshot, ReportIsFaithful, BatchTypeOK
    <2>2. BatchTypeOK'
      BY <1>2, <2>1 DEF CommitSnapshot, ReportIsFaithful, BatchTypeOK
    <2>3. \A a \in Accessions : snapshot'[a] = IF a = at[w] THEN batch ELSE snapshot[a]
      BY <1>2, <2>1 DEF CommitSnapshot, ReportIsFaithful, BatchTypeOK
    <2>4. ReportIsFaithful'
      BY <1>2, <2>1, <2>2, <2>3 DEF CommitSnapshot, ReportIsFaithful, PastInv, BatchTypeOK
    <2>5. WorkInv'
      BY <1>2, <2>1, <2>3 DEF CommitSnapshot, WorkInv, ReportIsFaithful, BatchTypeOK
    <2>6. PastInv'
      BY <1>2, <2>1, <2>3 DEF CommitSnapshot, PastInv
    <2>. QED  BY <2>4, <2>5, <2>6
  <1>3. ASSUME NEW outcome \in Outcome, step[w] \in {"started", "committed"},
               outcome = "success" => step[w] = "committed", Finish(w, outcome)
        PROVE  BatchInv'
    <2>1. at[w] \in Accessions
      BY <1>3 DEF ReportIsFaithful, BatchTypeOK
    <2>2. BatchTypeOK'
      BY <1>3, <2>1 DEF Finish, ReportIsFaithful, BatchTypeOK
    <2>3. ReportIsFaithful'
      BY <1>3, <2>2 DEF Finish, ReportIsFaithful
    <2>4. WorkInv'
      BY <1>3, <2>1 DEF Finish, WorkInv, ReportIsFaithful, BatchTypeOK, Outcome
    <2>5. PastInv'
      BY <1>3 DEF Finish, PastInv
    <2>. QED  BY <2>3, <2>4, <2>5
  <1>4. CASE Return(w)
    BY <1>3, <1>4 DEF Return, Outcome
  <1>5. CASE Raise(w)
    BY <1>3, <1>5 DEF Raise, Outcome
  <1>6. CASE Die(w)
    <2>1. BatchTypeOK'
      BY <1>6 DEF Die, ReportIsFaithful, BatchTypeOK
    <2>2. ReportIsFaithful'
      BY <1>6, <2>1 DEF Die, ReportIsFaithful
    <2>3. WorkInv'
      BY <1>6 DEF Die, WorkInv
    <2>4. PastInv'
      BY <1>6 DEF Die, PastInv
    <2>. QED  BY <2>2, <2>3, <2>4
  <1>. QED  BY <1>1, <1>2, <1>4, <1>5, <1>6 DEF WorkerStep

(* The end of a batch: the report is replaced by the records of the batch  *)
(* that runs, when there is one for every accession, or stays as it was.   *)
LEMMA EndSteps == BatchInv /\ (WriteReport \/ WriteFails \/ PoolRaises) => BatchInv'
  <1>. SUFFICES ASSUME BatchInv, WriteReport \/ WriteFails \/ PoolRaises PROVE BatchInv'
    OBVIOUS
  <1>. USE BatchAssumption DEF Outcome, BatchInv, pool
  <1>1. CASE WriteReport
    <2>1. /\ batchReport'.batch = batch /\ batchReport'.records = record
          /\ batch' = batch /\ snapshot' = snapshot
      BY <1>1 DEF WriteReport
    <2>2. batch \in Nat /\ BatchTypeOK'
      BY <1>1 DEF WriteReport, ReportIsFaithful, BatchTypeOK
    <2>3. ReportIsFaithful'
      BY <1>1, <2>1, <2>2 DEF WriteReport, Complete, ReportIsFaithful, WorkInv
    <2>4. WorkInv'
      BY <1>1 DEF WriteReport, WorkInv
    <2>5. PastInv'
      BY <2>1, <2>2 DEF PastInv
    <2>. QED  BY <2>3, <2>4, <2>5
  <1>2. CASE WriteFails \/ PoolRaises
    <2>1. /\ UNCHANGED <<batch, pool, snapshot, batchReport>>
          /\ parent' = "ended"
      BY <1>2 DEF WriteFails, PoolRaises
    <2>2. BatchTypeOK'
      BY <2>1 DEF ReportIsFaithful, BatchTypeOK
    <2>. QED  BY <2>1, <2>2 DEF ReportIsFaithful, WorkInv, PastInv
  <1>. QED  BY <1>1, <1>2

(* A success the report lists is backed by a snapshot of its batch or of a *)
(* later one, and the report is complete, whichever workers die and        *)
(* whichever batch fails to write its own: run_batch_extract.              *)
THEOREM ReportFaithful == BatchSpec => []ReportIsFaithful
  <1>1. BatchInit => BatchInv
    BY BatchInitInv
  <1>2. BatchInv /\ [BatchNext]_batchVars => BatchInv'
    <2>. SUFFICES ASSUME BatchInv, [BatchNext]_batchVars PROVE BatchInv'
      OBVIOUS
    <2>1. CASE BatchNext
      BY <2>1, BeginStep, EndSteps, WorkerSteps DEF BatchNext
    <2>2. CASE UNCHANGED batchVars
      BY <2>2 DEF batchVars, pool, BatchInv, ReportIsFaithful, BatchTypeOK, WorkInv, PastInv
    <2>. QED  BY <2>1, <2>2
  <1>3. BatchInv => ReportIsFaithful
    BY DEF BatchInv
  <1>. QED  BY <1>1, <1>2, <1>3, PTL DEF BatchSpec
==============================================================================
