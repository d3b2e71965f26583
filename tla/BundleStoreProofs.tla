-------------------------- MODULE BundleStoreProofs --------------------------
(***************************************************************************)
(* Proofs about the filing store, for every set of publishers, readers,    *)
(* bundles and objects, any number of restarts and any fault model.        *)
(*                                                                         *)
(* The store keeps its promises because of what a publisher knows between  *)
(* taking the accession's lock and letting it go: nobody else has it, no   *)
(* published directory holds its bundle since list_published said so, the  *)
(* objects were there when validate_bundle_integrity looked, and nothing   *)
(* but rot or the loss of power takes an object away.                      *)
(***************************************************************************)
EXTENDS BundleStore, TLAPS

(* What a publisher inside the with-block of the lock relies on. *)
AtWork(p) ==
  /\ pc[p] \in Locked => lock[Accession(p)] = p
  /\ pc[p] \in {"write", "rename", "fsync"} => own[p] \in Uuids
  \* Its directory is its own until it is published.
  /\ pc[p] \in {"write", "rename"} =>
       dir[own[p]] = [ kind       |-> "staging",
                       accession  |-> Accession(p),
                       descriptor |-> IF pc[p] = "rename" THEN goal[p] ELSE None ]
  /\ pc[p] = "fsync" =>
       dir[own[p]] = [ kind       |-> "published",
                       accession  |-> Accession(p),
                       descriptor |-> goal[p] ]
  \* What list_published has found stays true up to the rename,
  /\ pc[p] \in {"validate", "mkdir", "write", "rename"} =>
       \A u \in Uuids : dir[u].kind = "published" /\ dir[u].accession = Accession(p)
                        => dir[u].descriptor # goal[p]
  \* and what validate_bundle_integrity has found, unless bytes rot.
  /\ "damage" \notin faults /\ pc[p] \in {"mkdir", "write", "rename", "fsync"} =>
       Intact(goal[p])

PublishInv == \A p \in Publishers : AtWork(p)

StoreInv == PublishedIsDescribed /\ PublishedIsComplete /\ NoDuplicateBundle

IInv == TypeOK /\ PublishInv /\ StoreInv /\ ReadersNeverTrip

-----------------------------------------------------------------------------
(* What the steps have in common.                                          *)

(* A step of publisher p: it writes no other publisher's variables, takes  *)
(* no other's lock, touches only directories of its own accession and new  *)
(* ones, under its lock, and destroys no object.                           *)
StepOf(p) ==
  /\ \A q \in Publishers \ {p} : pc'[q] = pc[q] /\ goal'[q] = goal[q] /\ own'[q] = own[q]
  /\ \A q \in Publishers \ {p}, a \in Accessions : lock[a] = q => lock'[a] = q
  /\ \A u \in Uuids : dir'[u] # dir[u] =>
       /\ pc[p] \in Locked
       /\ dir[u].accession = Accession(p) \/ u \in Undrawn
       /\ dir'[u].kind = "published" => dir'[u].accession = Accession(p)
  /\ \A d \in Digests : cas[d] = "intact" => cas'[d] = "intact"
  /\ UNCHANGED <<rpc, faults>>

(* FileLock: two publishers inside the block have different accessions. *)
LEMMA Exclusion ==
  ASSUME IInv, NEW p \in Publishers, NEW q \in Publishers, p # q,
         pc[p] \in Locked, pc[q] \in Locked
  PROVE  Accession(p) # Accession(q)
  BY DEF IInv, PublishInv, AtWork

(* The accession of a publisher is one. *)
LEMMA GoalType ==
  ASSUME TypeOK, NEW p \in Publishers
  PROVE  goal[p] \in Bundles /\ Accession(p) \in Accessions /\ ArtifactsOf[goal[p]] \subseteq Digests
  BY BundlesAssumption DEF TypeOK, Accession

(* An intact bundle stays so while no object is destroyed. *)
LEMMA IntactKept ==
  ASSUME NEW b \in Bundles, Intact(b), \A d \in Digests : cas[d] = "intact" => cas'[d] = "intact"
  PROVE  Intact(b)'
  BY BundlesAssumption DEF Intact

(* The lock makes every publish independent of the others: a step of one   *)
(* disturbs nothing that another relies on, the cleaning of leftover       *)
(* staging directories included.                                           *)
LEMMA OthersUndisturbed ==
  ASSUME IInv, NEW p \in Publishers, StepOf(p), NEW q \in Publishers, q # p
  PROVE  AtWork(q)'
  <1>1. CASE pc[q] \notin Locked
    BY <1>1 DEF StepOf, AtWork, Locked
  <1>2. CASE pc[q] \in Locked
    <2>1. /\ pc'[q] = pc[q] /\ own'[q] = own[q] /\ goal'[q] = goal[q]
          /\ Accession(q)' = Accession(q) /\ faults' = faults
      BY DEF StepOf, Accession
    <2>2. AtWork(q)
      BY DEF IInv, PublishInv
    <2>3. lock'[Accession(q)] = q
      BY <1>2, <2>2, GoalType DEF IInv, AtWork, StepOf
    <2>4. ASSUME NEW u \in Uuids, dir'[u] # dir[u]
          PROVE  /\ dir[u].accession # Accession(q) \/ u # own[q]
                 /\ dir'[u].kind = "published" => dir'[u].accession # Accession(q)
      <3>1. pc[p] \in Locked /\ Accession(p) # Accession(q)
        BY <1>2, <2>4, Exclusion DEF StepOf
      <3>. QED  BY <2>4, <3>1 DEF StepOf, Undrawn
    <2>5. CASE pc[q] \in {"write", "rename", "fsync"}
      <3>1. own[q] \in Uuids /\ dir[own[q]].accession = Accession(q)
        BY <2>2, <2>5 DEF AtWork
      <3>2. dir'[own[q]] = dir[own[q]]
        BY <2>4, <3>1
      <3>3. "damage" \notin faults => Intact(goal[q])'
        BY <2>2, <2>5, GoalType, IntactKept DEF IInv, AtWork, StepOf
      <3>4. pc[q] # "fsync" =>
              \A u \in Uuids : dir'[u].kind = "published" /\ dir'[u].accession = Accession(q)
                               => dir'[u].descriptor # goal[q]
        BY <2>2, <2>4, <2>5 DEF AtWork
      <3>. QED  BY <2>1, <2>2, <2>3, <2>5, <3>1, <3>2, <3>3, <3>4 DEF AtWork
    <2>6. CASE pc[q] \notin {"write", "rename", "fsync"}
      <3>1. "damage" \notin faults /\ pc[q] = "mkdir" => Intact(goal[q])'
        BY <2>2, GoalType, IntactKept DEF IInv, AtWork, StepOf
      <3>2. pc[q] \in {"validate", "mkdir"} =>
              \A u \in Uuids : dir'[u].kind = "published" /\ dir'[u].accession = Accession(q)
                               => dir'[u].descriptor # goal[q]
        BY <2>2, <2>4 DEF AtWork
      <3>. QED  BY <2>1, <2>2, <2>3, <2>6, <3>1, <3>2 DEF AtWork
    <2>. QED  BY <2>5, <2>6
  <1>. QED  BY <1>1, <1>2

(* A step that publishes nothing and destroys no object leaves what is     *)
(* published as sound as it was.                                           *)
LEMMA StoreKept ==
  ASSUME IInv, faults' = faults,
         \A u \in Uuids : dir'[u] # dir[u] => dir'[u].kind # "published",
         \/ \A d \in Digests : cas[d] = "intact" => cas'[d] = "intact"
         \/ ~ (faults \subseteq {"crash", "io"})
  PROVE  StoreInv'
  <1>1. \A u \in Uuids : dir'[u].kind = "published" => dir'[u] = dir[u]
    OBVIOUS
  <1>2. PublishedIsDescribed' /\ NoDuplicateBundle'
    BY <1>1 DEF IInv, StoreInv, PublishedIsDescribed, NoDuplicateBundle
  <1>3. PublishedIsComplete'
    <2>. SUFFICES ASSUME faults \subseteq {"crash", "io"},
                         NEW u \in Uuids, dir'[u].kind = "published"
                  PROVE  \A d \in ArtifactsOf[dir'[u].descriptor] : cas'[d] = "intact"
      BY DEF PublishedIsComplete, Intact
    <2>1. dir'[u] = dir[u] /\ Intact(dir[u].descriptor) /\ dir[u].descriptor \in Bundles
      BY <1>1 DEF IInv, StoreInv, PublishedIsComplete, PublishedIsDescribed, TypeOK, Entry, NoEntry
    <2>. QED  BY <2>1, BundlesAssumption DEF Intact
  <1>. QED  BY <1>2, <1>3 DEF StoreInv

-----------------------------------------------------------------------------
(* The steps.                                                              *)

(* The store is empty at first and nobody is at work. *)
LEMMA InitIInv == Init => IInv
  <1>. SUFFICES ASSUME Init PROVE IInv
    OBVIOUS
  <1>. USE BundlesAssumption DEF Init
  <1>1. TypeOK
    BY DEF TypeOK, Content, Entry, PublisherSteps, ReaderSteps
  <1>2. PublishInv
    BY DEF PublishInv, AtWork, Locked
  <1>3. StoreInv
    BY DEF StoreInv, PublishedIsDescribed, PublishedIsComplete, NoDuplicateBundle, NoEntry
  <1>4. ReadersNeverTrip
    BY DEF ReadersNeverTrip
  <1>. QED  BY <1>1, <1>2, <1>3, <1>4 DEF IInv

(* WriteDescriptor and RenameStaging act on the publisher's own staging    *)
(* directory, so these are all they change.                                *)
LEMMA WrittenEntry ==
  ASSUME TypeOK, NEW p \in Publishers, AtWork(p), WriteDescriptor(p)
  PROVE  /\ own[p] \in Uuids
         /\ dir' = [dir EXCEPT ![own[p]] = [ kind       |-> "staging",
                                             accession  |-> Accession(p),
                                             descriptor |-> goal[p] ]]
  <1>1. own[p] \in Uuids /\ dir[own[p]] = [ kind       |-> "staging",
                                            accession  |-> Accession(p),
                                            descriptor |-> None ]
    BY DEF AtWork, WriteDescriptor
  <1>2. [dir[own[p]] EXCEPT !.descriptor = goal[p]] =
          [kind |-> "staging", accession |-> Accession(p), descriptor |-> goal[p]]
    BY <1>1
  <1>3. dir' = [dir EXCEPT ![own[p]] = [dir[own[p]] EXCEPT !.descriptor = goal[p]]]
    BY DEF WriteDescriptor
  <1>. QED  BY <1>1, <1>2, <1>3, Zenon

(* See WrittenEntry. *)
LEMMA RenamedEntry ==
  ASSUME TypeOK, NEW p \in Publishers, AtWork(p), RenameStaging(p)
  PROVE  /\ own[p] \in Uuids
         /\ dir' = [dir EXCEPT ![own[p]] = [ kind       |-> "published",
                                             accession  |-> Accession(p),
                                             descriptor |-> goal[p] ]]
  <1>1. own[p] \in Uuids /\ dir[own[p]] = [ kind       |-> "staging",
                                            accession  |-> Accession(p),
                                            descriptor |-> goal[p] ]
    BY DEF AtWork, RenameStaging
  <1>2. [dir[own[p]] EXCEPT !.kind = "published"] =
          [kind |-> "published", accession |-> Accession(p), descriptor |-> goal[p]]
    BY <1>1
  <1>3. dir' = [dir EXCEPT ![own[p]] = [dir[own[p]] EXCEPT !.kind = "published"]]
    BY DEF RenameStaging
  <1>. QED  BY <1>1, <1>2, <1>3, Zenon

(* Every step of a publisher keeps the type; a descriptor is only written  *)
(* into a directory, and only a directory is renamed.                      *)
LEMMA PublisherType ==
  ASSUME TypeOK, NEW p \in Publishers, AtWork(p),
         PublisherStep(p) \/ PublishRaises(p) \/ Crash(p) \/ Restart(p), UNCHANGED faults
  PROVE  TypeOK'
  <1>. USE BundlesAssumption
  <1>1. CASE PutObject(p)
    BY <1>1 DEF PutObject, Goto, TypeOK, reader, Content, PublisherSteps
  <1>2. CASE PutsDone(p)
    BY <1>2 DEF PutsDone, Goto, TypeOK, reader, disk, PublisherSteps
  <1>3. CASE AcquireLock(p)
    BY <1>3, GoalType DEF AcquireLock, Goto, TypeOK, reader, disk, PublisherSteps, Locked
  <1>4. CASE CleanOrphanStaging(p)
    BY <1>4 DEF CleanOrphanStaging, Goto, TypeOK, reader, PublisherSteps, Locked, Entry
  <1>5. CASE ListPublished(p)
    <2>1. own' \in [Publishers -> Uuids \union {None}]
      <3>1. Reusable(p) # {} => (CHOOSE u \in Reusable(p) : TRUE) \in Uuids
        BY DEF Reusable, Published
      <3>. QED  BY <1>5, <3>1 DEF ListPublished, TypeOK
    <2>2. pc' \in [Publishers -> PublisherSteps]
      BY <1>5 DEF ListPublished, Goto, TypeOK, PublisherSteps, Locked
    <2>3. lock' \in [Accessions -> Publishers \union {None}]
      BY <1>5 DEF ListPublished, Release, TypeOK
    <2>. QED  BY <1>5, <2>1, <2>2, <2>3 DEF ListPublished, TypeOK, reader, disk
  <1>6. CASE ValidateIntegrity(p)
    BY <1>6 DEF ValidateIntegrity, Goto, Release, TypeOK, reader, disk, PublisherSteps, Locked
  <1>7. CASE MakeStaging(p)
    <2>1. (CHOOSE u \in Undrawn : TRUE) \in Uuids
      BY <1>7 DEF MakeStaging, Undrawn
    <2>. QED
      BY <1>7, <2>1, GoalType DEF MakeStaging, Goto, TypeOK, reader, PublisherSteps, Locked, Entry
  <1>8. CASE WriteDescriptor(p)
    <2>1. [kind |-> "staging", accession |-> Accession(p), descriptor |-> goal[p]] \in Entry
      BY GoalType DEF Entry
    <2>2. dir' \in [Uuids -> Entry]
      BY <1>8, <2>1, WrittenEntry DEF TypeOK
    <2>. QED  BY <1>8, <2>2 DEF WriteDescriptor, Goto, TypeOK, reader, PublisherSteps, Locked
  <1>9. CASE RenameStaging(p)
    <2>1. [kind |-> "published", accession |-> Accession(p), descriptor |-> goal[p]] \in Entry
      BY GoalType DEF Entry
    <2>2. dir' \in [Uuids -> Entry]
      BY <1>9, <2>1, RenamedEntry DEF TypeOK
    <2>. QED  BY <1>9, <2>2 DEF RenameStaging, Goto, TypeOK, reader, PublisherSteps, Locked
  <1>10. CASE SyncAccessionDir(p)
    BY <1>10 DEF SyncAccessionDir, AtWork, Goto, Release, TypeOK, reader, PublisherSteps, Locked
  <1>11. CASE PublishRaises(p)
    BY <1>11 DEF PublishRaises, AtWork, Goto, Release, TypeOK, reader, PublisherSteps, Locked, Entry
  <1>12. CASE Crash(p)
    BY <1>12 DEF Crash, Goto, Release, TypeOK, reader, disk, PublisherSteps, Locked
  <1>13. CASE Restart(p)
    BY <1>13 DEF Restart, Goto, TypeOK, reader, disk, PublisherSteps, Locked
  <1>. QED
    BY <1>1, <1>2, <1>3, <1>4, <1>5, <1>6, <1>7, <1>8, <1>9, <1>10, <1>11, <1>12, <1>13
    DEF PublisherStep

(* Letting the lock go takes it from nobody else. *)
LEMMA Released ==
  ASSUME NEW p \in Publishers, Release(p)
  PROVE  \A q \in Publishers \ {p}, a \in Accessions : lock[a] = q => lock'[a] = q
  BY DEF Release

(* Every step of a publisher is one in the sense of StepOf. *)
LEMMA PublisherFrame ==
  ASSUME TypeOK, NEW p \in Publishers, AtWork(p),
         PublisherStep(p) \/ PublishRaises(p) \/ Crash(p) \/ Restart(p), UNCHANGED faults
  PROVE  StepOf(p)
  <1>. USE BundlesAssumption DEF Goto, reader, disk
  <1>1. CASE PutObject(p)
    BY <1>1 DEF PutObject, TypeOK, StepOf
  <1>2. CASE PutsDone(p)
    BY <1>2 DEF PutsDone, TypeOK, StepOf
  <1>3. CASE AcquireLock(p)
    <2>1. \A q \in Publishers \ {p}, a \in Accessions : lock[a] = q => lock'[a] = q
      BY <1>3, GoalType DEF AcquireLock, TypeOK
    <2>. QED  BY <1>3, <2>1 DEF AcquireLock, TypeOK, StepOf
  <1>4. CASE CleanOrphanStaging(p)
    <2>1. \A u \in Uuids : dir'[u] # dir[u] =>
            dir[u].accession = Accession(p) /\ dir'[u] = NoEntry
      BY <1>4 DEF CleanOrphanStaging, Staging
    <2>. QED  BY <1>4, <2>1 DEF CleanOrphanStaging, TypeOK, StepOf, NoEntry, Locked
  <1>5. CASE ListPublished(p)
    <2>1. \A q \in Publishers \ {p}, a \in Accessions : lock[a] = q => lock'[a] = q
      BY <1>5, Released DEF ListPublished
    <2>2. \A q \in Publishers \ {p} : pc'[q] = pc[q] /\ own'[q] = own[q]
      BY <1>5 DEF ListPublished, TypeOK
    <2>. QED  BY <1>5, <2>1, <2>2 DEF ListPublished, StepOf
  <1>6. CASE ValidateIntegrity(p)
    <2>1. \A q \in Publishers \ {p}, a \in Accessions : lock[a] = q => lock'[a] = q
      BY <1>6, Released DEF ValidateIntegrity
    <2>. QED  BY <1>6, <2>1 DEF ValidateIntegrity, TypeOK, StepOf
  <1>7. CASE MakeStaging(p)
    <2>. DEFINE u == CHOOSE v \in Undrawn : TRUE
    <2>1. u \in Undrawn /\ u \in Uuids
      BY <1>7 DEF MakeStaging, Undrawn
    <2>2. /\ dir' = [dir EXCEPT ![u] =
                       [kind |-> "staging", accession |-> Accession(p), descriptor |-> None]]
          /\ own' = [own EXCEPT ![p] = u]
      BY <1>7 DEF MakeStaging
    <2>. HIDE DEF u
    <2>. QED  BY <1>7, <2>1, <2>2 DEF MakeStaging, TypeOK, StepOf, Locked
  <1>8. CASE WriteDescriptor(p)
    <2>1. dir[own[p]].accession = Accession(p)
      BY <1>8 DEF WriteDescriptor, AtWork
    <2>. QED  BY <1>8, <2>1, WrittenEntry DEF WriteDescriptor, TypeOK, StepOf, Locked
  <1>9. CASE RenameStaging(p)
    <2>1. dir[own[p]].accession = Accession(p)
      BY <1>9 DEF RenameStaging, AtWork
    <2>. QED  BY <1>9, <2>1, RenamedEntry DEF RenameStaging, TypeOK, StepOf, Locked
  <1>10. CASE SyncAccessionDir(p)
    BY <1>10, Released DEF SyncAccessionDir, TypeOK, StepOf
  <1>11. CASE PublishRaises(p)
    <2>1. dir[own[p]].accession = Accession(p)
      BY <1>11 DEF PublishRaises, AtWork
    <2>. QED  BY <1>11, <2>1, Released DEF PublishRaises, TypeOK, StepOf, NoEntry, Locked
  <1>12. CASE Crash(p)
    BY <1>12, Released DEF Crash, TypeOK, StepOf
  <1>13. CASE Restart(p)
    BY <1>13 DEF Restart, TypeOK, StepOf
  <1>. QED
    BY <1>1, <1>2, <1>3, <1>4, <1>5, <1>6, <1>7, <1>8, <1>9, <1>10, <1>11, <1>12, <1>13
    DEF PublisherStep
(* From step to step a publisher comes to know what the next one needs.    *)
LEMMA PublisherAtWork ==
  ASSUME IInv, NEW p \in Publishers,
         PublisherStep(p) \/ PublishRaises(p) \/ Crash(p) \/ Restart(p), UNCHANGED faults
  PROVE  AtWork(p)'
  <1>. USE BundlesAssumption DEF Goto, disk
  <1>1. TypeOK /\ AtWork(p) /\ goal[p] \in Bundles /\ Accession(p) \in Accessions
    BY GoalType DEF IInv, PublishInv
  <1>2. CASE pc'[p] \notin Locked
    BY <1>2 DEF AtWork, Locked
  <1>3. CASE AcquireLock(p)
    BY <1>1, <1>3 DEF AcquireLock, AtWork, Accession, TypeOK
  <1>4. CASE CleanOrphanStaging(p)
    BY <1>1, <1>4 DEF CleanOrphanStaging, AtWork, Accession, TypeOK, Locked
  <1>5. CASE ListPublished(p) /\ pc'[p] \in Locked
    <2>1. Reusable(p) = {} /\ pc' = [pc EXCEPT ![p] = "validate"] /\ UNCHANGED <<lock, own>>
      BY <1>1, <1>5 DEF ListPublished, TypeOK, Locked
    <2>2. pc[p] = "list" /\ UNCHANGED <<dir, goal>>
      BY <1>5 DEF ListPublished
    <2>3. \A u \in Uuids : dir[u].kind = "published" /\ dir[u].accession = Accession(p)
                           => dir[u].descriptor # goal[p]
      BY <2>1 DEF Reusable, Published
    <2>. QED  BY <1>1, <2>1, <2>2, <2>3 DEF AtWork, Accession, TypeOK, Locked
  <1>6. CASE ValidateIntegrity(p) /\ pc'[p] \in Locked
    <2>1. Intact(goal[p]) /\ pc' = [pc EXCEPT ![p] = "mkdir"] /\ UNCHANGED <<lock>>
      BY <1>1, <1>6 DEF ValidateIntegrity, TypeOK, Locked
    <2>. QED  BY <1>1, <1>6, <2>1 DEF ValidateIntegrity, AtWork, Accession, Intact, TypeOK, Locked
  <1>7. CASE MakeStaging(p)
    <2>. DEFINE u == CHOOSE v \in Undrawn : TRUE
    <2>1. u \in Uuids
      BY <1>7 DEF MakeStaging, Undrawn
    <2>2. /\ dir' = [dir EXCEPT ![u] =
                       [kind |-> "staging", accession |-> Accession(p), descriptor |-> None]]
          /\ own' = [own EXCEPT ![p] = u] /\ pc' = [pc EXCEPT ![p] = "write"]
          /\ pc[p] = "mkdir" /\ UNCHANGED <<cas, lock, goal>>
      BY <1>7 DEF MakeStaging
    <2>. HIDE DEF u
    <2>. QED  BY <1>1, <2>1, <2>2 DEF AtWork, Accession, Intact, TypeOK, Locked
  <1>8. CASE WriteDescriptor(p)
    BY <1>1, <1>8, WrittenEntry DEF WriteDescriptor, AtWork, Accession, Intact, TypeOK, Locked
  <1>9. CASE RenameStaging(p)
    BY <1>1, <1>9, RenamedEntry DEF RenameStaging, AtWork, Accession, Intact, TypeOK, Locked
  <1>10. CASE \/ PutObject(p) \/ PutsDone(p) \/ SyncAccessionDir(p)
              \/ PublishRaises(p) \/ Crash(p) \/ Restart(p)
    <2>1. pc'[p] \in {"put", "lock", "done", "failed"}
      BY <1>1, <1>10
      DEF PutObject, PutsDone, SyncAccessionDir, PublishRaises, Crash, Restart, TypeOK
    <2>. QED  BY <1>2, <2>1 DEF Locked
  <1>. QED
    BY <1>2, <1>3, <1>4, <1>5, <1>6, <1>7, <1>8, <1>9, <1>10 DEF PublisherStep

(* What a rename publishes is new, described, and complete. *)
LEMMA RenamePublishes ==
  ASSUME IInv, NEW p \in Publishers, RenameStaging(p), UNCHANGED faults
  PROVE  StoreInv'
  <1>. DEFINE new == [kind |-> "published", accession |-> Accession(p), descriptor |-> goal[p]]
  <1>1. TypeOK /\ AtWork(p) /\ goal[p] \in Bundles /\ goal[p] # None
    BY BundlesAssumption, GoalType DEF IInv, PublishInv
  <1>2. own[p] \in Uuids /\ dir' = [dir EXCEPT ![own[p]] = new]
    BY <1>1, RenamedEntry
  <1>3. \A u \in Uuids : dir'[u] = IF u = own[p] THEN new ELSE dir[u]
    BY <1>1, <1>2 DEF TypeOK
  <1>4. pc[p] = "rename" /\ cas' = cas
    BY DEF RenameStaging
  <1>5. PublishedIsDescribed'
    BY <1>1, <1>3 DEF IInv, StoreInv, PublishedIsDescribed, Accession
  <1>6. NoDuplicateBundle'
    <2>1. \A u \in Uuids : dir[u].kind = "published" /\ dir[u].accession = Accession(p)
                           => dir[u].descriptor # goal[p]
      BY <1>1, <1>4 DEF AtWork
    <2>. QED  BY <1>3, <2>1 DEF IInv, StoreInv, NoDuplicateBundle
  <1>7. PublishedIsComplete'
    <2>1. faults \subseteq {"crash", "io"} => Intact(goal[p])
      BY <1>1, <1>4 DEF AtWork
    <2>. QED  BY <1>3, <1>4, <2>1 DEF IInv, StoreInv, PublishedIsComplete, Intact
  <1>. QED  BY <1>5, <1>6, <1>7 DEF StoreInv

(* Only a rename publishes; the other steps of a publisher leave every     *)
(* published directory as it is.                                           *)
LEMMA PublisherStore ==
  ASSUME IInv, NEW p \in Publishers,
         PublisherStep(p) \/ PublishRaises(p) \/ Crash(p) \/ Restart(p), UNCHANGED faults
  PROVE  StoreInv'
  <1>1. TypeOK /\ AtWork(p)
    BY DEF IInv, PublishInv
  <1>2. \A d \in Digests : cas[d] = "intact" => cas'[d] = "intact"
    BY <1>1, PublisherFrame DEF StepOf
  <1>3. CASE RenameStaging(p)
    BY <1>3, RenamePublishes
  <1>4. CASE ~ RenameStaging(p)
    <2>. SUFFICES \A u \in Uuids : dir'[u] # dir[u] => dir'[u].kind # "published"
      BY <1>2, StoreKept
    <2>1. CASE CleanOrphanStaging(p)
      BY <2>1 DEF CleanOrphanStaging, NoEntry
    <2>2. CASE MakeStaging(p)
      <3>1. (CHOOSE v \in Undrawn : TRUE) \in Uuids
        BY <2>2 DEF MakeStaging, Undrawn
      <3>. QED  BY <1>1, <2>2, <3>1 DEF MakeStaging, TypeOK
    <2>3. CASE WriteDescriptor(p)
      BY <1>1, <2>3, WrittenEntry DEF TypeOK
    <2>4. CASE PublishRaises(p)
      BY <1>1, <2>4 DEF PublishRaises, TypeOK, NoEntry
    <2>5. CASE \/ PutObject(p) \/ PutsDone(p) \/ AcquireLock(p) \/ ListPublished(p)
               \/ ValidateIntegrity(p) \/ SyncAccessionDir(p) \/ Crash(p) \/ Restart(p)
      BY <2>5
      DEF PutObject, PutsDone, AcquireLock, ListPublished, ValidateIntegrity, SyncAccessionDir,
          Crash, Restart, disk
    <2>. QED  BY <1>4, <2>1, <2>2, <2>3, <2>4, <2>5 DEF PublisherStep
  <1>. QED  BY <1>3, <1>4
(* A publisher's step keeps the invariant. *)
LEMMA PublisherKeeps ==
  ASSUME IInv, NEW p \in Publishers,
         PublisherStep(p) \/ PublishRaises(p) \/ Crash(p) \/ Restart(p), UNCHANGED faults
  PROVE  IInv'
  <1>1. TypeOK /\ AtWork(p)
    BY DEF IInv, PublishInv
  <1>2. StepOf(p)
    BY <1>1, PublisherFrame
  <1>3. PublishInv'
    BY <1>2, OthersUndisturbed, PublisherAtWork DEF PublishInv
  <1>4. ReadersNeverTrip'
    BY <1>2 DEF StepOf, IInv, ReadersNeverTrip
  <1>. QED  BY <1>1, <1>3, <1>4, PublisherType, PublisherStore DEF IInv

(* A reader writes nothing, and finds every directory it examines sound    *)
(* while only processes fail: what is published is described and complete. *)
LEMMA ReaderKeeps ==
  ASSUME IInv, NEW r \in Readers, ReaderStep(r), UNCHANGED faults
  PROVE  IInv'
  <1>. USE DEF disk, publisher
  <1>1. UNCHANGED <<cas, flushed, dir, synced, lock, pc, goal, todo, own, runs, faults>>
    BY DEF ReaderStep, ReadNames, Examine, ReadAgain
  <1>2. PublishInv' /\ StoreInv'
    BY <1>1
    DEF IInv, PublishInv, AtWork, Accession, Intact, StoreInv, PublishedIsDescribed,
        PublishedIsComplete, NoDuplicateBundle
  <1>3. rpc' \in [Readers -> ReaderSteps] /\ seen' \in [Readers -> SUBSET Uuids]
    <2>1. \A a \in Accessions : Published(a) \subseteq Uuids
      BY DEF Published
    <2>2. CASE ReadNames(r)
      BY <2>1, <2>2 DEF ReadNames, IInv, TypeOK, ReaderSteps
    <2>3. CASE Examine(r)
      BY <2>3 DEF Examine, IInv, TypeOK, ReaderSteps
    <2>4. CASE ReadAgain(r)
      BY <2>4 DEF ReadAgain, IInv, TypeOK, ReaderSteps
    <2>. QED  BY <2>2, <2>3, <2>4 DEF ReaderStep
  <1>4. TypeOK'
    BY <1>1, <1>3 DEF IInv, TypeOK
  <1>5. ReadersNeverTrip'
    <2>. SUFFICES ASSUME faults \subseteq {"crash", "io"} PROVE \A x \in Readers : rpc'[x] # "error"
      BY <1>1 DEF ReadersNeverTrip
    <2>1. \A u \in Uuids : dir[u].kind = "published" => Sound(u, dir[u].accession)
      BY DEF IInv, StoreInv, PublishedIsDescribed, PublishedIsComplete, Sound
    <2>2. \A x \in Readers : rpc[x] # "error"
      BY DEF IInv, ReadersNeverTrip
    <2>3. CASE ReadNames(r)
      BY <2>2, <2>3 DEF ReadNames, IInv, TypeOK
    <2>4. CASE Examine(r)
      <3>1. seen[r] \subseteq Uuids
        BY DEF IInv, TypeOK
      <3>2. rpc' = [rpc EXCEPT ![r] = "ok"]
        BY <2>1, <2>4, <3>1 DEF Examine
      <3>. QED  BY <2>2, <3>2 DEF IInv, TypeOK
    <2>5. CASE ReadAgain(r)
      BY <2>2, <2>5 DEF ReadAgain, IInv, TypeOK
    <2>. QED  BY <2>3, <2>4, <2>5 DEF ReaderStep
  <1>. QED  BY <1>2, <1>4, <1>5 DEF IInv

(* The kernel writing entries back changes nothing anybody sees. *)
LEMMA WriteBackKeeps ==
  ASSUME IInv, WriteBack, UNCHANGED faults
  PROVE  IInv'
  <1>. USE DEF WriteBack, publisher, reader
  <1>1. TypeOK'
    BY DEF IInv, TypeOK
  <1>2. PublishInv' /\ StoreInv' /\ ReadersNeverTrip'
    BY DEF IInv, PublishInv, AtWork, Accession, Intact, StoreInv, PublishedIsDescribed,
           PublishedIsComplete, NoDuplicateBundle, ReadersNeverTrip
  <1>. QED  BY <1>1, <1>2 DEF IInv

(* Power loss takes directories and renames away and never makes one: what *)
(* is published after it was published before.                             *)
LEMMA PowerLossKeeps ==
  ASSUME IInv, PowerLoss, UNCHANGED faults
  PROVE  IInv'
  <1>1. PICK gone \in SUBSET ({u \in Uuids : dir[u].kind # "none"} \ synced),
             undone \in SUBSET ({u \in Uuids : dir[u].kind = "published"} \ synced) :
          dir' = [u \in Uuids |-> IF u \in gone THEN NoEntry
                                  ELSE IF u \in undone THEN [dir[u] EXCEPT !.kind = "staging"]
                                  ELSE dir[u]]
    BY DEF PowerLoss
  <1>2. \A u \in Uuids : dir[u] \in Entry
    BY DEF IInv, TypeOK
  <1>3. ASSUME NEW u \in undone
        PROVE  [dir[u] EXCEPT !.kind = "staging"] \in Entry
               /\ [dir[u] EXCEPT !.kind = "staging"].kind = "staging"
    BY <1>2 DEF Entry, NoEntry
  <1>4. dir' \in [Uuids -> Entry]
    BY <1>1, <1>2, <1>3 DEF Entry
  <1>5. \A u \in Uuids : dir'[u] # dir[u] => dir'[u].kind # "published"
    BY <1>1, <1>3 DEF NoEntry
  <1>6. TypeOK'
    <2>1. cas' \in [Digests -> Content] /\ flushed' \in SUBSET Digests /\ synced' \in SUBSET Uuids
      BY DEF PowerLoss, IInv, TypeOK, Content
    <2>2. lock' \in [Accessions -> Publishers \union {None}] /\ pc' \in [Publishers -> PublisherSteps]
      BY DEF PowerLoss, PublisherSteps
    <2>3. rpc' \in [Readers -> ReaderSteps] /\ seen' \in [Readers -> SUBSET Uuids]
      BY DEF PowerLoss, ReaderSteps
    <2>. QED  BY <1>4, <2>1, <2>2, <2>3 DEF PowerLoss, IInv, TypeOK
  <1>7. PublishInv'
    <2>1. \A p \in Publishers : pc'[p] \in {"done", "failed"}
      BY DEF PowerLoss
    <2>. QED  BY <2>1 DEF PublishInv, AtWork, Locked
  <1>8. StoreInv'
    <2>1. ~ (faults \subseteq {"crash", "io"})
      BY DEF PowerLoss
    <2>. QED  BY <1>5, <2>1, StoreKept
  <1>9. ReadersNeverTrip'
    BY DEF PowerLoss, ReadersNeverTrip
  <1>. QED  BY <1>6, <1>7, <1>8, <1>9 DEF IInv

(* Rot is outside the promises about objects and touches no directory. *)
LEMMA DamageKeeps ==
  ASSUME IInv, Damage, UNCHANGED faults
  PROVE  IInv'
  <1>. USE DEF Damage, publisher, reader
  <1>1. TypeOK'
    BY DEF IInv, TypeOK, Content
  <1>2. PublishInv'
    BY DEF IInv, PublishInv, AtWork, Accession
  <1>3. StoreInv'
    BY StoreKept
  <1>4. ReadersNeverTrip'
    BY DEF IInv, ReadersNeverTrip
  <1>. QED  BY <1>1, <1>2, <1>3, <1>4 DEF IInv

-----------------------------------------------------------------------------
(* The theorems.                                                           *)

(* Every state of the store, whatever fails, satisfies the invariant. *)
THEOREM Invariance == Spec => []IInv
  <1>1. IInv /\ [Next]_vars => IInv'
    <2>. SUFFICES ASSUME IInv, [Next]_vars PROVE IInv'
      OBVIOUS
    <2>1. CASE \E p \in Publishers : PublisherStep(p)
      BY <2>1, PublisherKeeps DEF PublisherStep
    <2>2. CASE \E p \in Publishers : (PublishRaises(p) \/ Crash(p) \/ Restart(p)) /\ UNCHANGED faults
      BY <2>2, PublisherKeeps
    <2>3. CASE \E r \in Readers : ReaderStep(r) /\ UNCHANGED faults
      BY <2>3, ReaderKeeps
    <2>4. CASE (WriteBack \/ PowerLoss \/ Damage) /\ UNCHANGED faults
      BY <2>4, WriteBackKeeps, PowerLossKeeps, DamageKeeps
    <2>5. CASE UNCHANGED vars
      <3>. USE <2>5 DEF vars, disk, publisher, reader
      <3>1. TypeOK' /\ ReadersNeverTrip'
        BY DEF IInv, TypeOK, ReadersNeverTrip
      <3>2. PublishInv'
        BY DEF IInv, PublishInv, AtWork, Accession, Intact
      <3>3. StoreInv'
        BY StoreKept
      <3>. QED  BY <3>1, <3>2, <3>3 DEF IInv
    <2>. QED  BY <2>1, <2>2, <2>3, <2>4, <2>5 DEF Next
  <1>. QED  BY <1>1, InitIInv, PTL DEF Spec

(* BundleStore.publish is idempotent: no accession ever holds two          *)
(* equivalent bundles, however many publishers there are, wherever they    *)
(* die, and whatever power loss undoes.                                    *)
THEOREM OneDirectoryPerBundle == Spec => []NoDuplicateBundle
  <1>1. IInv => NoDuplicateBundle
    BY DEF IInv, StoreInv
  <1>. QED  BY <1>1, Invariance, PTL

(* list_published never meets a published directory it must refuse because *)
(* of a process that died, and no cleaning removes a live publisher's      *)
(* staging directory.                                                      *)
THEOREM DirectoriesSound == Spec => []DirectoriesAreSound
  <1>1. IInv => DirectoriesAreSound
    BY DEF IInv, PublishInv, AtWork, StoreInv, DirectoriesAreSound, StagingIsOwned
  <1>. QED  BY <1>1, Invariance, PTL

(* While only processes fail, no reader of an accession, which takes no    *)
(* lock, trips over a publisher.                                           *)
THEOREM ReadersSafe == Spec => []ReadersNeverTrip
  <1>1. IInv => ReadersNeverTrip
    BY DEF IInv
  <1>. QED  BY <1>1, Invariance, PTL

(* publish returns a published directory that holds the requested bundle   *)
(* with all its objects, whether it was reused or just renamed.            *)
THEOREM PublishReturns == Spec => ReturnsPublishedBundle
  <1>. DEFINE Returns == \A p \in Publishers :
         "damage" \notin faults /\ pc[p] # "done" /\ pc'[p] = "done" =>
           /\ dir'[own'[p]].kind = "published"
           /\ dir'[own'[p]].descriptor = goal[p]
           /\ \A d \in ArtifactsOf[goal[p]] : cas'[d] = "intact"
  <1>1. IInv /\ [Next]_vars => [Returns]_vars
    <2>. SUFFICES ASSUME IInv, Next, NEW p \in Publishers,
                         "damage" \notin faults, pc[p] # "done", pc'[p] = "done"
                  PROVE  /\ dir'[own'[p]].kind = "published"
                         /\ dir'[own'[p]].descriptor = goal[p]
                         /\ \A d \in ArtifactsOf[goal[p]] : cas'[d] = "intact"
      OBVIOUS
    <2>1. TypeOK /\ AtWork(p)
      BY DEF IInv, PublishInv
    <2>2. ListPublished(p) \/ SyncAccessionDir(p)
      <3>1. ASSUME NEW q \in Publishers,
                   PublisherStep(q) \/ PublishRaises(q) \/ Crash(q) \/ Restart(q), UNCHANGED faults
            PROVE  ListPublished(p) \/ SyncAccessionDir(p)
        <4>1. q = p
          BY <3>1, PublisherFrame DEF IInv, PublishInv, StepOf
        <4>. QED
          BY <2>1, <3>1, <4>1
          DEF PublisherStep, PutObject, PutsDone, AcquireLock, CleanOrphanStaging,
              ValidateIntegrity, MakeStaging, WriteDescriptor, RenameStaging, PublishRaises,
              Crash, Restart, Goto, TypeOK
      <3>2. ASSUME NEW r \in Readers, ReaderStep(r)
            PROVE  FALSE
        BY <3>2 DEF ReaderStep, ReadNames, Examine, ReadAgain, publisher
      <3>3. ASSUME WriteBack \/ PowerLoss \/ Damage
            PROVE  FALSE
        BY <3>3 DEF WriteBack, PowerLoss, Damage, publisher
      <3>. QED  BY <3>1, <3>2, <3>3 DEF Next, PublisherStep
    <2>3. CASE ListPublished(p)
      <3>1. /\ Reusable(p) # {} /\ \A u \in Published(Accession(p)) : Sound(u, Accession(p))
            /\ own' = [own EXCEPT ![p] = CHOOSE u \in Reusable(p) : TRUE]
            /\ UNCHANGED <<dir, cas>>
        BY <2>1, <2>3 DEF ListPublished, Goto, TypeOK, disk
      <3>2. own'[p] \in Reusable(p)
        BY <2>1, <3>1 DEF TypeOK
      <3>. QED  BY <3>1, <3>2 DEF Reusable, Published, Sound, Intact
    <2>4. CASE SyncAccessionDir(p)
      BY <2>1, <2>4 DEF SyncAccessionDir, AtWork, Intact
    <2>. QED  BY <2>2, <2>3, <2>4
  <1>2. Spec => [][Returns]_vars
    BY <1>1, Invariance, PTL DEF Spec
  <1>. QED  BY <1>2 DEF ReturnsPublishedBundle

=============================================================================
