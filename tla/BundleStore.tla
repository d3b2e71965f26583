----------------------------- MODULE BundleStore ----------------------------
(***************************************************************************)
(* The filing store on disk: content-addressed objects (storage/objects.py)*)
(* and the bundle directories of each accession (storage/bundles.py).      *)
(*                                                                         *)
(* A publisher is one acquisition: it puts the objects of its bundle, one  *)
(* after the other, then publishes under the accession's file lock.  A     *)
(* reader lists an accession without the lock.  One action is one system   *)
(* call that others can observe, so a process may die between any two.     *)
(*                                                                         *)
(* Durability.  A file is fsynced before it is renamed into place, but the *)
(* directory entries of objects are never fsynced, and the entry of a      *)
(* bundle only after its rename: until the kernel writes them back, power  *)
(* loss may undo them.                                                     *)
(*                                                                         *)
(* A definition Op_Slip is Op with a plausible slip; it is not part of the *)
(* model and shows that a property notices the slip.                       *)
(***************************************************************************)
EXTENDS FiniteSets, Naturals

CONSTANTS
  None,
  Publishers, Readers,
  Digests,        \* contents, named by their SHA-256
  Bundles,        \* bundle states up to bundles_equivalent
  Accessions,
  Uuids,          \* opaque ids; none is drawn while anything bears it
  AccessionOf,    \* the filing identity of a bundle
  ArtifactsOf,    \* the digests of its artifacts
  FaultModels,    \* the sets of faults considered together, of "crash",
                  \* "io", "power", "damage"
  MaxRestarts     \* how often a publisher is run again

ASSUME BundlesAssumption ==
  /\ AccessionOf \in [Bundles -> Accessions]
  /\ ArtifactsOf \in [Bundles -> SUBSET Digests]
  /\ None \notin Bundles \union Publishers
  /\ MaxRestarts \in Nat

VARIABLES
  cas,       \* objects/: what is stored under each digest
  flushed,   \* digests whose directory entry is on stable storage
  dir,       \* bundles/{cik}/{accession}/: the entries, by opaque id
  synced,    \* opaque ids whose entry is on stable storage
  lock,      \* locks/{cik}/{accession}.lock: its holder
  pc, goal, todo, own, runs,  \* per publisher: step, bundle, objects still
                              \* to put, opaque id, restarts
  rpc, seen,                  \* per reader: step, the names it listed
  faults                      \* which faults happen in this behaviour

disk       == <<cas, flushed, dir, synced>>
publisher  == <<pc, goal, todo, own, runs>>
reader     == <<rpc, seen>>
vars       == <<disk, lock, publisher, reader, faults>>

Content == {"absent", "intact", "damaged"}

NoEntry == [kind |-> "none", accession |-> None, descriptor |-> None]

Entry == {NoEntry} \union [ kind : {"staging", "published"},
                            accession : Accessions,
                            descriptor : Bundles \union {None} ]

Locked == {"clean", "list", "validate", "mkdir", "write", "rename", "fsync"}
PublisherSteps == {"put", "lock", "done", "failed"} \union Locked
ReaderSteps == {"idle", "listed", "ok", "error"}

TypeOK ==
  /\ cas \in [Digests -> Content]
  /\ flushed \in SUBSET Digests
  /\ dir \in [Uuids -> Entry]
  /\ synced \in SUBSET Uuids
  /\ lock \in [Accessions -> Publishers \union {None}]
  /\ pc \in [Publishers -> PublisherSteps]
  /\ goal \in [Publishers -> Bundles]
  /\ todo \in [Publishers -> SUBSET Digests]
  /\ own \in [Publishers -> Uuids \union {None}]
  /\ runs \in [Publishers -> 0 .. MaxRestarts]
  /\ rpc \in [Readers -> ReaderSteps]
  /\ seen \in [Readers -> SUBSET Uuids]
  /\ faults \in FaultModels

Init ==
  /\ cas = [d \in Digests |-> "absent"]
  /\ flushed = {}
  /\ dir = [u \in Uuids |-> NoEntry]
  /\ synced = {}
  /\ lock = [a \in Accessions |-> None]
  /\ pc = [p \in Publishers |-> "put"]
  /\ goal \in [Publishers -> Bundles]
  /\ todo = [p \in Publishers |-> ArtifactsOf[goal[p]]]
  /\ own = [p \in Publishers |-> None]
  /\ runs = [p \in Publishers |-> 0]
  /\ rpc = [r \in Readers |-> "idle"]
  /\ seen = [r \in Readers |-> {}]
  /\ faults \in FaultModels

-----------------------------------------------------------------------------

Accession(p) == AccessionOf[goal[p]]

Published(a) == { u \in Uuids : dir[u].kind = "published" /\ dir[u].accession = a }
Staging(a)   == { u \in Uuids : dir[u].kind = "staging" /\ dir[u].accession = a }

(* validate_bundle_integrity: every object exists and hashes to its name.  *)
Intact(b) == \A d \in ArtifactsOf[b] : cas[d] = "intact"

(* list_published raises on a directory without a descriptor, on a         *)
(* descriptor of another filing, and on a bundle that is not intact.       *)
Sound(u, a) ==
  /\ dir[u].descriptor # None
  /\ AccessionOf[dir[u].descriptor] = a
  /\ Intact(dir[u].descriptor)

(* publish returns a listed bundle that bundles_equivalent its own.        *)
Reusable_ByFiling(p) == Published(Accession(p))
Reusable(p) == { u \in Published(Accession(p)) : dir[u].descriptor = goal[p] }

Goto(p, step) == pc' = [pc EXCEPT ![p] = step]

(* The with-block of the lock ends, or the operating system closes it.     *)
Release_Never(p) == UNCHANGED lock
Release(p) == lock' = [a \in Accessions |-> IF lock[a] = p THEN None ELSE lock[a]]

(* put_bytes and put_stream.  An object that exists is compared with the   *)
(* new bytes: a damaged one is a "collision" and is never replaced.        *)
PutObject(p) ==
  /\ pc[p] = "put"
  /\ \E d \in todo[p] :
       IF cas[d] = "damaged"
       THEN Goto(p, "failed") /\ UNCHANGED <<cas, todo>>
       ELSE /\ cas' = [cas EXCEPT ![d] = "intact"]
            /\ todo' = [todo EXCEPT ![p] = @ \ {d}]
            /\ UNCHANGED pc
  /\ UNCHANGED <<flushed, dir, synced, lock, goal, own, runs, reader>>

(* All objects are put; publish asks for the accession's lock. *)
PutsDone(p) ==
  /\ pc[p] = "put"
  /\ todo[p] = {}
  /\ Goto(p, "lock")
  /\ UNCHANGED <<disk, lock, goal, todo, own, runs, reader>>

AcquireLock_Ignored(p) ==
  /\ pc[p] = "lock"
  /\ lock' = [lock EXCEPT ![Accession(p)] = p]
  /\ Goto(p, "clean")
  /\ UNCHANGED <<disk, goal, todo, own, runs, reader>>

AcquireLock(p) ==
  /\ pc[p] = "lock"
  /\ lock[Accession(p)] = None
  /\ lock' = [lock EXCEPT ![Accession(p)] = p]
  /\ Goto(p, "clean")
  /\ UNCHANGED <<disk, goal, todo, own, runs, reader>>

(* rmtree ignores errors, so some leftovers may stay. *)
CleanOrphanStaging(p) ==
  /\ pc[p] = "clean"
  /\ \E kept \in SUBSET Staging(Accession(p)) :
       /\ "io" \notin faults => kept = {}
       /\ dir' = [u \in Uuids |-> IF u \in Staging(Accession(p)) \ kept THEN NoEntry ELSE dir[u]]
  /\ Goto(p, "list")
  /\ UNCHANGED <<cas, flushed, synced, lock, goal, todo, own, runs, reader>>

(* list_published, and the reuse of an equivalent bundle. *)
ListPublished(p) ==
  /\ pc[p] = "list"
  /\ IF \E u \in Published(Accession(p)) : ~ Sound(u, Accession(p))
     THEN Goto(p, "failed") /\ Release(p) /\ UNCHANGED own
     ELSE IF Reusable(p) # {}
          THEN /\ own' = [own EXCEPT ![p] = CHOOSE u \in Reusable(p) : TRUE]
               /\ Goto(p, "done") /\ Release(p)
          ELSE Goto(p, "validate") /\ UNCHANGED <<lock, own>>
  /\ UNCHANGED <<disk, goal, todo, runs, reader>>

ValidateIntegrity(p) ==
  /\ pc[p] = "validate"
  /\ IF Intact(goal[p])
     THEN Goto(p, "mkdir") /\ UNCHANGED lock
     ELSE Goto(p, "failed") /\ Release(p)
  /\ UNCHANGED <<disk, goal, todo, own, runs, reader>>

(* uuid4: an opaque id that names nothing yet. *)
Undrawn == { u \in Uuids : dir[u].kind = "none" /\ \A p \in Publishers : own[p] # u }

MakeStaging_InPlace(p) ==
  /\ pc[p] = "mkdir"
  /\ Undrawn # {}
  /\ LET u == CHOOSE u \in Undrawn : TRUE
     IN  /\ dir' = [dir EXCEPT ![u] =
                      [kind |-> "published", accession |-> Accession(p), descriptor |-> None]]
         /\ own' = [own EXCEPT ![p] = u]
  /\ Goto(p, "write")
  /\ UNCHANGED <<cas, flushed, synced, lock, goal, todo, runs, reader>>

MakeStaging(p) ==
  /\ pc[p] = "mkdir"
  /\ Undrawn # {}
  /\ LET u == CHOOSE u \in Undrawn : TRUE
     IN  /\ dir' = [dir EXCEPT ![u] =
                      [kind |-> "staging", accession |-> Accession(p), descriptor |-> None]]
         /\ own' = [own EXCEPT ![p] = u]
  /\ Goto(p, "write")
  /\ UNCHANGED <<cas, flushed, synced, lock, goal, todo, runs, reader>>

(* write_json_atomic: the descriptor and its entry are on stable storage.  *)
WriteDescriptor(p) ==
  /\ pc[p] = "write"
  /\ dir' = [dir EXCEPT ![own[p]].descriptor = goal[p]]
  /\ Goto(p, "rename")
  /\ UNCHANGED <<cas, flushed, synced, lock, goal, todo, own, runs, reader>>

RenameStaging(p) ==
  /\ pc[p] = "rename"
  /\ dir' = [dir EXCEPT ![own[p]].kind = "published"]
  /\ Goto(p, "fsync")
  /\ UNCHANGED <<cas, flushed, synced, lock, goal, todo, own, runs, reader>>

SyncAccessionDir(p) ==
  /\ pc[p] = "fsync"
  /\ synced' = synced \union {own[p]}
  /\ Goto(p, "done")
  /\ Release(p)
  /\ UNCHANGED <<cas, flushed, dir, goal, todo, own, runs, reader>>

(* The except branch of publish: a failing write, rename or fsync removes  *)
(* the staging directory, if there still is one, as far as rmtree can, and *)
(* raises.                                                                 *)
PublishRaises_RemovesObjects(p) ==
  /\ "io" \in faults
  /\ pc[p] \in {"write", "rename", "fsync"}
  /\ dir' = IF dir[own[p]].kind = "staging" THEN [dir EXCEPT ![own[p]] = NoEntry] ELSE dir
  /\ cas' = [d \in Digests |-> IF d \in ArtifactsOf[goal[p]] THEN "absent" ELSE cas[d]]
  /\ Goto(p, "failed")
  /\ Release(p)
  /\ UNCHANGED <<flushed, synced, goal, todo, own, runs, reader>>

PublishRaises(p) ==
  /\ "io" \in faults
  /\ pc[p] \in {"write", "rename", "fsync"}
  /\ \/ UNCHANGED dir
     \/ dir[own[p]].kind = "staging" /\ dir' = [dir EXCEPT ![own[p]] = NoEntry]
  /\ Goto(p, "failed")
  /\ Release(p)
  /\ UNCHANGED <<cas, flushed, synced, goal, todo, own, runs, reader>>

(* The process dies; the operating system drops its file lock. *)
Crash(p) ==
  /\ "crash" \in faults
  /\ pc[p] \notin {"done", "failed"}
  /\ Goto(p, "failed")
  /\ Release(p)
  /\ UNCHANGED <<disk, goal, todo, own, runs, reader>>

(* The operator acquires the filing again; SEC may serve other content.    *)
Restart(p) ==
  /\ pc[p] \in {"done", "failed"}
  /\ runs[p] < MaxRestarts
  /\ runs' = [runs EXCEPT ![p] = @ + 1]
  /\ \E b \in Bundles : /\ AccessionOf[b] = Accession(p)
                         /\ goal' = [goal EXCEPT ![p] = b]
                         /\ todo' = [todo EXCEPT ![p] = ArtifactsOf[b]]
  /\ own' = [own EXCEPT ![p] = None]
  /\ Goto(p, "put")
  /\ UNCHANGED <<disk, lock, reader>>

-----------------------------------------------------------------------------
(* Readers: list_published of an accession, without the lock.  The names   *)
(* are taken first; staging names are skipped, and a name that has gone by *)
(* the time it is examined is no directory and is skipped too.             *)

ReadNames(r) ==
  /\ rpc[r] = "idle"
  /\ \E a \in Accessions : seen' = [seen EXCEPT ![r] = Published(a)]
  /\ rpc' = [rpc EXCEPT ![r] = "listed"]
  /\ UNCHANGED <<disk, lock, publisher>>

Examine(r) ==
  /\ rpc[r] = "listed"
  /\ LET there == { u \in seen[r] : dir[u].kind = "published" }
     IN  rpc' = [rpc EXCEPT ![r] =
                   IF \A u \in there : Sound(u, dir[u].accession) THEN "ok" ELSE "error"]
  /\ seen' = [seen EXCEPT ![r] = {}]
  /\ UNCHANGED <<disk, lock, publisher>>

ReadAgain(r) ==
  /\ rpc[r] \in {"ok", "error"}
  /\ rpc' = [rpc EXCEPT ![r] = "idle"]
  /\ UNCHANGED <<disk, lock, publisher, seen>>

-----------------------------------------------------------------------------
(* The machine.                                                            *)

(* The kernel writes object entries back in its own time. *)
WriteBack ==
  /\ "power" \in faults
  /\ flushed' = { d \in Digests : cas[d] # "absent" }
  /\ UNCHANGED <<cas, dir, synced, lock, publisher, reader>>

(* Entries that are not on stable storage may be gone, and a rename undone.*)
PowerLoss ==
  /\ "power" \in faults
  /\ \E lost \in SUBSET ({d \in Digests : cas[d] # "absent"} \ flushed) :
       cas' = [d \in Digests |-> IF d \in lost THEN "absent" ELSE cas[d]]
  /\ \E gone \in SUBSET ({u \in Uuids : dir[u].kind # "none"} \ synced),
        undone \in SUBSET ({u \in Uuids : dir[u].kind = "published"} \ synced) :
       dir' = [u \in Uuids |-> IF u \in gone THEN NoEntry
                               ELSE IF u \in undone THEN [dir[u] EXCEPT !.kind = "staging"]
                               ELSE dir[u]]
  /\ flushed' = { d \in Digests : cas'[d] # "absent" }
  /\ synced' = { u \in Uuids : dir'[u].kind = "published" }
  /\ lock' = [a \in Accessions |-> None]
  /\ pc' = [p \in Publishers |-> IF pc[p] = "done" THEN "done" ELSE "failed"]
  /\ rpc' = [r \in Readers |-> "idle"]
  /\ seen' = [r \in Readers |-> {}]
  /\ UNCHANGED <<goal, todo, own, runs>>

(* Bytes rot on the disk. *)
Damage ==
  /\ "damage" \in faults
  /\ \E d \in Digests : cas[d] = "intact" /\ cas' = [cas EXCEPT ![d] = "damaged"]
  /\ UNCHANGED <<flushed, dir, synced, lock, publisher, reader>>

PublisherStep(p) ==
  /\ \/ PutObject(p) \/ PutsDone(p) \/ AcquireLock(p) \/ CleanOrphanStaging(p)
     \/ ListPublished(p) \/ ValidateIntegrity(p) \/ MakeStaging(p)
     \/ WriteDescriptor(p) \/ RenameStaging(p) \/ SyncAccessionDir(p)
  /\ UNCHANGED faults

ReaderStep(r) == ReadNames(r) \/ Examine(r) \/ ReadAgain(r)

Next ==
  \/ \E p \in Publishers : PublisherStep(p)
  \/ \E p \in Publishers : (PublishRaises(p) \/ Crash(p) \/ Restart(p)) /\ UNCHANGED faults
  \/ \E r \in Readers : ReaderStep(r) /\ UNCHANGED faults
  \/ (WriteBack \/ PowerLoss \/ Damage) /\ UNCHANGED faults

Spec == Init /\ [][Next]_vars

(* A running process executes its next call.  FileLock polls, and restarts *)
(* are bounded, so a waiter finds the lock free in the end.                *)
FairSpec == Spec /\ \A p \in Publishers : WF_vars(PublisherStep(p))

-----------------------------------------------------------------------------
(* Properties.                                                             *)

(* Publishing is idempotent: the publish directory of an accession never   *)
(* holds two equivalent bundles, whatever crashes between list_published   *)
(* and the rename, and although every publisher draws a fresh opaque id.   *)
NoDuplicateBundle ==
  \A u, v \in Uuids :
    /\ dir[u].kind = "published" /\ dir[v].kind = "published"
    /\ dir[u].accession = dir[v].accession
    /\ dir[u].descriptor = dir[v].descriptor
    => u = v

(* A directory with a published name always holds the descriptor of a      *)
(* bundle of its own accession: neither a crash nor power loss leaves one  *)
(* that would make list_published fail closed for ever.                    *)
PublishedIsDescribed ==
  \A u \in Uuids : dir[u].kind = "published" =>
    dir[u].descriptor # None /\ AccessionOf[dir[u].descriptor] = dir[u].accession

(* While only processes fail, every published bundle has all its objects,  *)
(* so one acquisition's death never blocks the accession for the others.   *)
PublishedIsComplete ==
  faults \subseteq {"crash", "io"} =>
    \A u \in Uuids : dir[u].kind = "published" => Intact(dir[u].descriptor)

(* From its mkdir to its rename a publisher's staging directory is there,  *)
(* with what it has written: although every publish removes any staging    *)
(* directory of the accession, it never removes the work of a live one.    *)
StagingIsOwned ==
  \A p \in Publishers : pc[p] \in {"write", "rename"} =>
    dir[own[p]] = [ kind       |-> "staging",
                    accession  |-> Accession(p),
                    descriptor |-> IF pc[p] = "rename" THEN goal[p] ELSE None ]

(* The publish directory of an accession is always one that list_published *)
(* reads without failing, and one a live publisher can go on writing: what *)
(* is published is described and complete, what is staged is its owner's.  *)
DirectoriesAreSound ==
  TypeOK /\ PublishedIsDescribed /\ PublishedIsComplete /\ StagingIsOwned

(* What publish returns, new or reused, is a published directory with the  *)
(* requested bundle, complete at that moment, even when power was lost in  *)
(* earlier runs. Bytes that rot under a running publisher are excluded: the *)
(* digest check of one step cannot vouch for the next.                     *)
ReturnsPublishedBundle ==
  [][\A p \in Publishers :
       "damage" \notin faults /\ pc[p] # "done" /\ pc'[p] = "done" =>
         /\ dir'[own'[p]].kind = "published"
         /\ dir'[own'[p]].descriptor = goal[p]
         /\ \A d \in ArtifactsOf[goal[p]] : cas'[d] = "intact"]_vars

(* While only processes fail, a reader that lists an accession without the *)
(* lock never trips over a publisher at work, a dead publisher's           *)
(* leftovers, or its cleaning.                                             *)
ReadersNeverTrip ==
  faults \subseteq {"crash", "io"} => \A r \in Readers : rpc[r] # "error"

(* Every acquisition comes to an end: nobody waits for ever for the lock   *)
(* of a process that died.                                                 *)
EveryPublishEnds ==
  \A p \in Publishers : pc[p] \notin {"done", "failed"} ~> pc[p] \in {"done", "failed"}

=============================================================================
