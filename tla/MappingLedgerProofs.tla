------------------------ MODULE MappingLedgerProofs -------------------------
(***************************************************************************)
(* Proofs about MappingLedger, for every set of claims, ids, curators and  *)
(* syncers.                                                                *)
(*                                                                         *)
(* NoAmbiguity is not inductive: that an acceptance may commit depends on  *)
(* what its conflict check saw some statements earlier.  The invariant     *)
(* below records why the answer still holds: the concept lock is exclusive *)
(* (LockInv), so nobody else accepts for the concept between the check and *)
(* the commit, and what was clear stays clear (ClearedInv); the pending    *)
(* entry of the unique index reserves the chain's end (IndexInv); the KEY  *)
(* SHARE lock on the metric row keeps sync from deleting it (ShareInv,     *)
(* DeleteInv).                                                             *)
(***************************************************************************)
EXTENDS MappingLedger, TLAPS

Prepared == {"yaml", "mirror", "lock", "conflict", "insert", "fk", "commit"}

(* The locals of a command agree with the ledger row it decides on.        *)
LocalsOK(step, locals) ==
  /\ step # "idle" => locals \in Job
  /\ step = "current" => locals.op # "propose" /\ locals.base \in Ids
  /\ step = "mirror" => locals.seen \in Defs
  /\ step \in {"yaml", "mirror"} => locals.op # "reject"
  /\ step \in {"lock", "conflict"} => locals.op = "accept"
  /\ step \in {"insert", "fk", "commit"} => locals.hash \in Hashes
  /\ step \in Prepared =>
       /\ locals.stated \in Proposals
       /\ locals.op = "propose" => locals.base = None
       /\ locals.op # "propose" =>
            /\ locals.base \in Written(rows)
            /\ rows[locals.base].claim = [stated |-> locals.stated, hash |-> locals.hash]
            /\ MayFollow(rows[locals.base].status, Decision[locals.op])

JobInv  == \A t \in Curators : LocalsOK(pc[t], job[t])
PlanInv == \A s \in Syncers : spc[s] # "idle" => sjob[s] \in Plan

(* A pending index entry is the only one for its row, and the row has no   *)
(* committed successor.                                                    *)
IndexInv ==
  \A t \in Curators : pc[t] \in {"fk", "commit"} /\ job[t].base # None =>
    /\ ~ Superseded(rows, job[t].base)
    /\ \A u \in Curators : pc[u] \in {"fk", "commit"} /\ u # t => job[u].base # job[t].base

(* FOR UPDATE on a concept has one holder.                                 *)
LockInv ==
  \A t, u \in Curators, c \in Concepts :
    HoldsForUpdate(t, c) /\ HoldsForUpdate(u, c) => t = u

(* What the conflict check found free stays free until the commit.         *)
ClearedInv ==
  \A t \in Curators :
    /\ pc[t] \in {"insert", "fk", "commit"}
    /\ job[t].op = "accept"
    /\ job[t].stated.relation = "exact"
    => ~ Collides(rows, [stated |-> job[t].stated, hash |-> job[t].hash])

ShareInv == \A t \in Curators : pc[t] = "commit" => mirror[job[t].stated.metric] # None

DeleteInv ==
  \A s \in Syncers, m \in Metrics : Deletes(s, m) =>
    m \notin Referenced(rows) /\ \A t \in Curators : ~ HoldsMetricShare(t, m)

(* No two mappings in force overlap.                                       *)
NoCollision ==
  \A i, j \in InForce(rows) :
    /\ i # j
    /\ rows[i].claim.stated.concept = rows[j].claim.stated.concept
    => ~ scopes_overlap(rows[i].claim.stated, rows[j].claim.stated)

IInv ==
  /\ TypeOK
  /\ JobInv
  /\ PlanInv
  /\ IndexInv
  /\ LockInv
  /\ ClearedInv
  /\ ShareInv
  /\ DeleteInv
  /\ ChainsAreSound
  /\ NoCollision
  /\ MetricsStayDefined

-----------------------------------------------------------------------------
(* The interval arithmetic of registry/interval.py.                        *)

(* scopes_overlap does not depend on the order of its arguments.           *)
LEMMA OverlapIsSymmetric ==
  ASSUME NEW p, NEW q
  PROVE  scopes_overlap(p, q) = scopes_overlap(q, p)
  BY DEF scopes_overlap, intervals_overlap

(* Two well-formed scopes that both apply to some issuer's report period   *)
(* overlap, so the conflict check of acceptance is strong enough for the   *)
(* containment rule by which facts are attributed.                         *)
LEMMA ApplyingScopesOverlap ==
  ASSUME NEW p \in WellFormed, NEW q \in WellFormed,
         NEW issuer \in Issuers, NEW d \in Dates \union {None},
         AppliesTo(p, issuer, d), AppliesTo(q, issuer, d)
  PROVE  scopes_overlap(p, q)
<1>1. p.issuer # None /\ q.issuer # None => p.issuer = q.issuer
  BY DEF AppliesTo
<1>2. /\ p.from \in Dates \union {None} /\ p.to \in Dates \union {None}
      /\ q.from \in Dates \union {None} /\ q.to \in Dates \union {None}
  BY DEF WellFormed
<1>3. CASE d = None
  <2>1. p.from = None /\ p.to = None /\ q.from = None /\ q.to = None
    BY <1>3 DEF AppliesTo, interval_contains
  <2>2. intervals_overlap(p.from, p.to, q.from, q.to)
    BY <2>1, DatesAssumption DEF intervals_overlap
  <2> QED BY <1>1, <2>2 DEF scopes_overlap
<1>4. CASE d # None
  <2>1. d \in Int /\ DateMin <= d /\ d <= DateMax
    BY <1>4, DatesAssumption DEF Dates
  <2>2. /\ p.from # None => p.from <= d
        /\ p.to # None => d <= p.to
        /\ q.from # None => q.from <= d
        /\ q.to # None => d <= q.to
    BY <1>4 DEF AppliesTo, interval_contains
  <2>3. intervals_overlap(p.from, p.to, q.from, q.to)
    BY <1>2, <2>1, <2>2, DatesAssumption, NoneAssumption DEF intervals_overlap, Dates
  <2> QED BY <1>1, <2>3 DEF scopes_overlap
<1> QED BY <1>3, <1>4

-----------------------------------------------------------------------------
(* Steps that move one transaction and leave the committed tables alone.   *)

(* What a curator must know to enter a step, about the other transactions. *)
EntryOK(t, step, locals) ==
  /\ step \in {"fk", "commit"} /\ locals.base # None =>
       /\ ~ Superseded(rows, locals.base)
       /\ \A u \in Curators \ {t} :
            pc[u] \in {"fk", "commit"} => job[u].base # locals.base
  /\ step \in {"conflict", "insert", "fk", "commit"} /\ locals.op = "accept" =>
       \A u \in Curators \ {t} : ~ HoldsForUpdate(u, locals.stated.concept)
  /\ /\ step \in {"insert", "fk", "commit"}
     /\ locals.op = "accept"
     /\ locals.stated.relation = "exact"
     => ~ Collides(rows, [stated |-> locals.stated, hash |-> locals.hash])
  /\ step = "commit" =>
       /\ mirror[locals.stated.metric] # None
       /\ \A s \in Syncers : ~ Deletes(s, locals.stated.metric)

(* A curator's move keeps the invariant if its new locals are right and    *)
(* the step may be entered.                                                *)
LEMMA CuratorMove ==
  ASSUME IInv, NEW t \in Curators, NEW step \in CuratorSteps,
         NEW locals \in Job \union {None},
         Go(t, step, locals), LocalsOK(step, locals), EntryOK(t, step, locals)
  PROVE  IInv'
<1> USE DEF IInv
<1>1. /\ pc' = [pc EXCEPT ![t] = step] /\ job' = [job EXCEPT ![t] = locals]
      /\ yaml' = yaml /\ mirror' = mirror /\ rows' = rows /\ spc' = spc /\ sjob' = sjob
  BY DEF Go, syncerVars
<1>2. /\ pc'[t] = step /\ job'[t] = locals
      /\ \A u \in Curators : u # t => pc'[u] = pc[u] /\ job'[u] = job[u]
  BY <1>1 DEF TypeOK
<1>3. TypeOK'
  BY <1>1 DEF TypeOK
<1>4. JobInv'
  BY <1>1, <1>2 DEF JobInv, LocalsOK, Written
<1>5. PlanInv'
  BY <1>1 DEF PlanInv
<1>6. IndexInv'
  BY <1>1, <1>2 DEF IndexInv, EntryOK, Superseded, Written
<1>7. LockInv'
  BY <1>1, <1>2 DEF LockInv, EntryOK, HoldsForUpdate
<1>8. ClearedInv'
  BY <1>1, <1>2 DEF ClearedInv, EntryOK, Collides, InForce, Current, Superseded, Written
<1>9. ShareInv'
  BY <1>1, <1>2 DEF ShareInv, EntryOK
<1>10. DeleteInv'
  BY <1>1, <1>2 DEF DeleteInv, EntryOK, Deletes, Removed, HoldsMetricShare, Referenced, Written
<1>11. ChainsAreSound' /\ NoCollision' /\ MetricsStayDefined'
  BY <1>1 DEF ChainsAreSound, NoCollision, MetricsStayDefined, Referenced, InForce, Current,
              Superseded, Written
<1> QED BY <1>3, <1>4, <1>5, <1>6, <1>7, <1>8, <1>9, <1>10, <1>11

(* Any transaction may be rolled back at any time.                         *)
LEMMA CuratorRollback ==
  ASSUME IInv, NEW t \in Curators, Rollback(t)
  PROVE  IInv'
<1>1. Go(t, "idle", None)
  BY DEF Rollback, Go
<1>2. LocalsOK("idle", None) /\ EntryOK(t, "idle", None)
  BY DEF LocalsOK, EntryOK, Prepared
<1> QED BY <1>1, <1>2, CuratorMove DEF CuratorSteps

(* A syncer's move keeps the invariant if, when it ends with its deletions *)
(* done, nothing refers or is about to refer to what it deleted.           *)
LEMMA SyncerMove ==
  ASSUME IInv, NEW s \in Syncers, NEW step \in SyncerSteps,
         NEW plan \in Plan \union {None},
         SyncGo(s, step, plan),
         step # "idle" => plan \in Plan,
         step = "commit" =>
           \A m \in Metrics : plan.yaml[m] = None /\ plan.existing[m] # None =>
             m \notin Referenced(rows) /\ \A t \in Curators : ~ HoldsMetricShare(t, m)
  PROVE  IInv'
<1> USE DEF IInv
<1>1. /\ spc' = [spc EXCEPT ![s] = step] /\ sjob' = [sjob EXCEPT ![s] = plan]
      /\ yaml' = yaml /\ mirror' = mirror /\ rows' = rows /\ pc' = pc /\ job' = job
  BY DEF SyncGo, curatorVars
<1>2. /\ spc'[s] = step /\ sjob'[s] = plan
      /\ \A r \in Syncers : r # s => spc'[r] = spc[r] /\ sjob'[r] = sjob[r]
  BY <1>1 DEF TypeOK
<1>3. TypeOK'
  BY <1>1 DEF TypeOK
<1>4. JobInv'
  BY <1>1 DEF JobInv, LocalsOK, Written
<1>5. PlanInv'
  BY <1>1, <1>2 DEF PlanInv
<1>6. IndexInv' /\ LockInv' /\ ClearedInv' /\ ShareInv'
  BY <1>1 DEF IndexInv, LockInv, ClearedInv, ShareInv, HoldsForUpdate, Collides, InForce,
              Current, Superseded, Written
<1>7. DeleteInv'
  BY <1>1, <1>2 DEF DeleteInv, Deletes, Removed, HoldsMetricShare, Referenced, Written
<1>8. ChainsAreSound' /\ NoCollision' /\ MetricsStayDefined'
  BY <1>1 DEF ChainsAreSound, NoCollision, MetricsStayDefined, Referenced, InForce, Current,
              Superseded, Written
<1> QED BY <1>3, <1>4, <1>5, <1>6, <1>7, <1>8

(* So may a sync.                                                         *)
LEMMA SyncerRollback ==
  ASSUME IInv, NEW s \in Syncers, SyncRollback(s)
  PROVE  IInv'
<1>1. SyncGo(s, "idle", None)
  BY DEF SyncRollback, SyncGo
<1> QED BY <1>1, SyncerMove DEF SyncerSteps

-----------------------------------------------------------------------------
(* One lemma per action that takes more than the lemmas above.             *)

(* Starting a command: it knows nothing yet.                               *)
LEMMA BeginKeeps ==
  ASSUME IInv, NEW t \in Curators, BeginPropose(t) \/ BeginDecision(t)
  PROVE  IInv'
<1>1. CASE BeginPropose(t)
  <2>1. PICK p \in Proposals :
          Go(t, "yaml", [op |-> "propose", base |-> None, stated |-> p, hash |-> None,
                         seen |-> None, backed |-> TRUE])
    BY <1>1 DEF BeginPropose
  <2> DEFINE locals == [op |-> "propose", base |-> None, stated |-> p, hash |-> None,
                        seen |-> None, backed |-> TRUE]
  <2>2. locals \in Job
    BY DEF Job, Definition
  <2>3. LocalsOK("yaml", locals) /\ EntryOK(t, "yaml", locals)
    BY <2>2 DEF LocalsOK, EntryOK
  <2> QED BY <2>1, <2>2, <2>3, CuratorMove DEF CuratorSteps
<1>2. CASE BeginDecision(t)
  <2>1. PICK op \in {"accept", "reject"}, i \in Ids, b \in BOOLEAN :
          Go(t, "current", [op |-> op, base |-> i, stated |-> None, hash |-> None,
                            seen |-> None, backed |-> b])
    BY <1>2 DEF BeginDecision
  <2> DEFINE locals == [op |-> op, base |-> i, stated |-> None, hash |-> None,
                        seen |-> None, backed |-> b]
  <2>2. locals \in Job
    BY DEF Job, Definition
  <2>3. LocalsOK("current", locals) /\ EntryOK(t, "current", locals)
    BY <2>2 DEF LocalsOK, EntryOK, Prepared
  <2> QED BY <2>1, <2>2, <2>3, CuratorMove DEF CuratorSteps
<1> QED BY <1>1, <1>2

(* _require_current hands on the claim of the row it read.                 *)
LEMMA RequireCurrentKeeps ==
  ASSUME IInv, NEW t \in Curators, RequireCurrent(t)
  PROVE  IInv'
<1>1. CASE ~ Decidable(t)
  BY <1>1, CuratorRollback DEF RequireCurrent
<1>2. CASE Decidable(t)
  <2> DEFINE row    == rows[job[t].base]
             locals == [job[t] EXCEPT !.stated = row.claim.stated, !.hash = row.claim.hash]
             step   == IF job[t].op = "accept" THEN "yaml" ELSE "insert"
  <2>1. pc[t] = "current" /\ Go(t, step, locals)
    BY <1>2 DEF RequireCurrent
  <2>2. job[t] \in Job /\ job[t].op \in {"accept", "reject"} /\ job[t].base \in Written(rows)
    BY <2>1, <1>2 DEF IInv, JobInv, LocalsOK, Job, Decidable, Current
  <2>3. row \in Row
    BY <2>2 DEF IInv, TypeOK, Written
  <2>4. row.claim.stated \in Proposals /\ row.claim.hash \in Hashes
        /\ row.claim = [stated |-> row.claim.stated, hash |-> row.claim.hash]
    BY <2>3 DEF Row, Claim
  <2>5. /\ locals \in Job
        /\ locals.op = job[t].op /\ locals.base = job[t].base
        /\ locals.stated = row.claim.stated /\ locals.hash = row.claim.hash
    BY <2>2, <2>4 DEF Job, Definition
  <2>6. MayFollow(row.status, Decision[job[t].op])
    BY <1>2, <2>2 DEF Decidable, MayFollow, Decision
  <2>7. LocalsOK(step, locals)
    BY <2>2, <2>4, <2>5, <2>6 DEF LocalsOK
  <2>8. EntryOK(t, step, locals)
    BY <2>2, <2>5 DEF EntryOK
  <2>9. step \in CuratorSteps
    BY DEF CuratorSteps
  <2> QED BY <2>1, <2>5, <2>7, <2>8, <2>9, CuratorMove
<1> QED BY <1>1, <1>2

(* The YAML and mirror reads.  A proposal's hash is the one it saw.        *)
LEMMA MetricReadsKeep ==
  ASSUME IInv, NEW t \in Curators, LoadYaml(t) \/ MatchMirror(t)
  PROVE  IInv'
<1>1. pc[t] \in {"yaml", "mirror"}
  BY DEF LoadYaml, MatchMirror
<1>2. LocalsOK(pc[t], job[t]) /\ job[t] \in Job /\ job[t].stated \in Proposals
  BY <1>1 DEF IInv, JobInv, LocalsOK, Prepared
<1>3. job[t].stated.metric \in Metrics
  BY <1>2, ProposalsAssumption DEF WellFormed
<1>4. CASE LoadYaml(t)
  <2> DEFINE d      == yaml[job[t].stated.metric]
             locals == [job[t] EXCEPT !.seen = d]
  <2>1. CASE d = None
    BY <1>4, <2>1, CuratorRollback DEF LoadYaml
  <2>2. CASE d # None
    <3>1. pc[t] = "yaml" /\ Go(t, "mirror", locals)
      BY <1>4, <2>2 DEF LoadYaml
    <3>2. d \in Defs
      BY <1>3, <2>2 DEF IInv, TypeOK, Definition
    <3>3. /\ locals \in Job /\ locals.seen = d
          /\ locals.op = job[t].op /\ locals.base = job[t].base
          /\ locals.stated = job[t].stated /\ locals.hash = job[t].hash
      BY <1>2, <3>2 DEF Job, Definition
    <3>4. LocalsOK("mirror", locals) /\ EntryOK(t, "mirror", locals)
      BY <1>2, <3>1, <3>2, <3>3 DEF LocalsOK, EntryOK, Prepared
    <3> QED BY <3>1, <3>3, <3>4, CuratorMove DEF CuratorSteps
  <2> QED BY <2>1, <2>2
<1>5. CASE MatchMirror(t)
  <2>1. pc[t] = "mirror" /\ job[t].seen \in Defs
    BY <1>2, <1>5 DEF MatchMirror, LocalsOK
  <2>2. CASE Rollback(t)
    BY <2>2, CuratorRollback
  <2>3. CASE job[t].op = "propose" /\ Go(t, "insert", [job[t] EXCEPT !.hash = definition_hash[job[t].seen]])
    <3> DEFINE locals == [job[t] EXCEPT !.hash = definition_hash[job[t].seen]]
    <3>1. /\ locals \in Job /\ locals.hash \in Hashes
          /\ locals.op = "propose" /\ locals.base = job[t].base
          /\ locals.stated = job[t].stated
      BY <1>2, <2>1, <2>3, HashAssumption DEF Job, Definition
    <3>2. LocalsOK("insert", locals) /\ EntryOK(t, "insert", locals)
      BY <1>2, <2>1, <2>3, <3>1 DEF LocalsOK, EntryOK, Prepared
    <3> QED BY <2>3, <3>1, <3>2, CuratorMove DEF CuratorSteps
  <2>4. CASE job[t].op # "propose" /\ job[t].hash = definition_hash[job[t].seen] /\ Go(t, "lock", job[t])
    <3>1. job[t].op = "accept"
      BY <1>2, <2>1, <2>4 DEF LocalsOK, Job
    <3>2. LocalsOK("lock", job[t]) /\ EntryOK(t, "lock", job[t])
      BY <1>2, <2>1, <3>1 DEF LocalsOK, EntryOK, Prepared
    <3> QED BY <1>2, <2>4, <3>2, CuratorMove DEF CuratorSteps
  <2> QED BY <1>5, <2>2, <2>3, <2>4 DEF MatchMirror
<1> QED BY <1>4, <1>5

(* The lock is entered only while no other acceptance holds it.            *)
LEMMA LockConceptKeeps ==
  ASSUME IInv, NEW t \in Curators, LockConcept(t)
  PROVE  IInv'
<1>1. pc[t] = "lock" /\ ConceptLockBlockers(t) = {} /\ Go(t, "conflict", job[t])
  BY DEF LockConcept
<1>2. LocalsOK(pc[t], job[t]) /\ job[t] \in Job
  BY <1>1 DEF IInv, JobInv, LocalsOK
<1>3. LocalsOK("conflict", job[t])
  BY <1>1, <1>2 DEF LocalsOK, Prepared
<1>4. EntryOK(t, "conflict", job[t])
  BY <1>1 DEF EntryOK, ConceptLockBlockers
<1> QED BY <1>1, <1>2, <1>3, <1>4, CuratorMove DEF CuratorSteps

(* Passing the conflict check clears the claim: the row being decided is a *)
(* candidate, so leaving it out of the search changes nothing.             *)
LEMMA ConflictCheckKeeps ==
  ASSUME IInv, NEW t \in Curators, ConflictCheck(t)
  PROVE  IInv'
<1> DEFINE found == /\ job[t].stated.relation = "exact"
                    /\ \E i \in InForce(rows) \ {job[t].base} :
                         /\ rows[i].claim.stated.concept = job[t].stated.concept
                         /\ scopes_overlap(job[t].stated, rows[i].claim.stated)
<1>1. pc[t] = "conflict" /\ (IF found THEN Rollback(t) ELSE Go(t, "insert", job[t]))
  BY DEF ConflictCheck
<1>2. CASE found
  BY <1>1, <1>2, CuratorRollback
<1>3. CASE ~ found
  <2>1. LocalsOK(pc[t], job[t]) /\ job[t] \in Job /\ job[t].op = "accept"
    BY <1>1 DEF IInv, JobInv, LocalsOK
  <2>2. /\ job[t].base \in Written(rows)
        /\ rows[job[t].base].claim = [stated |-> job[t].stated, hash |-> job[t].hash]
        /\ rows[job[t].base].status = "candidate"
        /\ job[t].stated \in Proposals
    BY <1>1, <2>1 DEF LocalsOK, Prepared, MayFollow, Decision
  <2>3. job[t].hash \in Hashes
    <3>1. rows[job[t].base] \in Row
      BY <2>2 DEF IInv, TypeOK, Written
    <3> QED BY <2>2, <3>1 DEF Row, Claim
  <2>4. job[t].base \notin InForce(rows)
    BY <2>2 DEF InForce
  <2>5. job[t].stated.relation = "exact" =>
          ~ Collides(rows, [stated |-> job[t].stated, hash |-> job[t].hash])
    BY <1>3, <2>4 DEF Collides
  <2>6. \A u \in Curators \ {t} : ~ HoldsForUpdate(u, job[t].stated.concept)
    <3>1. job[t].stated.concept \in Concepts
      BY <2>2, ProposalsAssumption DEF WellFormed
    <3>2. HoldsForUpdate(t, job[t].stated.concept)
      BY <1>1, <2>1 DEF HoldsForUpdate
    <3> QED BY <3>1, <3>2 DEF IInv, LockInv
  <2>7. LocalsOK("insert", job[t])
    BY <1>1, <2>1, <2>3 DEF LocalsOK, Prepared
  <2>8. EntryOK(t, "insert", job[t])
    BY <2>5, <2>6 DEF EntryOK
  <2> QED BY <1>1, <1>3, <2>1, <2>7, <2>8, CuratorMove DEF CuratorSteps
<1> QED BY <1>2, <1>3

(* A holder of the concept lock stays the only one.                        *)
LEMMA StillLocked ==
  ASSUME IInv, NEW t \in Curators, pc[t] \in {"insert", "fk"}
  PROVE  job[t].op = "accept" =>
           \A u \in Curators \ {t} : ~ HoldsForUpdate(u, job[t].stated.concept)
<1>1. job[t].stated \in Proposals
  BY DEF IInv, JobInv, LocalsOK, Prepared
<1>2. job[t].stated.concept \in Concepts
  BY <1>1, ProposalsAssumption DEF WellFormed
<1>3. job[t].op = "accept" => HoldsForUpdate(t, job[t].stated.concept)
  BY DEF HoldsForUpdate
<1> QED BY <1>2, <1>3 DEF IInv, LockInv

(* The unique index: the inserter is alone at the end of its chain.        *)
LEMMA InsertKeeps ==
  ASSUME IInv, NEW t \in Curators, Insert(t)
  PROVE  IInv'
<1>1. pc[t] = "insert" /\ UniqueBlockers(t) = {}
  BY DEF Insert
<1>2. CASE job[t].base # None /\ Superseded(rows, job[t].base)
  BY <1>2, CuratorRollback DEF Insert
<1>3. CASE ~ (job[t].base # None /\ Superseded(rows, job[t].base))
  <2>1. Go(t, "fk", job[t])
    BY <1>3 DEF Insert
  <2>2. LocalsOK("insert", job[t]) /\ job[t] \in Job
    BY <1>1 DEF IInv, JobInv, LocalsOK
  <2>3. LocalsOK("fk", job[t])
    BY <2>2 DEF LocalsOK, Prepared
  <2>4. \A u \in Curators \ {t} :
          job[t].base # None /\ pc[u] \in {"fk", "commit"} => job[u].base # job[t].base
    BY <1>1 DEF UniqueBlockers, HoldsSupersedes
  <2>5. EntryOK(t, "fk", job[t])
    BY <1>1, <1>3, <2>4, StillLocked DEF EntryOK, IInv, ClearedInv
  <2> QED BY <2>1, <2>2, <2>3, <2>5, CuratorMove DEF CuratorSteps
<1> QED BY <1>2, <1>3

(* The foreign keys: the metric exists and nobody is deleting it.          *)
LEMMA CheckForeignKeysKeeps ==
  ASSUME IInv, NEW t \in Curators, CheckForeignKeys(t)
  PROVE  IInv'
<1>1. pc[t] = "fk" /\ ForeignKeyBlockers(t) = {}
  BY DEF CheckForeignKeys
<1>2. CASE mirror[job[t].stated.metric] = None
  BY <1>2, CuratorRollback DEF CheckForeignKeys
<1>3. CASE mirror[job[t].stated.metric] # None
  <2>1. Go(t, "commit", job[t])
    BY <1>3 DEF CheckForeignKeys
  <2>2. LocalsOK("fk", job[t]) /\ job[t] \in Job
    BY <1>1 DEF IInv, JobInv, LocalsOK
  <2>3. LocalsOK("commit", job[t])
    BY <2>2 DEF LocalsOK, Prepared
  <2>4. \A s \in Syncers : ~ Deletes(s, job[t].stated.metric)
    BY <1>1 DEF ForeignKeyBlockers
  <2>5. EntryOK(t, "commit", job[t])
    BY <1>1, <1>3, <2>4, StillLocked DEF EntryOK, IInv, ClearedInv, IndexInv
  <2> QED BY <2>1, <2>2, <2>3, <2>5, CuratorMove DEF CuratorSteps
<1> QED BY <1>2, <1>3

-----------------------------------------------------------------------------
(* The commit of a curator's row.                                          *)

(* What a commit does to the ledger: one unused id is filled with a row    *)
(* that roots or extends a chain.                                          *)
Written1(n, row) ==
  /\ n \in Ids /\ rows[n] = NoRow
  /\ rows' = [rows EXCEPT ![n] = row]

(* Adding a row leaves the others in place, and puts at most itself in     *)
(* force.                                                                  *)
LEMMA AddingARow ==
  ASSUME TypeOK, NEW n, NEW row \in Row, Written1(n, row)
  PROVE  /\ rows' \in [Ids -> Row \union {NoRow}]
         /\ rows'[n] = row
         /\ \A i \in Written(rows) : i # n /\ i \in Written(rows') /\ rows'[i] = rows[i]
         /\ \A i \in Written(rows') : i = n \/ i \in Written(rows)
         /\ \A i \in Written(rows') : i # n => rows'[i] = rows[i]
         /\ \A i \in Current(rows') : i = n \/ i \in Current(rows)
         /\ \A i \in InForce(rows') :
              \/ i = n /\ row.status = "accepted" /\ row.claim.stated.relation = "exact"
              \/ i \in InForce(rows) /\ i # n
<1>1. rows' \in [Ids -> Row \union {NoRow}] /\ rows'[n] = row
      /\ \A i \in Ids : i # n => rows'[i] = rows[i]
  BY DEF Written1, TypeOK
<1>2. /\ \A i \in Written(rows) : i # n /\ i \in Written(rows') /\ rows'[i] = rows[i]
      /\ \A i \in Written(rows') : i = n \/ i \in Written(rows)
      /\ \A i \in Written(rows') : i # n => rows'[i] = rows[i]
  BY <1>1 DEF Written1, Written
<1>3. \A i \in Current(rows') : i = n \/ i \in Current(rows)
  BY <1>2 DEF Current, Superseded
<1>4. \A i \in InForce(rows') :
        \/ i = n /\ row.status = "accepted" /\ row.claim.stated.relation = "exact"
        \/ i \in InForce(rows) /\ i # n
  BY <1>1, <1>2, <1>3 DEF InForce, Current
<1> QED BY <1>1, <1>2, <1>3, <1>4

(* A transaction that reaches its commit writes a well-formed row.         *)
LEMMA CommittedRow ==
  ASSUME IInv, NEW t \in Curators, Commit(t)
  PROVE  LET claim == [stated |-> job[t].stated, hash |-> job[t].hash]
             row   == [supersedes |-> job[t].base, claim |-> claim,
                       status |-> Decision[job[t].op]]
         IN  /\ row \in Row
             /\ Written1(NextId, row)
             /\ job[t].base = None => row.status = "candidate"
             /\ job[t].base # None =>
                  /\ job[t].base \in Current(rows)
                  /\ rows[job[t].base].claim = claim
                  /\ MayFollow(rows[job[t].base].status, row.status)
<1> DEFINE claim == [stated |-> job[t].stated, hash |-> job[t].hash]
           row   == [supersedes |-> job[t].base, claim |-> claim,
                     status |-> Decision[job[t].op]]
<1>1. pc[t] = "commit" /\ Unused # {} /\ rows' = [rows EXCEPT ![NextId] = row]
  BY DEF Commit
<1>2. LocalsOK("commit", job[t]) /\ job[t] \in Job
  BY <1>1 DEF IInv, JobInv, LocalsOK
<1>3. job[t].stated \in Proposals /\ job[t].hash \in Hashes
  BY <1>2 DEF LocalsOK, Prepared
<1>4. job[t].op \in {"propose", "accept", "reject"} /\ job[t].base \in Ids \union {None}
  BY <1>2 DEF Job
<1>5. Decision[job[t].op] \in Statuses
  BY <1>4 DEF Decision, Statuses
<1>6. row \in Row
  BY <1>3, <1>4, <1>5 DEF Row, Claim
<1>7. Written1(NextId, row)
  BY <1>1 DEF Written1, NextId, Unused
<1>8. job[t].base = None => row.status = "candidate"
  <2>1. job[t].base = None => job[t].op = "propose"
    BY <1>2, IdsAssumption DEF LocalsOK, Prepared, Written
  <2> QED BY <2>1 DEF Decision
<1>9. job[t].base # None =>
        /\ job[t].base \in Current(rows)
        /\ rows[job[t].base].claim = claim
        /\ MayFollow(rows[job[t].base].status, row.status)
  <2>1. job[t].base # None => ~ Superseded(rows, job[t].base)
    BY <1>1 DEF IInv, IndexInv
  <2> QED BY <1>2, <2>1 DEF LocalsOK, Prepared, Current
<1> QED BY <1>6, <1>7, <1>8, <1>9

(* The commit of a curator keeps every part of the invariant.              *)
LEMMA CommitKeeps ==
  ASSUME IInv, NEW t \in Curators, Commit(t)
  PROVE  IInv'
<1> DEFINE claim == [stated |-> job[t].stated, hash |-> job[t].hash]
           row   == [supersedes |-> job[t].base, claim |-> claim,
                     status |-> Decision[job[t].op]]
           n     == NextId
<1>1. /\ row \in Row
      /\ Written1(n, row)
      /\ job[t].base = None => row.status = "candidate"
      /\ job[t].base # None =>
           /\ job[t].base \in Current(rows)
           /\ rows[job[t].base].claim = claim
           /\ MayFollow(rows[job[t].base].status, row.status)
  BY CommittedRow
<1>2. /\ pc[t] = "commit"
      /\ pc' = [pc EXCEPT ![t] = "idle"] /\ job' = [job EXCEPT ![t] = None]
      /\ yaml' = yaml /\ mirror' = mirror /\ spc' = spc /\ sjob' = sjob
  BY DEF Commit, syncerVars
<1>3. /\ pc'[t] = "idle" /\ job'[t] = None
      /\ \A u \in Curators : u # t => pc'[u] = pc[u] /\ job'[u] = job[u]
  BY <1>2 DEF IInv, TypeOK
<1>4. /\ rows' \in [Ids -> Row \union {NoRow}]
      /\ rows'[n] = row
      /\ \A i \in Written(rows) : i # n /\ i \in Written(rows') /\ rows'[i] = rows[i]
      /\ \A i \in Written(rows') : i = n \/ i \in Written(rows)
      /\ \A i \in Written(rows') : i # n => rows'[i] = rows[i]
      /\ \A i \in Current(rows') : i = n \/ i \in Current(rows)
      /\ \A i \in InForce(rows') :
           \/ i = n /\ row.status = "accepted" /\ row.claim.stated.relation = "exact"
           \/ i \in InForce(rows) /\ i # n
  BY <1>1, AddingARow DEF IInv
<1>5. row.status = "accepted" => job[t].op = "accept"
  <2>1. job[t].op \in {"propose", "accept", "reject"}
    BY <1>2 DEF IInv, JobInv, LocalsOK, Job
  <2>2. Decision[job[t].op] = "accepted" => job[t].op = "accept"
    BY <2>1 DEF Decision
  <2> QED BY <2>2
<1>6. TypeOK'
  BY <1>2, <1>4 DEF IInv, TypeOK, CuratorSteps
<1>7. JobInv'
  <2> SUFFICES ASSUME NEW u \in Curators PROVE LocalsOK(pc[u], job[u])'
    BY DEF JobInv
  <2>1. CASE u = t
    BY <1>3, <2>1 DEF LocalsOK, Prepared
  <2>2. CASE u # t
    BY <1>3, <1>4, <2>2 DEF LocalsOK, IInv, JobInv
  <2> QED BY <2>1, <2>2
<1>8. PlanInv'
  BY <1>2 DEF IInv, PlanInv
<1>9. IndexInv'
  <2> SUFFICES ASSUME NEW u \in Curators, pc'[u] \in {"fk", "commit"}, job'[u].base # None
               PROVE  /\ ~ Superseded(rows', job'[u].base)
                      /\ \A v \in Curators : pc'[v] \in {"fk", "commit"} /\ v # u
                                               => job'[v].base # job'[u].base
    BY DEF IndexInv
  <2>1. u # t /\ pc'[u] = pc[u] /\ job'[u] = job[u]
    BY <1>3
  <2>2. job[u].base # job[t].base /\ ~ Superseded(rows, job[u].base)
    BY <1>2, <2>1 DEF IInv, IndexInv
  <2>3. ~ Superseded(rows', job'[u].base)
    BY <1>4, <2>1, <2>2 DEF Superseded
  <2>4. \A v \in Curators : pc'[v] \in {"fk", "commit"} /\ v # u => job'[v].base # job'[u].base
    BY <1>3, <2>1 DEF IInv, IndexInv
  <2> QED BY <2>3, <2>4
<1>10. LockInv'
  BY <1>3 DEF IInv, LockInv, HoldsForUpdate
<1>11. ClearedInv'
  <2> SUFFICES ASSUME NEW u \in Curators,
                      pc'[u] \in {"insert", "fk", "commit"}, job'[u].op = "accept",
                      job'[u].stated.relation = "exact",
                      NEW i \in InForce(rows'),
                      rows'[i].claim.stated.concept = job'[u].stated.concept,
                      scopes_overlap(job'[u].stated, rows'[i].claim.stated)
               PROVE  FALSE
    BY DEF ClearedInv, Collides
  <2>1. u # t /\ pc'[u] = pc[u] /\ job'[u] = job[u]
    BY <1>3
  <2>2. CASE i \in InForce(rows) /\ i # n
    <3>1. rows'[i] = rows[i]
      BY <1>4, <2>2 DEF InForce, Current
    <3> QED BY <2>1, <2>2, <3>1 DEF IInv, ClearedInv, Collides
  <2>3. CASE i = n /\ row.status = "accepted"
    <3>1. job[t].op = "accept" /\ job[t].stated \in Proposals
      BY <1>2, <1>5, <2>3 DEF IInv, JobInv, LocalsOK, Prepared
    <3>2. job[t].stated.concept \in Concepts
      BY <3>1, ProposalsAssumption DEF WellFormed
    <3>3. HoldsForUpdate(t, job[t].stated.concept) /\ HoldsForUpdate(u, job[t].stated.concept)
      BY <1>2, <1>4, <2>1, <2>3, <3>1 DEF HoldsForUpdate
    <3> QED BY <2>1, <3>2, <3>3 DEF IInv, LockInv
  <2> QED BY <1>4, <2>2, <2>3
<1>12. ShareInv'
  BY <1>2, <1>3 DEF IInv, ShareInv
<1>13. DeleteInv'
  <2>1. \A m \in Metrics : m \in Referenced(rows') =>
          m \in Referenced(rows) \/ HoldsMetricShare(t, m)
    BY <1>2, <1>4 DEF Referenced, HoldsMetricShare
  <2> QED BY <1>2, <1>3, <2>1 DEF IInv, DeleteInv, Deletes, Removed, HoldsMetricShare
<1>14. ChainsAreSound'
  <2> SUFFICES ASSUME NEW i \in Written(rows')
               PROVE  LET base == rows'[i].supersedes
                      IN  IF base = None
                          THEN rows'[i].status = "candidate"
                          ELSE /\ base \in Written(rows')
                               /\ rows'[i].claim = rows'[base].claim
                               /\ MayFollow(rows'[base].status, rows'[i].status)
                               /\ \A j \in Written(rows') : rows'[j].supersedes = base => j = i
    BY DEF ChainsAreSound
  <2>1. CASE i = n
    <3>1. CASE job[t].base = None
      BY <1>1, <1>4, <2>1, <3>1
    <3>2. CASE job[t].base # None
      <4>1. job[t].base \in Written(rows) /\ ~ Superseded(rows, job[t].base)
        BY <1>1, <3>2 DEF Current
      <4> QED BY <1>1, <1>4, <2>1, <3>2, <4>1 DEF Superseded
    <3> QED BY <3>1, <3>2
  <2>2. CASE i # n
    <3>1. i \in Written(rows) /\ rows'[i] = rows[i]
      BY <1>4, <2>2
    <3>2. rows[i].supersedes # None => rows[i].supersedes # job[t].base
      BY <1>1, <3>1 DEF Current, Superseded
    <3> QED BY <1>4, <3>1, <3>2 DEF IInv, ChainsAreSound
  <2> QED BY <2>1, <2>2
<1>15. NoCollision'
  <2> SUFFICES ASSUME NEW i \in InForce(rows'), NEW j \in InForce(rows'), i # j,
                      rows'[i].claim.stated.concept = rows'[j].claim.stated.concept,
                      scopes_overlap(rows'[i].claim.stated, rows'[j].claim.stated)
               PROVE  FALSE
    BY DEF NoCollision
  <2>1. row.status = "accepted" => job[t].op = "accept"
    BY <1>5
  <2>2. \A k \in InForce(rows) : k # n /\ rows'[k] = rows[k]
    BY <1>4 DEF InForce, Current
  <2>3. CASE i \in InForce(rows) /\ j \in InForce(rows)
    BY <2>2, <2>3 DEF IInv, NoCollision
  <2>4. CASE i = n /\ j \in InForce(rows)
    BY <1>2, <1>4, <2>1, <2>2, <2>4 DEF IInv, ClearedInv, Collides
  <2>5. CASE j = n /\ i \in InForce(rows)
    BY <1>2, <1>4, <2>1, <2>2, <2>5, OverlapIsSymmetric DEF IInv, ClearedInv, Collides
  <2> QED BY <1>4, <2>3, <2>4, <2>5
<1>16. MetricsStayDefined'
  BY <1>2, <1>4 DEF IInv, MetricsStayDefined, Referenced, ShareInv
<1> QED BY <1>6, <1>7, <1>8, <1>9, <1>10, <1>11, <1>12, <1>13, <1>14, <1>15, <1>16 DEF IInv

-----------------------------------------------------------------------------
(* The sync.                                                               *)

(* Everything a sync does before its commit keeps the invariant: it ends   *)
(* up holding deletions only of metrics that nothing refers to.            *)
LEMMA SyncerStepsKeep ==
  ASSUME IInv, NEW s \in Syncers,
         \/ SyncLoad(s) \/ SyncFetch(s) \/ SyncWrite(s) \/ SyncCheckReferenced(s) \/ SyncDelete(s)
  PROVE  IInv'
<1>1. CASE SyncLoad(s)
  <2> DEFINE plan == [yaml |-> yaml, existing |-> [m \in Metrics |-> None]]
  <2>1. plan \in Plan
    BY DEF IInv, TypeOK, Plan, Definition
  <2>2. SyncGo(s, "fetch", plan)
    BY <1>1 DEF SyncLoad
  <2> QED BY <2>1, <2>2, SyncerMove DEF SyncerSteps
<1>2. CASE SyncFetch(s)
  <2> DEFINE plan == [sjob[s] EXCEPT !.existing = mirror]
  <2>1. sjob[s] \in Plan
    BY <1>2 DEF IInv, PlanInv, SyncFetch
  <2>2. plan \in Plan
    BY <2>1 DEF IInv, TypeOK, Plan
  <2>3. SyncGo(s, "write", plan)
    BY <1>2 DEF SyncFetch
  <2> QED BY <2>2, <2>3, SyncerMove DEF SyncerSteps
<1>3. CASE SyncWrite(s)
  <2> DEFINE plan == [sjob[s] EXCEPT !.existing =
                        [m \in Metrics |-> IF m \in Outdated(s) /\ ~ Finds(s, m)
                                           THEN sjob[s].yaml[m]
                                           ELSE sjob[s].existing[m]]]
             step == IF Removed(s) = {} THEN "commit" ELSE "remove"
  <2>1. CASE SyncRollback(s)
    BY <2>1, SyncerRollback
  <2>2. CASE SyncGo(s, step, plan)
    <3>1. sjob[s] \in Plan
      BY <1>3 DEF IInv, PlanInv, SyncWrite
    <3>2. plan \in Plan /\ plan.yaml = sjob[s].yaml
          /\ \A m \in Metrics : plan.existing[m] =
               (IF m \in Outdated(s) /\ ~ Finds(s, m)
                THEN sjob[s].yaml[m] ELSE sjob[s].existing[m])
      BY <3>1 DEF Plan
    <3>3. \A m \in Metrics : plan.yaml[m] = None /\ plan.existing[m] # None => m \in Removed(s)
      BY <3>2 DEF Removed, Outdated
    <3>4. step = "commit" =>
            \A m \in Metrics : plan.yaml[m] = None /\ plan.existing[m] # None =>
              m \notin Referenced(rows) /\ \A t \in Curators : ~ HoldsMetricShare(t, m)
      BY <3>3
    <3>5. step \in SyncerSteps
      BY DEF SyncerSteps
    <3> HIDE DEF plan, step
    <3> QED BY <2>2, <3>2, <3>4, <3>5, SyncerMove
  <2> QED BY <1>3, <2>1, <2>2 DEF SyncWrite
<1>4. CASE SyncCheckReferenced(s)
  <2>1. CASE SyncRollback(s)
    BY <2>1, SyncerRollback
  <2>2. CASE SyncGo(s, "delete", sjob[s])
    <3>1. sjob[s] \in Plan
      BY <1>4 DEF IInv, PlanInv, SyncCheckReferenced
    <3> QED BY <2>2, <3>1, SyncerMove DEF SyncerSteps
  <2> QED BY <1>4, <2>1, <2>2 DEF SyncCheckReferenced
<1>5. CASE SyncDelete(s)
  <2> DEFINE plan == [sjob[s] EXCEPT !.existing =
                        [m \in Metrics |-> IF m \in Removed(s) /\ ~ Finds(s, m)
                                           THEN None
                                           ELSE sjob[s].existing[m]]]
  <2>1. CASE SyncRollback(s)
    BY <2>1, SyncerRollback
  <2>2. CASE Removed(s) \intersect Referenced(rows) = {} /\ SyncGo(s, "commit", plan)
    <3>1. sjob[s] \in Plan
      BY <1>5 DEF IInv, PlanInv, SyncDelete
    <3>2. plan \in Plan /\ plan.yaml = sjob[s].yaml
          /\ \A m \in Metrics : plan.existing[m] # None => plan.existing[m] = sjob[s].existing[m]
      BY <3>1 DEF Plan, Definition
    <3>3. \A m \in Metrics : plan.yaml[m] = None /\ plan.existing[m] # None => m \in Removed(s)
      BY <3>2 DEF Removed
    <3>4. \A m \in Removed(s), t \in Curators : ~ HoldsMetricShare(t, m)
      BY <1>5 DEF SyncDelete, DeleteBlockers
    <3>5. \A m \in Metrics : plan.yaml[m] = None /\ plan.existing[m] # None =>
            m \notin Referenced(rows) /\ \A t \in Curators : ~ HoldsMetricShare(t, m)
      BY <2>2, <3>3, <3>4
    <3> HIDE DEF plan
    <3> QED BY <2>2, <3>2, <3>5, SyncerMove DEF SyncerSteps
  <2> QED BY <1>5, <2>1, <2>2 DEF SyncDelete
<1> QED BY <1>1, <1>2, <1>3, <1>4, <1>5

(* The commit of a sync never takes a metric away from a row, committed or *)
(* about to be.                                                            *)
LEMMA SyncCommitMirror ==
  ASSUME IInv, NEW s \in Syncers, SyncCommit(s)
  PROVE  /\ mirror' \in [Metrics -> Definition]
         /\ \A m \in Metrics : mirror[m] # None /\ mirror'[m] = None => Deletes(s, m)
<1>1. spc[s] = "commit" /\ sjob[s] \in Plan
  BY DEF IInv, PlanInv, SyncCommit
<1>2. mirror' = [m \in Metrics |-> IF m \in Removed(s) THEN None
                                  ELSE IF m \in Outdated(s) THEN sjob[s].yaml[m]
                                  ELSE mirror[m]]
  BY DEF SyncCommit
<1>3. mirror' \in [Metrics -> Definition]
  BY <1>1, <1>2 DEF IInv, TypeOK, Plan, Definition
<1>4. \A m \in Metrics : mirror[m] # None /\ mirror'[m] = None => m \in Removed(s)
  BY <1>2 DEF Outdated
<1> QED BY <1>1, <1>3, <1>4 DEF Deletes

(* The commit of a sync keeps every part of the invariant.                 *)
LEMMA SyncCommitKeeps ==
  ASSUME IInv, NEW s \in Syncers, SyncCommit(s)
  PROVE  IInv'
<1>1. /\ spc' = [spc EXCEPT ![s] = "idle"] /\ sjob' = [sjob EXCEPT ![s] = None]
      /\ yaml' = yaml /\ rows' = rows /\ pc' = pc /\ job' = job
  BY DEF SyncCommit, curatorVars
<1>2. /\ mirror' \in [Metrics -> Definition]
      /\ \A m \in Metrics : mirror[m] # None /\ mirror'[m] = None => Deletes(s, m)
  BY SyncCommitMirror
<1>3. TypeOK'
  BY <1>1, <1>2 DEF IInv, TypeOK, SyncerSteps
<1>4. JobInv' /\ PlanInv'
  BY <1>1 DEF IInv, TypeOK, JobInv, PlanInv, LocalsOK, Written
<1>5. IndexInv' /\ LockInv' /\ ClearedInv'
  BY <1>1 DEF IInv, IndexInv, LockInv, ClearedInv, HoldsForUpdate, Collides, InForce, Current,
              Superseded, Written
<1>6. ShareInv'
  <2> SUFFICES ASSUME NEW t \in Curators, pc[t] = "commit"
               PROVE  mirror'[job[t].stated.metric] # None
    BY <1>1 DEF ShareInv
  <2>1. job[t].stated \in Proposals
    BY DEF IInv, JobInv, LocalsOK, Prepared
  <2>2. job[t].stated.metric \in Metrics
    BY <2>1, ProposalsAssumption DEF WellFormed
  <2>3. mirror[job[t].stated.metric] # None /\ HoldsMetricShare(t, job[t].stated.metric)
    BY DEF IInv, ShareInv, HoldsMetricShare
  <2> QED BY <1>2, <2>2, <2>3 DEF IInv, DeleteInv
<1>7. DeleteInv'
  BY <1>1 DEF IInv, TypeOK, DeleteInv, Deletes, Removed, HoldsMetricShare, Referenced, Written
<1>8. ChainsAreSound' /\ NoCollision'
  BY <1>1 DEF IInv, ChainsAreSound, NoCollision, InForce, Current, Superseded, Written
<1>9. MetricsStayDefined'
  <2>1. Referenced(rows) \subseteq Metrics
    <3>1. \A i \in Written(rows) : rows[i].claim.stated \in Proposals
      BY DEF IInv, TypeOK, Written, Row, Claim
    <3> QED BY <3>1, ProposalsAssumption DEF Referenced, WellFormed
  <2> QED BY <1>1, <1>2, <2>1 DEF IInv, MetricsStayDefined, DeleteInv, Referenced, Written
<1> QED BY <1>3, <1>4, <1>5, <1>6, <1>7, <1>8, <1>9 DEF IInv

-----------------------------------------------------------------------------
(* The invariant.                                                          *)

(* An empty ledger with nobody at work satisfies it.                       *)
LEMMA InitIInv == Init => IInv
<1> SUFFICES ASSUME Init PROVE IInv
  OBVIOUS
<1>1. Written(rows) = {}
  BY DEF Init, Written, NoRow
<1>2. InForce(rows) = {} /\ Referenced(rows) = {}
  BY <1>1 DEF InForce, Current, Referenced
<1>3. TypeOK
  BY DEF Init, TypeOK, Definition, CuratorSteps, SyncerSteps
<1>4. JobInv /\ PlanInv
  BY DEF Init, JobInv, PlanInv, LocalsOK, Prepared
<1>5. IndexInv /\ LockInv /\ ClearedInv /\ ShareInv /\ DeleteInv
  BY <1>2 DEF Init, IndexInv, LockInv, ClearedInv, ShareInv, DeleteInv, HoldsForUpdate, Deletes
<1>6. ChainsAreSound /\ NoCollision /\ MetricsStayDefined
  BY <1>1, <1>2 DEF ChainsAreSound, NoCollision, MetricsStayDefined
<1> QED BY <1>3, <1>4, <1>5, <1>6 DEF IInv

(* Every step keeps it.                                                    *)
LEMMA NextIInv == IInv /\ [Next]_vars => IInv'
<1> SUFFICES ASSUME IInv, [Next]_vars PROVE IInv'
  OBVIOUS
<1>1. ASSUME NEW t \in Curators, BeginPropose(t) \/ BeginDecision(t) \/ CuratorStep(t) \/ Disconnect(t)
      PROVE  IInv'
  BY <1>1, BeginKeeps, RequireCurrentKeeps, MetricReadsKeep, LockConceptKeeps,
     ConflictCheckKeeps, InsertKeeps, CheckForeignKeysKeeps, CommitKeeps, CuratorRollback
     DEF CuratorStep, Disconnect
<1>2. ASSUME NEW s \in Syncers, SyncLoad(s) \/ SyncerStep(s) \/ SyncDisconnect(s)
      PROVE  IInv'
  BY <1>2, SyncerStepsKeep, SyncCommitKeeps, SyncerRollback DEF SyncerStep, SyncDisconnect
<1>3. CASE EditYaml
  <2>1. /\ yaml' \in [Metrics -> Definition]
        /\ mirror' = mirror /\ rows' = rows /\ pc' = pc /\ job' = job /\ spc' = spc /\ sjob' = sjob
    BY <1>3 DEF EditYaml, curatorVars, syncerVars, IInv, TypeOK
  <2> QED BY <2>1 DEF IInv, TypeOK, JobInv, LocalsOK, PlanInv, IndexInv, LockInv, ClearedInv, ShareInv,
       DeleteInv, ChainsAreSound, NoCollision, MetricsStayDefined, HoldsForUpdate, Deletes,
       Removed, HoldsMetricShare, Collides, InForce, Current, Superseded, Written, Referenced
<1>4. CASE BreakDeadlock
  <2>1. \E t \in Curators \union Syncers :
          IF t \in Curators THEN Rollback(t) ELSE SyncRollback(t)
    BY <1>4 DEF BreakDeadlock
  <2> QED BY <2>1, CuratorRollback, SyncerRollback
<1>5. CASE UNCHANGED vars
  <2>1. /\ yaml' = yaml /\ mirror' = mirror /\ rows' = rows
        /\ pc' = pc /\ job' = job /\ spc' = spc /\ sjob' = sjob
    BY <1>5 DEF vars, curatorVars, syncerVars
  <2> QED BY <2>1 DEF IInv, TypeOK, JobInv, LocalsOK, PlanInv, IndexInv, LockInv, ClearedInv, ShareInv,
       DeleteInv, ChainsAreSound, NoCollision, MetricsStayDefined, HoldsForUpdate, Deletes,
       Removed, HoldsMetricShare, Collides, InForce, Current, Superseded, Written, Referenced
<1> QED BY <1>1, <1>2, <1>3, <1>4, <1>5 DEF Next

(* The invariant holds in every state of every execution.                  *)
LEMMA Invariance == Spec => []IInv
  BY InitIInv, NextIInv, PTL DEF Spec

-----------------------------------------------------------------------------
(* Theorems.                                                               *)

(* The variables of the ledger keep their types.                           *)
THEOREM TypeCorrect == Spec => []TypeOK
<1>1. IInv => TypeOK
  BY DEF IInv
<1> QED BY <1>1, Invariance, PTL

(* However proposals, acceptances, rejections and syncs interleave, no     *)
(* fact is ever covered by two current accepted exact mappings.            *)
THEOREM LedgerIsUnambiguous == Spec => []NoAmbiguity
<1>1. IInv => NoAmbiguity
  <2> SUFFICES ASSUME IInv, NEW i \in InForce(rows), NEW j \in InForce(rows),
                      rows[i].claim.stated.concept = rows[j].claim.stated.concept, i # j,
                      NEW issuer \in Issuers, NEW d \in Dates \union {None},
                      AppliesTo(rows[i].claim.stated, issuer, d),
                      AppliesTo(rows[j].claim.stated, issuer, d)
               PROVE  FALSE
    BY DEF NoAmbiguity
  <2>1. rows[i] \in Row /\ rows[j] \in Row
    BY DEF IInv, TypeOK, InForce, Current, Written
  <2>2. rows[i].claim.stated \in WellFormed /\ rows[j].claim.stated \in WellFormed
    BY <2>1, ProposalsAssumption DEF Row, Claim
  <2>3. scopes_overlap(rows[i].claim.stated, rows[j].claim.stated)
    BY <2>2, ApplyingScopesOverlap
  <2> QED BY <2>3 DEF IInv, NoCollision
<1> QED BY <1>1, Invariance, PTL

(* Revision chains never branch, keep their claim and follow the status    *)
(* order, although currency is checked before the row is inserted.         *)
THEOREM ChainsStaySound == Spec => []ChainsAreSound
<1>1. IInv => ChainsAreSound
  BY DEF IInv
<1> QED BY <1>1, Invariance, PTL

(* Sync never removes a metric that a committed assertion refers to.       *)
THEOREM MetricsNeverVanish == Spec => []MetricsStayDefined
<1>1. IInv => MetricsStayDefined
  BY DEF IInv
<1> QED BY <1>1, Invariance, PTL

(* The instance of the contract speaks of this module's own ledger: its    *)
(* steps are the ones that the definitions taken from LedgerContract name. *)
LEMMA SameContract ==
  /\ Contract!ContractInit <=> ContractInit
  /\ Contract!ContractNext <=> ContractNext
<1>1. \A p, q : Contract!scopes_overlap(p, q) <=> scopes_overlap(p, q)
  BY DEF Contract!scopes_overlap, scopes_overlap, Contract!intervals_overlap, intervals_overlap
<1>2. Contract!Propose <=> Propose
  BY DEF Contract!Propose, Propose, Contract!Claim, Claim, Contract!NoRow, NoRow
<1>3. \A c : Contract!Collides(rows, c) <=> Collides(rows, c)
  BY <1>1 DEF Contract!Collides, Collides, Contract!InForce, InForce, Contract!Current, Current,
     Contract!Superseded, Superseded, Contract!Written, Written, Contract!NoRow, NoRow
<1>4. Contract!Current(rows) = Current(rows)
  BY DEF Contract!Current, Current, Contract!Superseded, Superseded, Contract!Written, Written,
     Contract!NoRow, NoRow
<1>5. Contract!Decide <=> Decide
  BY <1>3, <1>4 DEF Contract!Decide, Decide, Contract!MayFollow, MayFollow, Contract!NoRow, NoRow
<1>6. Contract!Mirror <=> Mirror
  BY DEF Contract!Mirror, Mirror, Contract!Referenced, Referenced, Contract!Written, Written,
     Contract!NoRow, NoRow
<1>7. Contract!ContractInit <=> ContractInit
  BY DEF Contract!ContractInit, ContractInit, Contract!NoRow, NoRow
<1> QED BY <1>2, <1>5, <1>6, <1>7 DEF Contract!ContractNext, ContractNext

(* The interleaved transactions implement LedgerContract: at its commit a  *)
(* command has the effect it would have alone.                             *)
THEOREM LedgerRefinesContract == Spec => RefinesContract
<1>1. Init => ContractInit
  BY DEF Init, ContractInit, Definition
<1>2. IInv /\ [Next]_vars => [ContractNext]_<<rows, mirror>>
  <2> SUFFICES ASSUME IInv, [Next]_vars
               PROVE  ContractNext \/ (rows' = rows /\ mirror' = mirror)
    OBVIOUS
  <2>1. ASSUME NEW t \in Curators, Commit(t)
        PROVE  ContractNext
    <3> DEFINE claim == [stated |-> job[t].stated, hash |-> job[t].hash]
               row   == [supersedes |-> job[t].base, claim |-> claim,
                         status |-> Decision[job[t].op]]
    <3>1. /\ row \in Row
          /\ Written1(NextId, row)
          /\ job[t].base = None => row.status = "candidate"
          /\ job[t].base # None =>
               /\ job[t].base \in Current(rows)
               /\ rows[job[t].base].claim = claim
               /\ MayFollow(rows[job[t].base].status, row.status)
      BY <2>1, CommittedRow
    <3>2. pc[t] = "commit" /\ mirror' = mirror
      BY <2>1 DEF Commit
    <3>3. CASE job[t].base = None
      <4>1. claim \in Claim
        BY <3>1 DEF Row
      <4>2. mirror[claim.stated.metric] # None
        BY <3>2 DEF IInv, ShareInv
      <4>3. row = [supersedes |-> None, claim |-> claim, status |-> "candidate"]
        BY <3>1, <3>3
      <4> QED BY <3>1, <3>2, <4>1, <4>2, <4>3 DEF ContractNext, Propose, Written1
    <3>4. CASE job[t].base # None
      <4>1. row.status \in {"accepted", "rejected"}
        BY <3>1, <3>4 DEF MayFollow
      <4>2. row.status = "accepted" => job[t].op = "accept"
        <5>1. job[t].op \in {"propose", "accept", "reject"}
          BY <3>2 DEF IInv, JobInv, LocalsOK, Job
        <5>2. Decision[job[t].op] = "accepted" => job[t].op = "accept"
          BY <5>1 DEF Decision
        <5> QED BY <5>2
      <4>3. row.status = "accepted" /\ claim.stated.relation = "exact" => ~ Collides(rows, claim)
        BY <3>2, <4>2 DEF IInv, ClearedInv
      <4>4. row = [supersedes |-> job[t].base, claim |-> rows[job[t].base].claim,
                   status |-> row.status]
        BY <3>1, <3>4
      <4> QED BY <3>1, <3>2, <3>4, <4>1, <4>3, <4>4 DEF ContractNext, Decide, Written1
    <3> QED BY <3>3, <3>4
  <2>2. ASSUME NEW s \in Syncers, SyncCommit(s)
        PROVE  ContractNext
    <3>1. rows' = rows
      BY <2>2 DEF SyncCommit
    <3>2. IInv' /\ mirror' \in [Metrics -> Definition]
      BY <2>2, SyncCommitKeeps, SyncCommitMirror
    <3>3. \A m \in Referenced(rows) : mirror'[m] # None
      BY <3>1, <3>2 DEF IInv, MetricsStayDefined, Referenced, Written
    <3> QED BY <3>1, <3>2, <3>3 DEF ContractNext, Mirror, Definition
  <2>3. ASSUME NEW t \in Curators,
               \/ BeginPropose(t) \/ BeginDecision(t) \/ RequireCurrent(t) \/ LoadYaml(t)
               \/ MatchMirror(t) \/ LockConcept(t) \/ ConflictCheck(t) \/ Insert(t)
               \/ CheckForeignKeys(t) \/ Rollback(t)
        PROVE  rows' = rows /\ mirror' = mirror
    BY <2>3 DEF BeginPropose, BeginDecision, RequireCurrent, LoadYaml, MatchMirror, LockConcept,
       ConflictCheck, Insert, CheckForeignKeys, Rollback, Go
  <2>4. ASSUME NEW s \in Syncers,
               \/ SyncLoad(s) \/ SyncFetch(s) \/ SyncWrite(s) \/ SyncCheckReferenced(s)
               \/ SyncDelete(s) \/ SyncRollback(s)
        PROVE  rows' = rows /\ mirror' = mirror
    BY <2>4 DEF SyncLoad, SyncFetch, SyncWrite, SyncCheckReferenced, SyncDelete, SyncRollback, SyncGo
  <2>5. CASE EditYaml \/ UNCHANGED vars
    BY <2>5 DEF EditYaml, vars
  <2>6. CASE BreakDeadlock
    <3>1. \E t \in Curators \union Syncers :
            IF t \in Curators THEN Rollback(t) ELSE SyncRollback(t)
      BY <2>6 DEF BreakDeadlock
    <3> QED BY <3>1, <2>3, <2>4
  <2> QED BY <2>1, <2>2, <2>3, <2>4, <2>5, <2>6
          DEF Next, CuratorStep, SyncerStep, Disconnect, SyncDisconnect
<1> QED BY <1>1, <1>2, SameContract, Invariance, PTL
        DEF Spec, RefinesContract, Contract!ContractSpec

=============================================================================
