-------------------------- MODULE AcquisitionProofs --------------------------
(***************************************************************************)
(* Proofs about the acquisition of a filing, for every filing that SEC may *)
(* serve, every budget and every number of attempts.                       *)
(*                                                                         *)
(* Nearly every step of _acquire_body either goes on to a later step or    *)
(* raises.  What the record of the attempt needs is the same of all those  *)
(* steps (BodyStep), and is shown once for the relation (AttemptInv).  On  *)
(* top of it stand three invariants, each about one thing: the documents   *)
(* of the report (InputInv), the bytes (PayloadInv with ExcuseInv) and the *)
(* files that have been found (FoundInv).                                  *)
(***************************************************************************)
EXTENDS Acquisition, SumProofs, SequenceTheorems

FatalCodes(s) == { s[i].code : i \in { j \in DOMAIN s : s[j].severity = "fatal" } }

SafeguardCodes == { SafeguardCode(s) : s \in Safeguards }

(* The fatal issues fit the exception. *)
Explains(s, e) ==
  IF e \in Safeguards THEN FatalCodes(s) = {SafeguardCode(e)}
  ELSE FatalCodes(s) \intersect SafeguardCodes = {}

Outside == {"idle", "metadata", "recording"}
Working == Steps \ Outside

TypeInv ==
  /\ site \in Sites /\ step \in Steps
  /\ position \in 1 .. Len(site.listing) + 1
  /\ payload = [p \in DOMAIN payload |-> site.size[p]] /\ DOMAIN payload \subseteq DOMAIN site.size
  /\ issues \in Seq(Issues)
  /\ input \in Seq(Names) /\ bound \subseteq Names
  /\ error \in Exceptions \union {None}
  /\ traces \subseteq Nat \X (Paths \union {"submissions"})
  /\ records \in Seq(Attempts \union {None})
  /\ outcomes \in Seq({"returned", "raised", "unrecorded", "died"})
  /\ Len(records) = Len(outcomes) + (IF step = "idle" THEN 0 ELSE 1)
  /\ published \subseteq Bundles
  /\ step \in Working \/ (step = "recording" /\ error = None) => meta.primary \in Names

(* The attempt under way. *)
RunInv ==
  /\ step # "recording" => error = None /\ FatalCodes(issues) = {}
  /\ step = "recording" => Explains(issues, error)
  /\ step = "recording" /\ error = None => TheBundle \in published /\ FatalCodes(issues) = {}
  /\ step # "idle" => records[Len(records)] = None /\ \A t \in traces : t[1] = Len(records)
  /\ step \notin {"idle", "metadata"} => traces # {}

RecordInv == AttemptsAreRecorded /\ SafeguardsStayTyped

AttemptInv == TypeInv /\ RunInv /\ RecordInv

-----------------------------------------------------------------------------
(* Issues.                                                                 *)

(* Nothing fatal. *)
LEMMA NoneFatal == \A s : AnyFatal(s) <=> FatalCodes(s) # {}
  BY DEF AnyFatal, FatalCodes

(* The issues that are raised have their types. *)
LEMMA IssueTypes ==
  ASSUME NEW c \in Safeguards \union OtherCodes
  PROVE  /\ Fatal(c) \in Issues /\ Fatal(c).severity = "fatal" /\ Fatal(c).code = c
         /\ Warning(c) \in Issues /\ Warning(c).severity = "warning"
  BY DEF Fatal, Warning, Issues

(* The fatal codes of one issue more. *)
LEMMA CodesAppend ==
  ASSUME NEW s \in Seq(Issues), NEW x \in Issues
  PROVE  /\ Append(s, x) \in Seq(Issues)
         /\ x.severity = "fatal" => FatalCodes(Append(s, x)) = FatalCodes(s) \union {x.code}
         /\ x.severity # "fatal" => FatalCodes(Append(s, x)) = FatalCodes(s)
  <1>. DEFINE r == Append(s, x)
  <1>1. /\ r \in Seq(Issues) /\ Len(s) \in Nat /\ DOMAIN s = 1 .. Len(s)
        /\ DOMAIN r = DOMAIN s \union {Len(s) + 1} /\ r[Len(s) + 1] = x
        /\ \A i \in DOMAIN s : r[i] = s[i] /\ i # Len(s) + 1
    OBVIOUS
  <1>. HIDE DEF r
  <1>2. x.severity = "fatal" => FatalCodes(r) = FatalCodes(s) \union {x.code}
    BY <1>1 DEF FatalCodes
  <1>3. x.severity # "fatal" => FatalCodes(r) = FatalCodes(s)
    BY <1>1 DEF FatalCodes
  <1>. QED  BY <1>1, <1>2, <1>3 DEF r

(* The fatal codes of two lists. *)
LEMMA CodesConcat ==
  ASSUME NEW s \in Seq(Issues), NEW t \in Seq(Issues)
  PROVE  s \o t \in Seq(Issues) /\ FatalCodes(s \o t) = FatalCodes(s) \union FatalCodes(t)
  <1>. DEFINE r == s \o t
  <1>1. /\ r \in Seq(Issues) /\ Len(s) \in Nat /\ Len(t) \in Nat /\ Len(r) = Len(s) + Len(t)
        /\ DOMAIN s = 1 .. Len(s) /\ DOMAIN t = 1 .. Len(t) /\ DOMAIN r = 1 .. Len(r)
        /\ \A i \in DOMAIN s : i \in DOMAIN r /\ r[i] = s[i]
        /\ \A i \in DOMAIN t : Len(s) + i \in DOMAIN r /\ r[Len(s) + i] = t[i]
    OBVIOUS
  <1>. HIDE DEF r
  <1>2. ASSUME NEW i \in DOMAIN r PROVE i \in DOMAIN s \/ \E j \in DOMAIN t : i = Len(s) + j
    <2>1. CASE i <= Len(s)
      BY <1>1, <2>1
    <2>2. CASE i > Len(s)
      <3>1. i - Len(s) \in DOMAIN t /\ i = Len(s) + (i - Len(s))
        BY <1>1, <2>2
      <3>. QED  BY <3>1
    <2>. QED  BY <1>1, <2>1, <2>2
  <1>3. FatalCodes(s) \subseteq FatalCodes(r)
    BY <1>1 DEF FatalCodes
  <1>4. FatalCodes(t) \subseteq FatalCodes(r)
    <2>. SUFFICES ASSUME NEW j \in DOMAIN t, t[j].severity = "fatal" PROVE t[j].code \in FatalCodes(r)
      BY DEF FatalCodes
    <2>1. Len(s) + j \in DOMAIN r /\ r[Len(s) + j] = t[j]
      BY <1>1
    <2>. QED  BY <2>1 DEF FatalCodes
  <1>5. FatalCodes(r) \subseteq FatalCodes(s) \union FatalCodes(t)
    <2>. SUFFICES ASSUME NEW i \in DOMAIN r, r[i].severity = "fatal"
                  PROVE  r[i].code \in FatalCodes(s) \union FatalCodes(t)
      BY DEF FatalCodes
    <2>1. CASE i \in DOMAIN s
      BY <1>1, <2>1 DEF FatalCodes
    <2>2. CASE \E j \in DOMAIN t : i = Len(s) + j
      <3>1. PICK j \in DOMAIN t : i = Len(s) + j
        BY <2>2
      <3>2. r[i] = t[j]
        BY <1>1, <3>1
      <3>. QED  BY <3>1, <3>2 DEF FatalCodes
    <2>. QED  BY <1>2, <2>1, <2>2
  <1>. QED  BY <1>1, <1>3, <1>4, <1>5 DEF r

(* An issue for each of n files. *)
LEMMA CodesReport ==
  ASSUME NEW n \in Nat, NEW x \in Issues
  PROVE  LET s == [i \in 1 .. n |-> x]
         IN  /\ s \in Seq(Issues)
             /\ x.severity = "fatal" /\ n # 0 => FatalCodes(s) = {x.code}
             /\ x.severity # "fatal" \/ n = 0 => FatalCodes(s) = {}
  <1>. DEFINE s == [i \in 1 .. n |-> x]
  <1>1. s \in Seq(Issues)
    OBVIOUS
  <1>2. DOMAIN s = 1 .. n /\ \A i \in 1 .. n : s[i] = x
    OBVIOUS
  <1>. HIDE DEF s
  <1>3. n # 0 => 1 \in 1 .. n
    OBVIOUS
  <1>4. n = 0 => 1 .. n = {}
    OBVIOUS
  <1>. QED  BY <1>1, <1>2, <1>3, <1>4 DEF FatalCodes, s

(* The codes of the safeguards are their own. *)
LEMMA Codes ==
  /\ \A e \in Safeguards : SafeguardCode(e) \in SafeguardCodes /\ SafeguardCode(e) \in Safeguards
  /\ SafeguardCodes \intersect OtherCodes = {}
  <1>1. ASSUME NEW e \in Safeguards PROVE SafeguardCode(e) \in Safeguards
    BY DEF SafeguardCode, Safeguards, ResourceLimits
  <1>2. Safeguards \intersect OtherCodes = {}
    BY DEF OtherCodes, Safeguards, ResourceLimits
  <1>. QED  BY <1>1, <1>2 DEF SafeguardCodes

-----------------------------------------------------------------------------
(* Sequences, sets of numbers and payloads.                                *)

(* A set of naturals has a least element. *)
LEMMA LeastNat ==
  ASSUME NEW S \in SUBSET Nat, S # {}
  PROVE  Min(S) \in S /\ \A y \in S : Min(S) <= y
  <1>1. PICK n \in S : \A m \in S : ~ (<<m, n>> \in OpToRel(<, Nat))
    BY WFMin, NatLessThanWellFounded
  <1>2. \A m \in S : ~ (m < n)
    BY <1>1 DEF OpToRel
  <1>3. \A m \in S : n <= m
    BY <1>2
  <1>. QED  BY <1>1, <1>3 DEF Min

(* The last number of an interval. *)
LEMMA LastOfInterval ==
  ASSUME NEW n \in Nat \ {0}
  PROVE  Max(1 .. n) = n
  <1>1. n \in 1 .. n /\ \A y \in 1 .. n : n >= y
    OBVIOUS
  <1>2. Max(1 .. n) \in 1 .. n /\ \A y \in 1 .. n : Max(1 .. n) >= y
    BY <1>1 DEF Max
  <1>. QED  BY <1>1, <1>2

(* The last block that is read is one of the blocks. *)
LEMMA BlocksAreRead ==
  ASSUME site \in Sites
  PROVE  Max(BlocksRead) \in DOMAIN site.blocks /\ BlocksRead \subseteq DOMAIN site.blocks
  <1>. DEFINE listing == { i \in DOMAIN site.blocks : site.blocks[i] # None }
              last    == IF listing = {} THEN Len(site.blocks) ELSE Min(listing)
  <1>1. Len(site.blocks) \in Nat /\ DOMAIN site.blocks = 1 .. Len(site.blocks) /\ site.blocks # <<>>
    BY SitesAssumption DEF IsSequence
  <1>2. last \in Nat \ {0} /\ last <= Len(site.blocks)
    <2>1. CASE listing = {}
      <3>1. Len(site.blocks) # 0
        BY <1>1
      <3>. QED  BY <1>1, <2>1, <3>1
    <2>2. CASE listing # {}
      <3>1. listing \in SUBSET Nat
        BY <1>1
      <3>2. Min(listing) \in listing
        BY <2>2, <3>1, LeastNat
      <3>. QED  BY <1>1, <2>2, <3>2
    <2>. QED  BY <2>1, <2>2
  <1>3. BlocksRead = 1 .. last
    BY DEF BlocksRead
  <1>. HIDE DEF last
  <1>. QED  BY <1>1, <1>2, <1>3, LastOfInterval

(* Storing a file of the site. *)
Sized(p) == p = [q \in DOMAIN p |-> site.size[q]] /\ DOMAIN p \subseteq DOMAIN site.size

(* WithMember stores the file with its size. *)
LEMMA MemberIsSized ==
  ASSUME Sized(payload), NEW path \in DOMAIN site.size
  PROVE  /\ Sized(WithMember(path, site.size[path]))
         /\ DOMAIN WithMember(path, site.size[path]) = DOMAIN payload \union {path}
  BY DEF Sized, WithMember

-----------------------------------------------------------------------------
(* A step of _acquire_body, for the record of the attempt.                 *)

Failed ==
  /\ step' = "recording" /\ error' \in Exceptions
  /\ issues' \in Seq(Issues) /\ Explains(issues', error')

Onward ==
  /\ step' \in Working /\ error' = None
  /\ issues' \in Seq(Issues) /\ FatalCodes(issues') = {}
  /\ meta'.primary \in Names

Traced(path) == traces' = traces \union {<<Len(records), path>>}

BodyStep ==
  /\ UNCHANGED <<site, records, outcomes, published>>
  /\ position' \in 1 .. Len(site.listing) + 1
  /\ payload' = [p \in DOMAIN payload' |-> site.size[p]] /\ DOMAIN payload' \subseteq DOMAIN site.size
  /\ input' \in Seq(Names) /\ bound' \subseteq Names
  /\ \/ UNCHANGED traces /\ step # "metadata"
     \/ \E path \in Paths \union {"submissions"} : Traced(path)
  /\ Failed \/ Onward

(* The handler of acquire reports the safeguard, unless something fatal    *)
(* has already been reported.                                              *)
LEMMA RaiseReports ==
  ASSUME NEW e \in Exceptions, NEW s \in Seq(Issues), RaiseWith(e, s),
         FatalCodes(s) = {} \/ Explains(s, e)
  PROVE  Failed
  <1>1. step' = "recording" /\ error' = e
    BY DEF RaiseWith
  <1>2. CASE e \in Safeguards /\ ~ AnyFatal(s)
    <2>1. SafeguardCode(e) \in Safeguards /\ FatalCodes(s) = {}
      BY <1>2, Codes, NoneFatal
    <2>2. issues' = Append(s, Fatal(SafeguardCode(e)))
      BY <1>2 DEF RaiseWith
    <2>3. PICK c \in Safeguards : c = SafeguardCode(e)
      BY <2>1
    <2>4. PICK x \in Issues : x = Fatal(c) /\ x.severity = "fatal" /\ x.code = c
      BY IssueTypes
    <2>5. issues' \in Seq(Issues) /\ FatalCodes(issues') = {SafeguardCode(e)}
      BY <2>1, <2>2, <2>3, <2>4, CodesAppend
    <2>. QED  BY <1>1, <1>2, <2>5 DEF Failed, Explains
  <1>3. CASE ~ (e \in Safeguards /\ ~ AnyFatal(s))
    <2>1. issues' = s
      BY <1>3 DEF RaiseWith
    <2>2. Explains(s, e)
      BY <1>3, NoneFatal DEF Explains
    <2>. QED  BY <1>1, <2>1, <2>2 DEF Failed
  <1>. QED  BY <1>2, <1>3

(* One fatal issue that is no safeguard explains a failure that is none. *)
LEMMA OtherExplains ==
  ASSUME NEW s \in Seq(Issues), FatalCodes(s) \subseteq OtherCodes, NEW e \in Exceptions \ Safeguards
  PROVE  Explains(s, e)
  BY Codes DEF Explains

(* A step of the body keeps what the records need. *)
LEMMA BodyKeeps ==
  ASSUME AttemptInv, step \notin {"idle", "recording"}, BodyStep
  PROVE  AttemptInv'
  <1>1. UNCHANGED <<site, records, outcomes, published>> /\ step' # "idle" /\ step' # "metadata"
        /\ step' \in Steps
    BY DEF BodyStep, Failed, Onward, Working, Outside, Steps
  <1>2. traces' # {} /\ \A t \in traces' : t[1] = Len(records)
    <2>1. step # "idle"
      OBVIOUS
    <2>2. \A t \in traces : t[1] = Len(records)
      BY <2>1 DEF RunInv, AttemptInv
    <2>3. CASE UNCHANGED traces /\ step # "metadata"
      BY <2>1, <2>2, <2>3 DEF RunInv, AttemptInv
    <2>4. CASE \E path \in Paths \union {"submissions"} : Traced(path)
      <3>1. PICK path \in Paths \union {"submissions"} : Traced(path)
        BY <2>4
      <3>2. PICK t : t = <<Len(records), path>>
        OBVIOUS
      <3>3. t[1] = Len(records)
        BY <3>2
      <3>. QED  BY <2>2, <3>1, <3>2, <3>3 DEF Traced
    <2>. QED  BY <2>3, <2>4 DEF BodyStep
  <1>3. RunInv'
    <2>1. CASE Failed
      <3>1. error' # None
        BY <2>1, NoneAssumption DEF Failed
      <3>. QED  BY <1>1, <1>2, <2>1, <3>1 DEF Failed, RunInv, Explains, FatalCodes, AttemptInv
    <2>2. CASE Onward
      <3>1. step' # "recording"
        BY <2>2 DEF Onward, Working, Outside
      <3>. QED  BY <1>1, <1>2, <2>2, <3>1 DEF Onward, RunInv, FatalCodes, AttemptInv
    <2>. QED  BY <2>1, <2>2 DEF BodyStep
  <1>4. AttemptsAreRecorded'
    BY <1>1 DEF AttemptInv, RecordInv, AttemptsAreRecorded, AnyFatal
  <1>5. SafeguardsStayTyped'
    BY <1>1 DEF AttemptInv, RecordInv, SafeguardsStayTyped, ToSet
  <1>6. TypeInv'
    <2>. USE DEF AttemptInv
    <2>1. Len(records) \in Nat
      BY DEF TypeInv
    <2>2. traces' \subseteq Nat \X (Paths \union {"submissions"})
      BY <2>1 DEF BodyStep, Traced, TypeInv
    <2>3. /\ error' \in Exceptions \union {None} /\ issues' \in Seq(Issues)
          /\ step' \in Working \/ (step' = "recording" /\ error' = None) => meta'.primary \in Names
      <3>1. CASE Failed
        BY <3>1, NoneAssumption DEF Failed, Working, Outside
      <3>2. CASE Onward
        BY <3>2 DEF Onward
      <3>. QED  BY <3>1, <3>2 DEF BodyStep
    <2>4. Len(records') = Len(outcomes') + (IF step' = "idle" THEN 0 ELSE 1)
      BY <1>1 DEF TypeInv
    <2>. QED  BY <1>1, <2>2, <2>3, <2>4 DEF BodyStep, TypeInv
  <1>. QED  BY <1>3, <1>4, <1>5, <1>6 DEF RecordInv, AttemptInv

-----------------------------------------------------------------------------
(* The steps up to the directory.                                          *)

(* What a fetch into the payload may come to. *)
LEMMA FetchPutOutcomesTyped ==
  ASSUME NEW size, NEW o \in FetchPutOutcomes(size)
  PROVE  o = "ok" \/ o \in Exceptions
  BY DEF FetchPutOutcomes, FetchOutcomes, LimitReached, Exceptions, Safeguards, ResourceLimits

(* A fetch into the payload goes on or fails. *)
LEMMA FetchPutKeeps ==
  ASSUME AttemptInv, step \in Working, NEW path \in DOMAIN site.size, NEW optional, NEW next \in Working,
         NEW s \in Seq(Issues), FatalCodes(s) \subseteq OtherCodes,
         FetchPut(path, site.size[path], optional, next, s), UNCHANGED <<meta, site>>
  PROVE  /\ \E p \in Paths \union {"submissions"} : Traced(p)
         /\ payload' = [p \in DOMAIN payload' |-> site.size[p]] /\ DOMAIN payload' \subseteq DOMAIN site.size
         /\ Failed \/ Onward
  <1>. USE DEF AttemptInv
  <1>1. path \in Paths /\ Traced(path)
    BY DEF TypeInv, Paths, FetchPut, Observed, Traced
  <1>2. issues \in Seq(Issues) /\ FatalCodes(issues) = {} /\ error = None /\ meta.primary \in Names
        /\ Sized(payload)
    BY DEF TypeInv, RunInv, Working, Outside, Sized
  <1>3. PICK size : size = site.size[path]
    OBVIOUS
  <1>4. PICK o \in FetchPutOutcomes(size) :
       \/ /\ o = "ok"
          /\ payload' = WithMember(path, size)
          /\ Advance(next) /\ UNCHANGED issues
       \/ /\ o = "absent" /\ optional
          /\ issues' = Append(issues, Warning("OPTIONAL_ARTIFACT_MISSING"))
          /\ Advance(next) /\ UNCHANGED payload
       \/ /\ o \in Safeguards
          /\ Raise(o) /\ UNCHANGED payload
       \/ /\ o = "failed" \/ (o = "absent" /\ ~ optional)
          /\ RaiseWith(o, s) /\ UNCHANGED payload
    BY <1>3 DEF FetchPut
  <1>5. o = "ok" \/ o \in Exceptions
    BY FetchPutOutcomesTyped
  <1>6. CASE o = "ok" /\ payload' = WithMember(path, size) /\ Advance(next) /\ UNCHANGED issues
    <2>1. Onward
      BY <1>2, <1>6 DEF Advance, Onward, FatalCodes
    <2>2. Sized(payload')
      BY <1>2, <1>3, <1>6, MemberIsSized
    <2>. QED  BY <1>1, <2>1, <2>2 DEF Sized
  <1>7. CASE /\ o = "absent" /\ optional
             /\ issues' = Append(issues, Warning("OPTIONAL_ARTIFACT_MISSING"))
             /\ Advance(next) /\ UNCHANGED payload
    <2>1. PICK x \in Issues : x = Warning("OPTIONAL_ARTIFACT_MISSING") /\ x.severity = "warning"
      BY IssueTypes DEF OtherCodes
    <2>2. issues' \in Seq(Issues) /\ FatalCodes(issues') = {}
      BY <1>2, <1>7, <2>1, CodesAppend
    <2>3. Onward
      BY <1>2, <1>7, <2>2 DEF Advance, Onward
    <2>. QED  BY <1>1, <1>2, <1>7, <2>3 DEF Sized
  <1>8. CASE o \in Safeguards /\ Raise(o) /\ UNCHANGED payload
    <2>1. Failed
      BY <1>2, <1>8, RaiseReports DEF Raise, Exceptions
    <2>. QED  BY <1>1, <1>2, <1>8, <2>1 DEF Sized
  <1>9. CASE (o = "failed" \/ (o = "absent" /\ ~ optional)) /\ RaiseWith(o, s) /\ UNCHANGED payload
    <2>1. o \in Exceptions \ Safeguards
      BY <1>9 DEF Exceptions, Safeguards, ResourceLimits
    <2>2. Explains(s, o)
      BY <2>1, OtherExplains
    <2>3. Failed
      BY <1>9, <2>1, <2>2, RaiseReports
    <2>. QED  BY <1>1, <1>2, <1>9, <2>3 DEF Sized
  <1>. QED  BY <1>4, <1>6, <1>7, <1>8, <1>9

(* What every step of the body starts from. *)
LEMMA BodyTypes ==
  ASSUME AttemptInv, step \notin {"idle", "recording"}
  PROVE  /\ site \in Sites /\ position \in 1 .. Len(site.listing) + 1
         /\ payload = [p \in DOMAIN payload |-> site.size[p]] /\ DOMAIN payload \subseteq DOMAIN site.size
         /\ issues \in Seq(Issues) /\ FatalCodes(issues) = {} /\ error = None
         /\ input \in Seq(Names) /\ bound \subseteq Names
         /\ step # "metadata" => step \in Working /\ meta.primary \in Names
  BY DEF AttemptInv, TypeInv, RunInv, Working, Outside

(* A failure with one fatal issue. *)
LEMMA RaiseOne ==
  ASSUME AttemptInv, step \notin {"idle", "recording"}, NEW e \in Exceptions,
         NEW c \in Safeguards \union OtherCodes, RaiseWith(e, Append(issues, Fatal(c))),
         IF e \in Safeguards THEN c = SafeguardCode(e) ELSE c \in OtherCodes
  PROVE  Failed
  <1>1. issues \in Seq(Issues) /\ FatalCodes(issues) = {}
    BY BodyTypes
  <1>2. PICK x \in Issues : x = Fatal(c) /\ x.severity = "fatal" /\ x.code = c
    BY IssueTypes
  <1>3. PICK s \in Seq(Issues) : s = Append(issues, Fatal(c)) /\ FatalCodes(s) = {c}
    <2>1. Append(issues, x) \in Seq(Issues) /\ FatalCodes(Append(issues, x)) = {c}
      BY <1>1, <1>2, CodesAppend
    <2>. QED  BY <1>2, <2>1
  <1>4. Explains(s, e)
    <2>1. CASE e \in Safeguards
      BY <1>3, <2>1 DEF Explains
    <2>2. CASE e \notin Safeguards
      BY <1>3, <2>2, OtherExplains
    <2>. QED  BY <2>1, <2>2
  <1>. QED  BY <1>3, <1>4, RaiseReports

(* A failure that reports nothing more than the handler does. *)
LEMMA RaisePlain ==
  ASSUME AttemptInv, step \notin {"idle", "recording"}, NEW e \in Exceptions, Raise(e)
  PROVE  Failed
  BY BodyTypes, RaiseReports DEF Raise

(* lookup_accession_metadata is a step of the body: it finds the metadata  *)
(* or raises.                                                              *)
LEMMA StepLookup == ASSUME AttemptInv, LookupMetadata PROVE BodyStep
  <1>1. step = "metadata" /\ step \notin {"idle", "recording"}
    BY DEF LookupMetadata
  <1>. DEFINE record == site.blocks[Max(BlocksRead)]
  <1>2. Traced("submissions")
    BY DEF LookupMetadata, Observed, Traced
  <1>3. Failed \/ Onward
    <2>1. ASSUME NEW i \in BlocksRead, NEW o \in FetchOutcomes(site.blockSize, MaxFile) \ {"ok"}, Raise(o)
          PROVE  Failed
      <3>1. o \in Exceptions
        BY DEF FetchOutcomes, Exceptions, Safeguards, ResourceLimits
      <3>. QED  BY <1>1, <2>1, <3>1, RaisePlain
    <2>2. ASSUME Rejection(record) # None, Raise(Rejection(record)) PROVE Failed
      <3>1. PICK e : e = Rejection(record)
        OBVIOUS
      <3>2. e \in Exceptions
        BY <2>2, <3>1 DEF Rejection, Exceptions
      <3>3. Raise(e)
        BY <2>2, <3>1 DEF Raise, RaiseWith
      <3>. QED  BY <1>1, <3>2, <3>3, RaisePlain
    <2>3. ASSUME Rejection(record) = None, meta' = record, Advance("discovery"), UNCHANGED issues
          PROVE  Onward
      <3>1. record # None /\ record.primary # None
        <4>1. {"LookupError", "ValueError"} \subseteq Exceptions
          BY DEF Exceptions
        <4>. QED  BY <2>3, <4>1, NoneAssumption DEF Rejection
      <3>2. record.primary \in Names
        BY <1>1, <3>1, BodyTypes, BlocksAreRead, SitesAssumption
      <3>3. step' \in Working
        BY <2>3 DEF Advance, Working, Outside, Steps
      <3>4. error' = None
        BY <1>1, <2>3, BodyTypes DEF Advance
      <3>5. issues' \in Seq(Issues) /\ FatalCodes(issues') = {}
        <4>1. issues' = issues
          BY <2>3
        <4>2. issues \in Seq(Issues) /\ FatalCodes(issues) = {}
          BY <1>1, BodyTypes
        <4>. QED  BY <4>1, <4>2
      <3>6. meta'.primary \in Names
        BY <2>3, <3>2
      <3>. QED  BY <3>3, <3>4, <3>5, <3>6 DEF Onward
    <2>. QED  BY <2>1, <2>2, <2>3 DEF LookupMetadata
  <1>. QED  BY <1>1, <1>2, <1>3, BodyTypes DEF BodyStep, LookupMetadata

(* Storing discovery.json is a step of the body. *)
LEMMA StepDiscovery == ASSUME AttemptInv, StoreDiscovery PROVE BodyStep
  <1>1. step = "discovery" /\ step \notin {"idle", "recording", "metadata"}
    BY DEF StoreDiscovery
  <1>. DEFINE size == site.size["discovery.json"]
  <1>2. "discovery.json" \in DOMAIN site.size
    BY <1>1, BodyTypes, SitesAssumption DEF Fixed
  <1>3. CASE \E e \in {"MAX_FILE_BYTES_EXCEEDED", "MAX_BUNDLE_BYTES_EXCEEDED"} : Raise(e) /\ UNCHANGED payload
    <2>1. PICK e \in {"MAX_FILE_BYTES_EXCEEDED", "MAX_BUNDLE_BYTES_EXCEEDED"} : Raise(e) /\ UNCHANGED payload
      BY <1>3
    <2>2. Failed
      BY <1>1, <2>1, RaisePlain DEF Exceptions, Safeguards, ResourceLimits
    <2>. QED  BY <1>1, <2>1, <2>2, BodyTypes DEF BodyStep, StoreDiscovery
  <1>4. CASE payload' = WithMember("discovery.json", size) /\ Advance("index.json") /\ UNCHANGED issues
    <2>1. Sized(WithMember("discovery.json", size))
      BY <1>1, <1>2, BodyTypes, MemberIsSized DEF Sized
    <2>2. Onward
      BY <1>1, <1>4, BodyTypes DEF Onward, Advance, Working, Outside, Steps, FatalCodes, StoreDiscovery
    <2>. QED  BY <1>1, <1>4, <2>1, <2>2, BodyTypes DEF BodyStep, StoreDiscovery, Sized
  <1>. QED  BY <1>3, <1>4 DEF StoreDiscovery

(* Fetching an index is a step of the body. *)
LEMMA StepIndex == ASSUME AttemptInv, FetchIndex PROVE BodyStep
  <1>1. step \in Indexes /\ step \notin {"idle", "recording", "metadata"}
    BY DEF FetchIndex, Indexes
  <1>2. step \in DOMAIN site.size
    BY <1>1, BodyTypes, SitesAssumption DEF Fixed
  <1>3. PICK path, next :
          /\ path = step
          /\ next = CASE step = "index.json" -> "index.html"
                      [] step = "index.html" -> "index-headers"
                      [] OTHER               -> "directory"
    OBVIOUS
  <1>4. path \in DOMAIN site.size /\ next \in Working /\ step \in Working
    BY <1>1, <1>2, <1>3, BodyTypes DEF Working, Outside, Steps
  <1>5. PICK optional : optional = (step = "index-headers")
    OBVIOUS
  <1>6. PICK s \in Seq(Issues) : s = issues /\ FatalCodes(s) \subseteq OtherCodes
    BY <1>1, BodyTypes
  <1>7. FetchPut(path, site.size[path], optional, next, s) /\ UNCHANGED <<meta, site>>
    BY <1>3, <1>5, <1>6 DEF FetchIndex
  <1>. QED  BY <1>1, <1>4, <1>6, <1>7, FetchPutKeeps, BodyTypes DEF BodyStep, FetchIndex

(* Fetching an entry of the directory is a step of the body. *)
LEMMA StepEntry == ASSUME AttemptInv, FetchEntry PROVE BodyStep
  <1>1. step = "directory" /\ step \notin {"idle", "recording", "metadata"} /\ step \in Working
    BY DEF FetchEntry, Working, Outside, Steps
  <1>2. /\ Len(site.listing) \in Nat /\ position' \in 1 .. Len(site.listing) + 1
        /\ position \in 1 .. Len(site.listing) /\ Entry \in Names /\ Entry \in DOMAIN site.size
    <2>1. site.listing \in Seq(Names) /\ Names \subseteq DOMAIN site.size
      BY <1>1, BodyTypes, SitesAssumption
    <2>2. position \in 1 .. Len(site.listing) + 1 /\ position <= Len(site.listing) /\ position' = position + 1
      BY <1>1, BodyTypes DEF FetchEntry
    <2>3. position \in 1 .. Len(site.listing) /\ position' \in 1 .. Len(site.listing) + 1
      BY <2>1, <2>2
    <2>. QED  BY <2>1, <2>3 DEF Entry
  <1>3. CASE UNCHANGED <<step, payload, issues, error, traces>>
    <2>1. UNCHANGED <<step, issues, error, meta>>
      BY <1>3 DEF FetchEntry
    <2>2. step' \in Working /\ error' = None /\ issues' \in Seq(Issues) /\ meta'.primary \in Names
      BY <1>1, <2>1, BodyTypes
    <2>3. FatalCodes(issues') = {}
      BY <1>1, <2>1, BodyTypes
    <2>4. Onward
      BY <2>2, <2>3 DEF Onward
    <2>. QED  BY <1>1, <1>2, <1>3, <2>4, BodyTypes DEF BodyStep, FetchEntry
  <1>4. CASE FetchPut(Entry, site.size[Entry], MayBeAbsent(Entry), "directory", WhenFailed(Entry))
    <2>1. PICK path, optional : path = Entry /\ optional = MayBeAbsent(Entry)
      OBVIOUS
    <2>2. PICK s \in Seq(Issues) : s = WhenFailed(Entry) /\ FatalCodes(s) \subseteq OtherCodes
      <3>1. PICK c \in OtherCodes : c = "MISSING_FILER_SUBMITTED_ATTACHMENT"
        BY DEF OtherCodes
      <3>2. PICK x \in Issues : x = Fatal(c) /\ x.severity = "fatal" /\ x.code = c
        BY IssueTypes
      <3>3. Append(issues, x) \in Seq(Issues) /\ FatalCodes(Append(issues, x)) = {c}
        BY <1>1, <3>2, BodyTypes, CodesAppend
      <3>. QED  BY <1>1, <3>1, <3>2, <3>3, BodyTypes DEF WhenFailed
    <2>3. FetchPut(path, site.size[path], optional, "directory", s) /\ UNCHANGED <<meta, site>>
      BY <1>4, <2>1, <2>2 DEF FetchEntry
    <2>. QED  BY <1>1, <1>2, <2>1, <2>2, <2>3, FetchPutKeeps, BodyTypes DEF BodyStep, FetchEntry
  <1>. QED  BY <1>3, <1>4 DEF FetchEntry

-----------------------------------------------------------------------------
(* The inventory.                                                          *)

(* What the index and the SGML submission name are names of the accession, *)
(* of which there are finitely many.                                       *)
LEMMA NamesOfTheFiling ==
  ASSUME site \in Sites
  PROVE  /\ IsFiniteSet(Names)
         /\ SgmlNames \subseteq Names /\ HtmlFilerSubmitted \subseteq Names /\ HtmlSubmitted \subseteq Names
         /\ { r.name : r \in ToSet(site.rows) } \subseteq Names
  <1>1. IsFiniteSet(Names)
    BY SitesAssumption, FS_Subset
  <1>2. SgmlNames \subseteq Names
    BY SitesAssumption DEF SgmlNames, ToSet
  <1>3. \A r \in ToSet(site.rows) : r.name \in Names
    BY SitesAssumption DEF ToSet
  <1>. QED  BY <1>1, <1>2, <1>3 DEF HtmlFilerSubmitted, HtmlSubmitted

(* What the reconciliation reports; it is silent only if the directory     *)
(* lists all that was submitted.                                           *)
LEMMA InventoryReports ==
  ASSUME site \in Sites
  PROVE  /\ InventoryIssues \in Seq(Issues) /\ FatalCodes(InventoryIssues) \subseteq OtherCodes
         /\ FatalCodes(InventoryIssues) = {} => SgmlNames \union HtmlFilerSubmitted \subseteq ToSet(site.listing)
  <1>. DEFINE report(S, issue) == [i \in 1 .. Cardinality(S) |-> issue]
              listed == ToSet(site.listing)
  <1>1. PICK a, b, c : a = SgmlNames \ listed /\ b = HtmlFilerSubmitted \ listed /\ c = HtmlSubmitted \ SgmlNames
    OBVIOUS
  <1>2. /\ Cardinality(a) \in Nat /\ Cardinality(b) \in Nat /\ Cardinality(c) \in Nat
        /\ Cardinality(a) = 0 => a = {}
        /\ Cardinality(b) = 0 => b = {}
    <2>1. IsFiniteSet(a) /\ IsFiniteSet(b) /\ IsFiniteSet(c)
      BY <1>1, NamesOfTheFiling, FS_Subset
    <2>. QED  BY <2>1, FS_CardinalityType, FS_EmptySet
  <1>3. PICK x \in Issues, y \in Issues, z \in Issues :
          /\ x = Fatal("SGML_FILENAME_MISSING_FROM_DIRECTORY") /\ x.severity = "fatal" /\ x.code \in OtherCodes
          /\ y = Fatal("INDEX_FILER_SUBMITTED_MISSING_FROM_DIRECTORY") /\ y.severity = "fatal"
          /\ y.code \in OtherCodes
          /\ z = Warning("INDEX_SUBMITTED_ABSENT_FROM_SGML") /\ z.severity = "warning"
    BY IssueTypes DEF OtherCodes
  <1>4. PICK r, s, t : r = report(a, x) /\ s = report(b, y) /\ t = report(c, z)
    OBVIOUS
  <1>5. r \in Seq(Issues) /\ FatalCodes(r) \subseteq OtherCodes /\ (FatalCodes(r) = {} => a = {})
    <2>1. r \in Seq(Issues)
      BY <1>2, <1>3, <1>4, CodesReport
    <2>2. CASE Cardinality(a) = 0
      <3>1. FatalCodes(r) = {}
        BY <1>2, <1>3, <1>4, <2>2, CodesReport
      <3>. QED  BY <1>2, <2>1, <2>2, <3>1
    <2>3. CASE Cardinality(a) # 0
      <3>1. FatalCodes(r) = {x.code}
        BY <1>2, <1>3, <1>4, <2>3, CodesReport
      <3>. QED  BY <1>3, <2>1, <3>1
    <2>. QED  BY <2>2, <2>3
  <1>6. s \in Seq(Issues) /\ FatalCodes(s) \subseteq OtherCodes /\ (FatalCodes(s) = {} => b = {})
    <2>1. s \in Seq(Issues)
      BY <1>2, <1>3, <1>4, CodesReport
    <2>2. CASE Cardinality(b) = 0
      <3>1. FatalCodes(s) = {}
        BY <1>2, <1>3, <1>4, <2>2, CodesReport
      <3>. QED  BY <1>2, <2>1, <2>2, <3>1
    <2>3. CASE Cardinality(b) # 0
      <3>1. FatalCodes(s) = {y.code}
        BY <1>2, <1>3, <1>4, <2>3, CodesReport
      <3>. QED  BY <1>3, <2>1, <3>1
    <2>. QED  BY <2>2, <2>3
  <1>7. t \in Seq(Issues) /\ FatalCodes(t) = {}
    BY <1>2, <1>3, <1>4, CodesReport
  <1>8. InventoryIssues = r \o s \o t
    BY <1>1, <1>3, <1>4 DEF InventoryIssues
  <1>9. PICK u \in Seq(Issues) : u = r \o s /\ FatalCodes(u) = FatalCodes(r) \union FatalCodes(s)
    BY <1>5, <1>6, CodesConcat
  <1>10. InventoryIssues \in Seq(Issues) /\ FatalCodes(InventoryIssues) = FatalCodes(r) \union FatalCodes(s)
    BY <1>7, <1>8, <1>9, CodesConcat
  <1>. QED  BY <1>1, <1>5, <1>6, <1>10

(* Whether the complete submission and the primary document are there. *)
LEMMA CompleteReports ==
  ASSUME NEW path, NEW D, NEW c \in OtherCodes
  PROVE  LET s == IF path \in D THEN <<>> ELSE <<Fatal(c)>>
         IN  s \in Seq(Issues) /\ FatalCodes(s) \subseteq OtherCodes /\ (FatalCodes(s) = {} => path \in D)
  <1>1. PICK x \in Issues : x = Fatal(c) /\ x.severity = "fatal" /\ x.code = c
    BY IssueTypes
  <1>2. <<>> \in Seq(Issues) /\ FatalCodes(<<>>) = {}
    BY DEF FatalCodes
  <1>3. <<x>> \in Seq(Issues) /\ FatalCodes(<<x>>) = {c}
    <2>. DEFINE s == <<x>>
    <2>1. s \in Seq(Issues) /\ DOMAIN s = {1} /\ s[1] = x
      OBVIOUS
    <2>. HIDE DEF s
    <2>2. FatalCodes(s) = {c}
      BY <1>1, <2>1 DEF FatalCodes
    <2>. QED  BY <2>1, <2>2 DEF s
  <1>. QED  BY <1>1, <1>2, <1>3

(* A list of issues that no safeguard raised: on to the next step or out.  *)
LEMMA GoOnOrRaise ==
  ASSUME AttemptInv, step \notin {"idle", "recording", "metadata"}, NEW all \in Seq(Issues),
         FatalCodes(all) \subseteq OtherCodes, NEW next \in Working, UNCHANGED meta,
         IF AnyFatal(all) THEN RaiseWith("RuntimeError", all) ELSE issues' = all /\ Advance(next)
  PROVE  Failed \/ Onward
  <1>1. CASE AnyFatal(all)
    <2>1. "RuntimeError" \in Exceptions \ Safeguards
      BY DEF Exceptions, Safeguards, ResourceLimits
    <2>. QED  BY <1>1, <2>1, OtherExplains, RaiseReports
  <1>2. CASE ~ AnyFatal(all)
    BY <1>2, NoneFatal, BodyTypes DEF Onward, Advance
  <1>. QED  BY <1>1, <1>2

(* The directory is complete, and if the check goes on nothing is missing. *)
LEMMA StepComplete ==
  ASSUME AttemptInv, CheckComplete
  PROVE  BodyStep /\ (step' # "recording" => {CompleteSubmission, meta.primary} \subseteq DOMAIN payload)
  <1>1. step = "directory" /\ step \notin {"idle", "recording", "metadata"}
    BY DEF CheckComplete
  <1>. DEFINE missing(path, code) == IF path \in DOMAIN payload THEN <<>> ELSE <<Fatal(code)>>
  <1>2. PICK r \in Seq(Issues) :
          /\ r = missing(CompleteSubmission, "MISSING_COMPLETE_SUBMISSION") /\ FatalCodes(r) \subseteq OtherCodes
          /\ FatalCodes(r) = {} => CompleteSubmission \in DOMAIN payload
    BY CompleteReports DEF OtherCodes
  <1>3. PICK s \in Seq(Issues) :
          /\ s = missing(meta.primary, "MISSING_PRIMARY_DOCUMENT") /\ FatalCodes(s) \subseteq OtherCodes
          /\ FatalCodes(s) = {} => meta.primary \in DOMAIN payload
    BY CompleteReports DEF OtherCodes
  <1>4. PICK q \in Seq(Issues) : q = issues \o r /\ FatalCodes(q) = FatalCodes(r)
    <2>1. issues \in Seq(Issues) /\ FatalCodes(issues) = {}
      BY <1>1, BodyTypes
    <2>2. PICK u : u = issues \o r
      OBVIOUS
    <2>3. u \in Seq(Issues) /\ FatalCodes(u) = FatalCodes(issues) \union FatalCodes(r)
      BY <1>2, <2>1, <2>2, CodesConcat
    <2>4. FatalCodes(u) = FatalCodes(r)
      BY <2>1, <2>3
    <2>. QED  BY <2>2, <2>3, <2>4
  <1>5. PICK all \in Seq(Issues) : all = q \o s /\ FatalCodes(all) = FatalCodes(r) \union FatalCodes(s)
    <2>1. q \o s \in Seq(Issues) /\ FatalCodes(q \o s) = FatalCodes(r) \union FatalCodes(s)
      BY <1>3, <1>4, CodesConcat
    <2>. QED  BY <2>1
  <1>6. IF AnyFatal(all) THEN RaiseWith("RuntimeError", all) ELSE issues' = all /\ Advance("inventory")
    BY <1>2, <1>3, <1>4, <1>5 DEF CheckComplete
  <1>7. "inventory" \in Working /\ UNCHANGED meta
    BY DEF Working, Outside, Steps, CheckComplete
  <1>8. Failed \/ Onward
    BY <1>1, <1>2, <1>3, <1>5, <1>6, <1>7, GoOnOrRaise
  <1>9. BodyStep
    BY <1>1, <1>8, BodyTypes DEF BodyStep, CheckComplete
  <1>10. ASSUME step' # "recording" PROVE {CompleteSubmission, meta.primary} \subseteq DOMAIN payload
    <2>1. ~ AnyFatal(all)
      BY <1>6, <1>10 DEF RaiseWith
    <2>. QED  BY <1>2, <1>3, <1>5, <2>1, NoneFatal
  <1>. QED  BY <1>9, <1>10

(* The inventories are reconciled, and if it goes on all was listed. *)
LEMMA StepInventory ==
  ASSUME AttemptInv, ReconcileInventory
  PROVE  BodyStep /\ (step' # "recording" => SgmlNames \union HtmlFilerSubmitted \subseteq ToSet(site.listing))
  <1>1. step = "inventory" /\ step \notin {"idle", "recording", "metadata"}
    BY DEF ReconcileInventory
  <1>2. site \in Sites
    BY <1>1, BodyTypes
  <1>3. PICK s \in Seq(Issues) : s = InventoryIssues
    BY <1>2, InventoryReports
  <1>4. FatalCodes(s) \subseteq OtherCodes
        /\ (FatalCodes(s) = {} => SgmlNames \union HtmlFilerSubmitted \subseteq ToSet(site.listing))
    BY <1>2, <1>3, InventoryReports
  <1>5. PICK all \in Seq(Issues) : all = issues \o s /\ FatalCodes(all) = FatalCodes(s)
    <2>1. issues \in Seq(Issues) /\ FatalCodes(issues) = {}
      BY <1>1, BodyTypes
    <2>2. PICK u : u = issues \o s
      OBVIOUS
    <2>3. u \in Seq(Issues) /\ FatalCodes(u) = FatalCodes(issues) \union FatalCodes(s)
      BY <1>3, <2>1, <2>2, CodesConcat
    <2>4. FatalCodes(u) = FatalCodes(s)
      BY <2>1, <2>3
    <2>. QED  BY <2>2, <2>3, <2>4
  <1>6. IF AnyFatal(all) THEN RaiseWith("RuntimeError", all) ELSE issues' = all /\ Advance("input")
    BY <1>3, <1>5 DEF ReconcileInventory
  <1>7. "input" \in Working /\ UNCHANGED meta
    BY DEF Working, Outside, Steps, ReconcileInventory
  <1>8. Failed \/ Onward
    BY <1>1, <1>4, <1>5, <1>6, <1>7, GoOnOrRaise
  <1>9. BodyStep
    BY <1>1, <1>8, BodyTypes DEF BodyStep, ReconcileInventory
  <1>10. ASSUME step' # "recording" PROVE SgmlNames \union HtmlFilerSubmitted \subseteq ToSet(site.listing)
    <2>1. ~ AnyFatal(all)
      BY <1>6, <1>10 DEF RaiseWith
    <2>. QED  BY <1>4, <1>5, <2>1, NoneFatal
  <1>. QED  BY <1>9, <1>10

-----------------------------------------------------------------------------
(* The report input.                                                       *)

IsByteOrder(s, S) == s \in SetToSeqs(S) /\ \A i, j \in DOMAIN s : i < j => Rank[s[i]] < Rank[s[j]]

(* A finite set of names has a last one in the byte order. *)
LEMMA LastName ==
  ASSUME NEW S \in SUBSET Names, IsFiniteSet(S), S # {}
  PROVE  \E x \in S : \A y \in S \ {x} : Rank[y] < Rank[x]
  <1>. DEFINE P == { s \in SUBSET S : s # {} => \E x \in s : \A y \in s \ {x} : Rank[y] < Rank[x] }
  <1>1. P \in SUBSET (SUBSET S) /\ {} \in P
    OBVIOUS
  <1>2. \A x \in S : Rank[x] \in Nat
    BY NamesAssumption
  <1>3. \A x, y \in S : x # y => Rank[x] < Rank[y] \/ Rank[y] < Rank[x]
    BY <1>2, NamesAssumption
  <1>4. ASSUME NEW s \in SUBSET S, s # {}, \A x \in s : s \ {x} \in P PROVE s \in P
    <2>1. PICK z \in s : s \ {z} \in P
      BY <1>4
    <2>2. CASE s \ {z} = {}
      BY <2>1, <2>2
    <2>3. CASE s \ {z} # {}
      <3>1. PICK x \in s \ {z} : \A y \in (s \ {z}) \ {x} : Rank[y] < Rank[x]
        BY <2>1, <2>3
      <3>2. CASE Rank[z] < Rank[x]
        BY <3>1, <3>2
      <3>3. CASE Rank[x] < Rank[z]
        <4>1. \A y \in s \ {z} : Rank[y] < Rank[z]
          BY <1>2, <3>1, <3>3
        <4>. QED  BY <4>1
      <3>. QED  BY <1>3, <3>1, <3>2, <3>3
    <2>. QED  BY <2>2, <2>3
  <1>5. P = SUBSET S
    <2>. HIDE DEF P
    <2>. QED  BY <1>1, <1>4, SubsetInduction
  <1>. QED  BY <1>5

(* A finite set of names can be put into byte order. *)
LEMMA ByteOrderExists ==
  ASSUME NEW S \in SUBSET Names, IsFiniteSet(S)
  PROVE  \E s : IsByteOrder(s, S)
  <1>. DEFINE P == { s \in SUBSET S : \E q : IsByteOrder(q, s) }
  <1>1. {} \in P
    <2>1. Cardinality({}) = 0
      BY FS_EmptySet
    <2>2. PICK q : q = [i \in 1 .. 0 |-> CompleteSubmission]
      OBVIOUS
    <2>3. q \in [1 .. 0 -> {}] /\ DOMAIN q = {}
      BY <2>2
    <2>4. IsByteOrder(q, {})
      BY <2>1, <2>3 DEF IsByteOrder, SetToSeqs
    <2>. QED  BY <2>4
  <1>2. ASSUME NEW s \in SUBSET S, s # {}, \A x \in s : s \ {x} \in P PROVE s \in P
    <2>1. IsFiniteSet(s)
      BY FS_Subset
    <2>2. PICK x \in s : \A y \in s \ {x} : Rank[y] < Rank[x]
      BY <1>2, <2>1, LastName
    <2>3. PICK q : IsByteOrder(q, s \ {x})
      BY <1>2, <2>2
    <2>4. PICK n : n = Cardinality(s)
      OBVIOUS
    <2>5. n \in Nat \ {0} /\ Cardinality(s \ {x}) = n - 1 /\ n - 1 \in Nat
      <3>1. n \in Nat /\ Cardinality(s \ {x}) = n - 1 /\ Cardinality(s \ {x}) \in Nat
        BY <2>1, <2>2, <2>4, FS_RemoveElement, FS_CardinalityType, FS_Subset
      <3>. QED  BY <3>1
    <2>6. /\ q \in [1 .. n - 1 -> s \ {x}]
          /\ \A i, j \in 1 .. n - 1 : i # j => q[i] # q[j]
          /\ \A i, j \in 1 .. n - 1 : i < j => Rank[q[i]] < Rank[q[j]]
      BY <2>3, <2>5 DEF IsByteOrder, SetToSeqs
    <2>7. PICK r : r = [i \in 1 .. n |-> IF i = n THEN x ELSE q[i]]
      OBVIOUS
    <2>8. \A i \in 1 .. n : i = n \/ i \in 1 .. n - 1
      BY <2>5
    <2>9. /\ r \in [1 .. n -> s] /\ r[n] = x /\ n \in 1 .. n
          /\ \A i \in 1 .. n - 1 : r[i] = q[i] /\ q[i] \in s \ {x} /\ i < n /\ i \in 1 .. n
      BY <2>5, <2>6, <2>7, <2>8
    <2>10. ASSUME NEW i \in 1 .. n, NEW j \in 1 .. n, i < j
           PROVE  Rank[r[i]] < Rank[r[j]]
      <3>1. i \in 1 .. n - 1
        BY <2>5, <2>10
      <3>2. CASE j = n
        BY <2>2, <2>9, <3>1, <3>2
      <3>3. CASE j \in 1 .. n - 1
        BY <2>6, <2>9, <2>10, <3>1, <3>3
      <3>. QED  BY <2>8, <3>2, <3>3
    <2>11. ASSUME NEW i \in 1 .. n, NEW j \in 1 .. n, i # j
           PROVE  r[i] # r[j]
      <3>1. CASE i = n
        BY <2>8, <2>9, <2>11, <3>1
      <3>2. CASE j = n
        BY <2>8, <2>9, <2>11, <3>2
      <3>3. CASE i \in 1 .. n - 1 /\ j \in 1 .. n - 1
        BY <2>6, <2>9, <2>11, <3>3
      <3>. QED  BY <2>8, <3>1, <3>2, <3>3
    <2>12. IsByteOrder(r, s)
      BY <2>4, <2>9, <2>10, <2>11 DEF IsByteOrder, SetToSeqs
    <2>. QED  BY <2>12
  <1>3. P \in SUBSET (SUBSET S)
    OBVIOUS
  <1>4. P = SUBSET S
    <2>. HIDE DEF P
    <2>. QED  BY <1>1, <1>2, <1>3, SubsetInduction
  <1>. QED  BY <1>4

(* What InByteOrder returns: every name of the set, and no other. *)
LEMMA ByteOrdered ==
  ASSUME NEW S \in SUBSET Names, IsFiniteSet(S)
  PROVE  InByteOrder(S) \in Seq(Names) /\ ToSet(InByteOrder(S)) = S
  <1>1. PICK q : q = InByteOrder(S)
    OBVIOUS
  <1>2. IsByteOrder(q, S)
    <2>1. \E s \in SetToSeqs(S) : \A i, j \in DOMAIN s : i < j => Rank[s[i]] < Rank[s[j]]
      BY ByteOrderExists DEF IsByteOrder
    <2>. QED  BY <1>1, <2>1 DEF InByteOrder, IsByteOrder
  <1>3. PICK n \in Nat : n = Cardinality(S)
    BY FS_CardinalityType
  <1>4. q \in [1 .. n -> S] /\ \A i, j \in 1 .. n : i # j => q[i] # q[j]
    BY <1>2, <1>3 DEF IsByteOrder, SetToSeqs
  <1>5. q \in Seq(Names)
    BY <1>4
  <1>6. q \in Injection(1 .. n, S)
    BY <1>4 DEF Injection, IsInjective
  <1>7. Cardinality(1 .. n) = n
    BY FS_Interval
  <1>8. q \in Surjection(1 .. n, S)
    BY <1>3, <1>6, <1>7, FS_Injection
  <1>9. ToSet(q) = S
    BY <1>4, <1>8 DEF Surjection, ToSet
  <1>. QED  BY <1>1, <1>5, <1>9

(* The sequence of one element. *)
LEMMA OneElement ==
  ASSUME NEW S, NEW x, S = {x}
  PROVE  SetToSeq(S) = <<x>>
  <1>1. Cardinality(S) = 1
    BY FS_Singleton
  <1>2. PICK q : q = <<x>>
    OBVIOUS
  <1>3. q \in [1 .. 1 -> S] /\ IsInjective(q)
    BY <1>2 DEF IsInjective
  <1>4. SetToSeq(S) \in [1 .. 1 -> S]
    BY <1>1, <1>3 DEF SetToSeq
  <1>5. \A f \in [1 .. 1 -> S] : f = <<x>>
    OBVIOUS
  <1>. QED  BY <1>4, <1>5

(* The attachments are files of the payload. *)
LEMMA AttachmentNames ==
  ASSUME site \in Sites, DOMAIN payload \subseteq DOMAIN site.size
  PROVE  /\ Attachments \subseteq Names \intersect DOMAIN payload /\ IsFiniteSet(Attachments)
         /\ InlineDocs \subseteq Attachments /\ Instances \subseteq Attachments
  <1>1. Attachments \subseteq Names \intersect DOMAIN payload
    BY NamesOfTheFiling DEF Attachments
  <1>2. IsFiniteSet(Attachments)
    BY <1>1, NamesOfTheFiling, FS_Subset
  <1>. QED  BY <1>1, <1>2 DEF InlineDocs, Instances

(* The documents of a report input. *)
LEMMA ReportDocuments ==
  ASSUME site \in Sites, DOMAIN payload \subseteq DOMAIN site.size, meta.primary \in Names,
         ReportInput # None
  PROVE  /\ ReportInput \in Seq(Names)
         /\ Inline(meta.primary) =>
              /\ \A n \in Attachments : Inline(n) => TypesAgree(n)
              /\ ToSet(ReportInput) = InlineDocs /\ Head(ReportInput) = meta.primary
         /\ ~ Inline(meta.primary) => \E x \in Instances : ReportInput = <<x>>
  <1>1. CASE Inline(meta.primary)
    <2>1. /\ \A n \in Attachments : Inline(n) => TypesAgree(n)
          /\ meta.primary \in InlineDocs
          /\ ReportInput = <<meta.primary>> \o InByteOrder(InlineDocs \ {meta.primary})
      BY <1>1 DEF ReportInput
    <2>2. PICK S \in SUBSET Names : S = InlineDocs \ {meta.primary} /\ IsFiniteSet(S)
      <3>1. PICK S : S = InlineDocs \ {meta.primary}
        OBVIOUS
      <3>2. IsFiniteSet(Names) /\ S \in SUBSET Names
        BY <3>1, AttachmentNames, NamesOfTheFiling
      <3>3. IsFiniteSet(S)
        BY <3>2, FS_Subset
      <3>. QED  BY <3>1, <3>2, <3>3
    <2>3. PICK q \in Seq(Names) : q = InByteOrder(S) /\ ToSet(q) = S
      BY <2>2, ByteOrdered
    <2>4. PICK x \in Names : x = meta.primary
      OBVIOUS
    <2>5. PICK r : r = <<x>> \o q
      OBVIOUS
    <2>6. ReportInput = r
      BY <2>1, <2>2, <2>3, <2>4, <2>5
    <2>7. /\ r \in Seq(Names) /\ Len(q) \in Nat /\ Len(r) = Len(q) + 1 /\ r # <<>>
          /\ DOMAIN r = 1 .. Len(q) + 1 /\ DOMAIN q = 1 .. Len(q)
          /\ r[1] = x /\ \A i \in 1 .. Len(q) : i + 1 \in DOMAIN r /\ r[i + 1] = q[i]
      BY <2>5
    <2>8. \A i \in DOMAIN r : i = 1 \/ \E j \in DOMAIN q : i = j + 1
      <3>. TAKE i \in DOMAIN r
      <3>1. CASE i # 1
        <4>1. i - 1 \in 1 .. Len(q) /\ i = (i - 1) + 1
          BY <2>7, <3>1
        <4>. QED  BY <2>7, <4>1
      <3>. QED  BY <3>1
    <2>9. ToSet(r) = {x} \union ToSet(q)
      <3>1. ToSet(r) \subseteq {x} \union ToSet(q)
        BY <2>7, <2>8 DEF ToSet
      <3>2. x \in ToSet(r)
        BY <2>7 DEF ToSet
      <3>3. ASSUME NEW j \in DOMAIN q PROVE q[j] \in ToSet(r)
        <4>1. j + 1 \in DOMAIN r /\ r[j + 1] = q[j]
          BY <2>7
        <4>. QED  BY <4>1 DEF ToSet
      <3>4. ToSet(q) \subseteq ToSet(r)
        BY <3>3 DEF ToSet
      <3>. QED  BY <3>1, <3>2, <3>4
    <2>10. ToSet(r) = InlineDocs
      BY <2>1, <2>2, <2>3, <2>4, <2>9
    <2>11. Head(r) = x
      BY <2>7
    <2>. QED  BY <1>1, <2>1, <2>4, <2>6, <2>7, <2>10, <2>11
  <1>2. CASE ~ Inline(meta.primary)
    <2>1. Cardinality(Instances) = 1 /\ ReportInput = SetToSeq(Instances)
      BY <1>2 DEF ReportInput
    <2>2. PICK S : S = Instances
      OBVIOUS
    <2>3. IsFiniteSet(S) /\ S \subseteq Names
      BY <2>2, AttachmentNames, FS_Subset
    <2>4. PICK x : S = {x}
      BY <2>1, <2>2, <2>3, FS_Singleton
    <2>5. ReportInput = <<x>>
      BY <2>1, <2>2, <2>4, OneElement
    <2>6. x \in Names /\ x \in Instances
      BY <2>2, <2>3, <2>4
    <2>. QED  BY <1>2, <2>5, <2>6
  <1>. QED  BY <1>1, <1>2

(* identify_report_input is a step of the body: it chooses documents or    *)
(* raises.                                                                 *)
LEMMA StepInput == ASSUME AttemptInv, IdentifyInput PROVE BodyStep
  <1>1. step = "input" /\ step \notin {"idle", "recording", "metadata"}
    BY DEF IdentifyInput
  <1>2. CASE ReportInput = None
    <2>1. Failed
      <3>1. PICK e \in Exceptions, c \in OtherCodes :
              e = "UnsupportedReportInput" /\ c = "UNSUPPORTED_REPORT_INPUT" /\ e \notin Safeguards
        BY DEF Exceptions, OtherCodes, Safeguards, ResourceLimits
      <3>2. RaiseWith(e, Append(issues, Fatal(c)))
        BY <1>2, <3>1 DEF IdentifyInput
      <3>. QED  BY <1>1, <3>1, <3>2, RaiseOne
    <2>. QED  BY <1>1, <1>2, <2>1, BodyTypes DEF BodyStep, IdentifyInput
  <1>3. CASE ReportInput # None
    <2>1. input' = ReportInput /\ Advance("closure") /\ UNCHANGED <<issues, meta>>
      BY <1>3 DEF IdentifyInput
    <2>2. ReportInput \in Seq(Names)
      BY <1>1, <1>3, BodyTypes, ReportDocuments
    <2>3. step' \in Working /\ error' = None /\ issues' \in Seq(Issues) /\ meta'.primary \in Names
      BY <1>1, <2>1, BodyTypes DEF Advance, Working, Outside, Steps
    <2>4. FatalCodes(issues') = {}
      BY <1>1, <2>1, BodyTypes
    <2>5. Onward
      BY <2>3, <2>4 DEF Onward
    <2>. QED  BY <1>1, <2>1, <2>2, <2>5, BodyTypes DEF BodyStep, IdentifyInput
  <1>. QED  BY <1>2, <1>3

-----------------------------------------------------------------------------
(* The closure and the bundle.                                             *)

(* The payload with the external documents of the report. *)
WithExternals(E) == [p \in DOMAIN payload \union E |-> IF p \in E THEN site.size[p] ELSE payload[p]]

(* The closure stores its documents with their sizes. *)
LEMMA ExternalsAreSized ==
  ASSUME Sized(payload), site \in Sites, NEW E \in SUBSET site.externals
  PROVE  Sized(WithExternals(E)) /\ DOMAIN WithExternals(E) = DOMAIN payload \union E
  <1>1. E \subseteq DOMAIN site.size
    BY SitesAssumption
  <1>. QED  BY <1>1 DEF Sized, WithExternals

(* The closure is a step of the body, and changes the payload only by      *)
(* documents that fit.                                                     *)
LEMMA StepClosure ==
  ASSUME AttemptInv, RunClosure
  PROVE  /\ BodyStep
         /\ \/ UNCHANGED payload
            \/ \E E \in SUBSET site.externals :
                 ExternalBytes(E) <= Remaining /\ payload' = WithExternals(E) /\ step' = "assemble"
  <1>1. step = "closure" /\ step \notin {"idle", "recording", "metadata"}
    BY DEF RunClosure
  <1>2. ToSet(input) \subseteq Names
    BY <1>1, BodyTypes DEF ToSet
  <1>3. ASSUME NEW E \in SUBSET site.externals, ExternalBytes(E) <= Remaining,
               payload' = WithExternals(E), bound' \in {ToSet(input), ToSet(input) \ {Head(input)}},
               Advance("assemble"), UNCHANGED issues
        PROVE  BodyStep /\ ExternalBytes(E) <= Remaining /\ payload' = WithExternals(E) /\ step' = "assemble"
    <2>1. Sized(WithExternals(E))
      BY <1>1, BodyTypes, ExternalsAreSized DEF Sized
    <2>2. payload' = [p \in DOMAIN payload' |-> site.size[p]] /\ DOMAIN payload' \subseteq DOMAIN site.size
      BY <1>3, <2>1 DEF Sized
    <2>3. step' \in Working /\ error' = None /\ issues' \in Seq(Issues) /\ meta'.primary \in Names
      BY <1>1, <1>3, BodyTypes DEF Advance, Working, Outside, Steps, RunClosure
    <2>4. FatalCodes(issues') = {}
      BY <1>1, <1>3, BodyTypes
    <2>5. Onward
      BY <2>3, <2>4 DEF Onward
    <2>6. bound' \subseteq Names
      BY <1>2, <1>3
    <2>7. BodyStep
      BY <1>1, <2>2, <2>5, <2>6, BodyTypes DEF BodyStep, RunClosure
    <2>. QED  BY <1>3, <2>7 DEF Advance
  <1>4. ASSUME Failed, UNCHANGED <<payload, bound>> PROVE BodyStep
    BY <1>1, <1>4, BodyTypes DEF BodyStep, RunClosure
  <1>5. ASSUME Raise("RuntimeError") PROVE Failed
    BY <1>1, <1>5, RaisePlain DEF Exceptions
  <1>6. ASSUME RaiseWith("RuntimeError", Append(issues, Fatal("ONLINE_CLOSURE_FAILED"))) PROVE Failed
    <2>1. PICK e \in Exceptions, c \in OtherCodes :
            e = "RuntimeError" /\ c = "ONLINE_CLOSURE_FAILED" /\ e \notin Safeguards
      BY DEF Exceptions, OtherCodes, Safeguards, ResourceLimits
    <2>2. RaiseWith(e, Append(issues, Fatal(c)))
      BY <1>6, <2>1
    <2>. QED  BY <1>1, <2>1, <2>2, RaiseOne
  <1>7. ASSUME NEW e \in Safeguards, RaiseWith(e, Append(issues, Fatal(SafeguardCode(e)))) PROVE Failed
    <2>1. PICK c \in Safeguards : c = SafeguardCode(e)
      BY Codes
    <2>2. RaiseWith(e, Append(issues, Fatal(c))) /\ e \in Exceptions
      BY <1>7, <2>1 DEF Exceptions
    <2>. QED  BY <1>1, <2>1, <2>2, RaiseOne
  <1>8. {"MAX_EXTERNAL_DEPENDENCY_BYTES_EXCEEDED", "MAX_REDIRECTS_EXCEEDED", "DESTINATION_FORBIDDEN",
         "MAX_BUNDLE_BYTES_EXCEEDED"} \subseteq Safeguards
    BY DEF Safeguards, ResourceLimits
  <1>9. CASE \E E \in SUBSET site.externals :
          /\ ExternalBytes(E) <= Remaining
          /\ \/ /\ payload' = WithExternals(E)
                /\ bound' \in {ToSet(input), ToSet(input) \ {Head(input)}}
                /\ Advance("assemble") /\ UNCHANGED issues
             \/ /\ E # {}
                /\ Raise("RuntimeError") /\ UNCHANGED <<payload, bound>>
    <2>1. PICK E \in SUBSET site.externals :
          /\ ExternalBytes(E) <= Remaining
          /\ \/ /\ payload' = WithExternals(E)
                /\ bound' \in {ToSet(input), ToSet(input) \ {Head(input)}}
                /\ Advance("assemble") /\ UNCHANGED issues
             \/ /\ E # {}
                /\ Raise("RuntimeError") /\ UNCHANGED <<payload, bound>>
      BY <1>9
    <2>2. CASE /\ payload' = WithExternals(E)
               /\ bound' \in {ToSet(input), ToSet(input) \ {Head(input)}}
               /\ Advance("assemble") /\ UNCHANGED issues
      BY <1>3, <2>1, <2>2
    <2>3. CASE Raise("RuntimeError") /\ UNCHANGED <<payload, bound>>
      BY <1>4, <1>5, <2>3
    <2>. QED  BY <2>1, <2>2, <2>3
  <1>10. CASE /\ \/ RaiseWith("RuntimeError", Append(issues, Fatal("ONLINE_CLOSURE_FAILED")))
                 \/ RaiseWith("MAX_BUNDLE_BYTES_EXCEEDED",
                              Append(issues, Fatal(SafeguardCode("MAX_BUNDLE_BYTES_EXCEEDED"))))
                 \/ \E s \in {"MAX_EXTERNAL_DEPENDENCY_BYTES_EXCEEDED", "MAX_REDIRECTS_EXCEEDED",
                              "DESTINATION_FORBIDDEN"} :
                      RaiseWith(s, Append(issues, Fatal(SafeguardCode(s))))
              /\ UNCHANGED <<payload, bound>>
    <2>1. Failed
      BY <1>6, <1>7, <1>8, <1>10
    <2>. QED  BY <1>4, <1>10, <2>1
  <1>. QED  BY <1>9, <1>10 DEF RunClosure, WithExternals

(* Validating the bundle is a step of the body. *)
LEMMA StepAssemble == ASSUME AttemptInv, AssembleBundle PROVE BodyStep
  <1>1. step = "assemble" /\ step \notin {"idle", "recording", "metadata"}
    BY DEF AssembleBundle
  <1>2. CASE Advance("publish") /\ UNCHANGED issues
    <2>1. step' \in Working /\ error' = None /\ issues' \in Seq(Issues) /\ meta'.primary \in Names
      BY <1>1, <1>2, BodyTypes DEF Advance, Working, Outside, Steps, AssembleBundle
    <2>2. FatalCodes(issues') = {}
      BY <1>1, <1>2, BodyTypes
    <2>3. Onward
      BY <2>1, <2>2 DEF Onward
    <2>. QED  BY <1>1, <2>3, BodyTypes DEF BodyStep, AssembleBundle
  <1>3. CASE \E e \in {"BundleStructureError", "RuntimeError"} : Raise(e)
    <2>1. Failed
      BY <1>1, <1>3, RaisePlain DEF Exceptions
    <2>. QED  BY <1>1, <2>1, BodyTypes DEF BodyStep, AssembleBundle
  <1>. QED  BY <1>2, <1>3 DEF AssembleBundle

-----------------------------------------------------------------------------
(* Publication, and the end of the attempt.                                *)

(* The bundle that is about to be published, or has been. *)
LEMMA BundleTyped ==
  ASSUME TypeInv, meta.primary \in Names
  PROVE  TheBundle \in Bundles
  <1>1. payload \in Payloads
    <2>1. DOMAIN payload \subseteq Paths /\ \A p \in DOMAIN payload : payload[p] \in Nat
      <3>1. site \in Sites /\ DOMAIN payload \subseteq DOMAIN site.size
            /\ \A p \in DOMAIN payload : payload[p] = site.size[p]
        BY DEF TypeInv
      <3>2. \A p \in DOMAIN site.size : site.size[p] \in Nat
        BY <3>1, SitesAssumption
      <3>. QED  BY <3>1, <3>2 DEF Paths
    <2>2. payload = [p \in DOMAIN payload |-> payload[p]]
      BY DEF TypeInv
    <2>3. payload \in [DOMAIN payload -> Nat]
      BY <2>1, <2>2
    <2>. QED  BY <2>1, <2>3 DEF Payloads
  <1>. QED  BY <1>1 DEF TheBundle, Bundles, TypeInv

(* Publication ends the body: it returns with the bundle published, or     *)
(* raises.                                                                 *)
LEMMA StepPublish ==
  ASSUME AttemptInv, Publish
  PROVE  AttemptInv' /\ published' \in {published, published \union {TheBundle}}
  <1>. USE DEF AttemptInv
  <1>1. /\ step = "publish" /\ step \notin {"idle", "recording", "metadata"}
        /\ UNCHANGED <<site, position, meta, payload, input, bound, traces, records, outcomes>>
        /\ published' \in {published, published \union {TheBundle}}
    BY DEF Publish
  <1>2. TheBundle \in Bundles
    BY <1>1, BodyTypes, BundleTyped
  <1>3. /\ issues' \in Seq(Issues) /\ step' = "recording" /\ error' \in Exceptions \union {None}
        /\ Explains(issues', error')
        /\ error' = None => published' = published \union {TheBundle} /\ FatalCodes(issues') = {}
    <2>1. CASE published' = published \union {TheBundle} /\ Advance("recording") /\ UNCHANGED issues
      <3>1. issues' \in Seq(Issues) /\ step' = "recording" /\ error' = None
        BY <1>1, <2>1, BodyTypes DEF Advance
      <3>2. FatalCodes(issues') = {}
        BY <1>1, <2>1, BodyTypes
      <3>3. None \notin Safeguards
        BY NoneAssumption DEF Exceptions
      <3>. QED  BY <2>1, <3>1, <3>2, <3>3 DEF Explains
    <2>2. CASE Raise("OSError")
      <3>1. Failed
        BY <1>1, <2>2, RaisePlain DEF Exceptions
      <3>. QED  BY <3>1, NoneAssumption DEF Failed
    <2>. QED  BY <2>1, <2>2 DEF Publish
  <1>4. TypeInv'
    <2>1. step' \in Steps /\ step' \notin Working /\ step' # "idle"
      BY <1>3 DEF Steps, Working, Outside
    <2>2. meta'.primary \in Names
      BY <1>1, BodyTypes
    <2>3. Len(records') = Len(outcomes') + (IF step' = "idle" THEN 0 ELSE 1)
      BY <1>1, <2>1 DEF TypeInv
    <2>4. published' \subseteq Bundles
      BY <1>1, <1>2 DEF TypeInv
    <2>. QED  BY <1>1, <1>3, <2>1, <2>2, <2>3, <2>4 DEF TypeInv
  <1>5. RunInv'
    <2>1. TheBundle' = TheBundle
      BY <1>1 DEF TheBundle
    <2>2. error' = None => TheBundle' \in published' /\ FatalCodes(issues)' = {}
      BY <1>3, <2>1
    <2>3. Explains(issues, error)'
      BY <1>3
    <2>4. records'[Len(records')] = None /\ (\A t \in traces' : t[1] = Len(records')) /\ traces' # {}
      BY <1>1 DEF RunInv
    <2>. QED  BY <1>3, <2>2, <2>3, <2>4 DEF RunInv
  <1>6. AttemptsAreRecorded'
    BY <1>1 DEF RecordInv, AttemptsAreRecorded, AnyFatal
  <1>7. SafeguardsStayTyped'
    BY <1>1 DEF RecordInv, SafeguardsStayTyped, ToSet
  <1>. QED  BY <1>1, <1>4, <1>5, <1>6, <1>7 DEF RecordInv

(* The locals of acquire have their types between two attempts. *)
LEMMA IdleKeeps ==
  ASSUME TypeInv, site' = site, NoLocals, step' = "idle",
         traces' \subseteq Nat \X (Paths \union {"submissions"}),
         records' \in Seq(Attempts \union {None}),
         outcomes' \in Seq({"returned", "raised", "unrecorded", "died"}),
         Len(records') = Len(outcomes'), published' = published
  PROVE  TypeInv' /\ RunInv'
  <1>1. <<>> \in Seq(Issues) /\ <<>> \in Seq(Names)
    OBVIOUS
  <1>2. FatalCodes(issues') = {}
    BY DEF NoLocals, FatalCodes
  <1>3. position' \in 1 .. Len(site'.listing) + 1
    BY SitesAssumption DEF NoLocals, TypeInv
  <1>4. payload' = [p \in DOMAIN payload' |-> site'.size[p]] /\ DOMAIN payload' \subseteq DOMAIN site'.size
    BY DEF NoLocals
  <1>5. step' \in Steps /\ step' \notin Working /\ step' # "recording"
    BY DEF Steps, Working, Outside
  <1>6. Len(records') = Len(outcomes') + (IF step' = "idle" THEN 0 ELSE 1)
    OBVIOUS
  <1>7. TypeInv'
    BY <1>1, <1>3, <1>4, <1>5, <1>6 DEF TypeInv, NoLocals
  <1>8. RunInv'
    BY <1>2, <1>5 DEF RunInv, NoLocals
  <1>. QED  BY <1>7, <1>8

(* A new attempt has no record and no observations yet. *)
LEMMA StepStart == ASSUME AttemptInv, StartAcquire PROVE AttemptInv'
  <1>. USE DEF AttemptInv
  <1>1. /\ step = "idle" /\ records' = Append(records, None) /\ step' = "metadata" /\ traces' = {}
        /\ UNCHANGED <<site, position, meta, payload, issues, input, bound, error, outcomes, published>>
    BY DEF StartAcquire, body
  <1>2. /\ records \in Seq(Attempts \union {None}) /\ Len(records) \in Nat /\ Len(records) = Len(outcomes)
        /\ DOMAIN records = 1 .. Len(records) /\ outcomes \in Seq({"returned", "raised", "unrecorded", "died"})
    BY <1>1 DEF TypeInv
  <1>3. /\ records' \in Seq(Attempts \union {None}) /\ Len(records') = Len(records) + 1
        /\ DOMAIN records' = 1 .. Len(records) + 1 /\ records'[Len(records')] = None
        /\ \A i \in DOMAIN records : records'[i] = records[i]
    BY <1>1, <1>2
  <1>4. step' \in Steps /\ step' \notin Working
    BY <1>1 DEF Steps, Working, Outside
  <1>5. Len(records') = Len(outcomes') + (IF step' = "idle" THEN 0 ELSE 1)
    BY <1>1, <1>2, <1>3
  <1>6. TypeInv'
    BY <1>1, <1>3, <1>4, <1>5 DEF TypeInv
  <1>7. RunInv'
    <2>1. error' = None /\ FatalCodes(issues') = {}
      BY <1>1 DEF RunInv
    <2>. QED  BY <1>1, <1>3, <2>1 DEF RunInv
  <1>8. DOMAIN outcomes = DOMAIN records
    BY <1>2
  <1>9. AttemptsAreRecorded'
    BY <1>1, <1>3, <1>8 DEF RecordInv, AttemptsAreRecorded, AnyFatal
  <1>10. ToSet(records') \ {None} = ToSet(records) \ {None}
    <2>1. \A i \in DOMAIN records' : i \in DOMAIN records \/ i = Len(records')
      BY <1>2, <1>3
    <2>2. DOMAIN records \subseteq DOMAIN records'
      BY <1>2, <1>3
    <2>. QED  BY <1>3, <2>1, <2>2 DEF ToSet
  <1>11. SafeguardsStayTyped'
    BY <1>10 DEF RecordInv, SafeguardsStayTyped
  <1>. QED  BY <1>6, <1>7, <1>9, <1>11 DEF RecordInv

(* The record of the attempt is what happened. *)
LEMMA RecordTyped ==
  ASSUME AttemptInv, step = "recording"
  PROVE  AttemptRecord \in Attempts /\ AttemptRecord # None
  <1>1. error \in Exceptions \union {None} /\ issues \in Seq(Issues)
        /\ traces \subseteq Nat \X (Paths \union {"submissions"})
    BY DEF AttemptInv, TypeInv
  <1>2. error = None => TheBundle \in Bundles
    BY BundleTyped DEF AttemptInv, TypeInv
  <1>3. AttemptRecord \in Attempts
    BY <1>1, <1>2 DEF AttemptRecord, Attempts
  <1>. QED  BY <1>3, NoneAssumption

(* The record r tells of attempt i, which ended in o. *)
Tells(r, o, i, bundles) ==
  IF o \in {"unrecorded", "died"} THEN r = None
  ELSE /\ r # None
       /\ r.status = "success" <=> o = "returned"
       /\ r.status = "success" => r.result \in bundles /\ ~ AnyFatal(r.issues)
       /\ r.status = "failed" => r.error # None
       /\ r.observed # {} /\ \A t \in r.observed : t[1] = i

(* AttemptsAreRecorded by what each record tells. *)
LEMMA RecordsTell ==
  AttemptsAreRecorded <=> \A i \in DOMAIN outcomes : Tells(records[i], outcomes[i], i, published)
  BY DEF AttemptsAreRecorded, Tells

(* The same of the next state. *)
LEMMA RecordsTellNext ==
  AttemptsAreRecorded' <=> \A i \in DOMAIN outcomes' : Tells(records'[i], outcomes'[i], i, published')
  BY DEF AttemptsAreRecorded, Tells, AnyFatal

(* One outcome more. *)
LEMMA OutcomeMore ==
  ASSUME AttemptInv, step # "idle", NEW o \in {"returned", "raised", "unrecorded", "died"}
  PROVE  LET q == Append(outcomes, o)
         IN  /\ q \in Seq({"returned", "raised", "unrecorded", "died"}) /\ Len(q) = Len(records)
             /\ DOMAIN q = DOMAIN records /\ q[Len(records)] = o
             /\ \A i \in DOMAIN q : i # Len(records) => i \in DOMAIN outcomes /\ q[i] = outcomes[i]
             /\ Len(records) \in DOMAIN records
  <1>1. /\ outcomes \in Seq({"returned", "raised", "unrecorded", "died"})
        /\ records \in Seq(Attempts \union {None}) /\ Len(records) = Len(outcomes) + 1
    BY DEF AttemptInv, TypeInv
  <1>. QED  BY <1>1

(* An attempt that left no record. *)
LEMMA Unrecorded ==
  ASSUME AttemptInv, step # "idle", NEW o \in {"unrecorded", "died"}, outcomes' = Append(outcomes, o),
         UNCHANGED <<site, records, published>>, step' = "idle", NoLocals,
         traces' \subseteq traces
  PROVE  AttemptInv'
  <1>. USE DEF AttemptInv
  <1>1. PICK q : q = Append(outcomes, o)
    OBVIOUS
  <1>2. /\ q \in Seq({"returned", "raised", "unrecorded", "died"}) /\ Len(q) = Len(records)
        /\ q[Len(records)] = o
        /\ \A i \in DOMAIN q : i # Len(records) => i \in DOMAIN outcomes /\ q[i] = outcomes[i]
    BY <1>1, OutcomeMore
  <1>3. records[Len(records)] = None
    BY DEF RunInv
  <1>4. TypeInv' /\ RunInv'
    <2>1. /\ traces' \subseteq Nat \X (Paths \union {"submissions"})
          /\ records' \in Seq(Attempts \union {None})
          /\ outcomes' \in Seq({"returned", "raised", "unrecorded", "died"})
          /\ Len(records') = Len(outcomes')
      BY <1>1, <1>2 DEF TypeInv
    <2>. QED  BY <2>1, IdleKeeps
  <1>5. AttemptsAreRecorded'
    <2>. SUFFICES ASSUME NEW i \in DOMAIN q PROVE Tells(records[i], q[i], i, published)
      BY <1>1, RecordsTellNext
    <2>1. CASE i = Len(records)
      BY <1>2, <1>3, <2>1 DEF Tells
    <2>2. CASE i # Len(records)
      <3>1. i \in DOMAIN outcomes /\ q[i] = outcomes[i]
        BY <1>2, <2>2
      <3>. QED  BY <3>1, RecordsTell DEF RecordInv
    <2>. QED  BY <2>1, <2>2
  <1>6. SafeguardsStayTyped'
    <2>1. SafeguardsStayTyped /\ UNCHANGED records
      BY DEF RecordInv
    <2>2. ToSet(records)' = ToSet(records)
      BY <2>1 DEF ToSet
    <2>. QED  BY <2>1, <2>2 DEF SafeguardsStayTyped
  <1>. QED  BY <1>4, <1>5, <1>6 DEF RecordInv

(* An attempt that left its record. *)
LEMMA Recorded ==
  ASSUME AttemptInv, step = "recording",
         outcomes' = Append(outcomes, IF error = None THEN "returned" ELSE "raised"),
         records' = [records EXCEPT ![Len(records)] = AttemptRecord],
         UNCHANGED <<site, published, traces>>, step' = "idle", NoLocals
  PROVE  AttemptInv'
  <1>. USE DEF AttemptInv
  <1>1. PICK o \in {"returned", "raised"} : o = IF error = None THEN "returned" ELSE "raised"
    OBVIOUS
  <1>2. PICK q : q = Append(outcomes, o)
    OBVIOUS
  <1>3. /\ q \in Seq({"returned", "raised", "unrecorded", "died"}) /\ Len(q) = Len(records)
        /\ q[Len(records)] = o /\ DOMAIN q = DOMAIN records /\ Len(records) \in DOMAIN records
        /\ \A i \in DOMAIN q : i # Len(records) => i \in DOMAIN outcomes /\ q[i] = outcomes[i]
    BY <1>1, <1>2, OutcomeMore
  <1>4. PICK a \in Attempts : a = AttemptRecord /\ a # None
    BY RecordTyped
  <1>5. PICK r : r = [records EXCEPT ![Len(records)] = a]
    OBVIOUS
  <1>6. /\ r \in Seq(Attempts \union {None}) /\ Len(r) = Len(records) /\ DOMAIN r = DOMAIN records
        /\ r[Len(records)] = a /\ \A i \in DOMAIN r : i # Len(records) => r[i] = records[i]
    BY <1>3, <1>5 DEF TypeInv
  <1>7. outcomes' = q /\ records' = r
    BY <1>1, <1>2, <1>4, <1>5
  <1>8. TypeInv' /\ RunInv'
    <2>1. /\ traces' \subseteq Nat \X (Paths \union {"submissions"})
          /\ records' \in Seq(Attempts \union {None})
          /\ outcomes' \in Seq({"returned", "raised", "unrecorded", "died"})
          /\ Len(records') = Len(outcomes')
      BY <1>3, <1>6, <1>7 DEF TypeInv
    <2>. QED  BY <2>1, IdleKeeps
  <1>9. /\ a.status = "success" <=> o = "returned"
        /\ a.status = "success" => a.result \in published /\ ~ AnyFatal(a.issues)
        /\ a.status = "failed" => a.error # None
        /\ a.observed # {} /\ \A t \in a.observed : t[1] = Len(records)
    <2>1. error = None => TheBundle \in published /\ ~ AnyFatal(issues)
      BY NoneFatal DEF RunInv
    <2>2. traces # {} /\ \A t \in traces : t[1] = Len(records)
      BY DEF RunInv
    <2>. QED  BY <1>1, <1>4, <2>1, <2>2 DEF AttemptRecord
  <1>10. AttemptsAreRecorded'
    <2>. SUFFICES ASSUME NEW i \in DOMAIN q PROVE Tells(r[i], q[i], i, published)
      BY <1>7, RecordsTellNext
    <2>1. CASE i = Len(records)
      <3>1. q[i] = o /\ r[i] = a /\ q[i] \notin {"unrecorded", "died"}
        BY <1>1, <1>3, <1>6, <2>1
      <3>. QED  BY <1>4, <1>9, <2>1, <3>1 DEF Tells
    <2>2. CASE i # Len(records)
      <3>1. i \in DOMAIN outcomes /\ q[i] = outcomes[i] /\ r[i] = records[i]
        BY <1>3, <1>6, <2>2
      <3>. QED  BY <3>1, RecordsTell DEF RecordInv
    <2>. QED  BY <2>1, <2>2
  <1>11. SafeguardsStayTyped'
    <2>1. ToSet(r) \subseteq ToSet(records) \union {a}
      BY <1>3, <1>6 DEF ToSet
    <2>2. Explains(a.issues, a.error)
      BY <1>4 DEF AttemptRecord, RunInv
    <2>. SUFFICES ASSUME NEW x \in ToSet(r) \ {None} PROVE Explains(x.issues, x.error)
      BY <1>7 DEF SafeguardsStayTyped, Explains, FatalCodes, SafeguardCodes
    <2>3. \A y \in ToSet(records) \ {None} : Explains(y.issues, y.error)
      BY DEF RecordInv, SafeguardsStayTyped, Explains, FatalCodes, SafeguardCodes
    <2>. QED  BY <2>1, <2>2, <2>3
  <1>. QED  BY <1>8, <1>10, <1>11 DEF RecordInv

(* The finally clause writes what happened, or leaves no record. *)
LEMMA StepWrite == ASSUME AttemptInv, WriteAttempt PROVE AttemptInv'
  <1>1. CASE UNCHANGED records /\ outcomes' = Append(outcomes, "unrecorded")
    BY <1>1, Unrecorded DEF WriteAttempt
  <1>2. CASE /\ records' = [records EXCEPT ![Len(records)] = AttemptRecord]
             /\ outcomes' = Append(outcomes, IF error = None THEN "returned" ELSE "raised")
    BY <1>2, Recorded DEF WriteAttempt
  <1>. QED  BY <1>1, <1>2 DEF WriteAttempt

(* A process that dies leaves no record. *)
LEMMA StepDies == ASSUME AttemptInv, ProcessDies PROVE AttemptInv'
  BY Unrecorded DEF ProcessDies

-----------------------------------------------------------------------------
(* The records of the attempts.                                            *)

LEMMA AttemptInit == AcquisitionInit => AttemptInv
  <1>. SUFFICES ASSUME AcquisitionInit PROVE AttemptInv
    OBVIOUS
  <1>. USE DEF AcquisitionInit
  <1>1. TypeInv
    <2>1. step \in Steps /\ step \notin Working
      BY DEF Steps, Working, Outside
    <2>2. /\ <<>> \in Seq(Issues) /\ <<>> \in Seq(Names) /\ <<>> \in Seq(Attempts \union {None})
          /\ <<>> \in Seq({"returned", "raised", "unrecorded", "died"})
      OBVIOUS
    <2>3. position \in 1 .. Len(site.listing) + 1
      BY SitesAssumption
    <2>4. payload = [p \in DOMAIN payload |-> site.size[p]] /\ DOMAIN payload \subseteq DOMAIN site.size
      OBVIOUS
    <2>5. Len(records) = Len(outcomes) + (IF step = "idle" THEN 0 ELSE 1)
      OBVIOUS
    <2>. QED  BY <2>1, <2>2, <2>3, <2>4, <2>5 DEF TypeInv
  <1>2. RunInv
    BY DEF RunInv, FatalCodes
  <1>3. RecordInv
    BY DEF RecordInv, AttemptsAreRecorded, SafeguardsStayTyped, ToSet
  <1>. QED  BY <1>1, <1>2, <1>3 DEF AttemptInv

(* Nothing changes. *)
LEMMA AttemptStutter == ASSUME AttemptInv, UNCHANGED acquisitionVars PROVE AttemptInv'
  <1>1. UNCHANGED <<site, step, position, meta, payload, issues, input, bound, error, traces,
                    records, outcomes, published>>
    BY DEF acquisitionVars, attempt, body
  <1>2. TypeInv'
    BY <1>1 DEF AttemptInv, TypeInv
  <1>3. RunInv'
    BY <1>1 DEF AttemptInv, RunInv, Explains, FatalCodes, TheBundle
  <1>4. RecordInv'
    BY <1>1 DEF AttemptInv, RecordInv, AttemptsAreRecorded, SafeguardsStayTyped, ToSet, AnyFatal
  <1>. QED  BY <1>2, <1>3, <1>4 DEF AttemptInv

(* Every step keeps the record of the attempt under way and of those       *)
(* before it.                                                              *)
LEMMA AttemptNext == ASSUME AttemptInv, [AcquisitionNext]_acquisitionVars PROVE AttemptInv'
  <1>1. CASE LookupMetadata
    BY <1>1, StepLookup, BodyKeeps DEF LookupMetadata
  <1>2. CASE StoreDiscovery
    BY <1>2, StepDiscovery, BodyKeeps DEF StoreDiscovery
  <1>3. CASE FetchIndex
    BY <1>3, StepIndex, BodyKeeps DEF FetchIndex, Indexes
  <1>4. CASE FetchEntry
    BY <1>4, StepEntry, BodyKeeps DEF FetchEntry
  <1>5. CASE CheckComplete
    BY <1>5, StepComplete, BodyKeeps DEF CheckComplete
  <1>6. CASE ReconcileInventory
    BY <1>6, StepInventory, BodyKeeps DEF ReconcileInventory
  <1>7. CASE IdentifyInput
    BY <1>7, StepInput, BodyKeeps DEF IdentifyInput
  <1>8. CASE RunClosure
    BY <1>8, StepClosure, BodyKeeps DEF RunClosure
  <1>9. CASE AssembleBundle
    BY <1>9, StepAssemble, BodyKeeps DEF AssembleBundle
  <1>10. CASE StartAcquire \/ Publish \/ WriteAttempt \/ ProcessDies
    BY <1>10, StepStart, StepPublish, StepWrite, StepDies
  <1>11. CASE UNCHANGED acquisitionVars
    BY <1>11, AttemptStutter
  <1>. QED  BY <1>1, <1>2, <1>3, <1>4, <1>5, <1>6, <1>7, <1>8, <1>9, <1>10, <1>11 DEF AcquisitionNext

(* The records and the attempt under way agree in every reachable state. *)
LEMMA AttemptInvariance == AcquisitionSpec => []AttemptInv
  <1>1. AttemptInv /\ [AcquisitionNext]_acquisitionVars => AttemptInv'
    BY AttemptNext
  <1>. QED  BY <1>1, AttemptInit, PTL DEF AcquisitionSpec

(* Every acquire that returns or raises has left a record that tells what  *)
(* happened, whichever step failed (the finally clause of acquire).        *)
THEOREM AttemptsRecorded == AcquisitionSpec => []AttemptsAreRecorded
  <1>1. AttemptInv => AttemptsAreRecorded
    BY DEF AttemptInv, RecordInv
  <1>. QED  BY <1>1, AttemptInvariance, PTL

(* An attempt that a safeguard ended says so, by the code of that          *)
(* safeguard and no other, and no other failure is reported as one (the    *)
(* handlers of fetch_put, of the directory loop and of acquire).           *)
THEOREM SafeguardsTyped == AcquisitionSpec => []SafeguardsStayTyped
  <1>1. AttemptInv => SafeguardsStayTyped
    BY DEF AttemptInv, RecordInv
  <1>. QED  BY <1>1, AttemptInvariance, PTL

-----------------------------------------------------------------------------
(* The report input of what is published.                                  *)

TypesOf(s, n) ==
  { s.rows[i].type : i \in { j \in DOMAIN s.rows : s.rows[j].name = n } }
    \union { s.sgml[i].type : i \in { j \in DOMAIN s.sgml : s.sgml[j].name = n } }

TypedInline(s, D) ==
  { n \in D \intersect Names :
      /\ KindOf[n] \in {"filer", "plain"} /\ s.content[n] = "inline"
      /\ TypesOf(s, n) \ {None} # {} /\ TypesOf(s, n) \intersect FilingFees = {} }

(* What InputIsTheInlineSet says of a bundle of the filing s. *)
InlineSet(s, b) ==
  /\ ToSet(b.input) \subseteq DOMAIN b.payload
  /\ \A n \in ToSet(b.input) : KindOf[n] \in {"filer", "plain"}
  /\ IF s.content[b.primary] = "inline"
     THEN /\ Head(b.input) = b.primary
          /\ ToSet(b.input) = TypedInline(s, DOMAIN b.payload)
          /\ \A n \in ToSet(b.input) : Cardinality(TypesOf(s, n)) = 1
     ELSE Len(b.input) = 1 /\ s.content[Head(b.input)] = "instance"

InputInv ==
  /\ step \in {"closure", "assemble", "publish"} => InlineSet(site, TheBundle)
  /\ \A b \in published : InlineSet(site, b)

(* InputIsTheInlineSet, bundle by bundle. *)
LEMMA InputMeans == InputIsTheInlineSet <=> \A b \in published : InlineSet(site, b)
  BY DEF InputIsTheInlineSet, InlineSet, InlineFiled, TypedInline, TypesGiven, TypesOf, RowsOf,
         SgmlOf, Inline

(* An attachment is a file that the filer submitted. *)
LEMMA AttachmentKinds ==
  ASSUME site \in Sites, DOMAIN payload \subseteq DOMAIN site.size, NEW n \in Attachments
  PROVE  n \in Names /\ KindOf[n] \in {"filer", "plain"}
  <1>1. n \in Names /\ KindOf[n] \in Kinds
    BY AttachmentNames, NamesAssumption
  <1>2. /\ KindOf[n] \notin {"complete", "metadata"}
        /\ SourceClass(n, [type |-> SoftType(n), described |-> FirstDescribed(n)]) = "filer_submitted"
    BY DEF Attachments
  <1>3. KindOf[n] # "rendering" /\ KindOf[n] # "sec_xbrl"
    BY <1>2 DEF SourceClass
  <1>. QED  BY <1>1, <1>2, <1>3 DEF Kinds

(* Where the rows and blocks of a name are. *)
LEMMA PlacesOf ==
  ASSUME site \in Sites, NEW n
  PROVE  /\ RowsOf(n) \in SUBSET Nat /\ IsFiniteSet(RowsOf(n))
         /\ SgmlOf(n) \in SUBSET Nat /\ IsFiniteSet(SgmlOf(n))
  <1>1. /\ Len(site.rows) \in Nat /\ DOMAIN site.rows = 1 .. Len(site.rows)
        /\ Len(site.sgml) \in Nat /\ DOMAIN site.sgml = 1 .. Len(site.sgml)
    BY SitesAssumption DEF IsSequence
  <1>2. RowsOf(n) \in SUBSET (1 .. Len(site.rows)) /\ SgmlOf(n) \in SUBSET (1 .. Len(site.sgml))
    BY <1>1 DEF RowsOf, SgmlOf
  <1>3. IsFiniteSet(1 .. Len(site.rows)) /\ IsFiniteSet(1 .. Len(site.sgml))
    BY <1>1, FS_Interval
  <1>4. IsFiniteSet(RowsOf(n)) /\ IsFiniteSet(SgmlOf(n))
    BY <1>2, <1>3, FS_Subset
  <1>. QED  BY <1>1, <1>2, <1>4

(* The least of one number. *)
LEMMA MinOfOne == ASSUME NEW i \in Nat PROVE Min({i}) = i
  <1>1. i <= i
    OBVIOUS
  <1>. QED  BY <1>1 DEF Min

(* One row, one block, one type: that is the type of the document. *)
LEMMA OneType ==
  ASSUME site \in Sites, NEW n, TypesAgree(n)
  PROVE  \E t : t # None /\ TypesOf(site, n) = {t} /\ FirstRow(n).type = t
  <1>1. PICK i : RowsOf(n) = {i}
    BY PlacesOf, FS_Singleton DEF TypesAgree
  <1>2. PICK j : SgmlOf(n) = {j}
    BY PlacesOf, FS_Singleton DEF TypesAgree
  <1>3. i \in Nat /\ j \in Nat
    BY <1>1, <1>2, PlacesOf
  <1>4. FirstRow(n) = site.rows[i] /\ FirstSgml(n) = site.sgml[j]
    BY <1>1, <1>2, <1>3, MinOfOne DEF FirstRow, FirstSgml
  <1>5. TypesOf(site, n) = { site.rows[k].type : k \in RowsOf(n) } \union { site.sgml[k].type : k \in SgmlOf(n) }
    BY DEF TypesOf, RowsOf, SgmlOf
  <1>6. TypesOf(site, n) = {site.rows[i].type, site.sgml[j].type}
    BY <1>1, <1>2, <1>5
  <1>7. site.rows[i].type # None /\ site.rows[i].type = site.sgml[j].type
    BY <1>4 DEF TypesAgree
  <1>. QED  BY <1>4, <1>6, <1>7

(* The first type given is one of those given. *)
LEMMA FirstTypedIs ==
  ASSUME NEW docs, NEW at \in SUBSET Nat, NEW i \in at, docs[i].type # None
  PROVE  FirstTyped(docs, at) # None
  <1>. DEFINE typed == { k \in at : docs[k].type # None }
  <1>1. typed \in SUBSET Nat /\ typed # {}
    OBVIOUS
  <1>2. Min(typed) \in typed
    <2>. HIDE DEF typed
    <2>. QED  BY <1>1, LeastNat
  <1>3. FirstTyped(docs, at) = docs[Min(typed)].type
    BY <1>1 DEF FirstTyped
  <1>. QED  BY <1>2, <1>3

(* A document that has a type somewhere gets one. *)
LEMMA SoftTyped ==
  ASSUME site \in Sites, NEW n, TypesOf(site, n) \ {None} # {}
  PROVE  SoftType(n) # None
  <1>1. RowsOf(n) \in SUBSET Nat /\ SgmlOf(n) \in SUBSET Nat
    BY PlacesOf
  <1>2. \/ \E i \in RowsOf(n) : site.rows[i].type # None
        \/ \E i \in SgmlOf(n) : site.sgml[i].type # None
    BY DEF TypesOf, RowsOf, SgmlOf
  <1>3. PICK R, S : R = RowsOf(n) /\ S = SgmlOf(n)
    OBVIOUS
  <1>4. PICK rows, sgml : rows = site.rows /\ sgml = site.sgml
    OBVIOUS
  <1>5. \/ FirstTyped(rows, R) # None
        \/ FirstTyped(sgml, S) # None
    BY <1>1, <1>2, <1>3, <1>4, FirstTypedIs
  <1>. QED  BY <1>3, <1>4, <1>5 DEF SoftType

(* The inline documents are those that have a type, and not that of a fee  *)
(* exhibit.                                                                *)
LEMMA InlineDocuments ==
  ASSUME site \in Sites, DOMAIN payload \subseteq DOMAIN site.size,
         \A n \in Attachments : Inline(n) => TypesAgree(n)
  PROVE  /\ InlineDocs = TypedInline(site, DOMAIN payload)
         /\ \A n \in InlineDocs : Cardinality(TypesOf(site, n)) = 1
  <1>1. ASSUME NEW n \in InlineDocs
        PROVE  n \in TypedInline(site, DOMAIN payload) /\ Cardinality(TypesOf(site, n)) = 1
    <2>1. n \in Attachments /\ Inline(n) /\ FirstRow(n).type \notin FilingFees
      BY DEF InlineDocs
    <2>2. n \in Names /\ n \in DOMAIN payload /\ KindOf[n] \in {"filer", "plain"}
      BY <2>1, AttachmentNames, AttachmentKinds
    <2>3. PICK t : t # None /\ TypesOf(site, n) = {t} /\ FirstRow(n).type = t
      BY <2>1, OneType
    <2>4. Cardinality(TypesOf(site, n)) = 1
      BY <2>3, FS_Singleton
    <2>5. TypesOf(site, n) \ {None} # {} /\ TypesOf(site, n) \intersect FilingFees = {}
      BY <2>1, <2>3
    <2>. QED  BY <2>1, <2>2, <2>4, <2>5 DEF TypedInline, Inline
  <1>2. ASSUME NEW n \in TypedInline(site, DOMAIN payload) PROVE n \in InlineDocs
    <2>1. /\ n \in Names /\ n \in DOMAIN payload /\ KindOf[n] \in {"filer", "plain"} /\ Inline(n)
          /\ TypesOf(site, n) \ {None} # {} /\ TypesOf(site, n) \intersect FilingFees = {}
      BY DEF TypedInline, Inline
    <2>2. n \in { r.name : r \in ToSet(site.rows) } \union SgmlNames
      <3>1. n # None
        BY <2>1, NoneAssumption
      <3>2. (\E i \in DOMAIN site.rows : site.rows[i].name = n) \/ (\E i \in DOMAIN site.sgml : site.sgml[i].name = n)
        BY <2>1 DEF TypesOf
      <3>. QED  BY <3>1, <3>2 DEF SgmlNames, ToSet
    <2>3. SoftType(n) # None
      BY <2>1, SoftTyped
    <2>4. SourceClass(n, [type |-> SoftType(n), described |-> FirstDescribed(n)]) = "filer_submitted"
      BY <2>1, <2>3 DEF SourceClass, Described
    <2>5. n \in Attachments
      BY <2>1, <2>2, <2>4 DEF Attachments
    <2>6. PICK t : TypesOf(site, n) = {t} /\ FirstRow(n).type = t
      BY <2>1, <2>5, OneType
    <2>. QED  BY <2>1, <2>5, <2>6 DEF InlineDocs
  <1>. QED  BY <1>1, <1>2

(* The report input that is chosen is the inline set. *)
LEMMA InputChosen ==
  ASSUME AttemptInv, IdentifyInput, step' # "recording"
  PROVE  InlineSet(site, TheBundle')
  <1>1. step = "input" /\ step \notin {"idle", "recording", "metadata"} /\ UNCHANGED <<meta, payload>>
    BY DEF IdentifyInput
  <1>2. ReportInput # None /\ input' = ReportInput
    BY DEF IdentifyInput, RaiseWith
  <1>3. site \in Sites /\ DOMAIN payload \subseteq DOMAIN site.size /\ meta.primary \in Names
    BY <1>1, BodyTypes
  <1>4. PICK b : b = TheBundle'
    OBVIOUS
  <1>5. b.primary = meta.primary /\ b.payload = payload /\ b.input = ReportInput
    BY <1>1, <1>2, <1>4 DEF TheBundle
  <1>6. CASE Inline(meta.primary)
    <2>1. ToSet(b.input) = InlineDocs /\ Head(b.input) = b.primary
          /\ \A n \in Attachments : Inline(n) => TypesAgree(n)
      BY <1>2, <1>3, <1>5, <1>6, ReportDocuments
    <2>2. InlineDocs = TypedInline(site, DOMAIN payload) /\ \A n \in InlineDocs : Cardinality(TypesOf(site, n)) = 1
      BY <1>3, <2>1, InlineDocuments
    <2>3. \A n \in InlineDocs : n \in DOMAIN payload /\ KindOf[n] \in {"filer", "plain"}
      BY <2>2 DEF TypedInline
    <2>4. site.content[b.primary] = "inline"
      BY <1>5, <1>6 DEF Inline
    <2>5. InlineSet(site, b)
      BY <1>5, <2>1, <2>2, <2>3, <2>4 DEF InlineSet
    <2>. QED  BY <1>4, <2>5
  <1>7. CASE ~ Inline(meta.primary)
    <2>1. PICK x \in Instances : b.input = <<x>>
      BY <1>2, <1>3, <1>5, <1>7, ReportDocuments
    <2>2. x \in Attachments /\ site.content[x] = "instance" /\ x \in DOMAIN payload
      BY <1>3, AttachmentNames DEF Instances
    <2>3. KindOf[x] \in {"filer", "plain"}
      BY <1>3, <2>2, AttachmentKinds
    <2>4. ToSet(b.input) = {x} /\ Head(b.input) = x /\ Len(b.input) = 1
      BY <2>1 DEF ToSet
    <2>5. site.content[b.primary] # "inline"
      BY <1>5, <1>7 DEF Inline
    <2>6. InlineSet(site, b)
      BY <1>5, <2>2, <2>3, <2>4, <2>5 DEF InlineSet
    <2>. QED  BY <1>4, <2>6
  <1>. QED  BY <1>6, <1>7

(* Documents from outside of the accession do not change that. *)
LEMMA InputExtended ==
  ASSUME NEW s \in Sites, NEW E \in SUBSET s.externals, NEW b, NEW c, InlineSet(s, b),
         c.primary = b.primary, c.input = b.input, DOMAIN c.payload = DOMAIN b.payload \union E
  PROVE  InlineSet(s, c)
  <1>1. E \intersect Names = {}
    BY SitesAssumption
  <1>2. TypedInline(s, DOMAIN c.payload) = TypedInline(s, DOMAIN b.payload)
    BY <1>1 DEF TypedInline
  <1>. QED  BY <1>2 DEF InlineSet

(* Every step keeps the report input the inline set. *)
LEMMA InputNext == ASSUME AttemptInv, InputInv, [AcquisitionNext]_acquisitionVars PROVE InputInv'
  <1>1. site' = site /\ site \in Sites
    BY DEF AcquisitionNext, StartAcquire, LookupMetadata, StoreDiscovery, FetchIndex, FetchEntry, CheckComplete,
           ReconcileInventory, IdentifyInput, RunClosure, AssembleBundle, Publish, WriteAttempt, ProcessDies,
           acquisitionVars, AttemptInv, TypeInv
  <1>2. CASE Publish
    <2>1. step = "publish" /\ step' = "recording" /\ published' \in {published, published \union {TheBundle}}
      BY <1>2 DEF Publish, Advance, Raise, RaiseWith
    <2>2. \A b \in published' : InlineSet(site, b)
      BY <2>1 DEF InputInv
    <2>. QED  BY <1>1, <2>1, <2>2 DEF InputInv
  <1>3. CASE ~ Publish
    <2>1. published' = published
      BY <1>3 DEF AcquisitionNext, StartAcquire, LookupMetadata, StoreDiscovery, FetchIndex, FetchEntry,
           CheckComplete, ReconcileInventory, IdentifyInput, RunClosure, AssembleBundle, WriteAttempt,
           ProcessDies, acquisitionVars
    <2>2. ASSUME step' \in {"closure", "assemble", "publish"} PROVE InlineSet(site, TheBundle')
      <3>1. CASE IdentifyInput
        BY <2>2, <3>1, InputChosen
      <3>2. CASE RunClosure
        <4>1. step = "closure" /\ UNCHANGED <<meta, input>>
          BY <3>2 DEF RunClosure
        <4>2. InlineSet(site, TheBundle)
          BY <4>1 DEF InputInv
        <4>3. PICK E \in SUBSET site.externals : DOMAIN payload' = DOMAIN payload \union E
          <5>1. CASE UNCHANGED payload
            <6>1. {} \in SUBSET site.externals /\ DOMAIN payload' = DOMAIN payload \union {}
              BY <5>1
            <6>. QED  BY <6>1
          <5>2. CASE \E E \in SUBSET site.externals : payload' = WithExternals(E)
            BY <5>2 DEF WithExternals
          <5>. QED  BY <3>2, <5>1, <5>2, StepClosure
        <4>4. PICK b, c : b = TheBundle /\ c = TheBundle'
          OBVIOUS
        <4>5. c.primary = b.primary /\ c.input = b.input /\ DOMAIN c.payload = DOMAIN b.payload \union E
          BY <4>1, <4>3, <4>4 DEF TheBundle
        <4>6. InlineSet(site, c)
          BY <1>1, <4>2, <4>4, <4>5, InputExtended
        <4>. QED  BY <4>4, <4>6
      <3>3. CASE AssembleBundle \/ UNCHANGED acquisitionVars
        <4>1. step \in {"closure", "assemble", "publish"} /\ UNCHANGED <<meta, payload, input>>
          BY <2>2, <3>3 DEF AssembleBundle, acquisitionVars, attempt, body
        <4>. QED  BY <4>1 DEF InputInv, TheBundle
      <3>4. CASE StartAcquire \/ LookupMetadata \/ StoreDiscovery \/ CheckComplete \/ ReconcileInventory
                 \/ WriteAttempt \/ ProcessDies
        BY <2>2, <3>4 DEF StartAcquire, LookupMetadata, StoreDiscovery, CheckComplete, ReconcileInventory,
           WriteAttempt, ProcessDies, Raise, RaiseWith, Advance
      <3>5. CASE FetchIndex \/ FetchEntry
        BY <2>2, <3>5 DEF FetchIndex, FetchEntry, FetchPut, Raise, RaiseWith, Advance
      <3>. QED  BY <1>3, <3>1, <3>2, <3>3, <3>4, <3>5 DEF AcquisitionNext
    <2>. QED  BY <1>1, <2>1, <2>2 DEF InputInv
  <1>. QED  BY <1>2, <1>3

(* The report input of a published bundle is its inline set: every inline  *)
(* document that has a type other than that of a fee exhibit, the primary  *)
(* document first; or one instance document (identify_report_input).       *)
THEOREM InputIsInline == AcquisitionSpec => []InputIsTheInlineSet
  <1>1. AcquisitionInit => InputInv
    BY DEF AcquisitionInit, InputInv
  <1>2. AttemptInv /\ InputInv /\ [AcquisitionNext]_acquisitionVars => InputInv'
    BY InputNext
  <1>3. InputInv => InputIsTheInlineSet
    BY InputMeans DEF InputInv
  <1>. QED  BY <1>1, <1>2, <1>3, AttemptInvariance, PTL DEF AcquisitionSpec

-----------------------------------------------------------------------------
(* The bytes of a payload.                                                 *)

(* The bytes of a payload are a sum. *)
LEMMA BytesAreSum == ASSUME NEW p PROVE Bytes(p) = SumOf(p, DOMAIN p)
  BY DEF Bytes, SumOf, MapThenSumSet, MapThenFoldSet

(* The bytes of external documents are a sum. *)
LEMMA ExternalsAreSum == ASSUME NEW E PROVE ExternalBytes(E) = SumOf(site.size, E)
  BY DEF ExternalBytes, SumOf, MapThenSumSet, MapThenFoldSet

(* A filing has finitely many files, each of some bytes. *)
LEMMA SiteSizes ==
  ASSUME site \in Sites
  PROVE  IsFiniteSet(DOMAIN site.size) /\ \A p \in DOMAIN site.size : site.size[p] \in Nat
  BY SitesAssumption

(* The bytes of a part of the filing, and that they are no more than its   *)
(* own.                                                                    *)
LEMMA BytesOfFiles ==
  ASSUME site \in Sites, NEW q, Sized(q)
  PROVE  /\ Bytes(q) = SumOf(site.size, DOMAIN q) /\ Bytes(q) \in Nat /\ IsFiniteSet(DOMAIN q)
         /\ Bytes(q) <= Bytes(site.size)
  <1>1. PICK w : w = site.size
    OBVIOUS
  <1>2. PICK D : D = DOMAIN q
    OBVIOUS
  <1>3. /\ IsFiniteSet(DOMAIN w) /\ (\A p \in DOMAIN w : w[p] \in Nat) /\ D \in SUBSET (DOMAIN w)
        /\ \A p \in D : q[p] = w[p]
    BY <1>1, <1>2, SiteSizes DEF Sized
  <1>4. IsFiniteSet(D)
    BY <1>3, FS_Subset
  <1>5. SumOf(q, D) = SumOf(w, D)
    BY <1>3, <1>4, SumOfSame
  <1>6. SumOf(w, D) \in Nat
    BY <1>3, <1>4, SumOfNat
  <1>7. SumOf(w, D) <= SumOf(w, DOMAIN w)
    BY <1>3, SumOfPart
  <1>8. Bytes(q) = SumOf(w, D) /\ Bytes(w) = SumOf(w, DOMAIN w)
    BY <1>2, <1>5, BytesAreSum
  <1>. QED  BY <1>1, <1>2, <1>4, <1>6, <1>7, <1>8

(* One file more. *)
LEMMA BytesWithMember ==
  ASSUME site \in Sites, Sized(payload), NEW path \in DOMAIN site.size, path \notin DOMAIN payload
  PROVE  /\ Bytes(WithMember(path, site.size[path])) = Bytes(payload) + site.size[path]
         /\ Bytes(payload) + site.size[path] <= Bytes(site.size)
  <1>1. PICK w : w = site.size
    OBVIOUS
  <1>2. PICK q : q = WithMember(path, site.size[path])
    OBVIOUS
  <1>3. Sized(q) /\ DOMAIN q = DOMAIN payload \union {path}
    BY <1>2, MemberIsSized
  <1>4. Bytes(q) = SumOf(w, DOMAIN q) /\ Bytes(q) <= Bytes(w)
    BY <1>1, <1>3, BytesOfFiles
  <1>5. PICK D : D = DOMAIN payload
    OBVIOUS
  <1>6. Bytes(payload) = SumOf(w, D) /\ IsFiniteSet(D) /\ D \subseteq DOMAIN w
    BY <1>1, <1>5, BytesOfFiles DEF Sized
  <1>7. SumOf(w, D \union {path}) = SumOf(w, D) + w[path]
    BY <1>1, <1>5, <1>6, SiteSizes, SumOfMore
  <1>8. Bytes(q) = Bytes(payload) + w[path]
    BY <1>3, <1>4, <1>5, <1>6, <1>7
  <1>. QED  BY <1>1, <1>2, <1>4, <1>8

(* External documents more. *)
LEMMA BytesWithExternals ==
  ASSUME site \in Sites, Sized(payload), NEW E \in SUBSET site.externals, E \intersect DOMAIN payload = {}
  PROVE  /\ Bytes(WithExternals(E)) = Bytes(payload) + ExternalBytes(E) /\ ExternalBytes(E) \in Nat
         /\ Bytes(payload) + ExternalBytes(E) <= Bytes(site.size)
  <1>1. PICK w : w = site.size
    OBVIOUS
  <1>2. PICK q : q = WithExternals(E)
    OBVIOUS
  <1>3. Sized(q) /\ DOMAIN q = DOMAIN payload \union E
    BY <1>2, ExternalsAreSized
  <1>4. Bytes(q) = SumOf(w, DOMAIN q) /\ Bytes(q) <= Bytes(w)
    BY <1>1, <1>3, BytesOfFiles
  <1>5. PICK D : D = DOMAIN payload
    OBVIOUS
  <1>6. Bytes(payload) = SumOf(w, D) /\ IsFiniteSet(D) /\ D \subseteq DOMAIN w
    BY <1>1, <1>5, BytesOfFiles DEF Sized
  <1>7. IsFiniteSet(DOMAIN w) /\ E \in SUBSET (DOMAIN w) /\ \A p \in DOMAIN w : w[p] \in Nat
    BY <1>1, SitesAssumption
  <1>8. IsFiniteSet(E)
    BY <1>7, FS_Subset
  <1>9. SumOf(w, D \union E) = SumOf(w, D) + SumOf(w, E)
    BY <1>5, <1>6, <1>7, <1>8, SumOfDisjoint
  <1>10. ExternalBytes(E) = SumOf(w, E) /\ SumOf(w, E) \in Nat
    BY <1>1, <1>7, <1>8, ExternalsAreSum, SumOfNat
  <1>11. Bytes(q) = Bytes(payload) + ExternalBytes(E)
    BY <1>3, <1>4, <1>5, <1>6, <1>9, <1>10
  <1>. QED  BY <1>1, <1>2, <1>4, <1>10, <1>11

(* The smaller of two limits. *)
LEMMA SmallerLimit ==
  ASSUME NEW a \in Int, NEW b \in Int
  PROVE  Min({a, b}) = IF a <= b THEN a ELSE b
  <1>1. CASE a <= b
    <2>1. Min({a, b}) \in {a, b} /\ Min({a, b}) <= a
      BY <1>1 DEF Min
    <2>. QED  BY <1>1, <2>1
  <1>2. CASE b < a
    <2>1. Min({a, b}) \in {a, b} /\ Min({a, b}) <= b
      BY <1>2 DEF Min
    <2>. QED  BY <1>2, <2>1
  <1>. QED  BY <1>1, <1>2

(* A fetch into the payload that succeeds fits; one that a limit refused   *)
(* met a resource that does not.                                           *)
LEMMA FetchPutFits ==
  ASSUME NEW size \in Nat, Remaining \in Int, NEW o \in FetchPutOutcomes(size)
  PROVE  /\ o = "ok" => size <= MaxFile /\ size <= Remaining
         /\ o # "SIZE_LIMIT"
         /\ o = "MAX_FILE_BYTES_EXCEEDED" => size > MaxFile
         /\ o = "MAX_BUNDLE_BYTES_EXCEEDED" => Remaining <= 0 \/ size > Remaining
  <1>1. PICK limit : limit = Min({MaxFile, Remaining})
    OBVIOUS
  <1>2. MaxFile \in Int /\ limit = IF MaxFile <= Remaining THEN MaxFile ELSE Remaining
    BY <1>1, NamesAssumption, SmallerLimit
  <1>3. CASE limit <= 0
    <2>1. o = "MAX_BUNDLE_BYTES_EXCEEDED"
      BY <1>1, <1>3 DEF FetchPutOutcomes
    <2>2. Remaining <= 0
      BY <1>2, <1>3, NamesAssumption
    <2>. QED  BY <2>1, <2>2
  <1>4. CASE ~ (limit <= 0)
    <2>1. PICK u \in FetchOutcomes(size, limit) : o = IF u = "SIZE_LIMIT" THEN LimitReached(limit) ELSE u
      BY <1>1, <1>4 DEF FetchPutOutcomes
    <2>2. u = "ok" => ~ (size > limit)
      BY DEF FetchOutcomes
    <2>3. u = "SIZE_LIMIT" => size > limit
      BY DEF FetchOutcomes
    <2>4. u \in {"SIZE_LIMIT", "ok", "absent", "failed", "DESTINATION_FORBIDDEN", "MAX_REDIRECTS_EXCEEDED"}
      BY DEF FetchOutcomes
    <2>5. CASE u = "SIZE_LIMIT"
      <3>1. CASE limit < MaxFile
        <4>1. o = "MAX_BUNDLE_BYTES_EXCEEDED" /\ limit = Remaining
          BY <1>2, <2>1, <2>5, <3>1 DEF LimitReached
        <4>. QED  BY <2>3, <2>5, <4>1
      <3>2. CASE ~ (limit < MaxFile)
        <4>1. o = "MAX_FILE_BYTES_EXCEEDED" /\ limit = MaxFile
          BY <1>2, <2>1, <2>5, <3>2 DEF LimitReached
        <4>. QED  BY <2>3, <2>5, <4>1
      <3>. QED  BY <3>1, <3>2
    <2>6. CASE u # "SIZE_LIMIT"
      <3>1. o = u
        BY <2>1, <2>6
      <3>2. o = "ok" => size <= MaxFile /\ size <= Remaining
        BY <1>2, <2>2, <3>1
      <3>3. o \notin {"SIZE_LIMIT", "MAX_FILE_BYTES_EXCEEDED", "MAX_BUNDLE_BYTES_EXCEEDED"}
        BY <2>4, <2>6, <3>1
      <3>. QED  BY <3>2, <3>3
    <2>. QED  BY <2>5, <2>6
  <1>. QED  BY <1>3, <1>4

-----------------------------------------------------------------------------
(* The budget.                                                             *)

(* What the payload holds at each step.  The exact sets matter: that the   *)
(* path of a fetch is new makes a refusal for the budget one that the      *)
(* filing deserves.                                                        *)
StoredAt(at, D) ==
  /\ at \in {"idle", "metadata", "discovery"} => D = {}
  /\ at = "index.json" => D = {"discovery.json"}
  /\ at = "index.html" => D = {"discovery.json", "index.json"}
  /\ at = "index-headers" => D = {"discovery.json", "index.json", "index.html"}
  /\ at \in {"directory", "inventory", "input", "closure"} => D \subseteq Names \union Fixed
  /\ at \in {"directory", "inventory", "input", "closure", "assemble", "publish"} =>
       {"discovery.json", "index.json", "index.html"} \subseteq D

Fits(p) == Bytes(p) <= MaxBundle /\ \A q \in DOMAIN p : p[q] <= MaxFile \/ q \in site.externals

PayloadInv == StoredAt(step, DOMAIN payload) /\ Fits(payload)

(* A refusal for the size met a filing that does not fit. *)
Excused(e) ==
  LET sizes == { site.size[p] : p \in DOMAIN site.size } \union {site.blockSize}
  IN  /\ e \in {"MAX_FILE_BYTES_EXCEEDED", "SIZE_LIMIT"} => \E s \in sizes : s > MaxFile
      /\ e = "MAX_BUNDLE_BYTES_EXCEEDED" => Bytes(site.size) >= MaxBundle

ExcuseInv ==
  /\ step = "recording" => Excused(error)
  /\ \A r \in ToSet(records) \ {None} : Excused(r.error)

(* The budget that is left. *)
LEMMA BudgetLeft ==
  ASSUME site \in Sites, Sized(payload)
  PROVE  /\ Bytes(payload) \in Nat /\ Bytes(site.size) \in Nat /\ MaxBundle \in Nat /\ MaxFile \in Nat
         /\ Remaining \in Int /\ Remaining = MaxBundle - Bytes(payload)
         /\ Bytes(payload) <= Bytes(site.size)
  <1>1. Bytes(payload) \in Nat /\ Bytes(payload) <= Bytes(site.size)
    BY BytesOfFiles
  <1>2. Bytes(site.size) \in Nat
    <2>1. PICK w : w = site.size
      OBVIOUS
    <2>2. SumOf(w, DOMAIN w) \in Nat
      BY <2>1, SiteSizes, SumOfNat
    <2>. QED  BY <2>1, <2>2, BytesAreSum
  <1>. QED  BY <1>1, <1>2, NamesAssumption DEF Remaining

(* A file more that fits. *)
LEMMA FitsWithMember ==
  ASSUME site \in Sites, Sized(payload), Fits(payload), NEW path \in DOMAIN site.size,
         path \notin DOMAIN payload, site.size[path] <= MaxFile, site.size[path] <= Remaining
  PROVE  Fits(WithMember(path, site.size[path]))
  <1>1. PICK q : q = WithMember(path, site.size[path])
    OBVIOUS
  <1>2. PICK n \in Nat : n = site.size[path]
    BY SiteSizes
  <1>3. Bytes(q) = Bytes(payload) + n
    BY <1>1, <1>2, BytesWithMember
  <1>4. Bytes(q) <= MaxBundle
    BY <1>2, <1>3, BudgetLeft
  <1>5. \A p \in DOMAIN q : q[p] <= MaxFile \/ p \in site.externals
    BY <1>1 DEF WithMember, Fits
  <1>6. Fits(q)
    BY <1>4, <1>5 DEF Fits
  <1>. QED  BY <1>1, <1>6

(* A refusal that the filing deserves. *)
LEMMA RefusalDeserved ==
  ASSUME site \in Sites, Sized(payload), NEW path \in DOMAIN site.size, path \notin DOMAIN payload, NEW e,
         e # "SIZE_LIMIT", e = "MAX_FILE_BYTES_EXCEEDED" => site.size[path] > MaxFile,
         e = "MAX_BUNDLE_BYTES_EXCEEDED" => Remaining <= 0 \/ site.size[path] > Remaining
  PROVE  Excused(e)
  <1>1. e = "MAX_FILE_BYTES_EXCEEDED" => \E p \in DOMAIN site.size : site.size[p] > MaxFile
    OBVIOUS
  <1>2. ASSUME e = "MAX_BUNDLE_BYTES_EXCEEDED" PROVE Bytes(site.size) >= MaxBundle
    <2>1. CASE Remaining <= 0
      BY <2>1, BudgetLeft
    <2>2. CASE site.size[path] > Remaining
      <3>1. PICK n \in Nat : n = site.size[path]
        BY SiteSizes
      <3>2. Bytes(payload) + n <= Bytes(site.size)
        BY <3>1, BytesWithMember
      <3>. QED  BY <2>2, <3>1, <3>2, BudgetLeft
    <2>. QED  BY <1>2, <2>1, <2>2
  <1>. QED  BY <1>1, <1>2 DEF Excused

(* A fetch into the payload stores what fits, or fails. *)
LEMMA FetchPutStores ==
  ASSUME AttemptInv, PayloadInv, step \in Working, NEW path \in DOMAIN site.size, path \notin DOMAIN payload,
         NEW optional, NEW next, NEW s, FetchPut(path, site.size[path], optional, next, s)
  PROVE  \/ step' = next /\ DOMAIN payload' = DOMAIN payload \union {path} /\ Fits(payload')
         \/ step' = next /\ optional /\ UNCHANGED payload
         \/ step' = "recording" /\ UNCHANGED payload /\ Excused(error')
  <1>1. step \notin {"idle", "recording"}
    BY DEF Working, Outside
  <1>2. site \in Sites /\ Sized(payload)
    BY <1>1, BodyTypes DEF Sized
  <1>3. Remaining \in Int
    BY <1>2, BudgetLeft
  <1>4. PICK size \in Nat : size = site.size[path]
    BY <1>2, SiteSizes
  <1>5. PICK o \in FetchPutOutcomes(size) :
       \/ /\ o = "ok"
          /\ payload' = WithMember(path, size)
          /\ Advance(next) /\ UNCHANGED issues
       \/ /\ o = "absent" /\ optional
          /\ issues' = Append(issues, Warning("OPTIONAL_ARTIFACT_MISSING"))
          /\ Advance(next) /\ UNCHANGED payload
       \/ /\ o \in Safeguards
          /\ Raise(o) /\ UNCHANGED payload
       \/ /\ o = "failed" \/ (o = "absent" /\ ~ optional)
          /\ RaiseWith(o, s) /\ UNCHANGED payload
    BY <1>4 DEF FetchPut
  <1>6. /\ o = "ok" => size <= MaxFile /\ size <= Remaining
        /\ o # "SIZE_LIMIT"
        /\ o = "MAX_FILE_BYTES_EXCEEDED" => size > MaxFile
        /\ o = "MAX_BUNDLE_BYTES_EXCEEDED" => Remaining <= 0 \/ size > Remaining
    BY <1>3, FetchPutFits
  <1>7. CASE o = "ok" /\ payload' = WithMember(path, size) /\ Advance(next)
    <2>1. Fits(WithMember(path, size))
      BY <1>2, <1>4, <1>6, <1>7, FitsWithMember DEF PayloadInv
    <2>2. DOMAIN WithMember(path, size) = DOMAIN payload \union {path}
      BY DEF WithMember
    <2>. QED  BY <1>7, <2>1, <2>2 DEF Advance
  <1>8. CASE optional /\ Advance(next) /\ UNCHANGED payload
    BY <1>8 DEF Advance
  <1>9. CASE (Raise(o) \/ RaiseWith(o, s)) /\ UNCHANGED payload
    <2>1. step' = "recording" /\ error' = o
      BY <1>9 DEF Raise, RaiseWith
    <2>2. Excused(o)
      BY <1>2, <1>4, <1>6, RefusalDeserved
    <2>. QED  BY <1>9, <2>1, <2>2
  <1>. QED  BY <1>5, <1>7, <1>8, <1>9

(* What every step keeps of the budget. *)
BudgetKept ==
  /\ StoredAt(step', DOMAIN payload') /\ Fits(payload')
  /\ step' = "recording" => Excused(error')

(* Failures that no limit is to blame for. *)
LEMMA NoLimitExcused ==
  ASSUME NEW e, e \notin {"MAX_FILE_BYTES_EXCEEDED", "SIZE_LIMIT", "MAX_BUNDLE_BYTES_EXCEEDED"}
  PROVE  Excused(e)
  BY DEF Excused

(* A failure with an excuse keeps the budget. *)
LEMMA RaisedKeepsBudget ==
  ASSUME PayloadInv, step' = "recording", UNCHANGED payload, Excused(error')
  PROVE  BudgetKept
  BY DEF PayloadInv, BudgetKept, StoredAt

(* The lookup of the metadata: only a block too large is refused for its   *)
(* size.                                                                   *)
LEMMA BudgetLookup == ASSUME AttemptInv, PayloadInv, LookupMetadata PROVE BudgetKept
  <1>1. step = "metadata" /\ step \notin {"idle", "recording"} /\ UNCHANGED payload
    BY DEF LookupMetadata
  <1>2. ASSUME NEW o \in FetchOutcomes(site.blockSize, MaxFile) \ {"ok"}, Raise(o) PROVE BudgetKept
    <2>1. step' = "recording" /\ error' = o
      BY <1>2 DEF Raise, RaiseWith
    <2>2. o = "SIZE_LIMIT" => site.blockSize > MaxFile
      BY DEF FetchOutcomes
    <2>3. o \notin {"MAX_FILE_BYTES_EXCEEDED", "MAX_BUNDLE_BYTES_EXCEEDED"}
      BY DEF FetchOutcomes
    <2>4. Excused(o)
      BY <2>2, <2>3 DEF Excused
    <2>. QED  BY <1>1, <2>1, <2>4, RaisedKeepsBudget
  <1>3. ASSUME NEW r, Rejection(r) # None, Raise(Rejection(r)) PROVE BudgetKept
    <2>1. PICK e : e = Rejection(r)
      OBVIOUS
    <2>2. e \in {"LookupError", "ValueError"}
      BY <1>3, <2>1 DEF Rejection
    <2>3. step' = "recording" /\ error' = e
      BY <1>3, <2>1 DEF Raise, RaiseWith
    <2>4. Excused(e)
      BY <2>2, NoLimitExcused
    <2>. QED  BY <1>1, <2>3, <2>4, RaisedKeepsBudget
  <1>4. ASSUME Advance("discovery") PROVE BudgetKept
    BY <1>1, <1>4 DEF Advance, BudgetKept, PayloadInv, StoredAt
  <1>5. PICK r : r = site.blocks[Max(BlocksRead)]
    OBVIOUS
  <1>6. \/ \E o \in FetchOutcomes(site.blockSize, MaxFile) \ {"ok"} : Raise(o)
        \/ Rejection(r) # None /\ Raise(Rejection(r))
        \/ Advance("discovery")
    BY <1>5 DEF LookupMetadata
  <1>. QED  BY <1>2, <1>3, <1>4, <1>6

(* Storing discovery.json: within both limits, or refused by the one it    *)
(* exceeds.                                                                *)
LEMMA BudgetDiscovery == ASSUME AttemptInv, PayloadInv, StoreDiscovery PROVE BudgetKept
  <1>1. step = "discovery" /\ step \notin {"idle", "recording"}
    BY DEF StoreDiscovery
  <1>2. PICK path : path = "discovery.json"
    OBVIOUS
  <1>3. /\ site \in Sites /\ Sized(payload) /\ path \in DOMAIN site.size /\ DOMAIN payload = {}
        /\ Fits(payload)
    BY <1>1, <1>2, BodyTypes, SitesAssumption DEF Sized, Fixed, PayloadInv, StoredAt
  <1>4. path \notin DOMAIN payload
    BY <1>3
  <1>5. PICK size \in Nat : size = site.size[path]
    BY <1>3, SiteSizes
  <1>6. MaxFile \in Nat /\ Remaining \in Int
    BY <1>3, BudgetLeft
  <1>7. CASE size > MaxFile
    <2>1. step' = "recording" /\ UNCHANGED payload /\ error' = "MAX_FILE_BYTES_EXCEEDED"
      BY <1>2, <1>5, <1>7 DEF StoreDiscovery, Raise, RaiseWith
    <2>2. PICK e : e = error'
      OBVIOUS
    <2>3. Excused(e)
      BY <1>3, <1>4, <1>5, <1>7, <2>1, <2>2, RefusalDeserved
    <2>. QED  BY <2>1, <2>2, <2>3, RaisedKeepsBudget
  <1>8. CASE ~ (size > MaxFile) /\ size > Remaining
    <2>1. step' = "recording" /\ UNCHANGED payload /\ error' = "MAX_BUNDLE_BYTES_EXCEEDED"
      BY <1>2, <1>5, <1>8 DEF StoreDiscovery, Raise, RaiseWith
    <2>2. PICK e : e = error'
      OBVIOUS
    <2>3. Excused(e)
      BY <1>3, <1>4, <1>5, <1>8, <2>1, <2>2, RefusalDeserved
    <2>. QED  BY <2>1, <2>2, <2>3, RaisedKeepsBudget
  <1>9. CASE ~ (size > MaxFile) /\ ~ (size > Remaining)
    <2>1. step' = "index.json" /\ payload' = WithMember(path, size)
      BY <1>2, <1>5, <1>9 DEF StoreDiscovery, Advance
    <2>2. Fits(WithMember(path, size))
      BY <1>3, <1>4, <1>5, <1>6, <1>9, FitsWithMember
    <2>3. DOMAIN payload' = {"discovery.json"}
      BY <1>2, <1>3, <2>1 DEF WithMember
    <2>. QED  BY <2>1, <2>2, <2>3 DEF BudgetKept, StoredAt
  <1>. QED  BY <1>7, <1>8, <1>9

(* Fetching an index, which is not in the payload yet. *)
LEMMA BudgetIndex == ASSUME AttemptInv, PayloadInv, FetchIndex PROVE BudgetKept
  <1>1. step \in Indexes /\ step \notin {"idle", "recording"} /\ step \in Working
    BY DEF FetchIndex, Indexes, Working, Outside, Steps
  <1>2. step \in DOMAIN site.size /\ step \notin DOMAIN payload
    <2>1. step \in DOMAIN site.size
      BY <1>1, BodyTypes, SitesAssumption DEF Fixed
    <2>2. step \notin DOMAIN payload
      BY <1>1 DEF PayloadInv, StoredAt, Indexes
    <2>. QED  BY <2>1, <2>2
  <1>3. PICK path, next :
          /\ path = step
          /\ next = CASE step = "index.json" -> "index.html"
                      [] step = "index.html" -> "index-headers"
                      [] OTHER               -> "directory"
    OBVIOUS
  <1>4. PICK optional, s : optional = (step = "index-headers") /\ s = issues
    OBVIOUS
  <1>5. FetchPut(path, site.size[path], optional, next, s)
    BY <1>3, <1>4 DEF FetchIndex
  <1>6. \/ step' = next /\ DOMAIN payload' = DOMAIN payload \union {path} /\ Fits(payload')
        \/ step' = next /\ optional /\ UNCHANGED payload
        \/ step' = "recording" /\ UNCHANGED payload /\ Excused(error')
    <2>1. path \in DOMAIN site.size /\ path \notin DOMAIN payload /\ step \in Working
      BY <1>1, <1>2, <1>3
    <2>. QED  BY <1>5, <2>1, FetchPutStores
  <1>7. CASE step' = next /\ DOMAIN payload' = DOMAIN payload \union {path} /\ Fits(payload')
    <2>1. CASE step = "index.json"
      BY <1>3, <1>7, <2>1 DEF BudgetKept, StoredAt, PayloadInv
    <2>2. CASE step = "index.html"
      BY <1>3, <1>7, <2>2 DEF BudgetKept, StoredAt, PayloadInv
    <2>3. CASE step = "index-headers"
      BY <1>3, <1>7, <2>3 DEF BudgetKept, StoredAt, PayloadInv, Fixed, Indexes
    <2>. QED  BY <1>1, <2>1, <2>2, <2>3 DEF Indexes
  <1>8. CASE step' = next /\ optional /\ UNCHANGED payload
    <2>1. step = "index-headers" /\ next = "directory"
      BY <1>3, <1>4, <1>8
    <2>. QED  BY <1>8, <2>1 DEF BudgetKept, StoredAt, PayloadInv, Fixed, Indexes
  <1>9. CASE step' = "recording" /\ UNCHANGED payload /\ Excused(error')
    BY <1>9, RaisedKeepsBudget
  <1>. QED  BY <1>6, <1>7, <1>8, <1>9

(* The entry of the directory that is fetched. *)
LEMMA EntryIs ==
  ASSUME AttemptInv, FetchEntry
  PROVE  /\ step = "directory" /\ step \in Working /\ position' = position + 1
         /\ site.listing \in Seq(Names) /\ position \in 1 .. Len(site.listing)
         /\ Entry \in Names /\ Entry \in DOMAIN site.size
  <1>1. step = "directory" /\ step \notin {"idle", "recording", "metadata"} /\ step \in Working
    BY DEF FetchEntry, Working, Outside, Steps
  <1>2. site.listing \in Seq(Names) /\ Names \subseteq DOMAIN site.size
    BY <1>1, BodyTypes, SitesAssumption
  <1>3. position \in 1 .. Len(site.listing) + 1 /\ position <= Len(site.listing) /\ position' = position + 1
    BY <1>1, BodyTypes DEF FetchEntry
  <1>4. position \in 1 .. Len(site.listing)
    BY <1>2, <1>3
  <1>. QED  BY <1>1, <1>2, <1>3, <1>4 DEF Entry

(* What a step of the walk through the directory does. *)
LEMMA EntryEffect ==
  ASSUME AttemptInv, PayloadInv, FetchEntry
  PROVE  \/ step' = "directory" /\ Entry \in DOMAIN payload /\ UNCHANGED payload
         \/ step' = "directory" /\ DOMAIN payload' = DOMAIN payload \union {Entry} /\ Fits(payload')
         \/ step' = "directory" /\ MayBeAbsent(Entry) /\ UNCHANGED payload
         \/ step' = "recording" /\ UNCHANGED payload /\ Excused(error')
  <1>1. CASE Entry \in DOMAIN payload
    BY <1>1, EntryIs DEF FetchEntry
  <1>2. CASE Entry \notin DOMAIN payload
    <2>1. PICK path, optional, s : path = Entry /\ optional = MayBeAbsent(Entry) /\ s = WhenFailed(Entry)
      OBVIOUS
    <2>2. FetchPut(path, site.size[path], optional, "directory", s)
      BY <1>2, <2>1 DEF FetchEntry
    <2>3. path \in DOMAIN site.size /\ path \notin DOMAIN payload /\ step \in Working
      BY <1>2, <2>1, EntryIs
    <2>4. \/ step' = "directory" /\ DOMAIN payload' = DOMAIN payload \union {path} /\ Fits(payload')
          \/ step' = "directory" /\ optional /\ UNCHANGED payload
          \/ step' = "recording" /\ UNCHANGED payload /\ Excused(error')
      BY <2>2, <2>3, FetchPutStores
    <2>. QED  BY <2>1, <2>4
  <1>. QED  BY <1>1, <1>2

(* Fetching an entry of the directory. *)
LEMMA BudgetEntry == ASSUME AttemptInv, PayloadInv, FetchEntry PROVE BudgetKept
  <1>1. step = "directory" /\ Entry \in Names
    BY EntryIs
  <1>2. CASE step' = "directory" /\ UNCHANGED payload
    BY <1>1, <1>2 DEF BudgetKept, PayloadInv
  <1>3. CASE step' = "directory" /\ DOMAIN payload' = DOMAIN payload \union {Entry} /\ Fits(payload')
    BY <1>1, <1>3 DEF BudgetKept, PayloadInv, StoredAt
  <1>4. CASE step' = "recording" /\ UNCHANGED payload /\ Excused(error')
    BY <1>4, RaisedKeepsBudget
  <1>. QED  BY <1>2, <1>3, <1>4, EntryEffect

(* The steps that leave the payload alone. *)
LEMMA BudgetOthers ==
  ASSUME AttemptInv, PayloadInv,
         CheckComplete \/ ReconcileInventory \/ IdentifyInput \/ AssembleBundle \/ Publish \/ StartAcquire
  PROVE  BudgetKept
  <1>1. UNCHANGED payload
    BY DEF CheckComplete, ReconcileInventory, IdentifyInput, AssembleBundle, Publish, StartAcquire, body
  <1>2. \/ step' = "recording" /\ error' \in {"RuntimeError", "UnsupportedReportInput", "BundleStructureError",
                                            "OSError", error}
        \/ <<step, step'>> \in {<<"directory", "inventory">>, <<"inventory", "input">>, <<"input", "closure">>,
                                <<"assemble", "publish">>, <<"idle", "metadata">>}
    BY DEF CheckComplete, ReconcileInventory, IdentifyInput, AssembleBundle, Publish, StartAcquire,
           Raise, RaiseWith, Advance
  <1>3. step \notin {"recording"}
    BY DEF CheckComplete, ReconcileInventory, IdentifyInput, AssembleBundle, Publish, StartAcquire
  <1>4. error = None /\ None \notin Exceptions
    BY <1>3, NoneAssumption DEF AttemptInv, RunInv
  <1>5. {"MAX_FILE_BYTES_EXCEEDED", "SIZE_LIMIT", "MAX_BUNDLE_BYTES_EXCEEDED"} \subseteq Exceptions
    BY DEF Exceptions, Safeguards, ResourceLimits
  <1>6. CASE step' = "recording" /\ error' \in {"RuntimeError", "UnsupportedReportInput", "BundleStructureError",
                                            "OSError", error}
    <2>1. PICK e : e = error'
      OBVIOUS
    <2>2. e \notin {"MAX_FILE_BYTES_EXCEEDED", "SIZE_LIMIT", "MAX_BUNDLE_BYTES_EXCEEDED"}
      BY <1>4, <1>5, <1>6, <2>1
    <2>. QED  BY <1>1, <1>6, <2>1, <2>2, NoLimitExcused, RaisedKeepsBudget
  <1>7. CASE <<step, step'>> \in {<<"directory", "inventory">>, <<"inventory", "input">>, <<"input", "closure">>,
                                <<"assemble", "publish">>, <<"idle", "metadata">>}
    BY <1>1, <1>7 DEF BudgetKept, PayloadInv, StoredAt
  <1>. QED  BY <1>2, <1>6, <1>7

(* The closure fills the budget at most, and is refused only if its        *)
(* documents would fill it.                                                *)
LEMMA BudgetClosure == ASSUME AttemptInv, PayloadInv, RunClosure PROVE BudgetKept
  <1>1. step = "closure" /\ step \notin {"idle", "recording"}
    BY DEF RunClosure
  <1>2. site \in Sites /\ Sized(payload) /\ Fits(payload)
    BY <1>1, BodyTypes DEF Sized, PayloadInv
  <1>3. site.externals \intersect DOMAIN payload = {}
    <2>1. DOMAIN payload \subseteq Names \union Fixed
      BY <1>1 DEF PayloadInv, StoredAt
    <2>2. site.externals \intersect (Names \union Fixed) = {}
      BY <1>2, SitesAssumption
    <2>. QED  BY <2>1, <2>2
  <1>4. CASE \E E \in SUBSET site.externals :
               ExternalBytes(E) <= Remaining /\ payload' = WithExternals(E) /\ step' = "assemble"
    <2>1. PICK E \in SUBSET site.externals :
               ExternalBytes(E) <= Remaining /\ payload' = WithExternals(E) /\ step' = "assemble"
      BY <1>4
    <2>2. PICK q : q = WithExternals(E)
      OBVIOUS
    <2>3. PICK n \in Nat : n = ExternalBytes(E) /\ Bytes(q) = Bytes(payload) + n
      BY <1>2, <1>3, <2>2, BytesWithExternals
    <2>4. Bytes(q) <= MaxBundle
      BY <1>2, <2>1, <2>3, BudgetLeft
    <2>5. \A p \in DOMAIN q : q[p] <= MaxFile \/ p \in site.externals
      BY <1>2, <2>2 DEF WithExternals, Fits
    <2>6. Fits(payload')
      BY <2>1, <2>2, <2>4, <2>5 DEF Fits
    <2>7. {"discovery.json", "index.json", "index.html"} \subseteq DOMAIN payload'
      BY <1>1, <2>1 DEF PayloadInv, StoredAt, WithExternals
    <2>. QED  BY <2>1, <2>6, <2>7 DEF BudgetKept, StoredAt
  <1>5. CASE /\ step' = "recording" /\ UNCHANGED payload
             /\ error' \in {"RuntimeError", "MAX_EXTERNAL_DEPENDENCY_BYTES_EXCEEDED", "MAX_REDIRECTS_EXCEEDED",
                            "DESTINATION_FORBIDDEN"}
    <2>1. PICK e : e = error'
      OBVIOUS
    <2>2. Excused(e)
      BY <1>5, <2>1, NoLimitExcused
    <2>. QED  BY <1>5, <2>1, <2>2, RaisedKeepsBudget
  <1>6. CASE /\ step' = "recording" /\ UNCHANGED payload /\ error' = "MAX_BUNDLE_BYTES_EXCEEDED"
             /\ ExternalBytes(site.externals) >= Remaining
    <2>1. PICK E \in SUBSET site.externals : E = site.externals
      OBVIOUS
    <2>2. PICK n \in Nat : n = ExternalBytes(E) /\ Bytes(payload) + n <= Bytes(site.size)
      BY <1>2, <1>3, <2>1, BytesWithExternals
    <2>3. Bytes(site.size) >= MaxBundle
      BY <1>2, <1>6, <2>1, <2>2, BudgetLeft
    <2>4. Excused(error')
      BY <1>6, <2>3 DEF Excused
    <2>. QED  BY <1>6, <2>4, RaisedKeepsBudget
  <1>. QED  BY <1>4, <1>5, <1>6 DEF RunClosure, Raise, RaiseWith, Advance, WithExternals

(* An empty payload fits. *)
LEMMA BudgetIdle == ASSUME NoLocals, step' = "idle" PROVE BudgetKept
  <1>1. PICK q : q = payload' /\ DOMAIN q = {}
    BY DEF NoLocals
  <1>2. Bytes(q) = 0
    BY <1>1, BytesAreSum, SumOfNone
  <1>3. Fits(payload')
    BY <1>1, <1>2, NamesAssumption DEF Fits
  <1>. QED  BY <1>1, <1>3 DEF BudgetKept, StoredAt

(* The site does not change. *)
LEMMA SiteFixed == ASSUME [AcquisitionNext]_acquisitionVars PROVE site' = site
  BY DEF AcquisitionNext, StartAcquire, LookupMetadata, StoreDiscovery, FetchIndex, FetchEntry, CheckComplete,
         ReconcileInventory, IdentifyInput, RunClosure, AssembleBundle, Publish, WriteAttempt, ProcessDies,
         acquisitionVars

(* Every step keeps the budget, and every refusal its excuse. *)
LEMMA BudgetNext ==
  ASSUME AttemptInv, PayloadInv, ExcuseInv, [AcquisitionNext]_acquisitionVars
  PROVE  PayloadInv' /\ ExcuseInv'
  <1>1. BudgetKept
    <2>1. CASE LookupMetadata \/ StoreDiscovery \/ FetchIndex \/ FetchEntry \/ RunClosure
      BY <2>1, BudgetLookup, BudgetDiscovery, BudgetIndex, BudgetEntry, BudgetClosure
    <2>2. CASE CheckComplete \/ ReconcileInventory \/ IdentifyInput \/ AssembleBundle \/ Publish \/ StartAcquire
      BY <2>2, BudgetOthers
    <2>3. CASE WriteAttempt \/ ProcessDies
      BY <2>3, BudgetIdle DEF WriteAttempt, ProcessDies
    <2>4. CASE UNCHANGED acquisitionVars
      BY <2>4 DEF acquisitionVars, attempt, body, BudgetKept, PayloadInv, ExcuseInv
    <2>. QED  BY <2>1, <2>2, <2>3, <2>4 DEF AcquisitionNext
  <1>2. site' = site
    BY SiteFixed
  <1>3. PayloadInv'
    BY <1>1, <1>2 DEF BudgetKept, PayloadInv, Fits, StoredAt
  <1>4. \A e : Excused(e)' <=> Excused(e)
    BY <1>2 DEF Excused
  <1>5. step' = "recording" => Excused(error)'
    BY <1>1, <1>2 DEF BudgetKept, Excused
  <1>6. \A r \in ToSet(records') \ {None} : Excused(r.error)
    <2>1. records \in Seq(Attempts \union {None}) /\ \A r \in ToSet(records) \ {None} : Excused(r.error)
      BY DEF AttemptInv, TypeInv, ExcuseInv
    <2>2. CASE WriteAttempt /\ records' = [records EXCEPT ![Len(records)] = AttemptRecord]
      <3>1. AttemptRecord.error = error
        BY DEF AttemptRecord
      <3>2. PICK a : a = AttemptRecord
        OBVIOUS
      <3>3. PICK r : r = [records EXCEPT ![Len(records)] = a]
        OBVIOUS
      <3>4. ToSet(r) \subseteq ToSet(records) \union {a}
        BY <2>1, <3>3 DEF ToSet
      <3>5. Excused(a.error)
        BY <2>2, <3>1, <3>2 DEF WriteAttempt, ExcuseInv
      <3>6. records' = r
        BY <2>2, <3>2, <3>3
      <3>. QED  BY <2>1, <3>4, <3>5, <3>6
    <2>3. CASE records' = Append(records, None)
      <3>1. PICK r : r = Append(records, None)
        OBVIOUS
      <3>2. ToSet(r) \ {None} \subseteq ToSet(records) \ {None}
        BY <2>1, <3>1 DEF ToSet
      <3>. QED  BY <2>1, <2>3, <3>1, <3>2
    <2>4. CASE UNCHANGED records
      BY <2>1, <2>4
    <2>5. \/ WriteAttempt /\ records' = [records EXCEPT ![Len(records)] = AttemptRecord]
          \/ records' = Append(records, None)
          \/ UNCHANGED records
      BY DEF AcquisitionNext, StartAcquire, LookupMetadata, StoreDiscovery, FetchIndex, FetchEntry, CheckComplete,
         ReconcileInventory, IdentifyInput, RunClosure, AssembleBundle, Publish, WriteAttempt, ProcessDies,
         acquisitionVars
    <2>. QED  BY <2>2, <2>3, <2>4, <2>5
  <1>7. ExcuseInv'
    BY <1>4, <1>5, <1>6 DEF ExcuseInv, Excused
  <1>. QED  BY <1>3, <1>7

-----------------------------------------------------------------------------
(* What is published is all of the filing.                                 *)

Renderings == { n \in Names : KindOf[n] = "rendering" }

(* What has been found of the filing s, whose primary document is m. *)
FoundAt(s, at, pos, D, m) ==
  /\ at \in {"idle", "metadata", "discovery", "index.json", "index.html", "index-headers"} => pos = 1
  /\ at = "directory" => \A i \in 1 .. pos - 1 : s.listing[i] \in D \union Renderings
  /\ at \in {"inventory", "input", "closure", "assemble", "publish"} =>
       ToSet(s.listing) \subseteq D \union Renderings /\ {CompleteSubmission, m} \subseteq D

(* What both inventories name is listed. *)
ListedAt(at) ==
  at \in {"input", "closure", "assemble", "publish"} =>
    SgmlNames \union HtmlFilerSubmitted \subseteq ToSet(site.listing)

FoundInv == FoundAt(site, step, position, DOMAIN payload, meta.primary) /\ ListedAt(step)

(* An entry is in the payload, or is a rendering that SEC did not serve. *)
LEMMA FoundEntry ==
  ASSUME AttemptInv, PayloadInv, FoundInv, FetchEntry
  PROVE  FoundAt(site, step', position', DOMAIN payload', meta'.primary)
  <1>1. CASE step' = "recording"
    BY <1>1 DEF FoundAt
  <1>2. CASE step' = "directory"
    <2>1. /\ step = "directory" /\ position' = position + 1 /\ site.listing \in Seq(Names)
          /\ position \in 1 .. Len(site.listing) /\ Entry \in Names /\ Entry = site.listing[position]
      BY EntryIs DEF Entry
    <2>2. MayBeAbsent(Entry) => Entry \in Renderings
      <3>1. ASSUME SourceClass(Entry, LastRow(Entry)) = "sec_generated_rendering" PROVE KindOf[Entry] = "rendering"
        BY <2>1, <3>1, NamesAssumption DEF SourceClass, Kinds
      <3>. QED  BY <2>1, <3>1 DEF MayBeAbsent, Renderings
    <2>3. DOMAIN payload \subseteq DOMAIN payload' /\ Entry \in DOMAIN payload' \union Renderings
      BY <1>2, <2>2, EntryEffect
    <2>4. \A i \in 1 .. position - 1 : site.listing[i] \in DOMAIN payload \union Renderings
      BY <2>1 DEF FoundInv, FoundAt
    <2>5. \A i \in 1 .. position' - 1 : i \in 1 .. position - 1 \/ i = position
      BY <2>1
    <2>6. \A i \in 1 .. position' - 1 : site.listing[i] \in DOMAIN payload' \union Renderings
      BY <2>1, <2>3, <2>4, <2>5
    <2>. QED  BY <1>2, <2>6 DEF FoundAt
  <1>. QED  BY <1>1, <1>2, EntryEffect

(* At the end of the directory, all of it has been found. *)
LEMMA FoundComplete ==
  ASSUME AttemptInv, FoundInv, CheckComplete
  PROVE  FoundAt(site, step', position', DOMAIN payload', meta'.primary)
  <1>1. step = "directory" /\ position > Len(site.listing) /\ UNCHANGED <<position, payload, meta>>
        /\ step' \in {"recording", "inventory"}
    BY DEF CheckComplete, RaiseWith, Advance
  <1>2. CASE step' = "recording"
    BY <1>2 DEF FoundAt
  <1>3. CASE step' = "inventory"
    <2>1. {CompleteSubmission, meta.primary} \subseteq DOMAIN payload
      BY <1>3, StepComplete
    <2>2. site.listing \in Seq(Names) /\ position \in 1 .. Len(site.listing) + 1
      BY <1>1, BodyTypes, SitesAssumption
    <2>3. 1 .. Len(site.listing) \subseteq 1 .. position - 1
      BY <1>1, <2>2
    <2>4. \A i \in 1 .. Len(site.listing) : site.listing[i] \in DOMAIN payload \union Renderings
      BY <1>1, <2>3 DEF FoundInv, FoundAt
    <2>5. ToSet(site.listing) \subseteq DOMAIN payload \union Renderings
      BY <2>2, <2>4 DEF ToSet
    <2>. QED  BY <1>1, <1>3, <2>1, <2>5 DEF FoundAt
  <1>. QED  BY <1>1, <1>2, <1>3

(* Every step keeps what has been found. *)
LEMMA FoundNext ==
  ASSUME AttemptInv, PayloadInv, FoundInv, [AcquisitionNext]_acquisitionVars
  PROVE  FoundInv'
  <1>1. FoundAt(site, step', position', DOMAIN payload', meta'.primary)
    <2>1. CASE FetchEntry
      BY <2>1, FoundEntry
    <2>2. CASE CheckComplete
      BY <2>2, FoundComplete
    <2>3. CASE RunClosure
      <3>1. step = "closure" /\ UNCHANGED <<position, meta>> /\ step' \in {"recording", "assemble"}
        BY <2>3 DEF RunClosure, Raise, RaiseWith, Advance
      <3>2. DOMAIN payload \subseteq DOMAIN payload'
        BY <2>3, StepClosure DEF WithExternals
      <3>. QED  BY <3>1, <3>2 DEF FoundInv, FoundAt
    <2>4. CASE StartAcquire \/ LookupMetadata \/ StoreDiscovery
      <3>1. step \in {"idle", "metadata", "discovery"} /\ UNCHANGED position
            /\ step' \in {"metadata", "discovery", "index.json", "recording"}
        BY <2>4 DEF StartAcquire, LookupMetadata, StoreDiscovery, Raise, RaiseWith, Advance
      <3>. QED  BY <3>1 DEF FoundInv, FoundAt
    <2>5. CASE FetchIndex
      <3>1. step \in Indexes /\ UNCHANGED position /\ step' \in {"index.html", "index-headers", "directory", "recording"}
        BY <2>5 DEF FetchIndex, FetchPut, Raise, RaiseWith, Advance
      <3>2. position' = 1 /\ 1 .. position' - 1 = {}
        BY <3>1 DEF FoundInv, FoundAt, Indexes
      <3>. QED  BY <3>1, <3>2 DEF FoundAt
    <2>6. CASE ReconcileInventory \/ IdentifyInput \/ AssembleBundle \/ Publish
      <3>1. step \in {"inventory", "input", "assemble", "publish"} /\ UNCHANGED <<position, payload, meta>>
            /\ step' \in {"input", "closure", "publish", "recording"}
        BY <2>6 DEF ReconcileInventory, IdentifyInput, AssembleBundle, Publish, Raise, RaiseWith, Advance
      <3>. QED  BY <3>1 DEF FoundInv, FoundAt
    <2>7. CASE WriteAttempt \/ ProcessDies
      BY <2>7 DEF WriteAttempt, ProcessDies, NoLocals, FoundAt
    <2>8. CASE UNCHANGED acquisitionVars
      BY <2>8 DEF acquisitionVars, attempt, body, FoundInv
    <2>. QED  BY <2>1, <2>2, <2>3, <2>4, <2>5, <2>6, <2>7, <2>8 DEF AcquisitionNext
  <1>2. ListedAt(step')
    <2>1. CASE ReconcileInventory
      BY <2>1, StepInventory DEF ListedAt
    <2>2. CASE IdentifyInput \/ RunClosure \/ AssembleBundle \/ Publish \/ UNCHANGED acquisitionVars
      <3>1. step' \in {"input", "closure", "assemble", "publish"} => step \in {"input", "closure", "assemble", "publish"}
        BY <2>2 DEF IdentifyInput, RunClosure, AssembleBundle, Publish, acquisitionVars
      <3>. QED  BY <3>1 DEF FoundInv, ListedAt
    <2>3. CASE StartAcquire \/ LookupMetadata \/ StoreDiscovery \/ FetchIndex \/ FetchEntry \/ CheckComplete
               \/ WriteAttempt \/ ProcessDies
      <3>1. step' \notin {"input", "closure", "assemble", "publish"}
        <4>1. CASE FetchIndex \/ FetchEntry
          BY <4>1 DEF FetchIndex, FetchEntry, FetchPut, Raise, RaiseWith, Advance
        <4>2. CASE ~ (FetchIndex \/ FetchEntry)
          BY <2>3, <4>2 DEF StartAcquire, LookupMetadata, StoreDiscovery, CheckComplete, WriteAttempt, ProcessDies,
             Raise, RaiseWith, Advance
        <4>. QED  BY <4>1, <4>2
      <3>. QED  BY <3>1 DEF ListedAt
    <2>. QED  BY <2>1, <2>2, <2>3 DEF AcquisitionNext
  <1>3. site' = site
    BY SiteFixed
  <1>4. FoundAt(site, step, position, DOMAIN payload, meta.primary)'
    BY <1>1, <1>3 DEF FoundAt, ToSet
  <1>5. ListedAt(step)'
    BY <1>2, <1>3 DEF ListedAt, SgmlNames, HtmlFilerSubmitted, SourceClass, Described, ToSet
  <1>. QED  BY <1>4, <1>5 DEF FoundInv

(* The bundle that is published is whole. *)
LEMMA WholeNext ==
  ASSUME AttemptInv, PayloadInv, FoundInv, PublishedIsWhole, [AcquisitionNext]_acquisitionVars
  PROVE  PublishedIsWhole'
  <1>1. site' = site
    BY SiteFixed
  <1>. DEFINE whole(b) ==
         /\ ToSet(site.listing) \union SgmlNames \union HtmlFilerSubmitted \subseteq DOMAIN b.payload \union Renderings
         /\ {CompleteSubmission, b.primary, "discovery.json", "index.json", "index.html"} \subseteq DOMAIN b.payload
  <1>2. \A b \in published : whole(b)
    BY DEF PublishedIsWhole, Renderings
  <1>3. \A b \in published' : whole(b)
    <2>1. CASE Publish
      <3>1. step = "publish" /\ published' \subseteq published \union {TheBundle}
        BY <2>1 DEF Publish
      <3>2. PICK b : b = TheBundle
        OBVIOUS
      <3>3. b.payload = payload /\ b.primary = meta.primary
        BY <3>2 DEF TheBundle
      <3>4. /\ ToSet(site.listing) \subseteq DOMAIN payload \union Renderings
            /\ {CompleteSubmission, meta.primary} \subseteq DOMAIN payload
            /\ SgmlNames \union HtmlFilerSubmitted \subseteq ToSet(site.listing)
        BY <3>1 DEF FoundInv, FoundAt, ListedAt
      <3>5. {"discovery.json", "index.json", "index.html"} \subseteq DOMAIN payload
        BY <3>1 DEF PayloadInv, StoredAt
      <3>6. whole(b)
        BY <3>3, <3>4, <3>5
      <3>. HIDE DEF whole
      <3>. QED  BY <1>2, <3>1, <3>2, <3>6
    <2>2. CASE ~ Publish
      <3>1. published' = published
        BY <2>2 DEF AcquisitionNext, StartAcquire, LookupMetadata, StoreDiscovery, FetchIndex, FetchEntry,
           CheckComplete, ReconcileInventory, IdentifyInput, RunClosure, AssembleBundle, WriteAttempt,
           ProcessDies, acquisitionVars
      <3>. QED  BY <1>2, <3>1
    <2>. QED  BY <2>1, <2>2
  <1>4. SgmlNames' = SgmlNames /\ HtmlFilerSubmitted' = HtmlFilerSubmitted
    BY <1>1 DEF SgmlNames, HtmlFilerSubmitted, SourceClass, Described, ToSet
  <1>. QED  BY <1>1, <1>3, <1>4 DEF PublishedIsWhole, Renderings

(* The whole of PublishedIsSound. *)
LEMMA SoundFollows ==
  ASSUME AttemptInv, PayloadInv, ExcuseInv, PublishedIsWhole
  PROVE  PublishedIsSound
  <1>1. AcquisitionTypeOK
    <2>1. \A p \in DOMAIN payload : payload[p] \in Nat
      <3>1. site \in Sites /\ DOMAIN payload \subseteq DOMAIN site.size
            /\ \A p \in DOMAIN payload : payload[p] = site.size[p]
        BY DEF AttemptInv, TypeInv
      <3>. QED  BY <3>1, SiteSizes
    <2>2. \A i \in DOMAIN issues : issues[i].severity \in {"fatal", "warning"}
      <3>1. issues \in Seq(Issues)
        BY DEF AttemptInv, TypeInv
      <3>2. \A i \in DOMAIN issues : issues[i] \in Issues
        BY <3>1
      <3>3. \A x \in Issues : x.severity \in {"fatal", "warning"}
        BY DEF Issues
      <3>. QED  BY <3>2, <3>3
    <2>3. ToSet(input) \subseteq Names /\ ToSet(outcomes) \subseteq {"returned", "raised", "unrecorded", "died"}
      BY DEF AttemptInv, TypeInv, ToSet
    <2>. QED  BY <2>1, <2>2, <2>3 DEF AttemptInv, TypeInv, AcquisitionTypeOK
  <1>2. PayloadFits
    BY DEF PayloadInv, Fits, ExcuseInv, Excused, PayloadFits
  <1>. QED  BY <1>1, <1>2 DEF PublishedIsSound

(* What is published is all of the filing: whatever is listed or was       *)
(* submitted, and the indexes.  No payload outgrows its budget and no file *)
(* its limit, to the byte, and an attempt refused for its size met a       *)
(* filing that does not fit (_acquire_body, fetch_put and                  *)
(* LogicalPayloadBudget).                                                  *)
THEOREM PublishedSound == AcquisitionSpec => []PublishedIsSound
  <1>. DEFINE Inv == PayloadInv /\ ExcuseInv /\ FoundInv /\ PublishedIsWhole
  <1>1. AcquisitionInit => Inv
    <2>. SUFFICES ASSUME AcquisitionInit PROVE Inv
      OBVIOUS
    <2>. USE DEF AcquisitionInit
    <2>1. PICK q : q = payload /\ DOMAIN q = {}
      OBVIOUS
    <2>2. Bytes(q) = 0
      BY <2>1, BytesAreSum, SumOfNone
    <2>3. PayloadInv
      BY <2>1, <2>2, NamesAssumption DEF PayloadInv, Fits, StoredAt
    <2>4. ExcuseInv
      BY DEF ExcuseInv, ToSet
    <2>5. FoundInv
      BY DEF FoundInv, FoundAt, ListedAt
    <2>6. PublishedIsWhole
      BY DEF PublishedIsWhole
    <2>. QED  BY <2>3, <2>4, <2>5, <2>6
  <1>2. AttemptInv /\ Inv /\ [AcquisitionNext]_acquisitionVars => Inv'
    BY BudgetNext, FoundNext, WholeNext
  <1>3. AttemptInv /\ Inv => PublishedIsSound
    BY SoundFollows
  <1>. QED  BY <1>1, <1>2, <1>3, AttemptInvariance, PTL DEF AcquisitionSpec

=============================================================================
