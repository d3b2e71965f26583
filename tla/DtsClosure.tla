----------------------------- MODULE DtsClosure -----------------------------
(***************************************************************************)
(* Online discovery of a report's document closure and its offline replay: *)
(* run_worker_process and run_online_closure (xbrl/closure.py), the worker *)
(* at the other end of the pipes (xbrl/worker.py), validate_offline_replay *)
(* (xbrl/replay.py), and the gates between them in _acquire_body.          *)
(*                                                                         *)
(* The parent runs one worker after the other.  The first resolves the     *)
(* documents of the accession by itself and asks the parent for the rest,  *)
(* which the parent fetches from the web; the second may only use what the *)
(* first one resolved.  A worker may die or hang at any point, and the     *)
(* deadline may pass at any point, in the middle of a fetch too: the fetch *)
(* is that of Fetcher, hop by hop.                                         *)
(*                                                                         *)
(* Arelle loads the entry document and whatever the loaded contents refer  *)
(* to, in any order; it may ask again for a document it did not get.  Most *)
(* references are to canonical URIs.  One that normalize_uri refuses is    *)
(* mentioned in the diagnostics and nowhere else; one to a local file out  *)
(* of the workspace is unresolved.                                         *)
(*                                                                         *)
(* A definition Op_Slip is Op with a plausible slip; it is not part of the *)
(* model and shows that a property notices the slip.                       *)
(***************************************************************************)
EXTENDS Fetcher, Integers, FiniteSetsExt

CONSTANTS
  Contents,
  Irregular,    \* references that normalize_uri refuses
  Local,        \* references to local files out of the workspace
  Entry,        \* the entry document of the report
  Accession,    \* content per URI captured from the accession, or None
  Web,          \* per URI: the contents the web may answer with
  Refs, Size,   \* of a content: what it refers to, its bytes
  MaxFile,      \* max_external_dependency_bytes
  Budget        \* what is left of the bundle's bytes

ASSUME DocumentsAssumption ==
  /\ None \notin Uris \union Contents
  /\ Uris \intersect (Irregular \union Local) = {} /\ Irregular \intersect Local = {}
  /\ Entry \in Uris
  /\ Accession \in [Uris -> Contents \union {None}]
  /\ Web \in [Uris -> SUBSET Contents]
  /\ Refs \in [Contents -> SUBSET (Uris \union Irregular \union Local)]
  /\ Size \in [Contents -> Nat]
  /\ MaxFile \in Nat /\ Budget \in Nat

VARIABLES
  phase,                   \* which worker runs, or how it ended
  parent, asked,           \* the parent's step, and the URI it fetches for
  expired,                 \* the deadline has passed
  worker, requested,       \* the worker's step, and the URI it waits for
  toParent, toWorker,      \* the pipes
  resolved, unresolved,    \* the worker's DocumentResolver
  diagnosed,               \* the references that its diagnostics reject
  denied,                  \* its guard has recorded a network attempt
  result,                  \* the result message the parent has read
  external, remaining,     \* what the parent fetched; its counter of bytes
  safeguard,               \* the fatal safeguard, which blocks all fetches
  bindings                 \* the uri bindings of the bundle

pipes    == <<toParent, toWorker>>
loading  == <<resolved, unresolved, diagnosed, denied>>
fetching == <<external, remaining, safeguard>>
dtsVars  == <<phase, parent, asked, expired, worker, requested, pipes, loading, result, fetching, bindings>>
allVars  == <<dtsVars, vars>>

Binding == [Uris -> Contents \union {None}]
Unbound == [u \in Uris |-> None]

Result == [ load : BOOLEAN, errors : BOOLEAN, denied : BOOLEAN,
            resolved : Binding, unresolved : SUBSET (Uris \union Local) ]

Safeguards == {"bundle_bytes", "dependency_bytes", "redirects", "destination"}

ToParent == [type : {"fetch"}, uri : Uris] \union [type : {"result"}, result : Result]
ToWorker == [type : {"fetch_result"}, uri : Uris, content : Contents]
              \union [type : {"fetch_error"}, uri : Uris]

DtsTypeOK ==
  /\ phase \in {"online", "replay", "accepted", "rejected"}
  /\ parent \in {"reading", "fetching", "reaping"}
  /\ asked \in Uris \union {None}
  /\ parent = "fetching" <=> asked # None
  /\ expired \in BOOLEAN
  /\ worker \in {"loading", "waiting", "exiting", "gone"}
  /\ requested \in Uris \union {None}
  /\ worker = "waiting" => requested # None
  /\ toParent \in Seq(ToParent) /\ Len(toParent) <= 1
  /\ toWorker \in Seq(ToWorker) /\ Len(toWorker) <= 1
  /\ resolved \in Binding /\ denied \in BOOLEAN
  /\ unresolved \in SUBSET (Uris \union Local) /\ diagnosed \in SUBSET Irregular
  /\ result \in Result \union {None}
  /\ external \in Binding /\ remaining \in Int
  /\ safeguard \in Safeguards \union {None}
  /\ bindings \in Binding

DtsInit ==
  /\ Init
  /\ phase = "online" /\ parent = "reading" /\ asked = None
  /\ expired = FALSE
  /\ worker = "loading" /\ requested = None
  /\ toParent = <<>> /\ toWorker = <<>>
  /\ resolved = Unbound /\ unresolved = {} /\ diagnosed = {} /\ denied = FALSE
  /\ result = None
  /\ external = Unbound /\ remaining = Budget /\ safeguard = None
  /\ bindings = Unbound

Running == phase \in {"online", "replay"}
Bound(b) == { u \in Uris : b[u] # None }

-----------------------------------------------------------------------------
(* The worker.                                                             *)

(* What Arelle wants to see: the entry, and what loaded contents refer to. *)
References(b) == {Entry} \union UNION { Refs[b[u]] : u \in Bound(b) }

(* Of these, what has a canonical URI. *)
Wanted(b) == References(b) \intersect Uris

(* _known: the documents bound in the job. *)
Known_Accession(u) == Accession[u]
Known(u) == IF phase = "replay" THEN bindings[u] ELSE Accession[u]

Missing == { u \in Wanted(resolved) : resolved[u] = None }

ResolveKnown ==
  /\ Running /\ worker = "loading"
  /\ \E u \in Missing : Known(u) # None /\ resolved' = [resolved EXCEPT ![u] = Known(u)]
  /\ UNCHANGED <<phase, parent, asked, expired, worker, requested, pipes, unresolved,
                 diagnosed, denied, result, fetching, bindings>>

(* The pump thread of the parent takes every line; once the parent reaps,  *)
(* nobody reads them any more.                                             *)
Pumped(message) == IF parent = "reaping" THEN toParent ELSE Append(toParent, message)

(* _note_unresolved *)
NoteUnresolved(u) == unresolved' = unresolved \union {u}

(* request_fetch *)
RequestFetch(u) ==
  /\ toParent' = Pumped([type |-> "fetch", uri |-> u])
  /\ worker' = "waiting" /\ requested' = u
  /\ UNCHANGED loading

(* resolve_remote of a reference without a canonical URI: there is nothing *)
(* to load, and nobody is told but the reader of the diagnostics.          *)
RejectIrregular ==
  /\ Running /\ worker = "loading"
  /\ \E u \in (References(resolved) \intersect Irregular) \ diagnosed :
       diagnosed' = diagnosed \union {u}
  /\ UNCHANGED <<phase, parent, asked, expired, worker, requested, pipes, resolved, unresolved,
                 denied, result, fetching, bindings>>

(* resolve_local of a file out of the workspace. *)
DenyLocal ==
  /\ Running /\ worker = "loading"
  /\ \E u \in (References(resolved) \intersect Local) \ unresolved : NoteUnresolved(u)
  /\ UNCHANGED <<phase, parent, asked, expired, worker, requested, pipes, resolved, diagnosed,
                 denied, result, fetching, bindings>>

(* Offline: the guard records the attempt, and the document is missing.    *)
RefuseOffline(u) ==
  /\ denied' = TRUE
  /\ NoteUnresolved(u)
  /\ UNCHANGED <<worker, requested, toParent, resolved, diagnosed>>

ResolveUnknown ==
  /\ Running /\ worker = "loading"
  /\ \E u \in Missing :
       /\ Known(u) = None
       /\ IF phase = "replay" THEN RefuseOffline(u) ELSE RequestFetch(u)
  /\ UNCHANGED <<phase, parent, asked, expired, toWorker, result, fetching, bindings>>

(* The answer, whose bytes may turn out unreadable or damaged; it must be  *)
(* for the URI that was asked for.                                         *)
ReceiveAnswer ==
  /\ worker = "waiting"
  /\ toWorker # <<>>
  /\ LET answer == Head(toWorker)
     IN  \/ /\ answer.type = "fetch_result" /\ answer.uri = requested
            /\ resolved' = [resolved EXCEPT ![requested] = answer.content]
            /\ UNCHANGED unresolved
         \/ NoteUnresolved(requested) /\ UNCHANGED resolved
  /\ toWorker' = Tail(toWorker)
  /\ worker' = "loading" /\ requested' = None
  /\ UNCHANGED <<phase, parent, asked, expired, toParent, diagnosed, denied, result, fetching,
                 bindings>>

(* The end of file: the parent has given up. *)
ReceiveEof ==
  /\ worker = "waiting"
  /\ parent = "reaping" /\ toWorker = <<>>
  /\ NoteUnresolved(requested)
  /\ worker' = "loading" /\ requested' = None
  /\ UNCHANGED <<phase, parent, asked, expired, pipes, resolved, diagnosed, denied, result,
                 fetching, bindings>>

Send(r) ==
  /\ toParent' = Pumped([type |-> "result", result |-> r])
  /\ worker' = "exiting"
  /\ UNCHANGED <<phase, parent, asked, expired, requested, toWorker, loading, result, fetching,
                 bindings>>

(* Every reference has been tried. *)
SendResult ==
  /\ Running /\ worker = "loading"
  /\ References(resolved) \subseteq Bound(resolved) \union unresolved \union diagnosed
  /\ Send([load |-> resolved[Entry] # None, errors |-> FALSE, denied |-> denied,
           resolved |-> resolved, unresolved |-> unresolved])

(* run_job turns an exception, that of a denied socket or retrieval too,   *)
(* into a result without documents.                                        *)
SendErrors ==
  /\ Running /\ worker = "loading"
  /\ \E attempted \in {denied, TRUE} :
       Send([load |-> FALSE, errors |-> TRUE, denied |-> attempted,
             resolved |-> Unbound, unresolved |-> {}])

(* The process ends, of itself after its result or killed at any point.    *)
WorkerEnds ==
  /\ Running /\ worker # "gone"
  /\ worker' = "gone"
  /\ UNCHANGED <<phase, parent, asked, expired, requested, pipes, loading, result, fetching,
                 bindings>>

-----------------------------------------------------------------------------
(* The parent: run_worker_process.                                         *)

Expire ==
  /\ Running /\ ~ expired
  /\ expired' = TRUE
  /\ UNCHANGED <<phase, parent, asked, worker, requested, pipes, loading, result, fetching,
                 bindings>>

Reading == Running /\ parent = "reading"

ReadFetch ==
  /\ Reading /\ ~ expired
  /\ toParent # <<>> /\ Head(toParent).type = "fetch"
  /\ asked' = Head(toParent).uri
  /\ toParent' = Tail(toParent)
  /\ parent' = "fetching"
  /\ UNCHANGED <<phase, expired, worker, requested, toWorker, loading, result, fetching, bindings>>

ReadResult ==
  /\ Reading /\ ~ expired
  /\ toParent # <<>> /\ Head(toParent).type = "result"
  /\ result' = Head(toParent).result
  /\ toParent' = Tail(toParent)
  /\ parent' = "reaping"
  /\ UNCHANGED <<phase, asked, expired, worker, requested, toWorker, loading, fetching, bindings>>

(* The deadline, whatever has arrived; or the end of the worker's output.  *)
GiveUp_OnlyAtEof ==
  /\ Reading
  /\ worker = "gone" /\ toParent = <<>>
  /\ parent' = "reaping"
  /\ UNCHANGED <<phase, asked, expired, worker, requested, pipes, loading, result, fetching,
                 bindings>>

GiveUp ==
  /\ Reading
  /\ expired \/ (worker = "gone" /\ toParent = <<>>)
  /\ parent' = "reaping"
  /\ UNCHANGED <<phase, asked, expired, worker, requested, pipes, loading, result, fetching,
                 bindings>>

(* The handler's answer is written: a worker that is gone breaks the pipe. *)
Answer(message) ==
  /\ asked' = None
  /\ IF worker = "gone"
     THEN parent' = "reaping" /\ UNCHANGED toWorker
     ELSE parent' = "reading" /\ toWorker' = Append(toWorker, message)
  /\ UNCHANGED <<phase, expired, worker, requested, toParent, loading, result, bindings>>

AnswerError == Answer([type |-> "fetch_error", uri |-> asked])
AnswerWith(c) == Answer([type |-> "fetch_result", uri |-> asked, content |-> c])

-----------------------------------------------------------------------------
(* The parent: handle_fetch.                                               *)

StreamLimit == Min({MaxFile, remaining})

(* The document is held already, from the accession or an earlier fetch.   *)
Held(u) == IF Accession[u] # None THEN Accession[u] ELSE external[u]

Blocked_Never == FALSE
Blocked == safeguard # None

HandleBlocked ==
  /\ parent = "fetching"
  /\ Blocked
  /\ AnswerError
  /\ UNCHANGED fetching

HandleHeld ==
  /\ parent = "fetching"
  /\ ~ Blocked
  /\ Held(asked) # None
  /\ AnswerWith(Held(asked))
  /\ UNCHANGED fetching

Trip(kind) ==
  /\ safeguard' = kind
  /\ AnswerError
  /\ UNCHANGED <<external, remaining>>

MayFetch == parent = "fetching" /\ ~ Blocked /\ Held(asked) = None /\ pc = "idle"

HandleNoBudget == MayFetch /\ StreamLimit <= 0 /\ Trip("bundle_bytes")

HandleWithout == HandleBlocked \/ HandleHeld \/ HandleNoBudget

(* fetch_to_store, from its call to its end. *)
BeginFetch == MayFetch /\ StreamLimit > 0 /\ Start /\ url' = asked /\ UNCHANGED dtsVars

FetchStep ==
  /\ parent = "fetching"
  /\ \/ Forbidden \/ CannotSend \/ SendRequest
     \/ Breach \/ Redirect \/ BadRedirect \/ RetryStatus \/ OtherStatus \/ Broken \/ Stored
     \/ OuterExcept
  /\ UNCHANGED dtsVars

(* The call has returned or raised, and its locals are gone. *)
EndOfFetch ==
  /\ pc' = "idle" /\ url' = None /\ current' = None
  /\ redirects' = 0 /\ attempt' = 0 /\ requests' = 0
  /\ hops' = <<>> /\ emitted' = FALSE /\ traces' = <<>>

LastHop == hops[Len(hops)].end

(* fetch_to_store has delivered; put_stream has counted the bytes. *)
HandleFetched_NotCharged ==
  /\ parent = "fetching" /\ pc = "returned"
  /\ \E c \in Web[asked] :
       /\ Size[c] <= StreamLimit
       /\ external' = [external EXCEPT ![asked] = c]
       /\ AnswerWith(c)
  /\ UNCHANGED <<safeguard, remaining>>

HandleFetched ==
  /\ parent = "fetching" /\ pc = "returned"
  /\ \E c \in Web[asked] :
       /\ Size[c] <= StreamLimit
       /\ external' = [external EXCEPT ![asked] = c]
       /\ remaining' = remaining - Size[c]
       /\ AnswerWith(c)
  /\ UNCHANGED safeguard

(* Which of its safeguards the fetch met is a free choice. *)
HandleTooLarge ==
  /\ parent = "fetching" /\ pc = "raised" /\ LastHop = "safeguard"
  /\ \E c \in Web[asked] : Size[c] > StreamLimit
  /\ Trip(IF StreamLimit < MaxFile THEN "bundle_bytes" ELSE "dependency_bytes")

HandleForbidden ==
  /\ parent = "fetching" /\ pc = "raised" /\ LastHop = "safeguard"
  /\ \E kind \in {"redirects", "destination"} : Trip(kind)

(* Any other failure: the worker is told, and may ask again. *)
HandleFailed ==
  /\ parent = "fetching" /\ pc = "raised" /\ LastHop # "safeguard"
  /\ AnswerError
  /\ UNCHANGED fetching

HandleOutcome ==
  (HandleFetched \/ HandleTooLarge \/ HandleForbidden \/ HandleFailed) /\ EndOfFetch

-----------------------------------------------------------------------------
(* The finally clause, and what is done with the result.                   *)

(* The worker is waited for until the deadline, then killed. *)
KillWorker ==
  /\ Running /\ parent = "reaping" /\ worker # "gone"
  /\ expired
  /\ worker' = "gone"
  /\ UNCHANGED <<phase, parent, asked, expired, requested, pipes, loading, result, fetching,
                 bindings>>

Reaped == Running /\ parent = "reaping" /\ worker = "gone"

(* The bytes of the captured documents, which LogicalPayloadBudget charges *)
(* to the bundle.                                                          *)
Captured == MapThenSumSet(LAMBDA u : Size[external[u]], Bound(external))

Complete_Loaded(r) == r.load /\ ~ r.errors /\ ~ r.denied
Complete(r) == r.load /\ ~ r.errors /\ ~ r.denied /\ r.unresolved = {}

(* The uri bindings of ClosureDiscovery: all that was resolved, also what  *)
(* only served to validate and never became a model document.              *)
BindingsOf(r) == r.resolved

(* validate_bundle_structure: every binding is to an artifact of the       *)
(* bundle, and the report's own document is bound.                         *)
Structured(b) == b[Entry] # None /\ \A u \in Bound(b) : b[u] = Held(u)

GatePassed ==
  /\ result # None
  /\ safeguard = None
  /\ Complete(result)
  /\ Captured <= Budget
  /\ Structured(BindingsOf(result))

(* The bundle is assembled, and a second worker replays it. *)
StartReplay ==
  /\ Reaped /\ phase = "online"
  /\ GatePassed
  /\ bindings' = BindingsOf(result)
  /\ phase' = "replay"
  /\ parent' = "reading" /\ asked' = None
  /\ expired' = FALSE
  /\ worker' = "loading" /\ requested' = None
  /\ toParent' = <<>> /\ toWorker' = <<>>
  /\ resolved' = Unbound /\ unresolved' = {} /\ diagnosed' = {} /\ denied' = FALSE
  /\ result' = None
  /\ UNCHANGED fetching

(* replay_faithful, with closure_equal. *)
Faithful(r) == Complete(r) /\ r.resolved = bindings

ReplayPassed == result # None /\ Faithful(result)

Accept ==
  /\ Reaped /\ phase = "replay"
  /\ ReplayPassed
  /\ phase' = "accepted"
  /\ UNCHANGED <<parent, asked, expired, worker, requested, pipes, loading, result, fetching,
                 bindings>>

Reject ==
  /\ Reaped
  /\ (phase = "online" => ~ GatePassed) /\ (phase = "replay" => ~ ReplayPassed)
  /\ phase' = "rejected"
  /\ UNCHANGED <<parent, asked, expired, worker, requested, pipes, loading, result, fetching,
                 bindings>>

-----------------------------------------------------------------------------

Worker ==
  \/ ResolveKnown \/ ResolveUnknown \/ RejectIrregular \/ DenyLocal \/ ReceiveAnswer \/ ReceiveEof
  \/ SendResult \/ SendErrors \/ WorkerEnds

Parent ==
  \/ ReadFetch \/ ReadResult \/ GiveUp \/ HandleWithout
  \/ KillWorker \/ StartReplay \/ Accept \/ Reject

Fetch == BeginFetch \/ FetchStep \/ HandleOutcome

ParentStep == (Parent /\ UNCHANGED vars) \/ Fetch

DtsNext == ((Worker \/ Expire) /\ UNCHANGED vars) \/ ParentStep

DtsSpec == DtsInit /\ [][DtsNext]_allVars

(* The parent runs, a fetch ends (its retries and timeouts are bounded),   *)
(* and time passes.  Nothing is assumed of the worker.                     *)
DtsFairSpec == DtsSpec /\ WF_allVars(ParentStep) /\ WF_allVars(Expire /\ UNCHANGED vars)

-----------------------------------------------------------------------------
(* Properties.                                                             *)

(* What goes into a bundle is a closure: the entry is bound, whatever a    *)
(* bound content refers to is bound if it has a canonical URI and is not a *)
(* local file out of the workspace, and every binding is to the accession  *)
(* or to the one content that was captured for that URI, although the web  *)
(* may answer differently each time and the worker may ask again.  A       *)
(* reference that normalize_uri refuses may be left (resolve_remote): see  *)
(* AnythingElseIsUnresolved.                                               *)
ClosureIsClosed ==
  phase \in {"replay", "accepted"} =>
    /\ References(bindings) \subseteq Bound(bindings) \union Irregular
    /\ \A u \in Bound(bindings) : bindings[u] \in {Accession[u], external[u]}

(* The closure that a bundle binds is closed, whatever state the parent,   *)
(* the worker, the pipes and the fetch between them have gone through.     *)
ClosureIsSound == TypeOK /\ DtsTypeOK /\ ClosureIsClosed

(* A replay that is not disturbed, by an exception, a death or the         *)
(* deadline, finds exactly the documents that the online load found, in    *)
(* whatever order each of them proceeded: it never fails for lack of one,  *)
(* and never wants the network.                                            *)
ReplayAgrees ==
  phase = "replay" /\ result # None => result.errors \/ Faithful(result)

(* What the head of worker.py says of the offline worker: only the         *)
(* supplied bindings can satisfy a reference, and anything else is         *)
(* reported as unresolved.  Not so of a reference that normalize_uri       *)
(* refuses: the bundle is accepted without it.                             *)
AnythingElseIsUnresolved ==
  phase = "replay" /\ result # None /\ ~ result.errors =>
    References(result.resolved) \subseteq Bound(result.resolved) \union result.unresolved

(* The closure's own counter agrees with the bundle's budget: the captured *)
(* documents always fit, so registering them after the closure never fails.*)
ExternalsFit == Captured + remaining = Budget /\ remaining >= 0

(* After a fatal safeguard no request is sent, the first cause stays, and  *)
(* the closure is not accepted, however the worker goes on.                *)
SafeguardIsFinal ==
  [][safeguard # None => UNCHANGED <<fetching, vars>> /\ phase' \in {phase, "rejected"}]_allVars

(* Every closure ends, even with a worker that hangs while it loads, waits *)
(* or exits, and one that asks for the same document for ever.             *)
EveryClosureEnds == <>(phase \in {"accepted", "rejected"})

=============================================================================
