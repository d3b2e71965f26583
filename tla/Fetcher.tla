------------------------------- MODULE Fetcher -------------------------------
(***************************************************************************)
(* ControlledFetcher.fetch_to_store (sec/client.py): redirect hops, each   *)
(* with its own budget of retries, safeguards that are never retried, and  *)
(* the trace that the observation sink receives.  The fetcher serves one   *)
(* fetch after the other.                                                  *)
(*                                                                         *)
(* The answer of the network, of the resolver and of the store is a free   *)
(* choice at every attempt.  Delays, addresses and bytes are left out.     *)
(*                                                                         *)
(* A definition Op_Slip is Op with a plausible slip; it is not part of the *)
(* model and shows that a property notices the slip.                       *)
(***************************************************************************)
EXTENDS Naturals, Sequences, FiniteSets

CONSTANTS None, Uris, MaxRedirects, MaxRetries

ASSUME FetcherAssumption ==
  None \notin Uris /\ MaxRedirects \in Nat /\ MaxRetries \in Nat

VARIABLES
  pc,
  url, current,          \* what was asked for, and where the redirects led
  redirects, attempt,    \* redirect_count, and the attempt at this hop
  requests,              \* how many requests this fetch has sent
  hops, emitted,         \* of the _TraceBuilder
  traces                 \* what this fetch has given to the sink

vars == <<pc, url, current, redirects, attempt, requests, hops, emitted, traces>>

(* A FetchHop, without addresses and times. *)
Ends     == {"stored", "redirect", "retry_status", "status", "error", "safeguard"}
FetchHop == [uri : Uris, end : Ends]

FetchTrace == [requested : Uris, hops : Seq(FetchHop), final : Uris \union {None},
               failed : BOOLEAN, redirects : Nat]

TypeOK ==
  /\ pc \in {"idle", "attempt", "response", "raising", "raised", "returned"}
  /\ url \in Uris \union {None} /\ current \in Uris \union {None}
  /\ pc # "idle" => url # None /\ current # None
  /\ redirects \in Nat /\ attempt \in 0 .. MaxRetries
  /\ requests \in Nat
  /\ hops \in Seq(FetchHop) /\ emitted \in BOOLEAN
  /\ traces \in Seq(FetchTrace)

Init ==
  /\ pc = "idle"
  /\ url = None /\ current = None
  /\ redirects = 0 /\ attempt = 0 /\ requests = 0
  /\ hops = <<>> /\ emitted = FALSE /\ traces = <<>>

Start ==
  /\ pc \in {"idle", "raised", "returned"}
  /\ url' \in Uris /\ current' = url'
  /\ redirects' = 0 /\ attempt' = 0 /\ requests' = 0
  /\ hops' = <<>> /\ emitted' = FALSE /\ traces' = <<>>
  /\ pc' = "attempt"

-----------------------------------------------------------------------------
(* The trace.                                                              *)

Here(end) == [uri |-> current, end |-> end]

(* _emit, once per builder; the hops are those recorded by then. *)
Emit_Again(final, failed, all) ==
  /\ traces' = Append(traces, [requested |-> url, hops |-> all, final |-> final,
                               failed |-> failed, redirects |-> redirects'])
  /\ emitted' = emitted

Emit(final, failed, all) ==
  /\ traces' = IF emitted THEN traces
               ELSE Append(traces, [requested |-> url, hops |-> all, final |-> final,
                                    failed |-> failed, redirects |-> redirects'])
  /\ emitted' = TRUE

(* An exception that ends the fetch: its hop, the trace, and the raise that *)
(* the outer handler sees.                                                 *)
Raise(all) ==
  /\ hops' = all
  /\ Emit(None, TRUE, all)
  /\ pc' = "raising"
  /\ UNCHANGED <<url, current, attempt>>

(* An attempt that failed in a way which may be retried. *)
Exhausted == attempt >= MaxRetries

Retry(all) ==
  IF Exhausted
  THEN Raise(all)
  ELSE /\ hops' = all
       /\ attempt' = attempt + 1
       /\ pc' = "attempt"
       /\ UNCHANGED <<url, current, emitted, traces>>

-----------------------------------------------------------------------------
(* One attempt: the URL's syntax, the resolver, then the request.          *)

Forbidden_Retried ==
  /\ pc = "attempt"
  /\ UNCHANGED <<redirects, requests>>
  /\ Retry(Append(hops, Here("safeguard")))

Forbidden ==
  /\ pc = "attempt"
  /\ UNCHANGED <<redirects, requests>>
  /\ Raise(Append(hops, Here("safeguard")))

CannotSend ==
  /\ pc = "attempt"
  /\ UNCHANGED <<redirects, requests>>
  /\ Retry(Append(hops, Here("error")))

SendRequest ==
  /\ pc = "attempt"
  /\ requests' = requests + 1
  /\ pc' = "response"
  /\ UNCHANGED <<url, current, redirects, attempt, hops, emitted, traces>>

-----------------------------------------------------------------------------
(* The response.                                                           *)

TooMany_OffByOne(n) == n > MaxRedirects + 1
TooMany(n) == n > MaxRedirects

(* The peer is not the pinned address, or the body is too large. *)
Breach ==
  /\ pc = "response"
  /\ UNCHANGED <<redirects, requests>>
  /\ Raise(Append(hops, Here("safeguard")))

(* The redirect is recorded and counted before the limit is looked at. *)
RedirectHops_Forgotten == hops
RedirectHops == Append(hops, Here("redirect"))

Redirect ==
  /\ pc = "response"
  /\ redirects' = redirects + 1
  /\ UNCHANGED requests
  /\ IF TooMany(redirects')
     THEN Raise(Append(RedirectHops, Here("safeguard")))
     ELSE /\ hops' = RedirectHops
          /\ current' \in Uris
          /\ attempt' = 0
          /\ pc' = "attempt"
          /\ UNCHANGED <<url, emitted, traces>>

(* Location is there and cannot be joined. *)
BadRedirect ==
  /\ pc = "response"
  /\ redirects' = redirects + 1
  /\ UNCHANGED requests
  /\ ~ TooMany(redirects')
  /\ Retry(Append(RedirectHops, Here("error")))

(* A retryable status; on the last attempt raise_for_status makes it final. *)
RetryStatus ==
  /\ pc = "response"
  /\ UNCHANGED <<redirects, requests>>
  /\ Retry(Append(hops, Here(IF Exhausted THEN "status" ELSE "retry_status")))

OtherStatus ==
  /\ pc = "response"
  /\ UNCHANGED <<redirects, requests>>
  /\ Raise(Append(hops, Here("status")))

(* No Location, a broken transfer, a timeout, an error of the store. *)
Broken ==
  /\ pc = "response"
  /\ UNCHANGED <<redirects, requests>>
  /\ Retry(Append(hops, Here("error")))

Stored ==
  /\ pc = "response"
  /\ hops' = Append(hops, Here("stored"))
  /\ UNCHANGED <<url, current, redirects, attempt, requests>>
  /\ Emit(current, FALSE, hops')
  /\ pc' = "returned"

(* The handler around the whole fetch, for what has not been traced yet. *)
OuterExcept ==
  /\ pc = "raising"
  /\ UNCHANGED <<url, current, redirects, attempt, requests, hops>>
  /\ IF emitted THEN UNCHANGED <<emitted, traces>> ELSE Emit(None, TRUE, hops)
  /\ pc' = "raised"

Next ==
  \/ Start
  \/ Forbidden \/ CannotSend \/ SendRequest
  \/ Breach \/ Redirect \/ BadRedirect \/ RetryStatus \/ OtherStatus \/ Broken \/ Stored
  \/ OuterExcept

Spec == Init /\ [][Next]_vars

-----------------------------------------------------------------------------
(* Properties.                                                             *)

(* A fetch that ends has given exactly one trace to the sink, however many *)
(* handlers it passed; the trace holds all hops, and tells success from    *)
(* failure as the caller sees it.                                          *)
OneTrace ==
  pc \in {"raised", "returned"} =>
    /\ Len(traces) = 1
    /\ traces[1].hops = hops /\ traces[1].redirects = redirects
    /\ traces[1].failed <=> pc = "raised"
    /\ pc = "returned" => traces[1].final = hops[Len(hops)].uri

Redirected == { i \in DOMAIN hops : hops[i].end = "redirect" }

(* The recorded hops are a walk from the requested URI: the URI changes    *)
(* only after a recorded redirect, retries stay where they were, and the   *)
(* redirect count is the number of recorded redirects.                     *)
HopsAreAWalk ==
  /\ hops # <<>> => hops[1].uri = url
  /\ \A i \in 1 .. Len(hops) - 1 : hops[i + 1].uri # hops[i].uri => i \in Redirected
  /\ Cardinality(Redirected) = redirects

(* A breach of a safeguard, or a final status, ends the fetch: nothing is  *)
(* sent after it.                                                          *)
SafeguardIsLast ==
  \A i \in DOMAIN hops :
    hops[i].end \in {"safeguard", "status", "stored"} =>
      i = Len(hops) /\ pc \in {"raising", "raised", "returned"}

(* Fresh retries at every hop do not multiply without bound, and every     *)
(* request that was answered or broke has left a hop.                      *)
BoundedRequests ==
  /\ requests <= (MaxRetries + 1) * (MaxRedirects + 1)
  /\ requests <= Len(hops) + (IF pc = "response" THEN 1 ELSE 0)

=============================================================================
