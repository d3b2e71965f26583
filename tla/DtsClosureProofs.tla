--------------------------- MODULE DtsClosureProofs ---------------------------
(***************************************************************************)
(* Proofs about the fetcher, and about the discovery of a closure and its  *)
(* replay that use it, for all documents, contents and limits.             *)
(*                                                                         *)
(* An action of the fetcher appends one hop or two, so its invariant is    *)
(* stated as predicates of a sequence of hops, and two lemmas say what     *)
(* appending one hop does to them.                                         *)
(*                                                                         *)
(* That a replay finds all that was bound would be an induction over the   *)
(* order in which the first worker resolved the documents.  Reach states   *)
(* its outcome without an order: a set that holds the entry, and whatever  *)
(* the contents bound to its members refer to, holds all that is bound.    *)
(***************************************************************************)
EXTENDS DtsClosure, SumProofs, SequenceTheorems, FiniteSetTheorems, TLAPS

Live  == {"attempt", "response"}
Over  == {"raising", "raised", "returned"}
Final == {"safeguard", "status", "stored"}

(* The walk: begun at url, and leaving a URI only after a redirect. *)
Walk(s) ==
  /\ s # <<>> => s[1].uri = url
  /\ \A i \in 1 .. Len(s) - 1 : s[i + 1].uri # s[i].uri => s[i].end = "redirect"

(* The fetch is where the walk has led. *)
Place(s) ==
  /\ s = <<>> => current = url
  /\ s # <<>> /\ s[Len(s)].end # "redirect" => s[Len(s)].uri = current

(* No hop up to n ends the fetch. *)
Clean(s, n) == \A i \in 1 .. n : s[i].end \notin Final

Reds(s) == { i \in DOMAIN s : s[i].end = "redirect" }

Counts(s, n) == IsFiniteSet(Reds(s)) /\ Cardinality(Reds(s)) = n

HopsInv ==
  /\ Walk(hops)
  /\ pc # "idle" => Place(hops)
  /\ Counts(hops, redirects)
  /\ pc \in Live => Clean(hops, Len(hops))
  /\ pc \in Over => hops # <<>> /\ Clean(hops, Len(hops) - 1)
  /\ pc = "returned" => hops[Len(hops)].end = "stored"
  /\ pc = "idle" => hops = <<>>

(* What has been given to the sink, from the moment it is given. *)
TraceInv ==
  /\ emitted <=> pc \in Over
  /\ emitted => /\ Len(traces) = 1
                /\ traces[1].hops = hops /\ traces[1].redirects = redirects
                /\ traces[1].failed <=> pc # "returned"
                /\ pc = "returned" => traces[1].final = current
  /\ ~ emitted => traces = <<>>

(* Each hop that was left by a redirect has used at most all its attempts. *)
InFlight == IF pc = "response" THEN 1 ELSE 0

BudgetInv ==
  /\ pc \in Live => redirects <= MaxRedirects
  /\ pc \in Live => requests <= redirects * (MaxRetries + 1) + attempt + InFlight
  /\ requests <= (MaxRetries + 1) * (MaxRedirects + 1)
  /\ requests <= Len(hops) + InFlight

IInv == TypeOK /\ HopsInv /\ TraceInv /\ BudgetInv

-----------------------------------------------------------------------------
(* Appending a hop.                                                        *)

(* A hop recorded where the fetch is continues the walk, and only that hop *)
(* may end the fetch.                                                      *)
LEMMA AppendedHop ==
  ASSUME NEW s \in Seq(FetchHop), NEW e \in Ends, current \in Uris, Walk(s), Place(s),
         Clean(s, Len(s))
  PROVE  LET r == Append(s, Here(e))
         IN  /\ r \in Seq(FetchHop) /\ r # <<>> /\ Len(r) = Len(s) + 1
             /\ r[Len(r)] = Here(e)
             /\ Walk(r) /\ Place(r)
             /\ Clean(r, Len(r) - 1)
             /\ e \notin Final => Clean(r, Len(r))
  <1>. DEFINE r == Append(s, Here(e))
  <1>1. Here(e) \in FetchHop /\ Here(e).uri = current /\ Here(e).end = e
    BY DEF Here, FetchHop
  <1>2. /\ r \in Seq(FetchHop) /\ Len(r) = Len(s) + 1 /\ Len(s) \in Nat
        /\ \A i \in 1 .. Len(s) : r[i] = s[i]
        /\ r[Len(s) + 1] = Here(e)
    BY <1>1
  <1>3. r # <<>>
    BY <1>2
  <1>. HIDE DEF r
  <1>4. Place(r)
    BY <1>1, <1>2, <1>3 DEF Place
  <1>5. r[1].uri = url
    <2>1. CASE s = <<>>
      BY <2>1, <1>1, <1>2 DEF Place
    <2>2. CASE s # <<>>
      <3>1. 1 \in 1 .. Len(s)
        BY <2>2, <1>2
      <3>. QED  BY <2>2, <3>1, <1>2 DEF Walk
    <2>. QED  BY <2>1, <2>2
  <1>6. ASSUME NEW i \in 1 .. Len(r) - 1, r[i + 1].uri # r[i].uri
        PROVE  r[i].end = "redirect"
    <2>1. CASE i = Len(s)
      <3>1. s # <<>> /\ r[i] = s[Len(s)] /\ r[i + 1] = Here(e)
        BY <2>1, <1>2
      <3>. QED  BY <1>1, <1>6, <3>1 DEF Place
    <2>2. CASE i # Len(s)
      <3>1. i \in 1 .. Len(s) - 1 /\ r[i] = s[i] /\ r[i + 1] = s[i + 1]
        BY <2>2, <1>2
      <3>. QED  BY <1>6, <3>1 DEF Walk
    <2>. QED  BY <2>1, <2>2
  <1>7. Walk(r)
    BY <1>5, <1>6 DEF Walk
  <1>8. Clean(r, Len(r) - 1)
    BY <1>2 DEF Clean
  <1>9. e \notin Final => Clean(r, Len(r))
    BY <1>1, <1>2 DEF Clean
  <1>. QED  BY <1>1, <1>2, <1>3, <1>4, <1>7, <1>8, <1>9 DEF r

(* A redirect counts one, any other hop counts nothing. *)
LEMMA AppendedCount ==
  ASSUME NEW s \in Seq(FetchHop), NEW e \in Ends, current \in Uris, NEW n \in Nat, Counts(s, n)
  PROVE  Counts(Append(s, Here(e)), IF e = "redirect" THEN n + 1 ELSE n)
  <1>. DEFINE r == Append(s, Here(e))
  <1>1. Here(e) \in FetchHop /\ Here(e).end = e
    BY DEF Here, FetchHop
  <1>2. /\ Len(s) \in Nat /\ DOMAIN s = 1 .. Len(s) /\ DOMAIN r = 1 .. Len(s) + 1
        /\ \A i \in 1 .. Len(s) : r[i] = s[i]
        /\ r[Len(s) + 1] = Here(e)
    BY <1>1
  <1>. HIDE DEF r
  <1>3. CASE e = "redirect"
    <2>1. Reds(r) = Reds(s) \union {Len(s) + 1}
      BY <1>1, <1>2, <1>3 DEF Reds
    <2>2. Len(s) + 1 \notin Reds(s)
      BY <1>2 DEF Reds
    <2>3. IsFiniteSet(Reds(s)) /\ Cardinality(Reds(s)) = n
      BY DEF Counts
    <2>4. /\ IsFiniteSet(Reds(s) \union {Len(s) + 1})
          /\ Cardinality(Reds(s) \union {Len(s) + 1}) = Cardinality(Reds(s)) + 1
      BY <2>2, <2>3, FS_AddElement, Zenon
    <2>. QED  BY <1>3, <2>1, <2>3, <2>4 DEF Counts, r
  <1>4. CASE e # "redirect"
    <2>1. Reds(r) = Reds(s)
      BY <1>1, <1>2, <1>4 DEF Reds
    <2>. QED  BY <1>4, <2>1 DEF Counts, r
  <1>. QED  BY <1>3, <1>4

-----------------------------------------------------------------------------
(* The arithmetic of the budget.                                           *)

(* A redirect brings R + 1 fresh attempts. *)
LEMMA FreshBudget ==
  ASSUME NEW k \in Nat, NEW R \in Nat
  PROVE  (k + 1) * (R + 1) = k * (R + 1) + (R + 1)
  BY SMT

(* The attempts of hop k and of all hops before it are within the bound. *)
LEMMA WithinBudget ==
  ASSUME NEW k \in Nat, NEW K \in Nat, NEW R \in Nat, k <= K
  PROVE  k * (R + 1) + (R + 1) <= (R + 1) * (K + 1)
  BY SMT

(* The attempts of the hops left behind are a natural number. *)
LEMMA SpentNat ==
  ASSUME NEW k \in Nat, NEW R \in Nat
  PROVE  k * (R + 1) \in Nat
  OBVIOUS

(* A retry stays within the attempts, whether or not a redirect preceded it. *)
LEMMA RetryBudget ==
  ASSUME NEW k \in Nat, NEW l \in {k, k + 1}, NEW R \in Nat, NEW a \in Nat, NEW q \in Nat,
         q <= k * (R + 1) + a + 1
  PROVE  q <= l * (R + 1) + (a + 1)
  <1>1. CASE l = k
    BY <1>1
  <1>2. CASE l = k + 1
    <2>1. l * (R + 1) = k * (R + 1) + (R + 1) /\ k * (R + 1) \in Nat
      BY <1>2, FreshBudget
    <2>. QED  BY <2>1
  <1>. QED  BY <1>1, <1>2

-----------------------------------------------------------------------------
(* What the two common endings of an attempt keep.                         *)

(* An exception that ends the fetch keeps the invariant: it emits the one trace. *)
LEMMA RaiseKeeps ==
  ASSUME IInv, pc \in Live, NEW all \in Seq(FetchHop), Raise(all),
         redirects' \in Nat, requests' = requests,
         all # <<>>, Len(all) > Len(hops), Walk(all), Place(all), Clean(all, Len(all) - 1),
         Counts(all, redirects')
  PROVE  IInv'
  <1>. DEFINE t == [requested |-> url, hops |-> all, final |-> None,
                    failed |-> TRUE, redirects |-> redirects']
  <1>. USE DEF Live, Over
  <1>1. ~ emitted /\ traces = <<>> /\ url \in Uris /\ current \in Uris
    BY DEF IInv, TraceInv, TypeOK
  <1>2. t \in FetchTrace
    BY <1>1 DEF FetchTrace
  <1>3. traces' = Append(<<>>, t) /\ emitted' = TRUE /\ pc' = "raising" /\ hops' = all
        /\ UNCHANGED <<url, current, attempt>>
    BY <1>1 DEF Raise, Emit
  <1>4. traces' \in Seq(FetchTrace) /\ Len(traces') = 1 /\ traces'[1] = t
    BY <1>2, <1>3
  <1>5. TypeOK'
    BY <1>3, <1>4 DEF IInv, TypeOK
  <1>6. HopsInv'
    BY <1>3 DEF HopsInv, Walk, Place, Clean, Counts, Reds
  <1>7. TraceInv'
    BY <1>3, <1>4 DEF TraceInv
  <1>8. BudgetInv'
    <2>1. Len(all) \in Nat /\ Len(hops) \in Nat /\ requests \in Nat
      BY DEF IInv, TypeOK
    <2>2. requests <= Len(hops) + 1 /\ requests <= (MaxRetries + 1) * (MaxRedirects + 1)
      BY <2>1 DEF IInv, BudgetInv, InFlight
    <2>3. requests' <= Len(hops')
      BY <2>1, <2>2, <1>3
    <2>. QED  BY <2>1, <2>2, <2>3, <1>3 DEF BudgetInv, InFlight
  <1>. QED  BY <1>5, <1>6, <1>7, <1>8 DEF IInv

(* A failure that may be retried keeps the invariant. *)
LEMMA RetryKeeps ==
  ASSUME IInv, pc \in Live, NEW all \in Seq(FetchHop), Retry(all),
         requests' = requests, redirects' \in {redirects, redirects + 1},
         redirects' <= MaxRedirects,
         all # <<>>, Len(all) > Len(hops), Walk(all), Place(all), Clean(all, Len(all) - 1),
         Counts(all, redirects'), ~ Exhausted => Clean(all, Len(all))
  PROVE  IInv'
  <1>. USE DEF Live, Over
  <1>1. redirects \in Nat /\ redirects' \in Nat /\ attempt \in Nat /\ requests \in Nat
        /\ Len(hops) \in Nat /\ Len(all) \in Nat /\ MaxRetries \in Nat
    BY FetcherAssumption DEF IInv, TypeOK
  <1>2. CASE Exhausted
    BY <1>1, <1>2, RaiseKeeps DEF Retry
  <1>3. CASE ~ Exhausted
    <2>1. hops' = all /\ attempt' = attempt + 1 /\ pc' = "attempt"
          /\ UNCHANGED <<url, current, emitted, traces>>
      BY <1>3 DEF Retry
    <2>2. attempt' \in 0 .. MaxRetries
      BY <1>1, <1>3, <2>1 DEF Exhausted
    <2>3. TypeOK'
      BY <1>1, <2>1, <2>2 DEF IInv, TypeOK
    <2>4. HopsInv'
      BY <1>3, <2>1 DEF HopsInv, Walk, Place, Clean, Counts, Reds
    <2>5. TraceInv'
      BY <2>1 DEF IInv, TraceInv
    <2>6. BudgetInv'
      <3>1. requests <= redirects * (MaxRetries + 1) + attempt + 1
            /\ requests <= Len(hops) + 1
            /\ requests <= (MaxRetries + 1) * (MaxRedirects + 1)
        BY <1>1 DEF IInv, BudgetInv, InFlight
      <3>2. requests <= redirects' * (MaxRetries + 1) + (attempt + 1)
        BY <1>1, <3>1, RetryBudget
      <3>3. InFlight' = 0
        BY <2>1 DEF InFlight
      <3>4. requests' <= redirects' * (MaxRetries + 1) + attempt' + InFlight'
        <4>. DEFINE spent == redirects' * (MaxRetries + 1)
        <4>1. spent \in Nat
          BY <1>1, SpentNat
        <4>2. requests <= spent + (attempt + 1)
          BY <3>2
        <4>. HIDE DEF spent
        <4>3. requests' <= spent + attempt' + InFlight'
          BY <1>1, <2>1, <3>3, <4>1, <4>2
        <4>. QED  BY <4>3 DEF spent
      <3>5. requests' <= Len(hops') + InFlight'
        BY <1>1, <2>1, <3>1, <3>3
      <3>. QED  BY <3>1, <3>4, <3>5, Zenon DEF BudgetInv
    <2>. QED  BY <2>3, <2>4, <2>5, <2>6 DEF IInv
  <1>. QED  BY <1>2, <1>3

(* The hops of an attempt that ended with e, and redirects as it was. *)
LEMMA OneHop ==
  ASSUME IInv, pc \in Live, NEW e \in Ends \ {"redirect"}
  PROVE  LET all == Append(hops, Here(e))
         IN  /\ all \in Seq(FetchHop) /\ all # <<>> /\ Len(all) > Len(hops)
             /\ all[Len(all)] = Here(e)
             /\ Walk(all) /\ Place(all) /\ Counts(all, redirects)
             /\ Clean(all, Len(all) - 1) /\ (e \notin Final => Clean(all, Len(all)))
  <1>1. /\ hops \in Seq(FetchHop) /\ current \in Uris /\ redirects \in Nat
        /\ Walk(hops) /\ Place(hops) /\ Clean(hops, Len(hops)) /\ Counts(hops, redirects)
        /\ Len(hops) \in Nat
    BY DEF IInv, TypeOK, HopsInv, Live
  <1>2. Counts(Append(hops, Here(e)), redirects)
    BY <1>1, AppendedCount
  <1>. QED  BY <1>1, <1>2, AppendedHop

(* The first hop of a redirect. *)
LEMMA RedirectHop ==
  ASSUME IInv, pc \in Live
  PROVE  /\ RedirectHops \in Seq(FetchHop) /\ RedirectHops # <<>>
         /\ Len(RedirectHops) = Len(hops) + 1
         /\ RedirectHops[Len(RedirectHops)].end = "redirect"
         /\ Walk(RedirectHops) /\ Place(RedirectHops)
         /\ Clean(RedirectHops, Len(RedirectHops))
         /\ Counts(RedirectHops, redirects + 1)
  <1>1. /\ hops \in Seq(FetchHop) /\ current \in Uris /\ redirects \in Nat
        /\ Walk(hops) /\ Place(hops) /\ Clean(hops, Len(hops)) /\ Counts(hops, redirects)
        /\ Len(hops) \in Nat /\ "redirect" \in Ends /\ "redirect" \notin Final
    BY DEF IInv, TypeOK, HopsInv, Live, Ends, Final
  <1>2. Counts(RedirectHops, redirects + 1)
    BY <1>1, AppendedCount DEF RedirectHops
  <1>3. Here("redirect").end = "redirect"
    BY DEF Here
  <1>. QED  BY <1>1, <1>2, <1>3, AppendedHop DEF RedirectHops

(* The hops of a redirect that failed with e. *)
LEMMA TwoHops ==
  ASSUME IInv, pc \in Live, NEW e \in Ends \ {"redirect"}
  PROVE  LET all == Append(RedirectHops, Here(e))
         IN  /\ all \in Seq(FetchHop) /\ all # <<>> /\ Len(all) > Len(hops)
             /\ Walk(all) /\ Place(all) /\ Counts(all, redirects + 1)
             /\ Clean(all, Len(all) - 1) /\ (e \notin Final => Clean(all, Len(all)))
  <1>1. current \in Uris /\ redirects + 1 \in Nat /\ Len(hops) \in Nat
    BY DEF IInv, TypeOK, Live
  <1>2. Counts(Append(RedirectHops, Here(e)), redirects + 1)
    BY <1>1, RedirectHop, AppendedCount
  <1>. QED  BY <1>1, <1>2, RedirectHop, AppendedHop

-----------------------------------------------------------------------------
(* The invariant.                                                          *)

(* A new fetcher. *)
LEMMA InitIInv == Init => IInv
  <1>. SUFFICES ASSUME Init PROVE IInv
    OBVIOUS
  <1>1. TypeOK
    <2>1. 0 \in 0 .. MaxRetries
      BY FetcherAssumption
    <2>2. hops \in Seq(FetchHop) /\ traces \in Seq(FetchTrace)
      BY DEF Init
    <2>. QED  BY <2>1, <2>2 DEF Init, TypeOK
  <1>2. Reds(hops) = {}
    BY DEF Init, Reds
  <1>3. Counts(hops, redirects)
    BY <1>2, FS_EmptySet DEF Init, Counts
  <1>4. HopsInv
    BY <1>3 DEF Init, HopsInv, Walk, Live, Over
  <1>5. TraceInv
    BY DEF Init, TraceInv, Over
  <1>6. BudgetInv
    <2>1. (MaxRetries + 1) * (MaxRedirects + 1) >= 0
      BY FetcherAssumption
    <2>. QED  BY <2>1 DEF Init, BudgetInv, InFlight, Live
  <1>. QED  BY <1>1, <1>4, <1>5, <1>6 DEF IInv

(* A fetch begins with a fresh builder and fresh counters. *)
LEMMA StartKeeps == IInv /\ Start => IInv'
  <1>. SUFFICES ASSUME IInv, Start PROVE IInv'
    OBVIOUS
  <1>1. TypeOK'
    <2>1. 0 \in 0 .. MaxRetries
      BY FetcherAssumption
    <2>2. hops' \in Seq(FetchHop) /\ traces' \in Seq(FetchTrace)
      BY DEF Start
    <2>. QED  BY <2>1, <2>2, FetcherAssumption DEF Start, TypeOK
  <1>2. Reds(hops') = {}
    BY DEF Start, Reds
  <1>3. Counts(hops, redirects)'
    BY <1>2, FS_EmptySet DEF Start, Counts, Reds
  <1>4. HopsInv'
    BY <1>3 DEF Start, HopsInv, Walk, Place, Clean, Live, Over
  <1>5. TraceInv'
    BY DEF Start, TraceInv, Over
  <1>6. BudgetInv'
    <2>1. 0 <= (MaxRetries + 1) * (MaxRedirects + 1) /\ 0 * (MaxRetries + 1) = 0
          /\ 0 <= MaxRedirects
      BY FetcherAssumption
    <2>2. pc' = "attempt" /\ redirects' = 0 /\ attempt' = 0 /\ requests' = 0 /\ Len(hops') = 0
          /\ InFlight' = 0
      BY DEF Start, InFlight
    <2>. QED  BY <2>1, <2>2 DEF BudgetInv
  <1>. QED  BY <1>1, <1>4, <1>5, <1>6 DEF IInv

(* A forbidden destination ends the fetch. *)
LEMMA ForbiddenKeeps == IInv /\ Forbidden => IInv'
  <1>. SUFFICES ASSUME IInv, Forbidden PROVE IInv'
    OBVIOUS
  <1>. QED  BY OneHop, RaiseKeeps DEF Forbidden, Live, Ends, IInv, TypeOK

(* A request that cannot be sent is retried. *)
LEMMA CannotSendKeeps == IInv /\ CannotSend => IInv'
  <1>. SUFFICES ASSUME IInv, CannotSend PROVE IInv'
    OBVIOUS
  <1>1. redirects \in Nat /\ redirects <= MaxRedirects
    BY DEF IInv, BudgetInv, TypeOK, CannotSend, Live
  <1>. QED  BY <1>1, OneHop, RetryKeeps DEF CannotSend, Live, Ends, Final

(* A request uses one attempt of the current hop. *)
LEMMA SendRequestKeeps == IInv /\ SendRequest => IInv'
  <1>. SUFFICES ASSUME IInv, SendRequest PROVE IInv'
    OBVIOUS
  <1>. USE DEF Live, Over
  <1>1. TypeOK'
    BY DEF IInv, TypeOK, SendRequest
  <1>2. HopsInv'
    BY DEF IInv, HopsInv, Walk, Place, Clean, Counts, Reds, SendRequest
  <1>3. TraceInv'
    BY DEF IInv, TraceInv, SendRequest
  <1>4. BudgetInv'
    <2>. DEFINE spent == redirects * (MaxRetries + 1)
                all   == (MaxRetries + 1) * (MaxRedirects + 1)
    <2>1. redirects \in Nat /\ attempt \in Nat /\ attempt <= MaxRetries /\ requests \in Nat
          /\ MaxRetries \in Nat /\ MaxRedirects \in Nat /\ Len(hops) \in Nat
          /\ redirects <= MaxRedirects
      BY FetcherAssumption DEF IInv, TypeOK, BudgetInv, SendRequest
    <2>2. spent \in Nat /\ spent + (MaxRetries + 1) <= all /\ all \in Nat
      BY <2>1, SpentNat, WithinBudget
    <2>3. requests <= spent + attempt /\ requests <= Len(hops)
      BY <2>1 DEF IInv, BudgetInv, SendRequest, InFlight
    <2>4. InFlight' = 1 /\ requests' = requests + 1 /\ UNCHANGED <<redirects, attempt, hops>>
      BY DEF SendRequest, InFlight
    <2>5. BudgetInv' <=> /\ pc' \in Live => redirects' <= MaxRedirects
                         /\ pc' \in Live => requests' <= spent + attempt' + InFlight'
                         /\ requests' <= all
                         /\ requests' <= Len(hops') + InFlight'
      BY <2>4 DEF BudgetInv
    <2>. HIDE DEF spent, all
    <2>. QED  BY <2>1, <2>2, <2>3, <2>4, <2>5
  <1>. QED  BY <1>1, <1>2, <1>3, <1>4 DEF IInv

(* A breach and a final status end the fetch. *)
LEMMA BreachKeeps == IInv /\ (Breach \/ OtherStatus) => IInv'
  <1>. SUFFICES ASSUME IInv, Breach \/ OtherStatus PROVE IInv'
    OBVIOUS
  <1>. QED  BY OneHop, RaiseKeeps DEF Breach, OtherStatus, Live, Ends, IInv, TypeOK

(* A retryable status and a broken transfer are retried. *)
LEMMA RetriesKeep == IInv /\ (RetryStatus \/ Broken) => IInv'
  <1>. SUFFICES ASSUME IInv, RetryStatus \/ Broken PROVE IInv'
    OBVIOUS
  <1>1. pc \in Live /\ redirects' = redirects /\ requests' = requests
        /\ redirects \in Nat /\ redirects <= MaxRedirects
    BY DEF IInv, BudgetInv, TypeOK, RetryStatus, Broken, Live
  <1>2. PICK e \in {"error", "status", "retry_status"} :
           Retry(Append(hops, Here(e))) /\ (~ Exhausted => e # "status")
    BY DEF RetryStatus, Broken
  <1>. QED  BY <1>1, <1>2, OneHop, RetryKeeps DEF Ends, Final

(* A redirect begins a hop, or ends the fetch at the limit. *)
LEMMA RedirectKeeps == IInv /\ Redirect => IInv'
  <1>. SUFFICES ASSUME IInv, Redirect PROVE IInv'
    OBVIOUS
  <1>. USE DEF Live, Over
  <1>1. pc = "response" /\ pc \in Live /\ redirects \in Nat /\ redirects' = redirects + 1
        /\ redirects' \in Nat /\ requests' = requests /\ requests \in Nat /\ Len(hops) \in Nat
        /\ MaxRetries \in Nat /\ MaxRedirects \in Nat /\ attempt \in Nat
        /\ attempt <= MaxRetries
    BY FetcherAssumption DEF Redirect, IInv, TypeOK
  <1>2. CASE TooMany(redirects')
    <2>1. Raise(Append(RedirectHops, Here("safeguard")))
      BY <1>2 DEF Redirect
    <2>. QED  BY <1>1, <2>1, TwoHops, RaiseKeeps DEF Ends
  <1>3. CASE ~ TooMany(redirects')
    <2>1. hops' = RedirectHops /\ current' \in Uris /\ attempt' = 0 /\ pc' = "attempt"
          /\ UNCHANGED <<url, emitted, traces>>
      BY <1>3 DEF Redirect
    <2>2. /\ hops' \in Seq(FetchHop) /\ hops' # <<>> /\ Len(hops') = Len(hops) + 1
          /\ hops'[Len(hops')].end = "redirect"
          /\ Walk(hops') /\ Clean(hops', Len(hops')) /\ Counts(hops', redirects')
      BY <1>1, <2>1, RedirectHop
    <2>3. TypeOK'
      <3>1. 0 \in 0 .. MaxRetries
        BY <1>1
      <3>2. url' \in Uris /\ emitted' \in BOOLEAN /\ traces' \in Seq(FetchTrace)
        BY <1>1, <2>1 DEF IInv, TypeOK
      <3>. QED  BY <1>1, <2>1, <2>2, <3>1, <3>2, FetcherAssumption DEF TypeOK
    <2>4. HopsInv'
      BY <2>1, <2>2 DEF HopsInv, Walk, Place, Clean, Counts, Reds
    <2>5. TraceInv'
      BY <1>1, <2>1 DEF IInv, TraceInv
    <2>6. BudgetInv'
      <3>. DEFINE spent == redirects * (MaxRetries + 1)
                  after == redirects' * (MaxRetries + 1)
                  all   == (MaxRetries + 1) * (MaxRedirects + 1)
      <3>1. spent \in Nat /\ after = spent + (MaxRetries + 1)
        BY <1>1, SpentNat, FreshBudget
      <3>2. requests <= spent + attempt + 1 /\ requests <= all /\ requests <= Len(hops) + 1
        BY <1>1 DEF IInv, BudgetInv, InFlight
      <3>3. InFlight' = 0
        BY <2>1 DEF InFlight
      <3>4. redirects' <= MaxRedirects
        BY <1>1, <1>3 DEF TooMany
      <3>5. BudgetInv' <=> /\ pc' \in Live => redirects' <= MaxRedirects
                           /\ pc' \in Live => requests' <= after + attempt' + InFlight'
                           /\ requests' <= all
                           /\ requests' <= Len(hops') + InFlight'
        BY DEF BudgetInv
      <3>. HIDE DEF spent, after, all
      <3>. QED  BY <1>1, <2>1, <2>2, <3>1, <3>2, <3>3, <3>4, <3>5
    <2>. QED  BY <2>3, <2>4, <2>5, <2>6 DEF IInv
  <1>. QED  BY <1>2, <1>3

(* A redirect that cannot be joined is retried at its own hop. *)
LEMMA BadRedirectKeeps == IInv /\ BadRedirect => IInv'
  <1>. SUFFICES ASSUME IInv, BadRedirect PROVE IInv'
    OBVIOUS
  <1>1. pc \in Live /\ redirects' = redirects + 1 /\ requests' = requests
        /\ redirects \in Nat /\ redirects' <= MaxRedirects
    BY FetcherAssumption DEF IInv, TypeOK, BadRedirect, Live, TooMany
  <1>2. Retry(Append(RedirectHops, Here("error")))
    BY DEF BadRedirect
  <1>. QED  BY <1>1, <1>2, TwoHops, RetryKeeps DEF Ends, Final

(* Success emits the one trace. *)
LEMMA StoredKeeps == IInv /\ Stored => IInv'
  <1>. SUFFICES ASSUME IInv, Stored PROVE IInv'
    OBVIOUS
  <1>. DEFINE all == Append(hops, Here("stored"))
              t == [requested |-> url, hops |-> hops', final |-> current,
                    failed |-> FALSE, redirects |-> redirects']
  <1>. USE DEF Live, Over
  <1>1. /\ all \in Seq(FetchHop) /\ all # <<>> /\ Len(all) > Len(hops)
        /\ all[Len(all)] = Here("stored")
        /\ Walk(all) /\ Place(all) /\ Counts(all, redirects) /\ Clean(all, Len(all) - 1)
    BY OneHop DEF Stored, Ends
  <1>2. hops' = all /\ pc' = "returned" /\ UNCHANGED <<url, current, redirects, attempt, requests>>
    BY DEF Stored
  <1>. HIDE DEF all
  <1>3. ~ emitted /\ traces = <<>> /\ url \in Uris /\ current \in Uris /\ redirects \in Nat
    BY DEF IInv, TraceInv, TypeOK, Stored
  <1>4. t \in FetchTrace
    BY <1>1, <1>2, <1>3 DEF FetchTrace
  <1>5. traces' = Append(<<>>, t) /\ emitted' = TRUE
    BY <1>3 DEF Stored, Emit
  <1>6. traces' \in Seq(FetchTrace) /\ Len(traces') = 1 /\ traces'[1] = t
    BY <1>4, <1>5
  <1>7. TypeOK'
    <2>1. attempt' \in 0 .. MaxRetries /\ requests' \in Nat
      BY <1>2 DEF IInv, TypeOK
    <2>. QED  BY <1>1, <1>2, <1>3, <1>5, <1>6, <2>1, FetcherAssumption DEF TypeOK
  <1>8. HopsInv'
    <2>1. Here("stored").end = "stored"
      BY DEF Here
    <2>. QED  BY <1>1, <1>2, <2>1 DEF HopsInv, Walk, Place, Clean, Counts, Reds
  <1>9. TraceInv'
    BY <1>2, <1>5, <1>6 DEF TraceInv
  <1>10. BudgetInv'
    <2>1. Len(all) \in Nat /\ Len(hops) \in Nat /\ requests \in Nat
      BY <1>1 DEF IInv, TypeOK
    <2>2. requests <= Len(hops) + 1 /\ requests <= (MaxRetries + 1) * (MaxRedirects + 1)
      BY <2>1 DEF IInv, BudgetInv, InFlight
    <2>3. requests' <= Len(hops') /\ requests' = requests
      BY <2>1, <2>2, <1>1, <1>2
    <2>. QED  BY <2>1, <2>2, <2>3, <1>2 DEF BudgetInv, InFlight
  <1>. QED  BY <1>7, <1>8, <1>9, <1>10 DEF IInv

(* The outer handler finds the trace emitted. *)
LEMMA OuterExceptKeeps == IInv /\ OuterExcept => IInv'
  <1>. SUFFICES ASSUME IInv, OuterExcept PROVE IInv'
    OBVIOUS
  <1>. USE DEF Live, Over
  <1>1. emitted /\ pc = "raising" /\ pc' = "raised"
        /\ UNCHANGED <<url, current, redirects, attempt, requests, hops, emitted, traces>>
    BY DEF IInv, TraceInv, OuterExcept
  <1>2. TypeOK'
    BY <1>1 DEF IInv, TypeOK
  <1>3. HopsInv'
    BY <1>1 DEF IInv, HopsInv, Walk, Place, Clean, Counts, Reds
  <1>4. TraceInv'
    BY <1>1 DEF IInv, TraceInv
  <1>5. BudgetInv'
    BY <1>1 DEF IInv, BudgetInv, InFlight
  <1>. QED  BY <1>2, <1>3, <1>4, <1>5 DEF IInv

(* Every step of the fetcher keeps the invariant. *)
LEMMA StepKeeps == IInv /\ [Next]_vars => IInv'
  <1>. SUFFICES ASSUME IInv, [Next]_vars PROVE IInv'
    OBVIOUS
  <1>1. CASE UNCHANGED vars
    BY <1>1 DEF vars, IInv, TypeOK, HopsInv, TraceInv, BudgetInv, InFlight, Walk, Place,
                Clean, Counts, Reds
  <1>2. CASE Next
    BY <1>2, StartKeeps, ForbiddenKeeps, CannotSendKeeps, SendRequestKeeps, BreachKeeps,
       RetriesKeep, RedirectKeeps, BadRedirectKeeps, StoredKeeps, OuterExceptKeeps DEF Next
  <1>. QED  BY <1>1, <1>2

(* The invariant holds of every reachable state, for every limit. *)
THEOREM Invariance == Spec => []IInv
  <1>. QED  BY StepKeeps, InitIInv, PTL DEF Spec

(* The invariant gives the one trace, with all its hops and its outcome. *)
LEMMA InvOneTrace == IInv => OneTrace
  <1>. SUFFICES ASSUME IInv, pc \in {"raised", "returned"}
                PROVE  /\ Len(traces) = 1
                       /\ traces[1].hops = hops /\ traces[1].redirects = redirects
                       /\ traces[1].failed <=> pc = "raised"
                       /\ pc = "returned" => traces[1].final = hops[Len(hops)].uri
    BY DEF OneTrace
  <1>1. emitted
    BY DEF IInv, TraceInv, Over
  <1>2. pc = "returned" => hops[Len(hops)].uri = current
    BY DEF IInv, HopsInv, Place, Over
  <1>. QED  BY <1>1, <1>2 DEF IInv, TraceInv

(* The invariant gives the walk along the redirects. *)
LEMMA InvWalk == IInv => HopsAreAWalk
  <1>. SUFFICES ASSUME IInv PROVE HopsAreAWalk
    OBVIOUS
  <1>1. Redirected = Reds(hops)
    BY DEF Redirected, Reds
  <1>2. hops \in Seq(FetchHop) /\ Len(hops) \in Nat /\ DOMAIN hops = 1 .. Len(hops)
    BY DEF IInv, TypeOK
  <1>. QED  BY <1>1, <1>2 DEF IInv, HopsInv, Walk, Counts, HopsAreAWalk, Reds

(* The invariant gives that nothing follows a final hop. *)
LEMMA InvLast == IInv => SafeguardIsLast
  <1>. SUFFICES ASSUME IInv, NEW i \in DOMAIN hops,
                       hops[i].end \in {"safeguard", "status", "stored"}
                PROVE  i = Len(hops) /\ pc \in {"raising", "raised", "returned"}
    BY DEF SafeguardIsLast
  <1>1. Len(hops) \in Nat /\ i \in 1 .. Len(hops)
    BY DEF IInv, TypeOK
  <1>2. pc \notin Live /\ pc # "idle"
    BY <1>1 DEF IInv, HopsInv, Clean, Final
  <1>3. pc \in Over
    BY <1>2 DEF IInv, TypeOK, Live, Over
  <1>. QED  BY <1>1, <1>3 DEF IInv, HopsInv, Clean, Final, Over

(* The invariant gives the bound on the requests. *)
LEMMA InvBounded == IInv => BoundedRequests
  BY DEF IInv, BudgetInv, InFlight, BoundedRequests

(* The variables of the fetcher always have their types; an attempt never  *)
(* exceeds the configured retries.                                         *)
THEOREM FetcherTypes == Spec => []TypeOK
  <1>1. IInv => TypeOK
    BY DEF IInv
  <1>. QED  BY <1>1, Invariance, PTL

(* Exactly one trace per fetch, with all its hops and its true outcome.    *)
THEOREM OneTracePerFetch == Spec => []OneTrace
  <1>. QED  BY InvOneTrace, Invariance, PTL

(* The hops are a walk along the recorded redirects, which are counted     *)
(* right.                                                                  *)
THEOREM HopsFollowRedirects == Spec => []HopsAreAWalk
  <1>. QED  BY InvWalk, Invariance, PTL

(* Nothing is sent after a safeguard was breached, a status was final, or  *)
(* the document was stored.                                                *)
THEOREM SafeguardsAreFinal == Spec => []SafeguardIsLast
  <1>. QED  BY InvLast, Invariance, PTL

(* One fetch sends at most (retries + 1) * (redirects + 1) requests.       *)
THEOREM FetchIsBounded == Spec => []BoundedRequests
  <1>. QED  BY InvBounded, Invariance, PTL

-----------------------------------------------------------------------------
(* The closure.                                                            *)

Empty(pipe) == pipe = <<>>

(* Who may have written into which pipe. *)
PipeInv ==
  /\ worker = "loading" /\ parent # "reaping" =>
       parent = "reading" /\ Empty(toParent) /\ Empty(toWorker)
  /\ worker = "waiting" /\ parent = "reading" => Empty(toParent) \/ Empty(toWorker)
  /\ worker = "exiting" /\ parent # "reaping" =>
       parent = "reading" /\ (Empty(toParent) \/ Head(toParent).type = "result")
  /\ parent = "fetching" =>
       /\ phase = "online" /\ Empty(toParent) /\ worker \in {"waiting", "gone"}
       /\ worker = "waiting" => Empty(toWorker)
  /\ pc # "idle" => parent = "fetching" /\ safeguard = None /\ Held(asked) = None

(* What is bound has been reached from the entry. *)
Reach(b) ==
  \A T \in SUBSET Uris :
    Entry \in T /\ (\A u \in T : b[u] # None => Refs[b[u]] \intersect Uris \subseteq T)
      => Bound(b) \subseteq T

(* What was resolved was wanted, and so is what the worker waits for. *)
LoadInv ==
  /\ Reach(resolved)
  /\ worker = "waiting" => requested \in Missing

(* A result lists what it lacks; that of a replay lacks nothing. *)
GoodResult(r) ==
  \/ r.errors
  \/ /\ References(r.resolved) \subseteq Bound(r.resolved) \union r.unresolved \union Irregular
     /\ Reach(r.resolved)
     /\ phase = "replay" => Faithful(r)

ResultInv ==
  /\ result # None => GoodResult(result)
  /\ ~ Empty(toParent) /\ Head(toParent).type = "result" => GoodResult(Head(toParent).result)

(* The replay finds what the bindings hold, and wants no more. *)
ReplayInv ==
  /\ phase \in {"replay", "accepted"} =>
       safeguard = None /\ Reach(bindings) /\ ClosureIsClosed
  /\ phase = "replay" =>
       /\ worker # "waiting"
       /\ Empty(toParent) \/ Head(toParent).type = "result"
       /\ \A u \in Uris : resolved[u] \in {None, bindings[u]}
       /\ unresolved = {} /\ denied = FALSE
  /\ ~ Running => parent = "reaping" /\ worker = "gone"

ClosureInv == DtsTypeOK /\ PipeInv /\ LoadInv /\ ResultInv /\ ReplayInv

DtsInv == IInv /\ ClosureInv

-----------------------------------------------------------------------------
(* The pipes, the messages and the closures.                               *)

(* A pipe holds one message at most: reading it leaves it empty. *)
LEMMA ReadPipe ==
  ASSUME NEW S, NEW pipe \in Seq(S), Len(pipe) <= 1, pipe # <<>>
  PROVE  Head(pipe) \in S /\ Tail(pipe) = <<>>
  <1>1. Len(pipe) = 1
    BY EmptySeq
  <1>2. Head(pipe) \in S /\ Tail(pipe) \in Seq(S) /\ Len(Tail(pipe)) = 0
    BY <1>1, HeadTailProperties
  <1>. QED  BY <1>2, EmptySeq

(* Writing into an empty pipe. *)
LEMMA WritePipe ==
  ASSUME NEW S, NEW m \in S
  PROVE  LET pipe == Append(<<>>, m)
         IN  pipe \in Seq(S) /\ Len(pipe) = 1 /\ pipe # <<>> /\ Head(pipe) = m
  OBVIOUS

(* An empty pipe is typed. *)
LEMMA EmptyPipe == ASSUME NEW S PROVE <<>> \in Seq(S) /\ Len(<<>>) <= 1
  OBVIOUS

(* A message to the parent carries what its type says. *)
LEMMA Messages ==
  /\ \A u \in Uris : LET m == [type |-> "fetch", uri |-> u]
                     IN  m \in ToParent /\ m.type = "fetch"
  /\ \A r \in Result : LET m == [type |-> "result", result |-> r]
                       IN  m \in ToParent /\ m.type = "result" /\ m.result = r
  /\ \A m \in ToParent : /\ m.type = "fetch" => m.uri \in Uris
                         /\ m.type = "result" => m.result \in Result
  BY DEF ToParent

(* The answers of the parent; one with a document has its content. *)
LEMMA Answers ==
  /\ \A u \in Uris : [type |-> "fetch_error", uri |-> u] \in ToWorker
  /\ \A u \in Uris, c \in Contents :
        [type |-> "fetch_result", uri |-> u, content |-> c] \in ToWorker
  /\ \A m \in ToWorker : m.type = "fetch_result" => m.content \in Contents
  BY DEF ToWorker

(* None is no document. *)
LEMMA Unfilled == Unbound \in Binding /\ Reach(Unbound) /\ Bound(Unbound) = {}
  BY DEF Unbound, Binding, Reach, Bound

(* Resolving a document that is wanted keeps what is bound reachable. *)
LEMMA Extended ==
  ASSUME NEW b \in Binding, Reach(b), NEW u \in Wanted(b), b[u] = None, NEW c \in Contents
  PROVE  [b EXCEPT ![u] = c] \in Binding /\ Reach([b EXCEPT ![u] = c])
  <1>. DEFINE d == [b EXCEPT ![u] = c]
  <1>1. u \in Uris
    BY DocumentsAssumption DEF Wanted, References, Bound, Binding
  <1>2. d \in Binding /\ d[u] = c /\ \A w \in Uris : w # u => d[w] = b[w]
    BY <1>1 DEF Binding
  <1>3. \A w \in Uris : b[w] # None => d[w] = b[w]
    BY <1>2
  <1>4. Bound(d) \subseteq Bound(b) \union {u}
    BY <1>2 DEF Bound
  <1>. HIDE DEF d
  <1>5. ASSUME NEW T \in SUBSET Uris, Entry \in T,
               \A w \in T : d[w] # None => Refs[d[w]] \intersect Uris \subseteq T
        PROVE  Bound(d) \subseteq T
    <2>1. \A w \in T : b[w] # None => Refs[b[w]] \intersect Uris \subseteq T
      BY <1>3, <1>5
    <2>2. Bound(b) \subseteq T
      BY <1>5, <2>1 DEF Reach
    <2>3. u \in T
      BY <1>5, <2>1, <2>2 DEF Wanted, References, Bound
    <2>. QED  BY <2>2, <2>3, <1>4
  <1>6. Reach(d)
    BY <1>5 DEF Reach
  <1>. QED  BY <1>2, <1>6 DEF d

(* A load that lacks nothing has found every document the bindings hold. *)
LEMMA AllFound ==
  ASSUME NEW b \in Binding, NEW d \in Binding, Reach(b),
         \A u \in Uris : d[u] \in {None, b[u]},
         References(d) \subseteq Bound(d) \union Irregular
  PROVE  d = b
  <1>1. Wanted(d) \subseteq Bound(d)
    BY DocumentsAssumption DEF Wanted
  <1>2. Entry \in Bound(d) /\ Bound(d) \in SUBSET Uris
    BY <1>1, DocumentsAssumption DEF Wanted, References, Bound
  <1>3. ASSUME NEW u \in Bound(d) PROVE d[u] = b[u] /\ Refs[b[u]] \intersect Uris \subseteq Bound(d)
    <2>1. d[u] = b[u] /\ d[u] # None
      BY DEF Bound
    <2>2. Refs[d[u]] \intersect Uris \subseteq Wanted(d)
      BY DEF Wanted, References
    <2>. QED  BY <1>1, <2>1, <2>2
  <1>4. Bound(b) \subseteq Bound(d)
    BY <1>2, <1>3 DEF Reach
  <1>5. \A u \in Uris : d[u] = b[u]
    BY <1>4 DEF Bound
  <1>. QED  BY <1>5 DEF Binding

(* A worker that may only use the bindings never wants anything else. *)
LEMMA WantsBound ==
  ASSUME NEW b \in Binding, NEW d \in Binding,
         References(b) \subseteq Bound(b) \union Irregular,
         \A u \in Uris : d[u] \in {None, b[u]}
  PROVE  References(d) \subseteq Bound(b) \union Irregular
  BY DEF References, Bound

-----------------------------------------------------------------------------
(* What leaves a part of the invariant as it is.                           *)

(* What the worker has loaded, and the document it waits for. *)
LEMMA LoadFrame ==
  ASSUME LoadInv, UNCHANGED resolved, worker' = "waiting" => UNCHANGED <<worker, requested>>
  PROVE  LoadInv'
  BY DEF LoadInv, Missing, Reach, Wanted, References, Bound

(* What the results say; a result may have been read. *)
LEMMA ResultFrame ==
  ASSUME ResultInv, UNCHANGED <<phase, bindings, result>>, toParent' \in {toParent, <<>>}
  PROVE  ResultInv'
  <1>1. \A r : GoodResult(r)' <=> GoodResult(r)
    BY DEF GoodResult, Reach, Wanted, References, Bound, Faithful
  <1>. QED  BY <1>1 DEF ResultInv, Empty

(* What is known of the bindings and of the replay. *)
LEMMA ReplayFrame ==
  ASSUME ReplayInv, UNCHANGED <<phase, safeguard, bindings, external>>,
         phase = "replay" => /\ UNCHANGED <<resolved, unresolved, denied>>
                             /\ worker' # "waiting" /\ toParent' \in {toParent, <<>>},
         ~ Running => UNCHANGED <<parent, worker>>
  PROVE  ReplayInv'
  <1>1. Reach(bindings)' <=> Reach(bindings)
    BY DEF Reach, Bound
  <1>2. ClosureIsClosed' <=> ClosureIsClosed
    BY DEF ClosureIsClosed, Wanted, References, Bound
  <1>. QED  BY <1>1, <1>2 DEF ReplayInv, Running, Empty

-----------------------------------------------------------------------------
(* The worker.                                                             *)

(* A document of the job is resolved. *)
LEMMA ResolveKnownKeeps == ClosureInv /\ ResolveKnown /\ UNCHANGED vars => ClosureInv'
  <1>. SUFFICES ASSUME ClosureInv, ResolveKnown, UNCHANGED vars PROVE ClosureInv'
    OBVIOUS
  <1>1. PICK u \in Missing : Known(u) # None /\ resolved' = [resolved EXCEPT ![u] = Known(u)]
    BY DEF ResolveKnown
  <1>2. UNCHANGED <<phase, parent, asked, expired, worker, requested, toParent, toWorker,
                    unresolved, diagnosed, denied, result, external, remaining, safeguard, bindings, pc>>
        /\ worker = "loading" /\ Running
    BY DEF ResolveKnown, pipes, fetching, vars
  <1>3. resolved \in Binding /\ bindings \in Binding /\ u \in Wanted(resolved) /\ resolved[u] = None
    BY <1>1 DEF ClosureInv, DtsTypeOK, Missing
  <1>4. u \in Uris
    BY <1>3, DocumentsAssumption DEF Wanted, References, Bound, Binding
  <1>5. Known(u) \in Contents
    BY <1>1, <1>3, <1>4, DocumentsAssumption DEF Known, Binding
  <1>6. resolved' \in Binding /\ Reach(resolved')
    BY <1>1, <1>3, <1>5, Extended DEF ClosureInv, LoadInv
  <1>7. DtsTypeOK'
    BY <1>2, <1>6 DEF ClosureInv, DtsTypeOK
  <1>8. PipeInv'
    BY <1>2 DEF ClosureInv, PipeInv, Held, Empty
  <1>9. LoadInv'
    BY <1>2, <1>6 DEF LoadInv, Reach, Bound
  <1>10. ResultInv'
    BY <1>2, ResultFrame DEF ClosureInv
  <1>11. ReplayInv'
    <2>1. CASE phase = "replay"
      <3>1. Known(u) = bindings[u]
        BY <2>1 DEF Known
      <3>2. \A w \in Uris : resolved'[w] \in {None, bindings[w]}
        BY <2>1, <3>1, <1>1, <1>3, <1>4 DEF ClosureInv, ReplayInv, Binding
      <3>3. Reach(bindings)' <=> Reach(bindings)
        BY <1>2 DEF Reach, Bound
      <3>4. ClosureIsClosed' <=> ClosureIsClosed
        BY <1>2 DEF ClosureIsClosed, Wanted, References, Bound
      <3>. QED  BY <1>2, <2>1, <3>2, <3>3, <3>4 DEF ClosureInv, ReplayInv, Running, Empty
    <2>2. CASE phase # "replay"
      BY <1>2, <2>2, ReplayFrame DEF ClosureInv
    <2>. QED  BY <2>1, <2>2
  <1>. QED  BY <1>7, <1>8, <1>9, <1>10, <1>11 DEF ClosureInv

(* A document that is not of the job is asked for; a replay never wants    *)
(* one.                                                                    *)
LEMMA ResolveUnknownKeeps == ClosureInv /\ ResolveUnknown /\ UNCHANGED vars => ClosureInv'
  <1>. SUFFICES ASSUME ClosureInv, ResolveUnknown, UNCHANGED vars PROVE ClosureInv'
    OBVIOUS
  <1>1. PICK u \in Missing : /\ Known(u) = None
                             /\ IF phase = "replay" THEN RefuseOffline(u) ELSE RequestFetch(u)
    BY DEF ResolveUnknown
  <1>2. UNCHANGED <<phase, parent, asked, expired, toWorker, result, external, remaining,
                    safeguard, bindings, pc>> /\ worker = "loading" /\ Running
    BY DEF ResolveUnknown, pipes, fetching, vars
  <1>3. resolved \in Binding /\ bindings \in Binding /\ u \in Wanted(resolved) /\ resolved[u] = None
    BY <1>1 DEF ClosureInv, DtsTypeOK, Missing
  <1>4. u \in Uris
    BY <1>3, DocumentsAssumption DEF Wanted, References, Bound, Binding
  <1>5. phase # "replay"
    <2>. SUFFICES ASSUME phase = "replay" PROVE FALSE
      OBVIOUS
    <2>1. References(bindings) \subseteq Bound(bindings) \union Irregular
          /\ \A w \in Uris : resolved[w] \in {None, bindings[w]}
      BY DEF ClosureInv, ReplayInv, ClosureIsClosed
    <2>2. u \in Bound(bindings)
      BY <1>3, <1>4, <2>1, WantsBound, DocumentsAssumption DEF Wanted
    <2>. QED  BY <2>2, <1>1 DEF Known, Bound
  <1>6. toParent' = Pumped([type |-> "fetch", uri |-> u]) /\ worker' = "waiting"
        /\ requested' = u /\ UNCHANGED <<resolved, unresolved, diagnosed, denied>>
    BY <1>1, <1>5 DEF RequestFetch, loading
  <1>7. u # None
    BY <1>4, DocumentsAssumption
  <1>8. CASE parent = "reaping"
    <2>1. UNCHANGED toParent
      BY <1>6, <1>8 DEF Pumped
    <2>2. DtsTypeOK'
      BY <1>2, <1>4, <1>6, <1>7, <2>1 DEF ClosureInv, DtsTypeOK
    <2>3. PipeInv'
      BY <1>2, <1>6, <1>8, <2>1 DEF ClosureInv, PipeInv, Held, Empty
    <2>4. LoadInv'
      BY <1>1, <1>6 DEF ClosureInv, LoadInv, Missing, Reach, Wanted, References, Bound
    <2>5. ResultInv'
      BY <1>2, <2>1, ResultFrame DEF ClosureInv
    <2>6. ReplayInv'
      BY <1>2, <1>5, ReplayFrame DEF ClosureInv
    <2>. QED  BY <2>2, <2>3, <2>4, <2>5, <2>6 DEF ClosureInv
  <1>9. CASE parent # "reaping"
    <2>. DEFINE m == [type |-> "fetch", uri |-> u]
    <2>1. parent = "reading" /\ toParent = <<>> /\ toWorker = <<>>
      BY <1>2, <1>9 DEF ClosureInv, PipeInv, Empty
    <2>2. toParent' = Append(<<>>, m)
      BY <1>6, <1>9, <2>1 DEF Pumped
    <2>3. m \in ToParent /\ m.type = "fetch"
      BY <1>4, Messages
    <2>. HIDE DEF m
    <2>4. toParent' \in Seq(ToParent) /\ Len(toParent') <= 1 /\ Head(toParent') = m
      BY <2>2, <2>3, WritePipe
    <2>5. DtsTypeOK'
      BY <1>2, <1>4, <1>6, <1>7, <2>4 DEF ClosureInv, DtsTypeOK
    <2>6. PipeInv'
      BY <1>2, <1>6, <2>1 DEF ClosureInv, PipeInv, Held, Empty
    <2>7. LoadInv'
      BY <1>1, <1>6 DEF ClosureInv, LoadInv, Missing, Reach, Wanted, References, Bound
    <2>8. ResultInv'
      <3>1. \A r : GoodResult(r)' <=> GoodResult(r)
        BY <1>2 DEF GoodResult, Reach, Wanted, References, Bound, Faithful
      <3>. QED  BY <1>2, <2>3, <2>4, <3>1 DEF ClosureInv, ResultInv, Empty
    <2>9. ReplayInv'
      BY <1>2, <1>5, ReplayFrame DEF ClosureInv
    <2>. QED  BY <2>5, <2>6, <2>7, <2>8, <2>9 DEF ClosureInv
  <1>. QED  BY <1>8, <1>9

(* A reference without a canonical URI is mentioned in the diagnostics. *)
LEMMA RejectIrregularKeeps == ClosureInv /\ RejectIrregular /\ UNCHANGED vars => ClosureInv'
  <1>. SUFFICES ASSUME ClosureInv, RejectIrregular, UNCHANGED vars PROVE ClosureInv'
    OBVIOUS
  <1>1. UNCHANGED <<phase, parent, asked, expired, worker, requested, toParent, toWorker, resolved,
                    unresolved, denied, result, external, remaining, safeguard, bindings, pc>>
        /\ worker = "loading" /\ diagnosed' \in SUBSET Irregular
    BY DEF RejectIrregular, fetching, pipes, vars, ClosureInv, DtsTypeOK
  <1>2. DtsTypeOK'
    BY <1>1 DEF ClosureInv, DtsTypeOK
  <1>3. PipeInv'
    BY <1>1 DEF ClosureInv, PipeInv, Held, Empty
  <1>4. LoadInv'
    BY <1>1, LoadFrame DEF ClosureInv
  <1>5. ResultInv'
    BY <1>1, ResultFrame DEF ClosureInv
  <1>6. ReplayInv'
    BY <1>1, ReplayFrame DEF ClosureInv
  <1>. QED  BY <1>2, <1>3, <1>4, <1>5, <1>6 DEF ClosureInv

(* A local file is noted; the contents of a closure refer to none. *)
LEMMA DenyLocalKeeps == ClosureInv /\ DenyLocal /\ UNCHANGED vars => ClosureInv'
  <1>. SUFFICES ASSUME ClosureInv, DenyLocal, UNCHANGED vars PROVE ClosureInv'
    OBVIOUS
  <1>1. UNCHANGED <<phase, parent, asked, expired, worker, requested, toParent, toWorker, resolved,
                    diagnosed, denied, result, external, remaining, safeguard, bindings, pc>>
        /\ worker = "loading" /\ Running
    BY DEF DenyLocal, fetching, pipes, vars
  <1>2. PICK u \in References(resolved) \intersect Local : unresolved' = unresolved \union {u}
    BY DEF DenyLocal, NoteUnresolved
  <1>3. phase # "replay"
    <2>. SUFFICES ASSUME phase = "replay" PROVE FALSE
      OBVIOUS
    <2>1. /\ References(bindings) \subseteq Bound(bindings) \union Irregular
          /\ \A w \in Uris : resolved[w] \in {None, bindings[w]}
          /\ resolved \in Binding /\ bindings \in Binding
      BY DEF ClosureInv, ReplayInv, ClosureIsClosed, DtsTypeOK
    <2>2. u \in Bound(bindings) \union Irregular
      BY <1>2, <2>1, WantsBound
    <2>. QED  BY <1>2, <2>2, DocumentsAssumption DEF Bound
  <1>4. DtsTypeOK'
    BY <1>1, <1>2 DEF ClosureInv, DtsTypeOK
  <1>5. PipeInv'
    BY <1>1 DEF ClosureInv, PipeInv, Held, Empty
  <1>6. LoadInv'
    BY <1>1, LoadFrame DEF ClosureInv
  <1>7. ResultInv'
    BY <1>1, ResultFrame DEF ClosureInv
  <1>8. ReplayInv'
    BY <1>1, <1>3, ReplayFrame DEF ClosureInv
  <1>. QED  BY <1>4, <1>5, <1>6, <1>7, <1>8 DEF ClosureInv

(* The worker waits only online. *)
LEMMA WaitsOnline == ClosureInv /\ worker = "waiting" => phase = "online" /\ Running
  BY DEF ClosureInv, ReplayInv, DtsTypeOK, Running

(* An answer, with the document or without it. *)
LEMMA ReceiveAnswerKeeps == ClosureInv /\ ReceiveAnswer /\ UNCHANGED vars => ClosureInv'
  <1>. SUFFICES ASSUME ClosureInv, ReceiveAnswer, UNCHANGED vars PROVE ClosureInv'
    OBVIOUS
  <1>1. UNCHANGED <<phase, parent, asked, expired, toParent, diagnosed, denied, result, external, remaining,
                    safeguard, bindings, pc>>
        /\ worker = "waiting" /\ worker' = "loading" /\ requested' = None
        /\ toWorker # <<>> /\ toWorker' = Tail(toWorker)
    BY DEF ReceiveAnswer, fetching, vars
  <1>2. phase = "online" /\ Running
    BY <1>1, WaitsOnline
  <1>3. Head(toWorker) \in ToWorker /\ toWorker' = <<>>
    BY <1>1, ReadPipe DEF ClosureInv, DtsTypeOK
  <1>4. parent # "reaping" => parent = "reading" /\ toParent = <<>>
    BY <1>1 DEF ClosureInv, PipeInv, DtsTypeOK, Empty
  <1>5. resolved \in Binding /\ requested \in Wanted(resolved) /\ resolved[requested] = None
        /\ requested \in Uris /\ Reach(resolved)
    BY <1>1 DEF ClosureInv, LoadInv, DtsTypeOK, Missing
  <1>6. resolved' \in Binding /\ Reach(resolved') /\ unresolved' \in SUBSET (Uris \union Local)
    <2>1. CASE /\ Head(toWorker).type = "fetch_result"
               /\ resolved' = [resolved EXCEPT ![requested] = Head(toWorker).content]
               /\ UNCHANGED unresolved
      <3>1. PICK u \in Uris : u = requested
        BY <1>5
      <3>2. PICK c \in Contents : c = Head(toWorker).content
        BY <1>3, <2>1, Answers
      <3>3. PICK b \in Binding : b = resolved
        BY <1>5
      <3>4. [b EXCEPT ![u] = c] \in Binding /\ Reach([b EXCEPT ![u] = c])
        BY <1>5, <3>1, <3>3, Extended
      <3>. QED  BY <2>1, <3>1, <3>2, <3>3, <3>4 DEF ClosureInv, DtsTypeOK
    <2>2. CASE NoteUnresolved(requested) /\ UNCHANGED resolved
      BY <1>5, <2>2 DEF NoteUnresolved, ClosureInv, DtsTypeOK
    <2>. QED  BY <2>1, <2>2 DEF ReceiveAnswer
  <1>7. DtsTypeOK'
    <2>1. toWorker' \in Seq(ToWorker) /\ Len(toWorker') <= 1
      BY <1>3, EmptyPipe
    <2>. QED  BY <1>1, <1>6, <2>1 DEF ClosureInv, DtsTypeOK
  <1>8. PipeInv'
    BY <1>1, <1>3, <1>4 DEF ClosureInv, PipeInv, Held, Empty
  <1>9. LoadInv'
    BY <1>1, <1>6 DEF LoadInv, Reach, Bound
  <1>10. ResultInv'
    BY <1>1, ResultFrame DEF ClosureInv
  <1>11. ReplayInv'
    BY <1>1, <1>2, ReplayFrame DEF ClosureInv
  <1>. QED  BY <1>7, <1>8, <1>9, <1>10, <1>11 DEF ClosureInv

(* The end of file instead of an answer. *)
LEMMA ReceiveEofKeeps == ClosureInv /\ ReceiveEof /\ UNCHANGED vars => ClosureInv'
  <1>. SUFFICES ASSUME ClosureInv, ReceiveEof, UNCHANGED vars PROVE ClosureInv'
    OBVIOUS
  <1>1. UNCHANGED <<phase, parent, asked, expired, toParent, toWorker, resolved, diagnosed, denied, result,
                    external, remaining, safeguard, bindings, pc>>
        /\ worker = "waiting" /\ worker' = "loading" /\ requested' = None /\ parent = "reaping"
        /\ unresolved' = unresolved \union {requested}
    BY DEF ReceiveEof, fetching, pipes, vars, NoteUnresolved
  <1>2. phase = "online" /\ Running
    BY <1>1, WaitsOnline
  <1>3. DtsTypeOK'
    BY <1>1 DEF ClosureInv, DtsTypeOK
  <1>4. PipeInv'
    BY <1>1 DEF ClosureInv, PipeInv, Held, Empty
  <1>5. LoadInv'
    BY <1>1, LoadFrame DEF ClosureInv
  <1>6. ResultInv'
    BY <1>1, ResultFrame DEF ClosureInv
  <1>7. ReplayInv'
    BY <1>1, <1>2, ReplayFrame DEF ClosureInv
  <1>. QED  BY <1>3, <1>4, <1>5, <1>6, <1>7 DEF ClosureInv

(* A good result is sent: nobody reads it any more, or the pipe is empty.  *)
LEMMA SendKeeps ==
  ASSUME ClosureInv, worker = "loading", Running, UNCHANGED pc,
         NEW r \in Result, Send(r), GoodResult(r)
  PROVE  ClosureInv'
  <1>. DEFINE m == [type |-> "result", result |-> r]
  <1>1. UNCHANGED <<phase, parent, asked, expired, requested, toWorker, resolved, unresolved,
                    diagnosed, denied, result, external, remaining, safeguard, bindings, pc>>
        /\ worker' = "exiting" /\ toParent' = Pumped(m)
    BY DEF Send, fetching, loading
  <1>2. m \in ToParent /\ m.type = "result" /\ m.result = r
    BY Messages
  <1>. HIDE DEF m
  <1>3. LoadInv'
    BY <1>1, LoadFrame DEF ClosureInv
  <1>4. CASE parent = "reaping"
    <2>1. UNCHANGED toParent
      BY <1>1, <1>4 DEF Pumped
    <2>2. DtsTypeOK'
      BY <1>1, <2>1 DEF ClosureInv, DtsTypeOK
    <2>3. PipeInv'
      BY <1>1, <1>4, <2>1 DEF ClosureInv, PipeInv, Held, Empty
    <2>4. ResultInv'
      BY <1>1, <2>1, ResultFrame DEF ClosureInv
    <2>5. ReplayInv'
      BY <1>1, <2>1, ReplayFrame DEF ClosureInv
    <2>. QED  BY <1>3, <2>2, <2>3, <2>4, <2>5 DEF ClosureInv
  <1>5. CASE parent # "reaping"
    <2>1. parent = "reading" /\ toParent = <<>>
      BY <1>5 DEF ClosureInv, PipeInv, Empty
    <2>2. toParent' = Append(<<>>, m)
      BY <1>1, <1>5, <2>1 DEF Pumped
    <2>3. toParent' \in Seq(ToParent) /\ Len(toParent') <= 1 /\ Head(toParent') = m
      BY <1>2, <2>2, WritePipe
    <2>4. DtsTypeOK'
      BY <1>1, <2>3 DEF ClosureInv, DtsTypeOK
    <2>5. PipeInv'
      BY <1>1, <1>2, <2>1, <2>3 DEF ClosureInv, PipeInv, Held, Empty
    <2>6. ResultInv'
      <3>1. \A q : GoodResult(q)' <=> GoodResult(q)
        BY <1>1 DEF GoodResult, Reach, Wanted, References, Bound, Faithful
      <3>. QED  BY <1>1, <1>2, <2>3, <3>1 DEF ClosureInv, ResultInv, Empty
    <2>7. ReplayInv'
      <3>1. Reach(bindings)' <=> Reach(bindings)
        BY <1>1 DEF Reach, Bound
      <3>2. ClosureIsClosed' <=> ClosureIsClosed
        BY <1>1 DEF ClosureIsClosed, Wanted, References, Bound
      <3>. QED  BY <1>1, <1>2, <2>3, <3>1, <3>2 DEF ClosureInv, ReplayInv, Running, Empty
    <2>. QED  BY <1>3, <2>4, <2>5, <2>6, <2>7 DEF ClosureInv
  <1>. QED  BY <1>4, <1>5

(* The result of a load, which in a replay has found all the bindings.     *)
LEMMA SendResultKeeps == ClosureInv /\ SendResult /\ UNCHANGED vars => ClosureInv'
  <1>. SUFFICES ASSUME ClosureInv, SendResult, UNCHANGED vars PROVE ClosureInv'
    OBVIOUS
  <1>1. PICK r : r = [load |-> resolved[Entry] # None, errors |-> FALSE, denied |-> denied,
                      resolved |-> resolved, unresolved |-> unresolved]
    OBVIOUS
  <1>2. /\ Send(r) /\ worker = "loading" /\ Running
        /\ References(resolved) \subseteq Bound(resolved) \union unresolved \union diagnosed
    BY <1>1 DEF SendResult
  <1>3. r \in Result
    BY <1>1 DEF Result, ClosureInv, DtsTypeOK
  <1>4. /\ References(r.resolved) \subseteq Bound(r.resolved) \union r.unresolved \union Irregular
        /\ Reach(r.resolved)
    BY <1>1, <1>2 DEF ClosureInv, LoadInv, DtsTypeOK
  <1>5. phase = "replay" => Faithful(r)
    <2>. SUFFICES ASSUME phase = "replay" PROVE Faithful(r)
      OBVIOUS
    <2>1. unresolved = {} /\ denied = FALSE /\ Reach(bindings)
          /\ References(bindings) \subseteq Bound(bindings) \union Irregular
          /\ \A u \in Uris : resolved[u] \in {None, bindings[u]}
      BY DEF ClosureInv, ReplayInv, ClosureIsClosed
    <2>2. resolved = bindings
      <3>1. PICK b \in Binding, d \in Binding : b = bindings /\ d = resolved
        BY DEF ClosureInv, DtsTypeOK
      <3>2. References(d) \subseteq Bound(d) \union Irregular
        BY <1>1, <1>4, <2>1, <3>1
      <3>. QED  BY <2>1, <3>1, <3>2, AllFound
    <2>3. resolved[Entry] # None
      BY <2>1, <2>2, DocumentsAssumption DEF References, Bound
    <2>. QED  BY <1>1, <2>1, <2>2, <2>3 DEF Faithful, Complete
  <1>. QED  BY <1>2, <1>3, <1>4, <1>5, SendKeeps DEF GoodResult, vars

(* The result of a load that failed. *)
LEMMA SendErrorsKeeps == ClosureInv /\ SendErrors /\ UNCHANGED vars => ClosureInv'
  <1>. SUFFICES ASSUME ClosureInv, SendErrors, UNCHANGED vars PROVE ClosureInv'
    OBVIOUS
  <1>1. PICK attempted \in {denied, TRUE} :
           Send([load |-> FALSE, errors |-> TRUE, denied |-> attempted,
                 resolved |-> Unbound, unresolved |-> {}])
    BY DEF SendErrors
  <1>2. PICK r : r = [load |-> FALSE, errors |-> TRUE, denied |-> attempted,
                      resolved |-> Unbound, unresolved |-> {}]
    OBVIOUS
  <1>3. attempted \in BOOLEAN
    BY DEF ClosureInv, DtsTypeOK
  <1>4. r \in Result /\ r.errors
    BY <1>2, <1>3, Unfilled DEF Result
  <1>. QED  BY <1>1, <1>2, <1>4, SendKeeps DEF GoodResult, vars, SendErrors

(* The worker ends or is killed, in whatever step it is. *)
LEMMA WorkerEndsKeeps == ClosureInv /\ (WorkerEnds \/ KillWorker) /\ UNCHANGED vars => ClosureInv'
  <1>. SUFFICES ASSUME ClosureInv, WorkerEnds \/ KillWorker, UNCHANGED vars PROVE ClosureInv'
    OBVIOUS
  <1>1. UNCHANGED <<phase, parent, asked, expired, requested, toParent, toWorker, resolved,
                    unresolved, diagnosed, denied, result, external, remaining, safeguard, bindings, pc>>
        /\ worker' = "gone" /\ Running
    BY DEF WorkerEnds, KillWorker, fetching, pipes, loading, vars
  <1>2. DtsTypeOK'
    BY <1>1 DEF ClosureInv, DtsTypeOK
  <1>3. PipeInv'
    BY <1>1 DEF ClosureInv, PipeInv, Held, Empty
  <1>4. LoadInv'
    BY <1>1, LoadFrame DEF ClosureInv
  <1>5. ResultInv'
    BY <1>1, ResultFrame DEF ClosureInv
  <1>6. ReplayInv'
    BY <1>1, ReplayFrame DEF ClosureInv
  <1>. QED  BY <1>2, <1>3, <1>4, <1>5, <1>6 DEF ClosureInv

-----------------------------------------------------------------------------
(* The parent.                                                             *)

(* The deadline passes. *)
LEMMA ExpireKeeps == ClosureInv /\ Expire /\ UNCHANGED vars => ClosureInv'
  <1>. SUFFICES ASSUME ClosureInv, Expire, UNCHANGED vars PROVE ClosureInv'
    OBVIOUS
  <1>1. UNCHANGED <<phase, parent, asked, worker, requested, toParent, toWorker, resolved,
                    unresolved, diagnosed, denied, result, external, remaining, safeguard, bindings, pc>>
        /\ expired' = TRUE
    BY DEF Expire, fetching, pipes, loading, vars
  <1>2. DtsTypeOK'
    BY <1>1 DEF ClosureInv, DtsTypeOK
  <1>3. PipeInv'
    BY <1>1 DEF ClosureInv, PipeInv, Held, Empty
  <1>4. LoadInv'
    BY <1>1, LoadFrame DEF ClosureInv
  <1>5. ResultInv'
    BY <1>1, ResultFrame DEF ClosureInv
  <1>6. ReplayInv'
    BY <1>1, ReplayFrame DEF ClosureInv, ReplayInv
  <1>. QED  BY <1>2, <1>3, <1>4, <1>5, <1>6 DEF ClosureInv

(* The parent gives up on what it reads. *)
LEMMA GiveUpKeeps == ClosureInv /\ GiveUp /\ UNCHANGED vars => ClosureInv'
  <1>. SUFFICES ASSUME ClosureInv, GiveUp, UNCHANGED vars PROVE ClosureInv'
    OBVIOUS
  <1>1. UNCHANGED <<phase, asked, expired, worker, requested, toParent, toWorker, resolved,
                    unresolved, diagnosed, denied, result, external, remaining, safeguard, bindings, pc>>
        /\ parent = "reading" /\ parent' = "reaping" /\ Running
    BY DEF GiveUp, Reading, fetching, pipes, loading, vars
  <1>2. DtsTypeOK'
    BY <1>1 DEF ClosureInv, DtsTypeOK
  <1>3. PipeInv'
    BY <1>1 DEF ClosureInv, PipeInv, Held, Empty
  <1>4. LoadInv'
    BY <1>1, LoadFrame DEF ClosureInv
  <1>5. ResultInv'
    BY <1>1, ResultFrame DEF ClosureInv
  <1>6. ReplayInv'
    BY <1>1, ReplayFrame DEF ClosureInv, ReplayInv
  <1>. QED  BY <1>2, <1>3, <1>4, <1>5, <1>6 DEF ClosureInv

(* A request is read: the worker that wrote it waits, or has gone. *)
LEMMA ReadFetchKeeps == ClosureInv /\ ReadFetch /\ UNCHANGED vars => ClosureInv'
  <1>. SUFFICES ASSUME ClosureInv, ReadFetch, UNCHANGED vars PROVE ClosureInv'
    OBVIOUS
  <1>1. UNCHANGED <<phase, expired, worker, requested, toWorker, resolved, unresolved, diagnosed, denied,
                    result, external, remaining, safeguard, bindings, pc>>
        /\ parent = "reading" /\ parent' = "fetching" /\ Running
        /\ toParent # <<>> /\ toParent' = Tail(toParent)
        /\ Head(toParent).type = "fetch" /\ asked' = Head(toParent).uri
    BY DEF ReadFetch, Reading, fetching, loading, vars
  <1>2. Head(toParent) \in ToParent /\ toParent' = <<>>
    BY <1>1, ReadPipe DEF ClosureInv, DtsTypeOK
  <1>3. asked' \in Uris /\ asked' # None
    BY <1>1, <1>2, Messages, DocumentsAssumption
  <1>4. toParent' \in Seq(ToParent) /\ Len(toParent') <= 1
    BY <1>2, EmptyPipe
  <1>5. DtsTypeOK'
    BY <1>1, <1>3, <1>4 DEF ClosureInv, DtsTypeOK
  <1>6. phase = "online"
    BY <1>1 DEF ClosureInv, ReplayInv, Running, Empty
  <1>7. PipeInv'
    BY <1>1, <1>2, <1>6 DEF ClosureInv, DtsTypeOK, PipeInv, Held, Empty
  <1>8. LoadInv'
    BY <1>1, LoadFrame DEF ClosureInv
  <1>9. ResultInv'
    BY <1>1, <1>2, ResultFrame DEF ClosureInv
  <1>10. ReplayInv'
    BY <1>1, <1>6, ReplayFrame DEF ClosureInv
  <1>. QED  BY <1>5, <1>7, <1>8, <1>9, <1>10 DEF ClosureInv

(* The result is read. *)
LEMMA ReadResultKeeps == ClosureInv /\ ReadResult /\ UNCHANGED vars => ClosureInv'
  <1>. SUFFICES ASSUME ClosureInv, ReadResult, UNCHANGED vars PROVE ClosureInv'
    OBVIOUS
  <1>1. UNCHANGED <<phase, asked, expired, worker, requested, toWorker, resolved, unresolved,
                    diagnosed, denied, external, remaining, safeguard, bindings, pc>>
        /\ parent = "reading" /\ parent' = "reaping" /\ Running
        /\ toParent # <<>> /\ toParent' = Tail(toParent)
        /\ Head(toParent).type = "result" /\ result' = Head(toParent).result
    BY DEF ReadResult, Reading, fetching, loading, vars
  <1>2. Head(toParent) \in ToParent /\ toParent' = <<>>
    BY <1>1, ReadPipe DEF ClosureInv, DtsTypeOK
  <1>3. result' \in Result
    BY <1>1, <1>2, Messages
  <1>4. toParent' \in Seq(ToParent) /\ Len(toParent') <= 1
    BY <1>2, EmptyPipe
  <1>5. DtsTypeOK'
    BY <1>1, <1>3, <1>4 DEF ClosureInv, DtsTypeOK
  <1>6. PipeInv'
    BY <1>1, <1>2 DEF ClosureInv, DtsTypeOK, PipeInv, Held, Empty
  <1>7. LoadInv'
    BY <1>1, LoadFrame DEF ClosureInv
  <1>8. ResultInv'
    <2>1. \A q : GoodResult(q)' <=> GoodResult(q)
      BY <1>1 DEF GoodResult, Reach, Wanted, References, Bound, Faithful
    <2>2. PICK r : r = Head(toParent).result
      OBVIOUS
    <2>3. GoodResult(r)
      BY <1>1, <2>2 DEF ClosureInv, ResultInv, Empty
    <2>4. GoodResult(r)' /\ result' = r
      BY <1>1, <2>1, <2>2, <2>3
    <2>5. GoodResult(result)'
      BY <2>4 DEF GoodResult, Reach, Wanted, References, Bound, Faithful, Complete
    <2>. QED  BY <1>2, <2>5 DEF ResultInv, Empty
  <1>9. ReplayInv'
    BY <1>1, <1>2, ReplayFrame DEF ClosureInv, ReplayInv
  <1>. QED  BY <1>5, <1>6, <1>7, <1>8, <1>9 DEF ClosureInv

(* The parent answers and reads on, or finds the pipe broken. *)
LEMMA AnswerKeeps ==
  ASSUME ClosureInv, parent = "fetching", NEW m \in ToWorker, Answer(m), pc' = "idle",
         external' \in Binding, remaining' \in Int, safeguard' \in Safeguards \union {None}
  PROVE  ClosureInv'
  <1>1. UNCHANGED <<phase, expired, worker, requested, toParent, resolved, unresolved, diagnosed, denied,
                    result, bindings>> /\ asked' = None
    BY DEF Answer, loading
  <1>2. phase = "online" /\ toParent = <<>> /\ worker \in {"waiting", "gone"}
        /\ (worker = "waiting" => toWorker = <<>>)
    BY DEF ClosureInv, PipeInv, Empty
  <1>3. CASE worker = "gone"
    <2>1. parent' = "reaping" /\ UNCHANGED toWorker
      BY <1>3 DEF Answer
    <2>2. DtsTypeOK'
      BY <1>1, <2>1 DEF ClosureInv, DtsTypeOK
    <2>3. PipeInv'
      BY <1>1, <1>3, <2>1 DEF PipeInv, Held, Empty
    <2>4. LoadInv'
      BY <1>1, LoadFrame DEF ClosureInv
    <2>5. ResultInv'
      BY <1>1, ResultFrame DEF ClosureInv
    <2>6. ReplayInv'
      BY <1>1, <1>2 DEF ReplayInv, Running
    <2>. QED  BY <2>2, <2>3, <2>4, <2>5, <2>6 DEF ClosureInv
  <1>4. CASE worker # "gone"
    <2>1. parent' = "reading" /\ toWorker' = Append(<<>>, m)
      BY <1>2, <1>4 DEF Answer
    <2>2. toWorker' \in Seq(ToWorker) /\ Len(toWorker') <= 1
      BY <2>1, WritePipe
    <2>3. DtsTypeOK'
      BY <1>1, <2>1, <2>2 DEF ClosureInv, DtsTypeOK
    <2>4. PipeInv'
      BY <1>1, <1>2, <1>4, <2>1 DEF PipeInv, Held, Empty
    <2>5. LoadInv'
      BY <1>1, LoadFrame DEF ClosureInv
    <2>6. ResultInv'
      BY <1>1, ResultFrame DEF ClosureInv
    <2>7. ReplayInv'
      BY <1>1, <1>2 DEF ReplayInv, Running
    <2>. QED  BY <2>3, <2>4, <2>5, <2>6, <2>7 DEF ClosureInv
  <1>. QED  BY <1>3, <1>4

(* The parent fetches for a URI; its answers are messages to the worker. *)
LEMMA FetchesFor ==
  ASSUME ClosureInv, parent = "fetching"
  PROVE  /\ asked \in Uris /\ external \in Binding /\ remaining \in Int
         /\ safeguard \in Safeguards \union {None}
         /\ Held(asked) \in Contents \union {None}
  BY DocumentsAssumption DEF ClosureInv, DtsTypeOK, Held, Binding

(* Blocked, or held already, or no bytes left: nothing is fetched. *)
LEMMA HandleWithoutKeeps == ClosureInv /\ HandleWithout /\ UNCHANGED vars => ClosureInv'
  <1>. SUFFICES ASSUME ClosureInv, HandleWithout, UNCHANGED vars PROVE ClosureInv'
    OBVIOUS
  <1>1. parent = "fetching"
    BY DEF HandleWithout, HandleBlocked, HandleHeld, HandleNoBudget, MayFetch
  <1>2. PICK u \in Uris : u = asked
    BY <1>1, FetchesFor
  <1>3. [type |-> "fetch_error", uri |-> u] \in ToWorker
    BY Answers
  <1>4. CASE HandleBlocked
    <2>1. pc = "idle"
      BY <1>4 DEF HandleBlocked, Blocked, ClosureInv, PipeInv
    <2>. QED  BY <1>1, <1>2, <1>3, <1>4, <2>1, AnswerKeeps, FetchesFor
              DEF HandleBlocked, AnswerError, fetching, vars
  <1>5. CASE HandleHeld
    <2>1. pc = "idle"
      BY <1>5 DEF HandleHeld, ClosureInv, PipeInv
    <2>2. PICK c \in Contents : c = Held(asked)
      BY <1>1, <1>5, FetchesFor DEF HandleHeld
    <2>3. [type |-> "fetch_result", uri |-> u, content |-> c] \in ToWorker
      BY Answers
    <2>. QED  BY <1>1, <1>2, <1>5, <2>1, <2>2, <2>3, AnswerKeeps, FetchesFor
              DEF HandleHeld, AnswerWith, fetching, vars
  <1>6. CASE HandleNoBudget
    BY <1>1, <1>2, <1>3, <1>6, AnswerKeeps, FetchesFor
    DEF HandleNoBudget, MayFetch, Trip, AnswerError, Safeguards, vars
  <1>. QED  BY <1>4, <1>5, <1>6 DEF HandleWithout

(* A fetch begins or goes on, and the closure waits. *)
LEMMA FetchingKeeps == ClosureInv /\ (BeginFetch \/ FetchStep) => ClosureInv'
  <1>. SUFFICES ASSUME ClosureInv, BeginFetch \/ FetchStep PROVE ClosureInv'
    OBVIOUS
  <1>1. UNCHANGED <<phase, parent, asked, expired, worker, requested, toParent, toWorker, resolved,
                    unresolved, diagnosed, denied, result, external, remaining, safeguard, bindings>>
    BY DEF BeginFetch, FetchStep, dtsVars, pipes, loading, fetching
  <1>2. parent = "fetching" /\ safeguard = None /\ Held(asked) = None
    <2>1. CASE BeginFetch
      BY <2>1 DEF BeginFetch, MayFetch, Blocked
    <2>2. CASE FetchStep
      <3>1. pc # "idle"
        BY <2>2 DEF FetchStep, Forbidden, CannotSend, SendRequest, Breach, Redirect, BadRedirect,
                    RetryStatus, OtherStatus, Broken, Stored, OuterExcept
      <3>. QED  BY <3>1 DEF ClosureInv, PipeInv
    <2>. QED  BY <2>1, <2>2
  <1>3. DtsTypeOK'
    BY <1>1 DEF ClosureInv, DtsTypeOK
  <1>4. PipeInv'
    BY <1>1, <1>2 DEF ClosureInv, PipeInv, Held, Empty
  <1>5. LoadInv'
    BY <1>1, LoadFrame DEF ClosureInv
  <1>6. ResultInv'
    BY <1>1, ResultFrame DEF ClosureInv
  <1>7. ReplayInv'
    BY <1>1, ReplayFrame DEF ClosureInv, ReplayInv
  <1>. QED  BY <1>3, <1>4, <1>5, <1>6, <1>7 DEF ClosureInv

(* A fetch ends: its document is held from now on, or a safeguard is noted, *)
(* or the worker is told.                                                  *)
LEMMA HandleOutcomeKeeps == ClosureInv /\ HandleOutcome => ClosureInv'
  <1>. SUFFICES ASSUME ClosureInv, HandleOutcome PROVE ClosureInv'
    OBVIOUS
  <1>1. parent = "fetching" /\ pc' = "idle"
    BY DEF HandleOutcome, HandleFetched, HandleTooLarge, HandleForbidden, HandleFailed, EndOfFetch
  <1>2. PICK u \in Uris : u = asked
    BY <1>1, FetchesFor
  <1>3. [type |-> "fetch_error", uri |-> u] \in ToWorker
    BY Answers
  <1>4. CASE HandleFetched
    <2>1. PICK c \in Web[u] : /\ external' = [external EXCEPT ![u] = c]
                              /\ remaining' = remaining - Size[c]
                              /\ AnswerWith(c) /\ UNCHANGED safeguard
      BY <1>2, <1>4 DEF HandleFetched
    <2>2. c \in Contents /\ Size[c] \in Nat
      BY DocumentsAssumption
    <2>3. external' \in Binding /\ remaining' \in Int
      BY <1>1, <2>1, <2>2, FetchesFor DEF Binding
    <2>4. [type |-> "fetch_result", uri |-> u, content |-> c] \in ToWorker
      BY <2>2, Answers
    <2>. QED  BY <1>1, <1>2, <2>1, <2>3, <2>4, AnswerKeeps, FetchesFor DEF AnswerWith
  <1>5. CASE HandleTooLarge \/ HandleForbidden
    <2>1. PICK kind \in Safeguards : Trip(kind)
      BY <1>5 DEF HandleTooLarge, HandleForbidden, Safeguards
    <2>. QED  BY <1>1, <1>2, <1>3, <2>1, AnswerKeeps, FetchesFor DEF Trip, AnswerError
  <1>6. CASE HandleFailed
    BY <1>1, <1>2, <1>3, <1>6, AnswerKeeps, FetchesFor DEF HandleFailed, AnswerError, fetching
  <1>. QED  BY <1>4, <1>5, <1>6 DEF HandleOutcome

(* The replay begins: what the result resolved is closed, and held by the  *)
(* accession or by the fetches.                                            *)
LEMMA StartReplayKeeps == ClosureInv /\ StartReplay /\ UNCHANGED vars => ClosureInv'
  <1>. SUFFICES ASSUME ClosureInv, StartReplay, UNCHANGED vars PROVE ClosureInv'
    OBVIOUS
  <1>1. UNCHANGED <<external, remaining, safeguard, pc>>
        /\ bindings' = result.resolved /\ phase' = "replay" /\ parent' = "reading" /\ asked' = None
        /\ expired' = FALSE /\ worker' = "loading" /\ requested' = None /\ toParent' = <<>>
        /\ toWorker' = <<>> /\ resolved' = Unbound /\ unresolved' = {} /\ diagnosed' = {}
        /\ denied' = FALSE
        /\ result' = None
    BY DEF StartReplay, fetching, vars, BindingsOf
  <1>2. result \in Result /\ ~ result.errors /\ result.unresolved = {} /\ safeguard = None
        /\ \A u \in Bound(result.resolved) : result.resolved[u] = Held(u)
    BY DEF StartReplay, GatePassed, Complete, Structured, BindingsOf, ClosureInv, DtsTypeOK
  <1>3. PICK b \in Binding : b = result.resolved
    BY <1>2 DEF Result
  <1>4. References(b) \subseteq Bound(b) \union Irregular /\ Reach(b)
    BY <1>2, <1>3, DocumentsAssumption DEF ClosureInv, ResultInv, GoodResult, StartReplay, GatePassed
  <1>5. DtsTypeOK'
    BY <1>1, <1>3, EmptyPipe, Unfilled DEF ClosureInv, DtsTypeOK
  <1>6. pc = "idle"
    BY DEF ClosureInv, PipeInv, StartReplay, Reaped
  <1>7. PipeInv'
    BY <1>1, <1>6 DEF PipeInv, Empty
  <1>8. LoadInv'
    BY <1>1, Unfilled DEF LoadInv, Reach, Bound
  <1>9. ResultInv'
    BY <1>1 DEF ResultInv, Empty
  <1>10. ReplayInv'
    <2>1. bindings' = b
      BY <1>1, <1>3
    <2>2. Reach(bindings)'
      BY <1>4, <2>1 DEF Reach, Bound
    <2>3. ClosureIsClosed'
      <3>1. \A u \in Bound(b) : b[u] \in {Accession[u], external[u]}
        BY <1>2, <1>3 DEF Held
      <3>. QED  BY <1>1, <1>4, <2>1, <3>1 DEF ClosureIsClosed, Wanted, References, Bound
    <2>4. \A u \in Uris : resolved'[u] \in {None, bindings'[u]}
      BY <1>1 DEF Unbound
    <2>. QED  BY <1>1, <1>2, <2>2, <2>3, <2>4 DEF ReplayInv, Running, Empty
  <1>. QED  BY <1>5, <1>7, <1>8, <1>9, <1>10 DEF ClosureInv

(* The closure is accepted or rejected, once all is over. *)
LEMMA EndKeeps == ClosureInv /\ (Accept \/ Reject) /\ UNCHANGED vars => ClosureInv'
  <1>. SUFFICES ASSUME ClosureInv, Accept \/ Reject, UNCHANGED vars PROVE ClosureInv'
    OBVIOUS
  <1>1. UNCHANGED <<parent, asked, expired, worker, requested, toParent, toWorker, resolved,
                    unresolved, diagnosed, denied, result, external, remaining, safeguard, bindings, pc>>
        /\ parent = "reaping" /\ worker = "gone"
        /\ ((phase' = "accepted" /\ phase = "replay") \/ phase' = "rejected")
    BY DEF Accept, Reject, Reaped, fetching, pipes, loading, vars
  <1>2. DtsTypeOK'
    BY <1>1 DEF ClosureInv, DtsTypeOK
  <1>3. PipeInv'
    BY <1>1 DEF ClosureInv, PipeInv, Held, Empty
  <1>4. LoadInv'
    BY <1>1, LoadFrame DEF ClosureInv
  <1>5. ResultInv'
    <2>1. \A q : GoodResult(q) => GoodResult(q)'
      BY <1>1 DEF GoodResult, Reach, Wanted, References, Bound, Faithful
    <2>. QED  BY <1>1, <2>1 DEF ClosureInv, ResultInv, Empty
  <1>6. ReplayInv'
    BY <1>1 DEF ClosureInv, ReplayInv, Reach, ClosureIsClosed, Wanted, References, Bound
  <1>. QED  BY <1>2, <1>3, <1>4, <1>5, <1>6 DEF ClosureInv

-----------------------------------------------------------------------------
(* The invariant.                                                          *)

(* The closure begins online, with nothing resolved. *)
LEMMA DtsInitInv == DtsInit => DtsInv
  <1>. SUFFICES ASSUME DtsInit PROVE DtsInv
    OBVIOUS
  <1>1. DtsTypeOK
    <2>1. resolved \in Binding /\ external \in Binding /\ bindings \in Binding
      BY Unfilled DEF DtsInit
    <2>2. /\ toParent \in Seq(ToParent) /\ Len(toParent) <= 1
          /\ toWorker \in Seq(ToWorker) /\ Len(toWorker) <= 1
      BY EmptyPipe DEF DtsInit
    <2>3. remaining \in Int
      BY DocumentsAssumption DEF DtsInit
    <2>. QED  BY <2>1, <2>2, <2>3 DEF DtsInit, DtsTypeOK
  <1>2. PipeInv
    BY DEF DtsInit, Init, PipeInv, Empty
  <1>3. LoadInv /\ ResultInv
    BY Unfilled DEF DtsInit, LoadInv, ResultInv, Empty
  <1>4. ReplayInv
    BY DEF DtsInit, ReplayInv, Running
  <1>. QED  BY <1>1, <1>2, <1>3, <1>4, InitIInv DEF DtsInit, DtsInv, ClosureInv

(* Within the closure the fetcher takes its own steps, and is as good as   *)
(* new after each fetch.                                                   *)
LEMMA FetcherInClosure == IInv /\ [DtsNext]_allVars => IInv'
  <1>. SUFFICES ASSUME IInv, [DtsNext]_allVars PROVE IInv'
    OBVIOUS
  <1>1. CASE UNCHANGED vars
    BY <1>1, StepKeeps
  <1>2. CASE BeginFetch \/ FetchStep
    <2>1. Next
      BY <1>2 DEF BeginFetch, FetchStep, Next
    <2>. QED  BY <2>1, StepKeeps
  <1>3. CASE HandleOutcome
    <2>1. Init'
      BY <1>3 DEF HandleOutcome, EndOfFetch, Init
    <2>2. (Init => IInv)'
      BY InitIInv, PTL
    <2>. QED  BY <2>1, <2>2
  <1>. QED  BY <1>1, <1>2, <1>3 DEF DtsNext, ParentStep, Fetch, allVars

(* Every step of the worker, of the parent and of the fetch between them.  *)
LEMMA DtsStepKeeps == DtsInv /\ [DtsNext]_allVars => DtsInv'
  <1>. SUFFICES ASSUME DtsInv, [DtsNext]_allVars PROVE DtsInv'
    OBVIOUS
  <1>1. IInv'
    BY FetcherInClosure DEF DtsInv
  <1>2. ClosureInv
    BY DEF DtsInv
  <1>3. CASE Worker /\ UNCHANGED vars
    BY <1>1, <1>2, <1>3, ResolveKnownKeeps, ResolveUnknownKeeps, RejectIrregularKeeps,
       DenyLocalKeeps, ReceiveAnswerKeeps,
       ReceiveEofKeeps, SendResultKeeps, SendErrorsKeeps, WorkerEndsKeeps DEF Worker, DtsInv
  <1>4. CASE Expire /\ UNCHANGED vars
    BY <1>1, <1>2, <1>4, ExpireKeeps DEF DtsInv
  <1>5. CASE Parent /\ UNCHANGED vars
    BY <1>1, <1>2, <1>5, ReadFetchKeeps, ReadResultKeeps, GiveUpKeeps, HandleWithoutKeeps,
       WorkerEndsKeeps, StartReplayKeeps, EndKeeps DEF Parent, DtsInv
  <1>6. CASE Fetch
    BY <1>1, <1>2, <1>6, FetchingKeeps, HandleOutcomeKeeps DEF Fetch, DtsInv
  <1>7. CASE UNCHANGED allVars
    <2>1. UNCHANGED <<phase, parent, asked, expired, worker, requested, toParent, toWorker,
                      resolved, unresolved, diagnosed, denied, result, external, remaining, safeguard,
                      bindings, pc>>
      BY <1>7 DEF allVars, dtsVars, pipes, loading, fetching, vars
    <2>2. DtsTypeOK'
      BY <1>2, <2>1 DEF ClosureInv, DtsTypeOK
    <2>3. PipeInv'
      BY <1>2, <2>1 DEF ClosureInv, PipeInv, Held, Empty
    <2>4. LoadInv'
      BY <1>2, <2>1, LoadFrame DEF ClosureInv
    <2>5. ResultInv'
      BY <1>2, <2>1, ResultFrame DEF ClosureInv
    <2>6. ReplayInv'
      BY <1>2, <2>1, ReplayFrame DEF ClosureInv, ReplayInv
    <2>. QED  BY <1>1, <2>2, <2>3, <2>4, <2>5, <2>6 DEF DtsInv, ClosureInv
  <1>. QED  BY <1>3, <1>4, <1>5, <1>6, <1>7 DEF DtsNext, ParentStep

(* The invariant holds of every reachable state. *)
THEOREM DtsInvariance == DtsSpec => []DtsInv
  <1>. QED  BY DtsInitInv, DtsStepKeeps, PTL DEF DtsSpec

-----------------------------------------------------------------------------
(* The properties.                                                         *)

(* What goes into a bundle is closed but for references that have no       *)
(* canonical URI, and every binding of it is to the accession or to the    *)
(* one content captured for the URI.                                       *)
THEOREM ClosureSound == DtsSpec => []ClosureIsSound
  <1>1. DtsInv => ClosureIsSound
    BY DEF DtsInv, IInv, ClosureInv, ReplayInv, ClosureIsSound, ClosureIsClosed
  <1>. QED  BY <1>1, DtsInvariance, PTL

(* A replay that is not disturbed finds exactly the documents of the       *)
(* online load.                                                            *)
THEOREM ReplayFaithful == DtsSpec => []ReplayAgrees
  <1>1. DtsInv => ReplayAgrees
    BY DEF DtsInv, ClosureInv, ResultInv, GoodResult, ReplayAgrees
  <1>. QED  BY <1>1, DtsInvariance, PTL

(* After a fatal safeguard nothing is fetched, the first cause stays, and  *)
(* the closure is not accepted.                                            *)
THEOREM SafeguardStays == DtsSpec => SafeguardIsFinal
  <1>1. DtsInv /\ [DtsNext]_allVars =>
          [safeguard # None => UNCHANGED <<fetching, vars>> /\ phase' \in {phase, "rejected"}]_allVars
    <2>. SUFFICES ASSUME DtsInv, DtsNext, safeguard # None
                  PROVE  UNCHANGED <<fetching, vars>> /\ phase' \in {phase, "rejected"}
      OBVIOUS
    <2>1. pc = "idle" /\ phase \notin {"replay", "accepted"}
      BY DEF DtsInv, ClosureInv, PipeInv, ReplayInv
    <2>2. CASE (Worker \/ Expire) /\ UNCHANGED vars
      BY <2>2 DEF Worker, Expire, ResolveKnown, ResolveUnknown, RejectIrregular, DenyLocal,
                  ReceiveAnswer, ReceiveEof,
                  SendResult, SendErrors, Send, WorkerEnds
    <2>3. CASE Parent /\ UNCHANGED vars
      <3>1. ~ HandleHeld /\ ~ HandleNoBudget /\ ~ StartReplay /\ ~ Accept
        BY <2>1 DEF HandleHeld, HandleNoBudget, MayFetch, Blocked, StartReplay, GatePassed, Accept
      <3>. QED  BY <2>3, <3>1 DEF Parent, ReadFetch, ReadResult, GiveUp, HandleWithout,
                  HandleBlocked, AnswerError, Answer, KillWorker, Reject
    <2>4. ~ Fetch
      <3>1. ~ BeginFetch
        BY DEF BeginFetch, MayFetch, Blocked
      <3>2. ~ FetchStep
        BY <2>1 DEF FetchStep, Forbidden, CannotSend, SendRequest, Breach, Redirect, BadRedirect,
                    RetryStatus, OtherStatus, Broken, Stored, OuterExcept
      <3>3. ~ HandleOutcome
        BY <2>1 DEF HandleOutcome, HandleFetched, HandleTooLarge, HandleForbidden, HandleFailed
      <3>. QED  BY <3>1, <3>2, <3>3 DEF Fetch
    <2>. QED  BY <2>2, <2>3, <2>4 DEF DtsNext, ParentStep
  <1>. QED  BY <1>1, DtsInvariance, PTL DEF DtsSpec, SafeguardIsFinal

(* The fetches of a closure keep what the fetcher promises by itself,      *)
(* although the parent takes each one's outcome and forgets the call.      *)
THEOREM FetchesKeepTheirPromises ==
  DtsSpec => [](OneTrace /\ HopsAreAWalk /\ SafeguardIsLast /\ BoundedRequests)
  <1>1. DtsInv => OneTrace /\ HopsAreAWalk /\ SafeguardIsLast /\ BoundedRequests
    BY InvOneTrace, InvWalk, InvLast, InvBounded DEF DtsInv
  <1>. QED  BY <1>1, DtsInvariance, PTL

-----------------------------------------------------------------------------
(* The bytes of the closure.                                               *)

(* The bytes of the documents that e binds. *)
CapturedOf(e) == MapThenSumSet(LAMBDA u : Size[e[u]], Bound(e))

(* The counter and what has been captured make up the budget. *)
ChargeInv == IsFiniteSet(Bound(external)) /\ ExternalsFit

(* The fold over the bound documents is the sum of their sizes. *)
LEMMA CapturedIsSum ==
  ASSUME NEW e \in Binding, IsFiniteSet(Bound(e))
  PROVE  /\ CapturedOf(e) = SumOf([u \in Uris |-> Size[e[u]]], Bound(e))
         /\ \A u \in Bound(e) : [w \in Uris |-> Size[e[w]]][u] \in Nat
  <1>. DEFINE S == Bound(e)
              w == [u \in Uris |-> Size[e[u]]]
              Folded(f) == f = [s \in SUBSET S |-> IF s = {} THEN 0
                                  ELSE Size[e[Chosen(s)]] + f[s \ {Chosen(s)}]]
              h == CHOOSE f : Folded(f)
  <1>1. \A u \in S : w[u] = Size[e[u]] /\ w[u] \in Nat
    BY DocumentsAssumption DEF Bound, Binding
  <1>2. CapturedOf(e) = h[S]
    BY DEF CapturedOf, MapThenSumSet, MapThenFoldSet, Chosen
  <1>. HIDE DEF w
  <1>3. ASSUME NEW f PROVE Folded(f) <=> IsFold(f, w, S)
    <2>1. \A s \in SUBSET S : s # {} => Chosen(s) \in S
      BY DEF Chosen
    <2>2. \A s \in SUBSET S : s # {} => w[Chosen(s)] = Size[e[Chosen(s)]]
      BY <1>1, <2>1
    <2>. QED  BY <2>2 DEF IsFold
  <1>4. PICK f : IsFold(f, w, S) /\ SumOf(w, S) = f[S]
    BY <1>1, SumIsFold
  <1>5. Folded(f)
    BY <1>3, <1>4
  <1>6. Folded(h)
    <2>. HIDE DEF Folded
    <2>. QED  BY <1>5
  <1>7. IsFold(h, w, S)
    <2>. HIDE DEF h, Folded
    <2>. QED  BY <1>3, <1>6
  <1>8. h[S] = f[S]
    <2>. HIDE DEF h
    <2>. QED  BY <1>4, <1>7, FoldsAgree
  <1>. QED  BY <1>1, <1>2, <1>4, <1>8 DEF w

(* A new document adds its bytes. *)
LEMMA CapturedMore ==
  ASSUME NEW e \in Binding, IsFiniteSet(Bound(e)), NEW u \in Uris, e[u] = None,
         NEW c \in Contents
  PROVE  /\ IsFiniteSet(Bound([e EXCEPT ![u] = c]))
         /\ CapturedOf(e) \in Nat
         /\ CapturedOf([e EXCEPT ![u] = c]) = CapturedOf(e) + Size[c]
  <1>. DEFINE d == [e EXCEPT ![u] = c]
              w == [x \in Uris |-> Size[e[x]]]
              v == [x \in Uris |-> Size[d[x]]]
  <1>1. d \in Binding /\ d[u] = c /\ \A x \in Uris : x # u => d[x] = e[x]
    BY DEF Binding
  <1>2. Bound(d) = Bound(e) \union {u} /\ u \notin Bound(e)
    BY <1>1, DocumentsAssumption DEF Bound
  <1>3. IsFiniteSet(Bound(d))
    BY <1>2, FS_AddElement
  <1>. HIDE DEF d
  <1>4. CapturedOf(d) = SumOf(v, Bound(d)) /\ \A x \in Bound(d) : v[x] \in Nat
    BY <1>1, <1>3, CapturedIsSum
  <1>5. CapturedOf(e) = SumOf(w, Bound(e)) /\ \A x \in Bound(e) : w[x] \in Nat
    BY CapturedIsSum
  <1>6. v[u] = Size[c] /\ \A x \in Bound(e) : v[x] = w[x]
    BY <1>1, <1>2 DEF Bound
  <1>. HIDE DEF v, w
  <1>7. SumOf(v, Bound(d)) = SumOf(v, Bound(e)) + v[u]
    BY <1>2, <1>4, SumOfMore
  <1>8. SumOf(v, Bound(e)) = SumOf(w, Bound(e)) /\ SumOf(w, Bound(e)) \in Nat
    BY <1>5, <1>6, SumOfSame, SumOfNat
  <1>. QED  BY <1>3, <1>4, <1>5, <1>6, <1>7, <1>8 DEF d

(* What has been captured, before and after a step. *)
LEMMA CapturedNow == Captured = CapturedOf(external) /\ Captured' = CapturedOf(external')
  BY DEF Captured, CapturedOf, MapThenSumSet, MapThenFoldSet, Bound

(* The stream limit is within what is left. *)
LEMMA LimitIsLeft ==
  ASSUME remaining \in Int
  PROVE  StreamLimit \in Int /\ StreamLimit <= remaining
  <1>1. \E x \in {MaxFile, remaining} : \A y \in {MaxFile, remaining} : x <= y
    BY DocumentsAssumption
  <1>2. StreamLimit \in {MaxFile, remaining} /\ \A y \in {MaxFile, remaining} : StreamLimit <= y
    BY <1>1 DEF StreamLimit, Min
  <1>. QED  BY <1>2, DocumentsAssumption

(* Only a fetch that has delivered captures a document, one not held       *)
(* before, and it charges its bytes.                                       *)
LEMMA ChargeKeeps == DtsInv /\ ChargeInv /\ [DtsNext]_allVars => ChargeInv'
  <1>. SUFFICES ASSUME DtsInv, ChargeInv, [DtsNext]_allVars PROVE ChargeInv'
    OBVIOUS
  <1>1. CASE UNCHANGED <<external, remaining>>
    BY <1>1, CapturedNow DEF ChargeInv, ExternalsFit, Bound
  <1>2. CASE HandleFetched
    <2>1. parent = "fetching" /\ pc # "idle"
      BY <1>2 DEF HandleFetched
    <2>2. PICK u \in Uris, e \in Binding : u = asked /\ e = external /\ e[u] = None
      BY <2>1, FetchesFor, DocumentsAssumption DEF DtsInv, ClosureInv, PipeInv, Held
    <2>3. PICK c \in Web[u] : Size[c] <= StreamLimit /\ external' = [e EXCEPT ![u] = c]
                               /\ remaining' = remaining - Size[c]
      BY <1>2, <2>2 DEF HandleFetched
    <2>4. c \in Contents /\ Size[c] \in Nat
      BY DocumentsAssumption
    <2>5. /\ IsFiniteSet(Bound([e EXCEPT ![u] = c])) /\ CapturedOf(e) \in Nat
          /\ CapturedOf([e EXCEPT ![u] = c]) = CapturedOf(e) + Size[c]
      BY <2>2, <2>4, CapturedMore DEF ChargeInv
    <2>6. Captured = CapturedOf(e) /\ Captured' = CapturedOf([e EXCEPT ![u] = c])
      BY <2>2, <2>3, CapturedNow
    <2>7. remaining \in Int /\ Size[c] <= remaining
      <3>1. remaining \in Int /\ StreamLimit <= remaining /\ StreamLimit \in Int
        BY LimitIsLeft DEF DtsInv, ClosureInv, DtsTypeOK
      <3>. QED  BY <2>3, <2>4, <3>1
    <2>8. IsFiniteSet(Bound(external)')
      BY <2>3, <2>5 DEF Bound
    <2>9. ExternalsFit'
      BY <2>3, <2>4, <2>5, <2>6, <2>7, DocumentsAssumption DEF ChargeInv, ExternalsFit
    <2>. QED  BY <2>8, <2>9 DEF ChargeInv
  <1>3. UNCHANGED <<external, remaining>> \/ HandleFetched
    <2>1. CASE (Worker \/ Expire) /\ UNCHANGED vars
      BY <2>1 DEF Worker, Expire, ResolveKnown, ResolveUnknown, RejectIrregular, DenyLocal,
                  ReceiveAnswer, ReceiveEof,
                  SendResult, SendErrors, Send, WorkerEnds, fetching
    <2>2. CASE Parent
      BY <2>2 DEF Parent, ReadFetch, ReadResult, GiveUp, HandleWithout, HandleBlocked, HandleHeld,
                  HandleNoBudget, Trip, KillWorker, StartReplay, Accept, Reject, fetching
    <2>3. CASE Fetch
      BY <2>3 DEF Fetch, BeginFetch, FetchStep, HandleOutcome, HandleTooLarge, HandleForbidden,
                  HandleFailed, Trip, dtsVars, fetching
    <2>4. CASE UNCHANGED allVars
      BY <2>4 DEF allVars, dtsVars, fetching
    <2>. QED  BY <2>1, <2>2, <2>3, <2>4 DEF DtsNext, ParentStep
  <1>. QED  BY <1>1, <1>2, <1>3

(* The closure's counter and the bundle's budget agree, to the last byte:  *)
(* what has been captured always fits.                                     *)
THEOREM CapturesFit == DtsSpec => []ExternalsFit
  <1>1. DtsInit => ChargeInv
    <2>. SUFFICES ASSUME DtsInit PROVE ChargeInv
      OBVIOUS
    <2>1. external = Unbound /\ remaining = Budget /\ Bound(external) = {}
      BY Unfilled DEF DtsInit
    <2>2. PICK e \in Binding : e = external
      BY <2>1, Unfilled
    <2>3. Captured = CapturedOf(e)
      BY <2>2, CapturedNow
    <2>4. CapturedOf(e) = 0
      BY <2>1, <2>2, CapturedIsSum, SumOfNone, FS_EmptySet
    <2>. QED  BY <2>1, <2>3, <2>4, FS_EmptySet, DocumentsAssumption DEF ChargeInv, ExternalsFit
  <1>2. ChargeInv => ExternalsFit
    BY DEF ChargeInv
  <1>. QED  BY <1>1, <1>2, ChargeKeeps, DtsInvariance, PTL DEF DtsSpec

=============================================================================
