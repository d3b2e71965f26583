---------------------------- MODULE ReadingProofs ---------------------------
(***************************************************************************)
(* Proofs about the extraction of a filing's records, and about the build  *)
(* of observations and its quality report, which reads such records.       *)
(*                                                                         *)
(* Extraction.  A pass that cannot represent something records an issue,   *)
(* and what is assembled has no fatal one: so a table is what was filed    *)
(* unless an issue was recorded, and the issue outlives the table.  Of the *)
(* facts that holds only if Arelle left none out, which the parent finds   *)
(* by counting for itself.  The inventory's walk along the continuations   *)
(* ends within its bound because a chain cannot have more elements than    *)
(* there are, and it meets what a fixed point says should follow.          *)
(*                                                                         *)
(* Observations.  What a build computes depends on no order although it    *)
(* reads the facts in one: the intersection that oim_reduce_group narrows  *)
(* fact by fact is missed by some fact exactly if two of the facts         *)
(* disagree, and the survivor is the one fact that outranks all others.    *)
(* So an observation can be compared with a statement about the set of     *)
(* facts that were read.                                                   *)
(***************************************************************************)
EXTENDS Extraction, Financials, SumProofs, SequenceTheorems

-----------------------------------------------------------------------------
(* Recursive functions, and what a sequence has at some places.            *)

(* c is the recursive function over the first naturals, whose k-th step takes *)
(* x to h[<<k, x>>].                                                          *)
IsRec(h, base, n, c) == c[0] = base /\ \A k \in 1..n : c[k] = h[<<k, c[k - 1]>>]

(* There is such a function. *)
LEMMA RecExists ==
  ASSUME NEW X, NEW base \in X, NEW n \in Nat, NEW h \in [(1..n) \X X -> X]
  PROVE  \E c \in [0..n -> X] : IsRec(h, base, n, c)
  <1>1. PICK d \in [SUBSET (1..n) -> X] : IsIter(h, base, n, d)
    BY IterExists
  <1>. DEFINE c == [k \in 0..n |-> d[1..k]]
  <1>2. ASSUME NEW k \in 0..n
        PROVE  d[1..k] \in X /\ (k = 0 => d[1..k] = base) /\ (k > 0 => d[1..k] = h[<<k, d[1..(k - 1)]>>])
    <2>1. 1..k \in SUBSET (1..n) /\ (k > 0 => 1..k # {} /\ Max(1..k) = k /\ (1..k) \ {k} = 1..(k - 1))
          /\ (k = 0 => 1..k = {})
      BY FirstOf
    <2>2. d[1..k] = IF 1..k = {} THEN base ELSE h[<<Max(1..k), d[(1..k) \ {Max(1..k)}]>>]
      BY <1>1, <2>1 DEF IsIter
    <2>3. d[1..k] \in X
      BY <2>1
    <2>4. ASSUME k > 0 PROVE d[1..k] = h[<<k, d[1..(k - 1)]>>]
      <3>1. Max(1..k) = k /\ (1..k) \ {Max(1..k)} = 1..(k - 1) /\ 1..k # {}
        BY <2>1, <2>4
      <3>. HIDE DEF c
      <3>. QED  BY <2>2, <3>1
    <2>. QED  BY <2>1, <2>2, <2>3, <2>4
  <1>3. c \in [0..n -> X]
    BY <1>2
  <1>4. ASSUME NEW k \in 0..n PROVE c[k] = d[1..k]
    OBVIOUS
  <1>. HIDE DEF c
  <1>5. 0 \in 0..n /\ \A k \in 1..n : k \in 0..n /\ k - 1 \in 0..n /\ k > 0
    OBVIOUS
  <1>6. c[0] = base /\ \A k \in 1..n : c[k] = h[<<k, c[k - 1]>>]
    BY <1>2, <1>4, <1>5
  <1>. QED  BY <1>3, <1>6 DEF IsRec

(* Nth counts a set of places: all of them, in their order. *)
LEMMA NthIs ==
  ASSUME NEW n \in Nat, NEW P \in SUBSET (1..n)
  PROVE  /\ Cardinality(P) \in 0..n
         /\ \A k \in 1..Cardinality(P) : Nth(P, k) \in P
         /\ \A i \in P : \E k \in 1..Cardinality(P) : Nth(P, k) = i
         /\ \A k, l \in 1..Cardinality(P) : k < l => Nth(P, k) < Nth(P, l)
         /\ Cardinality(P) = n => P = 1..n
  <1>. DEFINE c == Cardinality(P)
              Below(x) == {y \in P : y < x}
              rank == [x \in P |-> Cardinality(Below(x)) + 1]
  <1>0. IsFiniteSet(1..n) /\ Cardinality(1..n) = n
    <2>1. 1 \in Int /\ n \in Int
      OBVIOUS
    <2>2. IsFiniteSet(1..n) /\ Cardinality(1..n) = IF 1 > n THEN 0 ELSE n - 1 + 1
      BY <2>1, FS_Interval
    <2>. QED  BY <2>2
  <1>1. IsFiniteSet(P) /\ c \in Nat /\ c <= n /\ (c = n => P = 1..n)
    BY <1>0, FS_Subset, FS_CardinalityType
  <1>2. ASSUME NEW x \in P PROVE Cardinality(Below(x)) \in Nat /\ Cardinality(Below(x)) < c
    <2>1. Below(x) \in SUBSET (P \ {x})
      OBVIOUS
    <2>2. IsFiniteSet(P \ {x}) /\ Cardinality(P \ {x}) = c - 1
      BY <1>1, FS_RemoveElement
    <2>3. IsFiniteSet(Below(x)) /\ Cardinality(Below(x)) <= c - 1
      <3>. HIDE DEF Below
      <3>. QED  BY <2>1, <2>2, FS_Subset
    <2>4. Cardinality(Below(x)) \in Nat
      <3>. HIDE DEF Below
      <3>. QED  BY <2>3, FS_CardinalityType
    <2>. HIDE DEF Below, c
    <2>. QED  BY <1>1, <2>3, <2>4
  <1>3. ASSUME NEW x \in P, NEW y \in P, x < y PROVE Cardinality(Below(x)) < Cardinality(Below(y))
    <2>0. \A z \in P : z \in Int
      OBVIOUS
    <2>01. \A z \in P : z < x => z < y
      BY <1>3, <2>0
    <2>1. Below(x) \in SUBSET Below(y) /\ x \in Below(y) /\ x \notin Below(x)
      <3>1. x \in Below(y)
        BY <1>3
      <3>2. x \notin Below(x)
        BY <2>0
      <3>3. \A z \in Below(x) : z \in Below(y)
        BY <2>01
      <3>. HIDE DEF Below
      <3>. QED  BY <3>1, <3>2, <3>3
    <2>2. IsFiniteSet(Below(y))
      BY <1>1, FS_Subset
    <2>. HIDE DEF Below
    <2>3. Cardinality(Below(x)) <= Cardinality(Below(y)) /\ Cardinality(Below(x)) # Cardinality(Below(y))
      BY <2>1, <2>2, FS_Subset
    <2>. QED  BY <1>2, <2>3
  <1>4. ASSUME NEW x \in P, NEW y \in P, Cardinality(Below(x)) = Cardinality(Below(y)) PROVE x = y
    <2>1. x \in Int /\ y \in Int
      OBVIOUS
    <2>2. ~ (x < y) /\ ~ (y < x)
      <3>. HIDE DEF Below
      <3>. QED  BY <1>2, <1>3, <1>4
    <2>. QED  BY <2>1, <2>2
  <1>5. rank \in Injection(P, 1..c)
    <2>1. \A x \in P : rank[x] \in 1..c
      <3>. HIDE DEF Below, c
      <3>. QED  BY <1>1, <1>2
    <2>2. \A x, y \in P : rank[x] = rank[y] => x = y
      <3>. HIDE DEF Below, c
      <3>. QED  BY <1>2, <1>4
    <2>3. rank \in [P -> 1..c] /\ DOMAIN rank = P
      BY <2>1
    <2>. HIDE DEF rank, c
    <2>. QED  BY <2>2, <2>3 DEF Injection, IsInjective
  <1>6. ASSUME NEW i \in 1..c PROVE \E x \in P : Cardinality(Below(x)) = i - 1
    <2>1. IsFiniteSet(1..c) /\ Cardinality(1..c) = c
      <3>. HIDE DEF c
      <3>1. 1 \in Int /\ c \in Int
        BY <1>1
      <3>2. IsFiniteSet(1..c) /\ Cardinality(1..c) = IF 1 > c THEN 0 ELSE c - 1 + 1
        BY <3>1, FS_Interval
      <3>. QED  BY <1>1, <3>2
    <2>2. rank \in Surjection(P, 1..c)
      <3>. HIDE DEF rank
      <3>. QED  BY <1>1, <1>5, <2>1, FS_Injection
    <2>3. PICK x \in P : rank[x] = i
      <3>. HIDE DEF rank, c
      <3>. QED  BY <2>2 DEF Surjection
    <2>. HIDE DEF Below, c
    <2>4. Cardinality(Below(x)) + 1 = i
      BY <2>3
    <2>. QED  BY <1>2, <2>4
  <1>7. ASSUME NEW i \in 1..c PROVE Nth(P, i) \in P /\ Cardinality(Below(Nth(P, i))) = i - 1
    <2>1. Nth(P, i) = CHOOSE x \in P : Cardinality(Below(x)) = i - 1
      BY DEF Nth
    <2>. HIDE DEF Below, c
    <2>. QED  BY <1>6, <2>1
  <1>8. ASSUME NEW x \in P PROVE \E k \in 1..c : Nth(P, k) = x
    <2>1. PICK i \in 1..c : i - 1 = Cardinality(Below(x))
      <3>. HIDE DEF Below, c
      <3>1. Cardinality(Below(x)) + 1 \in 1..c /\ (Cardinality(Below(x)) + 1) - 1 = Cardinality(Below(x))
        BY <1>1, <1>2
      <3>. QED  BY <3>1
    <2>2. Nth(P, i) = x
      <3>. HIDE DEF Below, c
      <3>. QED  BY <1>4, <1>7, <2>1
    <2>. HIDE DEF c
    <2>. QED  BY <2>2
  <1>9. ASSUME NEW k \in 1..c, NEW l \in 1..c, k < l PROVE Nth(P, k) < Nth(P, l)
    <2>1. PICK x \in P : x = Nth(P, k) /\ Cardinality(Below(x)) = k - 1
      <3>. HIDE DEF Below, c
      <3>. QED  BY <1>7
    <2>2. PICK y \in P : y = Nth(P, l) /\ Cardinality(Below(y)) = l - 1
      <3>. HIDE DEF Below, c
      <3>. QED  BY <1>7
    <2>3. x \in Int /\ y \in Int /\ k \in Int /\ l \in Int
      BY <1>1
    <2>4. x # y
      <3>. HIDE DEF Below, c
      <3>. QED  BY <1>9, <2>1, <2>2, <2>3
    <2>5. ~ (y < x)
      <3>. HIDE DEF Below, c
      <3>. QED  BY <1>3, <1>9, <2>1, <2>2, <2>3
    <2>. QED  BY <2>1, <2>2, <2>3, <2>4, <2>5
  <1>. HIDE DEF Below, c
  <1>10. c \in 0..n
    BY <1>1
  <1>. QED  BY <1>1, <1>7, <1>8, <1>9, <1>10 DEF c

(* What a sequence has at some of its places. *)
LEMMA PickIs ==
  ASSUME NEW S, NEW s \in Seq(S), NEW P \in SUBSET (DOMAIN s)
  PROVE  /\ Pick(s, P) \in Seq(S) /\ Len(Pick(s, P)) = Cardinality(P) /\ Len(Pick(s, P)) <= Len(s)
         /\ \A k \in DOMAIN Pick(s, P) : Nth(P, k) \in P /\ Pick(s, P)[k] = s[Nth(P, k)]
         /\ \A i \in P : \E k \in DOMAIN Pick(s, P) : Nth(P, k) = i /\ Pick(s, P)[k] = s[i]
         /\ Len(Pick(s, P)) = Len(s) => P = DOMAIN s
  <1>. DEFINE n == Len(s)  c == Cardinality(P)  p == Pick(s, P)
  <1>1. n \in Nat /\ DOMAIN s = 1..n /\ \A i \in 1..n : s[i] \in S
    OBVIOUS
  <1>2. /\ c \in 0..n /\ (\A k \in 1..c : Nth(P, k) \in P)
        /\ (\A i \in P : \E k \in 1..c : Nth(P, k) = i)
        /\ c = n => P = 1..n
    <2>1. P \in SUBSET (1..n)
      BY <1>1
    <2>. HIDE DEF n
    <2>. QED  BY <1>1, <2>1, NthIs
  <1>3. p = [k \in 1..c |-> s[Nth(P, k)]]
    BY DEF Pick
  <1>. HIDE DEF n, c, p
  <1>4. DOMAIN p = 1..c /\ \A k \in 1..c : p[k] = s[Nth(P, k)] /\ p[k] \in S
    BY <1>1, <1>2, <1>3
  <1>5. c \in Nat /\ p \in [1..c -> S]
    BY <1>2, <1>3, <1>4
  <1>6. p \in Seq(S) /\ Len(p) = c
    BY <1>4, <1>5, SeqDef
  <1>7. \A i \in P : \E k \in DOMAIN p : Nth(P, k) = i /\ p[k] = s[i]
    BY <1>2, <1>4
  <1>8. Len(p) <= n /\ (Len(p) = n => P = DOMAIN s)
    BY <1>1, <1>2, <1>6
  <1>. QED  BY <1>2, <1>4, <1>6, <1>7, <1>8 DEF p, c, n

(* A sequence at all of its places is itself. *)
LEMMA PickAll ==
  ASSUME NEW S, NEW s \in Seq(S)
  PROVE  Pick(s, DOMAIN s) = s
  <1>. DEFINE n == Len(s)  p == Pick(s, DOMAIN s)
  <1>1. n \in Nat /\ DOMAIN s = 1..n
    OBVIOUS
  <1>2. IsFiniteSet(1..n) /\ Cardinality(1..n) = n
    <2>1. 1 \in Int /\ n \in Int
      OBVIOUS
    <2>2. IsFiniteSet(1..n) /\ Cardinality(1..n) = IF 1 > n THEN 0 ELSE n - 1 + 1
      BY <2>1, FS_Interval
    <2>. QED  BY <2>2
  <1>. HIDE DEF n
  <1>3. ASSUME NEW k \in 1..n PROVE Nth(1..n, k) = k
    <2>1. {j \in 1..n : j < k} = 1..(k - 1)
      BY <1>1
    <2>2. Cardinality(1..(k - 1)) = k - 1
      <3>1. 1 \in Int /\ k - 1 \in Int
        BY <1>1
      <3>2. Cardinality(1..(k - 1)) = IF 1 > k - 1 THEN 0 ELSE (k - 1) - 1 + 1
        BY <3>1, FS_Interval
      <3>. QED  BY <1>1, <3>2
    <2>3. ASSUME NEW i \in 1..n, Cardinality({j \in 1..n : j < i}) = k - 1 PROVE i = k
      <3>1. {j \in 1..n : j < i} = 1..(i - 1)
        BY <1>1
      <3>2. 1 \in Int /\ i - 1 \in Int
        BY <1>1
      <3>3. Cardinality(1..(i - 1)) = IF 1 > i - 1 THEN 0 ELSE (i - 1) - 1 + 1
        BY <3>2, FS_Interval
      <3>4. Cardinality(1..(i - 1)) = i - 1
        BY <1>1, <3>3
      <3>5. Cardinality(1..(i - 1)) = k - 1
        BY <2>3, <3>1
      <3>. QED  BY <1>1, <3>4, <3>5
    <2>4. Cardinality({j \in 1..n : j < k}) = k - 1
      BY <2>1, <2>2
    <2>. QED  BY <2>3, <2>4 DEF Nth
  <1>4. p = [k \in 1..n |-> s[k]]
    BY <1>1, <1>2, <1>3 DEF Pick
  <1>. QED  BY <1>1, <1>4

(* A selection that loses nothing in length loses nothing. *)
LEMMA PickWhole ==
  ASSUME NEW S, NEW s \in Seq(S), NEW P \in SUBSET (DOMAIN s), Len(Pick(s, P)) = Len(s)
  PROVE  Pick(s, P) = s /\ P = DOMAIN s
  BY PickIs, PickAll

-----------------------------------------------------------------------------
(* Flattened sequences.                                                    *)

(* FlattenSeq puts the sequences behind one another. *)
LEMMA FlattenIs ==
  ASSUME NEW S, NEW ss \in Seq(Seq(S))
  PROVE  \E c \in [0..Len(ss) -> Seq(S)] :
            /\ c[0] = <<>>
            /\ \A k \in 1..Len(ss) : c[k] = c[k - 1] \o ss[k]
            /\ FlattenSeq(ss) = c[Len(ss)]
  <1>. DEFINE n == Len(ss)
              h == [p \in (1..n) \X Seq(S) |-> p[2] \o ss[p[1]]]
              Eq(f) == f = [i \in 1..n |-> IF i = 1 THEN ss[i] ELSE f[i - 1] \o ss[i]]
              d == CHOOSE f : Eq(f)
  <1>1. n \in Nat /\ \A k \in 1..n : ss[k] \in Seq(S)
    OBVIOUS
  <1>2. <<>> \in Seq(S)
    OBVIOUS
  <1>3. h \in [(1..n) \X Seq(S) -> Seq(S)]
    <2>1. ASSUME NEW p \in (1..n) \X Seq(S) PROVE p[2] \o ss[p[1]] \in Seq(S)
      BY <1>1
    <2>. HIDE DEF n
    <2>. QED  BY <2>1
  <1>4. PICK c \in [0..n -> Seq(S)] : c[0] = <<>> /\ \A k \in 1..n : c[k] = h[<<k, c[k - 1]>>]
    <2>. DEFINE X == Seq(S)
    <2>1. n \in Nat /\ <<>> \in X /\ h \in [(1..n) \X X -> X]
      BY <1>1, <1>2, <1>3
    <2>. HIDE DEF n, h, X
    <2>2. \E c \in [0..n -> X] : IsRec(h, <<>>, n, c)
      BY <2>1, RecExists
    <2>. QED  BY <2>2 DEF X, IsRec
  <1>5. c[0] = <<>> /\ \A k \in 1..n : c[k] = c[k - 1] \o ss[k]
    <2>1. c[0] = <<>>
      BY <1>4
    <2>2. ASSUME NEW k \in 1..n PROVE c[k] = c[k - 1] \o ss[k]
      <3>1. k \in 0..n /\ k # 0 /\ k - 1 \in 0..n
        BY <1>1
      <3>2. c[k] = h[<<k, c[k - 1]>>] /\ c[k - 1] \in Seq(S)
        BY <1>4, <3>1
      <3>3. <<k, c[k - 1]>> \in (1..n) \X Seq(S)
        BY <3>2
      <3>. HIDE DEF n
      <3>. QED  BY <3>2, <3>3
    <2>. QED  BY <2>1, <2>2
  <1>6. CASE n = 0
    <2>1. FlattenSeq(ss) = ss /\ ss = <<>>
      BY <1>6 DEF FlattenSeq
    <2>. HIDE DEF n
    <2>2. FlattenSeq(ss) = c[n]
      BY <1>5, <1>6, <2>1
    <2>. QED  BY <1>5, <2>2 DEF n
  <1>7. CASE n # 0
    <2>. DEFINE e == [i \in 1..n |-> c[i]]
    <2>1. Eq(e)
      <3>1. ASSUME NEW i \in 1..n PROVE c[i] = IF i = 1 THEN ss[i] ELSE e[i - 1] \o ss[i]
        <4>1. CASE i = 1
          <5>1. c[1] = <<>> \o ss[1] /\ ss[1] \in Seq(S)
            <6>1. 1 - 1 = 0 /\ 1 \in 1..n
              BY <4>1
            <6>. HIDE DEF n
            <6>. QED  BY <1>1, <1>5, <6>1
          <5>. QED  BY <4>1, <5>1
        <4>2. CASE i # 1
          <5>1. i - 1 \in 1..n
            BY <1>1, <4>2
          <5>2. e[i - 1] = c[i - 1]
            BY <5>1
          <5>. QED  BY <1>5, <4>2, <5>2
        <4>. QED  BY <4>1, <4>2
      <3>. HIDE DEF n
      <3>. QED  BY <3>1
    <2>2. Eq(d)
      <3>. HIDE DEF Eq, e
      <3>. QED  BY <2>1
    <2>3. FlattenSeq(ss) = d[n]
      <3>1. n # 0
        BY <1>7
      <3>. QED  BY <3>1 DEF FlattenSeq
    <2>. DEFINE Q == {k \in Nat : k + 1 \in 1..n => d[k + 1] = c[k + 1]}
    <2>4. \A i \in 1..n : d[i] = IF i = 1 THEN ss[i] ELSE d[i - 1] \o ss[i]
      <3>. HIDE DEF d, n
      <3>. QED  BY <2>2
    <2>5. 0 \in Q
      <3>1. 1 \in 1..n
        BY <1>1, <1>7
      <3>2. d[1] = ss[1] /\ c[1] = <<>> \o ss[1] /\ ss[1] \in Seq(S)
        <4>1. 1 - 1 = 0
          OBVIOUS
        <4>. HIDE DEF d, n
        <4>. QED  BY <1>1, <1>5, <2>4, <3>1, <4>1
      <3>3. d[1] = c[1]
        BY <3>2
      <3>. HIDE DEF d, n
      <3>. QED  BY <3>3
    <2>6. ASSUME NEW k \in Q PROVE k + 1 \in Q
      <3>. HIDE DEF d, n
      <3>0. k \in Nat /\ (k + 1 \in 1..n => d[k + 1] = c[k + 1])
        OBVIOUS
      <3>1. SUFFICES ASSUME (k + 1) + 1 \in 1..n PROVE d[(k + 1) + 1] = c[(k + 1) + 1]
        BY <3>0
      <3>2. k + 1 \in 1..n /\ ((k + 1) + 1) - 1 = k + 1 /\ (k + 1) + 1 # 1
        BY <1>1, <3>0, <3>1
      <3>3. d[(k + 1) + 1] = d[((k + 1) + 1) - 1] \o ss[(k + 1) + 1]
        BY <2>4, <3>1, <3>2
      <3>4. c[(k + 1) + 1] = c[((k + 1) + 1) - 1] \o ss[(k + 1) + 1]
        BY <1>5, <3>1
      <3>5. d[k + 1] = c[k + 1]
        BY <3>0, <3>2
      <3>. QED  BY <3>2, <3>3, <3>4, <3>5
    <2>7. Q = Nat
      <3>. HIDE DEF Q
      <3>1. Q \in SUBSET Nat
        BY DEF Q
      <3>. QED  BY <2>5, <2>6, <3>1, SetInduction
    <2>8. d[n] = c[n]
      <3>. HIDE DEF d, n
      <3>1. n - 1 \in Nat /\ (n - 1) + 1 = n /\ n \in 1..n
        BY <1>1, <1>7
      <3>2. n - 1 \in Q
        BY <2>7, <3>1
      <3>. QED  BY <3>1, <3>2
    <2>. HIDE DEF d, h
    <2>9. FlattenSeq(ss) = c[n]
      BY <2>3, <2>8
    <2>. QED  BY <1>5, <2>9 DEF n
  <1>. QED  BY <1>6, <1>7

(* Two sequences behind one another. *)
LEMMA ConcatIs ==
  ASSUME NEW S, NEW s \in Seq(S), NEW t \in Seq(S)
  PROVE  /\ s \o t \in Seq(S) /\ Len(s \o t) = Len(s) + Len(t)
         /\ \A i \in 1..Len(s \o t) : (s \o t)[i] = IF i <= Len(s) THEN s[i] ELSE t[i - Len(s)]
  OBVIOUS

(* Sequences of the same lengths are put behind one another the same way. *)
SameLengths(ss, tt) == Len(ss) = Len(tt) /\ \A a \in DOMAIN ss : Len(ss[a]) = Len(tt[a])

(* What two flattened sequences have at a place comes from one place of both. *)
PairedIn(s, t, ss, tt) ==
  \A i \in DOMAIN s : \E a \in DOMAIN ss : \E b \in DOMAIN ss[a] : s[i] = ss[a][b] /\ t[i] = tt[a][b]

(* Sequences of sequences of the same lengths flatten to the same length, and *)
(* place by place to what the same places hold.                               *)
LEMMA FlattenAlike ==
  ASSUME NEW S, NEW T, NEW ss \in Seq(Seq(S)), NEW tt \in Seq(Seq(T)), SameLengths(ss, tt)
  PROVE  /\ FlattenSeq(ss) \in Seq(S) /\ FlattenSeq(tt) \in Seq(T)
         /\ Len(FlattenSeq(ss)) = Len(FlattenSeq(tt))
         /\ PairedIn(FlattenSeq(ss), FlattenSeq(tt), ss, tt)
  <1>. DEFINE n == Len(ss)
  <1>0. n \in Nat /\ DOMAIN ss = 1..n /\ Len(tt) = n
    BY DEF SameLengths
  <1>1. PICK c \in [0..n -> Seq(S)] :
            /\ c[0] = <<>> /\ (\A k \in 1..n : c[k] = c[k - 1] \o ss[k]) /\ FlattenSeq(ss) = c[n]
    BY FlattenIs
  <1>2. PICK d \in [0..n -> Seq(T)] :
            /\ d[0] = <<>> /\ (\A k \in 1..n : d[k] = d[k - 1] \o tt[k]) /\ FlattenSeq(tt) = d[n]
    <2>1. \E d \in [0..Len(tt) -> Seq(T)] :
            /\ d[0] = <<>> /\ (\A k \in 1..Len(tt) : d[k] = d[k - 1] \o tt[k]) /\ FlattenSeq(tt) = d[Len(tt)]
      BY FlattenIs
    <2>. HIDE DEF n
    <2>. QED  BY <1>0, <2>1
  <1>. HIDE DEF n
  <1>. DEFINE Alike(p, q) == \A i \in 1..Len(p) : \E a \in 1..n : \E b \in 1..Len(ss[a]) :
                                p[i] = ss[a][b] /\ q[i] = tt[a][b]
              Same(k) == Len(c[k]) = Len(d[k]) /\ Alike(c[k], d[k])
              Q == {k \in Nat : k \in 0..n => Same(k)}
  <1>3. 0 \in Q
    <2>1. Len(c[0]) = 0 /\ Len(d[0]) = 0
      BY <1>1, <1>2
    <2>2. Alike(c[0], d[0])
      BY <2>1
    <2>. HIDE DEF Alike
    <2>. QED  BY <2>1, <2>2
  <1>4. ASSUME NEW k \in Nat, k \in 0..n => Same(k), k + 1 \in 0..n PROVE Same(k + 1)
    <2>2. k \in 0..n /\ k + 1 \in 1..n /\ (k + 1) - 1 = k
      <3>. HIDE DEF Same
      <3>. QED  BY <1>0, <1>4
    <2>. HIDE DEF Alike
    <2>3. Len(c[k]) = Len(d[k]) /\ Alike(c[k], d[k])
      BY <1>4, <2>2
    <2>. HIDE DEF Same
    <2>4. c[k + 1] = c[k] \o ss[k + 1] /\ d[k + 1] = d[k] \o tt[k + 1]
      BY <1>1, <1>2, <2>2
    <2>5. PICK x \in Seq(S) : x = c[k]
      BY <2>2
    <2>6. PICK y \in Seq(T) : y = d[k]
      BY <2>2
    <2>7. PICK u \in Seq(S) : u = ss[k + 1]
      BY <1>0, <2>2
    <2>8. PICK v \in Seq(T) : v = tt[k + 1]
      BY <1>0, <2>2
    <2>9. Len(x) = Len(y) /\ Len(u) = Len(v)
      <3>1. Len(ss[k + 1]) = Len(tt[k + 1])
        BY <1>0, <2>2 DEF SameLengths
      <3>. QED  BY <2>3, <2>5, <2>6, <2>7, <2>8, <3>1
    <2>10. Len(x \o u) = Len(y \o v) /\ Len(x \o u) = Len(x) + Len(u) /\ Len(x) \in Nat /\ Len(u) \in Nat
      <3>1. Len(x \o u) = Len(x) + Len(u)
        BY ConcatIs
      <3>2. Len(y \o v) = Len(y) + Len(v)
        BY ConcatIs
      <3>3. Len(x) \in Nat /\ Len(u) \in Nat
        OBVIOUS
      <3>. QED  BY <2>9, <3>1, <3>2, <3>3
    <2>101. \A i \in 1..Len(x \o u) : (x \o u)[i] = IF i <= Len(x) THEN x[i] ELSE u[i - Len(x)]
      BY ConcatIs
    <2>102. \A i \in 1..Len(y \o v) : (y \o v)[i] = IF i <= Len(y) THEN y[i] ELSE v[i - Len(y)]
      BY ConcatIs
    <2>11. ASSUME NEW i \in 1..Len(x \o u)
           PROVE \E a \in 1..n : \E b \in 1..Len(ss[a]) : (x \o u)[i] = ss[a][b] /\ (y \o v)[i] = tt[a][b]
      <3>3. i \in Nat /\ Len(x) \in Nat
        BY <2>10
      <3>1. CASE i <= Len(x)
        <4>1. i \in 1..Len(x) /\ (x \o u)[i] = x[i] /\ (y \o v)[i] = y[i]
          BY <2>9, <2>10, <2>101, <2>102, <3>1
        <4>2. \E a \in 1..n : \E b \in 1..Len(ss[a]) : x[i] = ss[a][b] /\ y[i] = tt[a][b]
          BY <2>3, <2>5, <2>6, <4>1 DEF Alike
        <4>. QED  BY <4>1, <4>2
      <3>2. CASE ~ (i <= Len(x))
        <4>1. i - Len(x) \in 1..Len(u) /\ (x \o u)[i] = u[i - Len(x)] /\ (y \o v)[i] = v[i - Len(x)]
          BY <2>9, <2>10, <2>101, <2>102, <3>2
        <4>2. i - Len(x) \in 1..Len(ss[k + 1])
          BY <2>7, <4>1
        <4>. QED  BY <2>2, <2>7, <2>8, <4>1, <4>2
      <3>. QED  BY <3>1, <3>2
    <2>12. c[k + 1] = x \o u /\ d[k + 1] = y \o v
      BY <2>4, <2>5, <2>6, <2>7, <2>8
    <2>13. Alike(x \o u, y \o v)
      BY <2>11 DEF Alike
    <2>. QED  BY <2>10, <2>12, <2>13 DEF Same
  <1>5. Q = Nat
    <2>. HIDE DEF Same
    <2>1. Q \in SUBSET Nat
      OBVIOUS
    <2>2. \A k \in Q : k + 1 \in Q
      BY <1>4
    <2>. HIDE DEF Q
    <2>. QED  BY <1>3, <2>1, <2>2, SetInduction
  <1>6. Same(n)
    <2>. HIDE DEF Same
    <2>1. n \in Q
      BY <1>0, <1>5
    <2>. QED  BY <1>0, <2>1
  <1>7. n \in 0..n /\ c[n] \in Seq(S) /\ d[n] \in Seq(T)
    BY <1>0
  <1>8. DOMAIN c[n] = 1..Len(c[n]) /\ \A a \in 1..n : DOMAIN ss[a] = 1..Len(ss[a])
    BY <1>0, <1>7
  <1>. HIDE DEF Alike
  <1>9. Len(c[n]) = Len(d[n]) /\ Alike(c[n], d[n])
    BY <1>6
  <1>. HIDE DEF Same
  <1>10. ASSUME NEW i \in DOMAIN c[n]
         PROVE  \E a \in DOMAIN ss : \E b \in DOMAIN ss[a] : c[n][i] = ss[a][b] /\ d[n][i] = tt[a][b]
    <2>1. PICK a \in 1..n : \E b \in 1..Len(ss[a]) : c[n][i] = ss[a][b] /\ d[n][i] = tt[a][b]
      BY <1>8, <1>9 DEF Alike
    <2>2. a \in DOMAIN ss /\ DOMAIN ss[a] = 1..Len(ss[a])
      BY <1>0, <1>8
    <2>. QED  BY <2>1, <2>2
  <1>11. PairedIn(c[n], d[n], ss, tt)
    BY <1>10 DEF PairedIn
  <1>. QED  BY <1>1, <1>2, <1>7, <1>9, <1>11

(* What is in the flattened sequence is in one of the sequences. *)
LEMMA FlattenFrom ==
  ASSUME NEW S, NEW ss \in Seq(Seq(S))
  PROVE  /\ FlattenSeq(ss) \in Seq(S)
         /\ \A i \in DOMAIN FlattenSeq(ss) : \E a \in DOMAIN ss : \E b \in DOMAIN ss[a] :
               FlattenSeq(ss)[i] = ss[a][b]
  <1>1. SameLengths(ss, ss)
    BY DEF SameLengths
  <1>2. FlattenSeq(ss) \in Seq(S) /\ PairedIn(FlattenSeq(ss), FlattenSeq(ss), ss, ss)
    BY <1>1, FlattenAlike
  <1>. QED  BY <1>2 DEF PairedIn

(* Ids that do not repeat tell the elements apart. *)
LEMMA IdsApart ==
  ASSUME NEW S, NEW s \in Seq(S), ~Repeated(IdsOf(s)), NEW i \in DOMAIN s, NEW j \in DOMAIN s,
         s[i].is.id # None, s[i].is.id = s[j].is.id
  PROVE  i = j
  <1>. DEFINE ids == [k \in DOMAIN s |-> s[k].is.id]
              R == {s[k].is.id : k \in DOMAIN s}
              P == {k \in DOMAIN ids : ids[k] # None}
  <1>1. ids \in Seq(R) /\ DOMAIN ids = DOMAIN s /\ P \in SUBSET (DOMAIN ids)
    <2>1. DOMAIN s = 1..Len(s) /\ Len(s) \in Nat
      OBVIOUS
    <2>2. ids \in [1..Len(s) -> R]
      BY <2>1
    <2>. HIDE DEF R
    <2>. QED  BY <2>1, <2>2, SeqDef
  <1>2. IdsOf(s) = Pick(ids, P)
    BY DEF IdsOf, Selection
  <1>. DEFINE p == Pick(ids, P)
  <1>3. p \in Seq(R) /\ \A a \in P : \E k \in DOMAIN p : Nth(P, k) = a /\ p[k] = ids[a]
    <2>. HIDE DEF ids, R, P
    <2>. QED  BY <1>1, PickIs
  <1>4. i \in P /\ j \in P /\ ids[i] = ids[j]
    OBVIOUS
  <1>. HIDE DEF ids, R, P, p
  <1>5. PICK k \in DOMAIN p : Nth(P, k) = i /\ p[k] = ids[i]
    BY <1>3, <1>4
  <1>6. PICK l \in DOMAIN p : Nth(P, l) = j /\ p[l] = ids[j]
    BY <1>3, <1>4
  <1>7. ~ (k < l) /\ ~ (l < k)
    <2>1. ~ Repeated(p)
      BY <1>2 DEF p
    <2>. QED  BY <1>4, <1>5, <1>6, <2>1 DEF Repeated
  <1>8. k \in Int /\ l \in Int
    BY <1>3
  <1>9. k = l
    BY <1>7, <1>8
  <1>. QED  BY <1>5, <1>6, <1>9

-----------------------------------------------------------------------------
(* The walk along a chain of continuations.                                *)

(* An element of a chain, and a walk along it. *)
Links == [id : STRING, next : STRING]
WalkErrors == {None, "CONTINUATION_UNRESOLVED", "CONTINUATION_AMBIGUOUS", "CONTINUATION_CYCLE"}
Walks == [error : WalkErrors, chain : Seq(STRING), current : STRING]

(* A reference that one element bears leads to that element. *)
LEMMA ContinuedIs ==
  ASSUME NEW conts \in Seq(Links), NEW ref, Unique(conts, ref)
  PROVE  \E i \in DOMAIN conts : Named(conts, ref) = {i} /\ conts[i].id = ref /\ ContinuedAt(conts, ref) = conts[i].next
  <1>1. DOMAIN conts = 1..Len(conts) /\ Len(conts) \in Int /\ 1 \in Int
    OBVIOUS
  <1>2. IsFiniteSet(1..Len(conts))
    BY <1>1, FS_Interval
  <1>3. Named(conts, ref) \in SUBSET (1..Len(conts)) /\ \A j \in Named(conts, ref) : conts[j].id = ref
    BY <1>1 DEF Named
  <1>4. IsFiniteSet(Named(conts, ref))
    BY <1>2, <1>3, FS_Subset
  <1>5. PICK i : Named(conts, ref) = {i}
    BY <1>4, FS_Singleton DEF Unique
  <1>6. i \in DOMAIN conts /\ conts[i].id = ref
    BY <1>1, <1>3, <1>5
  <1>7. ContinuedAt(conts, ref) = conts[i].next
    BY <1>5 DEF ContinuedAt
  <1>. QED  BY <1>5, <1>6, <1>7

(* What a unique reference is continued at is a reference, or None. *)
LEMMA ContinuedType ==
  ASSUME NEW conts \in Seq(Links), NEW ref, Unique(conts, ref)
  PROVE  ContinuedAt(conts, ref) \in STRING
  <1>1. PICK i \in DOMAIN conts : ContinuedAt(conts, ref) = conts[i].next
    BY ContinuedIs
  <1>2. conts[i] \in Links
    OBVIOUS
  <1>. QED  BY <1>1, <1>2 DEF Links

(* What a chain is: elements of their own, each continued by the next. *)
IsChain(conts, ref, chain, here) ==
  /\ \A i \in 1..Len(chain) : chain[i] # None /\ Unique(conts, chain[i])
  /\ \A i, j \in 1..Len(chain) : chain[i] = chain[j] => i = j
  /\ \A i \in 1..Len(chain) : i + 1 <= Len(chain) => ContinuedAt(conts, chain[i]) = chain[i + 1]
  /\ IF Len(chain) = 0 THEN here = ref
     ELSE chain[1] = ref /\ here = ContinuedAt(conts, chain[Len(chain)])

(* A walk that did not fail has made every step it could. *)
WalkOK(conts, ref, w, k) ==
  /\ IsChain(conts, ref, w.chain, w.current)
  /\ w.error # None => w.current # None /\ (Unique(conts, w.current) => \E i \in 1..Len(w.chain) : w.chain[i] = w.current)
  /\ w.error = None /\ w.current # None => Len(w.chain) = k

(* A sequence and one more element. *)
LEMMA AppendIs ==
  ASSUME NEW S, NEW s \in Seq(S), NEW x \in S
  PROVE  /\ Append(s, x) \in Seq(S) /\ Len(s) \in Nat /\ Len(Append(s, x)) = Len(s) + 1
         /\ Append(s, x)[Len(s) + 1] = x /\ \A i \in 1..Len(s) : Append(s, x)[i] = s[i]
  OBVIOUS

(* A chain and one more element that is unique and new to it. *)
LEMMA ChainStep ==
  ASSUME NEW conts \in Seq(Links), NEW ref \in STRING, NEW chain \in Seq(STRING), NEW here \in STRING,
         IsChain(conts, ref, chain, here), here # None, Unique(conts, here),
         \A i \in 1..Len(chain) : chain[i] # here
  PROVE  IsChain(conts, ref, Append(chain, here), ContinuedAt(conts, here))
  <1>. DEFINE new == Append(chain, here)  n == Len(chain)
  <1>1. n \in Nat /\ Len(new) = n + 1 /\ new[n + 1] = here /\ \A i \in 1..n : new[i] = chain[i]
    BY AppendIs
  <1>0. /\ n = 0 => here = ref
        /\ n # 0 => chain[1] = ref /\ here = ContinuedAt(conts, chain[n])
    BY DEF IsChain
  <1>01. \A i \in 1..n : i + 1 <= n => ContinuedAt(conts, chain[i]) = chain[i + 1]
    BY DEF IsChain
  <1>02. /\ \A i \in 1..n : chain[i] # None /\ Unique(conts, chain[i]) /\ chain[i] # here
         /\ \A i, j \in 1..n : chain[i] = chain[j] => i = j
    BY DEF IsChain
  <1>. HIDE DEF new, n
  <1>2. \A i \in 1..Len(new) : i = n + 1 \/ i \in 1..n
    BY <1>1
  <1>3. \A i \in 1..Len(new) : new[i] # None /\ Unique(conts, new[i])
    BY <1>02, <1>1, <1>2
  <1>4. \A i, j \in 1..Len(new) : new[i] = new[j] => i = j
    BY <1>02, <1>1, <1>2
  <1>5. ASSUME NEW i \in 1..Len(new), i + 1 <= Len(new) PROVE ContinuedAt(conts, new[i]) = new[i + 1]
    <2>1. i \in 1..n /\ new[i] = chain[i]
      BY <1>1, <1>5
    <2>2. CASE i = n
      <3>1. here = ContinuedAt(conts, chain[n])
        <4>1. n # 0
          BY <1>1, <2>1, <2>2
        <4>. QED  BY <1>0, <4>1
      <3>. QED  BY <1>1, <2>1, <2>2, <3>1
    <2>3. CASE i # n
      <3>1. i + 1 \in 1..n /\ new[i + 1] = chain[i + 1] /\ i + 1 <= n
        BY <1>1, <2>1, <2>3
      <3>2. ContinuedAt(conts, chain[i]) = chain[i + 1]
        BY <1>01, <2>1, <3>1
      <3>. QED  BY <2>1, <3>1, <3>2
    <2>. QED  BY <2>2, <2>3
  <1>6. new[1] = ref
    <2>1. CASE n = 0
      <3>1. 0 + 1 = 1
        OBVIOUS
      <3>. QED  BY <1>0, <1>1, <2>1, <3>1
    <2>2. CASE n # 0
      <3>1. 1 \in 1..n /\ chain[1] = ref
        <4>1. chain[1] = ref
          BY <1>0, <2>2
        <4>. QED  BY <1>1, <2>2, <4>1
      <3>. QED  BY <1>1, <3>1
    <2>. QED  BY <2>1, <2>2
  <1>7. Len(new) # 0 /\ new[Len(new)] = here
    BY <1>1
  <1>8. IsChain(conts, ref, new, ContinuedAt(conts, here))
    BY <1>3, <1>4, <1>5, <1>6, <1>7 DEF IsChain
  <1>. QED  BY <1>8 DEF new

(* One step of the walk keeps what holds of a walk. *)
LEMMA AdvanceOK ==
  ASSUME NEW conts \in Seq(Links), NEW ref \in STRING, NEW w \in Walks, NEW k \in Nat, WalkOK(conts, ref, w, k)
  PROVE  Advance(conts, w) \in Walks /\ WalkOK(conts, ref, Advance(conts, w), k + 1)
  <1>0. w.error \in WalkErrors /\ w.chain \in Seq(STRING) /\ w.current \in STRING
    BY DEF Walks
  <1>1. CASE w.current = None \/ w.error # None
    <2>1. Advance(conts, w) = w
      BY <1>1 DEF Advance
    <2>2. WalkOK(conts, ref, w, k + 1)
      BY <1>1 DEF WalkOK
    <2>. QED  BY <2>1, <2>2
  <1>2. CASE w.current # None /\ w.error = None /\ ~Unique(conts, w.current)
    <2>1. PICK e \in WalkErrors : e # None /\ Advance(conts, w) = [w EXCEPT !.error = e]
      <3>1. "CONTINUATION_UNRESOLVED" # None /\ "CONTINUATION_AMBIGUOUS" # None
        BY DEF None
      <3>2. \E e \in WalkErrors : e # None /\ e = IF Named(conts, w.current) = {} THEN "CONTINUATION_UNRESOLVED" ELSE "CONTINUATION_AMBIGUOUS"
        BY <3>1 DEF WalkErrors
      <3>. QED  BY <1>2, <3>2 DEF Advance
    <2>2. PICK v \in Walks : v = [w EXCEPT !.error = e]
      BY DEF Walks
    <2>3. v.error = e /\ v.chain = w.chain /\ v.current = w.current
      BY <2>2 DEF Walks
    <2>4. WalkOK(conts, ref, v, k + 1)
      BY <1>2, <2>1, <2>3 DEF WalkOK
    <2>. QED  BY <2>1, <2>2, <2>4
  <1>3. CASE w.current # None /\ w.error = None /\ Unique(conts, w.current) /\ Contains(w.chain, w.current)
    <2>1. "CONTINUATION_CYCLE" # None /\ "CONTINUATION_CYCLE" \in WalkErrors
      BY DEF None, WalkErrors
    <2>2. Advance(conts, w) = [w EXCEPT !.error = "CONTINUATION_CYCLE"]
      BY <1>3 DEF Advance
    <2>3. PICK v \in Walks : v = [w EXCEPT !.error = "CONTINUATION_CYCLE"]
      BY <2>1 DEF Walks
    <2>4. v.error = "CONTINUATION_CYCLE" /\ v.chain = w.chain /\ v.current = w.current
      BY <2>3 DEF Walks
    <2>5. \E i \in 1..Len(w.chain) : w.chain[i] = w.current
      BY <1>3 DEF Contains
    <2>6. WalkOK(conts, ref, v, k + 1)
      BY <1>3, <2>1, <2>4, <2>5 DEF WalkOK
    <2>. QED  BY <2>2, <2>3, <2>6
  <1>4. CASE w.current # None /\ w.error = None /\ Unique(conts, w.current) /\ ~Contains(w.chain, w.current)
    <2>1. Advance(conts, w) = [w EXCEPT !.chain = Append(w.chain, w.current), !.current = ContinuedAt(conts, w.current)]
      BY <1>4 DEF Advance
    <2>2. ContinuedAt(conts, w.current) \in STRING
      BY <1>4, ContinuedType
    <2>3. Append(w.chain, w.current) \in Seq(STRING) /\ Len(Append(w.chain, w.current)) = Len(w.chain) + 1
      BY <1>0
    <2>4. PICK v \in Walks : v = [w EXCEPT !.chain = Append(w.chain, w.current), !.current = ContinuedAt(conts, w.current)]
      BY <2>2, <2>3 DEF Walks
    <2>5. v.error = w.error /\ v.chain = Append(w.chain, w.current) /\ v.current = ContinuedAt(conts, w.current)
      BY <2>4 DEF Walks
    <2>6. IsChain(conts, ref, w.chain, w.current) /\ Len(w.chain) = k
      BY <1>4 DEF WalkOK
    <2>7. \A i \in 1..Len(w.chain) : w.chain[i] # w.current
      BY <1>4 DEF Contains
    <2>8. IsChain(conts, ref, v.chain, v.current)
      BY <1>0, <1>4, <2>5, <2>6, <2>7, ChainStep
    <2>9. WalkOK(conts, ref, v, k + 1)
      BY <1>4, <2>3, <2>5, <2>6, <2>8 DEF WalkOK
    <2>. QED  BY <2>1, <2>4, <2>9
  <1>. QED  BY <1>1, <1>2, <1>3, <1>4

(* A chain has no more elements than there are. *)
LEMMA ChainFits ==
  ASSUME NEW conts \in Seq(Links), NEW ref \in STRING, NEW chain \in Seq(STRING), NEW here \in STRING,
         IsChain(conts, ref, chain, here)
  PROVE  Len(chain) <= Len(conts)
  <1>. DEFINE n == Len(chain)  m == Len(conts)
  <1>1. n \in Nat /\ m \in Nat /\ DOMAIN conts = 1..m
    OBVIOUS
  <1>2. \A i \in 1..n : \E j \in 1..m : conts[j].id = chain[i]
    <2>1. ASSUME NEW i \in 1..n PROVE \E j \in DOMAIN conts : conts[j].id = chain[i]
      <3>1. Unique(conts, chain[i])
        BY DEF IsChain
      <3>. QED  BY <3>1, ContinuedIs
    <2>. QED  BY <1>1, <2>1
  <1>. DEFINE g == [i \in 1..n |-> CHOOSE j \in 1..m : conts[j].id = chain[i]]
  <1>. HIDE DEF n, m
  <1>3. \A i \in 1..n : g[i] \in 1..m /\ conts[g[i]].id = chain[i]
    BY <1>2
  <1>4. g \in [1..n -> 1..m]
    <2>1. g = [i \in 1..n |-> g[i]]
      OBVIOUS
    <2>. HIDE DEF g
    <2>. QED  BY <1>3, <2>1
  <1>. HIDE DEF g
  <1>5. \A i, j \in 1..n : g[i] = g[j] => i = j
    <2>1. \A i, j \in 1..n : chain[i] = chain[j] => i = j
      BY DEF IsChain, n
    <2>. QED  BY <1>3, <2>1
  <1>6. /\ IsFiniteSet(1..n) /\ Cardinality(1..n) = n
        /\ IsFiniteSet(1..m) /\ Cardinality(1..m) = m
    <2>1. 1 \in Int /\ n \in Int /\ m \in Int
      BY <1>1
    <2>2. IsFiniteSet(1..n) /\ Cardinality(1..n) = IF 1 > n THEN 0 ELSE n - 1 + 1
      BY <2>1, FS_Interval
    <2>3. IsFiniteSet(1..m) /\ Cardinality(1..m) = IF 1 > m THEN 0 ELSE m - 1 + 1
      BY <2>1, FS_Interval
    <2>. QED  BY <1>1, <2>2, <2>3
  <1>7. ASSUME m < n PROVE FALSE
    <2>1. Cardinality(1..m) < Cardinality(1..n)
      BY <1>6, <1>7
    <2>2. \E x, y \in 1..n : x # y /\ g[x] = g[y]
      BY <1>4, <1>6, <2>1, FS_PigeonHole
    <2>. QED  BY <1>5, <2>2
  <1>. QED  BY <1>1, <1>7 DEF n, m

(* What the walk finds: the whole chain, or why there is none. *)
LEMMA WalkIs ==
  ASSUME NEW conts \in Seq(Links), NEW ref \in STRING
  PROVE  /\ WalkChain(conts, ref) \in Walks
         /\ IsChain(conts, ref, WalkChain(conts, ref).chain, WalkChain(conts, ref).current)
         /\ WalkChain(conts, ref).error = None <=> WalkChain(conts, ref).current = None
         /\ WalkChain(conts, ref).error # None /\ Unique(conts, WalkChain(conts, ref).current) =>
               \E i \in 1..Len(WalkChain(conts, ref).chain) :
                  WalkChain(conts, ref).chain[i] = WalkChain(conts, ref).current
  <1>. DEFINE N == MaxSteps(conts) + 1
              base == [error |-> None, chain |-> <<>>, current |-> ref]
              V(f, n) == IF n = 0 THEN base ELSE Advance(conts, f[n - 1])
              Eq(f) == f = [n \in 0..N |-> IF n = 0 THEN base ELSE Advance(conts, f[n - 1])]
              d == CHOOSE f : Eq(f)
              h == [p \in (1..N) \X Walks |-> IF Advance(conts, p[2]) \in Walks THEN Advance(conts, p[2]) ELSE p[2]]
  <1>1. N \in Nat /\ MaxSteps(conts) \in Nat /\ MaxSteps(conts) >= Len(conts) /\ N = MaxSteps(conts) + 1
    <2>1. Len(conts) \in Nat
      OBVIOUS
    <2>. QED  BY <2>1 DEF MaxSteps
  <1>2. base \in Walks
    <2>1. <<>> \in Seq(STRING) /\ None \in WalkErrors
      BY DEF WalkErrors
    <2>. QED  BY <2>1 DEF Walks
  <1>21. WalkOK(conts, ref, base, 0)
    <2>1. base.error = None /\ base.chain = <<>> /\ base.current = ref /\ Len(base.chain) = 0
      OBVIOUS
    <2>2. \A i \in 1..Len(base.chain) : FALSE
      BY <2>1
    <2>. HIDE DEF base
    <2>. QED  BY <2>1, <2>2 DEF WalkOK, IsChain
  <1>3. h \in [(1..N) \X Walks -> Walks]
    <2>. HIDE DEF N
    <2>. QED  OBVIOUS
  <1>. HIDE DEF N, base
  <1>4. PICK c \in [0..N -> Walks] : c[0] = base /\ \A k \in 1..N : c[k] = h[<<k, c[k - 1]>>]
    <2>. HIDE DEF h
    <2>1. \E c \in [0..N -> Walks] : IsRec(h, base, N, c)
      BY <1>1, <1>2, <1>3, RecExists
    <2>. QED  BY <2>1 DEF IsRec
  <1>. DEFINE Q == {k \in Nat : k \in 0..N => WalkOK(conts, ref, c[k], k)}
  <1>5. ASSUME NEW k \in Nat, k + 1 \in 0..N, WalkOK(conts, ref, c[k], k)
        PROVE  c[k + 1] = Advance(conts, c[k]) /\ WalkOK(conts, ref, c[k + 1], k + 1)
    <2>1. k \in 0..N /\ k + 1 \in 1..N /\ (k + 1) - 1 = k /\ c[k] \in Walks
      BY <1>1, <1>5
    <2>2. Advance(conts, c[k]) \in Walks /\ WalkOK(conts, ref, Advance(conts, c[k]), k + 1)
      BY <1>5, <2>1, AdvanceOK
    <2>3. c[k + 1] = h[<<k + 1, c[k]>>]
      <3>. HIDE DEF h
      <3>. QED  BY <1>4, <2>1
    <2>4. h[<<k + 1, c[k]>>] = Advance(conts, c[k])
      BY <2>1, <2>2
    <2>. QED  BY <2>2, <2>3, <2>4
  <1>6. Q = Nat
    <2>1. 0 \in Q
      BY <1>21, <1>4
    <2>2. ASSUME NEW k \in Q PROVE k + 1 \in Q
      <3>1. k \in Nat /\ (k + 1 \in 0..N => k \in 0..N)
        BY <1>1
      <3>2. k \in 0..N => WalkOK(conts, ref, c[k], k)
        OBVIOUS
      <3>3. k + 1 \in 0..N => WalkOK(conts, ref, c[k + 1], k + 1)
        <4>. HIDE DEF h, Q
        <4>. QED  BY <1>5, <3>1, <3>2
      <3>4. k + 1 \in Nat
        BY <3>1
      <3>. QED  BY <3>3, <3>4
    <2>3. Q \in SUBSET Nat
      OBVIOUS
    <2>. HIDE DEF Q
    <2>. QED  BY <2>1, <2>2, <2>3, SetInduction
  <1>7. \A k \in 0..N : WalkOK(conts, ref, c[k], k) /\ c[k] \in Walks
    <2>1. \A k \in 0..N : k \in Nat
      OBVIOUS
    <2>. HIDE DEF h
    <2>. QED  BY <1>6, <2>1
  <1>8. Eq(c)
    <2>1. ASSUME NEW n \in 0..N PROVE c[n] = IF n = 0 THEN base ELSE Advance(conts, c[n - 1])
      <3>1. CASE n = 0
        BY <1>4, <3>1
      <3>2. CASE n # 0
        <4>1. n - 1 \in Nat /\ n - 1 \in 0..N /\ (n - 1) + 1 = n
          BY <1>1, <3>2
        <4>2. c[(n - 1) + 1] = Advance(conts, c[n - 1])
          <5>. HIDE DEF h
          <5>. QED  BY <1>5, <1>7, <4>1
        <4>. QED  BY <3>2, <4>1, <4>2
      <3>. QED  BY <3>1, <3>2
    <2>2. c = [n \in 0..N |-> c[n]]
      OBVIOUS
    <2>. HIDE DEF h
    <2>. QED  BY <2>1, <2>2
  <1>9. Eq(d)
    <2>. HIDE DEF Eq
    <2>. QED  BY <1>8
  <1>. DEFINE R == {k \in Nat : k \in 0..N => d[k] = c[k]}
  <1>10. \A k \in 0..N : d[k] = (IF k = 0 THEN base ELSE Advance(conts, d[k - 1]))
                      /\ c[k] = (IF k = 0 THEN base ELSE Advance(conts, c[k - 1]))
    <2>. HIDE DEF d, h
    <2>. QED  BY <1>8, <1>9
  <1>11. R = Nat
    <2>. HIDE DEF d, h, Eq
    <2>1. 0 \in R
      BY <1>10
    <2>2. ASSUME NEW k \in R PROVE k + 1 \in R
      <3>1. k \in Nat /\ (k + 1 \in 0..N => k \in 0..N /\ k + 1 # 0 /\ (k + 1) - 1 = k)
        BY <1>1
      <3>. QED  BY <1>10, <3>1
    <2>3. R \in SUBSET Nat
      OBVIOUS
    <2>. HIDE DEF R
    <2>. QED  BY <2>1, <2>2, <2>3, SetInduction
  <1>. HIDE DEF d, h, Eq
  <1>12. N \in 0..N /\ N \in Nat
    BY <1>1
  <1>13. PICK w \in Walks : w = d[N] /\ WalkOK(conts, ref, w, N)
    BY <1>7, <1>11, <1>12
  <1>14. IsChain(conts, ref, w.chain, w.current) /\ Len(w.chain) <= Len(conts) /\ Len(w.chain) \in Nat /\ Len(conts) \in Nat
    <2>1. w.chain \in Seq(STRING) /\ w.current \in STRING
      BY DEF Walks
    <2>2. IsChain(conts, ref, w.chain, w.current)
      BY <1>13 DEF WalkOK
    <2>3. Len(w.chain) <= Len(conts)
      BY <2>1, <2>2, ChainFits
    <2>. QED  BY <2>1, <2>2, <2>3
  <1>15. ~ (Len(w.chain) > MaxSteps(conts)) /\ Len(w.chain) # N
    BY <1>1, <1>14
  <1>16. WalkChain(conts, ref) = w
    <2>1. WalkChain(conts, ref) = IF d[N].error = None /\ Len(d[N].chain) > MaxSteps(conts)
                                  THEN [d[N] EXCEPT !.error = "CONTINUATION_CYCLE"] ELSE d[N]
      BY DEF WalkChain, d, Eq, N, base
    <2>. QED  BY <1>13, <1>15, <2>1
  <1>. QED  BY <1>13, <1>14, <1>15, <1>16 DEF WalkOK

-----------------------------------------------------------------------------
(* What follows a reference, without the walk.                             *)

(* The references that follow some references, as far as each is unique. *)
Grow(conts, x) == x \cup ({ContinuedAt(conts, r) : r \in {y \in x : Unique(conts, y)}} \ {None})

(* Following, as a recursive function: it starts from the reference and grows. *)
LEMMA FollowingSteps ==
  ASSUME NEW conts \in Seq(Links), NEW ref \in STRING
  PROVE  \E d : /\ d[0] = {ref} \ {None}
                /\ \A n \in 1..Len(conts) : d[n] = Grow(conts, d[n - 1])
                /\ Following(conts, ref) = d[Len(conts)]
  <1>. DEFINE N == Len(conts)
              base == {ref} \ {None}
              Eq(f) == f = [n \in 0..N |-> IF n = 0 THEN base
                         ELSE f[n - 1] \cup ({ContinuedAt(conts, r) : r \in {y \in f[n - 1] : Unique(conts, y)}} \ {None})]
              d == CHOOSE f : Eq(f)
              X == SUBSET STRING
              h == [p \in (1..N) \X X |-> Grow(conts, p[2])]
  <1>1. N \in Nat
    OBVIOUS
  <1>2. base \in X
    OBVIOUS
  <1>3. h \in [(1..N) \X X -> X]
    <2>1. ASSUME NEW x \in X PROVE Grow(conts, x) \in X
      BY ContinuedType DEF Grow
    <2>. HIDE DEF N, X
    <2>. QED  BY <2>1
  <1>. HIDE DEF N, base, X
  <1>4. PICK c \in [0..N -> X] : c[0] = base /\ \A k \in 1..N : c[k] = h[<<k, c[k - 1]>>]
    <2>. HIDE DEF h
    <2>1. \E c \in [0..N -> X] : IsRec(h, base, N, c)
      BY <1>1, <1>2, <1>3, RecExists
    <2>. QED  BY <2>1 DEF IsRec
  <1>5. ASSUME NEW n \in 1..N PROVE c[n] = Grow(conts, c[n - 1])
    <2>1. n - 1 \in 0..N /\ c[n - 1] \in X
      BY <1>1
    <2>. QED  BY <1>4, <2>1
  <1>6. Eq(c)
    <2>1. ASSUME NEW n \in 0..N
          PROVE  c[n] = IF n = 0 THEN base
                        ELSE c[n - 1] \cup ({ContinuedAt(conts, r) : r \in {y \in c[n - 1] : Unique(conts, y)}} \ {None})
      <3>1. CASE n = 0
        BY <1>4, <3>1
      <3>2. CASE n # 0
        <4>1. n \in 1..N
          BY <1>1, <3>2
        <4>. HIDE DEF h
        <4>. QED  BY <1>5, <3>2, <4>1 DEF Grow
      <3>. QED  BY <3>1, <3>2
    <2>2. c = [n \in 0..N |-> c[n]]
      OBVIOUS
    <2>. HIDE DEF h
    <2>. QED  BY <2>1, <2>2
  <1>7. Eq(d)
    <2>. HIDE DEF Eq
    <2>. QED  BY <1>6
  <1>8. d[0] = base /\ \A n \in 1..N : d[n] = Grow(conts, d[n - 1])
    <2>1. 0 \in 0..N /\ \A n \in 1..N : n \in 0..N /\ n # 0
      BY <1>1
    <2>. HIDE DEF d, h
    <2>2. \A n \in 0..N : d[n] = IF n = 0 THEN base
                        ELSE d[n - 1] \cup ({ContinuedAt(conts, r) : r \in {y \in d[n - 1] : Unique(conts, y)}} \ {None})
      BY <1>7
    <2>. QED  BY <2>1, <2>2 DEF Grow
  <1>9. Following(conts, ref) = d[N]
    BY DEF Following, d, Eq, N, base
  <1>. QED  BY <1>8, <1>9 DEF N, base

(* What follows a reference is what its walk met: the chain, and the reference *)
(* the walk stopped at.                                                        *)
LEMMA FollowingIs ==
  ASSUME NEW conts \in Seq(Links), NEW ref \in STRING, NEW w, w = WalkChain(conts, ref)
  PROVE  Following(conts, ref) = {w.chain[i] : i \in 1..Len(w.chain)} \cup ({w.current} \ {None})
  <1>. DEFINE n == Len(w.chain)  m == Len(conts)  C == {w.chain[i] : i \in 1..n}  A == C \cup ({w.current} \ {None})
  <1>1. /\ w \in Walks /\ IsChain(conts, ref, w.chain, w.current)
        /\ w.error = None <=> w.current = None
        /\ w.error # None /\ Unique(conts, w.current) => \E i \in 1..n : w.chain[i] = w.current
    BY WalkIs
  <1>2. w.chain \in Seq(STRING) /\ w.current \in STRING
    BY <1>1 DEF Walks
  <1>3. n \in Nat /\ m \in Nat /\ n <= m
    <2>1. n <= m
      BY <1>1, <1>2, ChainFits
    <2>. QED  BY <1>2, <2>1
  <1>4. PICK d : d[0] = {ref} \ {None} /\ (\A k \in 1..m : d[k] = Grow(conts, d[k - 1])) /\ Following(conts, ref) = d[m]
    BY FollowingSteps
  <1>5. /\ \A i \in 1..n : w.chain[i] # None /\ Unique(conts, w.chain[i])
        /\ \A i \in 1..n : i + 1 <= n => ContinuedAt(conts, w.chain[i]) = w.chain[i + 1]
        /\ n = 0 => w.current = ref
        /\ n # 0 => w.chain[1] = ref /\ w.current = ContinuedAt(conts, w.chain[n])
    BY <1>1 DEF IsChain
  <1>. HIDE DEF n, m
  <1>6. ref = None \/ ref \in A
    <2>1. CASE n = 0
      BY <1>5, <2>1
    <2>2. CASE n # 0
      <3>1. 1 \in 1..n /\ w.chain[1] = ref
        <4>1. w.chain[1] = ref
          BY <1>5, <2>2
        <4>. QED  BY <1>3, <2>2, <4>1
      <3>. QED  BY <3>1
    <2>. QED  BY <2>1, <2>2
  <1>7. ASSUME NEW i \in 1..n PROVE ContinuedAt(conts, w.chain[i]) = None \/ ContinuedAt(conts, w.chain[i]) \in A
    <2>1. CASE i = n
      <3>1. n # 0
        BY <1>3, <2>1
      <3>2. w.current = ContinuedAt(conts, w.chain[i])
        BY <1>5, <2>1, <3>1
      <3>. QED  BY <3>2
    <2>2. CASE i # n
      <3>1. i + 1 <= n /\ i + 1 \in 1..n
        BY <1>3, <2>2
      <3>2. ContinuedAt(conts, w.chain[i]) = w.chain[i + 1]
        BY <1>5, <3>1
      <3>. QED  BY <3>1, <3>2
    <2>. QED  BY <2>1, <2>2
  <1>8. ASSUME NEW x \in A, Unique(conts, x) PROVE ContinuedAt(conts, x) = None \/ ContinuedAt(conts, x) \in A
    <2>1. \E i \in 1..n : w.chain[i] = x
      <3>1. CASE x \in C
        BY <3>1
      <3>2. CASE x \notin C
        <4>1. x = w.current /\ x # None
          BY <3>2
        <4>. QED  BY <1>1, <1>8, <4>1
      <3>. QED  BY <3>1, <3>2
    <2>2. PICK i \in 1..n : w.chain[i] = x
      BY <2>1
    <2>. HIDE DEF A
    <2>. QED  BY <1>7, <2>2
  <1>9. ASSUME NEW x, x \subseteq A PROVE Grow(conts, x) \subseteq A
    <2>. HIDE DEF A
    <2>. QED  BY <1>8, <1>9 DEF Grow
  <1>. DEFINE Q == {k \in Nat : k \in 0..m => d[k] \subseteq A}
  <1>10. Q = Nat
    <2>. HIDE DEF A
    <2>1. 0 \in Q
      BY <1>4, <1>6
    <2>2. ASSUME NEW k \in Q PROVE k + 1 \in Q
      <3>1. k \in Nat /\ (k \in 0..m => d[k] \subseteq A)
        OBVIOUS
      <3>2. ASSUME k + 1 \in 0..m PROVE d[k + 1] \subseteq A
        <4>1. k \in 0..m /\ k + 1 \in 1..m /\ (k + 1) - 1 = k
          BY <1>3, <3>1, <3>2
        <4>2. d[k + 1] = Grow(conts, d[k])
          BY <1>4, <4>1
        <4>. QED  BY <1>9, <3>1, <4>1, <4>2
      <3>. QED  BY <3>1, <3>2
    <2>3. Q \in SUBSET Nat
      OBVIOUS
    <2>. HIDE DEF Q
    <2>. QED  BY <2>1, <2>2, <2>3, SetInduction
  <1>11. d[m] \subseteq A
    <2>1. m \in Nat /\ m \in 0..m
      BY <1>3
    <2>. HIDE DEF A
    <2>. QED  BY <1>10, <2>1
  <1>. DEFINE Has(k) == /\ \A i \in 1..n : i <= k + 1 => w.chain[i] \in d[k]
                        /\ n <= k /\ w.current # None => w.current \in d[k]
              R == {k \in Nat : k \in 0..m => Has(k)}
  <1>. HIDE DEF A
  <1>12. Has(0)
    <2>1. ASSUME NEW i \in 1..n, i <= 0 + 1 PROVE w.chain[i] \in d[0]
      <3>1. i = 1 /\ n # 0
        BY <1>3, <2>1
      <3>2. w.chain[1] = ref /\ w.chain[1] # None
        BY <1>5, <3>1
      <3>. QED  BY <1>4, <3>1, <3>2
    <2>2. ASSUME n <= 0, w.current # None PROVE w.current \in d[0]
      <3>1. n = 0
        BY <1>3, <2>2
      <3>. QED  BY <1>4, <1>5, <2>2, <3>1
    <2>. QED  BY <2>1, <2>2
  <1>13. ASSUME NEW k \in Nat, k + 1 \in 0..m, Has(k) PROVE Has(k + 1)
    <2>1. k + 1 \in 1..m /\ (k + 1) - 1 = k
      BY <1>3, <1>13
    <2>2. d[k + 1] = Grow(conts, d[k])
      BY <1>4, <2>1
    <2>3. d[k] \subseteq d[k + 1] /\ \A x \in d[k] : Unique(conts, x) /\ ContinuedAt(conts, x) # None => ContinuedAt(conts, x) \in d[k + 1]
      BY <2>2 DEF Grow
    <2>4. ASSUME NEW i \in 1..n, i <= (k + 1) + 1 PROVE w.chain[i] \in d[k + 1]
      <3>1. CASE i <= k + 1
        BY <1>13, <2>3, <3>1
      <3>2. CASE ~ (i <= k + 1)
        <4>1. i - 1 \in 1..n /\ i - 1 <= k + 1 /\ (i - 1) + 1 = i /\ (i - 1) + 1 <= n
          BY <1>3, <2>4, <3>2
        <4>2. w.chain[i - 1] \in d[k] /\ Unique(conts, w.chain[i - 1]) /\ ContinuedAt(conts, w.chain[i - 1]) = w.chain[i] /\ w.chain[i] # None
          <5>1. w.chain[i - 1] \in d[k]
            BY <1>13, <4>1
          <5>. QED  BY <1>5, <4>1, <5>1
        <4>. QED  BY <2>3, <4>2
      <3>. QED  BY <3>1, <3>2
    <2>5. ASSUME n <= k + 1, w.current # None PROVE w.current \in d[k + 1]
      <3>1. CASE n = 0
        <4>1. n <= k
          BY <3>1
        <4>. QED  BY <1>13, <2>3, <2>5, <4>1
      <3>2. CASE n # 0
        <4>1. n \in 1..n
          BY <1>3, <3>2
        <4>2. w.chain[n] \in d[k] /\ Unique(conts, w.chain[n])
          BY <1>13, <1>5, <2>5, <4>1
        <4>3. w.current = ContinuedAt(conts, w.chain[n])
          BY <1>5, <3>2
        <4>. QED  BY <2>3, <2>5, <4>2, <4>3
      <3>. QED  BY <3>1, <3>2
    <2>. QED  BY <2>4, <2>5
  <1>14. R = Nat
    <2>. HIDE DEF Has
    <2>1. 0 \in R
      BY <1>12
    <2>2. ASSUME NEW k \in R PROVE k + 1 \in R
      <3>1. k \in Nat /\ (k \in 0..m => Has(k)) /\ (k + 1 \in 0..m => k \in 0..m)
        BY <1>3
      <3>. QED  BY <1>13, <3>1
    <2>3. R \in SUBSET Nat
      OBVIOUS
    <2>. HIDE DEF R
    <2>. QED  BY <2>1, <2>2, <2>3, SetInduction
  <1>15. Has(m)
    <2>1. m \in Nat /\ m \in 0..m
      BY <1>3
    <2>. HIDE DEF Has
    <2>. QED  BY <1>14, <2>1
  <1>16. A \subseteq d[m]
    <2>1. \A i \in 1..n : i <= m + 1
      BY <1>3
    <2>. QED  BY <1>3, <1>15, <2>1 DEF A
  <1>. QED  BY <1>4, <1>11, <1>16 DEF A, n

-----------------------------------------------------------------------------
(* Sound chains are exactly the ones that are walked without an error.     *)

(* A chain is sound if and only if the walk reports no error. *)
LEMMA SoundIffWalked ==
  ASSUME NEW conts \in Seq(Links), NEW ref \in STRING, ref # None
  PROVE  WalkChain(conts, ref).error = None <=>
           /\ \A r \in Following(conts, ref) : Unique(conts, r)
           /\ \E r \in Following(conts, ref) : ContinuedAt(conts, r) = None
  <1>1. PICK w : w = WalkChain(conts, ref)
    OBVIOUS
  <1>. DEFINE n == Len(w.chain)  F == Following(conts, ref)
  <1>2. /\ w \in Walks /\ IsChain(conts, ref, w.chain, w.current)
        /\ w.error = None <=> w.current = None
        /\ w.error # None /\ Unique(conts, w.current) => \E i \in 1..n : w.chain[i] = w.current
    BY <1>1, WalkIs
  <1>3. F = {w.chain[i] : i \in 1..n} \cup ({w.current} \ {None})
    BY <1>1, FollowingIs
  <1>4. n \in Nat
    BY <1>2 DEF Walks
  <1>5. /\ \A i \in 1..n : w.chain[i] # None /\ Unique(conts, w.chain[i])
        /\ \A i \in 1..n : i + 1 <= n => ContinuedAt(conts, w.chain[i]) = w.chain[i + 1]
        /\ n = 0 => w.current = ref
        /\ n # 0 => w.chain[1] = ref /\ w.current = ContinuedAt(conts, w.chain[n])
    BY <1>2 DEF IsChain
  <1>. HIDE DEF n, F
  <1>6. ASSUME w.error = None
        PROVE  (\A r \in F : Unique(conts, r)) /\ \E r \in F : ContinuedAt(conts, r) = None
    <2>1. w.current = None /\ n # 0
      BY <1>2, <1>5, <1>6
    <2>2. n \in 1..n /\ ContinuedAt(conts, w.chain[n]) = None
      <3>1. ContinuedAt(conts, w.chain[n]) = None
        BY <1>5, <2>1
      <3>. QED  BY <1>4, <2>1, <3>1
    <2>3. \A r \in F : \E i \in 1..n : r = w.chain[i]
      BY <1>3, <2>1
    <2>4. \A i \in 1..n : w.chain[i] \in F
      BY <1>3
    <2>. QED  BY <1>5, <2>2, <2>3, <2>4
  <1>7. ASSUME w.error # None, \A r \in F : Unique(conts, r), NEW s \in F, ContinuedAt(conts, s) = None
        PROVE  FALSE
    <2>1. w.current # None /\ w.current \in F
      BY <1>2, <1>3, <1>7
    <2>2. PICK j \in 1..n : w.chain[j] = w.current
      BY <1>2, <1>7, <2>1
    <2>3. PICK i \in 1..n : w.chain[i] = s
      <3>1. s = w.current \/ \E i \in 1..n : w.chain[i] = s
        BY <1>3
      <3>. QED  BY <2>2, <3>1
    <2>4. CASE i = n
      <3>1. n # 0
        BY <1>4, <2>4
      <3>. QED  BY <1>5, <1>7, <2>1, <2>3, <2>4, <3>1
    <2>5. CASE i # n
      <3>1. i + 1 <= n /\ i + 1 \in 1..n
        BY <1>4, <2>5
      <3>. QED  BY <1>5, <1>7, <2>3, <3>1
    <2>. QED  BY <2>4, <2>5
  <1>8. w.error = None <=> (\A r \in F : Unique(conts, r)) /\ \E r \in F : ContinuedAt(conts, r) = None
    BY <1>6, <1>7
  <1>. QED  BY <1>1, <1>8 DEF F

(* With a chain that ends, what another reference leads to is shared exactly *)
(* if the two chains share it.                                               *)
LEMMA SharedIffWalked ==
  ASSUME NEW conts \in Seq(Links), NEW ref \in STRING, NEW other \in STRING,
         WalkChain(conts, ref).error = None
  PROVE  Following(conts, ref) \cap Following(conts, other) = {} <=>
         Range(WalkChain(conts, ref).chain) \cap Range(WalkChain(conts, other).chain) = {}
  <1>1. PICK w : w = WalkChain(conts, ref)
    OBVIOUS
  <1>2. PICK v : v = WalkChain(conts, other)
    OBVIOUS
  <1>3. w \in Walks /\ w.current = None /\ IsChain(conts, ref, w.chain, w.current)
    BY <1>1, WalkIs
  <1>4. /\ v \in Walks /\ (v.error = None <=> v.current = None)
        /\ v.error # None /\ Unique(conts, v.current) => \E i \in 1..Len(v.chain) : v.chain[i] = v.current
    BY <1>2, WalkIs
  <1>5. Following(conts, ref) = {w.chain[i] : i \in 1..Len(w.chain)} \cup ({w.current} \ {None})
    BY <1>1, FollowingIs
  <1>6. Following(conts, other) = {v.chain[i] : i \in 1..Len(v.chain)} \cup ({v.current} \ {None})
    BY <1>2, FollowingIs
  <1>7. w.chain \in Seq(STRING) /\ v.chain \in Seq(STRING)
    BY <1>3, <1>4 DEF Walks
  <1>8. Range(w.chain) = {w.chain[i] : i \in 1..Len(w.chain)} /\ Range(v.chain) = {v.chain[i] : i \in 1..Len(v.chain)}
    <2>1. DOMAIN w.chain = 1..Len(w.chain) /\ DOMAIN v.chain = 1..Len(v.chain)
      BY <1>7
    <2>. QED  BY <2>1 DEF Range
  <1>9. \A x \in Range(w.chain) : Unique(conts, x)
    BY <1>3, <1>8 DEF IsChain
  <1>10. Following(conts, ref) = Range(w.chain)
    BY <1>3, <1>5, <1>8
  <1>11. Following(conts, other) = Range(v.chain) \cup ({v.current} \ {None})
    BY <1>6, <1>8
  <1>12. v.current # None /\ Unique(conts, v.current) => v.current \in Range(v.chain)
    BY <1>4, <1>8
  <1>13. Range(w.chain) \cap (Range(v.chain) \cup ({v.current} \ {None})) = {} <=> Range(w.chain) \cap Range(v.chain) = {}
    BY <1>9, <1>12
  <1>. QED  BY <1>1, <1>2, <1>10, <1>11, <1>13

(* The chains of the items of the target are sound and their own. *)
AllSound(f, uris) ==
  \A i \in {k \in DOMAIN Roots(f, uris) : Roots(f, uris)[k].target = DefaultTarget} :
     /\ ChainIsSound(f, uris, Roots(f, uris)[i])
     /\ \A j \in DOMAIN Roots(f, uris) \ {i} :
           Following(Conts(f, uris), Roots(f, uris)[i].ref)
              \cap Following(Conts(f, uris), Roots(f, uris)[j].ref) = {}

(* The inventory finds no failure exactly if the chains of the target's items *)
(* are sound and share nothing.                                               *)
LEMMA ChainsDecided ==
  ASSUME NEW f, NEW uris, Conts(f, uris) \in Seq(Links),
         NEW N \in Nat, DOMAIN Roots(f, uris) = 1..N,
         \A i \in 1..N : /\ Roots(f, uris)[i].ref \in STRING
                         /\ Roots(f, uris)[i].target = DefaultTarget => Roots(f, uris)[i].ref # None
  PROVE  AllSound(f, uris) <=> ChainFailure(f, uris) = None
  <1>. DEFINE conts == Conts(f, uris)  roots == Roots(f, uris)
              walks == [i \in DOMAIN roots |-> WalkChain(conts, roots[i].ref)]
              mine == {i \in DOMAIN roots : roots[i].target = DefaultTarget}
              broken == {i \in mine : walks[i].error # None}
              Reuse == \E i \in mine, j \in DOMAIN roots :
                         i # j /\ Range(walks[i].chain) \cap Range(walks[j].chain) # {}
  <1>1. ASSUME NEW i \in mine PROVE walks[i].error = None <=> ChainIsSound(f, uris, roots[i])
    <2>1. i \in DOMAIN roots /\ roots[i].target = DefaultTarget
      OBVIOUS
    <2>2. roots[i].ref \in STRING /\ roots[i].ref # None
      BY <2>1
    <2>3. walks[i] = WalkChain(conts, roots[i].ref)
      BY <2>1
    <2>4. ChainIsSound(f, uris, roots[i]) <=>
             (\A r \in Following(conts, roots[i].ref) : Unique(conts, r)) /\ \E r \in Following(conts, roots[i].ref) : ContinuedAt(conts, r) = None
      BY DEF ChainIsSound
    <2>. HIDE DEF walks, mine, roots, conts
    <2>5. conts \in Seq(Links)
      BY DEF conts
    <2>. QED  BY <2>2, <2>3, <2>4, <2>5, SoundIffWalked
  <1>2. ASSUME NEW i \in mine, walks[i].error = None, NEW j \in DOMAIN roots
        PROVE  Following(conts, roots[i].ref) \cap Following(conts, roots[j].ref) = {} <=>
               Range(walks[i].chain) \cap Range(walks[j].chain) = {}
    <2>1. i \in DOMAIN roots /\ roots[i].ref \in STRING /\ roots[j].ref \in STRING
      OBVIOUS
    <2>2. walks[i] = WalkChain(conts, roots[i].ref) /\ walks[j] = WalkChain(conts, roots[j].ref)
      BY <2>1
    <2>. HIDE DEF walks, mine, roots, conts
    <2>3. conts \in Seq(Links)
      BY DEF conts
    <2>. QED  BY <1>2, <2>1, <2>2, <2>3, SharedIffWalked
  <1>3. ChainFailure(f, uris) =
          CASE broken # {} -> walks[CHOOSE i \in broken : \A j \in broken : i <= j].error
            [] broken = {} /\ Reuse -> "CONTINUATION_REUSE"
            [] OTHER -> None
    BY DEF ChainFailure
  <1>4. broken \in SUBSET (1..N) /\ mine \subseteq DOMAIN roots
    OBVIOUS
  <1>5. broken # {} => ChainFailure(f, uris) # None
    <2>1. SUFFICES ASSUME broken # {} PROVE ChainFailure(f, uris) # None
      OBVIOUS
    <2>. HIDE DEF walks, mine, roots, conts, broken, Reuse
    <2>2. \E i \in broken : \A j \in broken : i <= j
      <3>1. 1 \in Int /\ N \in Int
        OBVIOUS
      <3>2. IsFiniteSet(1..N)
        BY <3>1, FS_Interval
      <3>3. IsFiniteSet(broken)
        BY <1>4, <3>2, FS_Subset
      <3>4. PICK v : v = [x \in broken |-> - x]
        OBVIOUS
      <3>5. \A x \in broken : x \in Int /\ v[x] \in Int /\ v[x] = - x
        <4>1. \A x \in broken : x \in 1..N
          BY <1>4
        <4>2. \A x \in 1..N : x \in Int /\ - x \in Int
          OBVIOUS
        <4>3. \A x \in broken : v[x] = - x
          BY <3>4
        <4>. QED  BY <4>1, <4>2, <4>3
      <3>6. PICK x \in broken : \A y \in broken : v[y] <= v[x]
        BY <2>1, <3>3, <3>5, GreatestOf
      <3>. QED  BY <3>5, <3>6
    <2>3. PICK m \in broken : m = CHOOSE i \in broken : \A j \in broken : i <= j
      BY <2>2
    <2>4. ChainFailure(f, uris) = walks[m].error
      BY <1>3, <2>1, <2>3
    <2>5. walks[m].error # None
      BY DEF broken
    <2>. QED  BY <2>4, <2>5
  <1>6. broken = {} => (ChainFailure(f, uris) = None <=> ~Reuse)
    <2>. HIDE DEF walks, mine, roots, conts, broken, Reuse
    <2>1. "CONTINUATION_REUSE" # None
      BY DEF None
    <2>. QED  BY <1>3, <2>1
  <1>7. AllSound(f, uris) <=>
           \A i \in mine : /\ ChainIsSound(f, uris, roots[i])
                           /\ \A j \in DOMAIN roots \ {i} : Following(conts, roots[i].ref) \cap Following(conts, roots[j].ref) = {}
    BY DEF AllSound
  <1>8. broken = {} <=> \A i \in mine : ChainIsSound(f, uris, roots[i])
    <2>1. broken = {} <=> \A i \in mine : walks[i].error = None
      <3>. HIDE DEF walks, mine
      <3>. QED  OBVIOUS
    <2>. HIDE DEF walks, mine, roots, conts, broken, Reuse
    <2>. QED  BY <1>1, <2>1
  <1>9. broken = {} => \A i \in mine : walks[i].error = None
    <2>. HIDE DEF walks, mine
    <2>. QED  OBVIOUS
  <1>10. broken = {} => (~Reuse <=> \A i \in mine : \A j \in DOMAIN roots \ {i} : Following(conts, roots[i].ref) \cap Following(conts, roots[j].ref) = {})
    <2>1. SUFFICES ASSUME broken = {} PROVE ~Reuse <=> \A i \in mine : \A j \in DOMAIN roots \ {i} : Following(conts, roots[i].ref) \cap Following(conts, roots[j].ref) = {}
      OBVIOUS
    <2>2. ~Reuse <=> \A i \in mine, j \in DOMAIN roots : i # j => Range(walks[i].chain) \cap Range(walks[j].chain) = {}
      OBVIOUS
    <2>. HIDE DEF walks, mine, roots, conts, broken, Reuse
    <2>. QED  BY <1>2, <1>9, <2>1, <2>2
  <1>. HIDE DEF walks, mine, roots, conts, broken, Reuse
  <1>. QED  BY <1>5, <1>6, <1>7, <1>8, <1>10

-----------------------------------------------------------------------------
(* Filings, and what their documents file.                                 *)

(* What the assumption says of a filing. *)
IsFiling(f) ==
  /\ f.reports \in Seq(ReportInputs) /\ f.reports # <<>>
  /\ f.docs \in [DOMAIN f.docs -> DocumentRecords]
  /\ f.dts \in Seq(ConceptRecords) /\ f.nets \in Seq(NetworkRecords)
  /\ f.log \in Seq([level : STRING, code : STRING])
  /\ None \notin f.bound
  /\ \A i \in DOMAIN f.reports :
        /\ f.reports[i].kind = "instance" => Len(f.reports[i].uris) = 1
        /\ Range(Members(f, f.reports[i])) \subseteq DOMAIN f.docs \cup {None}
  /\ \A u \in DOMAIN f.docs : SourceDocument(f, f.docs[u].seenAs) \in {u, None}

(* Every filing is one. *)
LEMMA FilingIs ==
  ASSUME NEW f \in Filings
  PROVE  IsFiling(f)
  BY FilingsAssumption DEF IsFiling

(* An element of a document, with its place. *)
IsFiled(f, field, x) ==
  \E u \in DOMAIN f.docs : \E k \in DOMAIN f.docs[u][field] :
     x = [is |-> f.docs[u][field][k], uri |-> f.docs[u].seenAs, at |-> <<u, field, k>>]

(* The places of what is filed. *)
Occurrences(f, field, S) ==
  [is : S, uri : {f.docs[u].seenAs : u \in DOMAIN f.docs}, at : (DOMAIN f.docs) \X {field} \X Nat]

(* What the documents file is a sequence of elements, each with its place. *)
LEMMA FiledIs ==
  ASSUME NEW f, NEW S, NEW field, NEW uris \in Seq(DOMAIN f.docs),
         \A u \in DOMAIN f.docs : f.docs[u][field] \in Seq(S)
  PROVE  /\ Filed(f, uris, field) \in Seq(Occurrences(f, field, S))
         /\ \A i \in DOMAIN Filed(f, uris, field) :
               IsFiled(f, field, Filed(f, uris, field)[i]) /\ Filed(f, uris, field)[i].is \in S
  <1>. DEFINE D == DOMAIN f.docs
              one(u) == [k \in DOMAIN f.docs[u][field] |->
                           [is |-> f.docs[u][field][k], uri |-> f.docs[u].seenAs, at |-> <<u, field, k>>]]
              ss == [i \in DOMAIN uris |-> one(uris[i])]
              O == Occurrences(f, field, S)
  <1>1. Filed(f, uris, field) = FlattenSeq(ss)
    BY DEF Filed
  <1>2. ASSUME NEW u \in D
        PROVE  one(u) \in Seq(O) /\ \A k \in DOMAIN one(u) : IsFiled(f, field, one(u)[k]) /\ one(u)[k].is \in S
    <2>1. PICK n \in Nat : DOMAIN f.docs[u][field] = 1..n
      OBVIOUS
    <2>2. ASSUME NEW k \in 1..n PROVE one(u)[k] \in O /\ IsFiled(f, field, one(u)[k]) /\ one(u)[k].is \in S
      <3>1. f.docs[u][field][k] \in S /\ k \in DOMAIN f.docs[u][field] /\ k \in Nat
        BY <2>1
      <3>2. one(u)[k] = [is |-> f.docs[u][field][k], uri |-> f.docs[u].seenAs, at |-> <<u, field, k>>]
        BY <3>1
      <3>. QED  BY <3>1, <3>2 DEF Occurrences, IsFiled
    <2>3. DOMAIN one(u) = 1..n
      BY <2>1
    <2>4. one(u) = [k \in 1..n |-> one(u)[k]]
      BY <2>3
    <2>. HIDE DEF one, O
    <2>5. one(u) \in [1..n -> O]
      BY <2>2, <2>4
    <2>. QED  BY <2>2, <2>3, <2>5, SeqDef
  <1>. HIDE DEF one, O
  <1>3. DOMAIN ss = DOMAIN uris /\ \A i \in DOMAIN uris : ss[i] = one(uris[i]) /\ uris[i] \in D
    OBVIOUS
  <1>4. ss \in Seq(Seq(O))
    <2>1. PICK n \in Nat : DOMAIN uris = 1..n
      OBVIOUS
    <2>2. ss = [i \in 1..n |-> ss[i]] /\ \A i \in 1..n : ss[i] \in Seq(O)
      BY <1>2, <1>3, <2>1
    <2>. HIDE DEF ss
    <2>3. ss \in [1..n -> Seq(O)]
      BY <2>2
    <2>. QED  BY <2>3, SeqDef
  <1>. HIDE DEF ss, D
  <1>5. /\ FlattenSeq(ss) \in Seq(O)
        /\ \A i \in DOMAIN FlattenSeq(ss) : \E a \in DOMAIN ss : \E b \in DOMAIN ss[a] : FlattenSeq(ss)[i] = ss[a][b]
    BY <1>4, FlattenFrom
  <1>6. ASSUME NEW i \in DOMAIN FlattenSeq(ss)
        PROVE  IsFiled(f, field, FlattenSeq(ss)[i]) /\ FlattenSeq(ss)[i].is \in S
    <2>1. PICK a \in DOMAIN ss : \E b \in DOMAIN ss[a] : FlattenSeq(ss)[i] = ss[a][b]
      BY <1>5
    <2>2. PICK u \in D : ss[a] = one(u)
      BY <1>3
    <2>. QED  BY <1>2, <2>1, <2>2
  <1>. QED  BY <1>1, <1>5, <1>6 DEF O

(* What a document files. *)
LEMMA DocumentIs ==
  ASSUME NEW f, IsFiling(f), NEW u \in DOMAIN f.docs
  PROVE  /\ f.docs[u]["contexts"] \in Seq(ContextRecords) /\ f.docs[u]["units"] \in Seq(UnitRecords)
         /\ f.docs[u]["items"] \in Seq(ItemRecords) /\ f.docs[u]["conts"] \in Seq(Links)
         /\ f.docs[u]["notes"] \in Seq(STRING)
  <1>1. f.docs[u] \in DocumentRecords
    BY DEF IsFiling
  <1>. QED  BY <1>1 DEF DocumentRecords, Links

(* A located element names its own place. *)
LEMMA LocatorIs ==
  ASSUME NEW f, IsFiling(f), NEW field, NEW x, IsFiled(f, field, x), Located(f, x)
  PROVE  Locator(f, x) = x.at
  <1>0. PICK u \in DOMAIN f.docs : \E k \in DOMAIN f.docs[u][field] :
           x = [is |-> f.docs[u][field][k], uri |-> f.docs[u].seenAs, at |-> <<u, field, k>>]
    BY DEF IsFiled
  <1>1. PICK k \in DOMAIN f.docs[u][field] :
           x = [is |-> f.docs[u][field][k], uri |-> f.docs[u].seenAs, at |-> <<u, field, k>>]
    BY <1>0
  <1>2. x.uri = f.docs[u].seenAs /\ x.at = <<u, field, k>>
    BY <1>1
  <1>3. SourceDocument(f, x.uri) = u
    BY <1>2 DEF IsFiling, Located
  <1>4. x.at[2] = field /\ x.at[3] = k
    BY <1>2
  <1>. QED  BY <1>2, <1>3, <1>4 DEF Locator

-----------------------------------------------------------------------------
(* What gets past the inventory.                                           *)

(* The members of a report input: documents of the filing, or none. *)
LEMMA MembersAre ==
  ASSUME NEW f, IsFiling(f), NEW i \in DOMAIN f.reports, None \notin Range(Members(f, f.reports[i]))
  PROVE  Members(f, f.reports[i]) \in Seq(DOMAIN f.docs)
  <1>. DEFINE r == f.reports[i]  D == DOMAIN f.docs  s == Members(f, r)
  <1>1. r \in ReportInputs
    BY DEF IsFiling
  <1>2. r.uris \in Seq(STRING)
    BY <1>1 DEF ReportInputs
  <1>3. PICK n \in Nat : DOMAIN r.uris = 1..n
    BY <1>2
  <1>4. Range(s) \subseteq D \cup {None}
    BY DEF IsFiling
  <1>5. s = [k \in DOMAIN r.uris |-> Canonical(f, r.uris[k])]
    BY DEF Members
  <1>. HIDE DEF s, r, D
  <1>6. DOMAIN s = 1..n
    BY <1>3, <1>5
  <1>7. \A k \in 1..n : s[k] \in D
    <2>1. \A k \in 1..n : s[k] \in Range(s)
      BY <1>6 DEF Range
    <2>2. None \notin Range(s)
      BY DEF s, r
    <2>. QED  BY <1>4, <2>1, <2>2
  <1>8. s = [k \in 1..n |-> s[k]]
    BY <1>5, <1>6
  <1>9. s \in [1..n -> D]
    BY <1>7, <1>8
  <1>10. s \in Seq(D)
    BY <1>9, SeqDef
  <1>. QED  BY <1>10 DEF s, r, D

(* The continuations of a report. *)
LEMMA ContsAre ==
  ASSUME NEW f, IsFiling(f), NEW uris \in Seq(DOMAIN f.docs)
  PROVE  Conts(f, uris) \in Seq(Links)
  <1>. DEFINE c == Filed(f, uris, "conts")
  <1>1. c \in Seq(Occurrences(f, "conts", Links)) /\ \A i \in DOMAIN c : c[i].is \in Links
    <2>1. \A u \in DOMAIN f.docs : f.docs[u]["conts"] \in Seq(Links)
      BY DocumentIs
    <2>. QED  BY <2>1, FiledIs
  <1>2. Conts(f, uris) = [i \in DOMAIN c |-> c[i].is]
    BY DEF Conts
  <1>. HIDE DEF c
  <1>3. PICK n \in Nat : DOMAIN c = 1..n
    BY <1>1
  <1>4. Conts(f, uris) \in [1..n -> Links]
    BY <1>1, <1>2, <1>3
  <1>. QED  BY <1>4, SeqDef

(* Every root has a reference, and an item's is one. *)
LEMMA RootsAre ==
  ASSUME NEW f, IsFiling(f), NEW uris \in Seq(DOMAIN f.docs)
  PROVE  \E N \in Nat : /\ DOMAIN Roots(f, uris) = 1..N
                        /\ \A i \in 1..N : /\ Roots(f, uris)[i].ref \in STRING
                                           /\ Roots(f, uris)[i].target = DefaultTarget => Roots(f, uris)[i].ref # None
  <1>. DEFINE I == Filed(f, uris, "items")
              P == {i \in DOMAIN I : I[i].is.cont # None}
              items == Pick(I, P)
              notes == Filed(f, uris, "notes")
              a == [i \in DOMAIN items |-> [target |-> items[i].is.target, ref |-> items[i].is.cont]]
              b == [i \in DOMAIN notes |-> [target |-> "footnote", ref |-> notes[i].is]]
              T == [target : STRING \cup {"footnote"}, ref : STRING]
  <1>1. I \in Seq(Occurrences(f, "items", ItemRecords)) /\ \A i \in DOMAIN I : I[i].is \in ItemRecords
    <2>1. \A u \in DOMAIN f.docs : f.docs[u]["items"] \in Seq(ItemRecords)
      BY DocumentIs
    <2>. QED  BY <2>1, FiledIs
  <1>2. notes \in Seq(Occurrences(f, "notes", STRING)) /\ \A i \in DOMAIN notes : notes[i].is \in STRING
    <2>1. \A u \in DOMAIN f.docs : f.docs[u]["notes"] \in Seq(STRING)
      BY DocumentIs
    <2>. QED  BY <2>1, FiledIs
  <1>3. Roots(f, uris) = a \o b
    BY DEF Roots, Selection
  <1>4. P \in SUBSET (DOMAIN I) /\ \A i \in P : I[i].is.cont # None
    OBVIOUS
  <1>. HIDE DEF I, P, notes
  <1>5. /\ items \in Seq(Occurrences(f, "items", ItemRecords))
        /\ \A k \in DOMAIN items : Nth(P, k) \in P /\ items[k] = I[Nth(P, k)]
    BY <1>1, <1>4, PickIs
  <1>. HIDE DEF items
  <1>6. \A k \in DOMAIN items : items[k].is.cont # None /\ items[k].is.cont \in STRING /\ items[k].is.target \in STRING
    <2>1. \A k \in DOMAIN items : items[k].is.cont # None /\ items[k].is \in ItemRecords
      BY <1>1, <1>4, <1>5
    <2>. QED  BY <2>1 DEF ItemRecords
  <1>7. a \in Seq(T) /\ \A i \in DOMAIN a : a[i].ref # None
    <2>1. PICK n \in Nat : DOMAIN items = 1..n
      BY <1>5
    <2>2. \A i \in 1..n : a[i] \in T /\ a[i].ref # None
      BY <1>6, <2>1
    <2>3. DOMAIN a = 1..n /\ a = [i \in 1..n |-> a[i]]
      BY <2>1
    <2>. HIDE DEF a, T
    <2>4. a \in [1..n -> T]
      BY <2>2, <2>3
    <2>. QED  BY <2>2, <2>3, <2>4, SeqDef
  <1>8. b \in Seq(T) /\ \A i \in DOMAIN b : b[i].target = "footnote"
    <2>1. PICK n \in Nat : DOMAIN notes = 1..n
      BY <1>2
    <2>2. \A i \in 1..n : b[i] \in T /\ b[i].target = "footnote"
      BY <1>2, <2>1
    <2>3. DOMAIN b = 1..n /\ b = [i \in 1..n |-> b[i]]
      BY <2>1
    <2>. HIDE DEF b, T
    <2>4. b \in [1..n -> T]
      BY <2>2, <2>3
    <2>. QED  BY <2>2, <2>3, <2>4, SeqDef
  <1>9. \A t \in T : t.ref \in STRING
    OBVIOUS
  <1>. HIDE DEF a, b, T
  <1>10. /\ a \o b \in Seq(T)
         /\ \A i \in 1..Len(a \o b) : (a \o b)[i] = IF i <= Len(a) THEN a[i] ELSE b[i - Len(a)]
         /\ Len(a \o b) = Len(a) + Len(b)
    BY <1>7, <1>8, ConcatIs
  <1>11. /\ Len(a) \in Nat /\ DOMAIN a = 1..Len(a) /\ Len(b) \in Nat /\ DOMAIN b = 1..Len(b)
         /\ Len(a \o b) \in Nat /\ DOMAIN (a \o b) = 1..Len(a \o b)
         /\ \A i \in 1..Len(a \o b) : (a \o b)[i] \in T
    BY <1>7, <1>8, <1>10
  <1>12. "footnote" # DefaultTarget
    BY DEF DefaultTarget
  <1>13. ASSUME NEW i \in 1..Len(a \o b), (a \o b)[i].target = DefaultTarget PROVE (a \o b)[i].ref # None
    <2>1. CASE i <= Len(a)
      <3>1. i \in DOMAIN a /\ (a \o b)[i] = a[i]
        BY <1>10, <1>11, <2>1
      <3>. QED  BY <1>7, <3>1
    <2>2. CASE ~ (i <= Len(a))
      <3>1. i - Len(a) \in DOMAIN b /\ (a \o b)[i] = b[i - Len(a)]
        BY <1>10, <1>11, <2>2
      <3>. QED  BY <1>8, <1>12, <1>13, <3>1
    <2>. QED  BY <2>1, <2>2
  <1>. QED  BY <1>3, <1>9, <1>11, <1>13

(* The step bound cuts no sound chain short, and no unsound one gets past. *)
LEMMA ChainsAreDecided ==
  ASSUME NEW f, IsFiling(f), NEW i \in DOMAIN f.reports, None \notin Range(Members(f, f.reports[i]))
  PROVE  AllSound(f, Members(f, f.reports[i])) <=> ChainFailure(f, Members(f, f.reports[i])) = None
  <1>1. PICK uris \in Seq(DOMAIN f.docs) : uris = Members(f, f.reports[i])
    BY MembersAre
  <1>2. Conts(f, uris) \in Seq(Links)
    BY ContsAre
  <1>3. PICK N \in Nat : /\ DOMAIN Roots(f, uris) = 1..N
                         /\ \A k \in 1..N : /\ Roots(f, uris)[k].ref \in STRING
                                            /\ Roots(f, uris)[k].target = DefaultTarget => Roots(f, uris)[k].ref # None
    BY RootsAre
  <1>. QED  BY <1>1, <1>2, <1>3, ChainsDecided

(* What a report has that got past the inventory. *)
Scanned(f, r) ==
  LET uris == Members(f, r)
  IN  /\ uris \in Seq(DOMAIN f.docs) /\ ~Collision(f, uris)
      /\ \/ InventoryOf(f, r).items = Len(Selected(f, uris))
         \/ InventoryOf(f, r).items = Len(Filed(f, uris, "items"))
      /\ r.kind = "ixds" => ChainFailure(f, uris) = None

(* A report input without a failure of the inventory has been scanned. *)
LEMMA ScannedIs ==
  ASSUME NEW f, IsFiling(f), NEW i \in DOMAIN f.reports, InventoryOf(f, f.reports[i]).failure = None
  PROVE  Scanned(f, f.reports[i])
  <1>. DEFINE r == f.reports[i]  uris == Members(f, r)
  <1>1. r \in ReportInputs
    BY DEF IsFiling
  <1>2. r.kind \in {"ixds", "instance"} /\ r.uris \in Seq(STRING)
    BY <1>1 DEF ReportInputs
  <1>. HIDE DEF r, uris
  <1>3. \A c : Failure(c).failure = c
    BY DEF Failure
  <1>31. \A n : Success(n).items = n
    BY DEF Success
  <1>32. \A c \in {"IXDS_MEMBER_URI_AMBIGUOUS", "IXDS_DUPLICATE_CANONICAL_MEMBER", "INVENTORY_SCAN_FAILED", "ID_COLLISION",
                   "UNSUPPORTED_INLINE_FRACTION_OR_TUPLE", "INSTANCE_ROOT_INVALID"} : c # None
    BY DEF None
  <1>4. InventoryOf(f, r).failure = None
    BY DEF r
  <1>5. CASE r.kind = "ixds"
    <2>1. InventoryOf(f, r) = IxdsInventory(f, r)
      BY <1>5 DEF InventoryOf
    <2>2. /\ None \notin Range(uris) /\ ~Collision(f, uris) /\ ChainFailure(f, uris) = None
          /\ IxdsInventory(f, r) = Success(Len(Selected(f, uris)))
      <3>. DEFINE x == IxdsInventory(f, r)
                  bad == \E u \in Range(uris) : ~f.docs[u].wellFormed
      <3>1. x = CASE None \in Range(uris) -> Failure("IXDS_MEMBER_URI_AMBIGUOUS")
          [] None \notin Range(uris) /\ Repeated(uris) ->
                Failure("IXDS_DUPLICATE_CANONICAL_MEMBER")
          [] None \notin Range(uris) /\ ~Repeated(uris)
             /\ bad -> Failure("INVENTORY_SCAN_FAILED")
          [] OTHER ->
                CASE Collision(f, uris) -> Failure("ID_COLLISION")
                  [] ~Collision(f, uris) /\ FractionOrTuple(f, uris) ->
                        Failure("UNSUPPORTED_INLINE_FRACTION_OR_TUPLE")
                  [] ~Collision(f, uris) /\ ~FractionOrTuple(f, uris)
                     /\ ChainFailure(f, uris) # None -> Failure(ChainFailure(f, uris))
                  [] OTHER -> Success(Len(Selected(f, uris)))
        BY DEF IxdsInventory, uris
      <3>2. x.failure = None
        BY <1>4, <2>1
      <3>. HIDE DEF x, bad
      <3>3. None \notin Range(uris)
        BY <1>3, <1>32, <3>1, <3>2
      <3>4. ~Repeated(uris)
        BY <1>3, <1>32, <3>1, <3>2, <3>3
      <3>5. ~bad
        BY <1>3, <1>32, <3>1, <3>2, <3>3, <3>4
      <3>6. x = CASE Collision(f, uris) -> Failure("ID_COLLISION")
                  [] ~Collision(f, uris) /\ FractionOrTuple(f, uris) ->
                        Failure("UNSUPPORTED_INLINE_FRACTION_OR_TUPLE")
                  [] ~Collision(f, uris) /\ ~FractionOrTuple(f, uris)
                     /\ ChainFailure(f, uris) # None -> Failure(ChainFailure(f, uris))
                  [] OTHER -> Success(Len(Selected(f, uris)))
        BY <3>1, <3>3, <3>4, <3>5
      <3>7. ~Collision(f, uris)
        BY <1>3, <1>32, <3>2, <3>6
      <3>8. ~FractionOrTuple(f, uris)
        BY <1>3, <1>32, <3>2, <3>6, <3>7
      <3>9. ChainFailure(f, uris) = None
        BY <1>3, <3>2, <3>6, <3>7, <3>8
      <3>10. x = Success(Len(Selected(f, uris)))
        BY <3>6, <3>7, <3>8, <3>9
      <3>. QED  BY <3>3, <3>7, <3>9, <3>10 DEF x
    <2>3. uris \in Seq(DOMAIN f.docs)
      BY <2>2, MembersAre DEF uris, r
    <2>4. InventoryOf(f, r).items = Len(Selected(f, uris))
      BY <1>31, <2>1, <2>2
    <2>. QED  BY <2>2, <2>3, <2>4 DEF Scanned, uris, r
  <1>6. CASE r.kind # "ixds"
    <2>0. r.kind = "instance" /\ Len(r.uris) = 1
      BY <1>2, <1>6 DEF IsFiling, r
    <2>1. InventoryOf(f, r) = InstanceInventory(f, r)
      BY <1>6 DEF InventoryOf
    <2>. DEFINE uri == Canonical(f, r.uris[1])
    <2>2. /\ uri # None /\ ~Collision(f, <<uri>>)
          /\ InstanceInventory(f, r) = Success(Len(Filed(f, <<uri>>, "items")))
      <3>. DEFINE x == InstanceInventory(f, r)
      <3>1. x = CASE uri = None -> Failure("INVENTORY_SCAN_FAILED")
          [] uri # None /\ ~f.docs[uri].wellFormed -> Failure("INVENTORY_SCAN_FAILED")
          [] uri # None /\ f.docs[uri].wellFormed /\ f.docs[uri].root # "xbrl" ->
                Failure("INSTANCE_ROOT_INVALID")
          [] OTHER -> IF Collision(f, <<uri>>) THEN Failure("ID_COLLISION")
                                               ELSE Success(Len(Filed(f, <<uri>>, "items")))
        BY DEF InstanceInventory
      <3>2. x.failure = None
        BY <1>4, <2>1
      <3>. HIDE DEF x, uri
      <3>3. uri # None
        BY <1>3, <1>32, <3>1, <3>2
      <3>4. f.docs[uri].wellFormed
        BY <1>3, <1>32, <3>1, <3>2, <3>3
      <3>5. f.docs[uri].root = "xbrl"
        BY <1>3, <1>32, <3>1, <3>2, <3>3, <3>4
      <3>6. x = IF Collision(f, <<uri>>) THEN Failure("ID_COLLISION") ELSE Success(Len(Filed(f, <<uri>>, "items")))
        BY <3>1, <3>3, <3>4, <3>5
      <3>7. ~Collision(f, <<uri>>)
        BY <1>3, <1>32, <3>2, <3>6
      <3>. QED  BY <3>3, <3>6, <3>7 DEF x
    <2>3. uris = <<uri>>
      <3>1. DOMAIN r.uris = {1}
        BY <1>2, <2>0
      <3>2. uris = [k \in {1} |-> Canonical(f, r.uris[k])]
        BY <3>1 DEF uris, Members
      <3>3. uris = [k \in {1} |-> uri]
        BY <3>2
      <3>. HIDE DEF uri
      <3>4. <<uri>> = [k \in {1} |-> uri]
        OBVIOUS
      <3>. QED  BY <3>3, <3>4
    <2>. HIDE DEF uri
    <2>4. None \notin Range(uris)
      <3>1. DOMAIN uris = {1} /\ uris[1] = uri
        BY <2>3
      <3>. QED  BY <2>2, <3>1 DEF Range
    <2>5. uris \in Seq(DOMAIN f.docs)
      BY <2>4, MembersAre DEF uris, r
    <2>6. InventoryOf(f, r).items = Len(Filed(f, uris, "items"))
      BY <1>31, <2>1, <2>2, <2>3
    <2>. QED  BY <1>6, <2>2, <2>3, <2>5, <2>6 DEF Scanned, uris, r
  <1>. QED  BY <1>5, <1>6

-----------------------------------------------------------------------------
(* Issues, and the pass over the contexts.                                 *)

(* No issue fails the filing. *)
NoFatal(some) == \A i \in some : i.severity # "fatal"

(* What has no fatal issue has none in any part. *)
LEMMA NoFatalOf ==
  ASSUME NEW all, NoFatal(all), NEW some, some \subseteq all
  PROVE  NoFatal(some)
  BY DEF NoFatal

(* Incoherence is fatal, and so is any incompleteness that is not listed. *)
LEMMA FatalIs ==
  /\ \A some, c, code : When(c, Incoherent(code)) \subseteq some /\ NoFatal(some) => ~c
  /\ \A some, code : Incoherent(code) \in some => ~NoFatal(some)
  <1>1. \A code : Incoherent(code).severity = "fatal"
    BY DEF Incoherent
  <1>. QED  BY <1>1 DEF When, NoFatal

(* A function over the first naturals is a sequence. *)
LEMMA ListIs ==
  ASSUME NEW n \in Nat, NEW g, g = [i \in 1..n |-> g[i]], NEW S, \A i \in 1..n : g[i] \in S
  PROVE  g \in Seq(S) /\ Len(g) = n /\ DOMAIN g = 1..n
  <1>1. g \in [1..n -> S]
    <2>1. g = [i \in 1..n |-> g[i]] /\ \A i \in 1..n : g[i] \in S
      OBVIOUS
    <2>. QED  BY <2>1
  <1>2. g \in Seq(S) /\ DOMAIN g = 1..n
    BY <1>1, SeqDef
  <1>3. Len(g) \in Nat /\ DOMAIN g = 1..Len(g)
    BY <1>2
  <1>4. Len(g) = n
    BY <1>2, <1>3
  <1>. QED  BY <1>2, <1>4

(* Without a collision of ids, and if none is missing, Arelle keeps every *)
(* context and every unit: it drops one only for another of the same id.  *)
LEMMA LoadedWhole ==
  ASSUME NEW kind, NEW S, NEW F \in Seq(S), F = Filed(filing, Uris, kind), ~Repeated(IdsOf(F)),
         \A k \in DOMAIN Loaded(kind) : Loaded(kind)[k].is.id # None
  PROVE  Loaded(kind) = F /\ \A i \in DOMAIN F : F[i].is.id # None
  <1>. DEFINE P == {i \in DOMAIN F : \A j \in DOMAIN F : F[j].is.id = F[i].is.id =>
                       F[j].at = F[i].at \/ \E l \in DOMAIN F : F[l] = F[i] /\ j < l}
              Z == {i \in DOMAIN F : F[i].is.id = None}
  <1>1. Loaded(kind) = Pick(F, P)
    BY DEF Loaded, Selection
  <1>2. P \in SUBSET (DOMAIN F)
    OBVIOUS
  <1>3. \A i \in P : \E k \in DOMAIN Pick(F, P) : Pick(F, P)[k] = F[i]
    <2>. HIDE DEF P
    <2>. QED  BY <1>2, PickIs
  <1>4. PICK n \in Nat : DOMAIN F = 1..n
    OBVIOUS
  <1>5. Z = {}
    <2>1. SUFFICES ASSUME Z # {} PROVE FALSE
      OBVIOUS
    <2>2. \E m \in Z : \A j \in Z : j <= m
      <3>1. 1 \in Int /\ n \in Int /\ Z \in SUBSET (1..n)
        BY <1>4
      <3>2. IsFiniteSet(1..n)
        BY <3>1, FS_Interval
      <3>3. IsFiniteSet(Z)
        <4>. HIDE DEF Z
        <4>. QED  BY <3>1, <3>2, FS_Subset
      <3>4. PICK v : v = [x \in Z |-> x]
        OBVIOUS
      <3>. HIDE DEF Z
      <3>5. \A x \in Z : x \in Int /\ v[x] \in Int /\ v[x] = x
        BY <3>1, <3>4
      <3>6. PICK x \in Z : \A y \in Z : v[y] <= v[x]
        BY <2>1, <3>3, <3>5, GreatestOf
      <3>. QED  BY <3>5, <3>6
    <2>3. PICK m \in Z : \A j \in Z : j <= m
      BY <2>2
    <2>4. m \in DOMAIN F /\ F[m].is.id = None /\ m \in Int
      BY <1>4
    <2>5. ASSUME NEW j \in DOMAIN F, F[j].is.id = F[m].is.id
          PROVE  F[j].at = F[m].at \/ \E l \in DOMAIN F : F[l] = F[m] /\ j < l
      <3>1. j \in Z /\ j \in Int
        BY <1>4, <2>4, <2>5
      <3>2. j = m \/ j < m
        <4>1. j <= m
          BY <2>3, <3>1
        <4>. QED  BY <2>4, <3>1, <4>1
      <3>. QED  BY <2>4, <3>2
    <2>6. m \in P
      BY <2>4, <2>5
    <2>. HIDE DEF P, Z
    <2>7. PICK k \in DOMAIN Loaded(kind) : Loaded(kind)[k] = F[m]
      BY <1>1, <1>3, <2>6
    <2>. QED  BY <2>4, <2>7
  <1>6. \A i \in DOMAIN F : F[i].is.id # None
    BY <1>5
  <1>7. P = DOMAIN F
    <2>1. \A i, j \in DOMAIN F : F[j].is.id = F[i].is.id => i = j
      <3>. HIDE DEF P, Z
      <3>. QED  BY <1>6, IdsApart
    <2>. HIDE DEF Z
    <2>. QED  BY <2>1
  <1>8. Pick(F, DOMAIN F) = F
    BY PickAll
  <1>. HIDE DEF P, Z
  <1>. QED  BY <1>1, <1>6, <1>7, <1>8

(* The rows of the contexts: one for each that is filed, under its own id. *)
RowsRight(F, rows) ==
  /\ rows = [i \in DOMAIN F |-> [id |-> F[i].is.id, at |-> F[i].at]]
  /\ \A i \in DOMAIN F : F[i].is.id # None

(* Lists of the same length. *)
AsLong(s, t) ==
  /\ Len(t) \in Nat /\ Len(s) = Len(t)
  /\ s = [i \in 1..Len(t) |-> s[i]] /\ t = [i \in 1..Len(t) |-> t[i]]

(* The rows of the dimensions, or of the measures: what is filed, with the *)
(* place of the context or unit where the filed row has its id.            *)
DimensionRow(c, d, kind, m) == [context |-> c, dim |-> d, kind |-> kind, member |-> m]
DimensionsRight(F, dims, filed) ==
  /\ AsLong(dims, filed)
  /\ \A i \in 1..Len(filed) : \E k \in DOMAIN F : \E d, kind, m :
        dims[i] = DimensionRow(F[k].at, d, kind, m) /\ filed[i] = DimensionRow(F[k].is.id, d, kind, m)

MeasureRow(u, side, o) == [unit |-> u, side |-> side, ordinal |-> o]
MeasuresRight(F, ms, filed) ==
  /\ AsLong(ms, filed)
  /\ \A i \in 1..Len(filed) : \E k \in DOMAIN F : \E side, o :
        ms[i] = MeasureRow(F[k].at, side, o) /\ filed[i] = MeasureRow(F[k].is.id, side, o)

(* The tables of the contexts and of the units. *)
ContextsRight(f, r, ctxs, dims) ==
  LET F == Filed(f, Members(f, f.reports[r]), "contexts")
  IN  RowsRight(F, ctxs) /\ DimensionsRight(F, dims, FlattenSeq([k \in DOMAIN F |-> DimensionsOf(F[k])]))

UnitsRight(f, r, us, ms) ==
  LET F == Filed(f, Members(f, f.reports[r]), "units")
  IN  RowsRight(F, us) /\ MeasuresRight(F, ms, FlattenSeq([k \in DOMAIN F |-> MeasuresOf(F[k])]))

(* A pass over the contexts without a fatal issue has a row for each context *)
(* and each of its dimensions (extract.py _context_projection).              *)
LEMMA ContextsPass ==
  ASSUME IsFiling(filing), Scanned(filing, filing.reports[current]),
         ProjectContexts, NoFatal(issues')
  PROVE  ContextsRight(filing, current, contexts', dimensions')
  <1>. DEFINE F == Filed(filing, Uris, "contexts")  L == Loaded("contexts")
              P == {i \in DOMAIN L : ContextIsWhole(L[i])}
              S == Occurrences(filing, "contexts", ContextRecords)
  <1>1. /\ F \in Seq(S)
        /\ \A i \in DOMAIN F : IsFiled(filing, "contexts", F[i]) /\ F[i].is \in ContextRecords
    <2>1. \A u \in DOMAIN filing.docs : filing.docs[u]["contexts"] \in Seq(ContextRecords)
      BY DocumentIs
    <2>2. Uris \in Seq(DOMAIN filing.docs)
      BY DEF Scanned, Uris, Report
    <2>. QED  BY <2>1, <2>2, FiledIs
  <1>2. ~Repeated(IdsOf(F))
    BY DEF Scanned, Uris, Report, Collision
  <1>3. /\ contexts' = [k \in DOMAIN Pick(L, P) |-> [id |-> Pick(L, P)[k].is.id, at |-> Locator(filing, Pick(L, P)[k])]]
        /\ dimensions' = FlattenSeq([k \in DOMAIN Pick(L, P) |-> DimensionRows(Pick(L, P)[k])])
    BY DEF ProjectContexts, RowsOf, Selection
  <1>4. /\ \A k \in DOMAIN L : ContextIssues(L[k]) \subseteq issues'
        /\ \A k \in DOMAIN Pick(L, P) : DimensionIssues(Pick(L, P)[k]) \subseteq issues'
    BY DEF ProjectContexts, IssuesOf, Selection
  <1>. HIDE DEF F, L, P, S
  <1>5. ASSUME NEW k \in DOMAIN L PROVE ContextIsWhole(L[k])
    <2>1. NoFatal(ContextIssues(L[k]))
      BY <1>4, NoFatalOf
    <2>2. Located(filing, L[k])
      <3>1. SUFFICES ASSUME ~Located(filing, L[k]) PROVE FALSE
        OBVIOUS
      <3>2. ContextIssues(L[k]) = When(~Located(filing, L[k]), Incoherent("UNATTRIBUTABLE_SOURCE_DOCUMENT"))
        BY <3>1 DEF ContextIssues, Unlocated
      <3>. QED  BY <2>1, <3>1, <3>2, FatalIs
    <2>3. L[k].is.id # None
      <3>1. SUFFICES ASSUME L[k].is.id = None PROVE FALSE
        OBVIOUS
      <3>2. ContextIssues(L[k]) = {Incoherent("INCOHERENT_CONTEXT_IDENTITY")}
        BY <2>2, <3>1 DEF ContextIssues
      <3>. QED  BY <2>1, <3>2, FatalIs
    <2>4. /\ When(~PeriodIsWhole(L[k].is), Incoherent("INCOHERENT_CONTEXT_PERIOD")) \subseteq ContextIssues(L[k])
          /\ When(~L[k].is.entity, Incoherent("INCOHERENT_CONTEXT_ENTITY")) \subseteq ContextIssues(L[k])
      BY <2>2, <2>3 DEF ContextIssues
    <2>5. PeriodIsWhole(L[k].is) /\ L[k].is.entity
      BY <2>1, <2>4, FatalIs
    <2>. QED  BY <2>2, <2>3, <2>5 DEF ContextIsWhole
  <1>6. L = F /\ \A i \in DOMAIN F : F[i].is.id # None
    <2>1. \A k \in DOMAIN L : L[k].is.id # None
      BY <1>5 DEF ContextIsWhole
    <2>. QED  BY <1>1, <1>2, <2>1, LoadedWhole DEF F, L
  <1>7. P = DOMAIN F /\ Pick(L, P) = F
    <2>1. P = DOMAIN F
      BY <1>5, <1>6 DEF P
    <2>2. Pick(F, DOMAIN F) = F
      BY <1>1, PickAll
    <2>. QED  BY <1>6, <2>1, <2>2
  <1>8. \A i \in DOMAIN F : ContextIsWhole(F[i]) /\ Locator(filing, F[i]) = F[i].at
    <2>1. \A i \in DOMAIN F : ContextIsWhole(F[i]) /\ Located(filing, F[i])
      BY <1>5, <1>6 DEF ContextIsWhole
    <2>. QED  BY <1>1, <2>1, LocatorIs
  <1>9. contexts' = [i \in DOMAIN F |-> [id |-> F[i].is.id, at |-> F[i].at]]
    BY <1>3, <1>7, <1>8
  <1>. DEFINE ss == [k \in DOMAIN F |-> DimensionRows(F[k])]
              tt == [k \in DOMAIN F |-> DimensionsOf(F[k])]
              D == [dim : STRING, kind : STRING, member : STRING, inside : BOOLEAN]
  <1>10. dimensions' = FlattenSeq(ss)
    BY <1>3, <1>7
  <1>. DEFINE row(c, d) == DimensionRow(c, d.dim, d.kind, d.member)
              T == {row(F[i].at, d) : i \in DOMAIN F, d \in D}
              O == {row(F[i].is.id, d) : i \in DOMAIN F, d \in D}
  <1>11. ASSUME NEW i \in DOMAIN F
         PROVE  /\ DimensionRows(F[i]) \in Seq(T) /\ DimensionsOf(F[i]) \in Seq(O)
                /\ Len(DimensionRows(F[i])) = Len(DimensionsOf(F[i]))
                /\ \A j \in DOMAIN DimensionRows(F[i]) : \E d, kind, m :
                      /\ DimensionRows(F[i])[j] = DimensionRow(F[i].at, d, kind, m)
                      /\ DimensionsOf(F[i])[j] = DimensionRow(F[i].is.id, d, kind, m)
    <2>. DEFINE ds == F[i].is.dims
                W == {j \in DOMAIN ds : DimensionIsWhole(ds[j])}
    <2>1. ds \in Seq(D)
      BY <1>1 DEF ContextRecords
    <2>2. DimensionRows(F[i]) = [j \in DOMAIN Pick(ds, W) |-> row(F[i].at, Pick(ds, W)[j])]
      <3>1. Locator(filing, F[i]) = F[i].at
        BY <1>8
      <3>. QED  BY <3>1 DEF DimensionRows, RowsOf, Selection, DimensionRow
    <2>3. ASSUME NEW j \in DOMAIN ds PROVE DimensionIsWhole(ds[j])
      <3>1. When(~DimensionIsWhole(ds[j]), Incoherent("UNREPRESENTABLE_CONTEXT_DIMENSION")) \subseteq DimensionIssues(F[i])
        BY DEF DimensionIssues, IssuesOf
      <3>2. NoFatal(DimensionIssues(F[i]))
        <4>1. DimensionIssues(F[i]) \subseteq issues'
          BY <1>4, <1>7
        <4>. QED  BY <4>1, NoFatalOf
      <3>. QED  BY <3>1, <3>2, FatalIs
    <2>4. Pick(ds, W) = ds
      <3>1. W = DOMAIN ds
        BY <2>3
      <3>. HIDE DEF W, ds
      <3>. QED  BY <2>1, <3>1, PickAll
    <2>5. PICK n \in Nat : DOMAIN ds = 1..n /\ Len(ds) = n
      BY <2>1
    <2>6. \A j \in 1..n : row(F[i].at, ds[j]) \in T /\ row(F[i].is.id, ds[j]) \in O
      <3>1. \A j \in 1..n : ds[j] \in D
        <4>. HIDE DEF ds, D
        <4>. QED  BY <2>1, <2>5
      <3>. HIDE DEF ds, row, D
      <3>. QED  BY <3>1
    <2>. DEFINE g == [j \in 1..n |-> row(F[i].at, ds[j])]
                h == [j \in 1..n |-> row(F[i].is.id, ds[j])]
    <2>7. DimensionRows(F[i]) = g /\ DimensionsOf(F[i]) = h
      <3>1. DimensionRows(F[i]) = g
        <4>. HIDE DEF W
        <4>. QED  BY <2>2, <2>4, <2>5
      <3>2. DimensionsOf(F[i]) = h
        BY <2>5 DEF DimensionsOf, DimensionRow
      <3>. QED  BY <3>1, <3>2
    <2>8. g \in Seq(T) /\ Len(g) = n /\ DOMAIN g = 1..n
      <3>1. g = [j \in 1..n |-> g[j]] /\ \A j \in 1..n : g[j] \in T
        <4>. HIDE DEF T, O, row, ds
        <4>. QED  BY <2>6
      <3>. HIDE DEF g, T
      <3>. QED  BY <3>1, ListIs
    <2>9. h \in Seq(O) /\ Len(h) = n
      <3>1. h = [j \in 1..n |-> h[j]] /\ \A j \in 1..n : h[j] \in O
        <4>. HIDE DEF T, O, row, ds
        <4>. QED  BY <2>6
      <3>. HIDE DEF h, O
      <3>. QED  BY <3>1, ListIs
    <2>10. \A j \in 1..n : \E d, kind, m : g[j] = DimensionRow(F[i].at, d, kind, m) /\ h[j] = DimensionRow(F[i].is.id, d, kind, m)
      <3>1. \A j \in 1..n : /\ g[j] = DimensionRow(F[i].at, ds[j].dim, ds[j].kind, ds[j].member)
                             /\ h[j] = DimensionRow(F[i].is.id, ds[j].dim, ds[j].kind, ds[j].member)
        OBVIOUS
      <3>. HIDE DEF g, h
      <3>. QED  BY <3>1
    <2>. HIDE DEF g, h, T, O, D, W
    <2>. QED  BY <2>7, <2>8, <2>9, <2>10
  <1>12. PICK n \in Nat : DOMAIN F = 1..n
    BY <1>1
  <1>. HIDE DEF T, O, D, row
  <1>13. ss \in Seq(Seq(T)) /\ Len(ss) = n /\ DOMAIN ss = 1..n /\ \A k \in 1..n : ss[k] = DimensionRows(F[k])
    <2>1. ss = [k \in 1..n |-> ss[k]] /\ \A k \in 1..n : ss[k] \in Seq(T) /\ ss[k] = DimensionRows(F[k])
      BY <1>11, <1>12
    <2>. HIDE DEF ss
    <2>. QED  BY <2>1, ListIs
  <1>14. tt \in Seq(Seq(O)) /\ Len(tt) = n /\ \A k \in 1..n : tt[k] = DimensionsOf(F[k])
    <2>1. tt = [k \in 1..n |-> tt[k]] /\ \A k \in 1..n : tt[k] \in Seq(O) /\ tt[k] = DimensionsOf(F[k])
      BY <1>11, <1>12
    <2>. HIDE DEF tt
    <2>. QED  BY <2>1, ListIs
  <1>. DEFINE a == FlattenSeq(ss)  b == FlattenSeq(tt)
  <1>. HIDE DEF ss, tt
  <1>15. a \in Seq(T) /\ b \in Seq(O) /\ Len(a) = Len(b) /\ PairedIn(a, b, ss, tt)
    <2>1. SameLengths(ss, tt)
      BY <1>11, <1>12, <1>13, <1>14 DEF SameLengths
    <2>. QED  BY <1>13, <1>14, <2>1, FlattenAlike
  <1>. HIDE DEF a, b
  <1>16. AsLong(a, b) /\ DOMAIN a = 1..Len(b)
    BY <1>15 DEF AsLong
  <1>17. ASSUME NEW i \in 1..Len(b)
         PROVE  \E k \in DOMAIN F : \E d, kind, m : a[i] = DimensionRow(F[k].at, d, kind, m) /\ b[i] = DimensionRow(F[k].is.id, d, kind, m)
    <2>1. PairedIn(a, b, ss, tt) /\ i \in DOMAIN a /\ DOMAIN ss = 1..n
      BY <1>13, <1>15, <1>16
    <2>2. PICK k \in 1..n : \E j \in DOMAIN ss[k] : a[i] = ss[k][j] /\ b[i] = tt[k][j]
      BY <2>1 DEF PairedIn
    <2>3. ss[k] = DimensionRows(F[k]) /\ tt[k] = DimensionsOf(F[k]) /\ k \in DOMAIN F
      BY <1>12, <1>13, <1>14
    <2>4. PICK j \in DOMAIN DimensionRows(F[k]) : a[i] = DimensionRows(F[k])[j] /\ b[i] = DimensionsOf(F[k])[j]
      BY <2>2, <2>3
    <2>5. \E d, kind, m : /\ DimensionRows(F[k])[j] = DimensionRow(F[k].at, d, kind, m)
                          /\ DimensionsOf(F[k])[j] = DimensionRow(F[k].is.id, d, kind, m)
      BY <1>11, <2>3
    <2>. QED  BY <2>3, <2>4, <2>5
  <1>18. RowsRight(F, contexts') /\ DimensionsRight(F, a, b)
    BY <1>6, <1>9, <1>16, <1>17 DEF RowsRight, DimensionsRight
  <1>. QED  BY <1>10, <1>18 DEF ContextsRight, F, Uris, Report, tt, a, b

-----------------------------------------------------------------------------
(* The pass over the units.                                                *)

(* A pass over the units without a fatal issue has a row for each unit, with *)
(* all of its measures (extract.py _unit_projection).                        *)
LEMMA UnitsPass ==
  ASSUME IsFiling(filing), Scanned(filing, filing.reports[current]),
         ProjectUnits, NoFatal(issues')
  PROVE  UnitsRight(filing, current, units', measures')
  <1>. DEFINE F == Filed(filing, Uris, "units")  L == Loaded("units")
              P == {i \in DOMAIN L : UnitIsWhole(L[i])}
              S == Occurrences(filing, "units", UnitRecords)
  <1>1. /\ F \in Seq(S)
        /\ \A i \in DOMAIN F : IsFiled(filing, "units", F[i]) /\ F[i].is \in UnitRecords
    <2>1. \A u \in DOMAIN filing.docs : filing.docs[u]["units"] \in Seq(UnitRecords)
      BY DocumentIs
    <2>2. Uris \in Seq(DOMAIN filing.docs)
      BY DEF Scanned, Uris, Report
    <2>. QED  BY <2>1, <2>2, FiledIs
  <1>2. ~Repeated(IdsOf(F))
    BY DEF Scanned, Uris, Report, Collision
  <1>3. /\ units' = [k \in DOMAIN Pick(L, P) |-> [id |-> Pick(L, P)[k].is.id, at |-> Locator(filing, Pick(L, P)[k])]]
        /\ measures' = FlattenSeq([k \in DOMAIN Pick(L, P) |-> MeasureRows(Pick(L, P)[k])])
    BY DEF ProjectUnits, RowsOf, Selection
  <1>4. \A k \in DOMAIN L : UnitIssues(L[k]) \subseteq issues'
    BY DEF ProjectUnits, IssuesOf, Selection
  <1>. HIDE DEF F, L, P, S
  <1>5. ASSUME NEW k \in DOMAIN L PROVE UnitIsWhole(L[k]) /\ L[k].is.filed = L[k].is.resolved
    <2>1. NoFatal(UnitIssues(L[k]))
      BY <1>4, NoFatalOf
    <2>2. Located(filing, L[k])
      <3>1. SUFFICES ASSUME ~Located(filing, L[k]) PROVE FALSE
        OBVIOUS
      <3>2. UnitIssues(L[k]) = When(~Located(filing, L[k]), Incoherent("UNATTRIBUTABLE_SOURCE_DOCUMENT"))
        BY <3>1 DEF UnitIssues, Unlocated
      <3>. QED  BY <2>1, <3>1, <3>2, FatalIs
    <2>3. L[k].is.id # None
      <3>1. SUFFICES ASSUME L[k].is.id = None PROVE FALSE
        OBVIOUS
      <3>2. UnitIssues(L[k]) = {Incoherent("INCOHERENT_UNIT_IDENTITY")}
        BY <2>2, <3>1 DEF UnitIssues
      <3>. QED  BY <2>1, <3>2, FatalIs
    <2>4. When(L[k].is.resolved # L[k].is.filed, Incoherent("UNRESOLVED_UNIT_MEASURE")) \subseteq UnitIssues(L[k])
      BY <2>2, <2>3 DEF UnitIssues
    <2>5. L[k].is.resolved = L[k].is.filed
      BY <2>1, <2>4, FatalIs
    <2>. QED  BY <2>2, <2>3, <2>5 DEF UnitIsWhole
  <1>6. L = F /\ \A i \in DOMAIN F : F[i].is.id # None
    <2>1. \A k \in DOMAIN L : L[k].is.id # None
      BY <1>5 DEF UnitIsWhole
    <2>. QED  BY <1>1, <1>2, <2>1, LoadedWhole DEF F, L
  <1>7. P = DOMAIN F /\ Pick(L, P) = F
    <2>1. P = DOMAIN F
      BY <1>5, <1>6 DEF P
    <2>2. Pick(F, DOMAIN F) = F
      BY <1>1, PickAll
    <2>. QED  BY <1>6, <2>1, <2>2
  <1>8. \A i \in DOMAIN F : UnitIsWhole(F[i]) /\ Locator(filing, F[i]) = F[i].at
    <2>1. \A i \in DOMAIN F : UnitIsWhole(F[i]) /\ Located(filing, F[i])
      BY <1>5, <1>6 DEF UnitIsWhole
    <2>. QED  BY <1>1, <2>1, LocatorIs
  <1>9. units' = [i \in DOMAIN F |-> [id |-> F[i].is.id, at |-> F[i].at]]
    BY <1>3, <1>7, <1>8
  <1>10. RowsRight(F, units') /\ \A i \in DOMAIN F : F[i].is.filed = F[i].is.resolved
    BY <1>5, <1>6, <1>9 DEF RowsRight
  <1>. DEFINE ss == [k \in DOMAIN F |-> MeasureRows(F[k])]
              tt == [k \in DOMAIN F |-> MeasuresOf(F[k])]
              Sides == {"numerator", "denominator"}
              T == {MeasureRow(F[i].at, side, o) : i \in DOMAIN F, side \in Sides, o \in Int}
              O == {MeasureRow(F[i].is.id, side, o) : i \in DOMAIN F, side \in Sides, o \in Int}
  <1>11. measures' = FlattenSeq(ss)
    BY <1>3, <1>7
  <1>12. ASSUME NEW i \in DOMAIN F
         PROVE  /\ MeasureRows(F[i]) \in Seq(T) /\ MeasuresOf(F[i]) \in Seq(O)
                /\ Len(MeasureRows(F[i])) = Len(MeasuresOf(F[i]))
                /\ \A j \in DOMAIN MeasureRows(F[i]) : \E side, o :
                      /\ MeasureRows(F[i])[j] = MeasureRow(F[i].at, side, o)
                      /\ MeasuresOf(F[i])[j] = MeasureRow(F[i].is.id, side, o)
    <2>1. PICK p \in Nat, q \in Nat : F[i].is.filed = <<p, q>>
      BY <1>1 DEF UnitRecords
    <2>. DEFINE side(j) == IF j <= p THEN "numerator" ELSE "denominator"
                o(j) == IF j <= p THEN j ELSE j - p
                g == [j \in 1..(p + q) |-> MeasureRow(F[i].at, side(j), o(j))]
                h == [j \in 1..(p + q) |-> MeasureRow(F[i].is.id, side(j), o(j))]
    <2>2. /\ F[i].is.filed[1] = p /\ F[i].is.filed[2] = q /\ F[i].is.resolved[1] = p /\ F[i].is.resolved[2] = q
          /\ Locator(filing, F[i]) = F[i].at
      BY <1>8, <1>10, <2>1
    <2>3. MeasureRows(F[i]) = g
      BY <2>2 DEF MeasureRows, MeasureRow
    <2>4. MeasuresOf(F[i]) = h
      BY <2>2 DEF MeasuresOf, MeasureRow
    <2>5. \A j \in 1..(p + q) : side(j) \in Sides /\ o(j) \in Int
      OBVIOUS
    <2>. HIDE DEF side, o
    <2>6. \A j \in 1..(p + q) : g[j] = MeasureRow(F[i].at, side(j), o(j)) /\ h[j] = MeasureRow(F[i].is.id, side(j), o(j))
      OBVIOUS
    <2>7. g = [j \in 1..(p + q) |-> g[j]] /\ h = [j \in 1..(p + q) |-> h[j]]
      OBVIOUS
    <2>. HIDE DEF g, h
    <2>8. \A j \in 1..(p + q) : g[j] \in T /\ h[j] \in O
      BY <2>5, <2>6
    <2>. HIDE DEF T, O, Sides
    <2>9. p + q \in Nat
      OBVIOUS
    <2>10. g \in Seq(T) /\ Len(g) = p + q /\ DOMAIN g = 1..(p + q)
      BY <2>7, <2>8, <2>9, ListIs
    <2>11. h \in Seq(O) /\ Len(h) = p + q
      BY <2>7, <2>8, <2>9, ListIs
    <2>. QED  BY <2>3, <2>4, <2>6, <2>10, <2>11
  <1>13. PICK n \in Nat : DOMAIN F = 1..n
    BY <1>1
  <1>. HIDE DEF T, O, Sides
  <1>14. ss \in Seq(Seq(T)) /\ Len(ss) = n /\ DOMAIN ss = 1..n /\ \A k \in 1..n : ss[k] = MeasureRows(F[k])
    <2>1. ss = [k \in 1..n |-> ss[k]] /\ \A k \in 1..n : ss[k] \in Seq(T) /\ ss[k] = MeasureRows(F[k])
      BY <1>12, <1>13
    <2>. HIDE DEF ss
    <2>. QED  BY <2>1, ListIs
  <1>15. tt \in Seq(Seq(O)) /\ Len(tt) = n /\ \A k \in 1..n : tt[k] = MeasuresOf(F[k])
    <2>1. tt = [k \in 1..n |-> tt[k]] /\ \A k \in 1..n : tt[k] \in Seq(O) /\ tt[k] = MeasuresOf(F[k])
      BY <1>12, <1>13
    <2>. HIDE DEF tt
    <2>. QED  BY <2>1, ListIs
  <1>. DEFINE a == FlattenSeq(ss)  b == FlattenSeq(tt)
  <1>. HIDE DEF ss, tt
  <1>16. a \in Seq(T) /\ b \in Seq(O) /\ Len(a) = Len(b) /\ PairedIn(a, b, ss, tt)
    <2>1. SameLengths(ss, tt)
      BY <1>12, <1>13, <1>14, <1>15 DEF SameLengths
    <2>. QED  BY <1>14, <1>15, <2>1, FlattenAlike
  <1>. HIDE DEF a, b
  <1>17. AsLong(a, b) /\ DOMAIN a = 1..Len(b)
    BY <1>16 DEF AsLong
  <1>18. ASSUME NEW i \in 1..Len(b)
         PROVE  \E k \in DOMAIN F : \E side, o : a[i] = MeasureRow(F[k].at, side, o) /\ b[i] = MeasureRow(F[k].is.id, side, o)
    <2>1. PairedIn(a, b, ss, tt) /\ i \in DOMAIN a /\ DOMAIN ss = 1..n
      BY <1>14, <1>16, <1>17
    <2>2. PICK k \in 1..n : \E j \in DOMAIN ss[k] : a[i] = ss[k][j] /\ b[i] = tt[k][j]
      BY <2>1 DEF PairedIn
    <2>3. ss[k] = MeasureRows(F[k]) /\ tt[k] = MeasuresOf(F[k]) /\ k \in DOMAIN F
      BY <1>13, <1>14, <1>15
    <2>4. PICK j \in DOMAIN MeasureRows(F[k]) : a[i] = MeasureRows(F[k])[j] /\ b[i] = MeasuresOf(F[k])[j]
      BY <2>2, <2>3
    <2>5. \E side, o : /\ MeasureRows(F[k])[j] = MeasureRow(F[k].at, side, o)
                       /\ MeasuresOf(F[k])[j] = MeasureRow(F[k].is.id, side, o)
      BY <1>12, <2>3
    <2>. QED  BY <2>3, <2>4, <2>5
  <1>19. MeasuresRight(F, a, b)
    BY <1>17, <1>18 DEF MeasuresRight
  <1>. QED  BY <1>10, <1>11, <1>19 DEF UnitsRight, F, Uris, Report, tt, a, b

-----------------------------------------------------------------------------
(* The pass over the facts.                                                *)

(* The codes of some issues. *)
Codes(some) == {i.code : i \in some}

(* A fact has the place, concept, context, unit and nil of an item. *)
FactMatches(fact, x, n, ctxs, us) ==
  /\ fact.order = n - 1 /\ fact.at = x.at /\ fact.concept = x.is.concept
  /\ fact.context = RowFor(ctxs, x.is.context) /\ fact.context # None
  /\ fact.unit # None => fact.unit = RowFor(us, x.is.unit)
  /\ fact.status = "nil" <=> x.is.nil

(* A row of the facts. *)
FactShape(x) ==
  x = [order |-> x.order, at |-> x.at, concept |-> x.concept, context |-> x.context,
       unit |-> x.unit, status |-> x.status, value |-> x.value, lexical |-> x.lexical]

(* What Arelle makes of an item: a value, or why there is none; and its text. *)
ItemIs(item) ==
  /\ item.value \in {"exact", "inexact", "none", "invalid", "unresolved"}
  /\ item.lexical \in {"text", "unavailable", "unread"}

(* What a fact lacks of an item is accounted for, among some issues. *)
FactSpoken(fact, x, some) == IsAccountedFor(fact, x.is, Codes(some))

(* A function over the first naturals. *)
IsList(s) == Len(s) \in Nat /\ s = [i \in 1..Len(s) |-> s[i]]

(* The table of the facts. *)
FactsRight(f, r, ctxs, us, fs, some) ==
  LET T == Selected(f, Members(f, f.reports[r]))
  IN  /\ IsList(fs) /\ Len(fs) <= Len(T)
      /\ Len(fs) = Len(T) =>
            \A i \in 1..Len(T) : FactMatches(fs[i], T[i], i, ctxs, us) /\ FactSpoken(fs[i], T[i], some)
      /\ \A i \in 1..Len(fs) : FactShape(fs[i])

(* The items of a report, and of them the ones of the target. *)
LEMMA ItemsAre ==
  ASSUME NEW f, IsFiling(f), NEW uris \in Seq(DOMAIN f.docs)
  PROVE  /\ Filed(f, uris, "items") \in Seq(Occurrences(f, "items", ItemRecords))
         /\ Selected(f, uris) \in Seq(Occurrences(f, "items", ItemRecords))
         /\ Len(Selected(f, uris)) <= Len(Filed(f, uris, "items"))
         /\ \A i \in DOMAIN Selected(f, uris) :
               IsFiled(f, "items", Selected(f, uris)[i]) /\ Selected(f, uris)[i].is \in ItemRecords
  <1>. DEFINE I == Filed(f, uris, "items")  P == {i \in DOMAIN I : I[i].is.target = DefaultTarget}
              S == Occurrences(f, "items", ItemRecords)
  <1>1. I \in Seq(S) /\ \A i \in DOMAIN I : IsFiled(f, "items", I[i]) /\ I[i].is \in ItemRecords
    <2>1. \A u \in DOMAIN f.docs : f.docs[u]["items"] \in Seq(ItemRecords)
      BY DocumentIs
    <2>. QED  BY <2>1, FiledIs
  <1>2. Selected(f, uris) = Pick(I, P)
    BY DEF Selected, Selection
  <1>3. P \in SUBSET (DOMAIN I)
    OBVIOUS
  <1>. HIDE DEF I, P, S
  <1>4. /\ Pick(I, P) \in Seq(S) /\ Len(Pick(I, P)) <= Len(I)
        /\ \A k \in DOMAIN Pick(I, P) : Nth(P, k) \in P /\ Pick(I, P)[k] = I[Nth(P, k)]
    BY <1>1, <1>3, PickIs
  <1>5. \A k \in DOMAIN Pick(I, P) : IsFiled(f, "items", Pick(I, P)[k]) /\ Pick(I, P)[k].is \in ItemRecords
    BY <1>1, <1>3, <1>4
  <1>. QED  BY <1>1, <1>2, <1>4, <1>5 DEF I, S

(* The facts that Arelle made of them. *)
LEMMA DefinedAre ==
  ASSUME IsFiling(filing), Uris \in Seq(DOMAIN filing.docs)
  PROVE  /\ Defined \in Seq(Occurrences(filing, "items", ItemRecords))
         /\ Len(Defined) <= Len(Selected(filing, Uris))
         /\ Len(Defined) = Len(Selected(filing, Uris)) => Defined = Selected(filing, Uris)
  <1>. DEFINE I == Filed(filing, Uris, "items")
              P == {i \in DOMAIN I : I[i].is.target = DefaultTarget}
              Q == {i \in DOMAIN I : I[i].is.target = DefaultTarget /\ I[i].is.loaded}
              S == Occurrences(filing, "items", ItemRecords)
              L == LoadedFacts
              W == {i \in DOMAIN L : L[i].is.concept \in Declared}
  <1>1. I \in Seq(S)
    BY ItemsAre
  <1>2. /\ Selected(filing, Uris) = Pick(I, P) /\ L = Pick(I, Q) /\ Defined = Pick(L, W)
        /\ P \in SUBSET (DOMAIN I) /\ Q \in SUBSET (DOMAIN I) /\ Q \subseteq P /\ W \in SUBSET (DOMAIN L)
    <2>1. Selected(filing, Uris) = Pick(I, P)
      BY DEF Selected, Selection
    <2>2. L = Pick(I, Q)
      BY DEF LoadedFacts, Selection
    <2>3. Defined = Pick(L, W)
      BY DEF Defined, Selection
    <2>4. P \in SUBSET (DOMAIN I) /\ Q \in SUBSET (DOMAIN I) /\ Q \subseteq P /\ W \in SUBSET (DOMAIN L)
      OBVIOUS
    <2>. QED  BY <2>1, <2>2, <2>3, <2>4
  <1>. HIDE DEF I, P, Q, S, L, W
  <1>3. Pick(I, P) \in Seq(S) /\ Len(Pick(I, P)) = Cardinality(P)
    BY <1>1, <1>2, PickIs
  <1>4. L \in Seq(S) /\ Len(L) = Cardinality(Q)
    BY <1>1, <1>2, PickIs
  <1>5. Pick(L, W) \in Seq(S) /\ Len(Pick(L, W)) <= Len(L)
    BY <1>2, <1>4, PickIs
  <1>6. Cardinality(Q) <= Cardinality(P) /\ (Cardinality(Q) = Cardinality(P) => Q = P)
    <2>1. PICK n \in Nat : DOMAIN I = 1..n
      BY <1>1
    <2>2. 1 \in Int /\ n \in Int
      OBVIOUS
    <2>3. IsFiniteSet(1..n)
      BY <2>2, FS_Interval
    <2>4. IsFiniteSet(P)
      BY <1>2, <2>1, <2>3, FS_Subset
    <2>5. Q \in SUBSET P
      BY <1>2
    <2>. QED  BY <2>4, <2>5, FS_Subset
  <1>7. Len(L) \in Nat /\ Len(Pick(L, W)) \in Nat /\ Len(Pick(I, P)) \in Nat
    BY <1>3, <1>4, <1>5
  <1>8. Len(Pick(L, W)) <= Len(Pick(I, P))
    BY <1>3, <1>4, <1>5, <1>6, <1>7
  <1>9. ASSUME Len(Pick(L, W)) = Len(Pick(I, P)) PROVE Pick(L, W) = Pick(I, P)
    <2>1. Len(Pick(L, W)) = Len(L) /\ Q = P
      BY <1>3, <1>4, <1>5, <1>6, <1>7, <1>9
    <2>2. Pick(L, W) = L
      BY <1>2, <1>4, <2>1, PickWhole
    <2>. QED  BY <1>2, <2>1, <2>2
  <1>. QED  BY <1>2, <1>5, <1>8, <1>9 DEF S

(* An issue that is recorded has its code among the codes. *)
LEMMA CodeOf ==
  \A some, c, code : When(c, Incomplete(code)) \subseteq some /\ c => code \in Codes(some)
  <1>1. \A code : Incomplete(code).code = code
    BY DEF Incomplete
  <1>. QED  BY <1>1 DEF When, Codes

(* An item without a fatal issue has a row, under its own context, and what *)
(* the row lacks is accounted for (extract.py _fact_record, _fact_value).   *)
LEMMA FactPass ==
  ASSUME NEW x, NoFatal(FactIssues(x)), NEW n, ItemIs(x.is)
  PROVE  /\ FactIsWhole(x) /\ FactSpoken(FactRow(x, n), x, FactIssues(x)) /\ FactShape(FactRow(x, n))
         /\ FactRow(x, n).order = n /\ FactRow(x, n).at = Locator(filing, x) /\ FactRow(x, n).concept = x.is.concept
         /\ FactRow(x, n).context = RowFor(contexts, x.is.context)
         /\ FactRow(x, n).unit # None => FactRow(x, n).unit = RowFor(units, x.is.unit)
         /\ FactRow(x, n).status = "nil" <=> x.is.nil
  <1>. DEFINE item == x.is  iss == FactIssues(x)
              third == When(item.kind = "fraction", Incomplete("UNSUPPORTED_FRACTION_FACT"))
                \cup When(LosesUnit(item), Incoherent("UNRESOLVED_FACT_UNIT_ROW"))
                \cup (IF LosesUnit(item) THEN {} ELSE
                      When(LacksUnit(item), Incomplete("UNRESOLVED_REQUIRED_UNIT"))
                      \cup When(~IsNumeric(item) /\ item.unit # None,
                                Incomplete("UNEXPECTED_UNIT_REFERENCE"))
                      \cup ValueIssues(item) \cup InlineIssues(item)
                      \cup When(item.lexical = "unavailable", Incomplete("UNAVAILABLE_FACT_LEXICAL_VALUE")))
  <1>1. iss = CASE ~Located(filing, x) ->
                Unlocated(filing, x) \cup {Incoherent("UNRESOLVED_FACT_CONCEPT")}
          [] Located(filing, x) /\ RowFor(contexts, item.context) = None ->
                {Incoherent("UNRESOLVED_FACT_CONTEXT"), Incoherent("UNRESOLVED_FACT_CONCEPT")}
          [] OTHER -> third
    BY DEF FactIssues
  <1>2. NoFatal(iss)
    OBVIOUS
  <1>. HIDE DEF iss, third
  <1>3. Located(filing, x)
    <2>1. SUFFICES ASSUME ~Located(filing, x) PROVE FALSE
      OBVIOUS
    <2>2. Incoherent("UNRESOLVED_FACT_CONCEPT") \in iss
      BY <1>1, <2>1
    <2>. QED  BY <1>2, <2>2, FatalIs
  <1>4. RowFor(contexts, item.context) # None
    <2>1. SUFFICES ASSUME RowFor(contexts, item.context) = None PROVE FALSE
      OBVIOUS
    <2>2. Incoherent("UNRESOLVED_FACT_CONCEPT") \in iss
      BY <1>1, <1>3, <2>1
    <2>. QED  BY <1>2, <2>2, FatalIs
  <1>5. iss = third
    BY <1>1, <1>3, <1>4
  <1>6. ~LosesUnit(item)
    <2>1. When(LosesUnit(item), Incoherent("UNRESOLVED_FACT_UNIT_ROW")) \subseteq iss
      BY <1>5 DEF third
    <2>. QED  BY <1>2, <2>1, FatalIs
  <1>7. FactIsWhole(x)
    BY <1>3, <1>4, <1>6 DEF FactIsWhole
  <1>. DEFINE lossy == IF IsNumeric(item) THEN "INEXACT_NUMERIC_VALUE" ELSE "UNSUPPORTED_RESOLVED_VALUE"
  <1>8. /\ When(LacksUnit(item), Incomplete("UNRESOLVED_REQUIRED_UNIT")) \subseteq iss
        /\ When(item.lexical = "unavailable", Incomplete("UNAVAILABLE_FACT_LEXICAL_VALUE")) \subseteq iss
        /\ When(~item.nil /\ item.value = "inexact", Incomplete(lossy)) \subseteq iss
    BY <1>5, <1>6 DEF third, ValueIssues
  <1>. HIDE DEF lossy
  <1>9. /\ LacksUnit(item) => "UNRESOLVED_REQUIRED_UNIT" \in Codes(iss)
        /\ item.lexical = "unavailable" => "UNAVAILABLE_FACT_LEXICAL_VALUE" \in Codes(iss)
        /\ ~item.nil /\ item.value = "inexact" => lossy \in Codes(iss)
    BY <1>8, CodeOf
  <1>. DEFINE row == FactRow(x, n)
  <1>10. row = [order |-> n, at |-> Locator(filing, x), concept |-> x.is.concept,
                context |-> RowFor(contexts, x.is.context),
                unit |-> IF IsNumeric(x.is) /\ ~LacksUnit(x.is) THEN RowFor(units, x.is.unit) ELSE None,
                status |-> ValueStatus(x.is),
                value |-> ~x.is.nil /\ x.is.value = "exact", lexical |-> x.is.lexical = "text"]
    BY DEF FactRow
  <1>. HIDE DEF row
  <1>11. FactShape(row)
    BY <1>10 DEF FactShape
  <1>12. /\ row.order = n /\ row.at = Locator(filing, x) /\ row.concept = x.is.concept
         /\ row.context = RowFor(contexts, x.is.context)
         /\ row.unit = (IF IsNumeric(x.is) /\ ~LacksUnit(x.is) THEN RowFor(units, x.is.unit) ELSE None)
         /\ row.status = ValueStatus(item)
    BY <1>10
  <1>13. (row.value <=> ~x.is.nil /\ x.is.value = "exact") /\ (row.lexical <=> x.is.lexical = "text")
    BY <1>10
  <1>14. /\ ValueStatus(item) = "nil" <=> item.nil
         /\ ValueStatus(item) = "unresolved" /\ ~LacksUnit(item) => item.value = "unresolved"
         /\ ValueStatus(item) = "invalid" => item.value = "invalid"
         /\ item.value \in {"invalid", "unresolved"} => ValueStatus(item) \in {"nil", "invalid", "unresolved"}
    BY DEF ValueStatus
  <1>15. item.value \in {"exact", "inexact", "none", "invalid", "unresolved"} /\ item.lexical \in {"text", "unavailable", "unread"}
    BY DEF ItemIs
  <1>16. row.value \/ row.status \in {"nil", "invalid", "unresolved"} \/ lossy \in Codes(iss) \/ item.value = "none"
    BY <1>9, <1>12, <1>13, <1>14, <1>15
  <1>17. row.lexical \/ "UNAVAILABLE_FACT_LEXICAL_VALUE" \in Codes(iss) \/ item.lexical = "unread"
    BY <1>9, <1>13, <1>15
  <1>18. /\ row.status = "unresolved" => item.value = "unresolved" \/ "UNRESOLVED_REQUIRED_UNIT" \in Codes(iss)
         /\ row.status = "invalid" => item.value = "invalid"
    BY <1>9, <1>12, <1>14
  <1>19. FactSpoken(row, x, iss)
    BY <1>16, <1>17, <1>18 DEF FactSpoken, IsAccountedFor, lossy
  <1>. QED  BY <1>7, <1>11, <1>12, <1>14, <1>19 DEF row, iss

(* A pass over the facts without a fatal issue has a row for each fact that     *)
(* Arelle defined, in order; if those are all items of the target, the rows are *)
(* the rows of the items.                                                       *)
LEMMA FactsPass ==
  ASSUME IsFiling(filing), Scanned(filing, filing.reports[current]),
         ProjectFacts, NoFatal(issues')
  PROVE  FactsRight(filing, current, contexts, units, facts', issues')
  <1>. DEFINE D == Defined  T == Selected(filing, Uris)
              S == Occurrences(filing, "items", ItemRecords)
              rows == [i \in DOMAIN D |-> [whole |-> FactIsWhole(D[i]), row |-> FactRow(D[i], i - 1)]]
              P == {i \in DOMAIN rows : rows[i].whole}
  <1>1. Uris \in Seq(DOMAIN filing.docs)
    BY DEF Scanned, Uris, Report
  <1>2. D \in Seq(S) /\ Len(D) <= Len(T) /\ (Len(D) = Len(T) => D = T)
    BY <1>1, DefinedAre
  <1>3. T \in Seq(S) /\ \A i \in DOMAIN T : IsFiled(filing, "items", T[i]) /\ T[i].is \in ItemRecords
    BY <1>1, ItemsAre
  <1>4. facts' = [k \in DOMAIN Pick(rows, P) |-> Pick(rows, P)[k].row]
    BY DEF ProjectFacts, FactRows, RowsOf, Selection
  <1>5. \A i \in DOMAIN D : FactIssues(D[i]) \subseteq issues'
    BY DEF ProjectFacts, IssuesOf
  <1>. HIDE DEF D, T, S
  <1>6. PICK n \in Nat : DOMAIN D = 1..n /\ Len(D) = n
    BY <1>2
  <1>7. ASSUME NEW i \in 1..n PROVE NoFatal(FactIssues(D[i])) /\ FactIsWhole(D[i]) /\ ItemIs(D[i].is)
    <2>1. NoFatal(FactIssues(D[i]))
      BY <1>5, <1>6, NoFatalOf
    <2>2. D[i].is \in ItemRecords
      <3>1. D[i] \in S
        BY <1>2, <1>6
      <3>. QED  BY <3>1 DEF S, Occurrences
    <2>3. ItemIs(D[i].is)
      BY <2>2 DEF ItemRecords, ItemIs
    <2>. QED  BY <2>1, <2>3, FactPass
  <1>8. P = DOMAIN rows /\ DOMAIN rows = 1..n /\ \A i \in 1..n : rows[i].row = FactRow(D[i], i - 1)
    BY <1>6, <1>7
  <1>9. Pick(rows, P) = rows
    <2>. DEFINE V == {rows[i] : i \in 1..n}
    <2>1. rows = [i \in 1..n |-> rows[i]] /\ \A i \in 1..n : rows[i] \in V
      BY <1>6
    <2>. HIDE DEF rows, V, P
    <2>2. rows \in Seq(V)
      BY <2>1, ListIs
    <2>. QED  BY <1>8, <2>2, PickAll
  <1>. HIDE DEF rows, P
  <1>10. facts' = [i \in 1..n |-> FactRow(D[i], i - 1)]
    BY <1>4, <1>8, <1>9
  <1>11. facts' = [i \in 1..n |-> facts'[i]] /\ \A i \in 1..n : facts'[i] = FactRow(D[i], i - 1)
    BY <1>10
  <1>12. Len(facts') = n
    <2>. DEFINE V == {facts'[i] : i \in 1..n}
    <2>1. \A i \in 1..n : facts'[i] \in V
      OBVIOUS
    <2>. HIDE DEF V
    <2>. QED  BY <1>11, <2>1, ListIs
  <1>13. IsList(facts') /\ Len(facts') <= Len(T)
    BY <1>2, <1>6, <1>11, <1>12 DEF IsList
  <1>14. ASSUME NEW i \in 1..n PROVE FactShape(facts'[i]) /\ FactSpoken(facts'[i], D[i], issues')
    <2>1. FactShape(FactRow(D[i], i - 1)) /\ FactSpoken(FactRow(D[i], i - 1), D[i], FactIssues(D[i]))
      BY <1>7, FactPass
    <2>2. Codes(FactIssues(D[i])) \subseteq Codes(issues')
      BY <1>5, <1>6 DEF Codes
    <2>3. FactSpoken(FactRow(D[i], i - 1), D[i], issues')
      BY <2>1, <2>2 DEF FactSpoken, IsAccountedFor
    <2>. QED  BY <1>11, <2>1, <2>3
  <1>15. ASSUME Len(facts') = Len(T), NEW i \in 1..Len(T) PROVE FactMatches(facts'[i], T[i], i, contexts, units) /\ FactSpoken(facts'[i], T[i], issues')
    <2>1. D = T /\ i \in 1..n /\ i \in DOMAIN T
      BY <1>2, <1>6, <1>12, <1>15
    <2>2. /\ FactIsWhole(T[i])
          /\ facts'[i].order = i - 1 /\ facts'[i].at = Locator(filing, T[i]) /\ facts'[i].concept = T[i].is.concept
          /\ facts'[i].context = RowFor(contexts, T[i].is.context)
          /\ facts'[i].unit # None => facts'[i].unit = RowFor(units, T[i].is.unit)
          /\ facts'[i].status = "nil" <=> T[i].is.nil
      <3>1. NoFatal(FactIssues(T[i])) /\ ItemIs(T[i].is) /\ facts'[i] = FactRow(T[i], i - 1)
        BY <1>7, <1>11, <2>1
      <3>. QED  BY <3>1, FactPass
    <2>3. Located(filing, T[i]) /\ facts'[i].context # None
      BY <2>2 DEF FactIsWhole
    <2>4. Locator(filing, T[i]) = T[i].at
      BY <1>3, <2>1, <2>3, LocatorIs
    <2>5. FactSpoken(facts'[i], T[i], issues')
      BY <1>14, <2>1
    <2>. QED  BY <2>2, <2>3, <2>4, <2>5 DEF FactMatches
  <1>16. /\ Len(facts') = Len(T) =>
               \A i \in 1..Len(T) : FactMatches(facts'[i], T[i], i, contexts, units) /\ FactSpoken(facts'[i], T[i], issues')
         /\ \A i \in 1..Len(facts') : FactShape(facts'[i])
    BY <1>12, <1>14, <1>15
  <1>. QED  BY <1>13, <1>16 DEF FactsRight, T, Uris, Report

(* What the networks of concepts of a filing relate. *)
Related(f) ==
  FlattenSeq([n \in DOMAIN f.nets |-> IF IsConceptNetwork(f.nets[n]) THEN f.nets[n].rels ELSE <<>>])

(* The table of the concept relationships. *)
NetworksRight(f, rows, some) ==
  /\ IsList(rows) /\ Len(rows) = Len(Related(f)) /\ Len(Related(f)) \in Nat /\ DOMAIN Related(f) = 1..Len(Related(f))
  /\ \A i \in 1..Len(rows) : rows[i].from = Related(f)[i].from /\ rows[i].to = Related(f)[i].to
  /\ \A n \in DOMAIN f.nets :
        Family(f.nets[n]) \in IdentityFamilies
        \/ {"EXCLUDED_ARCROLE", "DEFERRED_ARCROLE", "UNSUPPORTED_ARCROLE"} \cap Codes(some) # {}

(* A base set without a fatal issue is read whole if it relates concepts, and *)
(* an issue names it if it is of no family that is kept.                      *)
LEMMA NetworkPass ==
  ASSUME NEW net \in NetworkRecords, NoFatal(NetworkIssues(net))
  PROVE  /\ IsConceptNetwork(net) => IsRead(net) /\ \A k \in DOMAIN net.rels : RelationshipIsWhole(net, net.rels[k])
         /\ Family(net) \in IdentityFamilies
            \/ {"EXCLUDED_ARCROLE", "DEFERRED_ARCROLE", "UNSUPPORTED_ARCROLE"} \cap Codes(NetworkIssues(net)) # {}
  <1>. DEFINE iss == NetworkIssues(net)
              other == CASE Family(net) = "excluded" -> "EXCLUDED_ARCROLE"
                                [] Family(net) = "deferred" -> "DEFERRED_ARCROLE"
                                [] OTHER -> "UNSUPPORTED_ARCROLE"
  <1>1. iss = CASE Family(net) \in IdentityFamilies /\ ~net.named -> {Incomplete("INVALID_BASE_SET_QNAME")}
      [] (Family(net) \notin IdentityFamilies \/ net.named) /\ ~net.loads ->
            {Problem(net, "RELATIONSHIP_SET_LOAD_FAILED")}
      [] IsRead(net) -> UNION {RelationshipIssues(net, net.rels[k]) : k \in DOMAIN net.rels}
      [] OTHER -> {Incomplete(other)}
    BY DEF NetworkIssues, IssuesOf
  <1>2. NoFatal(iss)
    OBVIOUS
  <1>3. \A code : code \notin NonFatal => Incomplete(code).severity = "fatal"
    <2>1. "EXCLUDED_ARCROLE" \in NonFatal
      BY DEF NonFatal
    <2>. QED  BY <2>1 DEF Incomplete
  <1>4. "INVALID_BASE_SET_QNAME" \notin NonFatal /\ "RELATIONSHIP_SET_LOAD_FAILED" \notin NonFatal
    BY DEF NonFatal
  <1>. HIDE DEF iss, other
  <1>5. ~(Family(net) \in IdentityFamilies /\ ~net.named)
    <2>1. SUFFICES ASSUME Family(net) \in IdentityFamilies, ~net.named PROVE FALSE
      OBVIOUS
    <2>2. Incomplete("INVALID_BASE_SET_QNAME") \in iss
      BY <1>1, <2>1 DEF IsRead
    <2>. QED  BY <1>2, <1>3, <1>4, <2>2 DEF NoFatal
  <1>6. net.loads
    <2>1. SUFFICES ASSUME ~net.loads PROVE FALSE
      OBVIOUS
    <2>2. Problem(net, "RELATIONSHIP_SET_LOAD_FAILED") \in iss
      BY <1>1, <1>5, <2>1 DEF IsRead
    <2>3. Problem(net, "RELATIONSHIP_SET_LOAD_FAILED").severity = "fatal"
      BY <1>3, <1>4 DEF Problem, Incoherent
    <2>. QED  BY <1>2, <2>2, <2>3 DEF NoFatal
  <1>7. ASSUME IsConceptNetwork(net)
        PROVE  IsRead(net) /\ \A k \in DOMAIN net.rels : RelationshipIsWhole(net, net.rels[k])
    <2>1. IsRead(net)
      BY <1>5, <1>6, <1>7 DEF IsRead, IsConceptNetwork, IdentityFamilies
    <2>2. iss = UNION {RelationshipIssues(net, net.rels[k]) : k \in DOMAIN net.rels}
      BY <1>1, <1>5, <1>6, <2>1
    <2>3. ASSUME NEW k \in DOMAIN net.rels PROVE RelationshipIsWhole(net, net.rels[k])
      <3>. DEFINE rel == net.rels[k]  some == RelationshipIssues(net, rel)
      <3>1. NoFatal(some)
        <4>1. some \subseteq iss
          BY <2>2
        <4>. QED  BY <1>2, <4>1, NoFatalOf
      <3>2. \A code : Problem(net, code) = Incoherent(code)
        BY <1>7 DEF Problem
      <3>. DEFINE whole == {Incomplete(code) : code \in rel.attributes \cap ArcAttributes}
                 \cup When(net.arcrole = "concept-reference" /\ ~rel.parts,
                           Incomplete("UNPRESERVED_REFERENCE_PART"))
      <3>3. some = CASE ~rel.role -> {Problem(net, "MISSING_NETWORK_ROLE")}
      [] rel.role /\ ~rel.arc -> {Problem(net, "UNAVAILABLE_ARC_OCCURRENCE")}
      [] rel.role /\ rel.arc /\ ~Located(filing, rel) -> Unlocated(filing, rel)
      [] OTHER ->
            IF RelationshipIsWhole(net, rel) THEN whole
            ELSE {Problem(net, IF IsConceptNetwork(net) \/ rel.from \notin Declared
                               THEN "ENDPOINT_FAMILY_MISMATCH" ELSE "UNSUPPORTED_RESOURCE_CLASS")}
        BY DEF RelationshipIssues
      <3>. HIDE DEF rel, some, whole
      <3>4. rel.role
        <4>1. SUFFICES ASSUME ~rel.role PROVE FALSE
          OBVIOUS
        <4>2. Incoherent("MISSING_NETWORK_ROLE") \in some
          BY <3>2, <3>3, <4>1
        <4>. QED  BY <3>1, <4>2, FatalIs
      <3>5. rel.arc
        <4>1. SUFFICES ASSUME ~rel.arc PROVE FALSE
          OBVIOUS
        <4>2. Incoherent("UNAVAILABLE_ARC_OCCURRENCE") \in some
          BY <3>2, <3>3, <3>4, <4>1
        <4>. QED  BY <3>1, <4>2, FatalIs
      <3>6. Located(filing, rel)
        <4>1. SUFFICES ASSUME ~Located(filing, rel) PROVE FALSE
          OBVIOUS
        <4>2. some = Unlocated(filing, rel)
          BY <3>3, <3>4, <3>5, <4>1
        <4>3. some = When(~Located(filing, rel), Incoherent("UNATTRIBUTABLE_SOURCE_DOCUMENT"))
          BY <4>2 DEF Unlocated
        <4>. QED  BY <3>1, <4>1, <4>3, FatalIs
      <3>7. RelationshipIsWhole(net, rel)
        <4>1. SUFFICES ASSUME ~RelationshipIsWhole(net, rel) PROVE FALSE
          OBVIOUS
        <4>2. PICK code : some = {Problem(net, code)}
          BY <3>3, <3>4, <3>5, <3>6, <4>1
        <4>3. Incoherent(code) \in some
          BY <3>2, <4>2
        <4>. QED  BY <3>1, <4>3, FatalIs
      <3>. QED  BY <3>7 DEF rel
    <2>. QED  BY <2>1, <2>3
  <1>8. ASSUME Family(net) \notin IdentityFamilies
        PROVE  {"EXCLUDED_ARCROLE", "DEFERRED_ARCROLE", "UNSUPPORTED_ARCROLE"} \cap Codes(iss) # {}
    <2>1. ~IsRead(net)
      BY <1>8 DEF IsRead
    <2>2. iss = {Incomplete(other)}
      BY <1>1, <1>6, <1>8, <2>1
    <2>3. other \in {"EXCLUDED_ARCROLE", "DEFERRED_ARCROLE", "UNSUPPORTED_ARCROLE"}
      BY DEF other
    <2>4. Incomplete(other).code = other
      BY DEF Incomplete
    <2>5. other \in Codes(iss)
      BY <2>2, <2>4 DEF Codes
    <2>. QED  BY <2>3, <2>5
  <1>. QED  BY <1>7, <1>8 DEF iss

-----------------------------------------------------------------------------
(* The passes over the base sets and the concepts.                         *)

(* A pass over the base sets without a fatal issue has a row for each concept         *)
(* relationship, in the order of the base sets (extract.py _relationship_projection). *)
LEMMA RelationshipsPass ==
  ASSUME IsFiling(filing), ProjectRelationships, NoFatal(issues')
  PROVE  NetworksRight(filing, networks'.concept, issues')
  <1>. DEFINE N == filing.nets
              row(i, rel) == [net |-> i, from |-> rel.from, to |-> rel.to]
              P(i) == {k \in DOMAIN N[i].rels : RelationshipIsWhole(N[i], N[i].rels[k])}
              mine(i) == IF ~IsRead(N[i]) \/ Family(N[i]) \notin ConceptNetworks THEN <<>>
                         ELSE [k \in DOMAIN Pick(N[i].rels, P(i)) |-> row(i, Pick(N[i].rels, P(i))[k])]
              theirs(i) == IF IsConceptNetwork(N[i]) THEN N[i].rels ELSE <<>>
              ss == [i \in DOMAIN N |-> mine(i)]
              tt == [i \in DOMAIN N |-> theirs(i)]
              R == [net : Nat, from : STRING, to : STRING]
  <1>1. networks'.concept = FlattenSeq(ss)
    <2>1. networks' = [concept |-> NetworkRows(ConceptNetworks), resource |-> NetworkRows(IdentityFamilies \ ConceptNetworks)]
      BY DEF ProjectRelationships
    <2>2. networks'.concept = NetworkRows(ConceptNetworks)
      BY <2>1
    <2>3. NetworkRows(ConceptNetworks) = FlattenSeq(ss)
      BY DEF NetworkRows, RowsOf, Selection
    <2>. QED  BY <2>2, <2>3
  <1>2. Related(filing) = FlattenSeq(tt)
    BY DEF Related
  <1>3. \A i \in DOMAIN N : NetworkIssues(N[i]) \subseteq issues'
    BY DEF ProjectRelationships, IssuesOf
  <1>4. N \in Seq(NetworkRecords)
    BY DEF IsFiling
  <1>5. PICK n \in Nat : DOMAIN N = 1..n
    BY <1>4
  <1>6. ASSUME NEW i \in 1..n
        PROVE  /\ N[i] \in NetworkRecords /\ NoFatal(NetworkIssues(N[i])) /\ N[i].rels \in Seq(RelationshipRecords)
               /\ NetworkIssues(N[i]) \subseteq issues'
    <2>1. N[i] \in NetworkRecords /\ NetworkIssues(N[i]) \subseteq issues'
      <3>. HIDE DEF N
      <3>. QED  BY <1>3, <1>4, <1>5
    <2>2. NoFatal(NetworkIssues(N[i]))
      BY <2>1, NoFatalOf
    <2>. HIDE DEF N
    <2>. QED  BY <2>1, <2>2 DEF NetworkRecords
  <1>. HIDE DEF N
  <1>7. ASSUME NEW i \in 1..n
        PROVE  /\ mine(i) \in Seq(R) /\ theirs(i) \in Seq(RelationshipRecords) /\ Len(mine(i)) = Len(theirs(i))
               /\ \A k \in DOMAIN mine(i) : mine(i)[k].from = theirs(i)[k].from /\ mine(i)[k].to = theirs(i)[k].to
    <2>1. CASE ~IsConceptNetwork(N[i])
      <3>1. mine(i) = <<>> /\ theirs(i) = <<>>
        BY <2>1 DEF IsConceptNetwork
      <3>. HIDE DEF mine, theirs, R
      <3>. QED  BY <3>1
    <2>2. CASE IsConceptNetwork(N[i])
      <3>. DEFINE rels == N[i].rels
      <3>1. IsRead(N[i]) /\ \A k \in DOMAIN rels : RelationshipIsWhole(N[i], rels[k])
        BY <1>6, <2>2, NetworkPass
      <3>2. Pick(rels, P(i)) = rels
        <4>1. P(i) = DOMAIN rels
          BY <3>1
        <4>2. rels \in Seq(RelationshipRecords)
          BY <1>6
        <4>. HIDE DEF rels, P
        <4>. QED  BY <4>1, <4>2, PickAll
      <3>3. mine(i) = [k \in DOMAIN rels |-> row(i, rels[k])]
        <4>1. mine(i) = [k \in DOMAIN Pick(rels, P(i)) |-> row(i, Pick(rels, P(i))[k])]
          <5>. HIDE DEF P, row
          <5>. QED  BY <2>2, <3>1 DEF IsConceptNetwork
        <4>. HIDE DEF P, row, rels
        <4>. QED  BY <3>2, <4>1
      <3>4. theirs(i) = rels
        BY <2>2
      <3>5. PICK m \in Nat : DOMAIN rels = 1..m /\ Len(rels) = m
        BY <1>6
      <3>6. \A k \in 1..m : rels[k] \in RelationshipRecords
        BY <1>6, <3>5
      <3>. HIDE DEF rels
      <3>7. \A k \in 1..m : rels[k].from \in STRING /\ rels[k].to \in STRING
        BY <3>6 DEF RelationshipRecords
      <3>. DEFINE g == [k \in 1..m |-> row(i, rels[k])]
      <3>8. \A k \in 1..m : g[k] = row(i, rels[k]) /\ g[k] \in R /\ g[k].from = rels[k].from /\ g[k].to = rels[k].to
        BY <3>7
      <3>9. g \in Seq(R) /\ Len(g) = m /\ DOMAIN g = 1..m
        <4>1. g = [k \in 1..m |-> g[k]] /\ \A k \in 1..m : g[k] \in R
          <5>1. g = [k \in 1..m |-> g[k]]
            OBVIOUS
          <5>. HIDE DEF g, R
          <5>. QED  BY <3>8, <5>1
        <4>. HIDE DEF g, R
        <4>. QED  BY <4>1, ListIs
      <3>10. mine(i) = g
        <4>. HIDE DEF mine, row
        <4>. QED  BY <3>3, <3>5
      <3>11. rels \in Seq(RelationshipRecords)
        BY <1>6 DEF rels
      <3>. HIDE DEF g, mine, theirs, row, R, P
      <3>. QED  BY <3>4, <3>5, <3>8, <3>9, <3>10, <3>11
    <2>. QED  BY <2>1, <2>2
  <1>. HIDE DEF mine, theirs, row, R, P
  <1>8. ss \in Seq(Seq(R)) /\ Len(ss) = n /\ DOMAIN ss = 1..n /\ \A i \in 1..n : ss[i] = mine(i)
    <2>1. ss = [i \in 1..n |-> ss[i]] /\ \A i \in 1..n : ss[i] \in Seq(R) /\ ss[i] = mine(i)
      BY <1>5, <1>7
    <2>. HIDE DEF ss
    <2>. QED  BY <2>1, ListIs
  <1>9. tt \in Seq(Seq(RelationshipRecords)) /\ Len(tt) = n /\ \A i \in 1..n : tt[i] = theirs(i)
    <2>1. tt = [i \in 1..n |-> tt[i]] /\ \A i \in 1..n : tt[i] \in Seq(RelationshipRecords) /\ tt[i] = theirs(i)
      BY <1>5, <1>7
    <2>. HIDE DEF tt
    <2>. QED  BY <2>1, ListIs
  <1>. HIDE DEF ss, tt
  <1>10. SameLengths(ss, tt)
    BY <1>7, <1>8, <1>9 DEF SameLengths
  <1>. DEFINE a == FlattenSeq(ss)  b == FlattenSeq(tt)
  <1>11. /\ a \in Seq(R) /\ b \in Seq(RelationshipRecords) /\ Len(a) = Len(b)
         /\ PairedIn(a, b, ss, tt)
    BY <1>8, <1>9, <1>10, FlattenAlike
  <1>. HIDE DEF a, b
  <1>12. ASSUME NEW k \in DOMAIN a PROVE a[k].from = b[k].from /\ a[k].to = b[k].to
    <2>1. PICK i \in 1..n : \E j \in DOMAIN mine(i) : a[k] = mine(i)[j] /\ b[k] = theirs(i)[j]
      BY <1>8, <1>9, <1>11 DEF PairedIn
    <2>. QED  BY <1>7, <2>1
  <1>13. IsList(a) /\ DOMAIN a = 1..Len(a) /\ DOMAIN b = 1..Len(b) /\ Len(b) \in Nat
    BY <1>11 DEF IsList
  <1>14. ASSUME NEW i \in 1..n
         PROVE  Family(N[i]) \in IdentityFamilies
                \/ {"EXCLUDED_ARCROLE", "DEFERRED_ARCROLE", "UNSUPPORTED_ARCROLE"} \cap Codes(issues') # {}
    <2>1. Family(N[i]) \in IdentityFamilies
                \/ {"EXCLUDED_ARCROLE", "DEFERRED_ARCROLE", "UNSUPPORTED_ARCROLE"} \cap Codes(NetworkIssues(N[i])) # {}
      BY <1>6, NetworkPass
    <2>2. Codes(NetworkIssues(N[i])) \subseteq Codes(issues')
      BY <1>6 DEF Codes
    <2>. QED  BY <2>1, <2>2
  <1>15. networks'.concept = a /\ Related(filing) = b
    BY <1>1, <1>2 DEF a, b
  <1>16. \A i \in DOMAIN filing.nets :
            Family(filing.nets[i]) \in IdentityFamilies
                \/ {"EXCLUDED_ARCROLE", "DEFERRED_ARCROLE", "UNSUPPORTED_ARCROLE"} \cap Codes(issues') # {}
    BY <1>5, <1>14 DEF N
  <1>. QED  BY <1>11, <1>12, <1>13, <1>15, <1>16 DEF NetworksRight

(* Every concept has a name; every one of the issuer's is among some. *)
NamesRight(f) == \A i \in DOMAIN f.dts : f.dts[i].qname # None
ConceptsRight(f, cs) == \A i \in DOMAIN f.dts : f.dts[i].issuer => f.dts[i].qname \in cs

(* A scan without a fatal issue met no concept without a name. *)
LEMMA ScanPass ==
  ASSUME ScanConcepts, NoFatal(issues')
  PROVE  NamesRight(filing)
  <1>1. When(\E i \in DOMAIN filing.dts : filing.dts[i].qname = None, Incoherent("INCOHERENT_CONCEPT_DECLARATION")) \subseteq issues'
    BY DEF ScanConcepts
  <1>2. ~ \E i \in DOMAIN filing.dts : filing.dts[i].qname = None
    BY <1>1, FatalIs
  <1>. QED  BY <1>2 DEF NamesRight

(* Concepts retained without a fatal issue include every concept of the issuer. *)
LEMMA RetainPass ==
  ASSUME RetainConcepts, NoFatal(issues'), NamesRight(filing)
  PROVE  ConceptsRight(filing, concepts')
  <1>1. SUFFICES ASSUME NEW i \in DOMAIN filing.dts, filing.dts[i].issuer
                 PROVE  filing.dts[i].qname \in concepts'
    BY DEF ConceptsRight
  <1>2. filing.dts[i].qname # None
    BY DEF NamesRight
  <1>3. i \in Kept
    BY <1>1, <1>2 DEF Kept, BaseConcepts
  <1>4. Unlocated(filing, filing.dts[i]) \subseteq issues'
    BY <1>3 DEF RetainConcepts, ConceptIssues
  <1>5. Located(filing, filing.dts[i])
    BY <1>4, FatalIs DEF Unlocated
  <1>6. filing.dts[i].qname \in ConceptRows
    BY <1>3, <1>5 DEF ConceptRows
  <1>. QED  BY <1>6 DEF RetainConcepts

-----------------------------------------------------------------------------
(* The assembly.                                                           *)

(* One element that the report files has the id. *)
HasOne(F, id) == Cardinality({k \in DOMAIN F : F[k].is.id = id}) = 1
OnlyOne(f, r, kind, id) == HasOne(Filed(f, Members(f, f.reports[r]), kind), id)
AtsApart(rows) == ~Repeated([i \in DOMAIN rows |-> rows[i].at])

(* A fact that was assembled is an item that was filed. *)
FactFiled(f, r, fact, x, n) ==
  /\ fact.order = n - 1 /\ fact.at = x.at /\ fact.concept = x.is.concept
  /\ fact.context = x.is.context /\ OnlyOne(f, r, "contexts", fact.context)
  /\ fact.unit # None => fact.unit = x.is.unit /\ OnlyOne(f, r, "units", fact.unit)
  /\ fact.status = "nil" <=> x.is.nil

(* The facts of a report are the items filed for it, if they are as many. *)
ReportFacts(f, r, made) ==
  LET T == Selected(f, Members(f, f.reports[r]))
  IN  /\ Len(made.facts) \in Nat /\ Len(made.facts) <= Len(T) /\ DOMAIN made.facts = 1..Len(made.facts)
      /\ Len(made.facts) = Len(T) =>
            \A i \in 1..Len(T) : FactFiled(f, r, made.facts[i], T[i], i) /\ FactSpoken(made.facts[i], T[i], made.issues)

(* The other rows of a report, and its issues. *)
ReportRows(f, r, made) ==
  LET C == Filed(f, Members(f, f.reports[r]), "contexts")
      U == Filed(f, Members(f, f.reports[r]), "units")
  IN  /\ Len(made.contexts) = Len(C) /\ IsList(made.units) /\ \A k \in DOMAIN made.units : made.units[k].id # None
      /\ made.dimensions = FlattenSeq([k \in DOMAIN C |-> DimensionsOf(C[k])])
      /\ (\A i \in DOMAIN made.measures : made.measures[i].unit # None)
            => made.measures = FlattenSeq([k \in DOMAIN U |-> MeasuresOf(U[k])])
      /\ Len(made.relationships) = Len(Related(f)) /\ DOMAIN Related(f) = 1..Len(Related(f))
      /\ \A i \in 1..Len(Related(f)) : /\ made.relationships[i].order = i - 1
                                       /\ made.relationships[i].from = Related(f)[i].from
                                       /\ made.relationships[i].to = Related(f)[i].to
      /\ \A n \in DOMAIN f.nets :
            Family(f.nets[n]) \in IdentityFamilies
            \/ {"EXCLUDED_ARCROLE", "DEFERRED_ARCROLE", "UNSUPPORTED_ARCROLE"} \cap Codes(made.issues) # {}
      /\ NoFatal(made.issues)

ReportRight(f, r, made) ==
  ReportFacts(f, r, made) /\ ReportRows(f, r, made) /\ ConceptsRight(f, made.concepts)

(* The place of a row leads to its id. *)
LEMMA IdAtOwn ==
  ASSUME NEW S, NEW F \in Seq(S), NEW rows, RowsRight(F, rows), AtsApart(rows),
         NEW c \in DOMAIN F, F[c].at # None
  PROVE  IdAt(rows, F[c].at) = F[c].is.id
  <1>1. /\ DOMAIN rows = DOMAIN F
        /\ \A i \in DOMAIN F : rows[i].id = F[i].is.id /\ rows[i].at = F[i].at
    BY DEF RowsRight
  <1>2. \A i \in DOMAIN rows : i \in Int
    BY <1>1
  <1>3. \A i \in DOMAIN rows : rows[i].at = rows[c].at => i = c
    <2>. DEFINE ats == [i \in DOMAIN rows |-> rows[i].at]
    <2>1. DOMAIN ats = DOMAIN rows /\ \A i \in DOMAIN rows : ats[i] = rows[i].at
      OBVIOUS
    <2>2. ~Repeated(ats)
      BY DEF AtsApart
    <2>. HIDE DEF ats
    <2>3. \A i, j \in DOMAIN rows : i < j => rows[i].at # rows[j].at
      BY <2>1, <2>2 DEF Repeated
    <2>4. ASSUME NEW i \in DOMAIN rows, rows[i].at = rows[c].at PROVE i = c
      <3>1. i \in Int /\ c \in Int /\ ~ (i < c) /\ ~ (c < i)
        BY <1>1, <1>2, <2>3, <2>4
      <3>. QED  BY <3>1
    <2>. QED  BY <2>4
  <1>4. c \in DOMAIN rows /\ rows[c].at = F[c].at /\ rows[c].id = F[c].is.id /\ rows[c].at # None
    BY <1>1
  <1>5. IdAt(rows, rows[c].at) = rows[CHOOSE i \in DOMAIN rows : rows[i].at = rows[c].at].id
    BY <1>4 DEF IdAt
  <1>6. (CHOOSE i \in DOMAIN rows : rows[i].at = rows[c].at) = c
    BY <1>3, <1>4
  <1>. QED  BY <1>4, <1>5, <1>6

(* A row leads back to the id that led to it, and one element bears that id. *)
LEMMA IdAtRow ==
  ASSUME NEW S, NEW F \in Seq(S), NEW rows, RowsRight(F, rows), AtsApart(rows),
         ~Repeated(IdsOf(F)), NEW id, RowFor(rows, id) # None
  PROVE  IdAt(rows, RowFor(rows, id)) = id /\ HasOne(F, id)
  <1>1. /\ DOMAIN rows = DOMAIN F
        /\ \A i \in DOMAIN F : rows[i].id = F[i].is.id /\ rows[i].at = F[i].at /\ F[i].is.id # None
    BY DEF RowsRight
  <1>2. \E i \in DOMAIN rows : rows[i].id = id
    BY DEF RowFor
  <1>3. PICK c \in DOMAIN rows : rows[c].id = id /\ RowFor(rows, id) = rows[c].at
    BY <1>2 DEF RowFor
  <1>4. c \in DOMAIN F /\ F[c].at # None /\ RowFor(rows, id) = F[c].at /\ F[c].is.id = id
    BY <1>1, <1>3
  <1>6. IdAt(rows, F[c].at) = F[c].is.id
    BY <1>4, IdAtOwn
  <1>7. {k \in DOMAIN F : F[k].is.id = id} = {c}
    <2>1. c \in DOMAIN F /\ F[c].is.id = id /\ F[c].is.id # None
      BY <1>1, <1>3
    <2>2. \A k \in DOMAIN F : F[k].is.id = id => k = c
      BY <2>1, IdsApart
    <2>. QED  BY <2>1, <2>2
  <1>8. Cardinality({c}) = 1
    BY FS_Singleton
  <1>. QED  BY <1>4, <1>6, <1>7, <1>8 DEF HasOne

(* A list built from a list. *)
LEMMA BuiltList ==
  ASSUME NEW n \in Nat, NEW g, g = [i \in 1..n |-> g[i]]
  PROVE  Len(g) = n /\ DOMAIN g = 1..n
  <1>. DEFINE V == {g[i] : i \in 1..n}
  <1>1. \A i \in 1..n : g[i] \in V
    OBVIOUS
  <1>. HIDE DEF V
  <1>. QED  BY <1>1, ListIs

(* What the passes leave when none of them recorded a fatal issue. *)
Assembling ==
  /\ IsFiling(filing) /\ Scanned(filing, filing.reports[current]) /\ NoFatal(issues)
  /\ ContextsRight(filing, current, contexts, dimensions) /\ UnitsRight(filing, current, units, measures)
  /\ FactsRight(filing, current, contexts, units, facts, issues)
  /\ NetworksRight(filing, networks.concept, issues) /\ ConceptsRight(filing, concepts)

(* The facts that are assembled are the facts that were filed, with the ids of *)
(* their contexts and units in place of the rows (_source_build.py).           *)
LEMMA BuiltFactsRight ==
  ASSUME Assembling, ~BuildFails
  PROVE  ReportFacts(filing, current, Built)
  <1>. DEFINE T == Selected(filing, Uris)  b == BuiltFacts  n == Len(facts)
              C == Filed(filing, Uris, "contexts")  U == Filed(filing, Uris, "units")
  <1>1. Built.facts = b /\ Built.issues = issues
    BY DEF Built
  <1>2. /\ IsList(facts) /\ Len(facts) <= Len(T)
        /\ Len(facts) = Len(T) =>
              \A i \in 1..Len(T) : FactMatches(facts[i], T[i], i, contexts, units) /\ FactSpoken(facts[i], T[i], issues)
        /\ \A i \in 1..Len(facts) : FactShape(facts[i])
    BY DEF Assembling, FactsRight, Uris, Report
  <1>3. n \in Nat /\ facts = [i \in 1..n |-> facts[i]]
    BY <1>2 DEF IsList
  <1>4. DOMAIN facts = 1..n
    BY <1>3
  <1>5. b = [i \in 1..n |-> [facts[i] EXCEPT !.context = IdAt(contexts, facts[i].context), !.unit = IdAt(units, facts[i].unit)]]
    BY <1>4 DEF BuiltFacts
  <1>. HIDE DEF b, n
  <1>6. ASSUME NEW i \in 1..n
        PROVE  /\ b[i].context = IdAt(contexts, facts[i].context) /\ b[i].unit = IdAt(units, facts[i].unit)
               /\ b[i].order = facts[i].order /\ b[i].at = facts[i].at /\ b[i].concept = facts[i].concept
               /\ b[i].status = facts[i].status /\ b[i].value = facts[i].value /\ b[i].lexical = facts[i].lexical
    <2>1. b[i] = [facts[i] EXCEPT !.context = IdAt(contexts, facts[i].context), !.unit = IdAt(units, facts[i].unit)]
      BY <1>5
    <2>2. FactShape(facts[i])
      BY <1>2 DEF n
    <2>3. PICK o, a, c, x, u, s, v, l :
             facts[i] = [order |-> o, at |-> a, concept |-> c, context |-> x, unit |-> u, status |-> s, value |-> v, lexical |-> l]
      BY <2>2 DEF FactShape
    <2>. QED  BY <2>1, <2>3
  <1>7. Len(b) = n /\ DOMAIN b = 1..n
    <2>1. b = [i \in 1..n |-> b[i]]
      BY <1>5
    <2>. QED  BY <1>3, <2>1, BuiltList
  <1>8. ASSUME n = Len(T), NEW i \in 1..Len(T) PROVE FactSpoken(b[i], T[i], issues)
    <2>1. FactSpoken(facts[i], T[i], issues) /\ i \in 1..n
      BY <1>2, <1>8 DEF n
    <2>. QED  BY <1>6, <2>1 DEF FactSpoken, IsAccountedFor
  <1>9. /\ C \in Seq(Occurrences(filing, "contexts", ContextRecords))
        /\ U \in Seq(Occurrences(filing, "units", UnitRecords))
        /\ ~Repeated(IdsOf(C)) /\ ~Repeated(IdsOf(U))
        /\ RowsRight(C, contexts) /\ RowsRight(U, units)
    <2>1. IsFiling(filing) /\ Uris \in Seq(DOMAIN filing.docs) /\ ~Collision(filing, Uris)
      BY DEF Assembling, Scanned, Uris, Report
    <2>2. \A u \in DOMAIN filing.docs : filing.docs[u]["contexts"] \in Seq(ContextRecords) /\ filing.docs[u]["units"] \in Seq(UnitRecords)
      BY <2>1, DocumentIs
    <2>3. C \in Seq(Occurrences(filing, "contexts", ContextRecords))
      BY <2>1, <2>2, FiledIs
    <2>4. U \in Seq(Occurrences(filing, "units", UnitRecords))
      BY <2>1, <2>2, FiledIs
    <2>5. ~Repeated(IdsOf(C)) /\ ~Repeated(IdsOf(U))
      BY <2>1 DEF Collision
    <2>6. RowsRight(C, contexts) /\ RowsRight(U, units)
      BY DEF Assembling, ContextsRight, UnitsRight, Uris, Report
    <2>. QED  BY <2>3, <2>4, <2>5, <2>6
  <1>10. AtsApart(contexts) /\ AtsApart(units)
    BY DEF BuildFails, AtsApart
  <1>11. ASSUME n = Len(T), NEW i \in 1..Len(T) PROVE FactFiled(filing, current, b[i], T[i], i)
    <2>. DEFINE x == T[i]
    <2>1. /\ facts[i].order = i - 1 /\ facts[i].at = x.at /\ facts[i].concept = x.is.concept
          /\ facts[i].context = RowFor(contexts, x.is.context) /\ facts[i].context # None
          /\ facts[i].unit # None => facts[i].unit = RowFor(units, x.is.unit)
          /\ facts[i].status = "nil" <=> x.is.nil
      BY <1>2, <1>11 DEF FactMatches, n
    <2>. HIDE DEF x, T, C, U
    <2>2. b[i].context = x.is.context /\ HasOne(C, x.is.context)
      <3>1. RowFor(contexts, x.is.context) # None /\ b[i].context = IdAt(contexts, RowFor(contexts, x.is.context))
        BY <1>6, <1>11, <2>1
      <3>. QED  BY <1>9, <1>10, <3>1, IdAtRow
    <2>3. ASSUME b[i].unit # None
          PROVE  b[i].unit = x.is.unit /\ HasOne(U, x.is.unit)
      <3>1. b[i].unit = IdAt(units, facts[i].unit)
        BY <1>6, <1>11
      <3>2. facts[i].unit # None
        BY <2>3, <3>1 DEF IdAt
      <3>3. RowFor(units, x.is.unit) # None /\ b[i].unit = IdAt(units, RowFor(units, x.is.unit))
        BY <2>1, <3>1, <3>2
      <3>. QED  BY <1>9, <1>10, <3>3, IdAtRow
    <2>4. OnlyOne(filing, current, "contexts", b[i].context)
      BY <2>2 DEF OnlyOne, C, Uris, Report
    <2>5. b[i].unit # None => OnlyOne(filing, current, "units", b[i].unit)
      BY <2>3 DEF OnlyOne, U, Uris, Report
    <2>6. /\ b[i].order = i - 1 /\ b[i].at = x.at /\ b[i].concept = x.is.concept
          /\ b[i].status = "nil" <=> x.is.nil
      BY <1>6, <1>11, <2>1
    <2>. QED  BY <2>2, <2>3, <2>4, <2>5, <2>6 DEF FactFiled, x
  <1>12. Len(b) = Len(T) => \A i \in 1..Len(T) : FactFiled(filing, current, b[i], T[i], i) /\ FactSpoken(b[i], T[i], issues)
    BY <1>7, <1>8, <1>11
  <1>13. Len(b) \in Nat /\ Len(b) <= Len(T) /\ DOMAIN b = 1..Len(b)
    BY <1>2, <1>3, <1>7 DEF n
  <1>. QED  BY <1>1, <1>12, <1>13 DEF ReportFacts, T, Uris, Report

(* The dimensions that are assembled are the ones filed, with the id of their *)
(* context, and so are the measures if each of them found its unit.           *)
LEMMA BuiltRowsRight ==
  ASSUME Assembling, ~BuildFails,
         NEW C, C = Filed(filing, Uris, "contexts"), NEW U, U = Filed(filing, Uris, "units")
  PROVE  /\ BuiltDimensions = FlattenSeq([k \in DOMAIN C |-> DimensionsOf(C[k])])
         /\ (\A i \in DOMAIN BuiltMeasures : BuiltMeasures[i].unit # None)
               => BuiltMeasures = FlattenSeq([k \in DOMAIN U |-> MeasuresOf(U[k])])
  <1>1. PICK ds : ds = FlattenSeq([k \in DOMAIN C |-> DimensionsOf(C[k])])
    OBVIOUS
  <1>2. PICK ms : ms = FlattenSeq([k \in DOMAIN U |-> MeasuresOf(U[k])])
    OBVIOUS
  <1>3. /\ C \in Seq(Occurrences(filing, "contexts", ContextRecords))
        /\ U \in Seq(Occurrences(filing, "units", UnitRecords))
    <2>1. IsFiling(filing) /\ Uris \in Seq(DOMAIN filing.docs)
      BY DEF Assembling, Scanned, Uris, Report
    <2>2. \A u \in DOMAIN filing.docs : filing.docs[u]["contexts"] \in Seq(ContextRecords) /\ filing.docs[u]["units"] \in Seq(UnitRecords)
      BY <2>1, DocumentIs
    <2>3. C \in Seq(Occurrences(filing, "contexts", ContextRecords))
      BY <2>1, <2>2, FiledIs
    <2>4. U \in Seq(Occurrences(filing, "units", UnitRecords))
      BY <2>1, <2>2, FiledIs
    <2>. QED  BY <2>3, <2>4
  <1>4. /\ RowsRight(C, contexts) /\ RowsRight(U, units)
        /\ DimensionsRight(C, dimensions, ds) /\ MeasuresRight(U, measures, ms)
    BY <1>1, <1>2 DEF Assembling, ContextsRight, UnitsRight, Uris, Report
  <1>5. AtsApart(contexts) /\ AtsApart(units)
    BY DEF BuildFails, AtsApart
  <1>6. BuiltDimensions = ds
    <2>1. AsLong(dimensions, ds)
      BY <1>4 DEF DimensionsRight
    <2>2. DOMAIN dimensions = 1..Len(ds)
      BY <2>1 DEF AsLong
    <2>3. BuiltDimensions = [i \in 1..Len(ds) |-> [dimensions[i] EXCEPT !.context = IdAt(contexts, dimensions[i].context)]]
      BY <2>2 DEF BuiltDimensions
    <2>4. ASSUME NEW i \in 1..Len(ds)
          PROVE  [dimensions[i] EXCEPT !.context = IdAt(contexts, dimensions[i].context)] = ds[i]
      <3>1. PICK k \in DOMAIN C : \E d, kind, m :
               dimensions[i] = DimensionRow(C[k].at, d, kind, m) /\ ds[i] = DimensionRow(C[k].is.id, d, kind, m)
        BY <1>4 DEF DimensionsRight
      <3>2. PICK d, kind, m : dimensions[i] = DimensionRow(C[k].at, d, kind, m) /\ ds[i] = DimensionRow(C[k].is.id, d, kind, m)
        BY <3>1
      <3>3. dimensions[i].context = C[k].at
        BY <3>2 DEF DimensionRow
      <3>4. IdAt(contexts, C[k].at) # None
        BY <2>2, <3>3 DEF BuildFails
      <3>5. C[k].at # None
        BY <3>4 DEF IdAt
      <3>6. IdAt(contexts, C[k].at) = C[k].is.id
        BY <1>3, <1>4, <1>5, <3>5, IdAtOwn
      <3>. QED  BY <3>2, <3>3, <3>6 DEF DimensionRow
    <2>5. ds = [i \in 1..Len(ds) |-> ds[i]]
      BY <2>1 DEF AsLong
    <2>. QED  BY <2>3, <2>4, <2>5
  <1>7. ASSUME \A i \in DOMAIN BuiltMeasures : BuiltMeasures[i].unit # None PROVE BuiltMeasures = ms
    <2>1. AsLong(measures, ms)
      BY <1>4 DEF MeasuresRight
    <2>2. DOMAIN measures = 1..Len(ms)
      BY <2>1 DEF AsLong
    <2>3. BuiltMeasures = [i \in 1..Len(ms) |-> [measures[i] EXCEPT !.unit = IdAt(units, measures[i].unit)]]
      BY <2>2 DEF BuiltMeasures
    <2>4. ASSUME NEW i \in 1..Len(ms)
          PROVE  [measures[i] EXCEPT !.unit = IdAt(units, measures[i].unit)] = ms[i]
      <3>1. PICK k \in DOMAIN U : \E side, o :
               measures[i] = MeasureRow(U[k].at, side, o) /\ ms[i] = MeasureRow(U[k].is.id, side, o)
        BY <1>4 DEF MeasuresRight
      <3>2. PICK side, o : measures[i] = MeasureRow(U[k].at, side, o) /\ ms[i] = MeasureRow(U[k].is.id, side, o)
        BY <3>1
      <3>3. measures[i].unit = U[k].at
        BY <3>2 DEF MeasureRow
      <3>4. BuiltMeasures[i].unit = IdAt(units, U[k].at)
        <4>1. BuiltMeasures[i] = [measures[i] EXCEPT !.unit = IdAt(units, measures[i].unit)]
          BY <2>3
        <4>. QED  BY <3>2, <3>3, <4>1 DEF MeasureRow
      <3>5. IdAt(units, U[k].at) # None
        BY <1>7, <2>3, <3>4
      <3>6. U[k].at # None
        BY <3>5 DEF IdAt
      <3>7. IdAt(units, U[k].at) = U[k].is.id
        BY <1>3, <1>4, <1>5, <3>6, IdAtOwn
      <3>. QED  BY <3>2, <3>3, <3>7 DEF MeasureRow
    <2>5. ms = [i \in 1..Len(ms) |-> ms[i]]
      BY <2>1 DEF AsLong
    <2>. QED  BY <2>3, <2>4, <2>5
  <1>. QED  BY <1>1, <1>2, <1>6, <1>7

(* What is assembled without a fatal issue is right. *)
LEMMA BuiltIsRight ==
  ASSUME Assembling, ~BuildFails
  PROVE  ReportRight(filing, current, Built)
  <1>. DEFINE C == Filed(filing, Uris, "contexts")  U == Filed(filing, Uris, "units")
              ds == FlattenSeq([k \in DOMAIN C |-> DimensionsOf(C[k])])
              ms == FlattenSeq([k \in DOMAIN U |-> MeasuresOf(U[k])])
              R == Related(filing)  c == networks.concept
  <1>1. /\ Built.contexts = contexts /\ Built.dimensions = BuiltDimensions /\ Built.relationships = BuiltRelationships
        /\ Built.measures = BuiltMeasures /\ Built.issues = issues /\ Built.concepts = concepts
    BY DEF Built
  <1>2. contexts = [i \in DOMAIN C |-> [id |-> C[i].is.id, at |-> C[i].at]]
    BY DEF Assembling, ContextsRight, RowsRight, Uris, Report
  <1>3. /\ IsList(c) /\ Len(c) = Len(R) /\ Len(R) \in Nat /\ DOMAIN R = 1..Len(R)
        /\ \A i \in 1..Len(c) : c[i].from = R[i].from /\ c[i].to = R[i].to
        /\ \A n \in DOMAIN filing.nets :
              Family(filing.nets[n]) \in IdentityFamilies
              \/ {"EXCLUDED_ARCROLE", "DEFERRED_ARCROLE", "UNSUPPORTED_ARCROLE"} \cap Codes(issues) # {}
    BY DEF Assembling, NetworksRight
  <1>4. BuiltDimensions = ds /\ ((\A i \in DOMAIN BuiltMeasures : BuiltMeasures[i].unit # None) => BuiltMeasures = ms)
    BY BuiltRowsRight
  <1>5. /\ C \in Seq(Occurrences(filing, "contexts", ContextRecords))
        /\ U \in Seq(Occurrences(filing, "units", UnitRecords))
    <2>1. IsFiling(filing) /\ Uris \in Seq(DOMAIN filing.docs)
      BY DEF Assembling, Scanned, Uris, Report
    <2>2. \A u \in DOMAIN filing.docs : filing.docs[u]["contexts"] \in Seq(ContextRecords) /\ filing.docs[u]["units"] \in Seq(UnitRecords)
      BY <2>1, DocumentIs
    <2>3. C \in Seq(Occurrences(filing, "contexts", ContextRecords))
      BY <2>1, <2>2, FiledIs
    <2>4. U \in Seq(Occurrences(filing, "units", UnitRecords))
      BY <2>1, <2>2, FiledIs
    <2>. QED  BY <2>3, <2>4
  <1>. HIDE DEF C, U, ds, ms, R, c
  <1>6. Len(contexts) = Len(C)
    <2>1. Len(C) \in Nat /\ DOMAIN C = 1..Len(C)
      BY <1>5
    <2>2. contexts = [i \in 1..Len(C) |-> contexts[i]]
      BY <1>2, <2>1
    <2>. QED  BY <2>1, <2>2, BuiltList
  <1>8. /\ Len(BuiltRelationships) = Len(R)
        /\ \A i \in 1..Len(R) : /\ BuiltRelationships[i].order = i - 1 /\ BuiltRelationships[i].from = R[i].from
                                /\ BuiltRelationships[i].to = R[i].to
    <2>1. DOMAIN c = 1..Len(R)
      BY <1>3 DEF IsList
    <2>2. BuiltRelationships = [i \in 1..Len(R) |-> [order |-> i - 1, from |-> c[i].from, to |-> c[i].to]]
      BY <2>1 DEF BuiltRelationships, InEmitOrder, c
    <2>3. BuiltRelationships = [i \in 1..Len(R) |-> BuiltRelationships[i]]
      BY <2>2
    <2>4. Len(BuiltRelationships) = Len(R)
      BY <1>3, <2>3, BuiltList
    <2>5. \A i \in 1..Len(R) : /\ BuiltRelationships[i].order = i - 1 /\ BuiltRelationships[i].from = c[i].from
                               /\ BuiltRelationships[i].to = c[i].to
      BY <2>2
    <2>. QED  BY <1>3, <2>4, <2>5
  <1>9. ReportRows(filing, current, Built)
    <2>0. IsList(Built.units) /\ \A k \in DOMAIN Built.units : Built.units[k].id # None
      <3>1. Built.units = units
        BY DEF Built
      <3>2. RowsRight(U, units)
        BY DEF Assembling, UnitsRight, U, Uris, Report
      <3>3. Len(U) \in Nat /\ DOMAIN U = 1..Len(U)
        BY <1>5
      <3>4. units = [i \in 1..Len(U) |-> units[i]]
        BY <3>2, <3>3 DEF RowsRight
      <3>5. Len(units) = Len(U)
        BY <3>3, <3>4, BuiltList
      <3>6. IsList(units)
        BY <3>3, <3>4, <3>5 DEF IsList
      <3>. QED  BY <3>1, <3>2, <3>6 DEF RowsRight
    <2>1. /\ Built.dimensions = ds
          /\ (\A i \in DOMAIN Built.measures : Built.measures[i].unit # None) => Built.measures = ms
      BY <1>1, <1>4
    <2>2. NoFatal(Built.issues)
      BY <1>1 DEF Assembling
    <2>3. Len(Built.contexts) = Len(C) /\ Len(Built.relationships) = Len(R) /\ DOMAIN R = 1..Len(R)
      BY <1>1, <1>3, <1>6, <1>8
    <2>4. \A i \in 1..Len(R) : /\ Built.relationships[i].order = i - 1 /\ Built.relationships[i].from = R[i].from
                               /\ Built.relationships[i].to = R[i].to
      BY <1>1, <1>8
    <2>5. \A n \in DOMAIN filing.nets :
              Family(filing.nets[n]) \in IdentityFamilies
              \/ {"EXCLUDED_ARCROLE", "DEFERRED_ARCROLE", "UNSUPPORTED_ARCROLE"} \cap Codes(Built.issues) # {}
      BY <1>1, <1>3
    <2>. QED  BY <2>0, <2>1, <2>2, <2>3, <2>4, <2>5 DEF ReportRows, C, U, ds, ms, R, Uris, Report
  <1>10. ConceptsRight(filing, Built.concepts)
    BY <1>1 DEF Assembling
  <1>. QED  BY <1>9, <1>10, BuiltFactsRight DEF ReportRight

-----------------------------------------------------------------------------
(* Severities.                                                             *)

(* The severities of issues. *)
Severities == {"fatal", "warning", "info"}
Graded(some) == \A i \in some : i.severity \in Severities

(* Issues have a severity, however they are put together. *)
LEMMA GradedIs ==
  /\ \A code : Incoherent(code).severity \in Severities /\ Incomplete(code).severity \in Severities
  /\ \A c, code : Graded(When(c, Incoherent(code))) /\ Graded(When(c, Incomplete(code)))
  /\ \A code : Graded({Incoherent(code)}) /\ Graded({Incomplete(code)})
  /\ \A a, b : Graded(a) /\ Graded(b) => Graded(a \cup b)
  /\ Graded({})
  <1>1. \A code : Incoherent(code).severity \in Severities
    BY DEF Incoherent, Severities
  <1>2. \A code : Incomplete(code).severity \in Severities
    <2>1. SUFFICES ASSUME NEW code PROVE Incomplete(code).severity \in Severities
      OBVIOUS
    <2>2. Incomplete(code).severity = CASE code \notin NonFatal -> "fatal"
                    [] code = "EXCLUDED_ARCROLE" -> "info"
                    [] OTHER -> "warning"
      BY DEF Incomplete
    <2>3. "EXCLUDED_ARCROLE" \in NonFatal
      BY DEF NonFatal
    <2>. QED  BY <2>2, <2>3 DEF Severities
  <1>. QED  BY <1>1, <1>2 DEF Graded, When

(* So does a problem of a base set. *)
LEMMA GradedProblem ==
  ASSUME NEW net, NEW code
  PROVE  Graded({Problem(net, code)})
  BY GradedIs DEF Problem

(* So do the issues of a context, a unit, a dimension and a tuple. *)
LEMMA GradedContexts ==
  \A x : Graded(ContextIssues(x)) /\ Graded(UnitIssues(x)) /\ Graded(DimensionIssues(x)) /\ Graded(TupleIssues(x))
  <1>0. SUFFICES ASSUME NEW x PROVE Graded(ContextIssues(x)) /\ Graded(UnitIssues(x)) /\ Graded(DimensionIssues(x)) /\ Graded(TupleIssues(x))
    OBVIOUS
  <1>1. Graded(Unlocated(filing, x))
    BY GradedIs DEF Unlocated
  <1>2. Graded(ContextIssues(x))
    <2>1. Graded(When(~PeriodIsWhole(x.is), Incoherent("INCOHERENT_CONTEXT_PERIOD")))
      BY GradedIs
    <2>2. Graded(When(~x.is.entity, Incoherent("INCOHERENT_CONTEXT_ENTITY")))
      BY GradedIs
    <2>3. Graded(When(PeriodIsWhole(x.is) /\ x.is.entity /\ x.is.other,
                   Incomplete("UNSUPPORTED_NON_DIMENSIONAL_CONTEXT_CONTENT")))
      BY GradedIs
    <2>4. Graded({Incoherent("INCOHERENT_CONTEXT_IDENTITY")})
      BY GradedIs
    <2>. QED  BY <1>1, <2>1, <2>2, <2>3, <2>4, GradedIs DEF ContextIssues
  <1>3. Graded(UnitIssues(x))
    BY <1>1, GradedIs DEF UnitIssues
  <1>4. Graded(DimensionIssues(x))
    <2>1. DimensionIssues(x) = UNION {When(~DimensionIsWhole(x.is.dims[i]), Incoherent("UNREPRESENTABLE_CONTEXT_DIMENSION")) : i \in DOMAIN x.is.dims}
      BY DEF DimensionIssues, IssuesOf
    <2>2. \A i \in DOMAIN x.is.dims : Graded(When(~DimensionIsWhole(x.is.dims[i]), Incoherent("UNREPRESENTABLE_CONTEXT_DIMENSION")))
      BY GradedIs
    <2>. QED  BY <2>1, <2>2 DEF Graded
  <1>5. Graded(TupleIssues(x))
    BY GradedIs DEF TupleIssues
  <1>. QED  BY <1>2, <1>3, <1>4, <1>5

(* So do the issues of a fact. *)
LEMMA GradedFacts ==
  \A x : Graded(FactIssues(x))
  <1>0. SUFFICES ASSUME NEW x PROVE Graded(FactIssues(x))
    OBVIOUS
  <1>. DEFINE item == x.is
              a == When(item.kind = "fraction", Incomplete("UNSUPPORTED_FRACTION_FACT"))
              b == When(LosesUnit(item), Incoherent("UNRESOLVED_FACT_UNIT_ROW"))
              c == When(LacksUnit(item), Incomplete("UNRESOLVED_REQUIRED_UNIT"))
              d == When(~IsNumeric(item) /\ item.unit # None, Incomplete("UNEXPECTED_UNIT_REFERENCE"))
              e == When(item.lexical = "unavailable", Incomplete("UNAVAILABLE_FACT_LEXICAL_VALUE"))
              g == IF LosesUnit(item) THEN {} ELSE c \cup d \cup ValueIssues(item) \cup InlineIssues(item) \cup e
  <1>1. Graded(a) /\ Graded(b) /\ Graded(c) /\ Graded(d) /\ Graded(e)
    BY GradedIs
  <1>2. Graded(ValueIssues(item))
    <2>1. PICK code : ValueIssues(item) = When(~item.nil /\ item.value = "inexact", Incomplete(code))
      BY DEF ValueIssues
    <2>. QED  BY <2>1, GradedIs
  <1>3. Graded(InlineIssues(item))
    BY GradedIs DEF InlineIssues, Graded
  <1>4. Graded(Unlocated(filing, x) \cup {Incoherent("UNRESOLVED_FACT_CONCEPT")})
    BY GradedIs DEF Unlocated
  <1>5. Graded({Incoherent("UNRESOLVED_FACT_CONTEXT"), Incoherent("UNRESOLVED_FACT_CONCEPT")})
    BY GradedIs DEF Graded
  <1>6. FactIssues(x) = CASE ~Located(filing, x) -> Unlocated(filing, x) \cup {Incoherent("UNRESOLVED_FACT_CONCEPT")}
          [] Located(filing, x) /\ RowFor(contexts, item.context) = None ->
                {Incoherent("UNRESOLVED_FACT_CONTEXT"), Incoherent("UNRESOLVED_FACT_CONCEPT")}
          [] OTHER -> a \cup b \cup g
    BY DEF FactIssues
  <1>. HIDE DEF a, b, c, d, e
  <1>7. Graded(g)
    BY <1>1, <1>2, <1>3, GradedIs
  <1>. HIDE DEF g
  <1>8. Graded(a \cup b \cup g)
    BY <1>1, <1>7, GradedIs
  <1>. QED  BY <1>4, <1>5, <1>6, <1>8

(* So do the issues of a base set. *)
LEMMA GradedNetworks ==
  \A net : Graded(NetworkIssues(net))
  <1>0. SUFFICES ASSUME NEW net PROVE Graded(NetworkIssues(net))
    OBVIOUS
  <1>1. ASSUME NEW rel PROVE Graded(RelationshipIssues(net, rel))
    <2>. DEFINE whole == {Incomplete(code) : code \in rel.attributes \cap ArcAttributes}
                 \cup When(net.arcrole = "concept-reference" /\ ~rel.parts,
                           Incomplete("UNPRESERVED_REFERENCE_PART"))
                code == IF IsConceptNetwork(net) \/ rel.from \notin Declared
                               THEN "ENDPOINT_FAMILY_MISMATCH" ELSE "UNSUPPORTED_RESOURCE_CLASS"
    <2>1. RelationshipIssues(net, rel) = CASE ~rel.role -> {Problem(net, "MISSING_NETWORK_ROLE")}
      [] rel.role /\ ~rel.arc -> {Problem(net, "UNAVAILABLE_ARC_OCCURRENCE")}
      [] rel.role /\ rel.arc /\ ~Located(filing, rel) -> Unlocated(filing, rel)
      [] OTHER -> IF RelationshipIsWhole(net, rel) THEN whole ELSE {Problem(net, code)}
      BY DEF RelationshipIssues
    <2>2. Graded(whole)
      <3>1. Graded({Incomplete(cd) : cd \in rel.attributes \cap ArcAttributes})
        BY GradedIs DEF Graded
      <3>2. Graded(When(net.arcrole = "concept-reference" /\ ~rel.parts, Incomplete("UNPRESERVED_REFERENCE_PART")))
        BY GradedIs
      <3>. QED  BY <3>1, <3>2, GradedIs
    <2>3. Graded(Unlocated(filing, rel))
      BY GradedIs DEF Unlocated
    <2>. HIDE DEF whole, code
    <2>4. Graded({Problem(net, "MISSING_NETWORK_ROLE")}) /\ Graded({Problem(net, "UNAVAILABLE_ARC_OCCURRENCE")}) /\ Graded({Problem(net, code)})
      BY GradedProblem
    <2>. QED  BY <2>1, <2>2, <2>3, <2>4
  <1>. DEFINE other == CASE Family(net) = "excluded" -> "EXCLUDED_ARCROLE"
                                [] Family(net) = "deferred" -> "DEFERRED_ARCROLE"
                                [] OTHER -> "UNSUPPORTED_ARCROLE"
              all == UNION {RelationshipIssues(net, net.rels[k]) : k \in DOMAIN net.rels}
  <1>2. NetworkIssues(net) = CASE Family(net) \in IdentityFamilies /\ ~net.named -> {Incomplete("INVALID_BASE_SET_QNAME")}
      [] (Family(net) \notin IdentityFamilies \/ net.named) /\ ~net.loads ->
            {Problem(net, "RELATIONSHIP_SET_LOAD_FAILED")}
      [] IsRead(net) -> all
      [] OTHER -> {Incomplete(other)}
    BY DEF NetworkIssues, IssuesOf
  <1>3. Graded(all)
    BY <1>1 DEF Graded
  <1>. HIDE DEF all, other
  <1>4. Graded({Incomplete("INVALID_BASE_SET_QNAME")}) /\ Graded({Incomplete(other)})
    BY GradedIs
  <1>5. Graded({Problem(net, "RELATIONSHIP_SET_LOAD_FAILED")})
    BY GradedProblem
  <1>. QED  BY <1>2, <1>3, <1>4, <1>5

(* Every issue that a pass records has a severity. *)
LEMMA GradedPasses ==
  ASSUME ExtractionNext, Graded(issues)
  PROVE  Graded(issues')
  <1>1. ASSUME TakeInventory \/ Finalize PROVE Graded(issues')
    BY <1>1 DEF TakeInventory, Finalize
  <1>2. ASSUME ScanConcepts PROVE Graded(issues')
    BY <1>2, GradedIs DEF ScanConcepts
  <1>3. ASSUME ProjectContexts PROVE Graded(issues')
    <2>. DEFINE L == Loaded("contexts")  W == Selection(Loaded("contexts"), ContextIsWhole)
                a == UNION {ContextIssues(L[i]) : i \in DOMAIN L}
                b == UNION {DimensionIssues(W[i]) : i \in DOMAIN W}
    <2>1. issues' = issues \cup a \cup b
      BY <1>3 DEF ProjectContexts, IssuesOf
    <2>. HIDE DEF L, W
    <2>2. Graded(a) /\ Graded(b)
      BY GradedContexts DEF Graded
    <2>. HIDE DEF a, b
    <2>. QED  BY <2>1, <2>2, GradedIs
  <1>4. ASSUME ProjectUnits PROVE Graded(issues')
    <2>. DEFINE L == Loaded("units")
                a == UNION {UnitIssues(L[i]) : i \in DOMAIN L}
    <2>1. issues' = issues \cup a
      BY <1>4 DEF ProjectUnits, IssuesOf
    <2>. HIDE DEF L
    <2>2. Graded(a)
      BY GradedContexts DEF Graded
    <2>. HIDE DEF a
    <2>. QED  BY <2>1, <2>2, GradedIs
  <1>5. ASSUME ProjectFacts PROVE Graded(issues')
    <2>. DEFINE a == When(Len(Defined) < Len(LoadedFacts), Incoherent("UNDEFINED_FACT_ELEMENT"))
                b == UNION {TupleIssues(Defined[i]) : i \in DOMAIN Defined}
                c == UNION {FactIssues(Defined[i]) : i \in DOMAIN Defined}
    <2>1. issues' = issues \cup a \cup b \cup c
      BY <1>5 DEF ProjectFacts, IssuesOf
    <2>2. Graded(a)
      BY GradedIs
    <2>3. Graded(b) /\ Graded(c)
      BY GradedContexts, GradedFacts DEF Graded
    <2>. HIDE DEF a, b, c
    <2>. QED  BY <2>1, <2>2, <2>3, GradedIs
  <1>6. ASSUME ProjectRelationships PROVE Graded(issues')
    <2>. DEFINE a == UNION {NetworkIssues(filing.nets[i]) : i \in DOMAIN filing.nets}
    <2>1. issues' = issues \cup a
      BY <1>6 DEF ProjectRelationships, IssuesOf
    <2>2. Graded(a)
      BY GradedNetworks DEF Graded
    <2>. HIDE DEF a
    <2>. QED  BY <2>1, <2>2, GradedIs
  <1>7. ASSUME RetainConcepts PROVE Graded(issues')
    <2>1. issues' = issues \cup ConceptIssues
      BY <1>7 DEF RetainConcepts
    <2>2. \A i \in Kept : Graded(Unlocated(filing, filing.dts[i]))
      BY GradedIs DEF Unlocated
    <2>3. \A x \in ConceptIssues :
            \/ \E i \in Kept : x \in Unlocated(filing, filing.dts[i])
            \/ x = Incomplete("DUPLICATE_CONCEPT_DECLARATION")
      BY DEF ConceptIssues, When
    <2>4. Graded(ConceptIssues)
      BY <2>2, <2>3, GradedIs DEF Graded
    <2>. QED  BY <2>1, <2>4, GradedIs
  <1>8. ASSUME ReadDiagnostics PROVE Graded(issues')
    BY <1>8, GradedIs DEF ReadDiagnostics
  <1>9. ASSUME Assemble PROVE Graded(issues')
    <2>1. issues' = issues \/ issues' = {}
      BY <1>9 DEF Assemble
    <2>. QED  BY <2>1, GradedIs
  <1>. QED  BY <1>1, <1>2, <1>3, <1>4, <1>5, <1>6, <1>7, <1>8, <1>9 DEF ExtractionNext

-----------------------------------------------------------------------------
(* The invariant.                                                          *)

(* The steps of a worker. *)
Passes == {"scan", "contexts", "units", "facts", "networks", "concepts", "diagnostics", "assemble"}

(* The tables that the passes so far have filled. *)
TablesRight ==
  /\ stage \in {"contexts", "units", "facts", "networks", "concepts", "diagnostics", "assemble"} => NamesRight(filing)
  /\ stage \in {"units", "facts", "networks", "concepts", "diagnostics", "assemble"} =>
        ContextsRight(filing, current, contexts, dimensions)
  /\ stage \in {"facts", "networks", "concepts", "diagnostics", "assemble"} => UnitsRight(filing, current, units, measures)
  /\ stage \in {"networks", "concepts", "diagnostics", "assemble"} =>
        FactsRight(filing, current, contexts, units, facts, issues)
  /\ stage \in {"concepts", "diagnostics", "assemble"} => NetworksRight(filing, networks.concept, issues)
  /\ stage \in {"diagnostics", "assemble"} => ConceptsRight(filing, concepts)

(* There are two tables of relationships. *)
NetworksShape == networks = [concept |-> networks.concept, resource |-> networks.resource]

(* The invariant.  The tables are known to be right only while no issue is       *)
(* fatal, and the reports because they are assembled only then.  The rows of the *)
(* facts are compared with the items only as far as they are as many, which is   *)
(* what the parent's count decides at the end.                                   *)
ExtractionInv ==
  /\ filing \in Filings /\ current \in DOMAIN filing.reports
  /\ stage \in {"inventory", "finalize", "accepted", "failed"} \cup Passes
  /\ Graded(issues) /\ NetworksShape
  /\ stage \notin {"inventory", "failed"} => ~InventoryFails(filing)
  /\ IsList(reports)
  /\ stage \in {"inventory"} \cup Passes => Len(reports) = current - 1
  /\ stage \in {"finalize", "accepted"} => Len(reports) = Len(filing.reports)
  /\ \A r \in DOMAIN reports : ReportRight(filing, r, reports[r])
  /\ NoFatal(issues) => TablesRight
  /\ stage = "accepted" => \A i \in DOMAIN reports : Accepts(i)

(* What is right with some issues recorded is right with more. *)
LEMMA IssuesGrow ==
  ASSUME NEW some, NEW more, some \subseteq more
  PROVE  /\ NoFatal(more) => NoFatal(some)
         /\ \A f, r, ctxs, us, fs : FactsRight(f, r, ctxs, us, fs, some) => FactsRight(f, r, ctxs, us, fs, more)
         /\ \A f, rows : NetworksRight(f, rows, some) => NetworksRight(f, rows, more)
  <1>1. Codes(some) \subseteq Codes(more)
    BY DEF Codes
  <1>2. NoFatal(more) => NoFatal(some)
    BY DEF NoFatal
  <1>3. \A fact, x : FactSpoken(fact, x, some) => FactSpoken(fact, x, more)
    BY <1>1 DEF FactSpoken, IsAccountedFor
  <1>4. ASSUME NEW f, NEW r, NEW ctxs, NEW us, NEW fs, FactsRight(f, r, ctxs, us, fs, some)
        PROVE  FactsRight(f, r, ctxs, us, fs, more)
    BY <1>3, <1>4 DEF FactsRight
  <1>5. ASSUME NEW f, NEW rows, NetworksRight(f, rows, some) PROVE NetworksRight(f, rows, more)
    BY <1>1, <1>5 DEF NetworksRight
  <1>. QED  BY <1>2, <1>4, <1>5

(* The invariant holds before the inventory. *)
LEMMA InvInit ==
  ASSUME ExtractionInit PROVE ExtractionInv
  <1>1. filing \in Filings /\ stage = "inventory" /\ current = 1 /\ issues = {} /\ reports = <<>>
    BY DEF ExtractionInit
  <1>2. current \in DOMAIN filing.reports
    <2>1. filing.reports \in Seq(ReportInputs) /\ filing.reports # <<>>
      BY <1>1, FilingIs DEF IsFiling
    <2>. QED  BY <1>1, <2>1
  <1>3. Graded(issues)
    BY <1>1, GradedIs
  <1>4. NetworksShape
    <2>1. networks = [concept |-> <<>>, resource |-> <<>>]
      BY DEF ExtractionInit, NoTables
    <2>. QED  BY <2>1 DEF NetworksShape
  <1>5. IsList(reports) /\ Len(reports) = 0 /\ DOMAIN reports = {}
    BY <1>1 DEF IsList
  <1>6. TablesRight
    BY <1>1 DEF TablesRight
  <1>. QED  BY <1>1, <1>2, <1>3, <1>4, <1>5, <1>6 DEF ExtractionInv, Passes

(* A pass leaves what is assembled alone: the tables are left to show. *)
LEMMA FrameOfPass ==
  ASSUME ExtractionInv, UNCHANGED <<filing, current, reports>>, stage \in Passes, stage' \in Passes,
         Graded(issues'), NetworksShape', NoFatal(issues') => TablesRight'
  PROVE  ExtractionInv'
  <1>1. /\ "inventory" \notin Passes /\ "failed" \notin Passes /\ "finalize" \notin Passes /\ "accepted" \notin Passes
    BY DEF Passes
  <1>2. /\ filing' \in Filings /\ current' \in DOMAIN filing'.reports
        /\ stage' \in {"inventory", "finalize", "accepted", "failed"} \cup Passes
        /\ IsList(reports') /\ Len(reports') = current' - 1
        /\ \A r \in DOMAIN reports' : ReportRight(filing', r, reports'[r])
    BY DEF ExtractionInv
  <1>3. ~InventoryFails(filing')
    BY <1>1 DEF ExtractionInv
  <1>4. stage' \notin {"finalize", "accepted"}
    BY <1>1
  <1>. QED  BY <1>2, <1>3, <1>4 DEF ExtractionInv

(* A pass works on a report input that got past the inventory. *)
LEMMA InvScanned ==
  ASSUME ExtractionInv, stage \in Passes
  PROVE  /\ IsFiling(filing) /\ Scanned(filing, filing.reports[current])
         /\ NoFatal(issues) => TablesRight
  <1>1. IsFiling(filing) /\ current \in DOMAIN filing.reports
    BY FilingIs DEF ExtractionInv
  <1>2. ~InventoryFails(filing)
    BY DEF ExtractionInv, Passes
  <1>3. InventoryOf(filing, filing.reports[current]).failure = None
    BY <1>1, <1>2 DEF InventoryFails
  <1>4. Scanned(filing, filing.reports[current])
    BY <1>1, <1>3, ScannedIs
  <1>. QED  BY <1>1, <1>4 DEF ExtractionInv

(* Every pass keeps the invariant: it adds its table, and keeps the others. *)
LEMMA InvPass ==
  ASSUME ExtractionInv, Graded(issues'),
         ScanConcepts \/ ProjectContexts \/ ProjectUnits \/ ProjectFacts \/ ProjectRelationships
           \/ RetainConcepts \/ ReadDiagnostics
  PROVE  ExtractionInv'
  <1>0. /\ stage \in Passes /\ stage' \in Passes /\ UNCHANGED <<filing, current, reports>>
        /\ issues \subseteq issues'
    BY DEF ScanConcepts, ProjectContexts, ProjectUnits, ProjectFacts, ProjectRelationships, RetainConcepts,
           ReadDiagnostics, Passes, tables
  <1>1. IsFiling(filing) /\ Scanned(filing, filing.reports[current]) /\ (NoFatal(issues) => TablesRight)
    BY <1>0, InvScanned
  <1>2. NetworksShape
    BY DEF ExtractionInv
  <1>3. SUFFICES NetworksShape' /\ (NoFatal(issues') => TablesRight')
    BY <1>0, FrameOfPass
  <1>4. NoFatal(issues') => TablesRight
    BY <1>0, <1>1, IssuesGrow
  <1>5. ASSUME NoFatal(issues'), FactsRight(filing, current, contexts, units, facts, issues)
        PROVE  FactsRight(filing, current, contexts, units, facts, issues')
    BY <1>0, <1>5, IssuesGrow
  <1>6. ASSUME NoFatal(issues'), NetworksRight(filing, networks.concept, issues)
        PROVE  NetworksRight(filing, networks.concept, issues')
    BY <1>0, <1>6, IssuesGrow
  <1>7. CASE ScanConcepts
    <2>1. stage' = "contexts" /\ UNCHANGED <<filing, networks>>
      BY <1>7 DEF ScanConcepts, tables
    <2>2. NoFatal(issues') => NamesRight(filing)
      BY <1>7, ScanPass
    <2>. QED  BY <1>2, <2>1, <2>2 DEF NetworksShape, TablesRight
  <1>8. CASE ProjectContexts
    <2>1. stage = "contexts" /\ stage' = "units" /\ UNCHANGED <<filing, current, networks>>
      BY <1>8 DEF ProjectContexts
    <2>2. NoFatal(issues') => ContextsRight(filing, current, contexts', dimensions')
      BY <1>1, <1>8, ContextsPass
    <2>3. NoFatal(issues') => NamesRight(filing)
      BY <1>4, <2>1 DEF TablesRight
    <2>. QED  BY <1>2, <2>1, <2>2, <2>3 DEF NetworksShape, TablesRight
  <1>9. CASE ProjectUnits
    <2>1. stage = "units" /\ stage' = "facts" /\ UNCHANGED <<filing, current, contexts, dimensions, networks>>
      BY <1>9 DEF ProjectUnits
    <2>2. NoFatal(issues') => UnitsRight(filing, current, units', measures')
      BY <1>1, <1>9, UnitsPass
    <2>3. NoFatal(issues') => NamesRight(filing) /\ ContextsRight(filing, current, contexts, dimensions)
      BY <1>4, <2>1 DEF TablesRight
    <2>. QED  BY <1>2, <2>1, <2>2, <2>3 DEF NetworksShape, TablesRight
  <1>10. CASE ProjectFacts
    <2>1. /\ stage = "facts" /\ stage' = "networks"
          /\ UNCHANGED <<filing, current, contexts, dimensions, units, measures, networks>>
      BY <1>10 DEF ProjectFacts
    <2>2. NoFatal(issues') => FactsRight(filing, current, contexts, units, facts', issues')
      BY <1>1, <1>10, FactsPass
    <2>3. NoFatal(issues') => /\ NamesRight(filing) /\ ContextsRight(filing, current, contexts, dimensions)
                              /\ UnitsRight(filing, current, units, measures)
      BY <1>4, <2>1 DEF TablesRight
    <2>. QED  BY <1>2, <2>1, <2>2, <2>3 DEF NetworksShape, TablesRight
  <1>11. CASE ProjectRelationships
    <2>1. /\ stage = "networks" /\ stage' = "concepts"
          /\ UNCHANGED <<filing, current, contexts, dimensions, units, measures, facts>>
      BY <1>11 DEF ProjectRelationships
    <2>2. NoFatal(issues') => NetworksRight(filing, networks'.concept, issues')
      BY <1>1, <1>11, RelationshipsPass
    <2>3. NoFatal(issues') => /\ NamesRight(filing) /\ ContextsRight(filing, current, contexts, dimensions)
                              /\ UnitsRight(filing, current, units, measures)
                              /\ FactsRight(filing, current, contexts, units, facts, issues')
      BY <1>4, <1>5, <2>1 DEF TablesRight
    <2>4. NetworksShape'
      <3>1. PICK a, b : networks' = [concept |-> a, resource |-> b]
        BY <1>11 DEF ProjectRelationships
      <3>. QED  BY <3>1 DEF NetworksShape
    <2>. QED  BY <2>1, <2>2, <2>3, <2>4 DEF TablesRight
  <1>12. CASE RetainConcepts
    <2>1. /\ stage = "concepts" /\ stage' = "diagnostics"
          /\ UNCHANGED <<filing, current, contexts, dimensions, units, measures, facts>>
      BY <1>12 DEF RetainConcepts
    <2>2. PICK new : networks' = [networks EXCEPT !.resource = new]
      <3>1. networks' = [networks EXCEPT !.resource = Selection(networks.resource, LAMBDA row : row.from \in BaseConcepts)]
        BY <1>12 DEF RetainConcepts
      <3>. QED  BY <3>1
    <2>3. NetworksShape' /\ networks'.concept = networks.concept
      BY <1>2, <2>2 DEF NetworksShape
    <2>4. NoFatal(issues') => /\ NamesRight(filing) /\ ContextsRight(filing, current, contexts, dimensions)
                              /\ UnitsRight(filing, current, units, measures)
                              /\ FactsRight(filing, current, contexts, units, facts, issues')
                              /\ NetworksRight(filing, networks.concept, issues')
      BY <1>4, <1>5, <1>6, <2>1 DEF TablesRight
    <2>5. NoFatal(issues') => ConceptsRight(filing, concepts')
      BY <1>12, <2>4, RetainPass
    <2>. QED  BY <2>1, <2>3, <2>4, <2>5 DEF TablesRight
  <1>13. CASE ReadDiagnostics
    <2>1. /\ stage = "diagnostics" /\ stage' = "assemble"
          /\ UNCHANGED <<filing, current, contexts, dimensions, units, measures, facts, networks, concepts>>
      BY <1>13 DEF ReadDiagnostics, tables
    <2>2. NoFatal(issues') => /\ NamesRight(filing) /\ ContextsRight(filing, current, contexts, dimensions)
                              /\ UnitsRight(filing, current, units, measures)
                              /\ FactsRight(filing, current, contexts, units, facts, issues')
                              /\ NetworksRight(filing, networks.concept, issues')
                              /\ ConceptsRight(filing, concepts)
      BY <1>4, <1>5, <1>6, <2>1 DEF TablesRight
    <2>. QED  BY <1>2, <2>1, <2>2 DEF NetworksShape, TablesRight
  <1>. QED  BY <1>7, <1>8, <1>9, <1>10, <1>11, <1>12, <1>13

(* Assembly keeps it: the report is added and the next one starts, or it fails. *)
LEMMA InvAssemble ==
  ASSUME ExtractionInv, Graded(issues'), Assemble
  PROVE  ExtractionInv'
  <1>1. stage = "assemble" /\ stage \in Passes
    BY DEF Assemble, Passes
  <1>2. IsFiling(filing) /\ Scanned(filing, filing.reports[current]) /\ (NoFatal(issues) => TablesRight)
    BY <1>1, InvScanned
  <1>3. /\ filing \in Filings /\ current \in DOMAIN filing.reports /\ IsList(reports) /\ Len(reports) = current - 1
        /\ \A r \in DOMAIN reports : ReportRight(filing, r, reports[r])
        /\ ~InventoryFails(filing) /\ NetworksShape
    BY <1>1 DEF ExtractionInv
  <1>4. CASE Refused \/ BuildFails
    <2>1. stage' = "failed" /\ UNCHANGED <<filing, current, issues, networks, reports>>
      BY <1>4 DEF Assemble, tables
    <2>2. TablesRight'
      BY <2>1 DEF TablesRight
    <2>3. NetworksShape'
      BY <1>3, <2>1 DEF NetworksShape
    <2>. QED  BY <1>3, <2>1, <2>2, <2>3 DEF ExtractionInv, Passes
  <1>5. CASE ~(Refused \/ BuildFails)
    <2>1. /\ reports' = Append(reports, Built) /\ issues' = {} /\ filing' = filing
          /\ networks' = [concept |-> <<>>, resource |-> <<>>]
          /\ IF current < Len(filing.reports)
             THEN current' = current + 1 /\ stage' = "scan"
             ELSE current' = current /\ stage' = "finalize"
      BY <1>5 DEF Assemble, ResetTables
    <2>2. NoFatal(issues)
      BY <1>5 DEF Refused, NoFatal
    <2>3. Assembling
      BY <1>1, <1>2, <2>2 DEF Assembling, TablesRight
    <2>4. ReportRight(filing, current, Built)
      BY <1>5, <2>3, BuiltIsRight
    <2>5. filing.reports \in Seq(ReportInputs)
      BY <1>2 DEF IsFiling
    <2>6. Len(filing.reports) \in Nat /\ DOMAIN filing.reports = 1..Len(filing.reports)
      BY <2>5
    <2>7. /\ IsList(reports') /\ Len(reports') = current /\ DOMAIN reports' = 1..current
          /\ \A i \in 1..(current - 1) : reports'[i] = reports[i]
          /\ reports'[current] = Built
      <3>1. PICK S : S = {reports[i] : i \in DOMAIN reports} \cup {Built}
        OBVIOUS
      <3>2. PICK n \in Nat : n = Len(reports) /\ reports = [i \in 1..n |-> reports[i]]
        BY <1>3 DEF IsList
      <3>3. \A i \in 1..n : reports[i] \in S
        BY <3>1, <3>2
      <3>4. reports \in Seq(S) /\ Built \in S
        BY <3>1, <3>2, <3>3, ListIs
      <3>5. /\ reports' \in Seq(S) /\ Len(reports') = n + 1
            /\ reports'[n + 1] = Built /\ \A i \in 1..n : reports'[i] = reports[i]
        BY <2>1, <3>2, <3>4, AppendIs
      <3>6. n + 1 = current /\ n = current - 1
        BY <1>3, <2>6, <3>2
      <3>. QED  BY <3>5, <3>6 DEF IsList
    <2>8. \A r \in DOMAIN reports' : ReportRight(filing', r, reports'[r])
      <3>1. ASSUME NEW r \in 1..current PROVE ReportRight(filing, r, reports'[r])
        <4>1. CASE r = current
          BY <2>4, <2>7, <4>1
        <4>2. CASE r # current
          <5>1. r \in 1..(current - 1)
            BY <1>3, <2>6, <4>2
          <5>2. r \in DOMAIN reports
            BY <1>3, <5>1 DEF IsList
          <5>. QED  BY <1>3, <2>7, <5>1, <5>2
        <4>. QED  BY <4>1, <4>2
      <3>. QED  BY <2>1, <2>7, <3>1
    <2>9. NetworksShape'
      BY <2>1 DEF NetworksShape
    <2>10. TablesRight'
      BY <2>1 DEF TablesRight
    <2>11. CASE current < Len(filing.reports)
      <3>1. current' = current + 1 /\ stage' = "scan" /\ filing' = filing
        BY <2>1, <2>11
      <3>2. current' \in DOMAIN filing'.reports /\ Len(reports') = current' - 1
        BY <1>3, <2>6, <2>7, <2>11, <3>1
      <3>. QED  BY <1>3, <2>7, <2>8, <2>9, <2>10, <3>1, <3>2 DEF ExtractionInv, Passes
    <2>12. CASE ~ (current < Len(filing.reports))
      <3>1. current' = current /\ stage' = "finalize" /\ filing' = filing
        BY <2>1, <2>12
      <3>2. current' \in DOMAIN filing'.reports /\ Len(reports') = Len(filing'.reports)
        BY <1>3, <2>6, <2>7, <2>12, <3>1
      <3>. QED  BY <1>3, <2>7, <2>8, <2>9, <2>10, <3>1, <3>2 DEF ExtractionInv, Passes
    <2>. QED  BY <2>11, <2>12
  <1>. QED  BY <1>4, <1>5

(* The inventory and the parent's checks keep it. *)
LEMMA InvEnds ==
  ASSUME ExtractionInv, Graded(issues'), TakeInventory \/ Finalize
  PROVE  ExtractionInv'
  <1>1. UNCHANGED <<filing, current, issues, networks, reports>>
    BY DEF TakeInventory, Finalize, tables
  <1>2. NetworksShape'
    BY <1>1 DEF ExtractionInv, NetworksShape
  <1>3. /\ filing \in Filings /\ current \in DOMAIN filing.reports /\ IsList(reports)
        /\ \A r \in DOMAIN reports : ReportRight(filing, r, reports[r])
    BY DEF ExtractionInv
  <1>4. CASE TakeInventory
    <2>1. /\ stage = "inventory" /\ stage' \in {"failed", "scan"}
          /\ stage' # "failed" => ~InventoryFails(filing)
      BY <1>4 DEF TakeInventory
    <2>2. TablesRight'
      BY <2>1 DEF TablesRight
    <2>3. Len(reports) = current - 1
      BY <2>1 DEF ExtractionInv
    <2>. QED  BY <1>1, <1>2, <1>3, <2>1, <2>2, <2>3 DEF ExtractionInv, Passes
  <1>5. CASE Finalize
    <2>1. /\ stage = "finalize" /\ stage' \in {"accepted", "failed"}
          /\ stage' = "accepted" => \A i \in DOMAIN reports : Accepts(i)
      BY <1>5 DEF Finalize
    <2>2. TablesRight'
      BY <2>1 DEF TablesRight
    <2>3. Len(reports) = Len(filing.reports) /\ ~InventoryFails(filing)
      BY <2>1 DEF ExtractionInv
    <2>4. stage' = "accepted" => \A i \in DOMAIN reports' : Accepts(i)'
      BY <1>1, <2>1 DEF Accepts
    <2>. QED  BY <1>1, <1>2, <1>3, <2>1, <2>2, <2>3, <2>4 DEF ExtractionInv, Passes
  <1>. QED  BY <1>4, <1>5

(* Every filing, on its way through the passes of xbrl/extract.py, the assembly  *)
(* of xbrl/_source_build.py and the checks of xbrl/source_extract.py, keeps the  *)
(* invariant: until a fatal issue is recorded the tables are what was filed, and *)
(* every report that was assembled is right.                                     *)
THEOREM ExtractionInvariant ==
  ExtractionSpec => []ExtractionInv
  <1>1. ExtractionInit => ExtractionInv
    BY InvInit
  <1>2. ExtractionInv /\ [ExtractionNext]_extractionVars => ExtractionInv'
    <2>1. SUFFICES ASSUME ExtractionInv, [ExtractionNext]_extractionVars PROVE ExtractionInv'
      OBVIOUS
    <2>2. CASE ExtractionNext
      <3>1. Graded(issues')
        BY <2>1, <2>2, GradedPasses DEF ExtractionInv
      <3>2. CASE TakeInventory \/ Finalize
        BY <2>1, <3>1, <3>2, InvEnds
      <3>3. CASE Assemble
        BY <2>1, <3>1, <3>3, InvAssemble
      <3>4. CASE ScanConcepts \/ ProjectContexts \/ ProjectUnits \/ ProjectFacts \/ ProjectRelationships
                  \/ RetainConcepts \/ ReadDiagnostics
        BY <2>1, <3>1, <3>4, InvPass
      <3>. QED  BY <2>2, <3>2, <3>3, <3>4 DEF ExtractionNext
    <2>3. CASE UNCHANGED extractionVars
      <3>1. UNCHANGED <<filing, stage, current, issues, contexts, dimensions, units, measures, facts, networks, concepts, reports>>
        BY <2>3 DEF extractionVars, tables
      <3>2. TablesRight => TablesRight'
        BY <3>1 DEF TablesRight
      <3>3. NetworksShape'
        BY <2>1, <3>1 DEF ExtractionInv, NetworksShape
      <3>4. stage' = "accepted" => \A i \in DOMAIN reports' : Accepts(i)'
        BY <2>1, <3>1 DEF ExtractionInv, Accepts
      <3>. QED  BY <2>1, <3>1, <3>2, <3>3, <3>4 DEF ExtractionInv
    <2>. QED  BY <2>1, <2>2, <2>3
  <1>. QED  BY <1>1, <1>2, PTL DEF ExtractionSpec

-----------------------------------------------------------------------------
(* What is accepted.                                                       *)

(* What is known of a report of an accepted filing. *)
LEMMA AcceptedReport ==
  ASSUME ExtractionInv, stage = "accepted", NEW r \in DOMAIN reports
  PROVE  /\ r \in DOMAIN filing.reports /\ Scanned(filing, filing.reports[r]) /\ IsFiling(filing)
         /\ ReportRight(filing, r, reports[r]) /\ Accepts(r)
         /\ Len(reports) = Len(filing.reports)
  <1>1. /\ IsFiling(filing) /\ ~InventoryFails(filing) /\ IsList(reports) /\ Len(reports) = Len(filing.reports)
        /\ ReportRight(filing, r, reports[r]) /\ Accepts(r)
    BY FilingIs DEF ExtractionInv
  <1>2. DOMAIN reports = 1..Len(reports)
    BY <1>1 DEF IsList
  <1>3. DOMAIN filing.reports = 1..Len(filing.reports)
    <2>1. filing.reports \in Seq(ReportInputs)
      BY <1>1 DEF IsFiling
    <2>. QED  BY <2>1
  <1>4. r \in DOMAIN filing.reports
    BY <1>1, <1>2, <1>3
  <1>5. InventoryOf(filing, filing.reports[r]).failure = None
    BY <1>1, <1>4 DEF InventoryFails
  <1>. QED  BY <1>1, <1>4, <1>5, ScannedIs

(* Its facts are the items of the target that its documents file. *)
LEMMA AcceptedFacts ==
  ASSUME ExtractionInv, stage = "accepted", NEW r \in DOMAIN reports,
         NEW T, T = Selected(filing, Members(filing, filing.reports[r]))
  PROVE  /\ Len(T) = Len(reports[r].facts)
         /\ \A i \in DOMAIN T : /\ FactFiled(filing, r, reports[r].facts[i], T[i], i)
                                /\ FactSpoken(reports[r].facts[i], T[i], reports[r].issues)
                                /\ T[i].is.nil \in BOOLEAN
  <1>. DEFINE uris == Members(filing, filing.reports[r])  n == Len(reports[r].facts)
  <1>1. /\ Scanned(filing, filing.reports[r]) /\ IsFiling(filing) /\ ReportRight(filing, r, reports[r]) /\ Accepts(r)
    BY AcceptedReport
  <1>2. /\ n \in Nat /\ n <= Len(T)
        /\ n = Len(T) => \A i \in 1..Len(T) : /\ FactFiled(filing, r, reports[r].facts[i], T[i], i)
                                              /\ FactSpoken(reports[r].facts[i], T[i], reports[r].issues)
    BY <1>1 DEF ReportRight, ReportFacts
  <1>3. InventoryOf(filing, filing.reports[r]).items = n
    BY <1>1 DEF Accepts
  <1>4. /\ uris \in Seq(DOMAIN filing.docs)
        /\ n = Len(T) \/ n = Len(Filed(filing, uris, "items"))
    BY <1>1, <1>3 DEF Scanned
  <1>5. /\ Filed(filing, uris, "items") \in Seq(Occurrences(filing, "items", ItemRecords))
        /\ T \in Seq(Occurrences(filing, "items", ItemRecords))
        /\ Len(T) <= Len(Filed(filing, uris, "items"))
        /\ \A i \in DOMAIN T : T[i].is \in ItemRecords
    BY <1>1, <1>4, ItemsAre
  <1>. HIDE DEF uris, n
  <1>6. Len(T) \in Nat /\ Len(Filed(filing, uris, "items")) \in Nat /\ DOMAIN T = 1..Len(T)
    BY <1>5
  <1>7. n = Len(T)
    <2>1. PICK t \in Nat, all \in Nat : t = Len(T) /\ all = Len(Filed(filing, uris, "items"))
      BY <1>6
    <2>2. n \in Nat /\ n <= t /\ t <= all /\ (n = t \/ n = all)
      BY <1>2, <1>4, <1>5, <2>1
    <2>. QED  BY <2>1, <2>2
  <1>8. \A i \in DOMAIN T : T[i].is.nil \in BOOLEAN
    BY <1>5 DEF ItemRecords
  <1>. QED  BY <1>2, <1>6, <1>7, <1>8 DEF n

(* The same, as the property says it. *)
FactKept(r, fact, x, n) ==
  LET only(kind, id) == Cardinality({k \in DOMAIN FiledOf(r, kind) : FiledOf(r, kind)[k].is.id = id}) = 1
  IN  /\ fact.order = n - 1 /\ fact.at = x.at /\ fact.concept = x.is.concept
      /\ fact.context = x.is.context /\ only("contexts", fact.context)
      /\ fact.unit # None => fact.unit = x.is.unit /\ only("units", fact.unit)
      /\ (fact.status = "nil") = x.is.nil

(* For every filing: an accepted report has the items of its target, all of them, *)
(* in document order, each with its own place, concept, context and unit          *)
(* (extract.py _fact_records, source_extract.py _finalize_report_outcome).        *)
THEOREM NothingLost ==
  ExtractionSpec => []NothingFiledIsLost
  <1>1. ExtractionInv => NothingFiledIsLost
    <2>1. SUFFICES ASSUME ExtractionInv, stage = "accepted" PROVE NothingFiledIsLost
      BY DEF NothingFiledIsLost, Accepted
    <2>2. Len(reports) = Len(filing.reports)
      BY <2>1 DEF ExtractionInv
    <2>3. ASSUME NEW r \in DOMAIN reports
          PROVE  LET T == Selected(filing, Members(filing, filing.reports[r]))
                 IN  /\ Len(T) = Len(reports[r].facts)
                     /\ \A i \in DOMAIN T : /\ FactFiled(filing, r, reports[r].facts[i], T[i], i)
                                            /\ T[i].is.nil \in BOOLEAN
      BY <2>1, AcceptedFacts
    <2>5. ASSUME NEW r \in DOMAIN reports, NEW kind, NEW id, OnlyOne(filing, r, kind, id)
          PROVE  Cardinality({k \in DOMAIN FiledOf(r, kind) : FiledOf(r, kind)[k].is.id = id}) = 1
      BY <2>5 DEF OnlyOne, HasOne, FiledOf
    <2>6. ASSUME NEW r \in DOMAIN reports, NEW x, NEW i, NEW fact, FactFiled(filing, r, fact, x, i), x.is.nil \in BOOLEAN
          PROVE  FactKept(r, fact, x, i)
      <3>1. /\ fact.order = i - 1 /\ fact.at = x.at /\ fact.concept = x.is.concept
            /\ fact.context = x.is.context /\ OnlyOne(filing, r, "contexts", fact.context)
            /\ fact.unit # None => fact.unit = x.is.unit /\ OnlyOne(filing, r, "units", fact.unit)
            /\ fact.status = "nil" <=> x.is.nil
        BY <2>6 DEF FactFiled
      <3>2. (fact.status = "nil") = x.is.nil
        BY <2>6, <3>1
      <3>. QED  BY <2>5, <3>1, <3>2 DEF FactKept
    <2>7. ASSUME NEW r \in DOMAIN reports
          PROVE  LET filed == Pick(FiledIn(r), {i \in DOMAIN FiledIn(r) : FiledIn(r)[i].is.target = DefaultTarget})
                 IN  /\ Len(filed) = Len(reports[r].facts)
                     /\ \A i \in DOMAIN filed : FactKept(r, reports[r].facts[i], filed[i], i)
      <3>1. PICK T : T = Selected(filing, Members(filing, filing.reports[r]))
        OBVIOUS
      <3>2. Pick(FiledIn(r), {i \in DOMAIN FiledIn(r) : FiledIn(r)[i].is.target = DefaultTarget}) = T
        BY <3>1 DEF FiledIn, Selected, Selection
      <3>3. /\ Len(T) = Len(reports[r].facts)
            /\ \A i \in DOMAIN T : FactFiled(filing, r, reports[r].facts[i], T[i], i) /\ T[i].is.nil \in BOOLEAN
        BY <2>3, <3>1
      <3>4. \A i \in DOMAIN T : FactKept(r, reports[r].facts[i], T[i], i)
        BY <2>6, <3>3
      <3>. QED  BY <3>2, <3>3, <3>4
    <2>. QED  BY <2>2, <2>7 DEF NothingFiledIsLost, Selection, FactKept
  <1>. QED  BY <1>1, ExtractionInvariant, PTL

(* For every filing: an accepted report has the rows of every context, dimension,  *)
(* measure and concept relationship that is filed, and what a fact of it lacks is  *)
(* told by its status or by an issue that is not fatal, except where Arelle itself *)
(* gave a valid item no value or no text (extract.py _fact_value and               *)
(* _raw_lexical_value, fail-closed policy).                                        *)
THEOREM NothingDropped ==
  ExtractionSpec => []NothingIsDroppedInSilence
  <1>1. ExtractionInv => NothingIsDroppedInSilence
    <2>1. SUFFICES ASSUME ExtractionInv, stage = "accepted" PROVE NothingIsDroppedInSilence
      BY DEF NothingIsDroppedInSilence, Accepted
    <2>2. ASSUME NEW r \in DOMAIN reports PROVE ReportRows(filing, r, reports[r]) /\ Integrity(reports[r])
      BY <2>1, <2>2, AcceptedReport DEF ReportRight, Accepts
    <2>3. ASSUME NEW r \in DOMAIN reports
          PROVE  LET U == FiledOf(r, "units") IN reports[r].measures = FlattenSeq([k \in DOMAIN U |-> MeasuresOf(U[k])])
      <3>1. \A i \in DOMAIN reports[r].measures : reports[r].measures[i].unit # None
        <4>1. ASSUME NEW i \in DOMAIN reports[r].measures
              PROVE  \E k \in DOMAIN reports[r].units : reports[r].units[k].id = reports[r].measures[i].unit
          <5>. DEFINE us == reports[r].units  ids == [k \in DOMAIN us |-> us[k].id]
          <5>1. Contains(ids, reports[r].measures[i].unit)
            BY <2>2, <4>1 DEF Integrity
          <5>2. PICK n \in Nat : us = [k \in 1..n |-> us[k]]
            BY <2>2 DEF ReportRows, IsList
          <5>. HIDE DEF us
          <5>3. ids = [k \in 1..n |-> ids[k]] /\ \A k \in 1..n : ids[k] = us[k].id
            BY <5>2
          <5>. HIDE DEF ids
          <5>4. Len(ids) = n
            BY <5>3, BuiltList
          <5>5. PICK k \in 1..n : ids[k] = reports[r].measures[i].unit
            BY <5>1, <5>4 DEF Contains
          <5>6. k \in DOMAIN us
            BY <5>2
          <5>. QED  BY <5>3, <5>5, <5>6 DEF us
        <4>2. \A k \in DOMAIN reports[r].units : reports[r].units[k].id # None
          BY <2>2 DEF ReportRows
        <4>. QED  BY <4>1, <4>2
      <3>. QED  BY <2>2, <3>1 DEF ReportRows, FiledOf
    <2>4. ASSUME NEW r \in DOMAIN reports
          PROVE  LET filed == Pick(FiledIn(r), {i \in DOMAIN FiledIn(r) : FiledIn(r)[i].is.target = DefaultTarget})
                 IN  \A i \in DOMAIN filed : IsAccountedFor(reports[r].facts[i], filed[i].is, Codes(reports[r].issues))
      <3>1. PICK T : T = Selected(filing, Members(filing, filing.reports[r]))
        OBVIOUS
      <3>2. Pick(FiledIn(r), {i \in DOMAIN FiledIn(r) : FiledIn(r)[i].is.target = DefaultTarget}) = T
        BY <3>1 DEF FiledIn, Selected, Selection
      <3>3. \A i \in DOMAIN T : FactSpoken(reports[r].facts[i], T[i], reports[r].issues)
        BY <2>1, <3>1, AcceptedFacts
      <3>. QED  BY <3>2, <3>3 DEF FactSpoken
    <2>. QED  BY <2>2, <2>3, <2>4 DEF NothingIsDroppedInSilence, ReportRows, Codes, FiledOf, FiledRows, Related, NoFatal, Selection
  <1>. QED  BY <1>1, ExtractionInvariant, PTL

(* For every filing: an accepted report declares what it names, and an inline    *)
(* report gets past the inventory exactly if its continuations are sound chains, *)
(* whatever their number and length (upstream_inventory.py, integrity.py).       *)
THEOREM AcceptedCoherent ==
  ExtractionSpec => []AcceptedIsCoherent
  <1>1. ExtractionInv => ExtractionTypeOK
    BY DEF ExtractionInv, ExtractionTypeOK, Passes, Graded, Severities
  <1>2. ExtractionInv => ConceptsAreClosed
    <2>1. SUFFICES ASSUME ExtractionInv, stage = "accepted" PROVE ConceptsAreClosed
      BY DEF ConceptsAreClosed, Accepted
    <2>2. ASSUME NEW r \in DOMAIN reports
          PROVE  Integrity(reports[r]) /\ ConceptsRight(filing, reports[r].concepts)
      BY <2>1, <2>2, AcceptedReport DEF ReportRight, Accepts
    <2>3. ASSUME NEW r \in DOMAIN reports
          PROVE  /\ \A i \in DOMAIN reports[r].facts : reports[r].facts[i].concept \in reports[r].concepts
                 /\ \A i \in DOMAIN reports[r].dimensions :
                       /\ reports[r].dimensions[i].dim \in reports[r].concepts
                       /\ reports[r].dimensions[i].kind = "explicit" => reports[r].dimensions[i].member \in reports[r].concepts
                 /\ \A i \in DOMAIN reports[r].relationships :
                       /\ reports[r].relationships[i].from \in reports[r].concepts
                       /\ reports[r].relationships[i].to \in reports[r].concepts
                 /\ \A i \in DOMAIN reports[r].resources : reports[r].resources[i].from \in reports[r].concepts
      BY <2>2 DEF Integrity
    <2>. QED  BY <2>2, <2>3 DEF ConceptsAreClosed, ConceptsRight, ToSet
  <1>3. ExtractionInv => ContinuationsAreChains
    <2>1. SUFFICES ASSUME ExtractionInv, stage # "inventory",
                          NEW r \in DOMAIN filing.reports, filing.reports[r].kind = "ixds",
                          None \notin Range(Members(filing, filing.reports[r]))
                   PROVE  LET uris == Members(filing, filing.reports[r])
                          IN  /\ stage # "failed" => AllSound(filing, uris)
                              /\ AllSound(filing, uris) <=> ChainFailure(filing, uris) = None
      BY DEF ContinuationsAreChains, AllSound
    <2>2. IsFiling(filing)
      BY <2>1, FilingIs DEF ExtractionInv
    <2>3. AllSound(filing, Members(filing, filing.reports[r])) <=> ChainFailure(filing, Members(filing, filing.reports[r])) = None
      BY <2>1, <2>2, ChainsAreDecided
    <2>4. ASSUME stage # "failed" PROVE ChainFailure(filing, Members(filing, filing.reports[r])) = None
      <3>1. InventoryOf(filing, filing.reports[r]).failure = None
        BY <2>1, <2>4 DEF ExtractionInv, InventoryFails
      <3>2. Scanned(filing, filing.reports[r])
        BY <2>2, <3>1, ScannedIs
      <3>. QED  BY <2>1, <3>2 DEF Scanned
    <2>. QED  BY <2>3, <2>4
  <1>. QED  BY <1>1, <1>2, <1>3, ExtractionInvariant, PTL DEF AcceptedIsCoherent

-----------------------------------------------------------------------------
(* Observations: the rows as they are read.                                *)

(* What the tables hold of a fact. *)
IsFact(f) ==
  /\ f.id \in Nat /\ f.value \in Int /\ f.decimals \in Int /\ Rounding(f) \in Nat
  /\ f.kind = "duration" => f.start # Null

(* Rows in some order, each once. *)
AreRows(rows) ==
  /\ IsFiniteSet(DOMAIN rows) /\ DOMAIN rows \in SUBSET Nat
  /\ \A i \in DOMAIN rows : IsFact(rows[i])
  /\ \A i, j \in DOMAIN rows : rows[i].id = rows[j].id => i = j

(* Facts with ids of their own. *)
AreFacts(F) ==
  IsFiniteSet(F) /\ (\A f \in F : IsFact(f)) /\ \A f, g \in F : f.id = g.id => f = g

(* The query returns every fact once, in some order. *)
LEMMA RowsOfFacts ==
  ASSUME NEW F, AreFacts(F), NEW rows \in SetToSeqs(F)
  PROVE  AreRows(rows) /\ ToSet(rows) = F
  <1>1. PICK n \in Nat : n = Cardinality(F)
    BY FS_CardinalityType DEF AreFacts
  <1>2. rows \in [1 .. n -> F] /\ \A i, j \in 1 .. n : i # j => rows[i] # rows[j]
    BY <1>1 DEF SetToSeqs
  <1>3. rows \in Injection(1 .. n, F)
    BY <1>2 DEF Injection, IsInjective
  <1>4. Cardinality(1 .. n) = n /\ IsFiniteSet(1 .. n)
    BY FS_Interval
  <1>5. rows \in Surjection(1 .. n, F)
    BY <1>1, <1>3, <1>4, FS_Injection DEF AreFacts
  <1>6. ToSet(rows) = F
    BY <1>2, <1>5 DEF Surjection, ToSet
  <1>. QED  BY <1>2, <1>4, <1>6 DEF AreRows, AreFacts

-----------------------------------------------------------------------------
(* Intervals and groups.                                                   *)

(* The interval of a fact. *)
LEMMA IntervalOf ==
  ASSUME NEW f, IsFact(f)
  PROVE  FactInterval(f).lo \in Int /\ FactInterval(f).hi \in Int /\ FactInterval(f).lo <= FactInterval(f).hi
  <1>1. PICK r \in Nat : r = Rounding(f)
    BY DEF IsFact
  <1>2. FactInterval(f).lo = 2 * f.value - r /\ FactInterval(f).hi = 2 * f.value + r
    BY <1>1 DEF FactInterval
  <1>. QED  BY <1>2 DEF IsFact

(* The intersection of a group: its bounds are bounds of facts. *)
LEMMA CommonOf ==
  ASSUME NEW rows, AreRows(rows), NEW G \in SUBSET DOMAIN rows, G # {}
  PROVE  /\ \E i \in G : Common(rows, G).lo = FactInterval(rows[i]).lo
         /\ \E i \in G : Common(rows, G).hi = FactInterval(rows[i]).hi
         /\ \A i \in G : /\ FactInterval(rows[i]).lo <= Common(rows, G).lo
                         /\ Common(rows, G).hi <= FactInterval(rows[i]).hi
  <1>1. \A i \in G : FactInterval(rows[i]).lo \in Int /\ FactInterval(rows[i]).hi \in Int
    BY IntervalOf DEF AreRows
  <1>2. IsFiniteSet(G)
    BY FS_Subset DEF AreRows
  <1>3. PICK w : w = [i \in G |-> FactInterval(rows[i]).lo]
    OBVIOUS
  <1>4. PICK v : v = [i \in G |-> FactInterval(rows[i]).hi]
    OBVIOUS
  <1>. DEFINE L == { FactInterval(rows[i]).lo : i \in G }
              H == { FactInterval(rows[i]).hi : i \in G }
  <1>5. L = { w[i] : i \in G } /\ (\A i \in G : w[i] \in Int)
    BY <1>1, <1>3
  <1>6. H = { v[i] : i \in G } /\ (\A i \in G : v[i] \in Int)
    BY <1>1, <1>4
  <1>7. Max(L) \in L /\ \A y \in L : y <= Max(L)
    <2>. HIDE DEF L
    <2>. QED  BY <1>2, <1>5, MaxOf
  <1>8. Min(H) \in H /\ \A y \in H : Min(H) <= y
    <2>. HIDE DEF H
    <2>. QED  BY <1>2, <1>6, MinOf
  <1>9. Common(rows, G).lo = Max(L) /\ Common(rows, G).hi = Min(H)
    BY DEF Common
  <1>. QED  BY <1>7, <1>8, <1>9

(* oim_reduce_group narrows an intersection fact by fact.  It succeeds     *)
(* exactly if no two facts disagree, in whichever order they come.         *)
LEMMA ReducesMeans ==
  ASSUME NEW rows, AreRows(rows), NEW G \in SUBSET DOMAIN rows
  PROVE  Reduces(rows, G) <=> \A i, j \in G : ~ Disagree(rows[i], rows[j])
  <1>1. \A i \in G : /\ i \in Nat
                     /\ FactInterval(rows[i]).lo \in Int /\ FactInterval(rows[i]).hi \in Int
                     /\ FactInterval(rows[i]).lo <= FactInterval(rows[i]).hi
    BY IntervalOf DEF AreRows
  <1>. DEFINE before(i) == { j \in G : j < i }
  <1>2. ASSUME Reduces(rows, G), NEW i \in G, NEW j \in G PROVE ~ Disagree(rows[i], rows[j])
    <2>1. rows[i].decimals = rows[j].decimals => rows[i].value = rows[j].value
      BY <1>2 DEF Reduces
    <2>2. ASSUME NEW a \in G, NEW b \in G, a < b
          PROVE  /\ ~ (FactInterval(rows[a]).hi < FactInterval(rows[b]).lo)
                 /\ ~ (FactInterval(rows[b]).hi < FactInterval(rows[a]).lo)
      <3>1. before(b) # {} /\ before(b) \in SUBSET DOMAIN rows /\ a \in before(b)
        BY <2>2
      <3>2. Meets(Common(rows, before(b)), FactInterval(rows[b]))
        BY <1>2, <3>1 DEF Reduces
      <3>3. /\ FactInterval(rows[a]).lo <= Common(rows, before(b)).lo
            /\ Common(rows, before(b)).hi <= FactInterval(rows[a]).hi
            /\ Common(rows, before(b)).lo \in Int /\ Common(rows, before(b)).hi \in Int
        <4>. HIDE DEF before
        <4>1. \A k \in before(b) : k \in G
          BY DEF before
        <4>. QED  BY <1>1, <3>1, <4>1, CommonOf
      <3>. QED  BY <1>1, <3>2, <3>3 DEF Meets
    <2>3. i < j \/ j < i \/ i = j
      BY <1>1
    <2>. QED  BY <1>1, <2>1, <2>2, <2>3 DEF Disagree
  <1>3. ASSUME \A i, j \in G : ~ Disagree(rows[i], rows[j]) PROVE Reduces(rows, G)
    <2>1. ASSUME NEW i \in G, before(i) # {}
          PROVE  Meets(Common(rows, before(i)), FactInterval(rows[i]))
      <3>1. before(i) \in SUBSET DOMAIN rows /\ \A k \in before(i) : k \in G
        OBVIOUS
      <3>2. PICK a \in G : Common(rows, before(i)).lo = FactInterval(rows[a]).lo
        <4>. HIDE DEF before
        <4>. QED  BY <2>1, <3>1, CommonOf
      <3>3. PICK b \in G : Common(rows, before(i)).hi = FactInterval(rows[b]).hi
        <4>. HIDE DEF before
        <4>. QED  BY <2>1, <3>1, CommonOf
      <3>. QED  BY <1>1, <1>3, <3>2, <3>3 DEF Meets, Disagree
    <2>2. \A i, j \in G : rows[i].decimals = rows[j].decimals => rows[i].value = rows[j].value
      BY <1>3 DEF Disagree
    <2>. QED  BY <2>1, <2>2 DEF Reduces
  <1>. QED  BY <1>2, <1>3

(* survivor_rank is a total order: one fact outranks all others. *)
LEMMA TopRank ==
  ASSUME NEW rows, AreRows(rows), NEW G \in SUBSET DOMAIN rows, G # {}
  PROVE  \E i \in G : \A j \in G : i = j \/ Outranks(rows[i], rows[j])
  <1>1. \A i \in G : rows[i].decimals \in Int /\ rows[i].id \in Nat
    BY DEF AreRows, IsFact
  <1>2. IsFiniteSet(G)
    BY FS_Subset DEF AreRows
  <1>3. PICK w : w = [i \in G |-> rows[i].decimals]
    OBVIOUS
  <1>4. PICK a \in G : \A j \in G : w[j] <= w[a]
    BY <1>1, <1>2, <1>3, GreatestOf
  <1>5. PICK v : v = [i \in G |-> - rows[i].id]
    OBVIOUS
  <1>6. PICK T : T = { i \in G : rows[i].decimals = rows[a].decimals }
    OBVIOUS
  <1>7. IsFiniteSet(T) /\ T # {} /\ \A i \in T : i \in G /\ v[i] \in Int
    <2>1. T \in SUBSET G
      BY <1>6
    <2>2. IsFiniteSet(T)
      BY <1>2, <2>1, FS_Subset
    <2>. QED  BY <1>1, <1>5, <1>6, <2>1, <2>2
  <1>8. PICK b \in T : \A j \in T : v[j] <= v[b]
    BY <1>7, GreatestOf
  <1>9. \A j \in G : rows[j].decimals <= rows[a].decimals
    BY <1>3, <1>4
  <1>10. \A j \in T : rows[b].id <= rows[j].id
    <2>1. \A j \in T : v[j] = - rows[j].id /\ rows[j].id \in Nat
      BY <1>1, <1>5, <1>7
    <2>. QED  BY <1>8, <2>1
  <1>11. ASSUME NEW j \in G PROVE b = j \/ Outranks(rows[b], rows[j])
    <2>1. CASE j \in T
      <3>1. rows[b].id = rows[j].id => b = j
        BY <1>6 DEF AreRows
      <3>. QED  BY <1>1, <1>6, <1>10, <2>1, <3>1 DEF Outranks
    <2>2. CASE j \notin T
      BY <1>1, <1>6, <1>9, <2>2 DEF Outranks
    <2>. QED  BY <2>1, <2>2
  <1>. QED  BY <1>6, <1>11

(* The survivor of a group outranks the others. *)
LEMMA SurvivorOf ==
  ASSUME NEW rows, AreRows(rows), NEW G \in SUBSET DOMAIN rows, G # {}
  PROVE  \E i \in G : Survivor(rows, G) = rows[i] /\ \A j \in G : i = j \/ Outranks(rows[i], rows[j])
  <1>1. PICK i : i = CHOOSE k \in G : \A j \in G : k = j \/ Outranks(rows[k], rows[j])
    OBVIOUS
  <1>2. i \in G /\ \A j \in G : i = j \/ Outranks(rows[i], rows[j])
    BY <1>1, TopRank
  <1>. QED  BY <1>1, <1>2 DEF Survivor

-----------------------------------------------------------------------------
(* Selection.                                                              *)

(* Speaking, of the facts L that were read. *)
SpeaksFor(w, L, cik, metric, start, end) ==
  {f \in L :
     /\ ~ f.dims /\ f.valid /\ f.usd /\ f.entity = cik
     /\ f.kind = PeriodType[metric] /\ f.end = end /\ (start # Null => f.start = start)
     /\ \E d \in ToSet(w.decisions) :
          /\ d.accepted /\ d.relation = "exact" /\ d.metric = metric
          /\ AppliesTo(d, f.entity) /\ Matches(d, f.entity, f.ns, f.name)}

StartFor(metric, period) == IF PeriodType[metric] = "duration" THEN period.start ELSE Null

(* resolve_supports and the decisions, one by one: a decision that is      *)
(* accepted is active, once the registry has been loaded.                  *)
LEMMA SupportsMean ==
  ASSUME RegistryLoads(world.decisions), NEW f, NEW metric, NEW cik
  PROVE  SupportsOf(f, metric, "exact", cik) # {}
           <=> \E d \in ToSet(world.decisions) :
                 /\ d.accepted /\ d.relation = "exact" /\ d.metric = metric
                 /\ AppliesTo(d, cik) /\ Matches(d, cik, f.ns, f.name)
  <1>1. \A i \in DOMAIN world.decisions : world.decisions[i].accepted => ~ world.decisions[i].stale
    BY DEF RegistryLoads
  <1>2. \A d : (~ Excluded(d, cik) /\ Matches(d, cik, f.ns, f.name))
               <=> (AppliesTo(d, cik) /\ Matches(d, cik, f.ns, f.name))
    BY DEF AppliesTo, Matches
  <1>3. ToSet(world.decisions) = { world.decisions[i] : i \in DOMAIN world.decisions }
    BY DEF ToSet
  <1>. QED  BY <1>1, <1>2, <1>3 DEF SupportsOf, Active

(* Two active decisions never support one fact. *)
LEMMA OneKey ==
  ASSUME NEW D, RegistryLoads(D), NEW f, NEW metric, NEW cik,
         \A i \in DOMAIN D : D[i].family # "issuer" => D[i].issuer = Null,
         NEW i \in DOMAIN D, ~ D[i].stale, D[i].metric = metric, Matches(D[i], cik, f.ns, f.name),
         NEW j \in DOMAIN D, ~ D[j].stale, D[j].metric = metric, Matches(D[j], cik, f.ns, f.name)
  PROVE  i = j
  <1>1. D[i].family = D[j].family /\ D[i].name = D[j].name
    BY DEF Matches
  <1>2. D[i].issuer = D[j].issuer
    <2>1. CASE D[i].family = "issuer"
      BY <1>1, <2>1 DEF Matches
    <2>2. CASE D[i].family # "issuer"
      BY <1>1, <2>2
    <2>. QED  BY <2>1, <2>2
  <1>3. DecisionKey(D[i]) = DecisionKey(D[j])
    BY <1>1, <1>2 DEF DecisionKey
  <1>. QED  BY <1>3 DEF RegistryLoads

(* At most one decision of a registry that loads supports a fact. *)
LEMMA OneSupport ==
  ASSUME world \in Worlds, RegistryLoads(world.decisions), NEW f, NEW metric, NEW cik,
         SupportsOf(f, metric, "exact", cik) # {}
  PROVE  Cardinality(SupportsOf(f, metric, "exact", cik)) = 1
  <1>1. \A i \in DOMAIN world.decisions :
          world.decisions[i].family # "issuer" => world.decisions[i].issuer = Null
    BY WorldsAssumption
  <1>2. ASSUME NEW i \in SupportsOf(f, metric, "exact", cik), NEW j \in SupportsOf(f, metric, "exact", cik)
        PROVE  i = j
    <2>1. ASSUME NEW k \in SupportsOf(f, metric, "exact", cik)
          PROVE  /\ k \in DOMAIN world.decisions /\ ~ world.decisions[k].stale
                 /\ world.decisions[k].metric = metric /\ Matches(world.decisions[k], cik, f.ns, f.name)
      BY <2>1 DEF SupportsOf, Active
    <2>. QED  BY <1>1, <2>1, OneKey
  <1>3. \E i : SupportsOf(f, metric, "exact", cik) = {i}
    BY <1>2
  <1>. QED  BY <1>3, FS_Singleton

(* The candidates are the facts that speak for the metric. *)
LEMMA CandidatesSpeak ==
  ASSUME RegistryLoads(world.decisions), NEW rows, NEW metric \in Metrics, NEW cik, NEW period,
         period.start # Null
  PROVE  SpeaksFor(world, ToSet(rows), cik, metric, StartFor(metric, period), period.end)
           = { rows[i] : i \in Candidates(rows, metric, "exact", cik, period) }
  <1>. DEFINE Supported(f) == \E d \in ToSet(world.decisions) :
                 /\ d.accepted /\ d.relation = "exact" /\ d.metric = metric
                 /\ AppliesTo(d, cik) /\ Matches(d, cik, f.ns, f.name)
              Fits(f) == /\ ~ f.dims /\ f.valid /\ f.usd /\ f.entity = cik
                         /\ f.kind = PeriodType[metric] /\ f.end = period.end
                         /\ (StartFor(metric, period) # Null => f.start = StartFor(metric, period))
  <1>1. \A f : (SupportsOf(f, metric, "exact", cik) # {}) <=> Supported(f)
    BY SupportsMean
  <1>2. \A f : Qualifies(f, cik, period, PeriodType[metric]) <=> Fits(f)
    BY DEF Qualifies, PeriodMatches, StartFor
  <1>3. SpeaksFor(world, ToSet(rows), cik, metric, StartFor(metric, period), period.end)
          = { f \in ToSet(rows) : Fits(f) /\ Supported(f) }
    BY DEF SpeaksFor
  <1>4. Candidates(rows, metric, "exact", cik, period)
          = { i \in DOMAIN rows : Fits(rows[i]) /\ Supported(rows[i]) }
    <2>. HIDE DEF Fits, Supported
    <2>. QED  BY <1>1, <1>2 DEF Candidates
  <1>5. ToSet(rows) = { rows[i] : i \in DOMAIN rows }
    BY DEF ToSet
  <1>. HIDE DEF Fits, Supported
  <1>. QED  BY <1>3, <1>4, <1>5

(* A survivor is the most precise fact of its concept. *)
LEMMA SurvivorsLead ==
  ASSUME NEW rows, AreRows(rows), NEW C \in SUBSET DOMAIN rows,
         NEW S, S = { rows[i] : i \in C }
  PROVE  /\ \A s \in Survivors(rows, C) : s \in S /\ MostPrecise(s, S)
         /\ \A i \in C : \E s \in Survivors(rows, C) :
              SameConcept(rows[i], s) /\ s \in S /\ rows[i].decimals <= s.decimals
  <1>. DEFINE G(i) == { j \in C : SameConcept(rows[i], rows[j]) }
  <1>1. ByConcept(rows, C) = { G(i) : i \in C }
    BY DEF ByConcept
  <1>2. \A i \in C : i \in G(i) /\ G(i) \in SUBSET DOMAIN rows
    BY DEF SameConcept
  <1>3. ASSUME NEW i \in C
        PROVE  \E k \in G(i) : /\ Survivor(rows, G(i)) = rows[k]
                               /\ \A j \in G(i) : rows[j].decimals <= rows[k].decimals
    <2>1. PICK k \in G(i) : /\ Survivor(rows, G(i)) = rows[k]
                            /\ \A j \in G(i) : k = j \/ Outranks(rows[k], rows[j])
      <3>. HIDE DEF G
      <3>. QED  BY <1>2, SurvivorOf
    <2>2. \A j \in G(i) : rows[j].decimals \in Int
      BY DEF AreRows, IsFact
    <2>3. \A j \in G(i) : rows[j].decimals <= rows[k].decimals
      BY <2>1, <2>2 DEF Outranks
    <2>. QED  BY <2>1, <2>3
  <1>4. ASSUME NEW s \in Survivors(rows, C)
        PROVE  s \in S /\ MostPrecise(s, S)
    <2>1. PICK i \in C : s = Survivor(rows, G(i))
      BY <1>1 DEF Survivors
    <2>2. PICK k \in G(i) : s = rows[k] /\ \A j \in G(i) : rows[j].decimals <= rows[k].decimals
      BY <1>3, <2>1
    <2>3. \A j \in C : SameConcept(rows[k], rows[j]) => j \in G(i)
      BY <2>2 DEF SameConcept
    <2>4. MostPrecise(s, S)
      BY <2>2, <2>3 DEF MostPrecise
    <2>. QED  BY <2>2, <2>4
  <1>5. ASSUME NEW i \in C
        PROVE  \E s \in Survivors(rows, C) :
                 SameConcept(rows[i], s) /\ s \in S /\ rows[i].decimals <= s.decimals
    <2>1. PICK k \in G(i) : /\ Survivor(rows, G(i)) = rows[k]
                            /\ \A j \in G(i) : rows[j].decimals <= rows[k].decimals
      BY <1>3
    <2>2. Survivor(rows, G(i)) \in Survivors(rows, C)
      BY <1>1 DEF Survivors
    <2>. QED  BY <1>2, <2>1, <2>2
  <1>. QED  BY <1>4, <1>5

(* All facts agree exactly if every group reduces and the survivors have   *)
(* one value.                                                              *)
LEMMA AgreementMeans ==
  ASSUME NEW rows, AreRows(rows), NEW C \in SUBSET DOMAIN rows,
         NEW S, S = { rows[i] : i \in C }
  PROVE  (\/ \E group \in ByConcept(rows, C) : ~ Reduces(rows, group)
          \/ Cardinality({ f.value : f \in Survivors(rows, C) }) > 1)
         <=> ~ Agree(S)
  <1>. DEFINE G(i) == { j \in C : SameConcept(rows[i], rows[j]) }
              V == { f.value : f \in Survivors(rows, C) }
  <1>1. ByConcept(rows, C) = { G(i) : i \in C }
    BY DEF ByConcept
  <1>2. (\A group \in ByConcept(rows, C) : Reduces(rows, group))
          <=> \A f, g \in S : SameConcept(f, g) => ~ Disagree(f, g)
    <2>1. \A i \in C : G(i) \in SUBSET DOMAIN rows
      OBVIOUS
    <2>2. \A i \in C : Reduces(rows, G(i)) <=> \A j, k \in G(i) : ~ Disagree(rows[j], rows[k])
      <3>. HIDE DEF G
      <3>. QED  BY <2>1, ReducesMeans
    <2>3. ASSUME \A i \in C : \A j, k \in G(i) : ~ Disagree(rows[j], rows[k]),
                 NEW i \in C, NEW k \in C, SameConcept(rows[i], rows[k])
          PROVE  ~ Disagree(rows[i], rows[k])
      BY <2>3 DEF SameConcept
    <2>4. ASSUME \A f, g \in S : SameConcept(f, g) => ~ Disagree(f, g), NEW i \in C, NEW j \in G(i), NEW k \in G(i)
          PROVE  ~ Disagree(rows[j], rows[k])
      BY <2>4 DEF SameConcept
    <2>. HIDE DEF G
    <2>. QED  BY <1>1, <2>2, <2>3, <2>4
  <1>3. IsFiniteSet(V)
    <2>1. PICK v : v = [i \in C |-> Survivor(rows, G(i)).value]
      OBVIOUS
    <2>2. Survivors(rows, C) = { Survivor(rows, G(i)) : i \in C }
      <3>. HIDE DEF G
      <3>. QED  BY <1>1 DEF Survivors
    <2>3. V = { v[i] : i \in C }
      <3>. HIDE DEF G
      <3>. QED  BY <2>1, <2>2
    <2>4. IsFiniteSet(C)
      BY FS_Subset DEF AreRows
    <2>. QED  BY <2>3, <2>4, FiniteImage
  <1>4. Cardinality(V) > 1 <=> \E x, y \in V : x # y
    <2>. HIDE DEF V
    <2>. QED  BY <1>3, MoreThanOne
  <1>5. \A s \in Survivors(rows, C) : s \in S /\ MostPrecise(s, S)
    BY SurvivorsLead
  <1>6. ASSUME \A f, g \in S : SameConcept(f, g) => ~ Disagree(f, g), NEW f \in S, MostPrecise(f, S)
        PROVE  \E s \in Survivors(rows, C) : s.value = f.value
    <2>1. PICK i \in C : f = rows[i]
      OBVIOUS
    <2>2. PICK s \in Survivors(rows, C) : SameConcept(f, s) /\ s \in S /\ f.decimals <= s.decimals
      BY <2>1, SurvivorsLead
    <2>3. s.decimals <= f.decimals
      BY <1>6, <2>2 DEF MostPrecise
    <2>4. f.decimals \in Int /\ s.decimals \in Int
      BY <2>2 DEF AreRows, IsFact
    <2>5. f.decimals = s.decimals
      BY <2>2, <2>3, <2>4
    <2>. QED  BY <1>6, <2>2, <2>5 DEF Disagree
  <1>7. CASE \A f, g \in S : SameConcept(f, g) => ~ Disagree(f, g)
    <2>1. ASSUME NEW x \in V, NEW y \in V, x # y
          PROVE  \E f, g \in S : MostPrecise(f, S) /\ MostPrecise(g, S) /\ f.value # g.value
      <3>1. PICK f \in Survivors(rows, C), g \in Survivors(rows, C) : x = f.value /\ y = g.value
        OBVIOUS
      <3>. QED  BY <1>5, <2>1, <3>1
    <2>2. ASSUME NEW f \in S, NEW g \in S, MostPrecise(f, S), MostPrecise(g, S), f.value # g.value
          PROVE  \E x, y \in V : x # y
      <3>1. f.value \in V /\ g.value \in V
        BY <1>6, <1>7, <2>2
      <3>. QED  BY <2>2, <3>1
    <2>. QED  BY <1>2, <1>4, <1>7, <2>1, <2>2 DEF Agree
  <1>8. CASE ~ \A f, g \in S : SameConcept(f, g) => ~ Disagree(f, g)
    BY <1>2, <1>8 DEF Agree
  <1>. QED  BY <1>7, <1>8

(* A survivor outranks all others, and it is the most precise of all. *)
LEMMA BestExists ==
  ASSUME NEW rows, AreRows(rows), NEW C \in SUBSET DOMAIN rows, C # {}
  PROVE  \E f \in Survivors(rows, C) : \A g \in Survivors(rows, C) : g = f \/ Outranks(f, g)
  <1>1. PICK S : S = { rows[i] : i \in C }
    OBVIOUS
  <1>2. PICK K : K = { k \in C : rows[k] \in Survivors(rows, C) }
    OBVIOUS
  <1>3. \A s \in Survivors(rows, C) : s \in S /\ MostPrecise(s, S)
    BY <1>1, SurvivorsLead
  <1>4. \A i \in C : \E s \in Survivors(rows, C) :
          SameConcept(rows[i], s) /\ s \in S /\ rows[i].decimals <= s.decimals
    BY <1>1, SurvivorsLead
  <1>5. \A s \in Survivors(rows, C) : \E k \in K : s = rows[k]
    BY <1>1, <1>2, <1>3
  <1>6. K # {} /\ K \in SUBSET DOMAIN rows
    BY <1>2, <1>4, <1>5
  <1>7. PICK k \in K : \A j \in K : k = j \/ Outranks(rows[k], rows[j])
    BY <1>6, TopRank
  <1>. QED  BY <1>2, <1>5, <1>7

(* The best of the survivors is as precise as any candidate. *)
LEMMA BestOf ==
  ASSUME NEW rows, AreRows(rows), NEW C \in SUBSET DOMAIN rows,
         NEW S, S = { rows[i] : i \in C },
         NEW best \in Survivors(rows, C),
         \A g \in Survivors(rows, C) : g = best \/ Outranks(best, g)
  PROVE  best \in S /\ best.decimals = Max({ f.decimals : f \in S })
  <1>1. \A s \in Survivors(rows, C) : s \in S /\ MostPrecise(s, S)
    BY SurvivorsLead
  <1>2. \A i \in C : \E s \in Survivors(rows, C) :
          SameConcept(rows[i], s) /\ s \in S /\ rows[i].decimals <= s.decimals
    BY SurvivorsLead
  <1>3. best \in S
    BY <1>1
  <1>4. \A f \in S : f.decimals \in Int
    BY DEF AreRows, IsFact
  <1>5. ASSUME NEW f \in S PROVE f.decimals <= best.decimals
    <2>1. PICK s \in Survivors(rows, C) : s \in S /\ f.decimals <= s.decimals
      BY <1>2
    <2>2. s = best \/ Outranks(best, s)
      OBVIOUS
    <2>3. s.decimals <= best.decimals
      BY <1>3, <1>4, <2>1, <2>2 DEF Outranks
    <2>4. best.decimals \in Int /\ s.decimals \in Int /\ f.decimals \in Int
      BY <1>3, <1>4, <2>1
    <2>. QED  BY <2>1, <2>3, <2>4
  <1>6. PICK N : N = { f.decimals : f \in S }
    OBVIOUS
  <1>7. best.decimals \in N /\ best.decimals \in Int /\ \A y \in N : y \in Int /\ y <= best.decimals
    BY <1>3, <1>4, <1>5, <1>6
  <1>8. Max(N) = best.decimals
    BY <1>7, MaxIs
  <1>. QED  BY <1>3, <1>6, <1>8

(* SupportsOf, of the decisions D. *)
SupportsIn(D, f, metric, cik) ==
  {i \in DOMAIN D : /\ Active(D[i]) /\ D[i].metric = metric /\ D[i].relation = "exact"
                    /\ ~ Excluded(D[i], cik) /\ Matches(D[i], cik, f.ns, f.name)}

(* SelectionIsRight, of one observation and the facts L that were read. *)
RightFor(w, o, L, cik) ==
  LET S == SpeaksFor(w, L, cik, o.metric, o.start, o.end)
  IN  /\ o.reason \notin {"wrong_form", "decision_scope"} =>
           /\ o.status = "missing" <=> S = {}
           /\ o.status = "value" <=> S # {} /\ Agree(S)
      /\ o.status = "value" =>
           /\ o.facts = { f.id : f \in S }
           /\ o.decimals = Max({ f.decimals : f \in S })
           /\ \E f \in S : f.value = o.numeric /\ f.decimals = o.decimals
           /\ \A f \in S : Cardinality(SupportsIn(w.decisions, f, o.metric, cik)) = 1

(* An observation of filing i for a metric, in the window of a period. *)
ObservationFor(o, i, metric, period) ==
  /\ o.filing = i /\ o.metric = metric /\ o.start = StartFor(metric, period) /\ o.end = period.end
  /\ o.status \in {"value", "missing", "unsupported", "conflict"}
  /\ (o.numeric = Null) = (o.status # "value")

(* An observation without a value. *)
LEMMA NoValueIs ==
  ASSUME NEW i, NEW metric, NEW period, NEW status \in {"missing", "unsupported", "conflict"}, NEW reason,
         NEW o, o = NoValue(i, metric, period, status, reason)
  PROVE  ObservationFor(o, i, metric, period) /\ o.status = status /\ o.reason = reason
  BY DEF NoValue, ObservationFor, StartFor

(* select_metric, whatever the order of the rows. *)
LEMMA SelectedIs ==
  ASSUME world \in Worlds, RegistryLoads(world.decisions), NEW rows, AreRows(rows),
         NEW metric \in Metrics, NEW cik, NEW i, NEW period, period.start # Null,
         NEW o, o = SelectMetric(i, metric, cik, period, rows)
  PROVE  ObservationFor(o, i, metric, period) /\ RightFor(world, o, ToSet(rows), cik)
  <1>1. PICK C : C = Candidates(rows, metric, "exact", cik, period)
    OBVIOUS
  <1>2. C \in SUBSET DOMAIN rows
    BY <1>1 DEF Candidates
  <1>3. PICK S : S = { rows[j] : j \in C }
    OBVIOUS
  <1>4. SpeaksFor(world, ToSet(rows), cik, metric, StartFor(metric, period), period.end) = S
    BY <1>1, <1>3, CandidatesSpeak
  <1>5. Clash(rows, C) <=> ~ Agree(S)
    BY <1>2, <1>3, AgreementMeans DEF Clash
  <1>6. PICK best : best = Best(rows, C)
    OBVIOUS
  <1>7. OutOfScope(metric, cik) => o = NoValue(i, metric, period, "unsupported", "decision_scope")
    BY DEF SelectMetric
  <1>8. ~ OutOfScope(metric, cik) /\ C = {} => \E reason : o = NoValue(i, metric, period, "missing", reason)
    BY <1>1 DEF SelectMetric
  <1>9. ~ OutOfScope(metric, cik) /\ C # {} /\ Clash(rows, C) => o = NoValue(i, metric, period, "conflict", Null)
    BY <1>1 DEF SelectMetric
  <1>10. CASE OutOfScope(metric, cik)
    BY <1>7, <1>10, NoValueIs DEF RightFor
  <1>11. CASE ~ OutOfScope(metric, cik) /\ C = {}
    <2>1. PICK reason : o = NoValue(i, metric, period, "missing", reason)
      BY <1>8, <1>11
    <2>2. ObservationFor(o, i, metric, period) /\ o.status = "missing"
      BY <2>1, NoValueIs
    <2>3. S = {}
      BY <1>3, <1>11
    <2>4. SpeaksFor(world, ToSet(rows), cik, o.metric, o.start, o.end) = {}
      BY <1>4, <2>2, <2>3 DEF ObservationFor
    <2>. QED  BY <2>2, <2>4 DEF RightFor
  <1>12. CASE ~ OutOfScope(metric, cik) /\ C # {} /\ Clash(rows, C)
    <2>1. ObservationFor(o, i, metric, period) /\ o.status = "conflict"
      BY <1>9, <1>12, NoValueIs
    <2>2. S # {} /\ ~ Agree(S)
      BY <1>3, <1>5, <1>12
    <2>3. SpeaksFor(world, ToSet(rows), cik, o.metric, o.start, o.end) = S
      BY <1>4, <2>1 DEF ObservationFor
    <2>. QED  BY <2>1, <2>2, <2>3 DEF RightFor
  <1>13. CASE ~ OutOfScope(metric, cik) /\ C # {} /\ ~ Clash(rows, C)
    <2>1. best \in Survivors(rows, C) /\ \A g \in Survivors(rows, C) : g = best \/ Outranks(best, g)
      BY <1>2, <1>6, <1>13, BestExists DEF Best
    <2>2. best \in S /\ best.decimals = Max({ f.decimals : f \in S })
      BY <1>2, <1>3, <2>1, BestOf
    <2>3. best.value # Null
      BY <1>2, <1>3, <2>2, WorldsAssumption DEF AreRows, IsFact
    <2>4. /\ o.filing = i /\ o.metric = metric /\ o.start = StartFor(metric, period) /\ o.end = period.end
          /\ o.status = "value" /\ o.numeric = best.value /\ o.decimals = best.decimals
          /\ o.facts = { rows[j].id : j \in C }
      BY <1>1, <1>6, <1>13 DEF SelectMetric, NoValue, StartFor
    <2>5. S # {} /\ Agree(S)
      BY <1>3, <1>5, <1>13
    <2>6. SpeaksFor(world, ToSet(rows), cik, o.metric, o.start, o.end) = S
      BY <1>4, <2>4
    <2>7. o.facts = { f.id : f \in S }
      BY <1>3, <2>4
    <2>8. ASSUME NEW f \in S PROVE Cardinality(SupportsIn(world.decisions, f, o.metric, cik)) = 1
      <3>1. SupportsIn(world.decisions, f, metric, cik) = SupportsOf(f, metric, "exact", cik)
        BY DEF SupportsIn, SupportsOf
      <3>2. SupportsOf(f, metric, "exact", cik) # {}
        BY <1>1, <1>3 DEF Candidates
      <3>. QED  BY <2>4, <3>1, <3>2, OneSupport
    <2>9. ObservationFor(o, i, metric, period)
      BY <2>3, <2>4 DEF ObservationFor
    <2>10. \E f \in S : f.value = o.numeric /\ f.decimals = o.decimals
      BY <2>2, <2>4
    <2>11. o.decimals = Max({ f.decimals : f \in S })
      BY <2>2, <2>4
    <2>. QED  BY <2>4, <2>5, <2>6, <2>7, <2>8, <2>9, <2>10, <2>11 DEF RightFor
  <1>. QED  BY <1>10, <1>11, <1>12, <1>13

-----------------------------------------------------------------------------
(* The period.                                                             *)

(* The cover facts of the filer, among those that were read. *)
Covers(L, cik) ==
  {f \in L : IsDei(f, "DocumentPeriodEndDate") /\ f.text # Null /\ f.entity = cik}

(* PeriodIsUnambiguous, for one filing. *)
OnePeriod(L, cik, start, end) ==
  /\ Covers(L, cik) # {}
  /\ \A f \in Covers(L, cik) : f.kind = "duration" /\ f.end = end /\ (start # Null => f.start = start)
  /\ Cardinality(Covers(L, cik)) > 1 => \A f \in Covers(L, cik) : f.text = end

(* resolve_required_reporting_period: the cover that is read first speaks  *)
(* for all.                                                                *)
LEMMA PeriodIs ==
  ASSUME NEW rows, AreRows(rows), NEW cik, PeriodResolves(rows, cik),
         NEW period, period = RequiredPeriod(rows, cik)
  PROVE  period.start # Null /\ OnePeriod(ToSet(rows), cik, period.start, period.end)
  <1>1. PICK own : own = OwnCovers(rows, cik)
    OBVIOUS
  <1>2. own \in SUBSET DOMAIN rows /\ own # {}
    BY <1>1 DEF OwnCovers, PeriodResolves
  <1>3. Covers(ToSet(rows), cik) = { rows[i] : i \in own }
    BY <1>1 DEF Covers, OwnCovers, ToSet
  <1>4. PICK m : m = Min(own)
    OBVIOUS
  <1>5. m \in own
    <2>1. PICK w : w = [i \in own |-> i]
      OBVIOUS
    <2>2. IsFiniteSet(own) /\ (\A i \in own : w[i] \in Int) /\ own = { w[i] : i \in own }
      BY <1>2, <2>1, FS_Subset DEF AreRows
    <2>. QED  BY <1>2, <1>4, <2>2, MinOf
  <1>6. period.start = rows[m].start /\ period.end = rows[m].end
    BY <1>1, <1>4 DEF RequiredPeriod
  <1>7. rows[m].kind = "duration" /\ \A i \in own \ {m} : Equivalent(rows[m], rows[i])
    BY <1>1, <1>4 DEF PeriodResolves
  <1>8. period.start # Null
    BY <1>2, <1>5, <1>6, <1>7 DEF AreRows, IsFact
  <1>9. \A i \in own : rows[i].kind = "duration" /\ rows[i].end = period.end /\ rows[i].start = period.start
    BY <1>5, <1>6, <1>7 DEF Equivalent, SameWindow
  <1>10. ASSUME Cardinality(Covers(ToSet(rows), cik)) > 1, NEW i \in own PROVE rows[i].text = period.end
    <2>1. PICK k \in own : k # m
      <3>1. ASSUME \A k \in own : k = m PROVE FALSE
        <4>1. Covers(ToSet(rows), cik) = {rows[m]}
          BY <1>3, <1>5, <3>1
        <4>2. Cardinality({rows[m]}) = 1
          BY FS_Singleton
        <4>. QED  BY <1>10, <4>1, <4>2
      <3>. QED  BY <3>1
    <2>2. rows[m].text = period.end
      BY <1>6, <1>7, <2>1 DEF Equivalent
    <2>. QED  BY <1>7, <2>2 DEF Equivalent
  <1>. QED  BY <1>2, <1>3, <1>8, <1>9, <1>10 DEF OnePeriod

-----------------------------------------------------------------------------
(* The accounting identities.                                              *)

(* The intersection over all concepts is that of all the facts. *)
LEMMA OperandOf ==
  ASSUME NEW rows, AreRows(rows), NEW G \in SUBSET DOMAIN rows, G # {}
  PROVE  /\ Operand(rows, G).lo \in Int /\ Operand(rows, G).hi \in Int
         /\ \E i \in G : Operand(rows, G).lo = FactInterval(rows[i]).lo
         /\ \E i \in G : Operand(rows, G).hi = FactInterval(rows[i]).hi
         /\ \A i \in G : /\ FactInterval(rows[i]).lo <= Operand(rows, G).lo
                         /\ Operand(rows, G).hi <= FactInterval(rows[i]).hi
  <1>. DEFINE same(i) == { j \in G : SameConcept(rows[i], rows[j]) }
  <1>1. ByConcept(rows, G) = { same(i) : i \in G }
    BY DEF ByConcept
  <1>2. \A i \in G : i \in same(i) /\ same(i) \in SUBSET G
    BY DEF SameConcept
  <1>3. \A i \in G : FactInterval(rows[i]).lo \in Int /\ FactInterval(rows[i]).hi \in Int
    BY IntervalOf DEF AreRows
  <1>4. ASSUME NEW i \in G
        PROVE  /\ \E k \in G : Common(rows, same(i)).lo = FactInterval(rows[k]).lo
               /\ \E k \in G : Common(rows, same(i)).hi = FactInterval(rows[k]).hi
               /\ FactInterval(rows[i]).lo <= Common(rows, same(i)).lo
               /\ Common(rows, same(i)).hi <= FactInterval(rows[i]).hi
    <2>1. same(i) # {} /\ same(i) \in SUBSET DOMAIN rows /\ same(i) \in SUBSET G /\ i \in same(i)
      BY <1>2
    <2>. HIDE DEF same
    <2>. QED  BY <2>1, CommonOf
  <1>5. IsFiniteSet(G)
    BY FS_Subset DEF AreRows
  <1>6. PICK w : w = [i \in G |-> Common(rows, same(i)).lo]
    OBVIOUS
  <1>7. PICK v : v = [i \in G |-> Common(rows, same(i)).hi]
    OBVIOUS
  <1>8. PICK L : L = { w[i] : i \in G }
    OBVIOUS
  <1>9. PICK H : H = { v[i] : i \in G }
    OBVIOUS
  <1>10. { Common(rows, group).lo : group \in ByConcept(rows, G) } = L
    <2>. HIDE DEF same
    <2>. QED  BY <1>1, <1>6, <1>8
  <1>11. { Common(rows, group).hi : group \in ByConcept(rows, G) } = H
    <2>. HIDE DEF same
    <2>. QED  BY <1>1, <1>7, <1>9
  <1>12. Operand(rows, G).lo = Max(L) /\ Operand(rows, G).hi = Min(H)
    BY <1>10, <1>11 DEF Operand
  <1>. HIDE DEF same
  <1>13. \A i \in G : w[i] \in Int /\ v[i] \in Int
    BY <1>3, <1>4, <1>6, <1>7
  <1>14. Max(L) \in L /\ \A y \in L : y <= Max(L)
    BY <1>5, <1>8, <1>13, MaxOf
  <1>15. Min(H) \in H /\ \A y \in H : Min(H) <= y
    BY <1>5, <1>9, <1>13, MinOf
  <1>16. PICK a \in G : Max(L) = w[a]
    BY <1>8, <1>14
  <1>17. PICK b \in G : Min(H) = v[b]
    BY <1>9, <1>15
  <1>18. \E i \in G : Operand(rows, G).lo = FactInterval(rows[i]).lo
    BY <1>4, <1>6, <1>12, <1>16
  <1>19. \E i \in G : Operand(rows, G).hi = FactInterval(rows[i]).hi
    BY <1>4, <1>7, <1>12, <1>17
  <1>20. ASSUME NEW i \in G
         PROVE  /\ FactInterval(rows[i]).lo <= Operand(rows, G).lo
                /\ Operand(rows, G).hi <= FactInterval(rows[i]).hi
    <2>1. w[i] <= Max(L) /\ Min(H) <= v[i]
      BY <1>8, <1>9, <1>14, <1>15
    <2>2. FactInterval(rows[i]).lo <= w[i] /\ v[i] <= FactInterval(rows[i]).hi
      BY <1>4, <1>6, <1>7
    <2>3. Max(L) \in Int /\ Min(H) \in Int
      BY <1>13, <1>16, <1>17
    <2>. QED  BY <1>3, <1>12, <1>13, <2>1, <2>2, <2>3
  <1>. QED  BY <1>3, <1>18, <1>19, <1>20

(* The amounts that the facts of a concept allow are the operand's. *)
LEMMA WithinIs ==
  ASSUME NEW rows, AreRows(rows), NEW G \in SUBSET DOMAIN rows, G # {},
         NEW S, S = { rows[i] : i \in G }
  PROVE  Within(S) = { x \in Int : Operand(rows, G).lo <= x /\ x <= Operand(rows, G).hi }
  <1>1. \A i \in G : FactInterval(rows[i]).lo \in Int /\ FactInterval(rows[i]).hi \in Int
    BY IntervalOf DEF AreRows
  <1>2. IsFiniteSet(G)
    BY FS_Subset DEF AreRows
  <1>3. PICK w : w = [i \in G |-> FactInterval(rows[i]).lo]
    OBVIOUS
  <1>4. PICK v : v = [i \in G |-> FactInterval(rows[i]).hi]
    OBVIOUS
  <1>5. PICK L : L = { w[i] : i \in G }
    OBVIOUS
  <1>6. PICK H : H = { v[i] : i \in G }
    OBVIOUS
  <1>7. { FactInterval(f).lo : f \in S } = L
    BY <1>3, <1>5
  <1>8. { FactInterval(f).hi : f \in S } = H
    BY <1>4, <1>6
  <1>9. \A i \in G : w[i] \in Int /\ v[i] \in Int
    BY <1>1, <1>3, <1>4
  <1>10. Min(L) \in L /\ \A y \in L : Min(L) <= y
    BY <1>2, <1>5, <1>9, MinOf
  <1>12. Max(H) \in H /\ \A y \in H : y <= Max(H)
    BY <1>2, <1>6, <1>9, MaxOf
  <1>13. Min(L) \in Int /\ Max(H) \in Int
    BY <1>5, <1>6, <1>9, <1>10, <1>12
  <1>14. Within(S) = { x \in Min(L) .. Max(H) : \A i \in G : w[i] <= x /\ x <= v[i] }
    <2>1. \A x : (\A f \in S : FactInterval(f).lo <= x /\ x <= FactInterval(f).hi)
                 <=> \A i \in G : w[i] <= x /\ x <= v[i]
      BY <1>3, <1>4
    <2>. QED  BY <1>7, <1>8, <2>1 DEF Within
  <1>15. ASSUME NEW x \in Int, \A i \in G : w[i] <= x /\ x <= v[i] PROVE x \in Min(L) .. Max(H)
    <2>1. PICK i \in G : TRUE
      OBVIOUS
    <2>2. Min(L) <= w[i] /\ v[i] <= Max(H)
      BY <1>5, <1>6, <1>10, <1>12
    <2>3. w[i] <= x /\ x <= v[i]
      BY <1>15
    <2>. QED  BY <1>9, <1>13, <2>2, <2>3
  <1>16. PICK lo \in Int, hi \in Int : lo = Operand(rows, G).lo /\ hi = Operand(rows, G).hi
    BY OperandOf
  <1>17. PICK a \in G : lo = w[a]
    BY <1>3, <1>16, OperandOf
  <1>18. PICK b \in G : hi = v[b]
    BY <1>4, <1>16, OperandOf
  <1>19. \A i \in G : w[i] <= lo /\ hi <= v[i]
    BY <1>3, <1>4, <1>16, OperandOf
  <1>20. ASSUME NEW x \in Int
         PROVE  (\A i \in G : w[i] <= x /\ x <= v[i]) <=> lo <= x /\ x <= hi
    <2>1. (\A i \in G : w[i] <= x /\ x <= v[i]) => lo <= x /\ x <= hi
      BY <1>17, <1>18
    <2>2. lo <= x /\ x <= hi => \A i \in G : w[i] <= x /\ x <= v[i]
      BY <1>9, <1>19
    <2>. QED  BY <2>1, <2>2
  <1>. QED  BY <1>13, <1>14, <1>15, <1>16, <1>20

(* An amount in each of two intervals, with a sum in a third. *)
SumFits(alo, ahi, llo, lhi, elo, ehi) ==
  \E l, e \in Int : llo <= l /\ l <= lhi /\ elo <= e /\ e <= ehi /\ alo <= l + e /\ l + e <= ahi

(* total = part + rest is possible exactly if the intervals meet. *)
LEMMA SumsMeet ==
  ASSUME NEW alo \in Int, NEW ahi \in Int, NEW llo \in Int, NEW lhi \in Int, NEW elo \in Int, NEW ehi \in Int,
         alo <= ahi, llo <= lhi, elo <= ehi
  PROVE  (alo <= lhi + ehi /\ llo + elo <= ahi) <=> SumFits(alo, ahi, llo, lhi, elo, ehi)
  <1>1. ASSUME alo <= lhi + ehi, llo + elo <= ahi
        PROVE  SumFits(alo, ahi, llo, lhi, elo, ehi)
    <2>1. PICK t \in Int : t = IF alo <= llo + elo THEN llo + elo ELSE alo
      OBVIOUS
    <2>2. alo <= t /\ t <= ahi /\ llo + elo <= t /\ t <= lhi + ehi
      BY <1>1, <2>1
    <2>3. PICK l \in Int : l = IF lhi <= t - elo THEN lhi ELSE t - elo
      OBVIOUS
    <2>4. llo <= l /\ l <= lhi /\ elo <= t - l /\ t - l <= ehi
      BY <2>2, <2>3
    <2>5. t - l \in Int /\ l + (t - l) = t
      OBVIOUS
    <2>. QED  BY <2>2, <2>4, <2>5 DEF SumFits
  <1>2. ASSUME NEW l \in Int, NEW e \in Int,
               llo <= l, l <= lhi, elo <= e, e <= ehi, alo <= l + e, l + e <= ahi
        PROVE  alo <= lhi + ehi /\ llo + elo <= ahi
    BY <1>2
  <1>. QED  BY <1>1, <1>2 DEF SumFits

(* There is an operand exactly if the facts agree and their roundings have *)
(* an amount in common.                                                    *)
LEMMA OperandMeans ==
  ASSUME NEW rows, AreRows(rows), NEW G \in SUBSET DOMAIN rows,
         NEW S, S = { rows[i] : i \in G }
  PROVE  HasOperand(rows, G) <=> Agree(S) /\ Operand(rows, G).lo <= Operand(rows, G).hi
  <1>1. PICK V : V = { f.value : f \in Survivors(rows, G) }
    OBVIOUS
  <1>2. { Survivor(rows, group).value : group \in ByConcept(rows, G) } = V
    BY <1>1 DEF Survivors
  <1>3. Cardinality(V) \in Nat
    <2>1. PICK v : v = [i \in G |-> Survivor(rows, { j \in G : SameConcept(rows[i], rows[j]) }).value]
      OBVIOUS
    <2>2. V = { v[i] : i \in G }
      BY <1>1, <2>1 DEF Survivors, ByConcept
    <2>3. IsFiniteSet(G)
      BY FS_Subset DEF AreRows
    <2>. QED  BY <2>2, <2>3, FiniteImage, FS_CardinalityType
  <1>4. Cardinality(V) <= 1 <=> ~ Cardinality(V) > 1
    BY <1>3
  <1>5. ((\A group \in ByConcept(rows, G) : Reduces(rows, group)) /\ ~ Cardinality(V) > 1) <=> Agree(S)
    BY <1>1, AgreementMeans
  <1>. QED  BY <1>2, <1>4, <1>5 DEF HasOperand

(* Amounts within the rounding of all the facts of each side satisfy the   *)
(* identity.                                                               *)
AddUp(SA, SL, SE) == \E l \in Within(SL), e \in Within(SE) : l + e \in Within(SA)

(* The verdict of an identity, in terms of amounts. *)
LEMMA IdentityMeans ==
  ASSUME NEW rows, AreRows(rows),
         NEW A \in SUBSET DOMAIN rows, NEW L \in SUBSET DOMAIN rows, NEW E \in SUBSET DOMAIN rows,
         A # {}, L # {}, E # {},
         NEW SA, SA = { rows[i] : i \in A }, NEW SL, SL = { rows[i] : i \in L }, NEW SE, SE = { rows[i] : i \in E }
  PROVE  Identity(rows, A, L, E) = "pass"
           <=> AddUp(SA, SL, SE) /\ Agree(SA) /\ Agree(SL) /\ Agree(SE)
  <1>1. PICK alo \in Int, ahi \in Int : alo = Operand(rows, A).lo /\ ahi = Operand(rows, A).hi
    BY OperandOf
  <1>2. PICK llo \in Int, lhi \in Int : llo = Operand(rows, L).lo /\ lhi = Operand(rows, L).hi
    BY OperandOf
  <1>3. PICK elo \in Int, ehi \in Int : elo = Operand(rows, E).lo /\ ehi = Operand(rows, E).hi
    BY OperandOf
  <1>4. Within(SA) = { x \in Int : alo <= x /\ x <= ahi }
    BY <1>1, WithinIs
  <1>5. Within(SL) = { x \in Int : llo <= x /\ x <= lhi }
    BY <1>2, WithinIs
  <1>6. Within(SE) = { x \in Int : elo <= x /\ x <= ehi }
    BY <1>3, WithinIs
  <1>7. HasOperand(rows, A) /\ HasOperand(rows, L) /\ HasOperand(rows, E) => alo <= ahi /\ llo <= lhi /\ elo <= ehi
    BY <1>1, <1>2, <1>3 DEF HasOperand
  <1>8. Meets(Operand(rows, A), Plus(Operand(rows, L), Operand(rows, E)))
          <=> alo <= lhi + ehi /\ llo + elo <= ahi
    BY <1>1, <1>2, <1>3 DEF Meets, Plus
  <1>9. (\E l \in Within(SL), e \in Within(SE) : l + e \in Within(SA))
          <=> SumFits(alo, ahi, llo, lhi, elo, ehi)
    <2>1. ASSUME NEW l \in Within(SL), NEW e \in Within(SE), l + e \in Within(SA)
          PROVE  SumFits(alo, ahi, llo, lhi, elo, ehi)
      <3>1. l \in Int /\ llo <= l /\ l <= lhi
        BY <1>5
      <3>2. e \in Int /\ elo <= e /\ e <= ehi
        BY <1>6
      <3>3. alo <= l + e /\ l + e <= ahi
        BY <1>4, <2>1
      <3>. QED  BY <3>1, <3>2, <3>3 DEF SumFits
    <2>2. ASSUME NEW l \in Int, NEW e \in Int,
                 llo <= l, l <= lhi, elo <= e, e <= ehi, alo <= l + e, l + e <= ahi
          PROVE  \E x \in Within(SL), y \in Within(SE) : x + y \in Within(SA)
      <3>1. l \in Within(SL)
        BY <1>5, <2>2
      <3>2. e \in Within(SE)
        BY <1>6, <2>2
      <3>3. l + e \in Within(SA)
        BY <1>4, <2>2
      <3>. QED  BY <3>1, <3>2, <3>3
    <2>. QED  BY <2>1, <2>2 DEF SumFits
  <1>10. HasOperand(rows, A) /\ HasOperand(rows, L) /\ HasOperand(rows, E) =>
           (Identity(rows, A, L, E) = "pass" <=> \E l \in Within(SL), e \in Within(SE) : l + e \in Within(SA))
    <2>1. HasOperand(rows, A) /\ HasOperand(rows, L) /\ HasOperand(rows, E) =>
           (Identity(rows, A, L, E) = "pass" <=> alo <= lhi + ehi /\ llo + elo <= ahi)
      BY <1>8 DEF Identity
    <2>2. HasOperand(rows, A) /\ HasOperand(rows, L) /\ HasOperand(rows, E) =>
           ((alo <= lhi + ehi /\ llo + elo <= ahi)
            <=> SumFits(alo, ahi, llo, lhi, elo, ehi))
      <3>. HAVE HasOperand(rows, A) /\ HasOperand(rows, L) /\ HasOperand(rows, E)
      <3>1. alo <= ahi /\ llo <= lhi /\ elo <= ehi
        BY <1>7
      <3>. QED  BY <3>1, SumsMeet
    <2>. QED  BY <1>9, <2>1, <2>2
  <1>11. Identity(rows, A, L, E) = "pass" => HasOperand(rows, A) /\ HasOperand(rows, L) /\ HasOperand(rows, E)
    BY DEF Identity
  <1>12. ASSUME \E l \in Within(SL), e \in Within(SE) : l + e \in Within(SA)
         PROVE  alo <= ahi /\ llo <= lhi /\ elo <= ehi
    BY <1>4, <1>5, <1>6, <1>12
  <1>13. /\ HasOperand(rows, A) <=> Agree(SA) /\ alo <= ahi
         /\ HasOperand(rows, L) <=> Agree(SL) /\ llo <= lhi
         /\ HasOperand(rows, E) <=> Agree(SE) /\ elo <= ehi
    BY <1>1, <1>2, <1>3, OperandMeans
  <1>. QED  BY <1>10, <1>11, <1>12, <1>13 DEF AddUp

(* The amounts of one concept at the end of the period, of the facts L. *)
InstantFacts(L, cik, end, name) ==
  {f \in L : /\ f.name = name /\ f.ns[1] = "us-gaap" /\ ~ f.dims /\ f.valid /\ f.usd
             /\ f.entity = cik /\ f.kind = "instant" /\ f.end = end}

EquityFacts(L, cik, end) ==
  IF InstantFacts(L, cik, end, "TotalEquity") # {} THEN InstantFacts(L, cik, end, "TotalEquity")
  ELSE InstantFacts(L, cik, end, "StockholdersEquity")

Balances(L, cik, end) ==
  \E l \in Within(InstantFacts(L, cik, end, "Liabilities")), e \in Within(EquityFacts(L, cik, end)) :
    l + e \in Within(InstantFacts(L, cik, end, "Assets"))

(* IdentitiesAreSound, of one verdict and the facts L that were read. *)
SheetSound(status, L, cik, end) ==
  status = "pass"
    <=> /\ Balances(L, cik, end)
        /\ Agree(InstantFacts(L, cik, end, "Assets")) /\ Agree(InstantFacts(L, cik, end, "Liabilities"))
        /\ Agree(EquityFacts(L, cik, end))

(* The facts of a concept, in any order of the rows. *)
LEMMA ConceptFacts ==
  ASSUME NEW rows, NEW cik, NEW period, NEW name
  PROVE  InstantFacts(ToSet(rows), cik, period.end, name)
           = { rows[i] : i \in OfConcept(rows, cik, period, name, "instant") }
  BY DEF InstantFacts, OfConcept, Qualifies, PeriodMatches, ToSet

(* The balance sheet, whatever the order of the rows. *)
LEMMA SheetIsSound ==
  ASSUME NEW rows, AreRows(rows), NEW cik, NEW period
  PROVE  BalanceSheet(rows, cik, period) # "not_applicable"
           => SheetSound(BalanceSheet(rows, cik, period), ToSet(rows), cik, period.end)
  <1>. SUFFICES ASSUME BalanceSheet(rows, cik, period) # "not_applicable"
                PROVE  SheetSound(BalanceSheet(rows, cik, period), ToSet(rows), cik, period.end)
    OBVIOUS
  <1>1. PICK A : A = OfConcept(rows, cik, period, "Assets", "instant")
    OBVIOUS
  <1>2. PICK L : L = OfConcept(rows, cik, period, "Liabilities", "instant")
    OBVIOUS
  <1>3. PICK E : E = EquityOf(rows, cik, period)
    OBVIOUS
  <1>4. A # {} /\ L # {} /\ E # {} /\ BalanceSheet(rows, cik, period) = Identity(rows, A, L, E)
    BY <1>1, <1>2, <1>3 DEF BalanceSheet
  <1>5. PICK name : /\ E = OfConcept(rows, cik, period, name, "instant")
                    /\ EquityFacts(ToSet(rows), cik, period.end) = InstantFacts(ToSet(rows), cik, period.end, name)
    <2>1. PICK T : T = OfConcept(rows, cik, period, "TotalEquity", "instant")
      OBVIOUS
    <2>2. InstantFacts(ToSet(rows), cik, period.end, "TotalEquity") = { rows[i] : i \in T }
      BY <2>1, ConceptFacts
    <2>3. CASE T # {}
      <3>1. E = T
        BY <1>3, <2>1, <2>3 DEF EquityOf
      <3>2. InstantFacts(ToSet(rows), cik, period.end, "TotalEquity") # {}
        BY <2>2, <2>3
      <3>. QED  BY <2>1, <3>1, <3>2 DEF EquityFacts
    <2>4. CASE T = {}
      <3>1. E = OfConcept(rows, cik, period, "StockholdersEquity", "instant")
        BY <1>3, <1>4, <2>1, <2>4 DEF EquityOf
      <3>2. InstantFacts(ToSet(rows), cik, period.end, "TotalEquity") = {}
        BY <2>2, <2>4
      <3>. QED  BY <3>1, <3>2 DEF EquityFacts
    <2>. QED  BY <2>3, <2>4
  <1>6. PICK SA : SA = { rows[i] : i \in A }
    OBVIOUS
  <1>7. PICK SL : SL = { rows[i] : i \in L }
    OBVIOUS
  <1>8. PICK SE : SE = { rows[i] : i \in E }
    OBVIOUS
  <1>9. /\ InstantFacts(ToSet(rows), cik, period.end, "Assets") = SA
        /\ InstantFacts(ToSet(rows), cik, period.end, "Liabilities") = SL
        /\ EquityFacts(ToSet(rows), cik, period.end) = SE
    BY <1>1, <1>2, <1>5, <1>6, <1>7, <1>8, ConceptFacts
  <1>10. Balances(ToSet(rows), cik, period.end) <=> AddUp(SA, SL, SE)
    BY <1>9 DEF Balances, AddUp
  <1>11. ASSUME NEW n PROVE OfConcept(rows, cik, period, n, "instant") \in SUBSET DOMAIN rows
    BY DEF OfConcept
  <1>12. A \in SUBSET DOMAIN rows /\ L \in SUBSET DOMAIN rows /\ E \in SUBSET DOMAIN rows
    BY <1>1, <1>2, <1>5, <1>11
  <1>13. Identity(rows, A, L, E) = "pass"
           <=> AddUp(SA, SL, SE) /\ Agree(SA) /\ Agree(SL) /\ Agree(SE)
    BY <1>4, <1>6, <1>7, <1>8, <1>12, IdentityMeans
  <1>. QED  BY <1>4, <1>9, <1>10, <1>13 DEF SheetSound

-----------------------------------------------------------------------------
(* The inductive invariant.                                                *)

(* An observation of a filing that has been built, and the facts that were *)
(* read for it.                                                            *)
Founded(w, o, L, cik) ==
  /\ o.metric \in Metrics
  /\ o.status \in {"value", "missing", "unsupported", "conflict"}
  /\ (o.numeric = Null) = (o.status # "value")
  /\ RightFor(w, o, L, cik)
  /\ o.end # Null => OnePeriod(L, cik, o.start, o.end)

(* All observations of a filing end on one day. *)
EndsOn(obs, i, end) ==
  (\E o \in obs : o.filing = i) /\ \A o \in obs : o.filing = i => o.end = end

StepOK ==
  /\ world \in Worlds
  /\ step \in {"idle", "registry", "filings", "write", "rename", "quality", "done", "refused", "failed"}
  /\ nth \in 1 .. Len(world.filings) + 1
  /\ step = "filings" => RegistryLoads(world.decisions)
  /\ step \in {"write", "rename", "quality", "done", "refused"} => nth = Len(world.filings) + 1

StoredOK ==
  /\ DOMAIN stored = DOMAIN world.filings
  /\ \A i \in DOMAIN world.filings : stored[i] \in SUBSET FactsOf(world.filings[i])

AnyFacts == UNION {FactsOf(world.filings[i]) : i \in DOMAIN world.filings}

LoadedOK ==
  /\ loaded \in Seq(SUBSET AnyFacts) /\ Len(loaded) = nth - 1
  /\ \A i \in 1 .. nth - 1 : loaded[i] \in SUBSET FactsOf(world.filings[i])

ObservedOK ==
  /\ \A o \in observations :
       o.filing \in 1 .. nth - 1 /\ Founded(world, o, loaded[o.filing], world.filings[o.filing].cik)
  /\ \A o, q \in observations : o.filing = q.filing /\ o.metric = q.metric => o = q
  /\ \A i \in 1 .. nth - 1, m \in Metrics : \E o \in observations : o.filing = i /\ o.metric = m

FoundOK ==
  /\ \A r \in findings :
       /\ r.filing \in 1 .. nth - 1 /\ world.filings[r.filing].form \in AnnualForms
       /\ r.name \in {"nci_split", "balance_sheet"}
       /\ r.name = "balance_sheet" /\ r.status # "not_applicable" =>
            \E end : /\ EndsOn(observations, r.filing, end)
                     /\ SheetSound(r.status, loaded[r.filing], world.filings[r.filing].cik, end)
  /\ \A i \in 1 .. nth - 1, name \in {"nci_split", "balance_sheet"} :
       world.filings[i].form \in AnnualForms => \E r \in findings : r.filing = i /\ r.name = name

ReportOK == (report # {} => step = "done") /\ OracleFollowsTheFact

(* What holds between the steps of a build: every observation and finding  *)
(* is the one that the facts read for its filing call for, those facts are *)
(* ones the tables held, and what is past the last filing is complete.     *)
BuildInv == StepOK /\ StoredOK /\ LoadedOK /\ ObservedOK /\ FoundOK /\ OutputIsWhole /\ ReportOK

(* What the assumption says of one filing. *)
LEMMA FilingFacts ==
  ASSUME NEW w \in Worlds
  PROVE  /\ Len(w.filings) \in Nat /\ DOMAIN w.filings = 1 .. Len(w.filings)
         /\ \A i \in DOMAIN w.filings : \A F \in SUBSET FactsOf(w.filings[i]) : AreFacts(F)
         /\ \A i \in DOMAIN w.filings : \A f, g \in FactsOf(w.filings[i]) : f.id = g.id => f = g
  <1>1. Len(w.filings) \in Nat /\ DOMAIN w.filings = 1 .. Len(w.filings)
    BY WorldsAssumption
  <1>2. ASSUME NEW i \in DOMAIN w.filings, NEW F \in SUBSET FactsOf(w.filings[i]) PROVE AreFacts(F)
    <2>1. IsFiniteSet(F)
      BY WorldsAssumption, FS_Subset
    <2>2. \A f, g \in F : IsFact(f) /\ (f.id = g.id => f = g)
      BY WorldsAssumption DEF IsFact
    <2>. QED  BY <2>1, <2>2 DEF AreFacts
  <1>3. \A i \in DOMAIN w.filings : \A f, g \in FactsOf(w.filings[i]) : f.id = g.id => f = g
    BY WorldsAssumption
  <1>. QED  BY <1>1, <1>2, <1>3

(* The start of a build. *)
LEMMA BuildInvInit == FinancialsInit => BuildInv
  <1>. SUFFICES ASSUME FinancialsInit PROVE BuildInv
    OBVIOUS
  <1>. USE DEF FinancialsInit
  <1>1. Len(world.filings) \in Nat /\ DOMAIN world.filings = 1 .. Len(world.filings)
    BY FilingFacts
  <1>2. StepOK
    BY <1>1 DEF StepOK
  <1>3. StoredOK
    BY DEF StoredOK, FactsOf
  <1>4. LoadedOK
    BY <1>1 DEF LoadedOK
  <1>5. ObservedOK /\ FoundOK
    BY DEF ObservedOK, FoundOK
  <1>6. OutputIsWhole /\ ReportOK
    BY DEF OutputIsWhole, ReportOK, OracleFollowsTheFact
  <1>. QED  BY <1>2, <1>3, <1>4, <1>5, <1>6 DEF BuildInv

(* The observations of the filing at hand, founded on the facts F. *)
BuiltFrom(F, ob, end) ==
  \A m \in Metrics : /\ ob[m].filing = nth /\ ob[m].metric = m /\ ob[m].end = end
                     /\ Founded(world, ob[m], F, world.filings[nth].cik)

(* A filing is built: the facts F are read, and every metric gets an       *)
(* observation.                                                            *)
LEMMA FilingBuilt ==
  ASSUME BuildInv, nth <= Len(world.filings), nth' = nth + 1, world' = world,
         NEW F \in SUBSET FactsOf(world.filings[nth]), loaded' = Append(loaded, F),
         NEW ob, NEW end, observations' = observations \union { ob[m] : m \in Metrics },
         BuiltFrom(F, ob, end)
  PROVE  /\ LoadedOK' /\ ObservedOK'
         /\ nth \in Nat /\ loaded'[nth] = F /\ \A i \in 1 .. nth - 1 : loaded'[i] = loaded[i]
         /\ EndsOn(observations', nth, end)
         /\ \A i \in 1 .. nth - 1 : \A e : EndsOn(observations, i, e) => EndsOn(observations', i, e)
  <1>1. /\ world \in Worlds /\ nth \in Nat /\ nth >= 1 /\ nth \in DOMAIN world.filings
        /\ Len(world.filings) \in Nat /\ DOMAIN world.filings = 1 .. Len(world.filings)
    BY FilingFacts DEF BuildInv, StepOK
  <1>2. F \in SUBSET AnyFacts
    BY <1>1 DEF AnyFacts
  <1>3. loaded \in Seq(SUBSET AnyFacts) /\ Len(loaded) = nth - 1
    BY DEF BuildInv, LoadedOK
  <1>4. loaded' \in Seq(SUBSET AnyFacts) /\ Len(loaded') = nth
    BY <1>1, <1>2, <1>3
  <1>5. loaded'[nth] = F /\ \A i \in 1 .. nth - 1 : loaded'[i] = loaded[i]
    BY <1>1, <1>3
  <1>6. \A i \in 1 .. nth' - 1 : i = nth \/ i \in 1 .. nth - 1
    BY <1>1
  <1>7. LoadedOK'
    <2>1. AnyFacts' = AnyFacts
      BY DEF AnyFacts
    <2>2. Len(loaded') = nth' - 1
      BY <1>1, <1>4
    <2>3. \A i \in 1 .. nth' - 1 : loaded'[i] \in SUBSET FactsOf(world'.filings[i])
      BY <1>5, <1>6 DEF BuildInv, LoadedOK
    <2>. QED  BY <1>4, <2>1, <2>2, <2>3 DEF LoadedOK
  <1>8. \A i \in 1 .. nth - 1 : i # nth /\ i \in 1 .. nth' - 1
    BY <1>1
  <1>9. nth \in 1 .. nth' - 1
    BY <1>1
  <1>10. \A o \in observations : o.filing \in 1 .. nth - 1
    BY DEF BuildInv, ObservedOK
  <1>11. ObservedOK'
    <2>1. ASSUME NEW o \in observations'
          PROVE  /\ o.filing \in 1 .. nth' - 1
                 /\ Founded(world', o, loaded'[o.filing], world'.filings[o.filing].cik)
      <3>1. CASE o \in observations
        BY <1>5, <1>8, <3>1 DEF BuildInv, ObservedOK
      <3>2. CASE o \notin observations
        <4>1. PICK m \in Metrics : o = ob[m]
          BY <3>2
        <4>2. o.filing = nth /\ Founded(world, o, F, world.filings[nth].cik)
          BY <4>1 DEF BuiltFrom
        <4>. QED  BY <1>5, <1>9, <4>2
      <3>. QED  BY <3>1, <3>2
    <2>2. ASSUME NEW o \in observations', NEW q \in observations', o.filing = q.filing, o.metric = q.metric
          PROVE  o = q
      <3>1. CASE o \in observations /\ q \in observations
        BY <2>2, <3>1 DEF BuildInv, ObservedOK
      <3>2. CASE ~ (o \in observations /\ q \in observations)
        BY <1>8, <1>10, <2>2, <3>2 DEF BuiltFrom
      <3>. QED  BY <3>1, <3>2
    <2>3. ASSUME NEW i \in 1 .. nth' - 1, NEW m \in Metrics
          PROVE  \E o \in observations' : o.filing = i /\ o.metric = m
      <3>1. CASE i \in 1 .. nth - 1
        BY <3>1 DEF BuildInv, ObservedOK
      <3>2. CASE i = nth
        BY <3>2 DEF BuiltFrom
      <3>. QED  BY <1>6, <3>1, <3>2
    <2>. QED  BY <2>1, <2>2, <2>3 DEF ObservedOK
  <1>12. EndsOn(observations', nth, end)
    BY <1>8, <1>10, MetricsAssumption DEF EndsOn, BuiltFrom
  <1>13. ASSUME NEW i \in 1 .. nth - 1, NEW e, EndsOn(observations, i, e) PROVE EndsOn(observations', i, e)
    BY <1>8, <1>13 DEF EndsOn, BuiltFrom
  <1>. QED  BY <1>1, <1>5, <1>7, <1>11, <1>12, <1>13

(* The findings of the filings before it stay. *)
LEMMA FoundBefore ==
  ASSUME BuildInv, world' = world, NEW r \in findings,
         \A i \in 1 .. nth - 1 : loaded'[i] = loaded[i],
         \A i \in 1 .. nth - 1 : \A e : EndsOn(observations, i, e) => EndsOn(observations', i, e)
  PROVE  /\ r.filing \in 1 .. nth - 1 /\ world'.filings[r.filing].form \in AnnualForms
         /\ r.name \in {"nci_split", "balance_sheet"}
         /\ r.name = "balance_sheet" /\ r.status # "not_applicable" =>
              \E end : /\ EndsOn(observations', r.filing, end)
                       /\ SheetSound(r.status, loaded'[r.filing], world'.filings[r.filing].cik, end)
  <1>1. /\ r.filing \in 1 .. nth - 1 /\ world.filings[r.filing].form \in AnnualForms
        /\ r.name \in {"nci_split", "balance_sheet"}
    BY DEF BuildInv, FoundOK
  <1>2. ASSUME r.name = "balance_sheet", r.status # "not_applicable"
        PROVE  \E end : /\ EndsOn(observations', r.filing, end)
                        /\ SheetSound(r.status, loaded'[r.filing], world'.filings[r.filing].cik, end)
    <2>1. PICK end : /\ EndsOn(observations, r.filing, end)
                     /\ SheetSound(r.status, loaded[r.filing], world.filings[r.filing].cik, end)
      BY <1>2 DEF BuildInv, FoundOK
    <2>. QED  BY <1>1, <2>1
  <1>. QED  BY <1>1, <1>2

(* Nothing has been reported while the filings are read. *)
LEMMA NotReported ==
  ASSUME BuildInv, step # "done"
  PROVE  report = {}
  BY DEF BuildInv, ReportOK

(* A filing of another form keeps the invariant. *)
LEMMA OtherFormBuilt == ASSUME BuildInv, BuildOtherForm PROVE BuildInv'
  <1>0. /\ step = "filings" /\ nth <= Len(world.filings) /\ world.filings[nth].form \notin AnnualForms
        /\ loaded' = Append(loaded, {}) /\ nth' = nth + 1
        /\ world' = world /\ stored' = stored /\ step' = step /\ findings' = findings
        /\ output' = output /\ report' = report
    BY DEF BuildOtherForm, TheFiling
  <1>1. PICK ob : ob = [m \in Metrics |-> NoValue(nth, m, NoPeriod, "unsupported", "wrong_form")]
    OBVIOUS
  <1>2. observations' = observations \union { ob[m] : m \in Metrics }
    BY <1>1 DEF BuildOtherForm
  <1>3. ASSUME NEW m \in Metrics
        PROVE  /\ ob[m].filing = nth /\ ob[m].metric = m /\ ob[m].end = Null
               /\ Founded(world, ob[m], {}, world.filings[nth].cik)
    <2>1. ObservationFor(ob[m], nth, m, NoPeriod) /\ ob[m].status = "unsupported" /\ ob[m].reason = "wrong_form"
      <3>1. ob[m] = NoValue(nth, m, NoPeriod, "unsupported", "wrong_form")
        BY <1>1
      <3>. QED  BY <3>1, NoValueIs
    <2>2. ob[m].filing = nth /\ ob[m].metric = m /\ ob[m].end = Null
      BY <2>1 DEF ObservationFor, NoPeriod
    <2>3. RightFor(world, ob[m], {}, world.filings[nth].cik)
      BY <2>1 DEF RightFor
    <2>. QED  BY <2>1, <2>2, <2>3 DEF Founded, ObservationFor
  <1>4. /\ LoadedOK' /\ ObservedOK'
        /\ nth \in Nat /\ loaded'[nth] = {} /\ \A i \in 1 .. nth - 1 : loaded'[i] = loaded[i]
        /\ \A i \in 1 .. nth - 1 : \A e : EndsOn(observations, i, e) => EndsOn(observations', i, e)
    <2>1. {} \in SUBSET FactsOf(world.filings[nth])
      OBVIOUS
    <2>2. BuiltFrom({}, ob, Null)
      BY <1>3 DEF BuiltFrom
    <2>. QED  BY <1>0, <1>2, <2>1, <2>2, FilingBuilt
  <1>5. \A i \in 1 .. nth' - 1 : i = nth \/ i \in 1 .. nth - 1
    BY <1>0, <1>4
  <1>6. \A i \in 1 .. nth - 1 : i \in 1 .. nth' - 1
    BY <1>0, <1>4
  <1>7. FoundOK'
    <2>1. ASSUME NEW r \in findings'
          PROVE  /\ r.filing \in 1 .. nth' - 1 /\ world'.filings[r.filing].form \in AnnualForms
                 /\ r.name \in {"nci_split", "balance_sheet"}
                 /\ r.name = "balance_sheet" /\ r.status # "not_applicable" =>
                      \E end : /\ EndsOn(observations', r.filing, end)
                               /\ SheetSound(r.status, loaded'[r.filing], world'.filings[r.filing].cik, end)
      BY <1>0, <1>4, <1>6, FoundBefore
    <2>2. ASSUME NEW i \in 1 .. nth' - 1, NEW name \in {"nci_split", "balance_sheet"},
                 world'.filings[i].form \in AnnualForms
          PROVE  \E r \in findings' : r.filing = i /\ r.name = name
      <3>1. i # nth
        BY <1>0, <2>2
      <3>. QED  BY <1>0, <1>5, <2>2, <3>1 DEF BuildInv, FoundOK
    <2>. QED  BY <2>1, <2>2 DEF FoundOK
  <1>8. StepOK' /\ StoredOK'
    <2>1. Len(world.filings) \in Nat
      BY FilingFacts DEF BuildInv, StepOK
    <2>. QED  BY <1>0, <1>4, <2>1 DEF BuildInv, StepOK, StoredOK
  <1>9. OutputIsWhole'
    BY <1>0 DEF BuildInv, OutputIsWhole
  <1>10. ReportOK'
    BY <1>0, NotReported DEF ReportOK, OracleFollowsTheFact
  <1>. QED  BY <1>4, <1>7, <1>8, <1>9, <1>10 DEF BuildInv

(* A step that builds no filing. *)
LEMMA NothingBuilt ==
  ASSUME BuildInv, UNCHANGED <<world, nth, loaded, observations, findings>>
  PROVE  LoadedOK' /\ ObservedOK' /\ FoundOK'
  <1>1. LoadedOK'
    BY DEF BuildInv, LoadedOK, AnyFacts
  <1>2. ObservedOK'
    BY DEF BuildInv, ObservedOK
  <1>3. FoundOK'
    BY DEF BuildInv, FoundOK
  <1>. QED  BY <1>1, <1>2, <1>3

(* A build that fails keeps it. *)
LEMMA Failing ==
  ASSUME BuildInv, step # "done", step' = "failed",
         UNCHANGED <<world, stored, nth, loaded, observations, findings, output, report>>
  PROVE  BuildInv'
  <1>1. LoadedOK' /\ ObservedOK' /\ FoundOK'
    BY NothingBuilt
  <1>2. StepOK' /\ StoredOK'
    BY DEF BuildInv, StepOK, StoredOK
  <1>3. OutputIsWhole'
    BY DEF BuildInv, OutputIsWhole
  <1>4. ReportOK'
    BY NotReported DEF ReportOK, OracleFollowsTheFact
  <1>. QED  BY <1>1, <1>2, <1>3, <1>4 DEF BuildInv

(* An annual filing keeps it. *)
LEMMA AnnualBuilt == ASSUME BuildInv, BuildAnnual PROVE BuildInv'
  <1>. DEFINE cik == world.filings[nth].cik
              F == IF world.filings[nth].reports = 0 THEN {} ELSE stored[nth]
  <1>1. /\ step = "filings" /\ nth <= Len(world.filings) /\ world.filings[nth].form \in AnnualForms
        /\ world' = world /\ stored' = stored /\ output' = output /\ report' = report
    BY DEF BuildAnnual, TheFiling
  <1>2. /\ world \in Worlds /\ RegistryLoads(world.decisions) /\ nth \in DOMAIN world.filings
        /\ nth \in Nat /\ nth >= 1 /\ Len(world.filings) \in Nat
    BY <1>1, FilingFacts DEF BuildInv, StepOK
  <1>3. F \in SUBSET FactsOf(world.filings[nth]) /\ AreFacts(F)
    <2>1. F \in SUBSET FactsOf(world.filings[nth])
      BY <1>2 DEF BuildInv, StoredOK
    <2>. QED  BY <1>2, <2>1, FilingFacts
  <1>4. PICK rows \in SetToSeqs(F) :
          IF world.filings[nth].reports > 1 \/ ~ PeriodResolves(rows, cik)
          THEN Fail /\ UNCHANGED <<nth, loaded, observations, findings>>
          ELSE /\ observations' = observations \union
                    {SelectMetric(nth, m, cik, RequiredPeriod(rows, cik), rows) : m \in Metrics}
               /\ findings' = findings \union
                    {[filing |-> nth, name |-> "nci_split", status |-> NciSplit(rows, cik, RequiredPeriod(rows, cik))],
                     [filing |-> nth, name |-> "balance_sheet",
                      status |-> BalanceSheet(rows, cik, RequiredPeriod(rows, cik))]}
               /\ loaded' = Append(loaded, ToSet(rows)) /\ nth' = nth + 1
               /\ UNCHANGED step
    BY DEF BuildAnnual, TheFiling, LoadedRows
  <1>5. AreRows(rows) /\ ToSet(rows) = F
    <2>. HIDE DEF F
    <2>. QED  BY <1>3, RowsOfFacts
  <1>. HIDE DEF cik, F
  <1>6. CASE world.filings[nth].reports > 1 \/ ~ PeriodResolves(rows, cik)
    BY <1>1, <1>4, <1>6, Failing DEF Fail
  <1>7. CASE ~ (world.filings[nth].reports > 1 \/ ~ PeriodResolves(rows, cik))
    <2>1. PICK period : period = RequiredPeriod(rows, cik)
      OBVIOUS
    <2>2. PICK sheet : sheet = BalanceSheet(rows, cik, period)
      OBVIOUS
    <2>3. PICK split : split = NciSplit(rows, cik, period)
      OBVIOUS
    <2>4. PICK ob : ob = [m \in Metrics |-> SelectMetric(nth, m, cik, period, rows)]
      OBVIOUS
    <2>5. /\ observations' = observations \union { ob[m] : m \in Metrics }
          /\ findings' = findings \union {[filing |-> nth, name |-> "nci_split", status |-> split],
                                          [filing |-> nth, name |-> "balance_sheet", status |-> sheet]}
          /\ loaded' = Append(loaded, F) /\ nth' = nth + 1 /\ step' = step
      BY <1>4, <1>5, <1>7, <2>1, <2>2, <2>3, <2>4
    <2>6. period.start # Null /\ OnePeriod(F, cik, period.start, period.end)
      BY <1>5, <1>7, <2>1, PeriodIs
    <2>7. ASSUME NEW m \in Metrics
          PROVE  /\ ob[m].filing = nth /\ ob[m].metric = m /\ ob[m].end = period.end
                 /\ Founded(world, ob[m], F, cik)
      <3>1. ob[m] = SelectMetric(nth, m, cik, period, rows)
        BY <2>4
      <3>2. ObservationFor(ob[m], nth, m, period) /\ RightFor(world, ob[m], F, cik)
        BY <1>2, <1>5, <2>6, <3>1, SelectedIs
      <3>3. OnePeriod(F, cik, StartFor(m, period), period.end)
        BY <2>6 DEF OnePeriod, StartFor
      <3>. QED  BY <3>2, <3>3 DEF ObservationFor, Founded
    <2>8. BuiltFrom(F, ob, period.end)
      BY <2>7 DEF BuiltFrom, cik
    <2>9. /\ LoadedOK' /\ ObservedOK'
          /\ loaded'[nth] = F /\ \A i \in 1 .. nth - 1 : loaded'[i] = loaded[i]
          /\ EndsOn(observations', nth, period.end)
          /\ \A i \in 1 .. nth - 1 : \A e : EndsOn(observations, i, e) => EndsOn(observations', i, e)
      BY <1>1, <1>3, <2>5, <2>8, FilingBuilt
    <2>10. sheet # "not_applicable" => SheetSound(sheet, F, cik, period.end)
      BY <1>5, <2>2, SheetIsSound
    <2>11. \A i \in 1 .. nth' - 1 : i = nth \/ i \in 1 .. nth - 1
      BY <1>2, <2>5
    <2>12. nth \in 1 .. nth' - 1 /\ \A i \in 1 .. nth - 1 : i \in 1 .. nth' - 1
      BY <1>2, <2>5
    <2>13. FoundOK'
      <3>1. ASSUME NEW r \in findings'
            PROVE  /\ r.filing \in 1 .. nth' - 1 /\ world'.filings[r.filing].form \in AnnualForms
                   /\ r.name \in {"nci_split", "balance_sheet"}
                   /\ r.name = "balance_sheet" /\ r.status # "not_applicable" =>
                        \E end : /\ EndsOn(observations', r.filing, end)
                                 /\ SheetSound(r.status, loaded'[r.filing], world'.filings[r.filing].cik, end)
        <4>1. CASE r \in findings
          BY <1>1, <2>9, <2>12, <4>1, FoundBefore
        <4>2. CASE r = [filing |-> nth, name |-> "nci_split", status |-> split]
          BY <1>1, <2>12, <4>2
        <4>3. CASE r = [filing |-> nth, name |-> "balance_sheet", status |-> sheet]
          <5>1. r.filing = nth /\ r.name = "balance_sheet" /\ r.status = sheet
            BY <4>3
          <5>. QED  BY <1>1, <2>9, <2>10, <2>12, <5>1 DEF cik
        <4>. QED  BY <2>5, <4>1, <4>2, <4>3
      <3>2. ASSUME NEW i \in 1 .. nth' - 1, NEW name \in {"nci_split", "balance_sheet"},
                   world'.filings[i].form \in AnnualForms
            PROVE  \E r \in findings' : r.filing = i /\ r.name = name
        <4>1. CASE i \in 1 .. nth - 1
          <5>1. world.filings[i].form \in AnnualForms
            BY <1>1, <3>2
          <5>2. PICK r \in findings : r.filing = i /\ r.name = name
            BY <4>1, <5>1 DEF BuildInv, FoundOK
          <5>3. r \in findings'
            BY <2>5
          <5>. QED  BY <5>2, <5>3
        <4>2. CASE i = nth
          <5>1. PICK a : a = [filing |-> nth, name |-> "nci_split", status |-> split]
            OBVIOUS
          <5>2. PICK b : b = [filing |-> nth, name |-> "balance_sheet", status |-> sheet]
            OBVIOUS
          <5>3. a \in findings' /\ b \in findings'
            BY <2>5, <5>1, <5>2
          <5>4. a.filing = nth /\ a.name = "nci_split" /\ b.filing = nth /\ b.name = "balance_sheet"
            BY <5>1, <5>2
          <5>. QED  BY <4>2, <5>3, <5>4
        <4>. QED  BY <2>11, <4>1, <4>2
      <3>. QED  BY <3>1, <3>2 DEF FoundOK
    <2>14. StepOK' /\ StoredOK'
      BY <1>1, <1>2, <2>5 DEF BuildInv, StepOK, StoredOK
    <2>15. OutputIsWhole'
      BY <1>1 DEF BuildInv, OutputIsWhole
    <2>16. ReportOK'
      BY <1>1, NotReported DEF ReportOK, OracleFollowsTheFact
    <2>. QED  BY <2>9, <2>13, <2>14, <2>15, <2>16 DEF BuildInv
  <1>. QED  BY <1>6, <1>7

(* What the build has made of all the filings. *)
LEMMA WholeMade ==
  ASSUME BuildInv, nth = Len(world.filings) + 1
  PROVE  /\ {<<o.filing, o.metric>> : o \in observations} = (DOMAIN world.filings) \X Metrics
         /\ {<<r.filing, r.name>> : r \in findings} =
              {i \in DOMAIN world.filings : world.filings[i].form \in AnnualForms}
                \X {"nci_split", "balance_sheet"}
  <1>1. DOMAIN world.filings = 1 .. nth - 1
    BY FilingFacts DEF BuildInv, StepOK
  <1>2. /\ \A o \in observations : o.filing \in DOMAIN world.filings /\ o.metric \in Metrics
        /\ \A i \in DOMAIN world.filings, m \in Metrics : \E o \in observations : o.filing = i /\ o.metric = m
    BY <1>1 DEF BuildInv, ObservedOK, Founded
  <1>3. PICK annual : annual = {i \in DOMAIN world.filings : world.filings[i].form \in AnnualForms}
    OBVIOUS
  <1>4. /\ \A r \in findings : r.filing \in annual /\ r.name \in {"nci_split", "balance_sheet"}
        /\ \A i \in annual, name \in {"nci_split", "balance_sheet"} :
             \E r \in findings : r.filing = i /\ r.name = name
    BY <1>1, <1>3 DEF BuildInv, FoundOK
  <1>5. {<<o.filing, o.metric>> : o \in observations} = (DOMAIN world.filings) \X Metrics
    BY <1>2
  <1>6. {<<r.filing, r.name>> : r \in findings} = annual \X {"nci_split", "balance_sheet"}
    BY <1>4
  <1>. QED  BY <1>3, <1>5, <1>6

(* So does the rename of the output directory. *)
LEMMA Renamed == ASSUME BuildInv, RenameOutput PROVE BuildInv'
  <1>1. CASE output # Null
    BY <1>1, Failing DEF RenameOutput, Fail
  <1>2. CASE output = Null
    <2>1. /\ step = "rename" /\ output' = Directory(observations, findings) /\ step' = "quality"
          /\ UNCHANGED <<world, stored, nth, loaded, observations, findings, report>>
      BY <1>2 DEF RenameOutput
    <2>2. LoadedOK' /\ ObservedOK' /\ FoundOK'
      BY <2>1, NothingBuilt
    <2>3. StepOK' /\ StoredOK'
      BY <2>1 DEF BuildInv, StepOK, StoredOK
    <2>4. nth = Len(world.filings) + 1
      BY <2>1 DEF BuildInv, StepOK
    <2>5. output'.observations = observations /\ output'.findings = findings
      BY <2>1 DEF Directory
    <2>6. OutputIsWhole'
      BY <2>1, <2>4, <2>5, WholeMade DEF OutputIsWhole
    <2>7. ReportOK'
      BY <2>1, NotReported DEF ReportOK, OracleFollowsTheFact
    <2>. QED  BY <2>2, <2>3, <2>6, <2>7 DEF BuildInv
  <1>. QED  BY <1>1, <1>2

(* oracle_comparison_for_observation finds a fact the build chose, or      *)
(* none, in rows that may have been replaced: an id names one fact.        *)
LEMMA Reported == ASSUME BuildInv, ReportQuality PROVE BuildInv'
  <1>1. /\ step = "quality" /\ step' = "done"
        /\ report' = {[slot |-> o, label |-> OracleLabel(o, stored[o.filing])] : o \in observations}
        /\ UNCHANGED <<world, stored, nth, loaded, observations, findings, output>>
    BY DEF ReportQuality
  <1>2. LoadedOK' /\ ObservedOK' /\ FoundOK'
    BY <1>1, NothingBuilt
  <1>3. StepOK' /\ StoredOK'
    BY <1>1 DEF BuildInv, StepOK, StoredOK
  <1>4. OutputIsWhole'
    BY <1>1 DEF BuildInv, OutputIsWhole
  <1>5. ASSUME NEW o \in observations, OracleLabel(o, stored[o.filing]) # "na"
        PROVE  \E f \in Speaking(o) :
                 /\ f.value = o.numeric /\ f \in stored[o.filing]
                 /\ OracleLabel(o, stored[o.filing]) = "absent" => OracleValues(o, f) = {}
                 /\ OracleLabel(o, stored[o.filing]) = "agree" => OracleValues(o, f) = {f.value}
                 /\ OracleLabel(o, stored[o.filing]) = "differ"
                      => OracleValues(o, f) # {} /\ f.value \notin OracleValues(o, f)
    <2>1. PICK E : E = OracleFact(o, stored[o.filing])
      OBVIOUS
    <2>2. o.status = "value" /\ E # {}
      BY <1>5, <2>1 DEF OracleLabel
    <2>3. PICK f : f = CHOOSE x \in E : \A y \in E : x.id <= y.id
      OBVIOUS
    <2>4. o.filing \in 1 .. nth - 1 /\ o.filing \in DOMAIN world.filings /\ world \in Worlds
      BY FilingFacts DEF BuildInv, StepOK, ObservedOK
    <2>5. /\ stored[o.filing] \in SUBSET FactsOf(world.filings[o.filing])
          /\ loaded[o.filing] \in SUBSET FactsOf(world.filings[o.filing])
      BY <2>4 DEF BuildInv, StoredOK, LoadedOK
    <2>6. \A g \in E : g \in stored[o.filing] /\ g.id \in o.facts /\ g.value = o.numeric
      BY <2>1 DEF OracleFact
    <2>7. f \in E
      <3>1. \A g \in E : g.id \in Nat
        BY <2>4, <2>5, <2>6, WorldsAssumption
      <3>2. IsFiniteSet(E)
        <4>1. E \in SUBSET FactsOf(world.filings[o.filing])
          BY <2>5, <2>6
        <4>2. AreFacts(E)
          BY <2>4, <4>1, FilingFacts
        <4>. QED  BY <4>2 DEF AreFacts
      <3>3. PICK w : w = [g \in E |-> - g.id]
        OBVIOUS
      <3>4. PICK x \in E : \A y \in E : w[y] <= w[x]
        BY <2>2, <3>1, <3>2, <3>3, GreatestOf
      <3>5. \A y \in E : x.id <= y.id
        <4>1. \A y \in E : w[y] = - y.id
          BY <3>3
        <4>. QED  BY <3>1, <3>4, <4>1
      <3>. QED  BY <2>3, <3>4, <3>5
    <2>8. f \in Speaking(o)
      <3>1. RightFor(world, o, loaded[o.filing], world.filings[o.filing].cik)
        BY DEF BuildInv, ObservedOK, Founded
      <3>2. o.facts = { g.id : g \in SpeaksFor(world, loaded[o.filing], world.filings[o.filing].cik,
                                              o.metric, o.start, o.end) }
        BY <2>2, <3>1 DEF RightFor
      <3>3. SpeaksFor(world, loaded[o.filing], world.filings[o.filing].cik, o.metric, o.start, o.end) = Speaking(o)
        BY DEF SpeaksFor, Speaking
      <3>4. PICK g \in Speaking(o) : g.id = f.id
        BY <2>6, <2>7, <3>2, <3>3
      <3>5. g \in loaded[o.filing]
        BY DEF Speaking
      <3>6. g = f
        BY <2>4, <2>5, <2>6, <2>7, <3>4, <3>5, FilingFacts
      <3>. QED  BY <3>6
    <2>9. PICK values : values = OracleValues(o, f)
      OBVIOUS
    <2>10. OracleLabel(o, stored[o.filing]) =
             IF values = {} THEN "absent" ELSE IF Cardinality(values) > 1 THEN "ambiguous"
             ELSE IF values = {o.numeric} THEN "agree" ELSE "differ"
      BY <1>5, <2>1, <2>3, <2>9 DEF OracleLabel
    <2>11. OracleLabel(o, stored[o.filing]) = "differ" => o.numeric \notin values
      <3>. SUFFICES ASSUME OracleLabel(o, stored[o.filing]) = "differ", o.numeric \in values PROVE FALSE
        OBVIOUS
      <3>1. values # {o.numeric} /\ ~ (Cardinality(values) > 1)
        BY <2>10
      <3>2. IsFiniteSet(values)
        <4>1. PICK P : P = {q \in world.points : /\ q.filing = o.filing /\ q.family = f.ns[1] /\ q.name = f.name
                                                /\ q.start = o.start /\ q.end = o.end}
          OBVIOUS
        <4>2. P \in SUBSET world.points
          BY <4>1
        <4>3. IsFiniteSet(P)
          BY <2>4, <4>2, WorldsAssumption, FS_Subset
        <4>4. PICK w : w = [q \in P |-> q.value]
          OBVIOUS
        <4>5. values = { w[q] : q \in P }
          BY <2>9, <4>1, <4>4 DEF OracleValues
        <4>. QED  BY <4>3, <4>5, FiniteImage
      <3>3. \A x, y \in values : x = y
        BY <3>1, <3>2, MoreThanOne
      <3>. QED  BY <3>1, <3>3
    <2>. QED  BY <2>6, <2>7, <2>8, <2>9, <2>10, <2>11
  <1>6. OracleFollowsTheFact'
    <2>1. ASSUME NEW o \in observations
          PROVE  Speaking(o)' = Speaking(o) /\ \A f : OracleValues(o, f)' = OracleValues(o, f)
      BY <1>1 DEF Speaking, OracleValues
    <2>. QED  BY <1>1, <1>5, <2>1 DEF OracleFollowsTheFact
  <1>. QED  BY <1>1, <1>2, <1>3, <1>4, <1>6 DEF BuildInv, ReportOK

(* Every step keeps the invariant. *)
LEMMA BuildInvStep == BuildInv /\ [FinancialsNext]_financialsVars => BuildInv'
  <1>. SUFFICES ASSUME BuildInv, [FinancialsNext]_financialsVars PROVE BuildInv'
    OBVIOUS
  <1>1. CASE LoadRegistry
    <2>1. CASE RegistryLoads(world.decisions)
      <3>1. /\ step = "registry" /\ step' = "filings"
            /\ UNCHANGED <<world, stored, nth, loaded, observations, findings, output, report>>
        BY <1>1, <2>1 DEF LoadRegistry
      <3>2. LoadedOK' /\ ObservedOK' /\ FoundOK'
        BY <3>1, NothingBuilt
      <3>3. StepOK' /\ StoredOK' /\ OutputIsWhole'
        BY <2>1, <3>1 DEF BuildInv, StepOK, StoredOK, OutputIsWhole
      <3>4. ReportOK'
        BY <3>1, NotReported DEF ReportOK, OracleFollowsTheFact
      <3>. QED  BY <3>2, <3>3, <3>4 DEF BuildInv
    <2>2. CASE ~ RegistryLoads(world.decisions)
      BY <1>1, <2>2, Failing DEF LoadRegistry, Fail
    <2>. QED  BY <2>1, <2>2
  <1>2. CASE BuildOtherForm
    BY <1>2, OtherFormBuilt
  <1>3. CASE BuildAnnual
    BY <1>3, AnnualBuilt
  <1>4. CASE BuildAbsent
    BY <1>4, Failing DEF BuildAbsent, Fail
  <1>5. CASE CheckGold
    <2>1. CASE GoldHolds
      <3>1. /\ step = "filings" /\ nth > Len(world.filings) /\ step' = "write"
            /\ UNCHANGED <<world, stored, nth, loaded, observations, findings, output, report>>
        BY <1>5, <2>1 DEF CheckGold
      <3>2. LoadedOK' /\ ObservedOK' /\ FoundOK'
        BY <3>1, NothingBuilt
      <3>3. Len(world.filings) \in Nat
        BY FilingFacts DEF BuildInv, StepOK
      <3>4. StepOK' /\ StoredOK' /\ OutputIsWhole'
        BY <3>1, <3>3 DEF BuildInv, StepOK, StoredOK, OutputIsWhole
      <3>5. ReportOK'
        BY <3>1, NotReported DEF ReportOK, OracleFollowsTheFact
      <3>. QED  BY <3>2, <3>4, <3>5 DEF BuildInv
    <2>2. CASE ~ GoldHolds
      BY <1>5, <2>2, Failing DEF CheckGold, Fail
    <2>. QED  BY <2>1, <2>2
  <1>6. CASE StartWriting
    <2>1. CASE output = Null
      <3>1. /\ step = "write" /\ step' = "rename"
            /\ UNCHANGED <<world, stored, nth, loaded, observations, findings, output, report>>
        BY <1>6, <2>1 DEF StartWriting
      <3>2. LoadedOK' /\ ObservedOK' /\ FoundOK'
        BY <3>1, NothingBuilt
      <3>3. StepOK' /\ StoredOK' /\ OutputIsWhole'
        BY <3>1 DEF BuildInv, StepOK, StoredOK, OutputIsWhole
      <3>4. ReportOK'
        BY <3>1, NotReported DEF ReportOK, OracleFollowsTheFact
      <3>. QED  BY <3>2, <3>3, <3>4 DEF BuildInv
    <2>2. CASE output # Null
      BY <1>6, <2>2, Failing DEF StartWriting, Fail
    <2>. QED  BY <2>1, <2>2
  <1>7. CASE RenameOutput
    BY <1>7, Renamed
  <1>8. CASE FailQuality
    BY <1>8, Failing DEF FailQuality, Fail
  <1>9. CASE RefuseQuality
    <2>1. /\ step = "quality" /\ step' = "refused"
          /\ UNCHANGED <<world, stored, nth, loaded, observations, findings, output, report>>
      BY <1>9 DEF RefuseQuality
    <2>2. LoadedOK' /\ ObservedOK' /\ FoundOK'
      BY <2>1, NothingBuilt
    <2>3. StepOK' /\ StoredOK' /\ OutputIsWhole'
      BY <2>1 DEF BuildInv, StepOK, StoredOK, OutputIsWhole
    <2>4. ReportOK'
      BY <2>1, NotReported DEF ReportOK, OracleFollowsTheFact
    <2>. QED  BY <2>2, <2>3, <2>4 DEF BuildInv
  <1>10. CASE ReportQuality
    BY <1>10, Reported
  <1>11. CASE Reextract
    <2>1. /\ step # "done" /\ UNCHANGED <<world, step, nth, loaded, observations, findings, output, report>>
      BY <1>11 DEF Reextract
    <2>2. PICK i \in DOMAIN world.filings :
            world.filings[i].next # Null /\ stored' = [stored EXCEPT ![i] = world.filings[i].next]
      BY <1>11 DEF Reextract
    <2>3. LoadedOK' /\ ObservedOK' /\ FoundOK'
      BY <2>1, NothingBuilt
    <2>4. world.filings[i].next \in SUBSET FactsOf(world.filings[i])
      BY <2>2 DEF FactsOf
    <2>5. StoredOK'
      BY <2>1, <2>2, <2>4 DEF BuildInv, StoredOK
    <2>6. StepOK' /\ OutputIsWhole'
      BY <2>1 DEF BuildInv, StepOK, OutputIsWhole
    <2>7. ReportOK'
      BY <2>1, NotReported DEF ReportOK, OracleFollowsTheFact
    <2>. QED  BY <2>3, <2>5, <2>6, <2>7 DEF BuildInv
  <1>12. CASE OtherBuild
    <2>1. /\ output' = [ours |-> FALSE]
          /\ UNCHANGED <<world, stored, step, nth, loaded, observations, findings, report>>
      BY <1>12 DEF OtherBuild
    <2>2. LoadedOK' /\ ObservedOK' /\ FoundOK'
      BY <2>1, NothingBuilt
    <2>3. StepOK' /\ StoredOK'
      BY <2>1 DEF BuildInv, StepOK, StoredOK
    <2>4. OutputIsWhole'
      BY <2>1 DEF OutputIsWhole
    <2>5. ReportOK'
      BY <2>1 DEF BuildInv, ReportOK, OracleFollowsTheFact, Speaking, OracleValues
    <2>. QED  BY <2>2, <2>3, <2>4, <2>5 DEF BuildInv
  <1>13. CASE BuildDies
    BY <1>13, Failing DEF BuildDies, Fail
  <1>14. CASE UNCHANGED financialsVars
    <2>1. UNCHANGED <<world, stored, step, nth, loaded, observations, findings, output, report>>
      BY <1>14 DEF financialsVars
    <2>2. LoadedOK' /\ ObservedOK' /\ FoundOK'
      BY <2>1, NothingBuilt
    <2>3. StepOK' /\ StoredOK' /\ OutputIsWhole'
      BY <2>1 DEF BuildInv, StepOK, StoredOK, OutputIsWhole
    <2>4. ReportOK'
      BY <2>1 DEF BuildInv, ReportOK, OracleFollowsTheFact, Speaking, OracleValues
    <2>. QED  BY <2>2, <2>3, <2>4 DEF BuildInv
  <1>. QED  BY <1>1, <1>2, <1>3, <1>4, <1>5, <1>6, <1>7, <1>8, <1>9, <1>10, <1>11, <1>12, <1>13, <1>14
            DEF FinancialsNext

(* Every build keeps the invariant. *)
LEMMA BuildInvHolds == FinancialsSpec => []BuildInv
  BY BuildInvInit, BuildInvStep, PTL DEF FinancialsSpec

-----------------------------------------------------------------------------
(* What follows from it.                                                   *)

(* Whatever order the facts of a filing are read in, and whatever is       *)
(* extracted again meanwhile, every observation of edgar build is the one  *)
(* that all the facts read for its filing, and only they, call for: of the *)
(* one period the cover facts agree on, a value where the facts that speak *)
(* for the metric agree, a conflict where they do not, and missing where   *)
(* there are none (select_metric, oim_reduce_group,                        *)
(* resolve_required_reporting_period).                                     *)
THEOREM ObservationsFollowTheFacts == FinancialsSpec => []ObservationsAreRight
  <1>1. BuildInv => FinancialsTypeOK
    BY DEF BuildInv, StepOK, LoadedOK, ObservedOK, Founded, FinancialsTypeOK
  <1>2. BuildInv => SelectionIsRight
    <2>. SUFFICES ASSUME BuildInv, NEW o \in observations, o.reason \notin {"wrong_form", "decision_scope"}
                  PROVE  /\ o.status = "missing" <=> Speaking(o) = {}
                         /\ o.status = "value" <=> Speaking(o) # {} /\ Agree(Speaking(o))
                         /\ o.status = "value" =>
                              /\ o.facts = {f.id : f \in Speaking(o)}
                              /\ o.decimals = Max({f.decimals : f \in Speaking(o)})
                              /\ \E f \in Speaking(o) : f.value = o.numeric /\ f.decimals = o.decimals
                              /\ \A f \in Speaking(o) :
                                   Cardinality(SupportsOf(f, o.metric, "exact", world.filings[o.filing].cik)) = 1
      BY DEF SelectionIsRight
    <2>1. SpeaksFor(world, loaded[o.filing], world.filings[o.filing].cik, o.metric, o.start, o.end) = Speaking(o)
      BY DEF SpeaksFor, Speaking
    <2>2. RightFor(world, o, loaded[o.filing], world.filings[o.filing].cik)
      BY DEF BuildInv, ObservedOK, Founded
    <2>3. \A f : SupportsIn(world.decisions, f, o.metric, world.filings[o.filing].cik)
                   = SupportsOf(f, o.metric, "exact", world.filings[o.filing].cik)
      BY DEF SupportsIn, SupportsOf
    <2>. QED  BY <2>1, <2>2, <2>3 DEF RightFor
  <1>3. BuildInv => PeriodIsUnambiguous
    <2>. SUFFICES ASSUME BuildInv, NEW o \in observations, o.end # Null
                  PROVE  OnePeriod(loaded[o.filing], world.filings[o.filing].cik, o.start, o.end)
      BY DEF PeriodIsUnambiguous, OnePeriod, Covers
    <2>. QED  BY DEF BuildInv, ObservedOK, Founded
  <1>4. BuildInv => ObservationsAreRight
    BY <1>1, <1>2, <1>3 DEF ObservationsAreRight
  <1>. QED  BY <1>4, BuildInvHolds, PTL

(* A balance sheet passes exactly if amounts within the rounding of what   *)
(* was filed for each side at the end of the period balance and the facts  *)
(* of each side agree among themselves, whatever other years are filed     *)
(* with it (_operand_interval, ClosedInterval, run_identity_checks).       *)
THEOREM SheetsSound == FinancialsSpec => []IdentitiesAreSound
  <1>1. BuildInv => IdentitiesAreSound
    <2>. SUFFICES ASSUME BuildInv, NEW r \in findings, r.name = "balance_sheet", r.status # "not_applicable"
                  PROVE  r.status = "pass" <=> CanBalance(r.filing) /\ SidesAgree(r.filing)
      BY DEF IdentitiesAreSound
    <2>1. PICK end : /\ EndsOn(observations, r.filing, end)
                     /\ SheetSound(r.status, loaded[r.filing], world.filings[r.filing].cik, end)
      BY DEF BuildInv, FoundOK
    <2>2. \A name : SheetFacts(r.filing, name)
                      = InstantFacts(loaded[r.filing], world.filings[r.filing].cik, end, name)
      BY <2>1 DEF EndsOn, SheetFacts, InstantFacts
    <2>3. CanBalance(r.filing) <=> Balances(loaded[r.filing], world.filings[r.filing].cik, end)
      BY <2>2 DEF CanBalance, SheetEquity, Balances, EquityFacts
    <2>4. SidesAgree(r.filing)
            <=> LET F(name) == InstantFacts(loaded[r.filing], world.filings[r.filing].cik, end, name)
                IN  /\ Agree(F("Assets")) /\ Agree(F("Liabilities"))
                    /\ Agree(EquityFacts(loaded[r.filing], world.filings[r.filing].cik, end))
      BY <2>2 DEF SidesAgree, SheetEquity, EquityFacts
    <2>. QED  BY <2>1, <2>3, <2>4 DEF SheetSound
  <1>. QED  BY <1>1, BuildInvHolds, PTL

(* The output directory appears whole, with every observation and finding  *)
(* of every filing, and what a build has published, or another build has,  *)
(* is never replaced (write_build_output).                                 *)
THEOREM OutputFinal == FinancialsSpec => OutputIsFinal
  <1>1. [FinancialsNext]_financialsVars => [output # Null => output' = output]_financialsVars
    BY DEF FinancialsNext, financialsVars, LoadRegistry, BuildOtherForm, BuildAnnual, BuildAbsent, CheckGold,
           StartWriting, RenameOutput, FailQuality, RefuseQuality, ReportQuality, Reextract, OtherBuild, BuildDies
  <1>2. BuildInv => OutputIsWhole
    BY DEF BuildInv
  <1>. QED  BY <1>1, <1>2, BuildInvHolds, PTL DEF FinancialsSpec, OutputIsFinal

(* A companyfacts verdict of the quality report is about a fact that the   *)
(* build read and chose, although the rows may have been replaced between  *)
(* the build and the report (oracle_comparison_for_observation).           *)
THEOREM OracleFollows == FinancialsSpec => []OracleFollowsTheFact
  <1>1. BuildInv => OracleFollowsTheFact
    BY DEF BuildInv, ReportOK
  <1>. QED  BY <1>1, BuildInvHolds, PTL
=============================================================================
