------------------------------ MODULE SumProofs ------------------------------
(***************************************************************************)
(* What MapThenSumSet computes: the sum of the weights of a finite set,    *)
(* whatever the order in which its elements are chosen.  The budgets that  *)
(* LogicalPayloadBudget and the closure charge are such sums, and these    *)
(* are the facts that the proofs about them cite.                          *)
(*                                                                         *)
(* Beside them, what a fold over a sequence computes, step by step, and    *)
(* the facts about finite sets of integers that several modules need.      *)
(*                                                                         *)
(* The library's induction theorems take an operator, so the induction is  *)
(* stated here for a set: a set of naturals that holds 0 and the successor *)
(* of each of its members is Nat, since a least natural outside it would   *)
(* have a predecessor in it.                                               *)
(***************************************************************************)
EXTENDS Integers, FiniteSetsExt, FiniteSetTheorems, TLAPS

(* The element that the fold takes first. *)
Chosen(s) == CHOOSE x \in s : TRUE

(* The sum of the weights w[x], for the x in S. *)
SumOf(w, S) == MapThenSumSet(LAMBDA x : w[x], S)

(* f is the recursive function whose value at S the fold returns. *)
IsFold(f, w, S) ==
  f = [s \in SUBSET S |-> IF s = {} THEN 0 ELSE w[Chosen(s)] + f[s \ {Chosen(s)}]]

-----------------------------------------------------------------------------
(* Induction.                                                              *)

(* Induction over the naturals, for a set. *)
LEMMA SetInduction ==
  ASSUME NEW P \in SUBSET Nat, 0 \in P, \A n \in P : n + 1 \in P
  PROVE  P = Nat
  <1>. SUFFICES ASSUME Nat \ P # {} PROVE FALSE
    OBVIOUS
  <1>1. PICK n \in Nat \ P : \A m \in Nat \ P : ~ (<<m, n>> \in OpToRel(<, Nat))
    BY WFMin, NatLessThanWellFounded
  <1>2. \A m \in Nat \ P : ~ (m < n)
    BY <1>1 DEF OpToRel
  <1>3. n - 1 \in Nat /\ n - 1 < n
    OBVIOUS
  <1>4. n - 1 \in P
    BY <1>2, <1>3
  <1>. QED  BY <1>3, <1>4

(* Induction over the subsets of a finite set. *)
LEMMA SubsetInduction ==
  ASSUME NEW S, IsFiniteSet(S), NEW P \in SUBSET (SUBSET S), {} \in P,
         \A s \in SUBSET S : s # {} /\ (\A x \in s : s \ {x} \in P) => s \in P
  PROVE  P = SUBSET S
  <1>. DEFINE Q == { n \in Nat : \A s \in SUBSET S : Cardinality(s) = n => s \in P }
  <1>1. \A s \in SUBSET S : IsFiniteSet(s) /\ Cardinality(s) \in Nat
    BY FS_Subset, FS_CardinalityType
  <1>2. 0 \in Q
    BY <1>1, FS_EmptySet
  <1>3. ASSUME NEW n \in Q PROVE n + 1 \in Q
    <2>. SUFFICES ASSUME NEW s \in SUBSET S, Cardinality(s) = n + 1 PROVE s \in P
      OBVIOUS
    <2>1. s # {}
      BY FS_EmptySet
    <2>2. ASSUME NEW x \in s PROVE s \ {x} \in P
      <3>1. Cardinality(s \ {x}) = n
        BY <1>1, FS_RemoveElement
      <3>. QED  BY <3>1
    <2>. QED  BY <2>1, <2>2
  <1>4. Q = Nat
    <2>. HIDE DEF Q
    <2>1. Q \in SUBSET Nat
      BY DEF Q
    <2>. QED  BY <1>2, <1>3, <2>1, SetInduction
  <1>. QED  BY <1>1, <1>4

-----------------------------------------------------------------------------
(* The recursive function of the fold.                                     *)

(* The recursive function exists, set by set in the order of their size. *)
LEMMA FoldExists ==
  ASSUME NEW S, IsFiniteSet(S), NEW w, \A x \in S : w[x] \in Nat
  PROVE  \E f \in [SUBSET S -> Nat] : IsFold(f, w, S)
  <1>. DEFINE D(n)    == { s \in SUBSET S : Cardinality(s) <= n }
              V(g, s) == IF s = {} THEN 0 ELSE w[Chosen(s)] + g[s \ {Chosen(s)}]
              Q       == { n \in Nat : \E g \in [D(n) -> Nat] : \A s \in D(n) : g[s] = V(g, s) }
  <1>1. \A s \in SUBSET S : /\ IsFiniteSet(s) /\ Cardinality(s) \in Nat
                            /\ Cardinality(s) = 0 => s = {}
    BY FS_Subset, FS_CardinalityType, FS_EmptySet
  <1>2. \A s \in SUBSET S : s # {} =>
          Chosen(s) \in s /\ Cardinality(s \ {Chosen(s)}) = Cardinality(s) - 1
    BY <1>1, FS_RemoveElement DEF Chosen
  <1>3. 0 \in Q
    <2>1. \A s \in D(0) : s = {}
      BY <1>1
    <2>2. [s \in D(0) |-> 0] \in [D(0) -> Nat]
          /\ \A s \in D(0) : [t \in D(0) |-> 0][s] = V([t \in D(0) |-> 0], s)
      BY <2>1
    <2>. QED  BY <2>2
  <1>4. ASSUME NEW n \in Q PROVE n + 1 \in Q
    <2>1. PICK g \in [D(n) -> Nat] : \A s \in D(n) : g[s] = V(g, s)
      OBVIOUS
    <2>. DEFINE h == [s \in D(n + 1) |-> V(g, s)]
    <2>2. ASSUME NEW s \in D(n + 1), s # {} PROVE Chosen(s) \in S /\ s \ {Chosen(s)} \in D(n)
      BY <1>1, <1>2, <2>2
    <2>3. D(n) \subseteq D(n + 1)
      BY <1>1
    <2>4. \A s \in D(n) : h[s] = g[s]
      BY <2>1, <2>3
    <2>5. h \in [D(n + 1) -> Nat]
      BY <2>2
    <2>6. ASSUME NEW s \in D(n + 1) PROVE h[s] = V(h, s)
      <3>1. h[s] = V(g, s)
        OBVIOUS
      <3>2. CASE s = {}
        BY <3>1, <3>2
      <3>3. CASE s # {}
        <4>1. h[s \ {Chosen(s)}] = g[s \ {Chosen(s)}]
          BY <2>2, <2>4, <3>3
        <4>. HIDE DEF h
        <4>. QED  BY <3>1, <3>3, <4>1
      <3>. QED  BY <3>2, <3>3
    <2>7. \E k \in [D(n + 1) -> Nat] : \A s \in D(n + 1) : k[s] = V(k, s)
      <3>. HIDE DEF h
      <3>. QED  BY <2>5, <2>6
    <2>8. n + 1 \in Nat
      OBVIOUS
    <2>. HIDE DEF D, V, h
    <2>. QED  BY <2>7, <2>8
  <1>5. Q = Nat
    <2>. HIDE DEF Q
    <2>1. Q \in SUBSET Nat
      BY DEF Q
    <2>. QED  BY <1>3, <1>4, <2>1, SetInduction
  <1>6. Cardinality(S) \in Nat /\ D(Cardinality(S)) = SUBSET S
    BY FS_Subset, FS_CardinalityType, <1>1
  <1>7. PICK g \in [SUBSET S -> Nat] : \A s \in SUBSET S : g[s] = V(g, s)
    <2>. HIDE DEF D, V
    <2>1. Cardinality(S) \in Q
      BY <1>5, <1>6
    <2>. QED  BY <1>6, <2>1
  <1>8. g = [s \in SUBSET S |-> V(g, s)]
    BY <1>7
  <1>. QED  BY <1>8 DEF IsFold

(* The fold is the value of that function. *)
LEMMA SumIsFold ==
  ASSUME NEW S, IsFiniteSet(S), NEW w, \A x \in S : w[x] \in Nat
  PROVE  \E f : IsFold(f, w, S) /\ SumOf(w, S) = f[S]
  <1>. DEFINE g == CHOOSE f : IsFold(f, w, S)
  <1>1. IsFold(g, w, S)
    BY FoldExists
  <1>2. SumOf(w, S) = g[S]
    BY DEF SumOf, MapThenSumSet, MapThenFoldSet, IsFold, Chosen
  <1>. QED  BY <1>1, <1>2

(* What the function is at each set. *)
LEMMA FoldValues ==
  ASSUME NEW S, NEW w, NEW f, IsFold(f, w, S)
  PROVE  /\ f[{}] = 0
         /\ \A s \in SUBSET S : s # {} => Chosen(s) \in s /\ f[s] = w[Chosen(s)] + f[s \ {Chosen(s)}]
  <1>1. \A s \in SUBSET S : f[s] = IF s = {} THEN 0 ELSE w[Chosen(s)] + f[s \ {Chosen(s)}]
    BY DEF IsFold
  <1>2. \A s \in SUBSET S : s # {} => Chosen(s) \in s
    BY DEF Chosen
  <1>. QED  BY <1>1, <1>2

(* Two such functions agree where their weights do. *)
LEMMA FoldsAgree ==
  ASSUME NEW S, IsFiniteSet(S), NEW T, S \subseteq T, NEW w, NEW v, \A x \in S : w[x] = v[x],
         NEW f, IsFold(f, w, S), NEW g, IsFold(g, v, T)
  PROVE  \A s \in SUBSET S : f[s] = g[s]
  <1>. DEFINE P == { s \in SUBSET S : f[s] = g[s] }
  <1>1. {} \in P
    BY FoldValues
  <1>2. ASSUME NEW s \in SUBSET S, s # {}, \A x \in s : s \ {x} \in P PROVE s \in P
    <2>1. s \in SUBSET T
      OBVIOUS
    <2>2. Chosen(s) \in s /\ f[s] = w[Chosen(s)] + f[s \ {Chosen(s)}]
          /\ g[s] = v[Chosen(s)] + g[s \ {Chosen(s)}]
      BY <1>2, <2>1, FoldValues
    <2>. QED  BY <1>2, <2>2
  <1>3. P = SUBSET S
    <2>. HIDE DEF P
    <2>1. P \in SUBSET (SUBSET S)
      BY DEF P
    <2>. QED  BY <1>1, <1>2, <2>1, SubsetInduction
  <1>. QED  BY <1>3

(* The sums are naturals. *)
LEMMA FoldNat ==
  ASSUME NEW S, IsFiniteSet(S), NEW w, \A x \in S : w[x] \in Nat, NEW f, IsFold(f, w, S)
  PROVE  \A s \in SUBSET S : f[s] \in Nat
  <1>1. PICK g \in [SUBSET S -> Nat] : IsFold(g, w, S)
    BY FoldExists
  <1>2. \A s \in SUBSET S : f[s] = g[s]
    BY <1>1, FoldsAgree
  <1>. QED  BY <1>2

(* Any element may be taken first. *)
LEMMA FoldAnyOrder ==
  ASSUME NEW S, IsFiniteSet(S), NEW w, \A x \in S : w[x] \in Nat, NEW f, IsFold(f, w, S)
  PROVE  \A s \in SUBSET S : \A x \in s : f[s] = w[x] + f[s \ {x}]
  <1>. DEFINE P == { s \in SUBSET S : \A x \in s : f[s] = w[x] + f[s \ {x}] }
  <1>1. {} \in P
    OBVIOUS
  <1>2. ASSUME NEW s \in SUBSET S, s # {}, \A x \in s : s \ {x} \in P PROVE s \in P
    <2>1. PICK c \in s : f[s] = w[c] + f[s \ {c}]
      <3>1. s # {}
        BY <1>2
      <3>2. Chosen(s) \in s /\ f[s] = w[Chosen(s)] + f[s \ {Chosen(s)}]
        BY <3>1, FoldValues
      <3>. QED  BY <3>2
    <2>2. ASSUME NEW x \in s, x # c PROVE f[s] = w[x] + f[s \ {x}]
      <3>. DEFINE rest == (s \ {c}) \ {x}
      <3>1. rest = (s \ {x}) \ {c} /\ rest \in SUBSET S
        OBVIOUS
      <3>2. f[s \ {c}] = w[x] + f[rest]
        BY <1>2, <2>2
      <3>3. f[s \ {x}] = w[c] + f[rest]
        BY <1>2, <2>2, <3>1
      <3>4. f[rest] \in Nat /\ w[x] \in Nat /\ w[c] \in Nat
        BY <3>1, FoldNat
      <3>. HIDE DEF rest
      <3>. QED  BY <2>1, <3>2, <3>3, <3>4
    <2>. QED  BY <2>1, <2>2
  <1>3. P = SUBSET S
    <2>. HIDE DEF P
    <2>1. P \in SUBSET (SUBSET S)
      BY DEF P
    <2>. QED  BY <1>1, <1>2, <2>1, SubsetInduction
  <1>. QED  BY <1>3

-----------------------------------------------------------------------------
(* Sums.                                                                   *)

(* Nothing weighs nothing. *)
LEMMA SumOfNone == ASSUME NEW w PROVE SumOf(w, {}) = 0
  <1>1. PICK f : IsFold(f, w, {}) /\ SumOf(w, {}) = f[{}]
    BY SumIsFold, FS_EmptySet
  <1>. QED  BY <1>1, FoldValues

(* A sum of naturals is one. *)
LEMMA SumOfNat ==
  ASSUME NEW S, IsFiniteSet(S), NEW w, \A x \in S : w[x] \in Nat
  PROVE  SumOf(w, S) \in Nat
  <1>1. PICK f : IsFold(f, w, S) /\ SumOf(w, S) = f[S]
    BY SumIsFold
  <1>. QED  BY <1>1, FoldNat

(* Weights that agree on the set have the same sum. *)
LEMMA SumOfSame ==
  ASSUME NEW S, IsFiniteSet(S), NEW w, NEW v, \A x \in S : w[x] \in Nat /\ v[x] = w[x]
  PROVE  SumOf(v, S) = SumOf(w, S)
  <1>1. PICK f : IsFold(f, w, S) /\ SumOf(w, S) = f[S]
    BY SumIsFold
  <1>2. PICK g : IsFold(g, v, S) /\ SumOf(v, S) = g[S]
    BY SumIsFold
  <1>3. f[S] = g[S]
    BY <1>1, <1>2, FoldsAgree
  <1>. QED  BY <1>1, <1>2, <1>3

(* One more element adds its weight. *)
LEMMA SumOfMore ==
  ASSUME NEW S, IsFiniteSet(S), NEW x, x \notin S,
         NEW w, \A y \in S \union {x} : w[y] \in Nat
  PROVE  SumOf(w, S \union {x}) = SumOf(w, S) + w[x]
  <1>. DEFINE T == S \union {x}
  <1>1. IsFiniteSet(T) /\ T \ {x} = S /\ S \subseteq T /\ x \in T /\ \A y \in T : w[y] \in Nat
    BY FS_AddElement
  <1>. HIDE DEF T
  <1>2. PICK f : IsFold(f, w, T) /\ SumOf(w, T) = f[T]
    BY <1>1, SumIsFold
  <1>3. PICK g : IsFold(g, w, S) /\ SumOf(w, S) = g[S]
    BY <1>1, SumIsFold
  <1>4. f[T] = w[x] + f[S]
    BY <1>1, <1>2, FoldAnyOrder
  <1>5. g[S] = f[S]
    BY <1>1, <1>2, <1>3, FoldsAgree
  <1>6. g[S] \in Nat /\ w[x] \in Nat
    BY <1>3, FoldNat
  <1>. QED  BY <1>2, <1>3, <1>4, <1>5, <1>6 DEF T

(* The sum over two sets without a common element. *)
LEMMA SumOfDisjoint ==
  ASSUME NEW S, IsFiniteSet(S), NEW T, IsFiniteSet(T), S \intersect T = {},
         NEW w, \A y \in S \union T : w[y] \in Nat
  PROVE  SumOf(w, S \union T) = SumOf(w, S) + SumOf(w, T)
  <1>. DEFINE P == { t \in SUBSET T : SumOf(w, S \union t) = SumOf(w, S) + SumOf(w, t) }
  <1>1. SumOf(w, S) \in Nat
    BY SumOfNat
  <1>2. {} \in P
    <2>1. S \union {} = S
      OBVIOUS
    <2>. QED  BY <1>1, <2>1, SumOfNone
  <1>3. ASSUME NEW t \in SUBSET T, t # {}, \A x \in t : t \ {x} \in P PROVE t \in P
    <2>1. PICK x \in t : t \ {x} \in P
      BY <1>3
    <2>2. PICK u \in SUBSET T : u = t \ {x}
      OBVIOUS
    <2>3. IsFiniteSet(u)
      BY FS_Subset
    <2>4. IsFiniteSet(S \union u)
      BY <2>3, FS_Union
    <2>5. x \notin u /\ x \notin S \union u /\ u \union {x} = t /\ (S \union u) \union {x} = S \union t
      BY <2>1, <2>2
    <2>6. \A y \in S \union t : w[y] \in Nat
      OBVIOUS
    <2>7. SumOf(w, u \union {x}) = SumOf(w, u) + w[x]
      BY <2>3, <2>4, <2>5, <2>6, SumOfMore
    <2>8. SumOf(w, (S \union u) \union {x}) = SumOf(w, S \union u) + w[x]
      BY <2>3, <2>4, <2>5, <2>6, SumOfMore
    <2>9. SumOf(w, S \union u) = SumOf(w, S) + SumOf(w, u)
      BY <2>1, <2>2
    <2>10. w[x] \in Nat /\ SumOf(w, u) \in Nat
      BY <2>2, <2>3, <2>6, SumOfNat
    <2>11. /\ SumOf(w, t) = SumOf(w, u) + w[x]
           /\ SumOf(w, S \union t) = (SumOf(w, S) + SumOf(w, u)) + w[x]
      BY <2>5, <2>7, <2>8, <2>9
    <2>12. SumOf(w, S \union t) = SumOf(w, S) + SumOf(w, t)
      BY <1>1, <2>10, <2>11
    <2>. QED  BY <2>12
  <1>4. P \in SUBSET (SUBSET T)
    OBVIOUS
  <1>5. P = SUBSET T
    <2>. HIDE DEF P
    <2>. QED  BY <1>2, <1>3, <1>4, SubsetInduction
  <1>. QED  BY <1>5

(* A part of a set has no larger sum. *)
LEMMA SumOfPart ==
  ASSUME NEW T, IsFiniteSet(T), NEW S \in SUBSET T, NEW w, \A y \in T : w[y] \in Nat
  PROVE  SumOf(w, S) <= SumOf(w, T)
  <1>1. PICK U \in SUBSET T : U = T \ S
    OBVIOUS
  <1>2. IsFiniteSet(S) /\ IsFiniteSet(U) /\ S \intersect U = {} /\ S \union U = T
    BY <1>1, FS_Subset
  <1>3. SumOf(w, S \union U) = SumOf(w, S) + SumOf(w, U)
    BY <1>2, SumOfDisjoint
  <1>4. SumOf(w, S) \in Nat /\ SumOf(w, U) \in Nat
    BY <1>2, SumOfNat
  <1>5. SumOf(w, T) = SumOf(w, S) + SumOf(w, U)
    BY <1>2, <1>3
  <1>. QED  BY <1>4, <1>5

-----------------------------------------------------------------------------
(* The greatest and the least of finitely many numbers.                    *)

(* Of finitely many things one has the greatest number. *)
LEMMA GreatestOf ==
  ASSUME NEW S, IsFiniteSet(S), S # {}, NEW w, \A x \in S : w[x] \in Int
  PROVE  \E x \in S : \A y \in S : w[y] <= w[x]
  <1>. DEFINE P == { s \in SUBSET S : s # {} => \E x \in s : \A y \in s : w[y] <= w[x] }
  <1>1. P \in SUBSET (SUBSET S) /\ {} \in P
    OBVIOUS
  <1>2. ASSUME NEW s \in SUBSET S, s # {}, \A x \in s : s \ {x} \in P PROVE s \in P
    <2>1. PICK z \in s : s \ {z} \in P
      BY <1>2
    <2>2. CASE s \ {z} = {}
      <3>1. \A y \in s : w[y] <= w[z]
        BY <2>2
      <3>. QED  BY <2>1, <3>1
    <2>3. CASE s \ {z} # {}
      <3>1. PICK x \in s \ {z} : \A y \in s \ {z} : w[y] <= w[x]
        BY <2>1, <2>3
      <3>2. CASE w[z] <= w[x]
        BY <3>1, <3>2
      <3>3. CASE w[x] <= w[z]
        <4>1. \A y \in s : w[y] <= w[z]
          BY <3>1, <3>3
        <4>. QED  BY <2>1, <4>1
      <3>. QED  BY <3>1, <3>2, <3>3
    <2>. QED  BY <2>2, <2>3
  <1>3. P = SUBSET S
    <2>. HIDE DEF P
    <2>. QED  BY <1>1, <1>2, SubsetInduction
  <1>. QED  BY <1>3

(* What Max and Min return of their numbers. *)
LEMMA MaxOf ==
  ASSUME NEW S, IsFiniteSet(S), S # {}, NEW w, \A x \in S : w[x] \in Int,
         NEW N, N = { w[x] : x \in S }
  PROVE  Max(N) \in N /\ \A y \in N : y <= Max(N)
  <1>1. PICK x \in S : \A y \in S : w[y] <= w[x]
    BY GreatestOf
  <1>2. w[x] \in N /\ \A y \in N : w[x] >= y
    BY <1>1
  <1>3. Max(N) \in N /\ \A y \in N : Max(N) >= y
    BY <1>2 DEF Max
  <1>. QED  BY <1>3

LEMMA MaxIs ==
  ASSUME NEW N, NEW m \in N, m \in Int, \A y \in N : y \in Int /\ y <= m
  PROVE  Max(N) = m
  <1>1. \A y \in N : m >= y
    OBVIOUS
  <1>2. Max(N) \in N /\ \A y \in N : Max(N) >= y
    BY <1>1 DEF Max
  <1>3. Max(N) \in Int /\ Max(N) >= m /\ Max(N) <= m
    BY <1>2
  <1>. QED  BY <1>3

LEMMA MinOf ==
  ASSUME NEW S, IsFiniteSet(S), S # {}, NEW w, \A x \in S : w[x] \in Int,
         NEW N, N = { w[x] : x \in S }
  PROVE  Min(N) \in N /\ \A y \in N : Min(N) <= y
  <1>1. PICK v : v = [x \in S |-> - w[x]]
    OBVIOUS
  <1>2. \A x \in S : v[x] \in Int
    BY <1>1
  <1>3. PICK x \in S : \A y \in S : v[y] <= v[x]
    BY <1>2, GreatestOf
  <1>4. w[x] \in N /\ \A y \in N : w[x] <= y
    BY <1>1, <1>3
  <1>. QED  BY <1>4 DEF Min

(* The numbers of finitely many things are finitely many. *)
LEMMA FiniteImage ==
  ASSUME NEW S, IsFiniteSet(S), NEW w
  PROVE  IsFiniteSet({ w[x] : x \in S })
  <1>1. PICK v : v = [x \in S |-> w[x]]
    OBVIOUS
  <1>2. v \in Surjection(S, { w[x] : x \in S })
    BY <1>1 DEF Surjection
  <1>. QED  BY <1>2, FS_Surjection

(* A finite set of more than one has two. *)
LEMMA MoreThanOne ==
  ASSUME NEW V, IsFiniteSet(V)
  PROVE  /\ Cardinality(V) \in Nat
         /\ Cardinality(V) > 1 <=> \E x, y \in V : x # y
  <1>1. Cardinality(V) \in Nat
    BY FS_CardinalityType
  <1>2. CASE \E x, y \in V : x # y
    <2>1. PICK x \in V, y \in V : x # y
      BY <1>2
    <2>2. Cardinality(V) # 0
      BY FS_EmptySet
    <2>3. Cardinality(V) # 1
      BY <2>1, FS_Singleton
    <2>. QED  BY <1>1, <1>2, <2>2, <2>3
  <1>3. CASE ~ \E x, y \in V : x # y
    <2>1. V = {} \/ \E x : V = {x}
      BY <1>3
    <2>2. Cardinality(V) = 0 \/ Cardinality(V) = 1
      BY <2>1, FS_EmptySet, FS_Singleton
    <2>. QED  BY <1>1, <1>3, <2>2
  <1>. QED  BY <1>2, <1>3

-----------------------------------------------------------------------------
(* The recursive function of a fold over a sequence.                       *)

(* The greatest of some of the first naturals. *)
LEMMA MaxOfSome ==
  ASSUME NEW n \in Nat, NEW s \in SUBSET (1..n), s # {}
  PROVE  Max(s) \in s /\ \A y \in s : y <= Max(s)
  <1>. DEFINE w == [x \in s |-> x]
  <1>0. 1 \in Int /\ n \in Int
    OBVIOUS
  <1>1. IsFiniteSet(s)
    <2>1. IsFiniteSet(1..n)
      BY <1>0, FS_Interval
    <2>. QED  BY <2>1, FS_Subset
  <1>2. \A x \in s : w[x] \in Int
    OBVIOUS
  <1>3. s = { w[x] : x \in s }
    OBVIOUS
  <1>. HIDE DEF w
  <1>. QED  BY <1>1, <1>2, <1>3, MaxOf

(* c is the recursive function of a fold from the left over n elements, where *)
(* the step for the i-th of them takes x to h[<<i, x>>].                      *)
IsIter(h, base, n, c) ==
  c = [s \in SUBSET (1..n) |-> IF s = {} THEN base ELSE h[<<Max(s), c[s \ {Max(s)}]>>]]

(* The function exists, set by set in the order of their size. *)
LEMMA IterExists ==
  ASSUME NEW X, NEW base \in X, NEW n \in Nat, NEW h \in [(1..n) \X X -> X]
  PROVE  \E c \in [SUBSET (1..n) -> X] : IsIter(h, base, n, c)
  <1>. DEFINE D(k)    == { s \in SUBSET (1..n) : Cardinality(s) <= k }
              V(g, s) == IF s = {} THEN base ELSE h[<<Max(s), g[s \ {Max(s)}]>>]
              Q       == { k \in Nat : \E g \in [D(k) -> X] : \A s \in D(k) : g[s] = V(g, s) }
  <1>1. \A s \in SUBSET (1..n) : /\ IsFiniteSet(s) /\ Cardinality(s) \in Nat
                                 /\ Cardinality(s) = 0 => s = {}
    <2>1. 1 \in Int /\ n \in Int
      OBVIOUS
    <2>2. IsFiniteSet(1..n)
      BY <2>1, FS_Interval
    <2>. QED  BY <2>2, FS_Subset, FS_CardinalityType, FS_EmptySet
  <1>2. \A s \in SUBSET (1..n) : s # {} =>
          Max(s) \in 1..n /\ Max(s) \in s /\ Cardinality(s \ {Max(s)}) = Cardinality(s) - 1
    BY <1>1, FS_RemoveElement, MaxOfSome
  <1>3. 0 \in Q
    <2>1. \A s \in D(0) : s = {}
      BY <1>1
    <2>2. [s \in D(0) |-> base] \in [D(0) -> X]
          /\ \A s \in D(0) : [t \in D(0) |-> base][s] = V([t \in D(0) |-> base], s)
      BY <2>1
    <2>. QED  BY <2>2
  <1>4. ASSUME NEW k \in Q PROVE k + 1 \in Q
    <2>1. PICK g \in [D(k) -> X] : \A s \in D(k) : g[s] = V(g, s)
      OBVIOUS
    <2>. DEFINE e == [s \in D(k + 1) |-> V(g, s)]
    <2>2. ASSUME NEW s \in D(k + 1), s # {} PROVE Max(s) \in 1..n /\ s \ {Max(s)} \in D(k)
      <3>1. /\ Cardinality(s) \in Nat /\ Cardinality(s) <= k + 1
            /\ Max(s) \in 1..n /\ Max(s) \in s /\ Cardinality(s \ {Max(s)}) = Cardinality(s) - 1
        BY <1>1, <1>2, <2>2
      <3>2. k \in Nat /\ s \ {Max(s)} \in SUBSET (1..n)
        OBVIOUS
      <3>3. Cardinality(s \ {Max(s)}) <= k
        BY <3>1, <3>2
      <3>. QED  BY <3>1, <3>2, <3>3
    <2>3. D(k) \subseteq D(k + 1)
      BY <1>1
    <2>4. \A s \in D(k) : e[s] = g[s]
      BY <2>1, <2>3
    <2>5. e \in [D(k + 1) -> X]
      <3>1. ASSUME NEW s \in D(k + 1) PROVE V(g, s) \in X
        <4>1. CASE s # {}
          <5>1. g[s \ {Max(s)}] \in X
            BY <2>2, <4>1
          <5>. QED  BY <2>2, <4>1, <5>1
        <4>. QED  BY <4>1
      <3>. QED  BY <3>1
    <2>6. ASSUME NEW s \in D(k + 1) PROVE e[s] = V(e, s)
      <3>1. e[s] = V(g, s)
        OBVIOUS
      <3>2. CASE s = {}
        BY <3>1, <3>2
      <3>3. CASE s # {}
        <4>1. e[s \ {Max(s)}] = g[s \ {Max(s)}]
          BY <2>2, <2>4, <3>3
        <4>. HIDE DEF e
        <4>. QED  BY <3>1, <3>3, <4>1
      <3>. QED  BY <3>2, <3>3
    <2>7. \E f \in [D(k + 1) -> X] : \A s \in D(k + 1) : f[s] = V(f, s)
      <3>. HIDE DEF e
      <3>. QED  BY <2>5, <2>6
    <2>8. k + 1 \in Nat
      OBVIOUS
    <2>. HIDE DEF D, V, e
    <2>. QED  BY <2>7, <2>8
  <1>5. Q = Nat
    <2>. HIDE DEF Q
    <2>1. Q \in SUBSET Nat
      BY DEF Q
    <2>. QED  BY <1>3, <1>4, <2>1, SetInduction
  <1>6. D(n) = SUBSET (1..n)
    <2>1. Cardinality(1..n) = n /\ IsFiniteSet(1..n)
      BY FS_Interval
    <2>. QED  BY <2>1, FS_Subset, <1>1
  <1>7. PICK c \in [SUBSET (1..n) -> X] : \A s \in SUBSET (1..n) : c[s] = V(c, s)
    <2>. HIDE DEF D, V
    <2>. QED  BY <1>5, <1>6
  <1>8. c = [s \in SUBSET (1..n) |-> V(c, s)]
    BY <1>7
  <1>. QED  BY <1>8 DEF IsIter

(* What it is after no element, and after one more. *)
LEMMA FirstOf ==
  ASSUME NEW n \in Nat, NEW k \in 0..n
  PROVE  /\ 1..k \in SUBSET (1..n)
         /\ k > 0 => 1..k # {} /\ Max(1..k) = k /\ (1..k) \ {k} = 1..(k - 1)
         /\ k = 0 => 1..k = {}
  <1>1. ASSUME k > 0 PROVE 1..k # {} /\ Max(1..k) = k /\ (1..k) \ {k} = 1..(k - 1)
    <2>1. k \in 1..k /\ k \in Int /\ \A y \in 1..k : y \in Int /\ y <= k
      BY <1>1
    <2>2. Max(1..k) = k
      BY <2>1, MaxIs
    <2>. QED  BY <1>1, <2>1, <2>2
  <1>. QED  BY <1>1

=============================================================================
