--------------------------- MODULE SectionsProofs ---------------------------
(***************************************************************************)
(* Proofs about the extraction of sections, for every document, every      *)
(* number of blocks and candidates, and both forms.                        *)
(*                                                                         *)
(* The heart is the dynamic programme.  A node of a layer stands for an    *)
(* ascending pick of starts for the boundaries read so far, and only its   *)
(* last ordinal and its score matter for what may follow it; so a layer    *)
(* that keeps, for each last ordinal, one node as good as any pick that    *)
(* ends there (LayerRight) loses nothing.  The last layer then has a pick  *)
(* of the highest total, and the same holds with one choice forced, which  *)
(* is how the code finds out whether an alternative is nearly as good.     *)
(* The properties of the sections follow from that: starts that all nearly *)
(* best picks share ascend along the grammar, so the next start bounds a   *)
(* section, and a heading of any nearly best pick is a start or in doubt.  *)
(***************************************************************************)
EXTENDS Sections, SumProofs, SequenceTheorems

-----------------------------------------------------------------------------
(* Nodes and layers.                                                       *)

Nodes == [score : Int, last : Int, skipped : BOOLEAN, path : Seq(Int)]
DpChoices == {Skip} \cup [ord : Nat, score : Int]

(* A layer has a node with the last ordinal of r that is as good. *)
Covers(layer, r) == \E q \in Range(layer) : q.last = r.last /\ q.score >= r.score

(* The step of Extend for one node. *)
After(nodes, prev, opt) == IF Follows(prev, opt) THEN Put(nodes, Follow(prev, opt)) ELSE nodes

(* The node that an option leads to is a node. *)
LEMMA FollowType ==
  ASSUME NEW prev \in Nodes, NEW opt \in DpChoices
  PROVE  Follow(prev, opt) \in Nodes
  <1>1. CASE opt = Skip
    <2>1. Append(prev.path, NoOrdinal) \in Seq(Int)
      BY DEF Nodes, NoOrdinal
    <2>. QED  BY <1>1, <2>1 DEF Follow, Nodes
  <1>2. CASE opt # Skip
    <2>1. opt.ord \in Nat /\ opt.score \in Int
      BY <1>2 DEF DpChoices
    <2>2. Append(prev.path, opt.ord) \in Seq(Int) /\ prev.score + Contribution(opt.score) \in Int
      BY <2>1 DEF Nodes, Contribution, BodyBaseline
    <2>. QED  BY <1>2, <2>1, <2>2 DEF Follow, Nodes
  <1>. QED  BY <1>1, <1>2

(* Appending adds one value to the range. *)
LEMMA AppendedRange ==
  ASSUME NEW S, NEW s \in Seq(S), NEW x \in S
  PROVE  Append(s, x) \in Seq(S) /\ Range(Append(s, x)) = Range(s) \cup {x}
  <1>. DEFINE n == Len(s)
              a == Append(s, x)
  <1>1. /\ n \in Nat /\ DOMAIN s = 1..n /\ DOMAIN a = 1..(n + 1)
        /\ \A i \in 1..n : a[i] = s[i]
        /\ a[n + 1] = x /\ a \in Seq(S)
    OBVIOUS
  <1>2. \A i \in 1..(n + 1) : i \in 1..n \/ i = n + 1
    BY <1>1
  <1>3. \A i \in 1..n : i \in 1..(n + 1)
    BY <1>1
  <1>4. n + 1 \in 1..(n + 1)
    BY <1>1
  <1>. HIDE DEF a, n
  <1>5. Range(a) = Range(s) \cup {x}
    BY <1>1, <1>2, <1>3, <1>4 DEF Range
  <1>. QED  BY <1>1, <1>5 DEF a

(* A layer takes a node in, or has one as good; it loses nothing better. *)
LEMMA PutKeeps ==
  ASSUME NEW next \in Seq(Nodes), NEW node \in Nodes
  PROVE  /\ Put(next, node) \in Seq(Nodes)
         /\ Range(Put(next, node)) \subseteq Range(next) \cup {node}
         /\ Covers(Put(next, node), node)
         /\ \A r \in Nodes : Covers(next, r) => Covers(Put(next, node), r)
  <1>. DEFINE same == {i \in DOMAIN next : next[i].last = node.last}
  <1>1. CASE same = {}
    <2>1. Put(next, node) = Append(next, node)
      BY <1>1 DEF Put
    <2>2. Append(next, node) \in Seq(Nodes) /\ Range(Append(next, node)) = Range(next) \cup {node}
      BY AppendedRange
    <2>3. node.score >= node.score
      BY DEF Nodes
    <2>. QED  BY <2>1, <2>2, <2>3 DEF Covers
  <1>2. CASE same # {}
    <2>1. PICK i \in DOMAIN next :
            /\ next[i].last = node.last
            /\ Put(next, node) = IF NodeBetter(node, next[i]) THEN [next EXCEPT ![i] = node] ELSE next
      BY <1>2 DEF Put
    <2>2. next[i] \in Nodes /\ next[i] \in Range(next)
      BY DEF Range
    <2>3. CASE NodeBetter(node, next[i])
      <3>1. Put(next, node) = [next EXCEPT ![i] = node]
        BY <2>1, <2>3
      <3>2. node.score >= next[i].score
        BY <2>2, <2>3 DEF NodeBetter, Nodes
      <3>3. [next EXCEPT ![i] = node] \in Seq(Nodes)
        OBVIOUS
      <3>4. /\ \A j \in DOMAIN next : j # i => [next EXCEPT ![i] = node][j] = next[j]
            /\ [next EXCEPT ![i] = node][i] = node
            /\ DOMAIN [next EXCEPT ![i] = node] = DOMAIN next
        OBVIOUS
      <3>5. Range([next EXCEPT ![i] = node]) \subseteq Range(next) \cup {node}
        BY <3>4 DEF Range
      <3>6. node \in Range([next EXCEPT ![i] = node])
        BY <3>4 DEF Range
      <3>7. ASSUME NEW r \in Nodes, Covers(next, r) PROVE Covers(Put(next, node), r)
        <4>1. PICK j \in DOMAIN next : next[j].last = r.last /\ next[j].score >= r.score
          BY <3>7 DEF Covers, Range
        <4>2. CASE j = i
          <5>1. node.last = r.last /\ node.score >= r.score
            BY <2>1, <2>2, <3>2, <4>1, <4>2 DEF Nodes
          <5>. QED  BY <3>1, <3>6, <5>1 DEF Covers
        <4>3. CASE j # i
          <5>1. next[j] \in Range([next EXCEPT ![i] = node])
            BY <3>4, <4>3 DEF Range
          <5>. QED  BY <3>1, <4>1, <5>1 DEF Covers
        <4>. QED  BY <4>2, <4>3
      <3>8. node.score >= node.score
        BY DEF Nodes
      <3>. QED  BY <3>1, <3>3, <3>5, <3>6, <3>7, <3>8 DEF Covers
    <2>4. CASE ~ NodeBetter(node, next[i])
      <3>1. Put(next, node) = next
        BY <2>1, <2>4
      <3>2. next[i].score >= node.score
        BY <2>2, <2>4 DEF NodeBetter, Nodes
      <3>. QED  BY <2>1, <2>2, <3>1, <3>2 DEF Covers
    <2>. QED  BY <2>3, <2>4
  <1>. QED  BY <1>1, <1>2

(* One step of Extend keeps a layer a sequence of nodes. *)
LEMMA AfterType ==
  ASSUME NEW x \in Seq(Nodes), NEW prev \in Nodes, NEW opt \in DpChoices
  PROVE  After(x, prev, opt) \in Seq(Nodes)
  BY FollowType, PutKeeps DEF After

(* Extend, node by node. *)
LEMMA ExtendSteps ==
  ASSUME NEW layer \in Seq(Nodes), NEW next \in Seq(Nodes), NEW opt \in DpChoices
  PROVE  \E d : /\ d[0] = next
                /\ \A k \in 1..Len(layer) : d[k] = After(d[k - 1], layer[k], opt)
                /\ Extend(layer, next, opt) = d[Len(layer)]
  <1>. DEFINE n == Len(layer)
              X == Seq(Nodes)
              h == [q \in (1..n) \X X |-> After(q[2], layer[q[1]], opt)]
              G(c) == c = [s \in SUBSET (1..n) |->
                             IF s = {} THEN next ELSE After(c[s \ {Max(s)}], layer[Max(s)], opt)]
  <1>1. n \in Nat /\ DOMAIN layer = 1..n
    OBVIOUS
  <1>2. ASSUME NEW i \in 1..n, NEW x \in X PROVE After(x, layer[i], opt) \in X
    <2>1. layer[i] \in Nodes
      OBVIOUS
    <2>. QED  BY <2>1, AfterType
  <1>3. h \in [(1..n) \X X -> X]
    BY <1>2
  <1>4. \E c : G(c)
    <2>1. PICK c \in [SUBSET (1..n) -> X] : IsIter(h, next, n, c)
      <3>. HIDE DEF h, X, n
      <3>1. next \in X
        BY DEF X
      <3>. QED  BY <1>1, <1>3, <3>1, IterExists
    <2>2. ASSUME NEW s \in SUBSET (1..n), s # {}
          PROVE  h[<<Max(s), c[s \ {Max(s)}]>>] = After(c[s \ {Max(s)}], layer[Max(s)], opt)
      <3>1. Max(s) \in 1..n
        BY <1>1, <2>2, MaxOfSome
      <3>2. s \ {Max(s)} \in SUBSET (1..n)
        OBVIOUS
      <3>3. c[s \ {Max(s)}] \in X
        BY <3>2
      <3>4. <<Max(s), c[s \ {Max(s)}]>> \in (1..n) \X X
        BY <3>1, <3>3
      <3>. QED  BY <3>4
    <2>3. G(c)
      <3>. HIDE DEF h, X, n
      <3>. QED  BY <2>1, <2>2 DEF IsIter
    <2>. QED  BY <2>3
  <1>. DEFINE c == CHOOSE x : G(x)
              d == [k \in 0..n |-> c[1..k]]
  <1>5. G(c)
    BY <1>4
  <1>6. Extend(layer, next, opt) = c[1..n]
    BY <1>1 DEF Extend, FoldLeft, MapThenFoldSet, After
  <1>7. d[0] = next
    <2>. HIDE DEF n
    <2>1. d[0] = c[1..0] /\ 1..0 = {}
      BY <1>1
    <2>. HIDE DEF c
    <2>2. c[{}] = next
      BY <1>5
    <2>. QED  BY <2>1, <2>2
  <1>8. ASSUME NEW k \in 1..n PROVE d[k] = After(d[k - 1], layer[k], opt)
    <2>. HIDE DEF n
    <2>1. k \in 0..n /\ k - 1 \in 0..n
      BY <1>1
    <2>2. d[k] = c[1..k] /\ d[k - 1] = c[1..(k - 1)]
      BY <2>1
    <2>3. 1..k \in SUBSET (1..n) /\ 1..k # {} /\ Max(1..k) = k /\ (1..k) \ {k} = 1..(k - 1)
      BY <1>1, <2>1, FirstOf
    <2>. HIDE DEF c
    <2>4. c[1..k] = After(c[(1..k) \ {Max(1..k)}], layer[Max(1..k)], opt)
      BY <1>5, <2>3
    <2>. QED  BY <2>2, <2>3, <2>4
  <1>9. n \in 0..n /\ d[n] = c[1..n]
    BY <1>1
  <1>. HIDE DEF d
  <1>. QED  BY <1>6, <1>7, <1>8, <1>9

(* So does Extend. *)
LEMMA ExtendType ==
  ASSUME NEW layer \in Seq(Nodes), NEW next \in Seq(Nodes), NEW opt \in DpChoices
  PROVE  Extend(layer, next, opt) \in Seq(Nodes)
  <1>. DEFINE n == Len(layer)
  <1>0. n \in Nat
    OBVIOUS
  <1>1. PICK d : /\ d[0] = next
                 /\ \A k \in 1..n : d[k] = After(d[k - 1], layer[k], opt)
                 /\ Extend(layer, next, opt) = d[n]
    BY ExtendSteps
  <1>. DEFINE Q == { k \in Nat : k <= n => d[k] \in Seq(Nodes) }
  <1>2. 0 \in Q
    BY <1>1
  <1>3. ASSUME NEW k \in Q PROVE k + 1 \in Q
    <2>. SUFFICES ASSUME k + 1 <= n PROVE d[k + 1] \in Seq(Nodes)
      OBVIOUS
    <2>1. k + 1 \in 1..n /\ k <= n /\ (k + 1) - 1 = k
      BY <1>0
    <2>2. d[k + 1] = After(d[k], layer[k + 1], opt) /\ d[k] \in Seq(Nodes)
      BY <1>1, <2>1
    <2>3. layer[k + 1] \in Nodes
      BY <2>1
    <2>4. After(d[k], layer[k + 1], opt) \in Seq(Nodes)
      BY <2>2, <2>3, AfterType
    <2>. QED  BY <2>2, <2>4
  <1>4. Q = Nat
    <2>. HIDE DEF Q
    <2>1. Q \in SUBSET Nat
      BY DEF Q
    <2>. QED  BY <1>2, <1>3, <2>1, SetInduction
  <1>. QED  BY <1>0, <1>1, <1>4

(* NextLayer, option by option. *)
LEMMA NextLayerSteps ==
  ASSUME NEW layer \in Seq(Nodes), NEW opts \in Seq(DpChoices)
  PROVE  \E d : /\ d[0] = <<>>
                /\ \A k \in 1..Len(opts) : d[k] = Extend(layer, d[k - 1], opts[k])
                /\ NextLayer(layer, opts) = d[Len(opts)]
  <1>. DEFINE n == Len(opts)
              X == Seq(Nodes)
              h == [q \in (1..n) \X X |-> Extend(layer, q[2], opts[q[1]])]
              G(c) == c = [s \in SUBSET (1..n) |->
                             IF s = {} THEN <<>> ELSE Extend(layer, c[s \ {Max(s)}], opts[Max(s)])]
  <1>1. n \in Nat /\ DOMAIN opts = 1..n
    OBVIOUS
  <1>2. ASSUME NEW i \in 1..n, NEW x \in X PROVE Extend(layer, x, opts[i]) \in X
    <2>1. opts[i] \in DpChoices
      OBVIOUS
    <2>. QED  BY <2>1, ExtendType
  <1>3. h \in [(1..n) \X X -> X]
    BY <1>2
  <1>4. \E c : G(c)
    <2>1. PICK c \in [SUBSET (1..n) -> X] : IsIter(h, <<>>, n, c)
      <3>1. <<>> \in X
        OBVIOUS
      <3>. HIDE DEF h, X, n
      <3>. QED  BY <1>1, <1>3, <3>1, IterExists
    <2>2. ASSUME NEW s \in SUBSET (1..n), s # {}
          PROVE  h[<<Max(s), c[s \ {Max(s)}]>>] = Extend(layer, c[s \ {Max(s)}], opts[Max(s)])
      <3>1. Max(s) \in 1..n
        BY <1>1, <2>2, MaxOfSome
      <3>2. s \ {Max(s)} \in SUBSET (1..n)
        OBVIOUS
      <3>3. c[s \ {Max(s)}] \in X
        BY <3>2
      <3>4. <<Max(s), c[s \ {Max(s)}]>> \in (1..n) \X X
        BY <3>1, <3>3
      <3>. QED  BY <3>4
    <2>3. G(c)
      <3>. HIDE DEF h, X, n
      <3>. QED  BY <2>1, <2>2 DEF IsIter
    <2>. QED  BY <2>3
  <1>. DEFINE c == CHOOSE x : G(x)
              d == [k \in 0..n |-> c[1..k]]
  <1>5. G(c)
    BY <1>4
  <1>6. NextLayer(layer, opts) = c[1..n]
    BY <1>1 DEF NextLayer, FoldLeft, MapThenFoldSet
  <1>7. d[0] = <<>>
    <2>. HIDE DEF n
    <2>1. d[0] = c[1..0] /\ 1..0 = {}
      BY <1>1
    <2>. HIDE DEF c
    <2>2. c[{}] = <<>>
      BY <1>5
    <2>. QED  BY <2>1, <2>2
  <1>8. ASSUME NEW k \in 1..n PROVE d[k] = Extend(layer, d[k - 1], opts[k])
    <2>. HIDE DEF n
    <2>1. k \in 0..n /\ k - 1 \in 0..n
      BY <1>1
    <2>2. d[k] = c[1..k] /\ d[k - 1] = c[1..(k - 1)]
      BY <2>1
    <2>3. 1..k \in SUBSET (1..n) /\ 1..k # {} /\ Max(1..k) = k /\ (1..k) \ {k} = 1..(k - 1)
      BY <1>1, <2>1, FirstOf
    <2>. HIDE DEF c
    <2>4. c[1..k] = Extend(layer, c[(1..k) \ {Max(1..k)}], opts[Max(1..k)])
      BY <1>5, <2>3
    <2>. QED  BY <2>2, <2>3, <2>4
  <1>9. n \in 0..n /\ d[n] = c[1..n]
    BY <1>1
  <1>. HIDE DEF d
  <1>. QED  BY <1>6, <1>7, <1>8, <1>9

(* What a layer is extended to: the nodes that the option leads to, or better. *)
LEMMA ExtendRight ==
  ASSUME NEW layer \in Seq(Nodes), NEW next \in Seq(Nodes), NEW opt \in DpChoices
  PROVE  /\ Extend(layer, next, opt) \in Seq(Nodes)
         /\ \A r \in Range(Extend(layer, next, opt)) :
              r \in Range(next) \/ \E prev \in Range(layer) : Follows(prev, opt) /\ r = Follow(prev, opt)
         /\ \A r \in Nodes : Covers(next, r) => Covers(Extend(layer, next, opt), r)
         /\ \A prev \in Range(layer) :
              Follows(prev, opt) => Covers(Extend(layer, next, opt), Follow(prev, opt))
  <1>. DEFINE n == Len(layer)
              Led(r, k) == \E i \in 1..k : Follows(layer[i], opt) /\ r = Follow(layer[i], opt)
              Right(nodes, k) ==
                /\ nodes \in Seq(Nodes)
                /\ \A r \in Range(nodes) : r \in Range(next) \/ Led(r, k)
                /\ \A r \in Nodes : Covers(next, r) \/ Led(r, k) => Covers(nodes, r)
  <1>0. n \in Nat /\ DOMAIN layer = 1..n
    OBVIOUS
  <1>1. PICK d : /\ d[0] = next
                 /\ \A k \in 1..n : d[k] = After(d[k - 1], layer[k], opt)
                 /\ Extend(layer, next, opt) = d[n]
    BY ExtendSteps
  <1>. DEFINE Q == { k \in Nat : k <= n => Right(d[k], k) }
  <1>2. 0 \in Q
    BY <1>1
  <1>3. ASSUME NEW k \in Q PROVE k + 1 \in Q
    <2>. SUFFICES ASSUME k + 1 <= n PROVE Right(d[k + 1], k + 1)
      OBVIOUS
    <2>1. k + 1 \in 1..n /\ k <= n /\ (k + 1) - 1 = k /\ k \in Nat
      BY <1>0
    <2>2. d[k + 1] = After(d[k], layer[k + 1], opt) /\ Right(d[k], k)
      BY <1>1, <2>1
    <2>3. PICK prev \in Nodes : prev = layer[k + 1]
      BY <2>1
    <2>4. PICK x \in Seq(Nodes) : x = d[k]
      BY <2>2
    <2>5. \A i \in 1..(k + 1) : i \in 1..k \/ i = k + 1
      BY <2>1
    <2>6. \A i \in 1..k : i \in 1..(k + 1)
      BY <2>1
    <2>7. k + 1 \in 1..(k + 1)
      BY <2>1
    <2>8. \A r : Led(r, k + 1) <=> Led(r, k) \/ (Follows(prev, opt) /\ r = Follow(prev, opt))
      BY <2>3, <2>5, <2>6, <2>7
    <2>9. CASE ~ Follows(prev, opt)
      <3>1. d[k + 1] = x
        BY <2>2, <2>3, <2>4, <2>9 DEF After
      <3>2. Right(x, k)
        BY <2>2, <2>4
      <3>3. \A r : Led(r, k + 1) <=> Led(r, k)
        BY <2>8, <2>9
      <3>. HIDE DEF Led
      <3>4. Right(x, k + 1)
        BY <3>2, <3>3
      <3>. QED  BY <3>1, <3>4
    <2>10. CASE Follows(prev, opt)
      <3>1. PICK node \in Nodes : node = Follow(prev, opt)
        BY FollowType
      <3>2. d[k + 1] = Put(x, node)
        BY <2>2, <2>3, <2>4, <2>10, <3>1 DEF After
      <3>3. Right(x, k)
        BY <2>2, <2>4
      <3>4. \A r : Led(r, k + 1) <=> Led(r, k) \/ r = node
        BY <2>8, <2>10, <3>1
      <3>5. /\ Put(x, node) \in Seq(Nodes)
            /\ Range(Put(x, node)) \subseteq Range(x) \cup {node}
            /\ Covers(Put(x, node), node)
            /\ \A r \in Nodes : Covers(x, r) => Covers(Put(x, node), r)
        BY PutKeeps
      <3>. HIDE DEF Led
      <3>6. Right(Put(x, node), k + 1)
        BY <3>3, <3>4, <3>5
      <3>. QED  BY <3>2, <3>6
    <2>. QED  BY <2>9, <2>10
  <1>4. Q = Nat
    <2>. HIDE DEF Q
    <2>1. Q \in SUBSET Nat
      BY DEF Q
    <2>. QED  BY <1>2, <1>3, <2>1, SetInduction
  <1>5. Right(Extend(layer, next, opt), n)
    BY <1>0, <1>1, <1>4
  <1>6. \A r : Led(r, n) <=> \E prev \in Range(layer) : Follows(prev, opt) /\ r = Follow(prev, opt)
    BY <1>0 DEF Range
  <1>7. \A prev \in Range(layer) : Follow(prev, opt) \in Nodes
    <2>1. \A prev \in Range(layer) : prev \in Nodes
      BY DEF Range
    <2>. QED  BY <2>1, FollowType
  <1>. HIDE DEF Led, n
  <1>. QED  BY <1>5, <1>6, <1>7

(* What the next layer is: every option after every node, or better. *)
LEMMA NextLayerRight ==
  ASSUME NEW layer \in Seq(Nodes), NEW opts \in Seq(DpChoices)
  PROVE  /\ NextLayer(layer, opts) \in Seq(Nodes)
         /\ \A r \in Range(NextLayer(layer, opts)) :
              \E prev \in Range(layer), opt \in Range(opts) : Follows(prev, opt) /\ r = Follow(prev, opt)
         /\ \A prev \in Range(layer), opt \in Range(opts) :
              Follows(prev, opt) => Covers(NextLayer(layer, opts), Follow(prev, opt))
  <1>. DEFINE n == Len(opts)
              Led(r, opt) == \E prev \in Range(layer) : Follows(prev, opt) /\ r = Follow(prev, opt)
              Right(nodes, k) ==
                /\ nodes \in Seq(Nodes)
                /\ \A r \in Range(nodes) : \E i \in 1..k : Led(r, opts[i])
                /\ \A i \in 1..k : \A r \in Nodes : Led(r, opts[i]) => Covers(nodes, r)
  <1>0. n \in Nat /\ DOMAIN opts = 1..n
    OBVIOUS
  <1>1. PICK d : /\ d[0] = <<>>
                 /\ \A k \in 1..n : d[k] = Extend(layer, d[k - 1], opts[k])
                 /\ NextLayer(layer, opts) = d[n]
    BY NextLayerSteps
  <1>. DEFINE Q == { k \in Nat : k <= n => Right(d[k], k) }
  <1>2. 0 \in Q
    <2>1. d[0] = <<>> /\ <<>> \in Seq(Nodes) /\ Range(<<>>) = {} /\ 1..0 = {}
      BY <1>1 DEF Range
    <2>2. Right(d[0], 0)
      <3>. HIDE DEF Led
      <3>. QED  BY <2>1
    <2>. QED  BY <2>2
  <1>3. ASSUME NEW k \in Q PROVE k + 1 \in Q
    <2>. SUFFICES ASSUME k + 1 <= n PROVE Right(d[k + 1], k + 1)
      OBVIOUS
    <2>1. k + 1 \in 1..n /\ k <= n /\ (k + 1) - 1 = k /\ k \in Nat
      BY <1>0
    <2>2. d[k + 1] = Extend(layer, d[k], opts[k + 1]) /\ Right(d[k], k)
      BY <1>1, <2>1
    <2>3. PICK opt \in DpChoices : opt = opts[k + 1]
      BY <2>1
    <2>4. PICK x \in Seq(Nodes) : x = d[k]
      BY <2>2
    <2>5. \A i \in 1..(k + 1) : i \in 1..k \/ i = k + 1
      BY <2>1
    <2>6. \A i \in 1..k : i \in 1..(k + 1)
      BY <2>1
    <2>7. k + 1 \in 1..(k + 1)
      BY <2>1
    <2>8. /\ Extend(layer, x, opt) \in Seq(Nodes)
          /\ \A r \in Range(Extend(layer, x, opt)) : r \in Range(x) \/ Led(r, opt)
          /\ \A r \in Nodes : Covers(x, r) => Covers(Extend(layer, x, opt), r)
          /\ \A r \in Nodes : Led(r, opt) => Covers(Extend(layer, x, opt), r)
      <3>1. \A r \in Range(Extend(layer, x, opt)) : r \in Range(x) \/ Led(r, opt)
        BY ExtendRight
      <3>2. \A prev \in Range(layer) :
              Follows(prev, opt) => Covers(Extend(layer, x, opt), Follow(prev, opt))
        BY ExtendRight
      <3>3. \A r \in Nodes : Led(r, opt) => Covers(Extend(layer, x, opt), r)
        BY <3>2
      <3>4. /\ Extend(layer, x, opt) \in Seq(Nodes)
            /\ \A r \in Nodes : Covers(x, r) => Covers(Extend(layer, x, opt), r)
        BY ExtendRight
      <3>. HIDE DEF Led
      <3>. QED  BY <3>1, <3>3, <3>4
    <2>9. Right(x, k)
      BY <2>2, <2>4
    <2>. HIDE DEF Led
    <2>10. Right(Extend(layer, x, opt), k + 1)
      <3>1. \A r \in Range(Extend(layer, x, opt)) : \E i \in 1..(k + 1) : Led(r, opts[i])
        BY <2>3, <2>6, <2>7, <2>8, <2>9
      <3>2. \A i \in 1..(k + 1) : \A r \in Nodes : Led(r, opts[i]) => Covers(Extend(layer, x, opt), r)
        BY <2>3, <2>5, <2>8, <2>9
      <3>. QED  BY <2>8, <3>1, <3>2
    <2>. QED  BY <2>2, <2>3, <2>4, <2>10
  <1>4. Q = Nat
    <2>. HIDE DEF Q
    <2>1. Q \in SUBSET Nat
      BY DEF Q
    <2>. QED  BY <1>2, <1>3, <2>1, SetInduction
  <1>5. Right(NextLayer(layer, opts), n)
    <2>1. n \in Q /\ n <= n
      <3>. HIDE DEF Q, n
      <3>. QED  BY <1>0, <1>4
    <2>2. Right(d[n], n)
      <3>. HIDE DEF Right
      <3>. QED  BY <2>1
    <2>. QED  BY <1>1, <2>2
  <1>6. \A opt : opt \in Range(opts) <=> \E i \in 1..n : opt = opts[i]
    BY <1>0 DEF Range
  <1>7. \A prev \in Range(layer), opt \in Range(opts) : Follow(prev, opt) \in Nodes
    <2>1. \A prev \in Range(layer) : prev \in Nodes
      BY DEF Range
    <2>2. \A opt \in Range(opts) : opt \in DpChoices
      BY DEF Range
    <2>. QED  BY <2>1, <2>2, FollowType
  <1>8. \A prev \in Range(layer), opt \in Range(opts) :
          Follows(prev, opt) => Covers(NextLayer(layer, opts), Follow(prev, opt))
    <2>. HIDE DEF n
    <2>. QED  BY <1>5, <1>6, <1>7
  <1>9. \A r \in Range(NextLayer(layer, opts)) :
          \E prev \in Range(layer), opt \in Range(opts) : Follows(prev, opt) /\ r = Follow(prev, opt)
    <2>. HIDE DEF n
    <2>. QED  BY <1>5, <1>6
  <1>. QED  BY <1>5, <1>8, <1>9

(* LastLayer, boundary by boundary. *)
LEMMA LastLayerSteps ==
  ASSUME NEW options \in Seq(Seq(DpChoices))
  PROVE  \E d : /\ d[0] = <<FirstNode>>
                /\ \A k \in 1..Len(options) : d[k] = NextLayer(d[k - 1], options[k])
                /\ LastLayer(options) = d[Len(options)]
  <1>. DEFINE n == Len(options)
              X == Seq(Nodes)
              h == [q \in (1..n) \X X |-> NextLayer(q[2], options[q[1]])]
              G(c) == c = [s \in SUBSET (1..n) |->
                             IF s = {} THEN <<FirstNode>> ELSE NextLayer(c[s \ {Max(s)}], options[Max(s)])]
  <1>1. n \in Nat /\ DOMAIN options = 1..n
    OBVIOUS
  <1>2. ASSUME NEW i \in 1..n, NEW x \in X PROVE NextLayer(x, options[i]) \in X
    <2>1. options[i] \in Seq(DpChoices)
      OBVIOUS
    <2>. QED  BY <2>1, NextLayerRight
  <1>3. h \in [(1..n) \X X -> X]
    BY <1>2
  <1>4. \E c : G(c)
    <2>1. PICK c \in [SUBSET (1..n) -> X] : IsIter(h, <<FirstNode>>, n, c)
      <3>1. <<FirstNode>> \in X
        BY DEF FirstNode, Nodes, NoOrdinal
      <3>. HIDE DEF h, X, n
      <3>. QED  BY <1>1, <1>3, <3>1, IterExists
    <2>2. ASSUME NEW s \in SUBSET (1..n), s # {}
          PROVE  h[<<Max(s), c[s \ {Max(s)}]>>] = NextLayer(c[s \ {Max(s)}], options[Max(s)])
      <3>1. Max(s) \in 1..n
        BY <1>1, <2>2, MaxOfSome
      <3>2. s \ {Max(s)} \in SUBSET (1..n)
        OBVIOUS
      <3>3. c[s \ {Max(s)}] \in X
        BY <3>2
      <3>4. <<Max(s), c[s \ {Max(s)}]>> \in (1..n) \X X
        BY <3>1, <3>3
      <3>. QED  BY <3>4
    <2>3. G(c)
      <3>. HIDE DEF h, X, n
      <3>. QED  BY <2>1, <2>2 DEF IsIter
    <2>. QED  BY <2>3
  <1>. DEFINE c == CHOOSE x : G(x)
              d == [k \in 0..n |-> c[1..k]]
  <1>5. G(c)
    BY <1>4
  <1>6. LastLayer(options) = c[1..n]
    BY <1>1 DEF LastLayer, FoldLeft, MapThenFoldSet
  <1>7. d[0] = <<FirstNode>>
    <2>. HIDE DEF n
    <2>1. d[0] = c[1..0] /\ 1..0 = {}
      BY <1>1
    <2>. HIDE DEF c
    <2>2. c[{}] = <<FirstNode>>
      BY <1>5
    <2>. QED  BY <2>1, <2>2
  <1>8. ASSUME NEW k \in 1..n PROVE d[k] = NextLayer(d[k - 1], options[k])
    <2>. HIDE DEF n
    <2>1. k \in 0..n /\ k - 1 \in 0..n
      BY <1>1
    <2>2. d[k] = c[1..k] /\ d[k - 1] = c[1..(k - 1)]
      BY <2>1
    <2>3. 1..k \in SUBSET (1..n) /\ 1..k # {} /\ Max(1..k) = k /\ (1..k) \ {k} = 1..(k - 1)
      <3>1. k > 0
        OBVIOUS
      <3>. QED  BY <1>1, <2>1, <3>1, FirstOf
    <2>. HIDE DEF c
    <2>4. c[1..k] = NextLayer(c[(1..k) \ {Max(1..k)}], options[Max(1..k)])
      BY <1>5, <2>3
    <2>. QED  BY <2>2, <2>3, <2>4
  <1>9. n \in 0..n /\ d[n] = c[1..n]
    BY <1>1
  <1>. HIDE DEF d
  <1>. QED  BY <1>6, <1>7, <1>8, <1>9

(* The better of two nodes. *)
Better(a, b) == IF NodeBetter(b, a) THEN b ELSE a

(* BestNode, node by node. *)
LEMMA BestNodeSteps ==
  ASSUME NEW first \in Nodes, NEW rest \in Seq(Nodes),
         NEW layer, Head(layer) = first, Tail(layer) = rest
  PROVE  \E d : /\ d[0] = first
                /\ \A k \in 1..Len(rest) : d[k] = Better(d[k - 1], rest[k])
                /\ BestNode(layer) = d[Len(rest)]
  <1>. DEFINE n == Len(rest)
              X == Nodes
              h == [q \in (1..n) \X X |-> Better(q[2], rest[q[1]])]
              G(c) == c = [s \in SUBSET (1..n) |->
                             IF s = {} THEN first ELSE Better(c[s \ {Max(s)}], rest[Max(s)])]
  <1>1. n \in Nat /\ DOMAIN rest = 1..n
    OBVIOUS
  <1>2. ASSUME NEW i \in 1..n, NEW x \in X PROVE Better(x, rest[i]) \in X
    <2>1. rest[i] \in Nodes
      OBVIOUS
    <2>. QED  BY <2>1 DEF Better
  <1>3. h \in [(1..n) \X X -> X]
    BY <1>2
  <1>4. \E c : G(c)
    <2>1. PICK c \in [SUBSET (1..n) -> X] : IsIter(h, first, n, c)
      <3>1. first \in X
        OBVIOUS
      <3>. HIDE DEF h, X, n
      <3>. QED  BY <1>1, <1>3, <3>1, IterExists
    <2>2. ASSUME NEW s \in SUBSET (1..n), s # {}
          PROVE  h[<<Max(s), c[s \ {Max(s)}]>>] = Better(c[s \ {Max(s)}], rest[Max(s)])
      <3>1. Max(s) \in 1..n
        BY <1>1, <2>2, MaxOfSome
      <3>2. s \ {Max(s)} \in SUBSET (1..n)
        OBVIOUS
      <3>3. c[s \ {Max(s)}] \in X
        BY <3>2
      <3>4. <<Max(s), c[s \ {Max(s)}]>> \in (1..n) \X X
        BY <3>1, <3>3
      <3>. QED  BY <3>4
    <2>3. G(c)
      <3>. HIDE DEF h, X, n
      <3>. QED  BY <2>1, <2>2 DEF IsIter
    <2>. QED  BY <2>3
  <1>. DEFINE c == CHOOSE x : G(x)
              d == [k \in 0..n |-> c[1..k]]
  <1>5. G(c)
    BY <1>4
  <1>6. BestNode(layer) = c[1..n]
    BY <1>1 DEF BestNode, FoldLeft, MapThenFoldSet, Better
  <1>7. d[0] = first
    <2>. HIDE DEF n
    <2>1. d[0] = c[1..0] /\ 1..0 = {}
      BY <1>1
    <2>. HIDE DEF c
    <2>2. c[{}] = first
      BY <1>5
    <2>. QED  BY <2>1, <2>2
  <1>8. ASSUME NEW k \in 1..n PROVE d[k] = Better(d[k - 1], rest[k])
    <2>. HIDE DEF n
    <2>1. k \in 0..n /\ k - 1 \in 0..n
      BY <1>1
    <2>2. d[k] = c[1..k] /\ d[k - 1] = c[1..(k - 1)]
      BY <2>1
    <2>3. 1..k \in SUBSET (1..n) /\ 1..k # {} /\ Max(1..k) = k /\ (1..k) \ {k} = 1..(k - 1)
      BY <1>1, <2>1, FirstOf
    <2>. HIDE DEF c
    <2>4. c[1..k] = Better(c[(1..k) \ {Max(1..k)}], rest[Max(1..k)])
      BY <1>5, <2>3
    <2>. QED  BY <2>2, <2>3, <2>4
  <1>9. n \in 0..n /\ d[n] = c[1..n]
    BY <1>1
  <1>. HIDE DEF d
  <1>. QED  BY <1>6, <1>7, <1>8, <1>9

(* The best node of a layer is one of its nodes, and none has a higher score. *)
LEMMA BestNodeIsBest ==
  ASSUME NEW layer \in Seq(Nodes), layer # <<>>
  PROVE  BestNode(layer) \in Range(layer) /\ \A r \in Range(layer) : r.score <= BestNode(layer).score
  <1>1. PICK first \in Nodes, rest \in Seq(Nodes) : Head(layer) = first /\ Tail(layer) = rest
    <2>1. Head(layer) \in Nodes /\ Tail(layer) \in Seq(Nodes)
      BY HeadTailProperties
    <2>. QED  BY <2>1
  <1>. DEFINE n == Len(rest)
  <1>2. /\ n \in Nat /\ DOMAIN rest = 1..n /\ DOMAIN layer = 1..(n + 1)
        /\ layer[1] = first /\ \A k \in 1..n : layer[k + 1] = rest[k]
    BY <1>1
  <1>3. PICK d : /\ d[0] = first
                 /\ \A k \in 1..n : d[k] = Better(d[k - 1], rest[k])
                 /\ BestNode(layer) = d[n]
    BY <1>1, BestNodeSteps
  <1>. DEFINE Best(x, k) == /\ x \in Nodes /\ x \in Range(layer)
                            /\ \A i \in 1..(k + 1) : layer[i].score <= x.score
              Q == { k \in Nat : k <= n => Best(d[k], k) }
  <1>4. 0 \in Q
    <2>1. layer[1] = d[0] /\ d[0] \in Nodes /\ d[0] \in Range(layer)
      BY <1>2, <1>3 DEF Range
    <2>2. d[0].score <= d[0].score
      BY <2>1 DEF Nodes
    <2>3. \A i \in 1..(0 + 1) : i = 1
      OBVIOUS
    <2>. QED  BY <2>1, <2>2, <2>3
  <1>5. ASSUME NEW k \in Q PROVE k + 1 \in Q
    <2>. SUFFICES ASSUME k + 1 <= n PROVE Best(d[k + 1], k + 1)
      OBVIOUS
    <2>1. k + 1 \in 1..n /\ k <= n /\ (k + 1) - 1 = k /\ k \in Nat
      BY <1>2
    <2>2. d[k + 1] = Better(d[k], rest[k + 1]) /\ Best(d[k], k)
      BY <1>3, <2>1
    <2>3. PICK x \in Nodes : x = d[k]
      BY <2>2
    <2>4. PICK y \in Nodes : y = rest[k + 1] /\ y = layer[(k + 1) + 1]
      BY <1>2, <2>1
    <2>5. (k + 1) + 1 \in DOMAIN layer
      BY <1>2, <2>1
    <2>6. y \in Range(layer)
      BY <2>4, <2>5 DEF Range
    <2>7. PICK z \in Nodes : z = Better(x, y) /\ z = d[k + 1]
      <3>1. Better(x, y) \in Nodes
        BY DEF Better
      <3>2. Better(x, y) = d[k + 1]
        BY <2>2, <2>3, <2>4
      <3>. QED  BY <3>1, <3>2
    <2>8. (z = x \/ z = y) /\ x.score <= z.score /\ y.score <= z.score
      <3>1. x.score \in Int /\ y.score \in Int
        BY DEF Nodes
      <3>2. CASE NodeBetter(y, x)
        <4>1. z = y /\ y.score >= x.score
          BY <2>7, <3>1, <3>2 DEF Better, NodeBetter
        <4>. QED  BY <3>1, <4>1
      <3>3. CASE ~ NodeBetter(y, x)
        <4>1. z = x /\ ~ (y.score > x.score)
          BY <2>7, <3>3 DEF Better, NodeBetter
        <4>. QED  BY <3>1, <4>1
      <3>. QED  BY <3>2, <3>3
    <2>9. \A i \in 1..((k + 1) + 1) : i \in 1..(k + 1) \/ i = (k + 1) + 1
      BY <2>1
    <2>10. Best(x, k)
      <3>. HIDE DEF Best
      <3>. QED  BY <2>2, <2>3
    <2>11. \A i \in 1..(k + 1) : layer[i].score <= z.score
      <3>1. ASSUME NEW i \in 1..(k + 1) PROVE layer[i].score \in Int
        <4>1. i \in 1..(n + 1)
          BY <1>2, <2>1
        <4>2. layer[i] \in Nodes
          BY <1>2, <4>1
        <4>. QED  BY <4>2 DEF Nodes
      <3>2. x.score \in Int /\ z.score \in Int
        BY DEF Nodes
      <3>. QED  BY <2>8, <2>10, <3>1, <3>2
    <2>12. z \in Range(layer)
      BY <2>6, <2>8, <2>10
    <2>13. \A i \in 1..((k + 1) + 1) : layer[i].score <= z.score
      BY <2>4, <2>8, <2>9, <2>11
    <2>14. Best(z, k + 1)
      BY <2>12, <2>13
    <2>. QED  BY <2>7, <2>14
  <1>6. Q = Nat
    <2>. HIDE DEF Q
    <2>1. Q \in SUBSET Nat
      BY DEF Q
    <2>. QED  BY <1>4, <1>5, <2>1, SetInduction
  <1>7. Best(BestNode(layer), n)
    BY <1>2, <1>3, <1>6
  <1>. QED  BY <1>2, <1>7 DEF Range

(* The records of a finite set, by their ordinals, are all of them. *)
LEMMA ByOrdinalRange ==
  ASSUME NEW S, IsFiniteSet(S), \A x \in S : x.ord \in Int, \A x, y \in S : x.ord = y.ord => x = y
  PROVE  ByOrdinal(S) \in Seq(S) /\ Range(ByOrdinal(S)) = S
  <1>. DEFINE n == Cardinality(S)
              Below(x) == {y \in S : y.ord < x.ord}
              rank == [x \in S |-> Cardinality(Below(x)) + 1]
              b == ByOrdinal(S)
  <1>1. n \in Nat
    BY FS_CardinalityType
  <1>2. ASSUME NEW x \in S PROVE Cardinality(Below(x)) \in Nat /\ Cardinality(Below(x)) < n
    <2>1. Below(x) \in SUBSET (S \ {x})
      OBVIOUS
    <2>2. IsFiniteSet(S \ {x}) /\ Cardinality(S \ {x}) = n - 1
      BY FS_RemoveElement
    <2>3. IsFiniteSet(Below(x)) /\ Cardinality(Below(x)) <= n - 1
      <3>. HIDE DEF Below
      <3>. QED  BY <2>1, <2>2, FS_Subset
    <2>4. Cardinality(Below(x)) \in Nat
      <3>. HIDE DEF Below
      <3>. QED  BY <2>3, FS_CardinalityType
    <2>. HIDE DEF Below, n
    <2>. QED  BY <1>1, <2>3, <2>4
  <1>3. ASSUME NEW x \in S, NEW y \in S, x.ord < y.ord PROVE Cardinality(Below(x)) < Cardinality(Below(y))
    <2>1. Below(x) \in SUBSET Below(y) /\ x \in Below(y) /\ x \notin Below(x)
      BY <1>3
    <2>2. IsFiniteSet(Below(y))
      BY FS_Subset
    <2>. HIDE DEF Below
    <2>3. Cardinality(Below(x)) <= Cardinality(Below(y)) /\ Cardinality(Below(x)) # Cardinality(Below(y))
      BY <2>1, <2>2, FS_Subset
    <2>. QED  BY <1>2, <2>3
  <1>4. ASSUME NEW x \in S, NEW y \in S, Cardinality(Below(x)) = Cardinality(Below(y)) PROVE x = y
    <2>1. x.ord \in Int /\ y.ord \in Int
      OBVIOUS
    <2>2. ~ (x.ord < y.ord) /\ ~ (y.ord < x.ord)
      <3>. HIDE DEF Below
      <3>. QED  BY <1>2, <1>3, <1>4
    <2>3. x.ord = y.ord
      BY <2>1, <2>2
    <2>. QED  BY <2>3
  <1>5. rank \in Injection(S, 1..n)
    <2>1. \A x \in S : rank[x] \in 1..n
      <3>. HIDE DEF Below, n
      <3>. QED  BY <1>1, <1>2
    <2>2. \A x, y \in S : rank[x] = rank[y] => x = y
      <3>. HIDE DEF Below, n
      <3>. QED  BY <1>2, <1>4
    <2>3. rank \in [S -> 1..n] /\ DOMAIN rank = S
      BY <2>1
    <2>. HIDE DEF rank, n
    <2>. QED  BY <2>2, <2>3 DEF Injection, IsInjective
  <1>6. ASSUME NEW i \in 1..n PROVE \E x \in S : Cardinality(Below(x)) = i - 1
    <2>1. IsFiniteSet(1..n) /\ Cardinality(1..n) = n
      <3>. HIDE DEF n
      <3>1. 1 \in Int /\ n \in Int
        BY <1>1
      <3>2. IsFiniteSet(1..n) /\ Cardinality(1..n) = IF 1 > n THEN 0 ELSE n - 1 + 1
        BY <3>1, FS_Interval
      <3>. QED  BY <1>1, <3>2
    <2>2. rank \in Surjection(S, 1..n)
      <3>. HIDE DEF rank
      <3>. QED  BY <1>5, <2>1, FS_Injection
    <2>3. PICK x \in S : rank[x] = i
      <3>. HIDE DEF rank, n
      <3>. QED  BY <2>2 DEF Surjection
    <2>. HIDE DEF Below, n
    <2>4. Cardinality(Below(x)) + 1 = i
      BY <2>3
    <2>. QED  BY <1>2, <2>4
  <1>7. DOMAIN b = 1..n /\ \A i \in 1..n : b[i] \in S /\ Cardinality(Below(b[i])) = i - 1
    <2>1. b = [i \in 1..n |-> CHOOSE x \in S : Cardinality(Below(x)) = i - 1]
      BY DEF ByOrdinal
    <2>. HIDE DEF Below, n, b
    <2>. QED  BY <1>6, <2>1
  <1>8. b \in Seq(S)
    <2>1. b \in [1..n -> S]
      <3>1. b = [i \in 1..n |-> CHOOSE x \in S : Cardinality(Below(x)) = i - 1]
        BY DEF ByOrdinal
      <3>. HIDE DEF b, n, Below
      <3>. QED  BY <1>7, <3>1
    <2>. HIDE DEF b, n, Below
    <2>. QED  BY <1>1, <2>1, SeqDef
  <1>9. ASSUME NEW x \in S PROVE x \in Range(b)
    <2>1. PICK i \in 1..n : i - 1 = Cardinality(Below(x))
      <3>. HIDE DEF Below, n
      <3>1. Cardinality(Below(x)) + 1 \in 1..n /\ (Cardinality(Below(x)) + 1) - 1 = Cardinality(Below(x))
        BY <1>1, <1>2
      <3>. QED  BY <3>1
    <2>2. b[i] = x
      <3>. HIDE DEF Below, n, b
      <3>. QED  BY <1>4, <1>7, <2>1
    <2>. HIDE DEF b
    <2>. QED  BY <1>7, <2>2 DEF Range
  <1>. HIDE DEF b, n, Below
  <1>10. Range(b) = S
    BY <1>7, <1>9 DEF Range
  <1>. QED  BY <1>8, <1>10 DEF b

-----------------------------------------------------------------------------
(* Readings: the sequences of starts that the dynamic programme looks at.  *)

(* An order of different boundaries, and candidates for them. *)
DpInput(order, T) ==
  /\ order \in Seq(Range(order))
  /\ \A i, j \in DOMAIN order : order[i] = order[j] => i = j
  /\ IsFiniteSet(T)
  /\ \A x \in T : x.ord \in Nat /\ x.score \in Int /\ Selectable(x.score) /\ x.key \in Range(order)
  /\ \A x, y \in T : x.key = y.key /\ x.ord = y.ord => x = y

Option(x) == [ord |-> x.ord, score |-> x.score]

Ascends(order, P) ==
  \A x, y \in P : x # y =>
     x.key # y.key /\ (Index(order, x.key) < Index(order, y.key) => x.ord < y.ord)

(* What P chooses for the i-th boundary. *)
ChoiceOf(order, P, i) ==
  IF \E x \in P : x.key = order[i] THEN Option(CHOOSE x \in P : x.key = order[i]) ELSE Skip

(* P picks starts for the first m boundaries, from their options. *)
Reading(order, T, options, m, P) ==
  /\ P \in SUBSET T /\ Ascends(order, P)
  /\ \A x \in P : Index(order, x.key) <= m
  /\ \A i \in 1..m : ChoiceOf(order, P, i) \in Range(options[i])

IsLast(P, l) == (\A x \in P : x.ord <= l) /\ (l = NoOrdinal \/ \E x \in P : x.ord = l)

With(P, x) == P \cup {x}
Before(P, x) == \A y \in P : y.ord < x.ord

(* Index finds each boundary of an order without repetitions. *)
LEMMA IndexOf ==
  ASSUME NEW order, NEW T, DpInput(order, T)
  PROVE  /\ Len(order) \in Nat /\ DOMAIN order = 1..Len(order)
         /\ \A i \in DOMAIN order : Index(order, order[i]) = i
         /\ \A k \in Range(order) : Index(order, k) \in DOMAIN order /\ order[Index(order, k)] = k
  <1>1. Len(order) \in Nat /\ DOMAIN order = 1..Len(order)
    BY DEF DpInput
  <1>2. \A k \in Range(order) : Index(order, k) \in DOMAIN order /\ order[Index(order, k)] = k
    BY DEF Index, Range
  <1>3. \A i \in DOMAIN order : order[i] \in Range(order)
    BY DEF Range
  <1>4. \A i \in DOMAIN order : Index(order, order[i]) = i
    BY <1>2, <1>3 DEF DpInput
  <1>. QED  BY <1>1, <1>2, <1>4

(* What a pick chooses for a boundary: its only candidate for it, or to skip. *)
LEMMA ChoiceOfIs ==
  ASSUME NEW order, NEW P, Ascends(order, P), NEW i
  PROVE  /\ \A x \in P : x.key = order[i] => ChoiceOf(order, P, i) = Option(x)
         /\ (\A x \in P : x.key # order[i]) => ChoiceOf(order, P, i) = Skip
  <1>1. ASSUME NEW x \in P, x.key = order[i] PROVE ChoiceOf(order, P, i) = Option(x)
    <2>1. PICK y \in P : y = (CHOOSE z \in P : z.key = order[i]) /\ y.key = order[i]
      BY <1>1
    <2>2. y = x
      BY <1>1, <2>1 DEF Ascends
    <2>. QED  BY <1>1, <2>1, <2>2 DEF ChoiceOf
  <1>. QED  BY <1>1 DEF ChoiceOf

(* A reading of m boundaries reads one more by skipping it. *)
LEMMA ReadingSame ==
  ASSUME NEW order, NEW T, DpInput(order, T), NEW options, NEW m \in Nat, m < Len(order),
         NEW P, Reading(order, T, options, m, P), Skip \in Range(options[m + 1])
  PROVE  Reading(order, T, options, m + 1, P) /\ ChoiceOf(order, P, m + 1) = Skip
  <1>1. m + 1 \in DOMAIN order
    BY IndexOf
  <1>2. \A x \in P : x.key # order[m + 1]
    <2>1. Index(order, order[m + 1]) = m + 1
      BY <1>1, IndexOf
    <2>. QED  BY <2>1 DEF Reading
  <1>3. ChoiceOf(order, P, m + 1) = Skip
    BY <1>2, ChoiceOfIs DEF Reading
  <1>4. \A x \in P : Index(order, x.key) <= m + 1
    <2>1. \A x \in P : x.key \in Range(order)
      BY DEF Reading, DpInput
    <2>2. \A x \in P : Index(order, x.key) \in Nat
      BY <2>1, IndexOf
    <2>. QED  BY <2>2 DEF Reading
  <1>5. \A i \in 1..(m + 1) : i \in 1..m \/ i = m + 1
    OBVIOUS
  <1>. QED  BY <1>3, <1>4, <1>5 DEF Reading

(* Or by a candidate for it that lies behind all the others. *)
LEMMA ReadingMore ==
  ASSUME NEW order, NEW T, DpInput(order, T), NEW options, NEW m \in Nat, m < Len(order),
         NEW P, Reading(order, T, options, m, P),
         NEW x \in T, x.key = order[m + 1], Before(P, x),
         Option(x) \in Range(options[m + 1]), NEW Q, Q = With(P, x)
  PROVE  /\ Reading(order, T, options, m + 1, Q)
         /\ x \notin P
         /\ \A i \in 1..m : ChoiceOf(order, Q, i) = ChoiceOf(order, P, i)
         /\ ChoiceOf(order, Q, m + 1) = Option(x)
  <1>1. m + 1 \in DOMAIN order /\ Index(order, x.key) = m + 1
    BY IndexOf
  <1>2. ASSUME NEW y \in P
        PROVE  Index(order, y.key) \in Nat /\ Index(order, y.key) <= m /\ y.key # x.key /\ y # x
    <2>1. y.key \in Range(order)
      BY DEF Reading, DpInput
    <2>. QED  BY <1>1, <2>1, IndexOf DEF Reading
  <1>3. Q \in SUBSET T /\ Q = P \cup {x}
    BY DEF Reading, With
  <1>4. Ascends(order, Q)
    <2>. SUFFICES ASSUME NEW y \in Q, NEW z \in Q, y # z
                  PROVE  y.key # z.key /\ (Index(order, y.key) < Index(order, z.key) => y.ord < z.ord)
      BY DEF Ascends
    <2>1. CASE y \in P /\ z \in P
      BY <2>1 DEF Reading, Ascends
    <2>2. CASE y = x
      <3>1. z \in P
        BY <1>3, <2>2
      <3>. QED  BY <1>1, <1>2, <2>2, <3>1
    <2>3. CASE z = x
      <3>1. y \in P
        BY <1>3, <2>3
      <3>. QED  BY <1>2, <2>3, <3>1 DEF Before
    <2>. QED  BY <1>3, <2>1, <2>2, <2>3
  <1>5. ChoiceOf(order, Q, m + 1) = Option(x)
    BY <1>3, <1>4, ChoiceOfIs
  <1>6. ASSUME NEW i \in 1..m PROVE ChoiceOf(order, Q, i) = ChoiceOf(order, P, i)
    <2>1. i \in DOMAIN order /\ i # m + 1
      BY IndexOf
    <2>2. x.key # order[i]
      BY <1>1, <2>1, IndexOf
    <2>3. Ascends(order, P)
      BY DEF Reading
    <2>4. CASE \E y \in P : y.key = order[i]
      <3>1. PICK y \in P : y.key = order[i]
        BY <2>4
      <3>2. y \in Q
        BY <1>3
      <3>3. ChoiceOf(order, P, i) = Option(y)
        BY <2>3, <3>1, ChoiceOfIs
      <3>4. ChoiceOf(order, Q, i) = Option(y)
        BY <1>4, <3>1, <3>2, ChoiceOfIs
      <3>. QED  BY <3>3, <3>4
    <2>5. CASE \A y \in P : y.key # order[i]
      <3>1. \A y \in Q : y.key # order[i]
        BY <1>3, <2>2, <2>5
      <3>. QED  BY <1>4, <2>3, <2>5, <3>1, ChoiceOfIs
    <2>. QED  BY <2>4, <2>5
  <1>7. \A i \in 1..(m + 1) : i \in 1..m \/ i = m + 1
    OBVIOUS
  <1>8. \A y \in Q : Index(order, y.key) <= m + 1
    BY <1>1, <1>2, <1>3
  <1>9. \A i \in 1..(m + 1) : ChoiceOf(order, Q, i) \in Range(options[i])
    BY <1>5, <1>6, <1>7 DEF Reading
  <1>10. Reading(order, T, options, m + 1, Q)
    BY <1>3, <1>4, <1>8, <1>9 DEF Reading
  <1>. QED  BY <1>2, <1>3, <1>5, <1>6, <1>10

(* And these are all the readings of m + 1 boundaries. *)
LEMMA ReadingLess ==
  ASSUME NEW order, NEW T, DpInput(order, T), NEW options, NEW m \in Nat, m < Len(order),
         NEW P, Reading(order, T, options, m + 1, P)
  PROVE  \/ Reading(order, T, options, m, P) /\ Skip \in Range(options[m + 1])
         \/ \E x \in P : /\ x.key = order[m + 1] /\ Reading(order, T, options, m, P \ {x})
                         /\ \A y \in P \ {x} : y.ord < x.ord
                         /\ Option(x) \in Range(options[m + 1])
  <1>1. m + 1 \in DOMAIN order /\ m + 1 \in 1..(m + 1) /\ \A i \in 1..m : i \in 1..(m + 1)
    BY IndexOf
  <1>2. \A x \in P : /\ Index(order, x.key) \in Nat /\ Index(order, x.key) <= m + 1
                     /\ Index(order, x.key) = m + 1 <=> x.key = order[m + 1]
    <2>1. \A x \in P : x.key \in Range(order)
      BY DEF Reading, DpInput
    <2>. QED  BY <1>1, <2>1, IndexOf DEF Reading
  <1>3. Ascends(order, P) /\ ChoiceOf(order, P, m + 1) \in Range(options[m + 1])
    BY <1>1 DEF Reading
  <1>4. CASE \A x \in P : x.key # order[m + 1]
    <2>1. \A x \in P : Index(order, x.key) <= m
      BY <1>2, <1>4
    <2>2. Reading(order, T, options, m, P)
      BY <1>1, <2>1 DEF Reading
    <2>. QED  BY <1>3, <1>4, <2>2, ChoiceOfIs
  <1>5. ASSUME NEW x \in P, x.key = order[m + 1]
        PROVE  /\ Reading(order, T, options, m, P \ {x})
               /\ \A y \in P \ {x} : y.ord < x.ord
               /\ Option(x) \in Range(options[m + 1])
    <2>1. Option(x) \in Range(options[m + 1])
      BY <1>3, <1>5, ChoiceOfIs
    <2>2. \A y \in P \ {x} : y.key # order[m + 1] /\ Index(order, y.key) <= m
      <3>1. \A y \in P \ {x} : y.key # order[m + 1]
        BY <1>3, <1>5 DEF Ascends
      <3>. QED  BY <1>2, <3>1
    <2>3. \A y \in P \ {x} : y.ord < x.ord
      <3>1. Index(order, x.key) = m + 1
        BY <1>2, <1>5
      <3>2. \A y \in P \ {x} : Index(order, y.key) < Index(order, x.key)
        BY <1>2, <2>2, <3>1
      <3>. QED  BY <1>3, <3>2 DEF Ascends
    <2>4. PICK Q \in SUBSET T : Q = P \ {x}
      BY DEF Reading
    <2>5. Ascends(order, Q)
      BY <1>3, <2>4 DEF Ascends
    <2>6. ASSUME NEW i \in 1..m PROVE ChoiceOf(order, Q, i) \in Range(options[i])
      <3>1. i \in DOMAIN order /\ i # m + 1
        BY IndexOf
      <3>2. x.key # order[i]
        BY <1>1, <1>5, <3>1, IndexOf
      <3>3. ChoiceOf(order, P, i) \in Range(options[i])
        BY <1>1 DEF Reading
      <3>4. CASE \E y \in Q : y.key = order[i]
        <4>1. PICK y \in Q : y.key = order[i]
          BY <3>4
        <4>2. y \in P
          BY <2>4
        <4>3. ChoiceOf(order, P, i) = Option(y)
          BY <1>3, <4>1, <4>2, ChoiceOfIs
        <4>4. ChoiceOf(order, Q, i) = Option(y)
          BY <2>5, <4>1, ChoiceOfIs
        <4>. QED  BY <3>3, <4>3, <4>4
      <3>5. CASE \A y \in Q : y.key # order[i]
        <4>1. \A y \in P : y.key # order[i]
          BY <2>4, <3>2, <3>5
        <4>. QED  BY <1>3, <2>5, <3>3, <3>5, <4>1, ChoiceOfIs
      <3>. QED  BY <3>4, <3>5
    <2>7. Reading(order, T, options, m, Q)
      BY <2>2, <2>4, <2>5, <2>6 DEF Reading
    <2>. QED  BY <2>1, <2>3, <2>4, <2>7
  <1>. QED  BY <1>4, <1>5

Weight(T) == [x \in T |-> Contribution(x.score)]
Total(T, P) == SumOf(Weight(T), P)

OptionsAt(order, T, i) == {Skip} \cup {Option(x) : x \in {y \in T : y.key = order[i]}}

AreOptions(order, T, options) ==
  /\ options \in Seq(Seq(DpChoices)) /\ Len(options) = Len(order)
  /\ \A i \in 1..Len(order) : Range(options[i]) \subseteq OptionsAt(order, T, i)

(* r stands for the reading P of the first m boundaries. *)
StandsFor(order, T, m, r, P) ==
  /\ IsLast(P, r.last) /\ r.score = Total(T, P)
  /\ r.path = [i \in 1..m |-> ChoiceOf(order, P, i).ord]

(* The nodes of a layer stand for readings, and none is better than all of *)
(* the nodes with its last ordinal.                                        *)
LayerRight(order, T, options, m, layer) ==
  /\ layer \in Seq(Nodes)
  /\ \A r \in Range(layer) : \E P : Reading(order, T, options, m, P) /\ StandsFor(order, T, m, r, P)
  /\ \A P : Reading(order, T, options, m, P) =>
       \E r \in Range(layer) : IsLast(P, r.last) /\ r.score >= Total(T, P)

(* The total of a pick grows by the contribution of each candidate. *)
LEMMA TotalOf ==
  ASSUME NEW order, NEW T, DpInput(order, T), NEW P \in SUBSET T
  PROVE  /\ IsFiniteSet(P) /\ \A x \in P : Weight(T)[x] \in Nat
         /\ Total(T, P) \in Nat
         /\ \A x \in T \ P : Total(T, P \cup {x}) = Total(T, P) + Contribution(x.score)
         /\ Total(T, {}) = 0
  <1>1. IsFiniteSet(T)
    BY DEF DpInput
  <1>2. IsFiniteSet(P)
    BY <1>1, FS_Subset
  <1>3. \A x \in T : Weight(T)[x] = Contribution(x.score) /\ Weight(T)[x] \in Nat
    BY DEF DpInput, Weight, Contribution, Selectable, BodyBaseline
  <1>4. Total(T, P) \in Nat
    BY <1>2, <1>3, SumOfNat DEF Total
  <1>5. ASSUME NEW x \in T \ P PROVE Total(T, P \cup {x}) = Total(T, P) + Contribution(x.score)
    <2>1. \A y \in P \cup {x} : Weight(T)[y] \in Nat
      BY <1>3
    <2>2. SumOf(Weight(T), P \cup {x}) = SumOf(Weight(T), P) + Weight(T)[x]
      BY <1>2, <2>1, SumOfMore
    <2>. QED  BY <1>3, <2>2 DEF Total
  <1>. QED  BY <1>2, <1>3, <1>4, <1>5, SumOfNone DEF Total

(* The first layer is right: nothing is read yet. *)
LEMMA FirstLayerRight ==
  ASSUME NEW order, NEW T, DpInput(order, T), NEW options
  PROVE  LayerRight(order, T, options, 0, <<FirstNode>>)
  <1>1. FirstNode \in Nodes
    BY DEF FirstNode, Nodes, NoOrdinal
  <1>2. <<FirstNode>> \in Seq(Nodes) /\ Range(<<FirstNode>>) = {FirstNode}
    BY <1>1 DEF Range
  <1>3. \A P : Reading(order, T, options, 0, P) <=> P = {}
    <2>1. ASSUME NEW P, Reading(order, T, options, 0, P) PROVE P = {}
      <3>1. \A x \in P : x.key \in Range(order) /\ Index(order, x.key) <= 0
        BY <2>1 DEF Reading, DpInput
      <3>2. \A x \in P : Index(order, x.key) \in 1..Len(order)
        BY <3>1, IndexOf
      <3>3. \A x \in P : FALSE
        BY <3>1, <3>2
      <3>. QED  BY <3>3
    <2>2. Reading(order, T, options, 0, {})
      BY DEF Reading, Ascends
    <2>. QED  BY <2>1, <2>2
  <1>4. IsLast({}, FirstNode.last)
    BY DEF IsLast, FirstNode
  <1>5. FirstNode.score = 0 /\ Total(T, {}) = 0
    BY TotalOf DEF FirstNode
  <1>6. FirstNode.path = [i \in 1..0 |-> ChoiceOf(order, {}, i).ord]
    BY DEF FirstNode
  <1>7. StandsFor(order, T, 0, FirstNode, {})
    BY <1>4, <1>5, <1>6 DEF StandsFor
  <1>8. FirstNode.score >= Total(T, {})
    BY <1>5
  <1>. QED  BY <1>2, <1>3, <1>4, <1>7, <1>8 DEF LayerRight

(* The path of a node grows by the choice for the next boundary. *)
LEMMA PathGrows ==
  ASSUME NEW m \in Nat, NEW e, NEW f, NEW p, p = [i \in 1..m |-> e[i]], \A i \in 1..m : f[i] = e[i]
  PROVE  Append(p, f[m + 1]) = [i \in 1..(m + 1) |-> f[i]]
  <1>1. Len(p) = m /\ p \in Seq({e[i] : i \in 1..m})
    <2>1. p \in [1..m -> {e[i] : i \in 1..m}]
      OBVIOUS
    <2>2. p \in Seq({e[i] : i \in 1..m})
      BY <2>1, SeqDef
    <2>3. DOMAIN p = 1..m
      OBVIOUS
    <2>. QED  BY <2>2, <2>3
  <1>2. Append(p, f[m + 1]) = [i \in 1..(m + 1) |-> IF i = m + 1 THEN f[m + 1] ELSE p[i]]
    BY <1>1
  <1>3. \A i \in 1..(m + 1) : (IF i = m + 1 THEN f[m + 1] ELSE p[i]) = f[i]
    <2>1. \A i \in 1..(m + 1) : i \in 1..m \/ i = m + 1
      OBVIOUS
    <2>. QED  BY <2>1
  <1>. QED  BY <1>2, <1>3

(* What is in a layer is a node. *)
LEMMA NodesOfLayer ==
  ASSUME NEW layer \in Seq(Nodes), NEW r \in Range(layer)
  PROVE  r \in Nodes /\ r.last \in Int /\ r.score \in Int
  <1>1. r \in Nodes
    BY DEF Range
  <1>. QED  BY <1>1 DEF Nodes

(* NextLayer keeps a layer right: a better node with the same last ordinal  *)
(* replaces a worse one, and whatever could follow the worse one follows it. *)
LEMMA LayerStep ==
  ASSUME NEW order, NEW T, DpInput(order, T), NEW options, AreOptions(order, T, options),
         NEW m \in Nat, m < Len(order), NEW layer, LayerRight(order, T, options, m, layer)
  PROVE  LayerRight(order, T, options, m + 1, NextLayer(layer, options[m + 1]))
  <1>1. Len(order) \in Nat /\ m + 1 \in 1..Len(order)
    BY IndexOf
  <1>2. PICK opts \in Seq(DpChoices) : opts = options[m + 1] /\ Range(opts) \subseteq OptionsAt(order, T, m + 1)
    BY <1>1 DEF AreOptions
  <1>3. layer \in Seq(Nodes)
    BY DEF LayerRight
  <1>4. /\ NextLayer(layer, opts) \in Seq(Nodes)
        /\ \A r \in Range(NextLayer(layer, opts)) :
             \E prev \in Range(layer), opt \in Range(opts) : Follows(prev, opt) /\ r = Follow(prev, opt)
        /\ \A prev \in Range(layer), opt \in Range(opts) :
             Follows(prev, opt) => Covers(NextLayer(layer, opts), Follow(prev, opt))
    BY <1>3, NextLayerRight
  <1>5. PICK new \in Seq(Nodes) : new = NextLayer(layer, opts)
    BY <1>4
  <1>6. \A r \in Range(layer) : r \in Nodes /\ r.last \in Int /\ r.score \in Int
    BY <1>3, NodesOfLayer
  <1>7. \A r \in Range(new) : r \in Nodes /\ r.last \in Int /\ r.score \in Int
    BY <1>5, NodesOfLayer
  <1>8. \A x \in T : Option(x) # Skip /\ Option(x).ord = x.ord /\ Option(x).score = x.score /\ x.ord \in Nat
    BY DEF Option, Skip, NoOrdinal, DpInput
  <1>9. ASSUME NEW r \in Range(new)
        PROVE  \E P : Reading(order, T, options, m + 1, P) /\ StandsFor(order, T, m + 1, r, P)
    <2>1. PICK prev \in Range(layer), opt \in Range(opts) : Follows(prev, opt) /\ r = Follow(prev, opt)
      BY <1>4, <1>5
    <2>2. PICK P : Reading(order, T, options, m, P) /\ StandsFor(order, T, m, prev, P)
      BY DEF LayerRight
    <2>3. prev.path = [i \in 1..m |-> ChoiceOf(order, P, i).ord]
      BY <2>2 DEF StandsFor
    <2>. DEFINE e == [i \in 1..m |-> ChoiceOf(order, P, i).ord]
    <2>4. prev.path = [i \in 1..m |-> e[i]]
      BY <2>3
    <2>5. CASE opt = Skip
      <3>1. Reading(order, T, options, m + 1, P) /\ ChoiceOf(order, P, m + 1) = Skip
        BY <1>2, <2>2, <2>5, ReadingSame
      <3>2. r.last = prev.last /\ r.score = prev.score /\ r.path = Append(prev.path, NoOrdinal)
        BY <1>6, <2>1, <2>5 DEF Follow, Nodes
      <3>. DEFINE f == [i \in 1..(m + 1) |-> ChoiceOf(order, P, i).ord]
      <3>3. f[m + 1] = NoOrdinal /\ \A i \in 1..m : f[i] = e[i]
        <4>1. m + 1 \in 1..(m + 1) /\ \A i \in 1..m : i \in 1..(m + 1)
          OBVIOUS
        <4>. QED  BY <3>1, <4>1 DEF Skip
      <3>4. f = [i \in 1..(m + 1) |-> f[i]]
        OBVIOUS
      <3>5. r.path = f
        <4>. HIDE DEF e, f
        <4>1. Append(prev.path, f[m + 1]) = [i \in 1..(m + 1) |-> f[i]]
          BY <2>4, <3>3, PathGrows
        <4>. QED  BY <3>2, <3>3, <3>4, <4>1
      <3>6. StandsFor(order, T, m + 1, r, P)
        BY <2>2, <3>2, <3>5 DEF StandsFor
      <3>. QED  BY <3>1, <3>6
    <2>6. CASE opt # Skip
      <3>1. PICK x \in T : x.key = order[m + 1] /\ opt = Option(x)
        BY <1>2, <2>6 DEF OptionsAt
      <3>2. opt.ord = x.ord /\ opt.score = x.score /\ prev.last < x.ord /\ x.ord \in Nat /\ prev.last \in Int
        BY <1>6, <1>8, <2>1, <2>6, <3>1 DEF Follows
      <3>3. \A y \in P : y.ord < x.ord
        <4>1. \A y \in P : y.ord <= prev.last /\ y.ord \in Nat
          BY <2>2 DEF StandsFor, IsLast, Reading, DpInput
        <4>. QED  BY <3>2, <4>1
      <3>4. Option(x) \in Range(options[m + 1])
        BY <1>2, <3>1
      <3>0. PICK Q : Q = With(P, x) /\ Q = P \cup {x}
        BY DEF With
      <3>5. /\ Reading(order, T, options, m + 1, Q) /\ x \notin P
            /\ \A i \in 1..m : ChoiceOf(order, Q, i) = ChoiceOf(order, P, i)
            /\ ChoiceOf(order, Q, m + 1) = Option(x)
        <4>. HIDE DEF e
        <4>1. Reading(order, T, options, m, P)
          BY <2>2
        <4>2. x.key = order[m + 1]
          BY <3>1
        <4>3. Before(P, x)
          BY <3>3 DEF Before
        <4>4. Q = With(P, x)
          BY <3>0
        <4>5. Reading(order, T, options, m + 1, Q) /\ x \notin P
          BY <3>4, <4>1, <4>2, <4>3, <4>4, ReadingMore
        <4>6. \A i \in 1..m : ChoiceOf(order, Q, i) = ChoiceOf(order, P, i)
          BY <3>4, <4>1, <4>2, <4>3, <4>4, ReadingMore
        <4>7. ChoiceOf(order, Q, m + 1) = Option(x)
          BY <3>4, <4>1, <4>2, <4>3, <4>4, ReadingMore
        <4>. QED  BY <4>5, <4>6, <4>7
      <3>6. r.last = x.ord /\ r.score = prev.score + Contribution(x.score)
            /\ r.path = Append(prev.path, x.ord)
        BY <2>1, <2>6, <3>2 DEF Follow
      <3>. DEFINE f == [i \in 1..(m + 1) |-> ChoiceOf(order, Q, i).ord]
      <3>7. f[m + 1] = x.ord /\ \A i \in 1..m : f[i] = e[i]
        <4>1. m + 1 \in 1..(m + 1) /\ \A i \in 1..m : i \in 1..(m + 1)
          OBVIOUS
        <4>. QED  BY <1>8, <3>5, <4>1
      <3>8. f = [i \in 1..(m + 1) |-> f[i]]
        OBVIOUS
      <3>9. r.path = f
        <4>. HIDE DEF e, f
        <4>1. Append(prev.path, f[m + 1]) = [i \in 1..(m + 1) |-> f[i]]
          BY <2>4, <3>7, PathGrows
        <4>. QED  BY <3>6, <3>7, <3>8, <4>1
      <3>10. r.score = Total(T, Q)
        <4>1. P \in SUBSET T /\ x \in T \ P
          BY <2>2, <3>5 DEF Reading
        <4>2. Total(T, P \cup {x}) = Total(T, P) + Contribution(x.score)
          BY <4>1, TotalOf
        <4>. QED  BY <2>2, <3>0, <3>6, <4>2 DEF StandsFor
      <3>11. IsLast(Q, r.last)
        <4>1. \A y \in P : y.ord \in Nat
          BY <2>2 DEF Reading, DpInput
        <4>2. \A y \in Q : y.ord <= x.ord
          BY <3>0, <3>2, <3>3, <4>1
        <4>. QED  BY <3>0, <3>6, <4>2 DEF IsLast
      <3>12. StandsFor(order, T, m + 1, r, Q)
        BY <3>9, <3>10, <3>11 DEF StandsFor
      <3>. QED  BY <3>5, <3>12
    <2>. QED  BY <2>5, <2>6
  <1>10. ASSUME NEW P, Reading(order, T, options, m + 1, P)
         PROVE  \E r \in Range(new) : IsLast(P, r.last) /\ r.score >= Total(T, P)
    <2>1. CASE Reading(order, T, options, m, P) /\ Skip \in Range(options[m + 1])
      <3>1. PICK prev \in Range(layer) : IsLast(P, prev.last) /\ prev.score >= Total(T, P)
        BY <2>1 DEF LayerRight
      <3>2. Skip \in Range(opts) /\ Follows(prev, Skip)
        BY <1>2, <2>1 DEF Follows
      <3>3. Follow(prev, Skip).last = prev.last /\ Follow(prev, Skip).score = prev.score
        BY <1>6 DEF Follow, Nodes
      <3>4. Covers(new, Follow(prev, Skip))
        BY <1>4, <1>5, <3>2
      <3>5. PICK q \in Range(new) : q.last = prev.last /\ q.score >= prev.score
        BY <3>3, <3>4 DEF Covers
      <3>6. Total(T, P) \in Nat /\ q.score \in Int /\ prev.score \in Int
        BY <1>6, <1>7, <2>1, TotalOf DEF Reading
      <3>7. q.score >= Total(T, P)
        BY <3>1, <3>5, <3>6
      <3>. QED  BY <3>1, <3>5, <3>7
    <2>2. CASE \E x \in P : /\ x.key = order[m + 1] /\ Reading(order, T, options, m, P \ {x})
                            /\ \A y \in P \ {x} : y.ord < x.ord
                            /\ Option(x) \in Range(options[m + 1])
      <3>1. PICK x \in P : /\ x.key = order[m + 1] /\ Reading(order, T, options, m, P \ {x})
                           /\ \A y \in P \ {x} : y.ord < x.ord
                           /\ Option(x) \in Range(options[m + 1])
        BY <2>2
      <3>2. PICK Q \in SUBSET T : Q = P \ {x}
        BY <1>10 DEF Reading
      <3>3. x \in T \ Q /\ Q \cup {x} = P /\ x.ord \in Nat /\ x.score \in Int
        BY <1>10, <3>2 DEF Reading, DpInput
      <3>4. PICK prev \in Range(layer) : IsLast(Q, prev.last) /\ prev.score >= Total(T, Q)
        BY <3>1, <3>2 DEF LayerRight
      <3>5. prev.last < x.ord
        <4>1. CASE prev.last = NoOrdinal
          BY <3>3, <4>1 DEF NoOrdinal
        <4>2. CASE \E y \in Q : y.ord = prev.last
          BY <3>1, <3>2, <4>2
        <4>. QED  BY <3>4, <4>1, <4>2 DEF IsLast
      <3>6. Option(x) \in Range(opts) /\ Option(x) # Skip /\ Option(x).ord = x.ord /\ Option(x).score = x.score
        BY <1>2, <1>8, <3>1, <3>3
      <3>7. Follows(prev, Option(x))
        BY <1>6, <3>3, <3>5, <3>6 DEF Follows
      <3>8. Follow(prev, Option(x)).last = x.ord
            /\ Follow(prev, Option(x)).score = prev.score + Contribution(x.score)
        BY <3>6 DEF Follow
      <3>9. Covers(new, Follow(prev, Option(x)))
        BY <1>4, <1>5, <3>6, <3>7
      <3>10. PICK q \in Range(new) : q.last = x.ord /\ q.score >= prev.score + Contribution(x.score)
        BY <3>8, <3>9 DEF Covers
      <3>11. Total(T, P) = Total(T, Q) + Contribution(x.score) /\ Total(T, Q) \in Nat
        BY <3>3, TotalOf
      <3>12. q.score \in Int /\ prev.score \in Int /\ Contribution(x.score) \in Int
        BY <1>6, <1>7, <3>3 DEF Contribution, BodyBaseline
      <3>13. q.score >= Total(T, P)
        BY <3>4, <3>10, <3>11, <3>12
      <3>14. IsLast(P, q.last)
        <4>1. \A y \in Q : y.ord < x.ord /\ y.ord \in Nat
          BY <3>1, <3>2 DEF DpInput
        <4>2. \A y \in P : y.ord <= x.ord
          BY <3>3, <4>1
        <4>. QED  BY <3>10, <4>2 DEF IsLast
      <3>. QED  BY <3>13, <3>14
    <2>. QED  BY <1>10, <2>1, <2>2, ReadingLess
  <1>. QED  BY <1>2, <1>5, <1>9, <1>10 DEF LayerRight

(* The last layer is right for all the boundaries. *)
LEMMA LastLayerRight ==
  ASSUME NEW order, NEW T, DpInput(order, T), NEW options, AreOptions(order, T, options)
  PROVE  LayerRight(order, T, options, Len(order), LastLayer(options))
  <1>1. options \in Seq(Seq(DpChoices)) /\ Len(options) = Len(order) /\ Len(order) \in Nat
    BY IndexOf DEF AreOptions
  <1>2. PICK n \in Nat : n = Len(order) /\ n = Len(options)
    BY <1>1
  <1>3. PICK d : /\ d[0] = <<FirstNode>>
                 /\ \A k \in 1..n : d[k] = NextLayer(d[k - 1], options[k])
                 /\ LastLayer(options) = d[n]
    BY <1>1, <1>2, LastLayerSteps
  <1>. DEFINE Q == { k \in Nat : k <= n => LayerRight(order, T, options, k, d[k]) }
  <1>4. 0 \in Q
    BY <1>3, FirstLayerRight
  <1>5. ASSUME NEW k \in Q PROVE k + 1 \in Q
    <2>. SUFFICES ASSUME k + 1 <= n PROVE LayerRight(order, T, options, k + 1, d[k + 1])
      OBVIOUS
    <2>1. k + 1 \in 1..n /\ k <= n /\ (k + 1) - 1 = k /\ k \in Nat /\ k < n
      OBVIOUS
    <2>2. d[k + 1] = NextLayer(d[k], options[k + 1]) /\ LayerRight(order, T, options, k, d[k])
      BY <1>3, <2>1
    <2>3. LayerRight(order, T, options, k + 1, NextLayer(d[k], options[k + 1]))
      BY <1>2, <2>1, <2>2, LayerStep
    <2>. QED  BY <2>2, <2>3
  <1>6. Q = Nat
    <2>. HIDE DEF Q
    <2>1. Q \in SUBSET Nat
      BY DEF Q
    <2>. QED  BY <1>4, <1>5, <2>1, SetInduction
  <1>. QED  BY <1>2, <1>3, <1>6

-----------------------------------------------------------------------------
(* The options, and what is forced.                                        *)

(* The options of a boundary begin with the skip. *)
LEMMA SkipFirst ==
  ASSUME NEW S, NEW s \in Seq(S), NEW x
  PROVE  (<<x>> \o s) \in Seq(S \cup {x}) /\ Range(<<x>> \o s) = {x} \cup Range(s)
  <1>. DEFINE n == Len(s)
              a == <<x>> \o s
  <1>1. <<x>> \in Seq(S \cup {x}) /\ s \in Seq(S \cup {x}) /\ Len(<<x>>) = 1 /\ <<x>>[1] = x
    OBVIOUS
  <1>2. /\ a \in Seq(S \cup {x}) /\ n \in Nat /\ DOMAIN s = 1..n /\ DOMAIN a = 1..(n + 1)
        /\ a[1] = x /\ \A i \in 1..n : a[i + 1] = s[i]
    BY <1>1
  <1>3. \A j \in 1..(n + 1) : j = 1 \/ (j - 1 \in 1..n /\ (j - 1) + 1 = j)
    BY <1>2
  <1>4. 1 \in 1..(n + 1) /\ \A i \in 1..n : i + 1 \in 1..(n + 1)
    BY <1>2
  <1>. HIDE DEF a, n
  <1>5. ASSUME NEW y \in Range(a) PROVE y = x \/ y \in Range(s)
    <2>1. PICK j \in 1..(n + 1) : y = a[j]
      BY <1>2 DEF Range
    <2>2. CASE j = 1
      BY <1>2, <2>1, <2>2
    <2>3. CASE j # 1
      <3>1. j - 1 \in 1..n /\ a[(j - 1) + 1] = s[j - 1] /\ (j - 1) + 1 = j
        BY <1>2, <1>3, <2>3
      <3>2. y = s[j - 1]
        BY <2>1, <3>1
      <3>. QED  BY <1>2, <3>1, <3>2 DEF Range
    <2>. QED  BY <2>2, <2>3
  <1>6. ASSUME NEW y \in Range(s) PROVE y \in Range(a)
    <2>1. PICK i \in 1..n : y = s[i]
      BY <1>2 DEF Range
    <2>2. y = a[i + 1] /\ i + 1 \in DOMAIN a
      BY <1>2, <1>4, <2>1
    <2>. QED  BY <2>2 DEF Range
  <1>7. x \in Range(a)
    BY <1>2, <1>4 DEF Range
  <1>8. Range(a) = {x} \cup Range(s)
    BY <1>5, <1>6, <1>7
  <1>. QED  BY <1>2, <1>8 DEF a

(* All the candidates for a boundary are options. *)
Complete(order, T, options) == \A i \in 1..Len(order) : Range(options[i]) = OptionsAt(order, T, i)

(* OptionsFor has all the selectable candidates, and the skip. *)
LEMMA OptionsAre ==
  ASSUME NEW order, NEW C, NEW T, T = {x \in C : Selectable(x.score)}, DpInput(order, T)
  PROVE  /\ AreOptions(order, T, OptionsFor(order, C))
         /\ Complete(order, T, OptionsFor(order, C))
  <1>1. Len(order) \in Nat /\ DOMAIN order = 1..Len(order)
    BY IndexOf
  <1>. DEFINE S(i) == {[ord |-> c.ord, score |-> c.score] : c \in {x \in C : x.key = order[i] /\ Selectable(x.score)}}
              options == OptionsFor(order, C)
  <1>2. options = [i \in 1..Len(order) |-> <<Skip>> \o ByOrdinal(S(i))]
    BY <1>1 DEF OptionsFor
  <1>3. ASSUME NEW i \in 1..Len(order)
        PROVE  options[i] \in Seq(DpChoices) /\ Range(options[i]) = OptionsAt(order, T, i)
    <2>1. PICK U \in SUBSET T : U = {y \in T : y.key = order[i]}
      OBVIOUS
    <2>. DEFINE w == [x \in U |-> Option(x)]
    <2>2. PICK V : V = S(i)
      OBVIOUS
    <2>3. V = {Option(x) : x \in U}
      BY <2>1, <2>2 DEF Option
    <2>4. V = {w[x] : x \in U}
      BY <2>3
    <2>5. IsFiniteSet(U)
      BY FS_Subset DEF DpInput
    <2>6. IsFiniteSet(V)
      <3>. HIDE DEF w
      <3>. QED  BY <2>4, <2>5, FiniteImage
    <2>7. ASSUME NEW v \in V PROVE v \in [ord : Nat, score : Int] /\ \E x \in U : v = Option(x) /\ v.ord = x.ord
      BY <2>3 DEF Option, DpInput
    <2>8. \A v \in V : v.ord \in Int
      BY <2>7
    <2>9. ASSUME NEW u \in V, NEW v \in V, u.ord = v.ord PROVE u = v
      <3>1. PICK x \in U : u = Option(x) /\ u.ord = x.ord
        BY <2>7
      <3>2. PICK y \in U : v = Option(y) /\ v.ord = y.ord
        BY <2>7
      <3>3. x = y
        BY <2>1, <2>9, <3>1, <3>2 DEF DpInput
      <3>. QED  BY <3>1, <3>2, <3>3
    <2>10. ByOrdinal(V) \in Seq(V) /\ Range(ByOrdinal(V)) = V
      BY <2>6, <2>8, <2>9, ByOrdinalRange
    <2>11. options[i] = <<Skip>> \o ByOrdinal(V)
      BY <1>2, <2>2
    <2>12. options[i] \in Seq(V \cup {Skip}) /\ Range(options[i]) = {Skip} \cup V
      <3>1. PICK s \in Seq(V) : s = ByOrdinal(V) /\ Range(s) = V
        BY <2>10
      <3>2. (<<Skip>> \o s) \in Seq(V \cup {Skip}) /\ Range(<<Skip>> \o s) = {Skip} \cup Range(s)
        BY SkipFirst
      <3>3. options[i] = <<Skip>> \o s
        BY <2>11, <3>1
      <3>. HIDE DEF options
      <3>. QED  BY <3>1, <3>2, <3>3
    <2>13. V \cup {Skip} \subseteq DpChoices
      BY <2>7 DEF DpChoices
    <2>14. options[i] \in Seq(DpChoices)
      BY <2>12, <2>13, SeqMonotonic
    <2>15. {Skip} \cup V = OptionsAt(order, T, i)
      BY <2>1, <2>3 DEF OptionsAt
    <2>. QED  BY <2>12, <2>14, <2>15
  <1>4. options \in [1..Len(order) -> Seq(DpChoices)]
    <2>1. options = [i \in 1..Len(order) |-> options[i]]
      BY <1>2
    <2>. HIDE DEF options
    <2>. QED  BY <1>3, <2>1
  <1>. HIDE DEF options
  <1>5. options \in Seq(Seq(DpChoices)) /\ Len(options) = Len(order)
    <2>1. options \in Seq(Seq(DpChoices))
      BY <1>1, <1>4, SeqDef
    <2>2. DOMAIN options = 1..Len(order)
      BY <1>4
    <2>. QED  BY <1>1, <2>1, <2>2
  <1>6. AreOptions(order, T, options)
    BY <1>3, <1>5 DEF AreOptions
  <1>7. Complete(order, T, options)
    BY <1>3 DEF Complete
  <1>. QED  BY <1>6, <1>7 DEF options

(* The choice for one boundary is made. *)
WithForced(options, j, opt) == [options EXCEPT ![j] = <<opt>>]

(* All the ways to pick starts in ascending order. *)
AllPicks(order, T) == {P \in SUBSET T : Ascends(order, P)}

(* With all options, every ascending pick is a reading and conversely. *)
LEMMA PicksAreReadings ==
  ASSUME NEW order, NEW T, DpInput(order, T), NEW options,
         Complete(order, T, options),
         NEW P
  PROVE  /\ Reading(order, T, options, Len(order), P) <=> P \in AllPicks(order, T)
         /\ P \in AllPicks(order, T) => \A i \in 1..Len(order) : ChoiceOf(order, P, i) \in OptionsAt(order, T, i)
  <1>1. ASSUME P \in AllPicks(order, T), NEW i \in 1..Len(order)
        PROVE  ChoiceOf(order, P, i) \in OptionsAt(order, T, i)
    <2>1. P \in SUBSET T /\ Ascends(order, P)
      BY <1>1 DEF AllPicks
    <2>2. CASE \E x \in P : x.key = order[i]
      <3>1. PICK x \in P : x.key = order[i]
        BY <2>2
      <3>2. ChoiceOf(order, P, i) = Option(x)
        BY <2>1, <3>1, ChoiceOfIs
      <3>. QED  BY <2>1, <3>1, <3>2 DEF OptionsAt
    <2>3. CASE \A x \in P : x.key # order[i]
      BY <2>1, <2>3, ChoiceOfIs DEF OptionsAt
    <2>. QED  BY <2>2, <2>3
  <1>2. ASSUME P \in SUBSET T PROVE \A x \in P : Index(order, x.key) <= Len(order)
    <2>1. \A x \in P : x.key \in Range(order)
      BY <1>2 DEF DpInput
    <2>2. \A x \in P : Index(order, x.key) \in 1..Len(order)
      BY <2>1, IndexOf
    <2>3. Len(order) \in Nat
      BY IndexOf
    <2>. QED  BY <2>2, <2>3
  <1>. QED  BY <1>1, <1>2 DEF Reading, AllPicks, Complete

(* With one choice forced, the readings are the picks that make that choice. *)
LEMMA ForcedAre ==
  ASSUME NEW order, NEW T, DpInput(order, T), NEW options, AreOptions(order, T, options),
         Complete(order, T, options),
         NEW j \in 1..Len(order), NEW opt \in Range(options[j]),
         NEW forced, forced = WithForced(options, j, opt)
  PROVE  /\ AreOptions(order, T, forced)
         /\ \A P : Reading(order, T, forced, Len(order), P)
                    <=> P \in AllPicks(order, T) /\ ChoiceOf(order, P, j) = opt
  <1>1. options \in Seq(Seq(DpChoices)) /\ Len(options) = Len(order) /\ Len(order) \in Nat
        /\ DOMAIN options = 1..Len(order)
    BY IndexOf DEF AreOptions
  <1>2. opt \in DpChoices /\ opt \in OptionsAt(order, T, j)
    <2>1. options[j] \in Seq(DpChoices)
      BY <1>1
    <2>2. opt \in DpChoices
      BY <2>1 DEF Range
    <2>. QED  BY <2>2 DEF Complete
  <1>3. <<opt>> \in Seq(DpChoices) /\ Range(<<opt>>) = {opt}
    BY <1>2 DEF Range
  <1>5. /\ forced \in Seq(Seq(DpChoices)) /\ Len(forced) = Len(order)
        /\ forced[j] = <<opt>> /\ \A i \in 1..Len(order) : i # j => forced[i] = options[i]
    BY <1>1, <1>3 DEF WithForced
  <1>6. AreOptions(order, T, forced)
    BY <1>2, <1>3, <1>5 DEF AreOptions
  <1>7. ASSUME NEW P
        PROVE  Reading(order, T, forced, Len(order), P)
                 <=> P \in AllPicks(order, T) /\ ChoiceOf(order, P, j) = opt
    <2>1. Reading(order, T, options, Len(order), P) <=> P \in AllPicks(order, T)
      BY PicksAreReadings
    <2>2. Reading(order, T, forced, Len(order), P)
            <=> Reading(order, T, options, Len(order), P) /\ ChoiceOf(order, P, j) = opt
      <3>1. ChoiceOf(order, P, j) \in Range(forced[j]) <=> ChoiceOf(order, P, j) = opt
        BY <1>3, <1>5
      <3>2. \A i \in 1..Len(order) : i # j => Range(forced[i]) = Range(options[i])
        BY <1>5
      <3>. QED  BY <3>1, <3>2 DEF Reading
    <2>. QED  BY <2>1, <2>2
  <1>. QED  BY <1>6, <1>7

-----------------------------------------------------------------------------
(* What the dynamic programme finds.                                       *)

NearPicks(order, T) ==
  {P \in AllPicks(order, T) : \A Q \in AllPicks(order, T) : Total(T, Q) - Total(T, P) <= ScoreGap}

(* best stands for B, and no pick has a higher total. *)
IsBest(order, T, best, B) ==
  /\ B \in AllPicks(order, T) /\ StandsFor(order, T, Len(order), best, B)
  /\ \A P \in AllPicks(order, T) : Total(T, P) <= Total(T, B)

(* A sequence with a value is not empty. *)
LEMMA NonEmptyRange ==
  ASSUME NEW S, NEW s \in Seq(S), NEW x \in Range(s)
  PROVE  s # <<>>
  BY DEF Range

(* The best node of the last layer stands for a pick of the highest total. *)
LEMMA BestIs ==
  ASSUME NEW order, NEW T, DpInput(order, T), NEW options, AreOptions(order, T, options),
         Complete(order, T, options)
  PROVE  \E B : IsBest(order, T, BestNode(LastLayer(options)), B)
  <1>1. PICK layer : layer = LastLayer(options)
    OBVIOUS
  <1>2. LayerRight(order, T, options, Len(order), layer)
    BY <1>1, LastLayerRight
  <1>3. layer \in Seq(Nodes)
    BY <1>2 DEF LayerRight
  <1>4. \A P : Reading(order, T, options, Len(order), P) <=> P \in AllPicks(order, T)
    BY PicksAreReadings
  <1>5. layer # <<>>
    <2>1. {} \in AllPicks(order, T)
      BY DEF AllPicks, Ascends
    <2>2. PICK r \in Range(layer) : IsLast({}, r.last)
      BY <1>2, <1>4, <2>1 DEF LayerRight
    <2>. QED  BY <1>3, NonEmptyRange
  <1>6. PICK best : best = BestNode(layer)
    OBVIOUS
  <1>7. best \in Range(layer) /\ \A r \in Range(layer) : r.score <= best.score
    BY <1>3, <1>5, <1>6, BestNodeIsBest
  <1>8. PICK B : Reading(order, T, options, Len(order), B) /\ StandsFor(order, T, Len(order), best, B)
    BY <1>2, <1>7 DEF LayerRight
  <1>9. best.score = Total(T, B) /\ B \in AllPicks(order, T)
    BY <1>4, <1>8 DEF StandsFor
  <1>10. ASSUME NEW P \in AllPicks(order, T) PROVE Total(T, P) <= Total(T, B)
    <2>1. PICK r \in Range(layer) : r.score >= Total(T, P)
      BY <1>2, <1>4 DEF LayerRight
    <2>2. r.score \in Int /\ Total(T, P) \in Nat /\ Total(T, B) \in Nat
      BY <1>3, <1>9, NodesOfLayer, TotalOf DEF AllPicks
    <2>. QED  BY <1>7, <1>9, <2>1, <2>2
  <1>11. IsBest(order, T, best, B)
    BY <1>8, <1>9, <1>10 DEF IsBest
  <1>. QED  BY <1>1, <1>6, <1>11

(* The nearly best picks are those within the gap of that one. *)
LEMMA NearIs ==
  ASSUME NEW order, NEW T, DpInput(order, T), NEW best, NEW B, IsBest(order, T, best, B)
  PROVE  /\ B \in NearPicks(order, T) /\ best.score = Total(T, B)
         /\ \A P \in AllPicks(order, T) :
              /\ Total(T, P) \in Nat
              /\ P \in NearPicks(order, T) <=> Total(T, B) - Total(T, P) <= ScoreGap
  <1>1. \A P \in AllPicks(order, T) : Total(T, P) \in Nat
    BY TotalOf DEF AllPicks
  <1>2. B \in AllPicks(order, T) /\ best.score = Total(T, B)
    BY DEF IsBest, StandsFor
  <1>3. ASSUME NEW P \in AllPicks(order, T), Total(T, B) - Total(T, P) <= ScoreGap
        PROVE  P \in NearPicks(order, T)
    <2>1. ASSUME NEW Q \in AllPicks(order, T) PROVE Total(T, Q) - Total(T, P) <= ScoreGap
      <3>1. Total(T, Q) <= Total(T, B)
        BY DEF IsBest
      <3>. QED  BY <1>1, <1>2, <1>3, <3>1 DEF ScoreGap
    <2>. QED  BY <2>1 DEF NearPicks
  <1>4. Total(T, B) - Total(T, B) <= ScoreGap
    BY <1>1, <1>2 DEF ScoreGap
  <1>5. \A P \in AllPicks(order, T) : P \in NearPicks(order, T) => Total(T, B) - Total(T, P) <= ScoreGap
    BY <1>2 DEF NearPicks
  <1>. QED  BY <1>1, <1>2, <1>3, <1>4, <1>5

(* A choice is close when some nearly best pick makes it: _score_path_with_forced. *)
LEMMA CloseIs ==
  ASSUME NEW order, NEW T, DpInput(order, T), NEW options, AreOptions(order, T, options),
         Complete(order, T, options),
         NEW best, NEW B, IsBest(order, T, best, B),
         NEW j \in 1..Len(order), NEW opt \in Range(options[j])
  PROVE  Close(options, best, j, opt)
           <=> \E P \in NearPicks(order, T) : ChoiceOf(order, P, j) = opt
  <1>1. PICK forced : forced = WithForced(options, j, opt)
    OBVIOUS
  <1>2. AreOptions(order, T, forced)
    BY <1>1, ForcedAre
  <1>3. \A P : Reading(order, T, forced, Len(order), P)
                 <=> P \in AllPicks(order, T) /\ ChoiceOf(order, P, j) = opt
    BY <1>1, ForcedAre
  <1>4. PICK layer : layer = LastLayer(forced)
    OBVIOUS
  <1>5. LayerRight(order, T, forced, Len(order), layer)
    BY <1>2, <1>4, LastLayerRight
  <1>6. layer \in Seq(Nodes)
    BY <1>5 DEF LayerRight
  <1>7. Close(options, best, j, opt) <=> layer # <<>> /\ best.score - BestNode(layer).score <= ScoreGap
    BY <1>1, <1>4 DEF Close, WithForced
  <1>8. /\ best.score = Total(T, B) /\ Total(T, B) \in Nat
        /\ \A P \in AllPicks(order, T) :
              /\ Total(T, P) \in Nat
              /\ P \in NearPicks(order, T) <=> Total(T, B) - Total(T, P) <= ScoreGap
    BY NearIs DEF IsBest
  <1>9. ASSUME layer # <<>>
        PROVE  BestNode(layer) \in Range(layer) /\ \A r \in Range(layer) : r.score <= BestNode(layer).score
    BY <1>6, <1>9, BestNodeIsBest
  <1>10. ASSUME layer # <<>>, best.score - BestNode(layer).score <= ScoreGap
         PROVE  \E P \in NearPicks(order, T) : ChoiceOf(order, P, j) = opt
    <2>1. PICK r \in Range(layer) : r = BestNode(layer)
      BY <1>9, <1>10
    <2>2. PICK P : Reading(order, T, forced, Len(order), P) /\ StandsFor(order, T, Len(order), r, P)
      BY <1>5 DEF LayerRight
    <2>3. r.score = Total(T, P) /\ P \in AllPicks(order, T) /\ ChoiceOf(order, P, j) = opt
      BY <1>3, <2>2 DEF StandsFor
    <2>4. P \in NearPicks(order, T)
      BY <1>8, <1>10, <2>1, <2>3
    <2>. QED  BY <2>3, <2>4
  <1>11. ASSUME NEW P \in NearPicks(order, T), ChoiceOf(order, P, j) = opt
         PROVE  layer # <<>> /\ best.score - BestNode(layer).score <= ScoreGap
    <2>1. P \in AllPicks(order, T)
      BY DEF NearPicks
    <2>2. PICK r \in Range(layer) : r.score >= Total(T, P)
      BY <1>3, <1>5, <1>11, <2>1 DEF LayerRight
    <2>3. layer # <<>>
      BY <1>6, NonEmptyRange
    <2>4. PICK q \in Range(layer) : q = BestNode(layer) /\ r.score <= q.score
      BY <1>9, <2>3
    <2>5. r.score \in Int /\ q.score \in Int
      BY <1>6, NodesOfLayer
    <2>6. Total(T, B) - Total(T, P) <= ScoreGap /\ Total(T, P) \in Nat
      BY <1>8, <2>1
    <2>7. best.score - q.score <= ScoreGap
      BY <1>8, <2>2, <2>4, <2>5, <2>6 DEF ScoreGap
    <2>. QED  BY <2>3, <2>4, <2>7
  <1>. QED  BY <1>7, <1>10, <1>11

(* The ordinal that P starts a boundary at, or NoOrdinal. *)
OrdOf(order, P, i) == ChoiceOf(order, P, i).ord

(* All nearly best picks agree on the i-th boundary. *)
Agreed(order, T, i) ==
  \A P, Q \in NearPicks(order, T) : OrdOf(order, P, i) = OrdOf(order, Q, i)

(* The outcome of the dynamic programme, in terms of the nearly best picks. *)
DpRight(order, T, dp) ==
  /\ NearPicks(order, T) # {}
  /\ dp.ambiguous \subseteq Range(order)
  /\ \A i \in DOMAIN order :
       /\ order[i] \in dp.ambiguous <=> ~ Agreed(order, T, i)
       /\ Agreed(order, T, i) =>
            /\ dp.alts[order[i]] = {}
            /\ \A P \in NearPicks(order, T) : dp.selected[order[i]] = OrdOf(order, P, i)
       /\ ~ Agreed(order, T, i) =>
            /\ dp.selected[order[i]] = NoOrdinal
            /\ dp.alts[order[i]] \subseteq Nat
            /\ \A P \in NearPicks(order, T) :
                 OrdOf(order, P, i) # NoOrdinal => OrdOf(order, P, i) \in dp.alts[order[i]]

(* The choices for the i-th boundary of nearly best picks, other than that of B. *)
Rivals(order, T, B, i) ==
  {o \in OptionsAt(order, T, i) :
     o.ord # OrdOf(order, B, i) /\ \E P \in NearPicks(order, T) : ChoiceOf(order, P, i) = o}

(* So the close alternatives are the choices of the nearly best picks that  *)
(* differ from the best one.                                                *)
LEMMA AlternativesAre ==
  ASSUME NEW order, NEW T, DpInput(order, T), NEW options, AreOptions(order, T, options),
         Complete(order, T, options), NEW best, NEW B, IsBest(order, T, best, B),
         NEW i \in 1..Len(order)
  PROVE  CloseAlternatives(options, best, i) = Rivals(order, T, B, i)
  <1>1. best.path[i] = OrdOf(order, B, i)
    BY DEF IsBest, StandsFor, OrdOf
  <1>2. Range(options[i]) = OptionsAt(order, T, i)
    BY DEF Complete
  <1>3. ASSUME NEW o \in Range(options[i])
        PROVE  Close(options, best, i, o) <=> \E P \in NearPicks(order, T) : ChoiceOf(order, P, i) = o
    BY CloseIs
  <1>. QED  BY <1>1, <1>2, <1>3 DEF CloseAlternatives, Alternatives, Rivals

(* The monotonic dynamic programme is right, for every order of boundaries *)
(* and every set of candidates: it selects for a boundary what all nearly  *)
(* best ascending picks agree on, calls it ambiguous when they disagree,   *)
(* and then lists every start that one of them has: _global_monotonic_dp   *)
(* and _score_path_with_forced, against a definition without layers.       *)
THEOREM MonotonicDpIsRight ==
  ASSUME NEW order, NEW C, NEW T, T = {x \in C : Selectable(x.score)}, DpInput(order, T)
  PROVE  DpRight(order, T, MonotonicDp(order, C))
  <1>1. PICK options : options = OptionsFor(order, C)
    OBVIOUS
  <1>2. AreOptions(order, T, options) /\ Complete(order, T, options)
    BY <1>1, OptionsAre
  <1>3. PICK best : best = BestNode(LastLayer(options))
    OBVIOUS
  <1>4. PICK B : IsBest(order, T, best, B)
    BY <1>2, <1>3, BestIs
  <1>5. Len(order) \in Nat /\ DOMAIN order = 1..Len(order)
    BY IndexOf
  <1>6. B \in NearPicks(order, T)
    BY <1>4, NearIs
  <1>7. \A i \in DOMAIN order : best.path[i] = OrdOf(order, B, i)
    BY <1>4, <1>5 DEF IsBest, StandsFor, OrdOf
  <1>. DEFINE alt == [i \in DOMAIN order |-> CloseAlternatives(options, best, i)]
              dp == MonotonicDp(order, C)
  <1>8. /\ dp.selected = [k \in Range(order) |->
                            IF alt[Index(order, k)] = {} THEN best.path[Index(order, k)] ELSE NoOrdinal]
        /\ dp.ambiguous = {order[i] : i \in {j \in DOMAIN order : alt[j] # {}}}
        /\ dp.alts = [k \in Range(order) |->
                        IF alt[Index(order, k)] = {} THEN {}
                        ELSE ({o.ord : o \in alt[Index(order, k)]} \cup {best.path[Index(order, k)]})
                               \ {NoOrdinal}]
    BY <1>1, <1>3 DEF MonotonicDp
  <1>9. ASSUME NEW i \in DOMAIN order
        PROVE  /\ \A o \in alt[i] : o.ord \in {NoOrdinal} \cup Nat
               /\ \A P \in NearPicks(order, T) : OrdOf(order, P, i) \in {NoOrdinal} \cup Nat
               /\ \A o \in alt[i] : \E P \in NearPicks(order, T) :
                    OrdOf(order, P, i) = o.ord /\ o.ord # OrdOf(order, B, i)
               /\ \A P \in NearPicks(order, T) : OrdOf(order, P, i) # OrdOf(order, B, i) =>
                    \E o \in alt[i] : o.ord = OrdOf(order, P, i)
    <2>1. alt[i] = CloseAlternatives(options, best, i)
      OBVIOUS
    <2>2. i \in 1..Len(order)
      BY <1>5
    <2>. HIDE DEF alt, dp
    <2>3. alt[i] = Rivals(order, T, B, i)
      BY <1>2, <1>4, <2>1, <2>2, AlternativesAre
    <2>4. \A o \in OptionsAt(order, T, i) : o.ord \in {NoOrdinal} \cup Nat
      BY DEF OptionsAt, Option, Skip, DpInput
    <2>5. \A P \in NearPicks(order, T) : ChoiceOf(order, P, i) \in OptionsAt(order, T, i)
      BY <1>2, <2>2, PicksAreReadings DEF NearPicks
    <2>. QED  BY <2>3, <2>4, <2>5 DEF OrdOf, Rivals
  <1>10. \A i \in DOMAIN order : alt[i] = {} <=> Agreed(order, T, i)
    <2>. HIDE DEF alt
    <2>. QED  BY <1>6, <1>9 DEF Agreed
  <1>11. ASSUME NEW i \in DOMAIN order PROVE order[i] \in Range(order) /\ Index(order, order[i]) = i
    BY IndexOf DEF Range
  <1>12. ASSUME NEW i \in DOMAIN order
         PROVE  /\ dp.selected[order[i]] = IF alt[i] = {} THEN best.path[i] ELSE NoOrdinal
                /\ dp.alts[order[i]] = IF alt[i] = {} THEN {}
                                       ELSE ({o.ord : o \in alt[i]} \cup {best.path[i]}) \ {NoOrdinal}
                /\ order[i] \in dp.ambiguous <=> alt[i] # {}
    <2>. HIDE DEF alt, dp
    <2>1. order[i] \in Range(order) /\ Index(order, order[i]) = i
      BY <1>11
    <2>2. /\ dp.selected[order[i]] = IF alt[i] = {} THEN best.path[i] ELSE NoOrdinal
          /\ dp.alts[order[i]] = IF alt[i] = {} THEN {}
                                 ELSE ({o.ord : o \in alt[i]} \cup {best.path[i]}) \ {NoOrdinal}
      BY <1>8, <2>1
    <2>3. order[i] \in dp.ambiguous <=> alt[i] # {}
      BY <1>8 DEF DpInput
    <2>. QED  BY <2>2, <2>3
  <1>. HIDE DEF alt, dp
  <1>13. ASSUME NEW i \in DOMAIN order, Agreed(order, T, i)
         PROVE  /\ dp.alts[order[i]] = {}
                /\ \A P \in NearPicks(order, T) : dp.selected[order[i]] = OrdOf(order, P, i)
    <2>1. alt[i] = {} /\ dp.selected[order[i]] = best.path[i]
      BY <1>10, <1>12, <1>13
    <2>2. \A P \in NearPicks(order, T) : OrdOf(order, P, i) = OrdOf(order, B, i)
      BY <1>6, <1>13 DEF Agreed
    <2>. QED  BY <1>7, <1>12, <2>1, <2>2
  <1>14. ASSUME NEW i \in DOMAIN order, ~ Agreed(order, T, i)
         PROVE  /\ dp.selected[order[i]] = NoOrdinal
                /\ dp.alts[order[i]] \subseteq Nat
                /\ \A P \in NearPicks(order, T) :
                     OrdOf(order, P, i) # NoOrdinal => OrdOf(order, P, i) \in dp.alts[order[i]]
    <2>1. alt[i] # {} /\ best.path[i] = OrdOf(order, B, i)
      BY <1>7, <1>10, <1>14
    <2>2. dp.selected[order[i]] = NoOrdinal
          /\ dp.alts[order[i]] = ({o.ord : o \in alt[i]} \cup {OrdOf(order, B, i)}) \ {NoOrdinal}
      BY <1>12, <2>1
    <2>3. dp.alts[order[i]] \subseteq Nat
      BY <1>6, <1>9, <2>2
    <2>4. \A P \in NearPicks(order, T) :
            OrdOf(order, P, i) # NoOrdinal => OrdOf(order, P, i) \in dp.alts[order[i]]
      BY <1>9, <2>2
    <2>. QED  BY <2>2, <2>3, <2>4
  <1>15. dp.ambiguous \subseteq Range(order)
    BY <1>8 DEF Range
  <1>16. DpRight(order, T, dp)
    BY <1>6, <1>10, <1>12, <1>13, <1>14, <1>15 DEF DpRight
  <1>. QED  BY <1>16 DEF dp

-----------------------------------------------------------------------------
(* What becomes of the Items of a document.                                *)

(* What is found of a document in the blocks that carry a marker. *)
MarksOK(m, D) ==
  /\ D \subseteq Int /\ m.toc \subseteq D
  /\ IsFiniteSet(m.items)
  /\ \A x \in m.items : x.ord \in D /\ x.score \in Int /\ x.tokens \in Seq(STRING)
  /\ \A x, y \in m.items : x.ord = y.ord => x = y
  /\ IsFiniteSet(m.terminals)
  /\ \A x \in m.terminals : x.ord \in Int /\ x.score \in Int

(* An Item at a boundary of the grammar. *)
CandidateOf(m, key, x) == [key |-> key, ord |-> x.ord, score |-> x.score, toc |-> x.ord \in m.toc]
CandidatesOf(f, m) == {CandidateOf(m, p[1], p[2]) : p \in Range(BoundaryKeys(f)) \X m.items}

Memos == [part : {NoOrdinal} \cup Nat, rank : Nat, ended : BOOLEAN]
Assignments(f, m) ==
  [memo : Memos, items : SUBSET CandidatesOf(f, m), unresolved : SUBSET ((Nat \X STRING) \X Int)]

(* The default Part is one of the grammar. *)
LEMMA DefaultPartType == ASSUME NEW token PROVE DefaultPart10K(token) \in Nat
  <1>. DEFINE keys == {k \in Range(Boundary10K) : k[2] = token}
  <1>1. \A k \in Range(Boundary10K) : k[1] \in Nat
    BY DEF Boundary10K, Range
  <1>2. CASE keys = {}
    BY <1>2 DEF DefaultPart10K
  <1>3. CASE keys # {}
    <2>1. PICK k \in keys : k = CHOOSE x \in keys : TRUE
      BY <1>3
    <2>. QED  BY <1>1, <1>3, <2>1 DEF DefaultPart10K
  <1>. QED  BY <1>2, <1>3

(* The memory of the Parts of a 10-Q keeps its type. *)
LEMMA PartOfType ==
  ASSUME NEW res, NEW memo \in Memos, NEW ord, NEW token
  PROVE  PartOf10QItem(res, memo, ord, token) \in Memos
  <1>. DEFINE rank == IF token \in Range(PartIOrder) THEN Index(PartIOrder, token) ELSE 0
              resolved(p) == [memo EXCEPT !.part = p]
              ended == [memo EXCEPT !.part = NoOrdinal, !.ended = TRUE]
              unresolved == [memo EXCEPT !.part = NoOrdinal]
              inPartI == IF rank = 0 \/ rank < memo.rank THEN ended
                         ELSE [memo EXCEPT !.part = 1, !.rank = rank]
  <1>1. rank \in Nat
    <2>1. DOMAIN PartIOrder = 1..4
      BY DEF PartIOrder
    <2>2. token \in Range(PartIOrder) => Index(PartIOrder, token) \in 1..4
      BY <2>1 DEF Index, Range
    <2>. QED  BY <2>2
  <1>. HIDE DEF rank
  <1>2. resolved(1) \in Memos /\ resolved(2) \in Memos /\ ended \in Memos /\ unresolved \in Memos
    BY DEF Memos
  <1>3. [memo EXCEPT !.part = 1, !.rank = rank] \in Memos
    BY <1>1 DEF Memos
  <1>4. inPartI \in Memos
    BY <1>2, <1>3
  <1>5. PartOf10QItem(res, memo, ord, token) \in {resolved(1), resolved(2), ended, unresolved, inPartI}
    <2>. HIDE DEF resolved, ended, unresolved, inPartI
    <2>. QED  BY DEF PartOf10QItem, resolved, ended, unresolved, inPartI, rank
  <1>. QED  BY <1>2, <1>4, <1>5

(* One Item, with or without a Part, keeps the type of what is assigned. *)
LEMMA AssignTokenType ==
  ASSUME NEW f, NEW D, NEW m, MarksOK(m, D), NEW res, NEW acc \in Assignments(f, m),
         NEW o \in m.items, NEW token \in STRING
  PROVE  AssignToken(f, m, res, acc, o, token) \in Assignments(f, m)
  <1>. DEFINE memo == IF BaseForm(f) = "10-K" THEN [acc.memo EXCEPT !.part = DefaultPart10K(token)]
                      ELSE PartOf10QItem(res, acc.memo, o.ord, token)
              key == <<memo.part, token>>
              boundary == Range(BoundaryKeys(f))
              lost == {<<<<p, token>>, o.ord>> : p \in {q \in {1, 2} : <<q, token>> \in boundary}}
              a == AssignToken(f, m, res, acc, o, token)
  <1>1. acc.memo \in Memos /\ acc.items \in SUBSET CandidatesOf(f, m)
        /\ acc.unresolved \in SUBSET ((Nat \X STRING) \X Int)
    BY DEF Assignments
  <1>2. memo \in Memos
    <2>1. [acc.memo EXCEPT !.part = DefaultPart10K(token)] \in Memos
      BY <1>1, DefaultPartType DEF Memos
    <2>2. PartOf10QItem(res, acc.memo, o.ord, token) \in Memos
      BY <1>1, PartOfType
    <2>. QED  BY <2>1, <2>2
  <1>3. lost \in SUBSET ((Nat \X STRING) \X Int)
    <2>1. o.ord \in Int /\ 1 \in Nat /\ 2 \in Nat
      BY DEF MarksOK
    <2>2. ASSUME NEW p \in {1, 2} PROVE <<<<p, token>>, o.ord>> \in (Nat \X STRING) \X Int
      BY <2>1
    <2>. HIDE DEF boundary
    <2>. QED  BY <2>2
  <1>4. ASSUME key \in boundary PROVE CandidateOf(m, key, o) \in CandidatesOf(f, m)
    <2>1. <<key, o>> \in boundary \X m.items /\ <<key, o>>[1] = key /\ <<key, o>>[2] = o
      BY <1>4
    <2>. HIDE DEF key, boundary
    <2>. QED  BY <2>1 DEF CandidatesOf, boundary
  <1>5. /\ a.memo = memo
        /\ a.items = IF memo.part # NoOrdinal /\ key \in boundary
                     THEN acc.items \cup {CandidateOf(m, key, o)} ELSE acc.items
        /\ a.unresolved = IF memo.part # NoOrdinal THEN acc.unresolved ELSE acc.unresolved \cup lost
        /\ a = [memo |-> a.memo, items |-> a.items, unresolved |-> a.unresolved]
    BY DEF AssignToken, CandidateOf
  <1>. HIDE DEF memo, key, boundary, lost, a
  <1>6. a.items \in SUBSET CandidatesOf(f, m)
    BY <1>1, <1>4, <1>5
  <1>7. a.unresolved \in SUBSET ((Nat \X STRING) \X Int)
    BY <1>1, <1>3, <1>5
  <1>8. a \in Assignments(f, m)
    BY <1>2, <1>5, <1>6, <1>7 DEF Assignments
  <1>. QED  BY <1>8 DEF a

(* d[k] is what the first k Items of a block lead to. *)
TokenSteps(f, m, res, acc, o, tokens, d) ==
  /\ d[0] = acc
  /\ \A k \in 1..Len(tokens) : d[k] = AssignToken(f, m, res, d[k - 1], o, tokens[k])
  /\ AssignItem(f, m, res, acc, o) = d[Len(tokens)]

(* The Items of a block, one by one. *)
LEMMA AssignItemSteps ==
  ASSUME NEW f, NEW D, NEW m, MarksOK(m, D), NEW res, NEW acc \in Assignments(f, m),
         NEW o \in m.items, NEW tokens \in Seq(STRING), tokens = o.tokens
  PROVE  \E d : TokenSteps(f, m, res, acc, o, tokens, d)
  <1>. DEFINE n == Len(tokens)
              X == Assignments(f, m)
              h == [q \in (1..n) \X X |-> AssignToken(f, m, res, q[2], o, tokens[q[1]])]
              G(c) == c = [s \in SUBSET (1..n) |->
                             IF s = {} THEN acc ELSE AssignToken(f, m, res, c[s \ {Max(s)}], o, tokens[Max(s)])]
  <1>1. n \in Nat /\ DOMAIN tokens = 1..n
    OBVIOUS
  <1>2. ASSUME NEW i \in 1..n, NEW x \in X PROVE AssignToken(f, m, res, x, o, tokens[i]) \in X
    <2>1. tokens[i] \in STRING
      OBVIOUS
    <2>. QED  BY <2>1, AssignTokenType
  <1>3. h \in [(1..n) \X X -> X]
    BY <1>2
  <1>4. \E c : G(c)
    <2>1. PICK c \in [SUBSET (1..n) -> X] : IsIter(h, acc, n, c)
      <3>1. acc \in X
        OBVIOUS
      <3>. HIDE DEF h, X, n
      <3>. QED  BY <1>1, <1>3, <3>1, IterExists
    <2>2. ASSUME NEW s \in SUBSET (1..n), s # {}
          PROVE  h[<<Max(s), c[s \ {Max(s)}]>>] = AssignToken(f, m, res, c[s \ {Max(s)}], o, tokens[Max(s)])
      <3>1. Max(s) \in 1..n
        BY <1>1, <2>2, MaxOfSome
      <3>2. s \ {Max(s)} \in SUBSET (1..n)
        OBVIOUS
      <3>3. c[s \ {Max(s)}] \in X
        BY <3>2
      <3>4. <<Max(s), c[s \ {Max(s)}]>> \in (1..n) \X X
        BY <3>1, <3>3
      <3>. QED  BY <3>4
    <2>3. G(c)
      <3>. HIDE DEF h, X, n
      <3>. QED  BY <2>1, <2>2 DEF IsIter
    <2>. QED  BY <2>3
  <1>. DEFINE c == CHOOSE x : G(x)
              d == [k \in 0..n |-> c[1..k]]
  <1>5. G(c)
    BY <1>4
  <1>6. AssignItem(f, m, res, acc, o) = c[1..n]
    BY <1>1 DEF AssignItem, FoldLeft, MapThenFoldSet
  <1>7. d[0] = acc
    <2>. HIDE DEF n
    <2>1. d[0] = c[1..0] /\ 1..0 = {}
      BY <1>1
    <2>. HIDE DEF c
    <2>2. c[{}] = acc
      BY <1>5
    <2>. QED  BY <2>1, <2>2
  <1>8. ASSUME NEW k \in 1..n PROVE d[k] = AssignToken(f, m, res, d[k - 1], o, tokens[k])
    <2>. HIDE DEF n
    <2>1. k \in 0..n /\ k - 1 \in 0..n
      BY <1>1
    <2>2. d[k] = c[1..k] /\ d[k - 1] = c[1..(k - 1)]
      BY <2>1
    <2>3. 1..k \in SUBSET (1..n) /\ 1..k # {} /\ Max(1..k) = k /\ (1..k) \ {k} = 1..(k - 1)
      BY <1>1, <2>1, FirstOf
    <2>. HIDE DEF c
    <2>4. c[1..k] = AssignToken(f, m, res, c[(1..k) \ {Max(1..k)}], o, tokens[Max(1..k)])
      BY <1>5, <2>3
    <2>. QED  BY <2>2, <2>3, <2>4
  <1>9. n \in 0..n /\ d[n] = c[1..n]
    BY <1>1
  <1>. HIDE DEF d
  <1>. QED  BY <1>6, <1>7, <1>8, <1>9 DEF TokenSteps

(* A block with its Items keeps the type. *)
LEMMA AssignItemType ==
  ASSUME NEW f, NEW D, NEW m, MarksOK(m, D), NEW res, NEW acc \in Assignments(f, m),
         NEW o \in m.items, NEW tokens \in Seq(STRING), tokens = o.tokens
  PROVE  AssignItem(f, m, res, acc, o) \in Assignments(f, m)
  <1>. DEFINE n == Len(tokens)
  <1>0. n \in Nat
    OBVIOUS
  <1>01. PICK d : TokenSteps(f, m, res, acc, o, tokens, d)
    BY AssignItemSteps
  <1>1. /\ d[0] = acc
        /\ \A k \in 1..n : d[k] = AssignToken(f, m, res, d[k - 1], o, tokens[k])
        /\ AssignItem(f, m, res, acc, o) = d[n]
    BY <1>01 DEF TokenSteps
  <1>. DEFINE Q == { k \in Nat : k <= n => d[k] \in Assignments(f, m) }
  <1>2. 0 \in Q
    BY <1>1
  <1>3. ASSUME NEW k \in Q PROVE k + 1 \in Q
    <2>. SUFFICES ASSUME k + 1 <= n PROVE d[k + 1] \in Assignments(f, m)
      OBVIOUS
    <2>1. k + 1 \in 1..n /\ k <= n /\ (k + 1) - 1 = k
      BY <1>0
    <2>2. d[k + 1] = AssignToken(f, m, res, d[k], o, tokens[k + 1]) /\ d[k] \in Assignments(f, m)
      BY <1>1, <2>1
    <2>3. tokens[k + 1] \in STRING
      BY <2>1
    <2>4. AssignToken(f, m, res, d[k], o, tokens[k + 1]) \in Assignments(f, m)
      BY <2>2, <2>3, AssignTokenType
    <2>. QED  BY <2>2, <2>4
  <1>4. Q = Nat
    <2>. HIDE DEF Q
    <2>1. Q \in SUBSET Nat
      BY DEF Q
    <2>. QED  BY <1>2, <1>3, <2>1, SetInduction
  <1>. QED  BY <1>0, <1>1, <1>4

(* It holds at the beginning. *)
LEMMA NothingAssignedType == ASSUME NEW f, NEW m PROVE NothingAssigned \in Assignments(f, m)
  <1>1. NothingAssigned.memo \in Memos
    BY DEF NothingAssigned, Memos
  <1>. QED  BY <1>1 DEF NothingAssigned, Assignments

(* d[k] is what the first k blocks with Items lead to. *)
BlockSteps(f, m, res, occ, d) ==
  /\ d[0] = NothingAssigned
  /\ \A k \in 1..Len(occ) : d[k] = AssignItem(f, m, res, d[k - 1], occ[k])
  /\ AssignItemParts(f, m, res) = d[Len(occ)]

(* The blocks with Items, one by one. *)
LEMMA AssignItemPartsSteps ==
  ASSUME NEW f, NEW D, NEW m, MarksOK(m, D), NEW res, NEW occ \in Seq(m.items),
         occ = ByOrdinal(m.items)
  PROVE  \E d : BlockSteps(f, m, res, occ, d)
  <1>. DEFINE n == Len(occ)
              X == Assignments(f, m)
              h == [q \in (1..n) \X X |-> AssignItem(f, m, res, q[2], occ[q[1]])]
              G(c) == c = [s \in SUBSET (1..n) |->
                             IF s = {} THEN NothingAssigned ELSE AssignItem(f, m, res, c[s \ {Max(s)}], occ[Max(s)])]
  <1>1. n \in Nat /\ DOMAIN occ = 1..n
    OBVIOUS
  <1>2. ASSUME NEW i \in 1..n, NEW x \in X PROVE AssignItem(f, m, res, x, occ[i]) \in X
    <2>1. occ[i] \in m.items
      OBVIOUS
    <2>2. occ[i].tokens \in Seq(STRING)
      BY <2>1 DEF MarksOK
    <2>. QED  BY <2>1, <2>2, AssignItemType
  <1>3. h \in [(1..n) \X X -> X]
    BY <1>2
  <1>4. \E c : G(c)
    <2>1. PICK c \in [SUBSET (1..n) -> X] : IsIter(h, NothingAssigned, n, c)
      <3>1. NothingAssigned \in X
        BY NothingAssignedType
      <3>. HIDE DEF h, X, n
      <3>. QED  BY <1>1, <1>3, <3>1, IterExists
    <2>2. ASSUME NEW s \in SUBSET (1..n), s # {}
          PROVE  h[<<Max(s), c[s \ {Max(s)}]>>] = AssignItem(f, m, res, c[s \ {Max(s)}], occ[Max(s)])
      <3>1. Max(s) \in 1..n
        BY <1>1, <2>2, MaxOfSome
      <3>2. s \ {Max(s)} \in SUBSET (1..n)
        OBVIOUS
      <3>3. c[s \ {Max(s)}] \in X
        BY <3>2
      <3>4. <<Max(s), c[s \ {Max(s)}]>> \in (1..n) \X X
        BY <3>1, <3>3
      <3>. QED  BY <3>4
    <2>3. G(c)
      <3>. HIDE DEF h, X, n
      <3>. QED  BY <2>1, <2>2 DEF IsIter
    <2>. QED  BY <2>3
  <1>. DEFINE c == CHOOSE x : G(x)
              d == [k \in 0..n |-> c[1..k]]
  <1>5. G(c)
    BY <1>4
  <1>6. AssignItemParts(f, m, res) = c[1..n]
    BY <1>1 DEF AssignItemParts, FoldLeft, MapThenFoldSet
  <1>7. d[0] = NothingAssigned
    <2>. HIDE DEF n
    <2>1. d[0] = c[1..0] /\ 1..0 = {}
      BY <1>1
    <2>. HIDE DEF c
    <2>2. c[{}] = NothingAssigned
      BY <1>5
    <2>. QED  BY <2>1, <2>2
  <1>8. ASSUME NEW k \in 1..n PROVE d[k] = AssignItem(f, m, res, d[k - 1], occ[k])
    <2>. HIDE DEF n
    <2>1. k \in 0..n /\ k - 1 \in 0..n
      BY <1>1
    <2>2. d[k] = c[1..k] /\ d[k - 1] = c[1..(k - 1)]
      BY <2>1
    <2>3. 1..k \in SUBSET (1..n) /\ 1..k # {} /\ Max(1..k) = k /\ (1..k) \ {k} = 1..(k - 1)
      BY <1>1, <2>1, FirstOf
    <2>. HIDE DEF c
    <2>4. c[1..k] = AssignItem(f, m, res, c[(1..k) \ {Max(1..k)}], occ[Max(1..k)])
      BY <1>5, <2>3
    <2>. QED  BY <2>2, <2>3, <2>4
  <1>9. n \in 0..n /\ d[n] = c[1..n]
    BY <1>1
  <1>. HIDE DEF d
  <1>. QED  BY <1>6, <1>7, <1>8, <1>9 DEF BlockSteps

(* All candidates are Items of the document at boundaries of its grammar. *)
LEMMA AssignItemPartsType ==
  ASSUME NEW f, NEW D, NEW m, MarksOK(m, D), NEW res, NEW occ \in Seq(m.items),
         occ = ByOrdinal(m.items)
  PROVE  AssignItemParts(f, m, res) \in Assignments(f, m)
  <1>. DEFINE n == Len(occ)
  <1>0. n \in Nat
    OBVIOUS
  <1>01. PICK d : BlockSteps(f, m, res, occ, d)
    BY AssignItemPartsSteps
  <1>1. /\ d[0] = NothingAssigned
        /\ \A k \in 1..n : d[k] = AssignItem(f, m, res, d[k - 1], occ[k])
        /\ AssignItemParts(f, m, res) = d[n]
    BY <1>01 DEF BlockSteps
  <1>. DEFINE Q == { k \in Nat : k <= n => d[k] \in Assignments(f, m) }
  <1>2. 0 \in Q
    BY <1>1, NothingAssignedType
  <1>3. ASSUME NEW k \in Q PROVE k + 1 \in Q
    <2>. SUFFICES ASSUME k + 1 <= n PROVE d[k + 1] \in Assignments(f, m)
      OBVIOUS
    <2>1. k + 1 \in 1..n /\ k <= n /\ (k + 1) - 1 = k
      BY <1>0
    <2>2. d[k + 1] = AssignItem(f, m, res, d[k], occ[k + 1]) /\ d[k] \in Assignments(f, m)
      BY <1>1, <2>1
    <2>3. occ[k + 1] \in m.items
      BY <2>1
    <2>4. AssignItem(f, m, res, d[k], occ[k + 1]) \in Assignments(f, m)
      <3>1. occ[k + 1].tokens \in Seq(STRING)
        BY <2>3 DEF MarksOK
      <3>. QED  BY <2>2, <2>3, <3>1, AssignItemType
    <2>. QED  BY <2>2, <2>4
  <1>4. Q = Nat
    <2>. HIDE DEF Q
    <2>1. Q \in SUBSET Nat
      BY DEF Q
    <2>. QED  BY <1>2, <1>3, <2>1, SetInduction
  <1>. QED  BY <1>0, <1>1, <1>4

-----------------------------------------------------------------------------
(* The grammar.                                                            *)

(* A tuple is a sequence of its values. *)
LEMMA TupleOfItsRange ==
  ASSUME NEW n \in Nat, NEW s, s = [i \in 1..n |-> s[i]]
  PROVE  s \in Seq(Range(s)) /\ IsFiniteSet(Range(s)) /\ DOMAIN s = 1..n
  <1>1. DOMAIN s = 1..n
    OBVIOUS
  <1>2. \A i \in 1..n : s[i] \in Range(s)
    BY <1>1 DEF Range
  <1>3. s \in [1..n -> Range(s)]
    BY <1>2
  <1>4. s \in Seq(Range(s))
    BY <1>3, SeqDef
  <1>5. Range(s) = {s[i] : i \in 1..n}
    BY <1>1 DEF Range
  <1>6. IsFiniteSet(1..n)
    BY FS_Interval
  <1>7. IsFiniteSet({s[i] : i \in 1..n})
    BY <1>6, FiniteImage
  <1>. QED  BY <1>1, <1>4, <1>5, <1>7

(* The boundaries of a 10-K all differ. *)
LEMMA Distinct10K ==
  /\ Boundary10K = [i \in 1..23 |-> Boundary10K[i]]
  /\ \A i, j \in 1..23 : Boundary10K[i] = Boundary10K[j] => i = j
  <1>. DEFINE b == Boundary10K
  <1>1. b = [i \in 1..23 |-> b[i]]
    BY DEF Boundary10K
  <1>2. /\ b[1][2] = "1" /\ b[2][2] = "1a" /\ b[3][2] = "1b" /\ b[4][2] = "1c" /\ b[5][2] = "2"
        /\ b[6][2] = "3" /\ b[7][2] = "4" /\ b[8][2] = "5" /\ b[9][2] = "6" /\ b[10][2] = "7"
        /\ b[11][2] = "7a" /\ b[12][2] = "8" /\ b[13][2] = "9" /\ b[14][2] = "9a" /\ b[15][2] = "9b"
        /\ b[16][2] = "9c" /\ b[17][2] = "10" /\ b[18][2] = "11" /\ b[19][2] = "12"
        /\ b[20][2] = "13" /\ b[21][2] = "14" /\ b[22][2] = "15" /\ b[23][2] = "16"
    BY DEF Boundary10K
  <1>3. \A i \in 1..23 : \/ i = 1 \/ i = 2 \/ i = 3 \/ i = 4 \/ i = 5 \/ i = 6 \/ i = 7 \/ i = 8
                         \/ i = 9 \/ i = 10 \/ i = 11 \/ i = 12 \/ i = 13 \/ i = 14 \/ i = 15
                         \/ i = 16 \/ i = 17 \/ i = 18 \/ i = 19 \/ i = 20 \/ i = 21 \/ i = 22
                         \/ i = 23
    OBVIOUS
  <1>. HIDE DEF b
  <1>4. \A i, j \in 1..23 : b[i][2] = b[j][2] => i = j
    BY <1>2, <1>3
  <1>5. \A i, j \in 1..23 : b[i] = b[j] => i = j
    BY <1>4
  <1>. QED  BY <1>1, <1>5 DEF b

(* So do those of a 10-Q, whose tokens repeat in Part II. *)
LEMMA Distinct10Q ==
  /\ Boundary10Q = [i \in 1..11 |-> Boundary10Q[i]]
  /\ \A i, j \in 1..11 : Boundary10Q[i] = Boundary10Q[j] => i = j
  <1>. DEFINE b == Boundary10Q
  <1>1. b = [i \in 1..11 |-> b[i]]
    BY DEF Boundary10Q
  <1>2. /\ b[1] = <<1, "1">> /\ b[2] = <<1, "2">> /\ b[3] = <<1, "3">> /\ b[4] = <<1, "4">>
        /\ b[5] = <<2, "1">> /\ b[6] = <<2, "1a">> /\ b[7] = <<2, "2">> /\ b[8] = <<2, "3">>
        /\ b[9] = <<2, "4">> /\ b[10] = <<2, "5">> /\ b[11] = <<2, "6">>
    BY DEF Boundary10Q
  <1>3. \A i \in 1..11 : \/ i = 1 \/ i = 2 \/ i = 3 \/ i = 4 \/ i = 5 \/ i = 6 \/ i = 7 \/ i = 8
                         \/ i = 9 \/ i = 10 \/ i = 11
    OBVIOUS
  <1>. HIDE DEF b
  <1>4. \A i, j \in 1..11 : b[i][1] = b[j][1] /\ b[i][2] = b[j][2] => i = j
    BY <1>2, <1>3
  <1>5. \A i, j \in 1..11 : b[i] = b[j] => i = j
    BY <1>4
  <1>. QED  BY <1>1, <1>5 DEF b

(* The boundaries of every form are different. *)
LEMMA BoundariesDiffer ==
  ASSUME NEW f, NEW order, order = BoundaryKeys(f)
  PROVE  /\ order \in Seq(Range(order)) /\ IsFiniteSet(Range(order))
         /\ \A i, j \in DOMAIN order : order[i] = order[j] => i = j
  <1>1. order = Boundary10K \/ order = Boundary10Q
    BY DEF BoundaryKeys
  <1>2. CASE order = Boundary10K
    <2>1. order = [i \in 1..23 |-> order[i]] /\ \A i, j \in 1..23 : order[i] = order[j] => i = j
      BY <1>2, Distinct10K
    <2>. QED  BY <2>1, TupleOfItsRange
  <1>3. CASE order = Boundary10Q
    <2>1. order = [i \in 1..11 |-> order[i]] /\ \A i, j \in 1..11 : order[i] = order[j] => i = j
      BY <1>3, Distinct10Q
    <2>. QED  BY <2>1, TupleOfItsRange
  <1>. QED  BY <1>1, <1>2, <1>3

-----------------------------------------------------------------------------
(* The marks.                                                              *)

(* A score is an integer. *)
LEMMA ScoreType ==
  ASSUME NEW base \in Int, NEW b, NEW ord \in Int, NEW n \in Int
  PROVE  Score(base, b, ord, n) \in Int
  <1>1. BodyBonus(b) \in Int
    BY DEF BodyBonus
  <1>2. TocPenalty(b, ord, n) \in Int
    BY DEF TocPenalty
  <1>. QED  BY <1>1, <1>2 DEF Score

(* The smaller of two. *)
LEMMA MinOfTwo ==
  ASSUME NEW a \in Int, NEW b \in Int
  PROVE  Min({a, b}) \in {a, b} /\ Min({a, b}) <= a /\ Min({a, b}) <= b
  <1>1. \E x \in {a, b} : \A y \in {a, b} : x =< y
    OBVIOUS
  <1>2. PICK x \in {a, b} : x = Min({a, b}) /\ \A y \in {a, b} : x =< y
    BY <1>1 DEF Min
  <1>. QED  BY <1>2

(* The greater of two. *)
LEMMA MaxOfTwo ==
  ASSUME NEW a \in Int, NEW b \in Int
  PROVE  Max({a, b}) \in {a, b} /\ Max({a, b}) >= a /\ Max({a, b}) >= b
  <1>1. \E x \in {a, b} : \A y \in {a, b} : x >= y
    OBVIOUS
  <1>2. PICK x \in {a, b} : x = Max({a, b}) /\ \A y \in {a, b} : x >= y
    BY <1>1 DEF Max
  <1>. QED  BY <1>2

(* The occurrences of a document: one for each block that has the marker. *)
LEMMA OccurrencesType ==
  ASSUME doc \in Seq(BlockRecords)
  PROVE  /\ \A x \in Occurrences.items : /\ x.ord \in Ordinals /\ x.score \in Int /\ x.tokens \in Seq(STRING)
                                         /\ x = [ord |-> x.ord, score |-> x.score, tokens |-> x.tokens]
         /\ \A x, y \in Occurrences.items : x.ord = y.ord => x = y
         /\ \A x \in Occurrences.terminals : /\ x.ord \in Ordinals /\ x.score \in Int
                                             /\ x = [ord |-> x.ord, score |-> x.score]
         /\ \A x \in Occurrences.parts : x.ord \in Ordinals
         /\ IsFiniteSet(Occurrences.items) /\ IsFiniteSet(Occurrences.terminals)
  <1>. DEFINE n == Len(doc)
              S(base, o) == Score(base, Block(o), o, n)
              capped == [o \in Ordinals |-> IF Len(Block(o).items) > 1 THEN Min({S(ItemBase, o), MultiItemCap})
                                            ELSE S(ItemBase, o)]
              I == {x \in Ordinals : Block(x).items # <<>>}
              J == {x \in Ordinals : Block(x).signature}
              item == [o \in Ordinals |-> [ord |-> o, score |-> capped[o], tokens |-> Block(o).items]]
              term == [o \in Ordinals |-> [ord |-> o, score |-> S(SignatureBase, o)]]
  <1>1. n \in Nat /\ Ordinals = 0..(n - 1) /\ \A o \in Ordinals : o + 1 \in 1..n
    BY DEF Ordinals
  <1>2. ASSUME NEW o \in Ordinals PROVE Block(o) \in BlockRecords /\ o \in Int
    BY <1>1 DEF Block
  <1>3. ASSUME NEW o \in Ordinals
        PROVE  Block(o).items \in Seq(STRING) /\ S(ItemBase, o) \in Int /\ S(SignatureBase, o) \in Int
    <2>1. Block(o).items \in Seq(STRING)
      BY <1>2 DEF BlockRecords
    <2>2. ItemBase \in Int /\ SignatureBase \in Int
      BY DEF ItemBase, SignatureBase
    <2>. QED  BY <1>1, <1>2, <2>1, <2>2, ScoreType
  <1>4. ASSUME NEW o \in Ordinals PROVE capped[o] \in Int
    <2>. HIDE DEF S
    <2>0. MultiItemCap \in Int
      BY DEF MultiItemCap
    <2>1. Min({S(ItemBase, o), MultiItemCap}) \in {S(ItemBase, o), MultiItemCap}
      BY <1>3, <2>0, MinOfTwo
    <2>2. capped[o] \in {S(ItemBase, o), MultiItemCap}
      BY <2>1
    <2>. QED  BY <1>3, <2>0, <2>2
  <1>5. Occurrences.items = {[ord |-> o, score |-> capped[o], tokens |-> Block(o).items] : o \in I}
    BY DEF Occurrences
  <1>6. Occurrences.terminals = {[ord |-> o, score |-> S(SignatureBase, o)] : o \in J}
    BY DEF Occurrences
  <1>7. \A x \in Occurrences.parts : x.ord \in Ordinals
    BY DEF Occurrences
  <1>8. IsFiniteSet(I) /\ IsFiniteSet(J)
    <2>1. IsFiniteSet(Ordinals)
      BY <1>1, FS_Interval
    <2>2. I \in SUBSET Ordinals /\ J \in SUBSET Ordinals
      OBVIOUS
    <2>. HIDE DEF I, J
    <2>. QED  BY <2>1, <2>2, FS_Subset
  <1>. HIDE DEF capped, S
  <1>9. Occurrences.items = {item[o] : o \in I} /\ Occurrences.terminals = {term[o] : o \in J}
    BY <1>5, <1>6
  <1>10. IsFiniteSet(Occurrences.items) /\ IsFiniteSet(Occurrences.terminals)
    <2>. HIDE DEF item, term, I, J
    <2>. QED  BY <1>8, <1>9, FiniteImage
  <1>11. \A x \in Occurrences.items : x.ord \in Ordinals /\ x = item[x.ord]
    BY <1>9
  <1>12. \A x \in Occurrences.terminals : x.ord \in Ordinals /\ x = term[x.ord]
    BY <1>9
  <1>13. \A x \in Occurrences.items : /\ x.score \in Int /\ x.tokens \in Seq(STRING)
                                      /\ x = [ord |-> x.ord, score |-> x.score, tokens |-> x.tokens]
    <2>. TAKE x \in Occurrences.items
    <2>1. PICK o \in Ordinals : o = x.ord /\ x = item[o]
      BY <1>11
    <2>2. x = [ord |-> o, score |-> capped[o], tokens |-> Block(o).items]
      BY <2>1
    <2>. QED  BY <1>3, <1>4, <2>2
  <1>14. \A x \in Occurrences.terminals : x.score \in Int /\ x = [ord |-> x.ord, score |-> x.score]
    <2>. TAKE x \in Occurrences.terminals
    <2>1. PICK o \in Ordinals : o = x.ord /\ x = term[o]
      BY <1>12
    <2>2. x = [ord |-> o, score |-> S(SignatureBase, o)]
      BY <2>1
    <2>. QED  BY <1>3, <2>2
  <1>15. \A x, y \in Occurrences.items : x.ord = y.ord => x = y
    <2>. HIDE DEF item
    <2>. QED  BY <1>11
  <1>. QED  BY <1>7, <1>10, <1>11, <1>12, <1>13, <1>14, <1>15

(* The marks of a document are right. *)
LEMMA MarksType ==
  ASSUME doc \in Seq(BlockRecords)
  PROVE  MarksOK(TocMarks(Occurrences), Ordinals)
  <1>1. PICK occ : occ = Occurrences
    OBVIOUS
  <1>2. /\ \A x \in occ.items : /\ x.ord \in Ordinals /\ x.score \in Int /\ x.tokens \in Seq(STRING)
                                /\ x = [ord |-> x.ord, score |-> x.score, tokens |-> x.tokens]
        /\ \A x, y \in occ.items : x.ord = y.ord => x = y
        /\ \A x \in occ.terminals : /\ x.ord \in Ordinals /\ x.score \in Int
                                    /\ x = [ord |-> x.ord, score |-> x.score]
        /\ \A x \in occ.parts : x.ord \in Ordinals
        /\ IsFiniteSet(occ.items) /\ IsFiniteSet(occ.terminals)
    BY <1>1, OccurrencesType
  <1>3. PICK m : m = TocMarks(occ)
    OBVIOUS
  <1>4. PICK toc : toc = m.toc
    OBVIOUS
  <1>. DEFINE less == [x \in occ.items \cup occ.terminals |->
                         IF x.ord \in toc THEN [x EXCEPT !.score = @ - ClusterPenalty] ELSE x]
  <1>5. m.items = {less[x] : x \in occ.items} /\ m.terminals = {less[x] : x \in occ.terminals}
    BY <1>3, <1>4 DEF TocMarks
  <1>6. toc \subseteq Ordinals
    <2>1. TocCluster({o.ord : o \in occ.items}) \subseteq Ordinals
      BY <1>2 DEF TocCluster
    <2>2. \A y \in occ.parts \cup occ.terminals : y.ord \in Ordinals
      BY <1>2
    <2>3. \A o \in toc : o \in TocCluster({x.ord : x \in occ.items})
                         \/ \E y \in occ.parts \cup occ.terminals : o = y.ord
      BY <1>3, <1>4 DEF TocMarks
    <2>. QED  BY <2>1, <2>2, <2>3
  <1>7. Ordinals \subseteq Int
    BY DEF Ordinals
  <1>8. ASSUME NEW x \in occ.items
        PROVE  /\ less[x].ord = x.ord /\ less[x].score \in Int /\ less[x].tokens = x.tokens
    BY <1>2 DEF ClusterPenalty
  <1>9. ASSUME NEW x \in occ.terminals
        PROVE  less[x].ord = x.ord /\ less[x].score \in Int
    <2>1. x = [ord |-> x.ord, score |-> x.score] /\ x.score \in Int
      BY <1>2
    <2>2. less[x] = x \/ less[x] = [x EXCEPT !.score = @ - ClusterPenalty]
      OBVIOUS
    <2>. HIDE DEF less
    <2>3. CASE less[x] = x
      BY <2>1, <2>3
    <2>4. CASE less[x] = [x EXCEPT !.score = @ - ClusterPenalty]
      <3>1. less[x] = [ord |-> x.ord, score |-> x.score - ClusterPenalty]
        BY <2>1, <2>4
      <3>. QED  BY <2>1, <3>1 DEF ClusterPenalty
    <2>. QED  BY <2>2, <2>3, <2>4
  <1>. HIDE DEF less
  <1>10. IsFiniteSet(m.items) /\ IsFiniteSet(m.terminals)
    <2>1. IsFiniteSet({less[x] : x \in occ.items})
      BY <1>2, FiniteImage
    <2>2. IsFiniteSet({less[x] : x \in occ.terminals})
      BY <1>2, FiniteImage
    <2>. QED  BY <1>5, <2>1, <2>2
  <1>11. \A x \in m.items : x.ord \in Ordinals /\ x.score \in Int /\ x.tokens \in Seq(STRING)
    BY <1>2, <1>5, <1>8
  <1>12. \A x, y \in m.items : x.ord = y.ord => x = y
    BY <1>2, <1>5, <1>8
  <1>13. \A x \in m.terminals : x.ord \in Int /\ x.score \in Int
    BY <1>2, <1>5, <1>7, <1>9
  <1>14. MarksOK(m, Ordinals)
    BY <1>4, <1>6, <1>7, <1>10, <1>11, <1>12, <1>13 DEF MarksOK
  <1>. QED  BY <1>1, <1>3, <1>14

-----------------------------------------------------------------------------
(* The candidates of a state, and its nearly best sequences of starts.     *)

CandsOK == MarksOK(marks, Ordinals) /\ cands.items \subseteq CandidatesOf(form, marks)

(* Every candidate is an Item of the document at a boundary of its grammar. *)
LEMMA CandidatesAre ==
  ASSUME CandsOK
  PROVE  /\ IsFiniteSet(cands.items)
         /\ \A x \in cands.items : /\ x.key \in Range(BoundaryKeys(form)) /\ x.ord \in Ordinals
                                   /\ x.ord \in Nat /\ x.score \in Int
                                   /\ x.toc <=> x.ord \in marks.toc
         /\ \A x, y \in cands.items : x.key = y.key /\ x.ord = y.ord => x = y
  <1>. DEFINE K == Range(BoundaryKeys(form))
              w == [p \in K \X marks.items |-> CandidateOf(marks, p[1], p[2])]
  <1>1. IsFiniteSet(K)
    BY BoundariesDiffer
  <1>2. /\ IsFiniteSet(marks.items) /\ marks.toc \subseteq Ordinals
        /\ \A x \in marks.items : x.ord \in Ordinals /\ x.score \in Int
        /\ \A x, y \in marks.items : x.ord = y.ord => x = y
    BY DEF CandsOK, MarksOK
  <1>3. Ordinals \subseteq Nat
    BY DEF Ordinals
  <1>4. ASSUME NEW x \in cands.items
        PROVE  \E k \in K, y \in marks.items : x = CandidateOf(marks, k, y)
    <2>1. PICK p \in K \X marks.items : x = CandidateOf(marks, p[1], p[2])
      BY DEF CandsOK, CandidatesOf
    <2>. QED  BY <2>1
  <1>. HIDE DEF K
  <1>5. IsFiniteSet(cands.items)
    <2>1. IsFiniteSet(K \X marks.items)
      BY <1>1, <1>2, FS_Product
    <2>2. IsFiniteSet({w[p] : p \in K \X marks.items})
      <3>. HIDE DEF w
      <3>. QED  BY <2>1, FiniteImage
    <2>3. cands.items \subseteq {w[p] : p \in K \X marks.items}
      BY DEF CandsOK, CandidatesOf, K
    <2>. HIDE DEF w
    <2>. QED  BY <2>2, <2>3, FS_Subset
  <1>6. ASSUME NEW x \in cands.items
        PROVE  /\ x.key \in K /\ x.ord \in Ordinals /\ x.ord \in Nat /\ x.score \in Int
               /\ x.toc <=> x.ord \in marks.toc
    <2>1. PICK k \in K, y \in marks.items : x = CandidateOf(marks, k, y)
      BY <1>4
    <2>2. x.key = k /\ x.ord = y.ord /\ x.score = y.score /\ x.toc = (y.ord \in marks.toc)
      BY <2>1 DEF CandidateOf
    <2>. QED  BY <1>2, <1>3, <2>2
  <1>7. ASSUME NEW x \in cands.items, NEW z \in cands.items, x.key = z.key, x.ord = z.ord
        PROVE  x = z
    <2>1. PICK k \in K, y \in marks.items : x = CandidateOf(marks, k, y)
      BY <1>4
    <2>2. PICK l \in K, v \in marks.items : z = CandidateOf(marks, l, v)
      BY <1>4
    <2>3. k = l /\ y.ord = v.ord
      BY <1>7, <2>1, <2>2 DEF CandidateOf
    <2>4. y = v
      BY <1>2, <2>3
    <2>. QED  BY <2>1, <2>2, <2>3, <2>4
  <1>. QED  BY <1>5, <1>6, <1>7 DEF K

(* The pool is an input of the dynamic programme. *)
LEMMA PoolIs ==
  ASSUME CandsOK
  PROVE  DpInput(BoundaryKeys(form), Pool) /\ Pool \subseteq Body(cands)
  <1>1. Pool \subseteq Body(cands) /\ \A x \in Pool : Selectable(x.score)
    BY DEF Pool
  <1>2. Body(cands) \subseteq cands.items
    BY DEF Body
  <1>3. Pool \subseteq cands.items
    BY <1>1, <1>2
  <1>4. IsFiniteSet(Pool)
    BY <1>3, CandidatesAre, FS_Subset
  <1>5. \A x \in Pool : x.ord \in Nat /\ x.score \in Int /\ x.key \in Range(BoundaryKeys(form))
    BY <1>3, CandidatesAre
  <1>6. \A x, y \in Pool : x.key = y.key /\ x.ord = y.ord => x = y
    BY <1>3, CandidatesAre
  <1>7. /\ BoundaryKeys(form) \in Seq(Range(BoundaryKeys(form)))
        /\ \A i, j \in DOMAIN BoundaryKeys(form) : BoundaryKeys(form)[i] = BoundaryKeys(form)[j] => i = j
    BY BoundariesDiffer
  <1>8. DpInput(BoundaryKeys(form), Pool)
    BY <1>1, <1>4, <1>5, <1>6, <1>7 DEF DpInput
  <1>. QED  BY <1>1, <1>8

(* What is worth taking of the candidates for the starts is the pool. *)
LEMMA PoolOfStarts ==
  Pool = {y \in {x \in Body(cands) : x.key \notin {p[1] : p \in Collapsed(cands)}} : Selectable(y.score)}
  BY DEF Pool, StartKeys

(* The worth of a pick is the total that the dynamic programme sums up. *)
LEMMA WorthIs ==
  ASSUME CandsOK, NEW P \in SUBSET Pool
  PROVE  Worth(P) = Total(Pool, P)
  <1>1. /\ IsFiniteSet(P) /\ \A x \in P : Weight(Pool)[x] \in Nat
    BY PoolIs, TotalOf
  <1>2. PICK w : w = Weight(Pool)
    OBVIOUS
  <1>3. \A x \in P : w[x] = Contribution(x.score)
    BY <1>2 DEF Weight
  <1>. DEFINE G(f) == f = [s \in SUBSET P |-> IF s = {} THEN 0
                             ELSE Contribution(Chosen(s).score) + f[s \ {Chosen(s)}]]
              g == CHOOSE f : G(f)
  <1>4. \A f : IsFold(f, w, P) <=> G(f)
    <2>1. \A s \in SUBSET P : s # {} => w[Chosen(s)] = Contribution(Chosen(s).score)
      BY <1>3 DEF Chosen
    <2>. TAKE f
    <2>2. [s \in SUBSET P |-> IF s = {} THEN 0 ELSE w[Chosen(s)] + f[s \ {Chosen(s)}]]
           = [s \in SUBSET P |-> IF s = {} THEN 0 ELSE Contribution(Chosen(s).score) + f[s \ {Chosen(s)}]]
      BY <2>1
    <2>. QED  BY <2>2 DEF IsFold
  <1>5. \E f : G(f)
    <2>1. \E f : IsFold(f, w, P)
      BY <1>1, <1>2, FoldExists
    <2>. HIDE DEF G
    <2>. QED  BY <1>4, <2>1
  <1>6. G(g)
    BY <1>5
  <1>7. Worth(P) = g[P]
    BY DEF Worth, MapThenSumSet, MapThenFoldSet, Chosen
  <1>. HIDE DEF g, G
  <1>8. IsFold(g, w, P)
    BY <1>4, <1>6
  <1>9. PICK f : IsFold(f, w, P) /\ SumOf(w, P) = f[P]
    BY <1>1, <1>2, SumIsFold
  <1>10. f[P] = g[P]
    <2>1. \A x \in P : w[x] = w[x]
      OBVIOUS
    <2>2. \A s \in SUBSET P : f[s] = g[s]
      BY <1>1, <1>8, <1>9, <2>1, FoldsAgree
    <2>. QED  BY <2>2
  <1>. QED  BY <1>2, <1>7, <1>9, <1>10 DEF Total

(* The nearly best picks of a state are those of the dynamic programme. *)
LEMMA NearBestIs ==
  ASSUME CandsOK
  PROVE  NearBest = NearPicks(BoundaryKeys(form), Pool) /\ IsFiniteSet(NearBest)
  <1>1. PICK order : order = BoundaryKeys(form)
    OBVIOUS
  <1>2. PICK T : T = Pool
    OBVIOUS
  <1>3. DpInput(order, T)
    BY <1>1, <1>2, PoolIs
  <1>4. Picks = AllPicks(order, T)
    BY <1>1, <1>2 DEF Picks, AllPicks, Ascends
  <1>5. PICK A : A = AllPicks(order, T)
    OBVIOUS
  <1>6. A \in SUBSET (SUBSET T) /\ {} \in A
    BY <1>5 DEF AllPicks, Ascends
  <1>7. IsFiniteSet(A)
    <2>1. IsFiniteSet(SUBSET T)
      BY <1>3, FS_SUBSET DEF DpInput
    <2>. QED  BY <1>6, <2>1, FS_Subset
  <1>8. \A P \in A : Total(T, P) \in Nat /\ Worth(P) = Total(T, P)
    BY <1>2, <1>3, <1>6, TotalOf, WorthIs
  <1>. DEFINE w == [P \in A |-> Total(T, P)]
              N == {w[P] : P \in A}
  <1>9. {Worth(P) : P \in Picks} = N
    BY <1>4, <1>5, <1>8
  <1>10. \A P \in A : w[P] \in Int
    BY <1>8
  <1>11. Max(N) \in N /\ \A y \in N : y <= Max(N)
    <2>1. A # {}
      BY <1>6
    <2>. HIDE DEF w
    <2>. QED  BY <1>7, <1>10, <2>1, MaxOf
  <1>12. NearBest = {P \in A : Max(N) - Total(T, P) <= ScoreGap}
    <2>1. NearBest = {P \in A : Max(N) - Worth(P) <= ScoreGap}
      BY <1>4, <1>5, <1>9 DEF NearBest
    <2>. HIDE DEF N
    <2>. QED  BY <1>8, <2>1
  <1>13. PICK Q \in A : Max(N) = Total(T, Q)
    BY <1>11
  <1>14. \A P \in A : Total(T, P) <= Total(T, Q)
    BY <1>11, <1>13
  <1>. HIDE DEF N, w
  <1>15. ASSUME NEW P \in A
         PROVE  P \in NearBest <=> \A R \in A : Total(T, R) - Total(T, P) <= ScoreGap
    <2>1. P \in NearBest <=> Total(T, Q) - Total(T, P) <= ScoreGap
      BY <1>12, <1>13
    <2>2. ASSUME NEW R \in A, Total(T, Q) - Total(T, P) <= ScoreGap
          PROVE  Total(T, R) - Total(T, P) <= ScoreGap
      BY <1>8, <1>13, <1>14, <2>2 DEF ScoreGap
    <2>. QED  BY <2>1, <2>2
  <1>16. NearBest = NearPicks(order, T)
    <2>1. NearBest \subseteq A
      BY <1>12
    <2>2. \A P : P \in NearPicks(order, T) <=> P \in A /\ \A R \in A : Total(T, R) - Total(T, P) <= ScoreGap
      BY <1>5 DEF NearPicks
    <2>. QED  BY <1>15, <2>1, <2>2
  <1>17. IsFiniteSet(NearBest)
    <2>1. NearBest \subseteq A
      BY <1>12
    <2>. QED  BY <1>7, <2>1, FS_Subset
  <1>. QED  BY <1>1, <1>2, <1>16, <1>17

(* The signature heading that ends the last section has an ordinal. *)
LEMMA TerminalType ==
  ASSUME NEW m, IsFiniteSet(m.terminals), \A x \in m.terminals : x.ord \in Int /\ x.score \in Int,
         NEW l
  PROVE  /\ ResolveTerminal(m, l).ord \in Int
         /\ \A i \in ResolveTerminal(m, l).issues : i.key = <<0, "terminal">>
  <1>. DEFINE after == {t \in m.terminals : t.ord \notin m.toc /\ t.ord > l}
              bodyish == IF \E t \in after : Selectable(t.score)
                         THEN {t \in after : Selectable(t.score)} ELSE after
              Best(t) == \A u \in bodyish : t.score > u.score \/ (t.score = u.score /\ t.ord <= u.ord)
              best == CHOOSE t \in bodyish : Best(t)
              tie == \E u \in bodyish : u # best /\ best.score - u.score <= ScoreGap
              r == ResolveTerminal(m, l)
  <1>1. /\ r.ord = IF bodyish = {} \/ tie THEN NoOrdinal ELSE best.ord
        /\ r.issues = IF tie THEN {[code |-> "BOUNDARY_UNRESOLVED", key |-> <<0, "terminal">>]} ELSE {}
    BY DEF ResolveTerminal
  <1>2. bodyish \in SUBSET m.terminals
    OBVIOUS
  <1>3. PICK B : B = bodyish
    OBVIOUS
  <1>4. IsFiniteSet(B) /\ \A x \in B : x.ord \in Int /\ x.score \in Int
    <2>. HIDE DEF bodyish
    <2>. QED  BY <1>2, <1>3, FS_Subset
  <1>5. ASSUME B # {} PROVE \E t \in B : \A u \in B : t.score > u.score \/ (t.score = u.score /\ t.ord <= u.ord)
    <2>. DEFINE w == [x \in B |-> x.score]
    <2>1. PICK t \in B : \A u \in B : w[u] <= w[t]
      <3>1. \A x \in B : w[x] \in Int
        BY <1>4
      <3>. HIDE DEF w
      <3>. QED  BY <1>4, <1>5, <3>1, GreatestOf
    <2>2. PICK C \in SUBSET B : C = {u \in B : u.score = t.score}
      OBVIOUS
    <2>. DEFINE v == [x \in C |-> 0 - x.ord]
    <2>3. PICK c \in C : \A u \in C : v[u] <= v[c]
      <3>1. IsFiniteSet(C)
        BY <1>4, FS_Subset
      <3>2. t \in C
        BY <2>2
      <3>3. \A x \in C : v[x] \in Int
        BY <1>4
      <3>. HIDE DEF v
      <3>. QED  BY <3>1, <3>2, <3>3, GreatestOf
    <2>4. ASSUME NEW u \in B PROVE c.score > u.score \/ (c.score = u.score /\ c.ord <= u.ord)
      <3>1. u.score <= t.score /\ c.score = t.score
        BY <2>1, <2>2
      <3>2. CASE u.score = t.score
        <4>1. u \in C /\ v[u] <= v[c]
          BY <2>2, <2>3, <3>2
        <4>. QED  BY <1>4, <3>1, <3>2, <4>1
      <3>3. CASE u.score # t.score
        BY <1>4, <3>1, <3>3
      <3>. QED  BY <3>2, <3>3
    <2>. QED  BY <2>4
  <1>6. ASSUME bodyish # {} PROVE best \in bodyish
    <2>1. \E t \in bodyish : Best(t)
      <3>. HIDE DEF bodyish
      <3>. QED  BY <1>3, <1>5, <1>6
    <2>. HIDE DEF Best, bodyish
    <2>. QED  BY <2>1
  <1>7. r.ord \in Int
    <2>. HIDE DEF bodyish, best, tie, r
    <2>. QED  BY <1>1, <1>3, <1>4, <1>6 DEF NoOrdinal
  <1>8. \A i \in r.issues : i.key = <<0, "terminal">>
    <2>. HIDE DEF tie, r
    <2>. QED  BY <1>1
  <1>. QED  BY <1>7, <1>8

-----------------------------------------------------------------------------
(* What the choice of starts means for the sections.                       *)

ChosenRight ==
  /\ DpRight(BoundaryKeys(form), Pool, chosen)
  /\ chosen.collapsed = Collapsed(cands)
  /\ chosen.terminal.ord \in Int
  /\ \A i \in chosen.terminal.issues : i.key = <<0, "terminal">>

(* A start that is chosen is one of every nearly best pick, a boundary that *)
(* is neither chosen nor ambiguous is in none of them, and the start of any *)
(* of them is chosen or an alternative.                                     *)
LEMMA StartIs ==
  ASSUME CandsOK, ChosenRight, NEW k \in Range(BoundaryKeys(form))
  PROVE  /\ NearBest # {}
         /\ chosen.selected[k] \in {NoOrdinal} \cup Nat
         /\ chosen.selected[k] # NoOrdinal =>
              /\ chosen.alts[k] = {}
              /\ \A P \in NearBest : \E x \in P : x.key = k /\ x.ord = chosen.selected[k]
         /\ chosen.selected[k] = NoOrdinal /\ k \notin chosen.ambiguous =>
              \A P \in NearBest : \A x \in P : x.key # k
         /\ \A P \in NearBest : \A x \in P : x.key = k =>
              x.ord = chosen.selected[k] \/ x.ord \in chosen.alts[k]
         /\ k \in chosen.ambiguous => chosen.selected[k] = NoOrdinal
         /\ k \in chosen.ambiguous <=> ~ Agreed(BoundaryKeys(form), Pool, Index(BoundaryKeys(form), k))
  <1>1. PICK order : order = BoundaryKeys(form)
    OBVIOUS
  <1>2. PICK T : T = Pool
    OBVIOUS
  <1>3. DpInput(order, T) /\ DpRight(order, T, chosen) /\ NearBest = NearPicks(order, T)
    BY <1>1, <1>2, PoolIs, NearBestIs DEF ChosenRight
  <1>4. PICK i \in DOMAIN order : i = Index(order, k) /\ order[i] = k
    BY <1>1, <1>3, IndexOf
  <1>5. PICK near : near = NearPicks(order, T)
    OBVIOUS
  <1>6. /\ near # {}
        /\ k \in chosen.ambiguous <=> ~ Agreed(order, T, i)
        /\ Agreed(order, T, i) => chosen.alts[k] = {} /\ \A P \in near : chosen.selected[k] = OrdOf(order, P, i)
        /\ ~ Agreed(order, T, i) =>
             /\ chosen.selected[k] = NoOrdinal
             /\ \A P \in near : OrdOf(order, P, i) # NoOrdinal => OrdOf(order, P, i) \in chosen.alts[k]
    BY <1>3, <1>4, <1>5 DEF DpRight
  <1>7. ASSUME NEW P \in near
        PROVE  /\ \A x \in P : x.key = k => OrdOf(order, P, i) = x.ord /\ x.ord \in Nat
               /\ OrdOf(order, P, i) = NoOrdinal \/ \E x \in P : x.key = k /\ x.ord = OrdOf(order, P, i)
    <2>1. P \in SUBSET T /\ Ascends(order, P)
      BY <1>5 DEF NearPicks, AllPicks
    <2>2. \A x \in P : x.ord \in Nat
      BY <1>3, <2>1 DEF DpInput
    <2>3. \A x \in P : x.key = k => OrdOf(order, P, i) = x.ord
      BY <1>4, <2>1, ChoiceOfIs DEF OrdOf, Option
    <2>4. (\A x \in P : x.key # k) => OrdOf(order, P, i) = NoOrdinal
      BY <1>4, <2>1, ChoiceOfIs DEF OrdOf, Skip
    <2>. QED  BY <2>2, <2>3, <2>4
  <1>8. NoOrdinal \notin Nat
    BY DEF NoOrdinal
  <1>9. chosen.selected[k] \in {NoOrdinal} \cup Nat
    BY <1>6, <1>7
  <1>10. chosen.selected[k] # NoOrdinal =>
              /\ chosen.alts[k] = {}
              /\ \A P \in near : \E x \in P : x.key = k /\ x.ord = chosen.selected[k]
    BY <1>6, <1>7
  <1>11. chosen.selected[k] = NoOrdinal /\ k \notin chosen.ambiguous => \A P \in near : \A x \in P : x.key # k
    BY <1>6, <1>7, <1>8
  <1>12. \A P \in near : \A x \in P : x.key = k => x.ord = chosen.selected[k] \/ x.ord \in chosen.alts[k]
    BY <1>6, <1>7, <1>8
  <1>. QED  BY <1>1, <1>2, <1>3, <1>4, <1>5, <1>6, <1>9, <1>10, <1>11, <1>12

(* Where k comes before l in the grammar. *)
Precedes(k, l) ==
  /\ k \in Range(BoundaryKeys(form)) /\ l \in Range(BoundaryKeys(form))
  /\ Index(BoundaryKeys(form), k) < Index(BoundaryKeys(form), l)

(* The grammar orders its boundaries. *)
LEMMA PrecedesIs ==
  ASSUME NEW k \in Range(BoundaryKeys(form)), NEW l \in Range(BoundaryKeys(form)), k # l
  PROVE  Precedes(k, l) \/ Precedes(l, k)
  <1>1. PICK order : order = BoundaryKeys(form)
    OBVIOUS
  <1>2. DpInput(order, {})
    BY <1>1, BoundariesDiffer, FS_EmptySet DEF DpInput
  <1>3. /\ Index(order, k) \in 1..Len(order) /\ order[Index(order, k)] = k /\ Len(order) \in Nat
        /\ Index(order, l) \in 1..Len(order) /\ order[Index(order, l)] = l
    BY <1>1, <1>2, IndexOf
  <1>4. Index(order, k) # Index(order, l)
    BY <1>3
  <1>. QED  BY <1>1, <1>3, <1>4 DEF Precedes

(* Starts of one nearly best pick ascend. *)
LEMMA PickAscends ==
  ASSUME CandsOK, NEW P \in NearBest, NEW x \in P, NEW y \in P, Precedes(x.key, y.key)
  PROVE  x.ord < y.ord /\ x.ord \in Nat /\ y.ord \in Nat
  <1>1. P \in SUBSET Pool /\ Ascends(BoundaryKeys(form), P)
    BY NearBestIs DEF NearPicks, AllPicks
  <1>2. x.ord \in Nat /\ y.ord \in Nat
    BY <1>1, PoolIs DEF DpInput
  <1>3. x # y
    <2>1. Index(BoundaryKeys(form), x.key) \in Nat
      BY PoolIs, IndexOf DEF Precedes
    <2>. QED  BY <2>1 DEF Precedes
  <1>. QED  BY <1>1, <1>2, <1>3 DEF Ascends, Precedes

(* The chosen starts ascend along the grammar. *)
LEMMA StartsAscend ==
  ASSUME CandsOK, ChosenRight, NEW k, NEW l, Precedes(k, l),
         chosen.selected[k] # NoOrdinal, chosen.selected[l] # NoOrdinal
  PROVE  chosen.selected[k] < chosen.selected[l]
  <1>1. k \in Range(BoundaryKeys(form)) /\ l \in Range(BoundaryKeys(form))
    BY DEF Precedes
  <1>2. PICK P : P \in NearBest
    BY <1>1, StartIs
  <1>3. PICK x \in P : x.key = k /\ x.ord = chosen.selected[k]
    BY <1>1, <1>2, StartIs
  <1>4. PICK y \in P : y.key = l /\ y.ord = chosen.selected[l]
    BY <1>1, <1>2, StartIs
  <1>. QED  BY <1>2, <1>3, <1>4, PickAscends

(* Where a section ends: not after the next start, and not after a place in *)
(* doubt.                                                                   *)
LEMMA EndIs ==
  ASSUME CandsOK, ChosenRight, NEW k \in Range(BoundaryKeys(form)), chosen.selected[k] # NoOrdinal,
         NEW e, e = EndFor(form, cands, chosen, k), e > chosen.selected[k]
  PROVE  /\ e \in Int
         /\ \A l : Precedes(k, l) /\ chosen.selected[l] # NoOrdinal => e <= chosen.selected[l]
         /\ \A o \in Doubtful(form, cands, chosen, k) : o \in Int /\ chosen.selected[k] < o => e <= o
  <1>1. PICK order : order = BoundaryKeys(form)
    OBVIOUS
  <1>2. DpInput(order, Pool)
    BY <1>1, PoolIs
  <1>3. /\ Len(order) \in Nat /\ DOMAIN order = 1..Len(order)
        /\ \A i \in DOMAIN order : Index(order, order[i]) = i /\ order[i] \in Range(order)
        /\ \A l \in Range(order) : Index(order, l) \in DOMAIN order /\ order[Index(order, l)] = l
    BY <1>2, IndexOf DEF Range
  <1>4. \A l \in Range(order) : chosen.selected[l] \in {NoOrdinal} \cup Nat
    BY <1>1, StartIs
  <1>5. PICK sel : sel = chosen.selected
    OBVIOUS
  <1>6. PICK start \in Nat : start = sel[k]
    BY <1>1, <1>4, <1>5
  <1>7. PICK later \in SUBSET (DOMAIN order) : later = {i \in DOMAIN order : sel[order[i]] > start}
    OBVIOUS
  <1>8. PICK next : next = IF later # {} THEN sel[order[Min(later)]] ELSE NoOrdinal
    OBVIOUS
  <1>9. PICK terminal : terminal = IF chosen.terminal.ord > start THEN chosen.terminal.ord ELSE NoOrdinal
    OBVIOUS
  <1>10. PICK end : end = IF next # NoOrdinal THEN next ELSE terminal
    OBVIOUS
  <1>11. PICK D : D = Doubtful(form, cands, chosen, k)
    OBVIOUS
  <1>12. e = IF \E o \in D : start < o /\ (end = NoOrdinal \/ o < end) THEN NoOrdinal
             ELSE IF end # NoOrdinal /\ terminal # NoOrdinal THEN Min({end, terminal}) ELSE end
    BY <1>1, <1>5, <1>6, <1>7, <1>8, <1>9, <1>10, <1>11 DEF EndFor, ProspectiveEnd
  <1>13. terminal \in Int
    BY <1>9 DEF NoOrdinal, ChosenRight
  <1>14. later # {} => Min(later) \in later /\ \A i \in later : Min(later) <= i
    <2>. SUFFICES ASSUME later # {} PROVE Min(later) \in later /\ \A i \in later : Min(later) <= i
      OBVIOUS
    <2>. DEFINE w == [i \in later |-> i]
    <2>1. IsFiniteSet(later)
      <3>1. IsFiniteSet(DOMAIN order)
        BY <1>3, FS_Interval
      <3>. QED  BY <3>1, FS_Subset
    <2>2. later = {w[i] : i \in later} /\ \A i \in later : w[i] \in Int
      BY <1>3
    <2>. HIDE DEF w
    <2>. QED  BY <2>1, <2>2, MinOf
  <1>15. next \in Int
    <2>1. CASE later = {}
      BY <1>8, <2>1 DEF NoOrdinal
    <2>2. CASE later # {}
      <3>1. Min(later) \in DOMAIN order
        BY <1>14, <2>2
      <3>2. sel[order[Min(later)]] \in {NoOrdinal} \cup Nat
        BY <1>3, <1>4, <1>5, <3>1
      <3>. QED  BY <1>8, <2>2, <3>2 DEF NoOrdinal
    <2>. QED  BY <2>1, <2>2
  <1>16. end \in Int /\ NoOrdinal = -1
    BY <1>10, <1>13, <1>15 DEF NoOrdinal
  <1>17. e # NoOrdinal
    BY <1>5, <1>6, <1>16
  <1>18. ~ \E o \in D : start < o /\ (end = NoOrdinal \/ o < end)
    BY <1>12, <1>17
  <1>19. e = IF end # NoOrdinal /\ terminal # NoOrdinal THEN Min({end, terminal}) ELSE end
    BY <1>12, <1>18
  <1>20. e \in Int /\ e <= end /\ end # NoOrdinal
    <2>1. CASE end # NoOrdinal /\ terminal # NoOrdinal
      <3>1. e = Min({end, terminal})
        BY <1>19, <2>1
      <3>2. Min({end, terminal}) \in {end, terminal} /\ Min({end, terminal}) <= end
        BY <1>13, <1>16, MinOfTwo
      <3>. QED  BY <1>13, <1>16, <2>1, <3>1, <3>2
    <2>2. CASE ~ (end # NoOrdinal /\ terminal # NoOrdinal)
      <3>1. e = end
        BY <1>19, <2>2
      <3>. QED  BY <1>16, <1>17, <3>1
    <2>. QED  BY <2>1, <2>2
  <1>21. \A o \in D : o \in Int /\ start < o => e <= o
    BY <1>16, <1>18, <1>20
  <1>22. ASSUME NEW l, Precedes(k, l), sel[l] # NoOrdinal PROVE e <= sel[l]
    <2>1. l \in Range(order) /\ start < sel[l] /\ sel[l] \in Nat
      BY <1>1, <1>4, <1>5, <1>6, <1>22, StartsAscend DEF Precedes
    <2>2. Index(order, l) \in later
      BY <1>3, <1>7, <2>1
    <2>3. PICK j \in later : j = Min(later) /\ j <= Index(order, l) /\ next = sel[order[j]]
      BY <1>8, <1>14, <2>2
    <2>4. j \in DOMAIN order /\ sel[order[j]] > start /\ order[j] \in Range(order) /\ Index(order, order[j]) = j
      BY <1>3, <1>7
    <2>5. next # NoOrdinal /\ sel[order[j]] # NoOrdinal
      BY <1>6, <1>16, <2>3, <2>4
    <2>6. next <= sel[l]
      <3>1. CASE j = Index(order, l)
        BY <1>3, <2>1, <2>3, <3>1
      <3>2. CASE j # Index(order, l)
        <4>1. j < Index(order, l)
          BY <1>3, <2>1, <2>3, <2>4, <3>2
        <4>2. Precedes(order[j], l)
          BY <1>1, <2>1, <2>4, <4>1 DEF Precedes
        <4>3. sel[order[j]] < sel[l]
          BY <1>5, <1>22, <2>5, <4>2, StartsAscend
        <4>. QED  BY <1>15, <2>1, <2>3, <4>3
      <3>. QED  BY <3>1, <3>2
    <2>7. end = next
      BY <1>10, <2>5
    <2>. QED  BY <1>15, <1>20, <2>1, <2>6, <2>7
  <1>. QED  BY <1>5, <1>6, <1>11, <1>20, <1>21, <1>22

-----------------------------------------------------------------------------
(* What is written.                                                        *)

(* A persisted section is named by a boundary of the grammar. *)
LEMMA PersistedAreBoundaries ==
  ASSUME NEW f, NEW k \in PersistedKeys(f)
  PROVE  k \in Range(BoundaryKeys(f)) /\ k # <<0, "terminal">>
  <1>1. CASE BaseForm(f) = "10-K"
    <2>1. BoundaryKeys(f) = Boundary10K /\ DOMAIN Boundary10K = 1..23
      BY <1>1, Distinct10K DEF BoundaryKeys
    <2>2. /\ Boundary10K[1] = <<1, "1">> /\ Boundary10K[2] = <<1, "1a">> /\ Boundary10K[3] = <<1, "1b">>
          /\ Boundary10K[4] = <<1, "1c">> /\ Boundary10K[10] = <<2, "7">> /\ Boundary10K[11] = <<2, "7a">>
          /\ Boundary10K[12] = <<2, "8">>
      BY DEF Boundary10K
    <2>3. \/ k = <<1, "1">> \/ k = <<1, "1a">> \/ k = <<1, "1b">> \/ k = <<1, "1c">>
          \/ k = <<2, "7">> \/ k = <<2, "7a">> \/ k = <<2, "8">>
      BY <1>1 DEF PersistedKeys
    <2>4. k \in {Boundary10K[i] : i \in 1..23}
      BY <2>2, <2>3
    <2>5. k[1] # 0
      BY <2>3
    <2>. QED  BY <2>1, <2>4, <2>5 DEF Range
  <1>2. CASE BaseForm(f) # "10-K"
    <2>1. BoundaryKeys(f) = Boundary10Q /\ DOMAIN Boundary10Q = 1..11
      BY <1>2, Distinct10Q DEF BoundaryKeys
    <2>2. /\ Boundary10Q[1] = <<1, "1">> /\ Boundary10Q[2] = <<1, "2">> /\ Boundary10Q[3] = <<1, "3">>
          /\ Boundary10Q[4] = <<1, "4">> /\ Boundary10Q[5] = <<2, "1">> /\ Boundary10Q[6] = <<2, "1a">>
      BY DEF Boundary10Q
    <2>3. \/ k = <<1, "1">> \/ k = <<1, "2">> \/ k = <<1, "3">> \/ k = <<1, "4">>
          \/ k = <<2, "1">> \/ k = <<2, "1a">>
      BY <1>2 DEF PersistedKeys
    <2>4. k \in {Boundary10Q[i] : i \in 1..11}
      BY <2>2, <2>3
    <2>5. k[1] # 0
      BY <2>3
    <2>. QED  BY <2>1, <2>4, <2>5 DEF Range
  <1>. QED  BY <1>1, <1>2

Started(k) == k \in PersistedKeys(form) /\ chosen.selected[k] # NoOrdinal
Ended(k) == Started(k) /\ EndFor(form, cands, chosen, k) > chosen.selected[k]
SectionOf(k) ==
  [key |-> k, start |-> chosen.selected[k], end |-> EndFor(form, cands, chosen, k),
   confidence |-> Confidence(ScoreAt(cands, k, chosen.selected[k]))]
Assembled == out = AssembleSections(form, marks, cands, chosen)

(* What AssembleSections writes, key by key. *)
LEMMA AssembledIs ==
  ASSUME Assembled
  PROVE  /\ \A s : s \in out.sections <=> \E k : Ended(k) /\ s = SectionOf(k)
         /\ \A i : i \in out.issues <=>
              \/ i \in chosen.terminal.issues
              \/ \E k \in PersistedKeys(form) :
                   \/ /\ ~ Started(k) /\ i = [code |-> MissingStart(form, marks, cands, chosen, k), key |-> k]
                      /\ i.code # "none"
                   \/ Started(k) /\ ~ Ended(k) /\ i = [code |-> "BOUNDARY_UNRESOLVED", key |-> k]
  <1>. DEFINE persisted == PersistedKeys(form)
              started == {k \in persisted : chosen.selected[k] # NoOrdinal}
              ended == {k \in started : EndFor(form, cands, chosen, k) > chosen.selected[k]}
              issues == {[code |-> MissingStart(form, marks, cands, chosen, k), key |-> k] : k \in persisted \ started}
                        \cup {[code |-> "BOUNDARY_UNRESOLVED", key |-> k] : k \in started \ ended}
              kept == {i \in issues : i.code # "none"}
  <1>1. /\ out.sections = {SectionOf(k) : k \in ended}
        /\ out.issues = kept \cup chosen.terminal.issues
    BY DEF Assembled, AssembleSections, SectionOf
  <1>2. \A k : /\ k \in started <=> Started(k)
               /\ k \in ended <=> Ended(k)
    BY DEF Started, Ended
  <1>. HIDE DEF started, ended
  <1>3. \A s : s \in out.sections <=> \E k : Ended(k) /\ s = SectionOf(k)
    BY <1>1, <1>2
  <1>4. \A k : Started(k) => k \in persisted
    BY DEF Started
  <1>5. \A i : i \in kept <=>
              \E k \in PersistedKeys(form) :
                   \/ /\ ~ Started(k) /\ i = [code |-> MissingStart(form, marks, cands, chosen, k), key |-> k]
                      /\ i.code # "none"
                   \/ Started(k) /\ ~ Ended(k) /\ i = [code |-> "BOUNDARY_UNRESOLVED", key |-> k]
    BY <1>2, <1>4
  <1>. HIDE DEF kept
  <1>. QED  BY <1>1, <1>3, <1>5

(* What a section is: its heading is a candidate outside the table of      *)
(* contents, and its end lies behind it.                                   *)
LEMMA SectionIs ==
  ASSUME CandsOK, ChosenRight, NEW k, Ended(k)
  PROVE  /\ k \in Range(BoundaryKeys(form)) /\ chosen.selected[k] # NoOrdinal
         /\ SectionOf(k).key = k /\ SectionOf(k).start = chosen.selected[k]
         /\ SectionOf(k).end = EndFor(form, cands, chosen, k)
         /\ SectionOf(k).start \in Ordinals /\ SectionOf(k).start \notin marks.toc
         /\ SectionOf(k).start \in Nat
         /\ SectionOf(k).end \in Int /\ SectionOf(k).start < SectionOf(k).end
         /\ SectionOf(k).confidence \in 0..100
  <1>1. k \in Range(BoundaryKeys(form)) /\ chosen.selected[k] # NoOrdinal
        /\ EndFor(form, cands, chosen, k) > chosen.selected[k]
    BY PersistedAreBoundaries DEF Ended, Started
  <1>2. PICK e : e = EndFor(form, cands, chosen, k)
    OBVIOUS
  <1>3. e \in Int
    BY <1>1, <1>2, EndIs
  <1>4. PICK P : P \in NearBest
    BY <1>1, StartIs
  <1>5. PICK x \in P : x.key = k /\ x.ord = chosen.selected[k]
    BY <1>1, <1>4, StartIs
  <1>6. x \in Body(cands)
    BY <1>4, PoolIs, NearBestIs DEF NearPicks, AllPicks
  <1>7. x \in cands.items /\ ~ x.toc
    BY <1>6 DEF Body
  <1>8. chosen.selected[k] \in Ordinals /\ chosen.selected[k] \notin marks.toc /\ chosen.selected[k] \in Nat
    BY <1>5, <1>7, CandidatesAre
  <1>9. PICK y \in Body(cands) : y = CHOOSE z \in Body(cands) : z.key = k /\ z.ord = chosen.selected[k]
    BY <1>5, <1>6
  <1>10. ScoreAt(cands, k, chosen.selected[k]) \in Int
    <2>1. y.score \in Int
      BY CandidatesAre DEF Body
    <2>. QED  BY <1>9, <2>1 DEF ScoreAt
  <1>11. ASSUME NEW n \in Int PROVE Confidence(n) \in 0..100
    <2>1. Min({100, n}) \in Int /\ Min({100, n}) <= 100
      BY MinOfTwo
    <2>2. PICK a \in Int : a = Min({100, n}) /\ a <= 100
      BY <2>1
    <2>3. PICK z \in Int : z = 0
      OBVIOUS
    <2>4. Max({z, a}) \in {z, a} /\ Max({z, a}) >= z
      BY MaxOfTwo
    <2>5. Confidence(n) = Max({z, a})
      BY <2>2, <2>3 DEF Confidence
    <2>. QED  BY <2>2, <2>3, <2>4, <2>5
  <1>12. /\ SectionOf(k).key = k /\ SectionOf(k).start = chosen.selected[k] /\ SectionOf(k).end = e
         /\ SectionOf(k).confidence = Confidence(ScoreAt(cands, k, chosen.selected[k]))
    BY <1>2 DEF SectionOf
  <1>13. SectionOf(k).confidence \in 0..100
    BY <1>10, <1>11, <1>12
  <1>. QED  BY <1>1, <1>2, <1>3, <1>8, <1>12, <1>13

(* Sections do not overlap. *)
LEMMA AssembledDisjoint ==
  ASSUME CandsOK, ChosenRight, Assembled
  PROVE  SectionsAreDisjoint
  <1>1. ASSUME NEW k, Ended(k), NEW l, Ended(l), Precedes(k, l)
        PROVE  SectionOf(k).end <= SectionOf(l).start
    <2>1. /\ k \in Range(BoundaryKeys(form)) /\ chosen.selected[k] # NoOrdinal /\ chosen.selected[l] # NoOrdinal
          /\ EndFor(form, cands, chosen, k) > chosen.selected[k]
      BY <1>1, SectionIs DEF Ended
    <2>2. EndFor(form, cands, chosen, k) <= chosen.selected[l]
      BY <1>1, <2>1, EndIs
    <2>. QED  BY <1>1, <2>2, SectionIs
  <1>2. ASSUME NEW s \in out.sections, NEW t \in out.sections, s # t
        PROVE  s.end <= t.start \/ t.end <= s.start
    <2>1. PICK k : Ended(k) /\ s = SectionOf(k)
      BY AssembledIs
    <2>2. PICK l : Ended(l) /\ t = SectionOf(l)
      BY AssembledIs
    <2>3. k # l
      BY <1>2, <2>1, <2>2
    <2>4. Precedes(k, l) \/ Precedes(l, k)
      BY <2>1, <2>2, <2>3, SectionIs, PrecedesIs
    <2>. QED  BY <1>1, <2>1, <2>2, <2>4
  <1>3. ASSUME NEW s \in out.sections PROVE s.start < s.end /\ s.start \notin marks.toc
    <2>1. PICK k : Ended(k) /\ s = SectionOf(k)
      BY AssembledIs
    <2>. QED  BY <2>1, SectionIs
  <1>. QED  BY <1>2, <1>3 DEF SectionsAreDisjoint

(* No section runs over a heading of a nearly best reading. *)
LEMMA AssembledSwallowsNone ==
  ASSUME CandsOK, ChosenRight, Assembled
  PROVE  NoItemIsSwallowed
  <1>. SUFFICES ASSUME NEW s \in out.sections, NEW P \in NearBest, NEW x \in P,
                       s.start < x.ord, x.ord < s.end
                PROVE  FALSE
    BY DEF NoItemIsSwallowed
  <1>1. PICK k : Ended(k) /\ s = SectionOf(k)
    BY AssembledIs
  <1>2. /\ k \in Range(BoundaryKeys(form)) /\ chosen.selected[k] # NoOrdinal
        /\ s.start = chosen.selected[k] /\ s.end = EndFor(form, cands, chosen, k)
        /\ s.start \in Nat /\ s.end \in Int /\ EndFor(form, cands, chosen, k) > chosen.selected[k]
    BY <1>1, SectionIs DEF Ended
  <1>3. PICK y \in P : y.key = k /\ y.ord = chosen.selected[k]
    BY <1>2, StartIs
  <1>4. x \in Pool /\ y \in Pool
    BY NearBestIs DEF NearPicks, AllPicks
  <1>5. x.key \in Range(BoundaryKeys(form)) /\ x.ord \in Nat
    BY <1>4, PoolIs DEF DpInput
  <1>6. x.key # k
    <2>1. x # y
      BY <1>2, <1>3, <1>5
    <2>. QED  BY <1>3, <2>1, NearBestIs DEF NearPicks, AllPicks, Ascends
  <1>7. Precedes(k, x.key)
    <2>1. ASSUME Precedes(x.key, k) PROVE FALSE
      <3>1. x.ord < y.ord
        BY <1>3, <2>1, PickAscends
      <3>. QED  BY <1>2, <1>3, <1>5, <3>1
    <2>. QED  BY <1>2, <1>5, <1>6, <2>1, PrecedesIs
  <1>8. CASE chosen.selected[x.key] = x.ord
    <2>1. chosen.selected[x.key] # NoOrdinal
      BY <1>5, <1>8 DEF NoOrdinal
    <2>2. EndFor(form, cands, chosen, k) <= x.ord
      BY <1>2, <1>7, <1>8, <2>1, EndIs
    <2>. QED  BY <1>2, <1>5, <2>2
  <1>9. CASE x.ord \in chosen.alts[x.key]
    <2>1. x.key \in Successors(BoundaryKeys(form), k)
      <3>1. PICK order : order = BoundaryKeys(form)
        OBVIOUS
      <3>2. /\ Index(order, x.key) \in 1..Len(order) /\ order[Index(order, x.key)] = x.key
            /\ Index(order, k) \in 1..Len(order) /\ Len(order) \in Nat
        BY <1>2, <1>5, <3>1, PoolIs, IndexOf
      <3>3. Index(order, x.key) \in (Index(order, k) + 1)..Len(order)
        BY <1>7, <3>1, <3>2 DEF Precedes
      <3>. QED  BY <3>1, <3>2, <3>3 DEF Successors
    <2>2. x.ord \in Doubtful(form, cands, chosen, k)
      BY <1>9, <2>1 DEF Doubtful
    <2>3. EndFor(form, cands, chosen, k) <= x.ord
      BY <1>2, <1>5, <2>2, EndIs
    <2>. QED  BY <1>2, <1>5, <2>3
  <1>. QED  BY <1>5, <1>8, <1>9, StartIs

RangesOf(k) == {s \in out.sections : s.key = k}
ReasonsOf(k) == {i \in out.issues : i.key = k}

(* Every persisted section has a range or a reason. *)
LEMMA AssembledAccounts ==
  ASSUME CandsOK, ChosenRight, Assembled
  PROVE  EverySectionIsAccountedFor
  <1>. SUFFICES ASSUME NEW k \in PersistedKeys(form)
                PROVE  /\ \/ Cardinality(RangesOf(k)) + Cardinality(ReasonsOf(k)) = 1
                          \/ IsAmendment(form) /\ RangesOf(k) = {} /\ ReasonsOf(k) = {}
                       /\ RangesOf(k) = {} /\ {i.code : i \in ReasonsOf(k)} \subseteq {"NOT_FOUND"}
                            => \A P \in NearBest : \A x \in P : x.key # k
    BY DEF EverySectionIsAccountedFor, RangesOf, ReasonsOf
  <1>0. PICK ranges : ranges = RangesOf(k)
    OBVIOUS
  <1>01. PICK reasons : reasons = ReasonsOf(k)
    OBVIOUS
  <1>1. k \in Range(BoundaryKeys(form)) /\ k # <<0, "terminal">>
    BY PersistedAreBoundaries
  <1>2. \A s : s \in ranges <=> Ended(k) /\ s = SectionOf(k)
    BY <1>0, AssembledIs DEF SectionOf, RangesOf
  <1>3. \A i : i \in reasons <=>
                 \/ ~ Started(k) /\ i = [code |-> MissingStart(form, marks, cands, chosen, k), key |-> k]
                    /\ i.code # "none"
                 \/ Started(k) /\ ~ Ended(k) /\ i = [code |-> "BOUNDARY_UNRESOLVED", key |-> k]
    <2>1. \A i \in chosen.terminal.issues : i.key # k
      BY <1>1 DEF ChosenRight
    <2>. QED  BY <1>01, <2>1, AssembledIs DEF ReasonsOf
  <1>4. \A x : Cardinality({x}) = 1
    BY FS_Singleton
  <1>5. Cardinality({}) = 0
    BY FS_EmptySet
  <1>6. CASE Ended(k)
    <2>1. ranges = {SectionOf(k)}
      BY <1>2, <1>6
    <2>2. reasons = {}
      BY <1>3, <1>6 DEF Ended
    <2>3. Cardinality(ranges) = 1 /\ Cardinality(reasons) = 0 /\ ranges # {}
      BY <1>4, <1>5, <2>1, <2>2
    <2>. QED  BY <1>0, <1>01, <2>3
  <1>7. CASE Started(k) /\ ~ Ended(k)
    <2>1. ranges = {}
      BY <1>2, <1>7
    <2>2. reasons = {[code |-> "BOUNDARY_UNRESOLVED", key |-> k]}
      BY <1>3, <1>7
    <2>3. PICK i \in reasons : i.code = "BOUNDARY_UNRESOLVED"
      BY <2>2
    <2>4. i.code # "NOT_FOUND" /\ i.code \in {j.code : j \in reasons}
      BY <2>3
    <2>5. ~ ({j.code : j \in reasons} \subseteq {"NOT_FOUND"})
      BY <2>4
    <2>6. Cardinality(ranges) = 0
      BY <1>5, <2>1
    <2>7. Cardinality(reasons) = 1
      BY <1>4, <2>2
    <2>. QED  BY <1>0, <1>01, <2>5, <2>6, <2>7
  <1>8. CASE ~ Started(k)
    <2>1. PICK c : c = MissingStart(form, marks, cands, chosen, k)
      OBVIOUS
    <2>2. chosen.selected[k] = NoOrdinal
      BY <1>8 DEF Started
    <2>3. ranges = {}
      BY <1>2, <1>8 DEF Ended
    <2>4. c = "none" => IsAmendment(form)
      BY <2>1 DEF MissingStart
    <2>5. c = "none" => reasons = {}
      BY <1>3, <1>8, <2>1
    <2>6. c # "none" => reasons = {[code |-> c, key |-> k]}
      BY <1>3, <1>8, <2>1
    <2>7. c \in {"none", "NOT_FOUND"} => k \notin chosen.ambiguous
      BY <2>1 DEF MissingStart
    <2>8. c \in {"none", "NOT_FOUND"} => \A P \in NearBest : \A x \in P : x.key # k
      BY <1>1, <2>2, <2>7, StartIs
    <2>9. ASSUME c \notin {"none", "NOT_FOUND"} PROVE ~ ({i.code : i \in reasons} \subseteq {"NOT_FOUND"})
      <3>0. c # "none"
        BY <2>9
      <3>00. PICK i : i = [code |-> c, key |-> k]
        OBVIOUS
      <3>1. i \in reasons /\ i.code = c
        BY <2>6, <3>0, <3>00
      <3>2. i.code \in {j.code : j \in reasons} /\ i.code # "NOT_FOUND"
        BY <2>9, <3>1
      <3>. QED  BY <3>2
    <2>10. c # "none" => Cardinality(reasons) = 1
      BY <1>4, <2>6
    <2>11. Cardinality(ranges) = 0
      BY <1>5, <2>3
    <2>. QED  BY <1>0, <1>01, <2>3, <2>4, <2>5, <2>8, <2>9, <2>10, <2>11
  <1>. QED  BY <1>6, <1>7, <1>8 DEF Ended

StartIn(P, k) == {x.ord : x \in {y \in P : y.key = k}}
StartsOf(k) == {StartIn(P, k) : P \in NearBest}

(* What is chosen is what the nearly best picks agree on. *)
LEMMA ChosenBeyondDoubt ==
  ASSUME CandsOK, ChosenRight
  PROVE  StartsAreBeyondDoubt
  <1>. SUFFICES ASSUME NEW k \in Range(BoundaryKeys(form))
                PROVE  IF StartsOf(k) = {} \/ Cardinality(StartsOf(k)) > 1
                       THEN chosen.selected[k] = NoOrdinal
                       ELSE {chosen.selected[k]} \ {NoOrdinal} = UNION StartsOf(k)
    BY DEF StartsAreBeyondDoubt, StartsOf, StartIn
  <1>0. PICK starts : starts = StartsOf(k)
    OBVIOUS
  <1>1. NearBest # {} /\ IsFiniteSet(NearBest)
    BY StartIs, NearBestIs
  <1>2. starts # {} /\ \A a : a \in starts <=> \E P \in NearBest : a = StartIn(P, k)
    BY <1>0, <1>1 DEF StartsOf
  <1>3. IsFiniteSet(starts)
    <2>. DEFINE w == [P \in NearBest |-> StartIn(P, k)]
    <2>1. starts = {w[P] : P \in NearBest}
      BY <1>0 DEF StartsOf
    <2>. HIDE DEF w
    <2>2. IsFiniteSet({w[P] : P \in NearBest})
      BY <1>1, FiniteImage
    <2>. QED  BY <2>1, <2>2
  <1>4. Cardinality(starts) > 1 <=> \E a, b \in starts : a # b
    BY <1>3, MoreThanOne
  <1>5. ASSUME chosen.selected[k] # NoOrdinal, NEW P \in NearBest
        PROVE  StartIn(P, k) = {chosen.selected[k]}
    <2>1. chosen.alts[k] = {} /\ \E x \in P : x.key = k /\ x.ord = chosen.selected[k]
      BY <1>5, StartIs
    <2>2. \A x \in P : x.key = k => x.ord = chosen.selected[k]
      BY <1>5, <2>1, StartIs
    <2>. QED  BY <2>1, <2>2 DEF StartIn
  <1>6. ASSUME chosen.selected[k] = NoOrdinal, k \notin chosen.ambiguous, NEW P \in NearBest
        PROVE  StartIn(P, k) = {}
    <2>1. \A x \in P : x.key # k
      BY <1>6, StartIs
    <2>. QED  BY <2>1 DEF StartIn
  <1>7. ASSUME k \in chosen.ambiguous
        PROVE  \E P, Q \in NearBest : StartIn(P, k) # StartIn(Q, k)
    <2>1. PICK order : order = BoundaryKeys(form)
      OBVIOUS
    <2>2. DpInput(order, Pool) /\ NearBest = NearPicks(order, Pool)
      BY <2>1, PoolIs, NearBestIs
    <2>3. PICK i \in DOMAIN order : i = Index(order, k) /\ order[i] = k
      BY <2>1, <2>2, IndexOf
    <2>4. ~ Agreed(order, Pool, i)
      BY <1>7, <2>1, <2>3, StartIs
    <2>5. PICK P \in NearBest, Q \in NearBest : OrdOf(order, P, i) # OrdOf(order, Q, i)
      BY <2>2, <2>4 DEF Agreed
    <2>6. ASSUME NEW R \in NearBest
          PROVE  StartIn(R, k) = {OrdOf(order, R, i)} \ {NoOrdinal}
      <3>1. R \in SUBSET Pool /\ Ascends(order, R)
        BY <2>2 DEF NearPicks, AllPicks
      <3>2. \A x \in R : x.ord \in Nat
        BY <2>2, <3>1 DEF DpInput
      <3>3. \A x \in R : x.key = k => OrdOf(order, R, i) = x.ord
        BY <2>3, <3>1, ChoiceOfIs DEF OrdOf, Option
      <3>4. (\A x \in R : x.key # k) => OrdOf(order, R, i) = NoOrdinal
        BY <2>3, <3>1, ChoiceOfIs DEF OrdOf, Skip
      <3>5. NoOrdinal \notin Nat
        BY DEF NoOrdinal
      <3>6. CASE \E x \in R : x.key = k
        BY <3>2, <3>3, <3>5, <3>6 DEF StartIn
      <3>7. CASE \A x \in R : x.key # k
        BY <3>4, <3>7 DEF StartIn
      <3>. QED  BY <3>6, <3>7
    <2>7. StartIn(P, k) # StartIn(Q, k)
      <3>1. /\ StartIn(P, k) = {OrdOf(order, P, i)} \ {NoOrdinal}
            /\ StartIn(Q, k) = {OrdOf(order, Q, i)} \ {NoOrdinal}
        BY <2>6
      <3>. QED  BY <2>5, <3>1
    <2>. QED  BY <2>7
  <1>8. CASE chosen.selected[k] # NoOrdinal
    <2>1. starts = {{chosen.selected[k]}}
      BY <1>1, <1>2, <1>5, <1>8
    <2>2. ~ (Cardinality(starts) > 1)
      BY <1>4, <2>1
    <2>3. UNION starts = {chosen.selected[k]}
      BY <2>1
    <2>4. {chosen.selected[k]} \ {NoOrdinal} = {chosen.selected[k]}
      BY <1>8
    <2>. QED  BY <1>0, <1>2, <2>2, <2>3, <2>4
  <1>9. CASE chosen.selected[k] = NoOrdinal /\ k \notin chosen.ambiguous
    <2>1. starts = {{}}
      BY <1>1, <1>2, <1>6, <1>9
    <2>2. ~ (Cardinality(starts) > 1)
      BY <1>4, <2>1
    <2>. QED  BY <1>0, <1>9, <2>1, <2>2
  <1>10. CASE k \in chosen.ambiguous
    <2>1. Cardinality(starts) > 1
      BY <1>2, <1>4, <1>7, <1>10
    <2>2. chosen.selected[k] = NoOrdinal
      BY <1>10, StartIs
    <2>. QED  BY <1>0, <2>1, <2>2
  <1>. QED  BY <1>0, <1>8, <1>9, <1>10

-----------------------------------------------------------------------------
(* The specification.                                                      *)

(* The inductive invariant: the marks and the candidates are those of the  *)
(* document, what is chosen is right once it is, and the output is the one *)
(* assembled from it.                                                      *)
SectionsInv ==
  /\ phase \in {"mark", "assign", "choose", "emit", "done"}
  /\ <<form, doc>> \in Documents /\ doc \in Seq(BlockRecords)
  /\ CandsOK
  /\ phase = "mark" => cands = NoCandidates
  /\ phase \in {"emit", "done"} => ChosenRight
  /\ phase # "done" => out = NoOutput
  /\ phase = "done" => Assembled

(* What the invariant says implies the properties that the runs check. *)
LEMMA InvImplies ==
  ASSUME SectionsInv
  PROVE  StartsAreBeyondDoubt /\ SectionsAreOfOneItem /\ EverySectionIsAccountedFor
  <1>1. CandsOK
    BY DEF SectionsInv
  <1>2. StartsAreBeyondDoubt
    <2>1. CASE phase = "emit"
      BY <1>1, <2>1, ChosenBeyondDoubt DEF SectionsInv
    <2>2. CASE phase # "emit"
      BY <2>2 DEF StartsAreBeyondDoubt
    <2>. QED  BY <2>1, <2>2
  <1>3. EverySectionIsAccountedFor
    <2>1. CASE phase = "done"
      BY <1>1, <2>1, AssembledAccounts DEF SectionsInv
    <2>2. CASE phase # "done"
      BY <2>2 DEF EverySectionIsAccountedFor
    <2>. QED  BY <2>1, <2>2
  <1>4. phase # "done" => out.sections = {}
    BY DEF SectionsInv, NoOutput
  <1>5. SectionsAreDisjoint /\ NoItemIsSwallowed
    <2>1. CASE phase = "done"
      BY <1>1, <2>1, AssembledDisjoint, AssembledSwallowsNone DEF SectionsInv
    <2>2. CASE phase # "done"
      BY <1>4, <2>2 DEF SectionsAreDisjoint, NoItemIsSwallowed
    <2>. QED  BY <2>1, <2>2
  <1>6. SectionsTypeOK
    <2>1. <<form, doc>> \in Documents /\ phase \in {"skipped", "mark", "assign", "choose", "emit", "done"}
      BY DEF SectionsInv
    <2>2. marks.toc \subseteq Ordinals
      BY <1>1 DEF CandsOK, MarksOK
    <2>3. \A x \in cands.items : x.ord \in Ordinals /\ x.key \in Range(BoundaryKeys(form))
      BY <1>1, CandidatesAre
    <2>4. ASSUME NEW s \in out.sections PROVE s.start \in Ordinals /\ s.confidence \in 0..100
      <3>1. Assembled /\ ChosenRight
        BY <1>4 DEF SectionsInv
      <3>2. PICK k : Ended(k) /\ s = SectionOf(k)
        BY <3>1, AssembledIs
      <3>. QED  BY <1>1, <3>1, <3>2, SectionIs
    <2>. QED  BY <2>1, <2>2, <2>3, <2>4 DEF SectionsTypeOK
  <1>. QED  BY <1>2, <1>3, <1>5, <1>6 DEF SectionsAreOfOneItem

(* It holds before the first step. *)
LEMMA InitInv == SectionsInit => SectionsInv
  <1>. SUFFICES ASSUME SectionsInit PROVE SectionsInv
    OBVIOUS
  <1>1. PICK f \in Documents : form = f[1] /\ doc = f[2]
    BY DEF SectionsInit
  <1>2. f \in Forms \X Seq(BlockRecords)
    BY DocumentsAssumption
  <1>3. f = <<form, doc>> /\ doc \in Seq(BlockRecords)
    BY <1>1, <1>2
  <1>4. MarksOK(marks, Ordinals)
    <2>1. Ordinals \subseteq Int
      BY DEF Ordinals
    <2>2. marks = NoMarks /\ IsFiniteSet({})
      BY FS_EmptySet DEF SectionsInit
    <2>. QED  BY <2>1, <2>2 DEF MarksOK, NoMarks
  <1>5. CandsOK
    BY <1>4 DEF CandsOK, SectionsInit, NoCandidates
  <1>. QED  BY <1>1, <1>3, <1>5 DEF SectionsInv, SectionsInit

(* Marking a document establishes the types of its marks. *)
LEMMA MarkStep == SectionsInv /\ Mark => SectionsInv'
  <1>. SUFFICES ASSUME SectionsInv, Mark PROVE SectionsInv'
    OBVIOUS
  <1>1. /\ phase = "mark" /\ phase' = "assign" /\ marks' = TocMarks(Occurrences)
        /\ form' = form /\ doc' = doc /\ cands' = cands /\ chosen' = chosen /\ out' = out
    BY DEF Mark
  <1>2. MarksOK(marks', Ordinals)
    BY <1>1, MarksType DEF SectionsInv
  <1>3. Ordinals' = Ordinals
    BY <1>1 DEF Ordinals
  <1>4. cands'.items = {}
    BY <1>1 DEF SectionsInv, NoCandidates
  <1>5. CandsOK'
    BY <1>2, <1>3, <1>4 DEF CandsOK
  <1>. QED  BY <1>1, <1>5 DEF SectionsInv

(* Assigning the Parts makes candidates of the Items, whatever Parts are found. *)
LEMMA AssignStep == SectionsInv /\ Assign => SectionsInv'
  <1>. SUFFICES ASSUME SectionsInv, Assign PROVE SectionsInv'
    OBVIOUS
  <1>1. /\ phase = "assign" /\ phase' = "choose"
        /\ form' = form /\ doc' = doc /\ marks' = marks /\ chosen' = chosen /\ out' = out
    BY DEF Assign
  <1>2. PICK res : cands'.items = AssignItemParts(form, marks, res).items
    BY DEF Assign
  <1>3. MarksOK(marks, Ordinals)
    BY DEF SectionsInv, CandsOK
  <1>4. IsFiniteSet(marks.items) /\ (\A x \in marks.items : x.ord \in Int)
        /\ \A x, y \in marks.items : x.ord = y.ord => x = y
    BY <1>3 DEF MarksOK
  <1>5. PICK occ \in Seq(marks.items) : occ = ByOrdinal(marks.items)
    BY <1>4, ByOrdinalRange
  <1>6. AssignItemParts(form, marks, res) \in Assignments(form, marks)
    BY <1>3, <1>5, AssignItemPartsType
  <1>7. cands'.items \subseteq CandidatesOf(form, marks)
    BY <1>2, <1>6 DEF Assignments
  <1>8. Ordinals' = Ordinals
    BY <1>1 DEF Ordinals
  <1>9. CandsOK'
    BY <1>1, <1>3, <1>7, <1>8 DEF CandsOK
  <1>. QED  BY <1>1, <1>9 DEF SectionsInv

(* Choosing the starts establishes what the dynamic programme promises. *)
LEMMA ChooseStep == SectionsInv /\ ChooseStarts => SectionsInv'
  <1>. SUFFICES ASSUME SectionsInv, ChooseStarts PROVE SectionsInv'
    OBVIOUS
  <1>1. /\ phase = "choose" /\ phase' = "emit" /\ chosen' = Choose(form, marks, cands)
        /\ form' = form /\ doc' = doc /\ marks' = marks /\ cands' = cands /\ out' = out
    BY DEF ChooseStarts
  <1>2. CandsOK
    BY DEF SectionsInv
  <1>3. PICK C : C = {x \in Body(cands) : x.key \notin {p[1] : p \in Collapsed(cands)}}
    OBVIOUS
  <1>4. Pool = {y \in C : Selectable(y.score)}
    BY <1>3, PoolOfStarts
  <1>5. PICK T : T = Pool
    OBVIOUS
  <1>6. PICK order : order = BoundaryKeys(form)
    OBVIOUS
  <1>7. PICK dp : dp = MonotonicDp(order, C)
    OBVIOUS
  <1>8. DpRight(order, T, dp)
    <2>1. DpInput(order, T)
      BY <1>2, <1>5, <1>6, PoolIs
    <2>. QED  BY <1>4, <1>5, <1>7, <2>1, MonotonicDpIsRight
  <1>9. \E l : /\ chosen'.selected = dp.selected /\ chosen'.ambiguous = dp.ambiguous /\ chosen'.alts = dp.alts
               /\ chosen'.collapsed = Collapsed(cands) /\ chosen'.terminal = ResolveTerminal(marks, l)
    BY <1>1, <1>3, <1>6, <1>7 DEF Choose
  <1>10. PICK l : /\ chosen'.selected = dp.selected /\ chosen'.ambiguous = dp.ambiguous
                  /\ chosen'.alts = dp.alts /\ chosen'.collapsed = Collapsed(cands)
                  /\ chosen'.terminal = ResolveTerminal(marks, l)
    BY <1>9
  <1>11. DpRight(order, T, chosen')
    BY <1>8, <1>10 DEF DpRight
  <1>12. chosen'.terminal.ord \in Int /\ \A i \in chosen'.terminal.issues : i.key = <<0, "terminal">>
    <2>1. IsFiniteSet(marks.terminals)
      BY <1>2 DEF CandsOK, MarksOK
    <2>2. \A x \in marks.terminals : x.ord \in Int /\ x.score \in Int
      BY <1>2 DEF CandsOK, MarksOK
    <2>. QED  BY <1>10, <2>1, <2>2, TerminalType
  <1>13. Pool' = Pool /\ Collapsed(cands)' = Collapsed(cands) /\ Ordinals' = Ordinals
    BY <1>1 DEF Pool, StartKeys, Ordinals
  <1>14. ChosenRight'
    BY <1>1, <1>5, <1>6, <1>10, <1>11, <1>12, <1>13 DEF ChosenRight
  <1>15. CandsOK'
    BY <1>1, <1>2, <1>13 DEF CandsOK
  <1>. QED  BY <1>1, <1>14, <1>15 DEF SectionsInv

(* Whatever leaves the input and the work on it alone leaves this alone. *)
LEMMA SameRight ==
  ASSUME SectionsInv, form' = form, doc' = doc, marks' = marks, cands' = cands, chosen' = chosen
  PROVE  CandsOK' /\ (ChosenRight => ChosenRight')
  <1>1. Pool' = Pool /\ Ordinals' = Ordinals
    BY DEF Pool, StartKeys, Ordinals
  <1>2. CandsOK'
    BY <1>1 DEF SectionsInv, CandsOK
  <1>3. ASSUME ChosenRight PROVE ChosenRight'
    BY <1>1, <1>3 DEF ChosenRight
  <1>. QED  BY <1>2, <1>3

(* Emitting assembles the sections from it. *)
LEMMA EmitStep == SectionsInv /\ Emit => SectionsInv'
  <1>. SUFFICES ASSUME SectionsInv, Emit PROVE SectionsInv'
    OBVIOUS
  <1>1. /\ phase = "emit" /\ phase' = "done" /\ out' = AssembleSections(form, marks, cands, chosen)
        /\ form' = form /\ doc' = doc /\ marks' = marks /\ cands' = cands /\ chosen' = chosen
    BY DEF Emit
  <1>2. CandsOK' /\ ChosenRight'
    BY <1>1, SameRight DEF SectionsInv
  <1>3. Assembled'
    BY <1>1 DEF Assembled
  <1>. QED  BY <1>1, <1>2, <1>3 DEF SectionsInv

(* A step that changes nothing keeps it. *)
LEMMA StutterStep == SectionsInv /\ UNCHANGED sectionsVars => SectionsInv'
  <1>. SUFFICES ASSUME SectionsInv, UNCHANGED sectionsVars PROVE SectionsInv'
    OBVIOUS
  <1>1. /\ form' = form /\ doc' = doc /\ phase' = phase /\ marks' = marks /\ cands' = cands
        /\ chosen' = chosen /\ out' = out
    BY DEF sectionsVars
  <1>2. CandsOK' /\ (ChosenRight => ChosenRight')
    BY <1>1, SameRight
  <1>3. Assembled => Assembled'
    BY <1>1 DEF Assembled
  <1>. QED  BY <1>1, <1>2, <1>3 DEF SectionsInv

(* The inductive invariant holds in every state of extract_filing_sections. *)
THEOREM SectionsInvariant == SectionsSpec => []SectionsInv
  <1>1. SectionsInv /\ [SectionsNext]_sectionsVars => SectionsInv'
    BY MarkStep, AssignStep, ChooseStep, EmitStep, StutterStep DEF SectionsNext
  <1>. QED  BY InitInv, <1>1, PTL DEF SectionsSpec

(* The starts chosen are those that every nearly best sequence of starts   *)
(* agrees on, for every document: _global_monotonic_dp.                    *)
THEOREM StartsBeyondDoubt == SectionsSpec => []StartsAreBeyondDoubt
  <1>1. SectionsInv => StartsAreBeyondDoubt
    BY InvImplies
  <1>. QED  BY SectionsInvariant, <1>1, PTL

(* The sections of a document never overlap, never start in its table of   *)
(* contents, and never run over a heading with which a nearly best reading *)
(* starts another item: end_for in extract_filing_sections.                *)
THEOREM SectionsOfOneItem == SectionsSpec => []SectionsAreOfOneItem
  <1>1. SectionsInv => SectionsAreOfOneItem
    BY InvImplies
  <1>. QED  BY SectionsInvariant, <1>1, PTL

(* Every persisted section has one range or one reason, and is reported as *)
(* not found, or passed over in an amendment, only when no nearly best     *)
(* reading has a heading for it: the last loop of extract_filing_sections. *)
THEOREM SectionsAccountedFor == SectionsSpec => []EverySectionIsAccountedFor
  <1>1. SectionsInv => EverySectionIsAccountedFor
    BY InvImplies
  <1>. QED  BY SectionsInvariant, <1>1, PTL
=============================================================================
