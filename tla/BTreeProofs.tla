---------------------------- MODULE BTreeProofs -----------------------------
(***************************************************************************)
(* The theorems about the map: Inv of BTreeInvariant is inductive, so the  *)
(* tree is balanced and every key is found; what a snapshot writes along   *)
(* the chain is the whole map; Erase returns the successor of the erased   *)
(* key; and BTree implements OrderedMap.                                   *)
(***************************************************************************)
EXTENDS BTreeMoveProofs, BTreeRefinesMap

(***************************************************************************)
(* The operators of the map, on its variables.                             *)
(***************************************************************************)

LEMMA LeastIs ==
  ASSUME NEW S, S \subseteq Nat, S # {}
  PROVE  Min(S) \in S /\ \A y \in S : Min(S) <= y
<1>1. PICK m \in S : \A y \in S : <<y, m>> \notin OpToRel(<, Nat)
  BY NatLessThanWellFounded, WFMin, Zenon
<1>2. ASSUME NEW y \in S PROVE m <= y
  <2>1. y \in Nat /\ m \in Nat
    OBVIOUS
  <2>2. ~(y < m)
    BY <1>1, <2>1, Zenon DEF OpToRel
  <2> QED BY <2>1, <2>2
<1> QED BY <1>1, <1>2 DEF Min

(* The address a new node is given is a free one.                          *)
LEMMA AllocateIs ==
  ASSUME NEW h, \E n \in NodeIds : h[n] = Freed
  PROVE  Allocate(h) \in NodeIds /\ h[Allocate(h)] = Freed
<1> DEFINE S == {n \in NodeIds : h[n] = Freed}
<1>1. S \subseteq Nat /\ S # {}
  BY MapAssumption
<1>2. Min(S) \in S
  <2> HIDE DEF S
  <2> QED BY <1>1, LeastIs
<1> QED BY <1>2 DEF Allocate

(* Position finds an element that is there, and 0 otherwise.               *)
LEMMA PositionOf ==
  ASSUME NEW S, NEW s \in Seq(S), \A i, j \in 1..Len(s) : s[i] = s[j] => i = j, NEW e
  PROVE  /\ Position(s, e) # 0 <=> e \in Elements(s)
         /\ Position(s, e) # 0 => Position(s, e) \in 1..Len(s) /\ s[Position(s, e)] = e
<1>1. CASE e \in Elements(s)
  <2>1. PICK i \in 1..Len(s) : s[i] = e
    BY <1>1 DEF Elements
  <2>2. Position(s, e) = i
    BY <2>1, PositionIs
  <2> QED BY <1>1, <2>1, <2>2
<1>2. CASE e \notin Elements(s)
  <2> DEFINE I == {j \in 1..Len(s) : s[j] = e}
  <2>1. I = {}
    BY <1>2 DEF Elements
  <2>2. SelectInSeq(s, LAMBDA x : x = e) = IF I # {} THEN Min(I) ELSE 0
    BY DEF SelectInSeq
  <2>3. Position(s, e) = 0
    BY <2>1, <2>2 DEF Position
  <2> QED BY <1>2, <2>3
<1> QED BY <1>1, <1>2

(* What the way down finds in a tree at rest.                              *)
FoundAt(n, k) ==
  /\ n \in Leaves(heap) /\ heap \in Heaps
  /\ Len(heap[n].values) = Len(heap[n].keys)
  /\ Position(heap[n].keys, k) # 0 <=> k \in Held(heap)
  /\ Position(heap[n].keys, k) # 0 =>
       Position(heap[n].keys, k) \in 1..Len(heap[n].keys) /\ heap[n].keys[Position(heap[n].keys, k)] = k
  /\ \E t, lo, hi : Tree(heap, root, NULL, NULL, t, lo, hi) /\ Within(lo, hi, n, k)

(* The leaf that is located holds the key if any does.                     *)
LEMMA LocateFinds ==
  ASSUME Standing(heap, root, NULL), NEW k \in Keys
  PROVE  FoundAt(Locate(k), k)
<1> DEFINE n == Locate(k)
<1>1. PICK t, lo, hi : Tree(heap, root, NULL, NULL, t, lo, hi)
  BY DEF Standing
<1>2. heap \in Heaps /\ k \in Nat
  BY <1>1, MapAssumption DEF Tree, Shape
<1>3. \A m \in Inners(heap) : heap[m].keys # <<>>
  <2>1. TAKE m \in Inners(heap)
  <2>2. m # NULL
    BY MapAssumption DEF Inners, Alive
  <2> QED BY <2>2 DEF Standing, Filled
<1>4. n \in Leaves(heap) /\ Within(lo, hi, n, k)
  BY <1>1, <1>3, LocateIs
<1> HIDE DEF n
<1>5. Ascending(heap[n].keys) /\ Len(heap[n].keys) = Len(heap[n].values)
  BY <1>1, <1>4, KeysWithin
<1>6. heap[n].keys \in Seq(Keys) /\ \A j \in 1..Len(heap[n].keys) : heap[n].keys[j] \in Nat
  <2>1. heap[n] \in Node
    BY <1>2, <1>4, AliveIs DEF Leaves
  <2>2. heap[n].keys \in Seq(Keys)
    BY <2>1 DEF Node
  <2> QED BY <2>2, MapAssumption
<1>7. \A i, j \in 1..Len(heap[n].keys) : heap[n].keys[i] = heap[n].keys[j] => i = j
  <2> DEFINE s == heap[n].keys
  <2>1. Len(s) \in Nat /\ (\A j \in 1..Len(s) : s[j] \in Nat) /\ Ascending(s)
    BY <1>5, <1>6
  <2> HIDE DEF s
  <2>2. ASSUME NEW i \in 1..Len(s), NEW j \in 1..Len(s), s[i] = s[j] PROVE i = j
    <3>1. ~(i < j) /\ ~(j < i)
      BY <2>1, <2>2 DEF Ascending
    <3> QED BY <2>1, <3>1
  <2> QED BY <2>2 DEF s
<1>8. k \in Held(heap) => k \in Elements(heap[n].keys)
  <2>1. ASSUME k \in Held(heap) PROVE k \in Elements(heap[n].keys)
    <3>1. PICK m \in Leaves(heap) : k \in Elements(heap[m].keys)
      BY <1>2, <2>1, HeldIs
    <3>2. PICK j \in 1..Len(heap[m].keys) : heap[m].keys[j] = k
      BY <3>1 DEF Elements
    <3>3. Within(lo, hi, m, k)
      BY <1>1, <3>2, KeysWithin
    <3>4. m = n
      BY <1>1, <1>2, <1>4, <3>3, LeafOfKey
    <3> QED BY <3>1, <3>4
  <2> QED BY <2>1
<1>9. k \in Elements(heap[n].keys) => k \in Held(heap)
  BY <1>2, <1>4, HeldIs
<1>10. /\ Position(heap[n].keys, k) # 0 <=> k \in Elements(heap[n].keys)
       /\ Position(heap[n].keys, k) # 0 =>
            Position(heap[n].keys, k) \in 1..Len(heap[n].keys) /\ heap[n].keys[Position(heap[n].keys, k)] = k
  BY <1>6, <1>7, PositionOf
<1> QED BY <1>1, <1>2, <1>4, <1>5, <1>8, <1>9, <1>10 DEF FoundAt, n

LEMMA ContainedIs ==
  ASSUME Standing(heap, root, NULL), NEW k \in Keys
  PROVE  root # NULL /\ (Contained(k) <=> k \in Held(heap))
<1>1. FoundAt(Locate(k), k)
  BY LocateFinds
<1>2. root # NULL
  BY MapAssumption DEF Standing, Tree, Shape, Alive
<1> QED BY <1>1, <1>2 DEF FoundAt, Contained

(* The kids left and right of a node are its siblings.                     *)
LEMMA NeighboursAre ==
  ASSUME NEW l, Standing(heap, root, l), NEW n \in Alive(heap), n # root
  PROVE  LET p == heap[n].parent
         IN  /\ LeftNode(n) # NULL => \E i : Siblings(heap, p, i, LeftNode(n), n)
             /\ RightNode(n) # NULL => \E i : Siblings(heap, p, i, n, RightNode(n))
<1> DEFINE p == heap[n].parent
           kids == heap[p].kids
           i == Position(kids, n)
<1>1. PICK t, lo, hi : Tree(heap, root, NULL, NULL, t, lo, hi)
  BY DEF Standing
<1>2. n \notin {root, NULL}
  BY MapAssumption DEF Alive
<1>3. /\ p \in Inners(heap) /\ i \in 1..Len(kids) /\ kids[i] = n
      /\ Len(kids) = Len(heap[p].keys) + 1 /\ heap[p] \in Node
  BY <1>1, <1>2, KidHasPlace DEF KidIndex
<1>4. Len(heap[p].keys) \in Nat
  BY <1>3, Lengths
<1>5. ASSUME LeftNode(n) # NULL PROVE \E j : Siblings(heap, p, j, LeftNode(n), n)
  <2>1. LeftNode(n) = IF i <= 1 THEN NULL ELSE kids[i - 1]
    BY DEF LeftNode
  <2> HIDE DEF i
  <2>2. i - 1 \in 1..Len(heap[p].keys) /\ (i - 1) + 1 = i /\ LeftNode(n) = kids[i - 1]
    BY <1>3, <1>4, <1>5, <2>1
  <2>3. Siblings(heap, p, i - 1, kids[i - 1], kids[(i - 1) + 1])
    <3> HIDE DEF p
    <3> QED BY <1>1, <1>3, <2>2, KidsStand
  <2> QED BY <1>3, <2>2, <2>3
<1>6. ASSUME RightNode(n) # NULL PROVE \E j : Siblings(heap, p, j, n, RightNode(n))
  <2>1. RightNode(n) = IF i = 0 \/ i = Len(kids) THEN NULL ELSE kids[i + 1]
    BY DEF RightNode
  <2> HIDE DEF i
  <2>2. i \in 1..Len(heap[p].keys) /\ RightNode(n) = kids[i + 1]
    BY <1>3, <1>4, <1>6, <2>1
  <2>3. Siblings(heap, p, i, kids[i], kids[i + 1])
    <3> HIDE DEF p
    <3> QED BY <1>1, <1>3, <2>2, KidsStand
  <2> QED BY <1>3, <2>2, <2>3
<1> QED BY <1>5, <1>6

(***************************************************************************)
(* What Clear reaches: a node and all that is below its kids.              *)
(***************************************************************************)
Gathers(S, K, f) == f = [n \in S |-> {n} \cup UNION {f[m] : m \in K[n]}]

Descending(S, K, t, top) ==
  /\ top \in Nat /\ \A n \in S : t[n] \in Nat /\ t[n] <= top
  /\ \A n \in S : \A m \in K[n] : m \in S /\ t[m] + 1 = t[n]

(* What is below a node: the recursion of Reachable has a solution, and at *)
(* the root that is every node.                                            *)
LEMMA GathersSome ==
  ASSUME NEW S, NEW K, NEW t, NEW top, Descending(S, K, t, top)
  PROVE  \E f : Gathers(S, K, f)
<1> DEFINE Good(f, m) == \A n \in S : t[n] <= m => f[n] = {n} \cup UNION {f[x] : x \in K[n]}
           Z == {m \in Nat : \E f : Good(f, m)}
<1>0. /\ top \in Nat /\ \A n \in S : t[n] \in Nat /\ t[n] <= top
      /\ \A n \in S : \A m \in K[n] : m \in S /\ t[m] + 1 = t[n]
  BY DEF Descending
<1>1. 0 \in Z
  <2> DEFINE f0 == [n \in S |-> {n}]
  <2>1. ASSUME NEW n \in S, t[n] <= 0 PROVE f0[n] = {n} \cup UNION {f0[x] : x \in K[n]}
    <3>1. K[n] = {}
      <4>1. SUFFICES ASSUME NEW x \in K[n] PROVE FALSE
        OBVIOUS
      <4>2. t[x] \in Nat /\ t[x] + 1 = t[n] /\ t[n] \in Nat
        BY <1>0
      <4> QED BY <2>1, <4>2
    <3> QED BY <3>1
  <2> HIDE DEF f0
  <2>2. Good(f0, 0)
    BY <2>1
  <2> QED BY <2>2
<1>2. ASSUME NEW m \in Nat, m \in Z PROVE m + 1 \in Z
  <2>1. PICK f : Good(f, m)
    BY <1>2
  <2> DEFINE g == [n \in S |-> IF t[n] <= m THEN f[n] ELSE {n} \cup UNION {f[x] : x \in K[n]}]
  <2>2. ASSUME NEW n \in S, t[n] <= m + 1 PROVE g[n] = {n} \cup UNION {g[x] : x \in K[n]}
    <3>1. g[n] = {n} \cup UNION {f[x] : x \in K[n]}
      BY <2>1
    <3>2. \A x \in K[n] : g[x] = f[x]
      <4>1. TAKE x \in K[n]
      <4>2. x \in S /\ t[x] + 1 = t[n] /\ t[x] \in Nat /\ t[n] \in Nat
        BY <1>0
      <4>3. t[x] <= m
        BY <2>2, <4>2
      <4> QED BY <4>2, <4>3
    <3> HIDE DEF g
    <3>3. {f[x] : x \in K[n]} = {g[x] : x \in K[n]}
      BY <3>2
    <3> QED BY <3>1, <3>3
  <2> HIDE DEF g
  <2>3. Good(g, m + 1)
    BY <2>2
  <2> QED BY <2>3
<1>3. \A m \in Nat : m \in Z
  <2> HIDE DEF Z
  <2> QED BY <1>1, <1>2, ClimbTo
<1>4. PICK f : Good(f, top)
  BY <1>0, <1>3
<1> DEFINE g == [n \in S |-> f[n]]
<1>5. ASSUME NEW n \in S PROVE g[n] = {n} \cup UNION {g[x] : x \in K[n]}
  <2>1. f[n] = {n} \cup UNION {f[x] : x \in K[n]}
    BY <1>0, <1>4
  <2>2. \A x \in K[n] : g[x] = f[x]
    BY <1>0
  <2>3. {f[x] : x \in K[n]} = {g[x] : x \in K[n]}
    BY <2>2
  <2> QED BY <2>1, <2>3
<1>6. g = [n \in S |-> g[n]]
  OBVIOUS
<1> HIDE DEF g
<1>7. Gathers(S, K, g)
  BY <1>5, <1>6 DEF Gathers
<1> QED BY <1>7

(* All that has a place below some node of S is reached from the top.      *)
LEMMA GathersAll ==
  ASSUME NEW S, NEW K, NEW t, NEW r \in S, Descending(S, K, t, t[r]), NEW f, Gathers(S, K, f),
         \A n \in S : n # r => \E p \in S : n \in K[p]
  PROVE  f[r] = S
<1>0. /\ t[r] \in Nat /\ \A n \in S : t[n] \in Nat /\ t[n] <= t[r]
      /\ \A n \in S : \A m \in K[n] : m \in S /\ t[m] + 1 = t[n]
  BY DEF Descending
<1>1. \A n \in S : f[n] = {n} \cup UNION {f[m] : m \in K[n]}
  BY DEF Gathers
<1> DEFINE Closed(x) == f[x] \subseteq S /\ \A p \in f[x] : \A m \in K[p] : m \in f[x]
           Z == {m \in Nat : \A x \in S : t[x] <= m => Closed(x)}
<1>2. ASSUME NEW x \in S, \A y \in K[x] : Closed(y) PROVE Closed(x)
  <2>1. ASSUME NEW z \in f[x] PROVE z \in S
    <3>1. CASE z = x
      BY <3>1
    <3>2. CASE z # x
      <4>1. PICK y \in K[x] : z \in f[y]
        BY <1>1, <2>1, <3>2
      <4> QED BY <1>2, <4>1
    <3> QED BY <3>1, <3>2
  <2>2. ASSUME NEW p \in f[x], NEW m \in K[p] PROVE m \in f[x]
    <3>1. CASE p = x
      <4>1. m \in S /\ m \in f[m]
        BY <1>0, <1>1, <2>2, <3>1
      <4> QED BY <1>1, <2>2, <3>1, <4>1
    <3>2. CASE p # x
      <4>1. PICK y \in K[x] : p \in f[y]
        BY <1>1, <2>2, <3>2
      <4>2. m \in f[y]
        BY <1>2, <2>2, <4>1
      <4> QED BY <1>1, <4>1, <4>2
    <3> QED BY <3>1, <3>2
  <2> QED BY <2>1, <2>2
<1>3. 0 \in Z
  <2>1. ASSUME NEW x \in S, t[x] <= 0 PROVE Closed(x)
    <3>1. ASSUME NEW y \in K[x] PROVE FALSE
      <4>1. y \in S /\ t[y] \in Nat /\ t[y] + 1 = t[x] /\ t[x] \in Nat
        BY <1>0, <3>1
      <4> QED BY <2>1, <4>1
    <3> HIDE DEF Closed
    <3> QED BY <1>2, <3>1
  <2> QED BY <2>1
<1>4. ASSUME NEW m \in Nat, m \in Z PROVE m + 1 \in Z
  <2>1. ASSUME NEW x \in S, t[x] <= m + 1 PROVE Closed(x)
    <3>1. ASSUME NEW y \in K[x] PROVE Closed(y)
      <4>1. y \in S /\ t[y] \in Nat /\ t[y] + 1 = t[x] /\ t[x] \in Nat
        BY <1>0, <3>1
      <4>2. t[y] <= m
        BY <2>1, <4>1
      <4> QED BY <1>4, <4>1, <4>2
    <3> HIDE DEF Closed
    <3> QED BY <1>2, <3>1
  <2> QED BY <2>1
<1>5. \A m \in Nat : m \in Z
  <2> HIDE DEF Z
  <2> QED BY <1>3, <1>4, ClimbTo
<1>6. Closed(r) /\ r \in f[r]
  BY <1>0, <1>1, <1>5
<1> DEFINE Y == {d \in Nat : \A n \in S : t[r] <= t[n] + d => n \in f[r]}
<1>7. ASSUME NEW n \in S, t[r] <= t[n] PROVE n \in f[r]
  <2>1. n = r
    <3>1. SUFFICES ASSUME n # r PROVE FALSE
      OBVIOUS
    <3>2. PICK p \in S : n \in K[p]
      BY <3>1
    <3>3. t[n] + 1 = t[p] /\ t[p] <= t[r] /\ t[n] \in Nat /\ t[r] \in Nat /\ t[p] \in Nat
      BY <1>0, <3>2
    <3> QED BY <1>7, <3>3
  <2> QED BY <1>6, <2>1
<1>8. 0 \in Y
  <2>1. ASSUME NEW n \in S, t[r] <= t[n] + 0 PROVE n \in f[r]
    <3>1. t[r] <= t[n]
      BY <1>0, <2>1
    <3> QED BY <1>7, <3>1
  <2> QED BY <2>1
<1>9. ASSUME NEW d \in Nat, d \in Y PROVE d + 1 \in Y
  <2>1. ASSUME NEW n \in S, t[r] <= t[n] + (d + 1) PROVE n \in f[r]
    <3>1. CASE n = r
      BY <1>6, <3>1
    <3>2. CASE n # r
      <4>1. PICK p \in S : n \in K[p]
        BY <3>2
      <4>2. t[n] + 1 = t[p] /\ t[n] \in Nat /\ t[r] \in Nat /\ t[p] \in Nat
        BY <1>0, <4>1
      <4>3. t[r] <= t[p] + d
        BY <2>1, <4>2
      <4>4. p \in f[r]
        BY <1>9, <4>3
      <4> QED BY <1>6, <4>1, <4>4
    <3> QED BY <3>1, <3>2
  <2> QED BY <2>1
<1>10. \A d \in Nat : d \in Y
  <2> HIDE DEF Y
  <2> QED BY <1>8, <1>9, ClimbTo
<1>11. ASSUME NEW n \in S PROVE n \in f[r]
  <2>1. t[r] <= t[n] + t[r] /\ t[r] \in Nat
    BY <1>0
  <2> QED BY <1>10, <2>1
<1> QED BY <1>6, <1>11

(* Clear reaches every node there is.                                      *)
LEMMA ReachableIs ==
  ASSUME NEW l, Standing(heap, root, l)
  PROVE  Reachable = Live /\ Live = Alive(heap) /\ root # NULL
<1>1. PICK t, lo, hi : Tree(heap, root, NULL, NULL, t, lo, hi)
  BY DEF Standing
<1> DEFINE K == [n \in Live |-> IF heap[n].outer THEN {} ELSE ToSet(heap[n].kids)]
           F == CHOOSE f : f = [n \in Live |-> {n} \cup (IF heap[n].outer THEN {}
                                   ELSE UNION {f[m] : m \in ToSet(heap[n].kids)})]
<1>2. Live = Alive(heap)
  BY DEF Live, Alive
<1>3. /\ t \in [NodeIds -> Nat] /\ root \in Alive(heap) /\ \A n \in Alive(heap) : t[n] <= t[root]
      /\ \A n \in Alive(heap) : n # root => heap[n].parent \in Inners(heap) /\ IsKid(heap, n, heap[n].parent)
  <2>1. \A n \in Alive(heap) : n # NULL
    BY MapAssumption DEF Alive
  <2> QED BY <1>1, <2>1 DEF Tree, Shape, Placed
<1>4. ASSUME NEW n \in Live, ~heap[n].outer
      PROVE  KnowsKids(heap, root, NULL, t, n) /\ \A m : m \in ToSet(heap[n].kids) <=> IsKid(heap, m, n)
  <2>1. n \in Inners(heap)
    BY <1>2, <1>4 DEF Inners
  <2>2. KnowsKids(heap, root, NULL, t, n)
    BY <1>1, <2>1, KidsKnown
  <2>3. heap[n].kids \in Seq(NodeIds)
    BY <2>2 DEF KnowsKids
  <2>4. ToSet(heap[n].kids) = Elements(heap[n].kids)
    BY <2>3, ToSetIs
  <2> QED BY <2>2, <2>4 DEF Elements, IsKid
<1>5. ASSUME NEW n \in Live, NEW m \in K[n] PROVE m \in Live /\ t[m] + 1 = t[n]
  <2>1. ~heap[n].outer /\ m \in ToSet(heap[n].kids)
    BY <1>5
  <2>2. KnowsKids(heap, root, NULL, t, n) /\ IsKid(heap, m, n)
    BY <1>4, <2>1
  <2> QED BY <1>2, <2>2 DEF KnowsKids
<1>6. ASSUME NEW n \in Live, n # root PROVE \E p \in Live : n \in K[p]
  <2>1. heap[n].parent \in Live /\ ~heap[heap[n].parent].outer /\ IsKid(heap, n, heap[n].parent)
    BY <1>2, <1>3, <1>6 DEF Inners
  <2>2. n \in ToSet(heap[heap[n].parent].kids)
    BY <1>4, <2>1
  <2> QED BY <2>1, <2>2
<1>7. \A n \in Live : K[n] = IF heap[n].outer THEN {} ELSE ToSet(heap[n].kids)
  OBVIOUS
<1> HIDE DEF K
<1>8. Descending(Live, K, t, t[root])
  <2>1. t[root] \in Nat /\ \A n \in Live : t[n] \in Nat /\ t[n] <= t[root]
    BY <1>2, <1>3 DEF Alive
  <2> QED BY <1>5, <2>1 DEF Descending
<1>9. \A f : (f = [n \in Live |-> {n} \cup (IF heap[n].outer THEN {}
                                   ELSE UNION {f[m] : m \in ToSet(heap[n].kids)})]) <=> Gathers(Live, K, f)
  <2>1. TAKE f
  <2>2. \A n \in Live : {n} \cup (IF heap[n].outer THEN {} ELSE UNION {f[m] : m \in ToSet(heap[n].kids)})
                        = {n} \cup UNION {f[m] : m \in K[n]}
    <3>1. TAKE n \in Live
    <3>2. CASE heap[n].outer
      <4>1. K[n] = {}
        BY <1>7, <3>2
      <4> QED BY <3>2, <4>1
    <3>3. CASE ~heap[n].outer
      <4>1. K[n] = ToSet(heap[n].kids)
        BY <1>7, <3>3
      <4> QED BY <3>3, <4>1
    <3> QED BY <3>2, <3>3
  <2> QED BY <2>2 DEF Gathers
<1>10. Gathers(Live, K, F)
  <2>1. PICK f : Gathers(Live, K, f)
    BY <1>8, GathersSome
  <2>2. f = [n \in Live |-> {n} \cup (IF heap[n].outer THEN {}
                                   ELSE UNION {f[m] : m \in ToSet(heap[n].kids)})]
    BY <1>9, <2>1
  <2>3. F = [n \in Live |-> {n} \cup (IF heap[n].outer THEN {}
                                   ELSE UNION {F[m] : m \in ToSet(heap[n].kids)})]
    BY <2>2
  <2> HIDE DEF F
  <2> QED BY <1>9, <2>3
<1>11. root \in Live /\ root # NULL
  BY <1>2, <1>3, MapAssumption DEF Alive
<1>12. Reachable = F[root]
  BY <1>11 DEF Reachable
<1> HIDE DEF F
<1>13. F[root] = Live
  BY <1>6, <1>8, <1>10, <1>11, GathersAll
<1> QED BY <1>2, <1>11, <1>12, <1>13

(***************************************************************************)
(* The actions keep the invariant: Insert, Update and Clear ...            *)
(***************************************************************************)

(* How size follows the keys that are held.                                *)
LEMMA CountedIs ==
  ASSUME Counted, NEW k
  PROVE  /\ Content(heap') = Content(heap) /\ size' = size => Counted'
         /\ Held(heap') = Held(heap) /\ size' = size => Counted'
         /\ Held(heap') = Held(heap) \cup {k} /\ k \notin Held(heap) /\ size' = size + 1 => Counted'
         /\ Held(heap') = Held(heap) \ {k} /\ k \in Held(heap) /\ size' = size - 1 => Counted'
         /\ Held(heap') = {} /\ size' = 0 => Counted'
<1>1. IsFiniteSet(Held(heap)) /\ Cardinality(Held(heap)) = size
  BY DEF Counted
<1>2. /\ Held(heap') = Held(heap) /\ size' = size => Counted'
  BY <1>1 DEF Counted
<1>3. /\ Held(heap') = Held(heap) \cup {k} /\ k \notin Held(heap) /\ size' = size + 1 => Counted'
  <2>1. IsFiniteSet(Held(heap) \cup {k})
        /\ Cardinality(Held(heap) \cup {k})
             = IF k \in Held(heap) THEN Cardinality(Held(heap)) ELSE Cardinality(Held(heap)) + 1
    BY <1>1, FS_AddElement
  <2> QED BY <1>1, <2>1 DEF Counted
<1>4. /\ Held(heap') = Held(heap) \ {k} /\ k \in Held(heap) /\ size' = size - 1 => Counted'
  <2>1. IsFiniteSet(Held(heap) \ {k})
        /\ Cardinality(Held(heap) \ {k})
             = IF k \in Held(heap) THEN Cardinality(Held(heap)) - 1 ELSE Cardinality(Held(heap))
    BY <1>1, FS_RemoveElement
  <2> QED BY <1>1, <2>1 DEF Counted
<1>5. Held(heap') = {} /\ size' = 0 => Counted'
  BY FS_EmptySet DEF Counted
<1>6. Content(heap') = Content(heap) => Held(heap') = Held(heap)
  BY DEF Content
<1> QED BY <1>2, <1>3, <1>4, <1>5, <1>6

LEMMA NothingHeld == Held([n \in NodeIds |-> Freed]) = {}
<1>1. Leaves([n \in NodeIds |-> Freed]) = {}
  BY DEF Leaves, Alive
<1> QED BY <1>1 DEF Held

LEMMA RootIsAlive ==
  ASSUME NEW h, NEW r, NEW l, Standing(h, r, l)
  PROVE  r \in Alive(h) /\ r \in NodeIds /\ r # NULL /\ h \in Heaps
BY MapAssumption DEF Standing, Tree, Shape, Alive

LEMMA EndIs == End \in (NodeIds \cup {NULL}) \X Nat /\ 0 \in Keys \cup {0}
BY DEF End

(* The actions, one by one, keep the invariant.                            *)
LEMMA InsertFirstKeeps ==
  ASSUME Inv, NEW k \in Keys, InsertFirst(k)
  PROVE  Inv'
<1> DEFINE n == Allocate(heap)
<1>1. /\ pc = "idle" /\ root = NULL /\ HasRoom
      /\ heap' = OuterInsert([heap EXCEPT ![n] = NewNode(TRUE)], n, k)
      /\ root' = n /\ size' = size + 1 /\ next' = End /\ erased' = 0
      /\ pc' = pc /\ current' = current /\ kin' = kin /\ upKey' = upKey
  BY DEF InsertFirst, call
<1>2. heap = [m \in NodeIds |-> Freed]
  BY <1>1 DEF Inv, Sound
<1>3. n \in NodeIds
  BY <1>1, AllocateIs DEF HasRoom
<1>4. EmptyLeaf(NewNode(TRUE))
  BY NewLeafIsEmpty
<1> HIDE DEF n
<1>5. ASSUME NEW x, EmptyLeaf(x), NEW f, f = [heap EXCEPT ![n] = x], NEW s, s = OuterInsert(f, n, k)
      PROVE  Standing(s, n, NULL) /\ Held(s) = {k}
  <2>1. x \in Node
    BY <1>5 DEF EmptyLeaf
  <2>2. f \in Heaps /\ f[n] = x /\ \A m \in NodeIds \ {n} : f[m] = Freed
    BY <1>2, <1>3, <1>5, <2>1 DEF Heaps
  <2>3. EmptyLeaf(f[n]) /\ s = OuterInsert(f, n, k)
    BY <1>5, <2>2
  <2> QED BY <1>3, <2>2, <2>3, FirstStands
<1>6. Standing(heap', n, NULL) /\ Held(heap') = {k}
  BY <1>1, <1>4, <1>5, Zenon
<1>7. n # NULL
  BY <1>3, MapAssumption
<1>8. Sound'
  BY <1>1, <1>6, <1>7 DEF Sound
<1>9. Counted'
  <2>1. Held(heap) = {}
    BY <1>2, NothingHeld
  <2>2. Held(heap') = Held(heap) \cup {k} /\ k \notin Held(heap)
    BY <1>6, <2>1
  <2>3. Counted
    BY DEF Inv
  <2> QED BY <1>1, <2>2, <2>3, CountedIs
<1> QED BY <1>1, <1>8, <1>9, EndIs DEF Inv

LEMMA InsertKeeps ==
  ASSUME Inv, NEW k \in Keys, Insert(k)
  PROVE  Inv'
<1> DEFINE n == Locate(k)
           inserted == OuterInsert(heap, n, k)
           new == Allocate(inserted)
<1>1. /\ pc = "idle" /\ root # NULL /\ ~Contained(k)
      /\ size' = size + 1 /\ next' = End /\ erased' = 0 /\ root' = root
  BY DEF Insert
<1>2. Standing(heap, root, NULL) /\ Counted /\ kin = NULL /\ current = NULL /\ upKey \in Keys \cup {0}
  BY <1>1 DEF Inv, Sound
<1>3. FoundAt(n, k) /\ k \notin Held(heap)
  BY <1>1, <1>2, LocateFinds, ContainedIs
<1> HIDE DEF n
<1>4. PICK t, lo, hi : Tree(heap, root, NULL, NULL, t, lo, hi) /\ Within(lo, hi, n, k)
  BY <1>3 DEF FoundAt
<1>5. n \in Leaves(heap) /\ heap \in Heaps /\ Filled(heap, root, NULL)
  BY <1>2, <1>3 DEF FoundAt, Standing
<1>6. Takes(heap, inserted, root, n, k)
  BY <1>3, <1>4, <1>5, LeafTakes
<1>7. Held(inserted) = Held(heap) \cup {k}
  BY <1>6 DEF Takes
<1>8. CASE ~IsFull(inserted[n])
  <2>1. heap' = inserted /\ pc' = pc /\ current' = current /\ kin' = kin /\ upKey' = upKey
    BY <1>8 DEF Insert, n, call
  <2> HIDE DEF inserted
  <2>2. Standing(inserted, root, NULL)
    BY <1>5, <1>6, <1>8, InsertStands
  <2>3. Sound'
    BY <1>1, <2>1, <2>2 DEF Sound
  <2>4. Counted'
    BY <1>1, <1>2, <1>3, <1>7, <2>1, CountedIs
  <2> QED BY <1>1, <1>2, <2>1, <2>3, <2>4, EndIs DEF Inv
<1>9. CASE IsFull(inserted[n])
  <2>1. /\ HasRoom /\ heap' = OuterSplit(inserted, n, Allocate(heap))
        /\ pc' = "propagate" /\ current' = n /\ kin' = Allocate(heap)
        /\ upKey' = heap'[Allocate(heap)].keys[1]
    BY <1>9 DEF Insert, n
  <2>2. Allocate(heap) \in NodeIds /\ heap[Allocate(heap)] = Freed
    BY <2>1, AllocateIs DEF HasRoom
  <2> HIDE DEF inserted
  <2>3. Pending(heap', root, n, Allocate(heap), heap'[Allocate(heap)].keys[1]) /\ Content(heap') = Content(inserted)
    BY <1>5, <1>6, <1>9, <2>1, <2>2, SplitPends
  <2>4. Sound'
    BY <1>1, <2>1, <2>3 DEF Sound
  <2>5. Counted'
    <3>1. Held(heap') = Held(inserted)
      BY <2>3 DEF Content
    <3> QED BY <1>1, <1>2, <1>3, <1>7, <3>1, CountedIs
  <2>6. upKey' \in Keys
    BY <2>1, <2>3 DEF Pending
  <2> QED BY <1>1, <2>1, <2>4, <2>5, <2>6, EndIs DEF Inv
<1> QED BY <1>8, <1>9

LEMMA UpdateKeeps ==
  ASSUME Inv, NEW k \in Keys, Update(k)
  PROVE  Inv'
<1> DEFINE n == Locate(k)
           i == Position(heap[n].keys, k)
<1>1. /\ pc = "idle" /\ root # NULL /\ Contained(k)
      /\ heap' = UpdateLeaf(heap, n, i)
      /\ next' = End /\ erased' = 0 /\ root' = root /\ size' = size
      /\ pc' = pc /\ current' = current /\ kin' = kin /\ upKey' = upKey
  BY DEF Update, call, UpdateLeaf
<1>2. Standing(heap, root, NULL) /\ Counted /\ kin = NULL /\ current = NULL /\ upKey \in Keys \cup {0}
  BY <1>1 DEF Inv, Sound
<1>3. FoundAt(n, k) /\ k \in Held(heap)
  BY <1>1, <1>2, LocateFinds, ContainedIs
<1> HIDE DEF n
<1>4. n \in Leaves(heap) /\ i \in 1..Len(heap[n].values)
  BY <1>3 DEF FoundAt
<1> HIDE DEF i
<1>5. Standing(heap', root, NULL) /\ Held(heap') = Held(heap)
  BY <1>1, <1>2, <1>4, UpdateStands
<1>6. Sound' /\ Counted'
  BY <1>1, <1>2, <1>5, CountedIs DEF Sound
<1> QED BY <1>1, <1>2, <1>6, EndIs DEF Inv

LEMMA ClearKeeps ==
  ASSUME Inv, Clear
  PROVE  Inv'
<1>1. /\ pc = "idle" /\ root # NULL
      /\ heap' = [n \in NodeIds |-> IF n \in Reachable THEN Freed ELSE heap[n]]
      /\ next' = End /\ erased' = 0 /\ root' = NULL /\ size' = 0
      /\ pc' = pc /\ current' = current /\ kin' = kin /\ upKey' = upKey
  BY DEF Clear, call
<1>2. Standing(heap, root, NULL) /\ Counted /\ kin = NULL /\ current = NULL /\ upKey \in Keys \cup {0}
  BY <1>1 DEF Inv, Sound
<1>3. Reachable = Alive(heap)
  BY <1>2, ReachableIs
<1>4. heap' = [n \in NodeIds |-> Freed]
  BY <1>1, <1>3 DEF Alive
<1>5. Sound'
  BY <1>1, <1>4 DEF Sound
<1>6. Counted'
  BY <1>1, <1>2, <1>4, NothingHeld, CountedIs
<1> QED BY <1>1, <1>2, <1>5, <1>6, EndIs DEF Inv

(***************************************************************************)
(* ... PropagateUpwards, and Erase up to its loop ...                      *)
(***************************************************************************)

Typed == /\ upKey \in Keys \cup {0} /\ erased \in Keys \cup {0}
         /\ next \in (NodeIds \cup {NULL}) \X Nat

LEMMA KinIs ==
  ASSUME NEW h, NEW r, NEW c, NEW k, NEW key, Pending(h, r, c, k, key)
  PROVE  /\ h \in Heaps /\ k \in Alive(h) /\ k \in NodeIds /\ r \in Alive(h) /\ k # r /\ k # c
         /\ r # NULL /\ key \in Keys /\ c \in Alive(h) /\ c \in NodeIds
BY MapAssumption DEF Pending, Tree, Shape, Alive

(* What PropagateUpwards and the loop in Erase do keeps the invariant and  *)
(* leaves keys and values what they are.                                   *)
LEMMA PropagateToRootKeeps ==
  ASSUME Inv, PropagateToRoot
  PROVE  Inv' /\ Content(heap') = Content(heap)
<1> DEFINE n == Allocate(heap)
<1>1. /\ pc = "propagate" /\ current = root /\ HasRoom
      /\ heap' = InnerInsert([heap EXCEPT ![n] = NewNode(FALSE)], n, current, upKey, kin)
      /\ root' = n /\ size' = size /\ next' = next /\ erased' = erased
      /\ pc' = "idle" /\ current' = NULL /\ kin' = NULL /\ upKey' = 0
  BY DEF PropagateToRoot, Return
<1>2. Pending(heap, root, root, kin, upKey) /\ Counted /\ Typed
  BY <1>1 DEF Inv, Sound, Typed
<1>3. n \in NodeIds /\ heap[n] = Freed
  BY <1>1, AllocateIs DEF HasRoom
<1> HIDE DEF n
<1>4. /\ heap \in Heaps /\ kin \in Alive(heap) /\ root \in Alive(heap) /\ kin # root /\ upKey \in Keys
  BY <1>2, KinIs
<1>5. NewRoot(heap, InnerInsert([heap EXCEPT ![n] = NewNode(FALSE)], n, root, upKey, kin), root, kin, n, upKey)
  BY <1>3, <1>4, RootInsertIs, Zenon
<1>6. NewRoot(heap, heap', root, kin, n, upKey)
  BY <1>1, <1>5, Zenon
<1>7. Standing(heap', n, NULL) /\ Content(heap') = Content(heap)
  BY <1>2, <1>3, <1>6, RootStands
<1>8. n # NULL
  BY <1>3, MapAssumption
<1>9. Sound' /\ Counted'
  BY <1>1, <1>2, <1>7, <1>8, CountedIs DEF Sound
<1> QED BY <1>1, <1>2, <1>7, <1>9 DEF Inv, Typed

LEMMA PropagateUpwardsKeeps ==
  ASSUME Inv, PropagateUpwards
  PROVE  Inv' /\ Content(heap') = Content(heap)
<1> DEFINE p == heap[current].parent
           linked == InnerInsert(heap, p, current, upKey, kin)
           new == Allocate(linked)
<1>1. /\ pc = "propagate" /\ current # root
      /\ root' = root /\ size' = size /\ next' = next /\ erased' = erased
  BY DEF PropagateUpwards
<1>2. Pending(heap, root, current, kin, upKey) /\ Counted /\ Typed
  BY <1>1 DEF Inv, Sound, Typed
<1>3. root # NULL
  BY <1>2, KinIs
<1>4. CASE ~IsFull(linked[p])
  <2>1. heap' = linked /\ pc' = "idle" /\ current' = NULL /\ kin' = NULL /\ upKey' = 0
    BY <1>4 DEF PropagateUpwards, Return
  <2>2. Standing(heap', root, NULL) /\ Content(heap') = Content(heap)
    <3> HIDE DEF linked
    <3>1. heap' = InnerInsert(heap, p, current, upKey, kin) /\ ~IsFull(heap'[p])
      BY <1>4, <2>1 DEF linked
    <3> HIDE DEF p
    <3>2. p = heap[current].parent
      BY DEF p
    <3> QED BY <1>1, <1>2, <3>1, <3>2, PropagateStands
  <2>3. Sound' /\ Counted'
    BY <1>1, <1>2, <1>3, <2>1, <2>2, CountedIs DEF Sound
  <2> QED BY <1>1, <1>2, <2>1, <2>2, <2>3 DEF Inv, Typed
<1>5. CASE IsFull(linked[p])
  <2>1. /\ HasRoom /\ heap' = InnerSplit(linked, p, new)
        /\ current' = p /\ kin' = new /\ upKey' = linked[p].keys[KeysLeft(linked[p]) + 1] /\ pc' = pc
    BY <1>5 DEF PropagateUpwards
  <2>2. Alive(linked) = Alive(heap)
    <3>1. Linked(heap, linked, p, KidIndex(heap, p, current), current, kin, upKey)
      BY <1>1, <1>2, LinkStands
    <3> HIDE DEF linked, p
    <3> QED BY <3>1, InnerInsertAlive
  <2>3. new \in NodeIds /\ linked[new] = Freed
    <3> HIDE DEF linked
    <3>1. \E n \in NodeIds : linked[n] = Freed
      BY <2>1, <2>2 DEF HasRoom, Alive
    <3> QED BY <3>1, AllocateIs
  <2>4. Pending(heap', root, p, new, linked[p].keys[KeysLeft(linked[p]) + 1]) /\ Content(heap') = Content(heap)
    <3> HIDE DEF new
    <3>1. linked = InnerInsert(heap, p, current, upKey, kin) /\ p = heap[current].parent
      OBVIOUS
    <3> HIDE DEF linked, p
    <3> QED BY <1>1, <1>2, <1>5, <2>1, <2>3, <3>1, PropagateSplits
  <2> HIDE DEF new, linked, p
  <2>5. Sound'
    BY <1>1, <1>3, <2>1, <2>4 DEF Sound
  <2>6. Counted'
    BY <1>1, <1>2, <2>4, CountedIs
  <2>7. upKey' \in Keys
    BY <2>1, <2>4 DEF Pending
  <2> QED BY <1>1, <1>2, <2>1, <2>4, <2>5, <2>6, <2>7 DEF Inv, Typed
<1> QED BY <1>4, <1>5

LEMMA IteratorIs ==
  ASSUME NEW h \in Heaps, NEW n \in Alive(h), NEW i \in Nat
  PROVE  AfterErase(h, n, i) \in (NodeIds \cup {NULL}) \X Nat
<1>1. h[n] \in Node /\ n \in NodeIds
  BY AliveIs
<1>2. h[n].next \in NodeIds \cup {NULL}
  BY <1>1 DEF Node
<1>3. <<h[n].next, 1>> \in (NodeIds \cup {NULL}) \X Nat /\ <<n, i + 1>> \in (NodeIds \cup {NULL}) \X Nat
      /\ <<n, i>> \in (NodeIds \cup {NULL}) \X Nat /\ End \in (NodeIds \cup {NULL}) \X Nat
  BY <1>1, <1>2, EndIs
<1>4. Incremented(h, <<n, i>>) \in (NodeIds \cup {NULL}) \X Nat
  BY <1>3 DEF Incremented
<1> QED BY <1>3, <1>4 DEF AfterErase

LEMMA EraseKeeps ==
  ASSUME Inv, NEW k \in Keys, Erase(k)
  PROVE  Inv'
<1> DEFINE n == Locate(k)
           i == Position(heap[n].keys, k)
           h == OuterErase(heap, n, i)
<1>1. /\ pc = "idle" /\ root # NULL /\ Contained(k)
      /\ size' = size - 1 /\ erased' = k /\ next' = AfterErase(h, n, i)
      /\ kin' = kin /\ upKey' = upKey
  BY DEF Erase, call
<1>2. Standing(heap, root, NULL) /\ Counted /\ Typed /\ kin = NULL /\ current = NULL
  BY <1>1 DEF Inv, Sound, Typed
<1>3. FoundAt(n, k) /\ k \in Held(heap)
  BY <1>1, <1>2, LocateFinds, ContainedIs
<1>4. CASE n = root /\ h[n].keys = <<>>
  <2>1. heap' = [h EXCEPT ![n] = Freed] /\ root' = NULL /\ pc' = pc /\ current' = current
    BY <1>4 DEF Erase, call
  <2> HIDE DEF n
  <2>2. n \in Leaves(heap) /\ i \in 1..Len(heap[n].keys) /\ heap[n].keys[i] = k
    BY <1>3 DEF FoundAt
  <2> HIDE DEF i
  <2>3. h = OuterErase(heap, n, i)
    OBVIOUS
  <2> HIDE DEF h
  <2>4. /\ Held(h) = Held(heap) \ {heap[n].keys[i]} /\ n \in Alive(h)
        /\ heap' = [m \in NodeIds |-> Freed] /\ Held(h) = {}
        /\ h \in Heaps
    <3>1. Shortened(heap, h, root, n, i)
      BY <1>2, <2>2, <2>3, EraseStands
    <3> QED BY <1>4, <2>1, <3>1 DEF Shortened
  <2>6. next' \in (NodeIds \cup {NULL}) \X Nat
    BY <1>1, <2>2, <2>4, IteratorIs
  <2>7. Sound'
    BY <1>1, <2>1, <2>4 DEF Sound
  <2>8. Counted'
    <3>1. Held(heap') = Held(heap) \ {k}
      BY <2>2, <2>4, NothingHeld
    <3> QED BY <1>1, <1>2, <1>3, <3>1, CountedIs
  <2> QED BY <1>1, <1>2, <2>1, <2>6, <2>7, <2>8 DEF Inv, Typed
<1>5. CASE ~(n = root /\ h[n].keys = <<>>)
  <2>1. heap' = h /\ root' = root /\ pc' = "rebalance" /\ current' = n
    BY <1>5 DEF Erase
  <2> HIDE DEF n
  <2>2. n \in Leaves(heap) /\ i \in 1..Len(heap[n].keys) /\ heap[n].keys[i] = k
    BY <1>3 DEF FoundAt
  <2> HIDE DEF i
  <2>3. h = OuterErase(heap, n, i)
    OBVIOUS
  <2> HIDE DEF h
  <2>4. /\ Held(h) = Held(heap) \ {heap[n].keys[i]} /\ n \in Alive(h)
        /\ Standing(h, root, n)
        /\ h \in Heaps
    <3>1. Shortened(heap, h, root, n, i)
      BY <1>2, <2>2, <2>3, EraseStands
    <3> QED BY <1>5, <3>1 DEF Shortened
  <2>6. next' \in (NodeIds \cup {NULL}) \X Nat
    BY <1>1, <2>2, <2>4, IteratorIs
  <2>7. Sound'
    BY <1>1, <2>1, <2>4 DEF Sound
  <2>8. Counted'
    <3>1. Held(heap') = Held(heap) \ {k}
      BY <2>1, <2>2, <2>4
    <3> QED BY <1>1, <1>2, <1>3, <3>1, CountedIs
  <2> QED BY <1>1, <1>2, <2>1, <2>6, <2>7, <2>8 DEF Inv, Typed
<1> QED BY <1>4, <1>5

(***************************************************************************)
(* ... and the rounds of that loop.                                        *)
(***************************************************************************)

LEMMA EnoughKeysKeeps ==
  ASSUME Inv, EnoughKeys
  PROVE  Inv' /\ Content(heap') = Content(heap)
<1>1. /\ pc = "rebalance" /\ current # root /\ ~IsSparse(heap[current])
      /\ heap' = heap /\ root' = root /\ size' = size /\ next' = next /\ erased' = erased
      /\ pc' = "idle" /\ current' = NULL /\ kin' = NULL /\ upKey' = 0
  BY DEF EnoughKeys, Rebalancing, Return, tree
<1>2. Standing(heap, root, current) /\ current \in Alive(heap) /\ Counted /\ Typed /\ root # NULL
  BY <1>1 DEF Inv, Sound, Typed
<1>3. Standing(heap', root, NULL) /\ Content(heap') = Content(heap)
  BY <1>1, <1>2, EnoughStands
<1>4. Sound' /\ Counted'
  BY <1>1, <1>2, <1>3, CountedIs DEF Sound
<1> QED BY <1>1, <1>2, <1>3, <1>4 DEF Inv, Typed

LEMMA RedistributeLeftKeeps ==
  ASSUME Inv, RedistributeLeft
  PROVE  Inv' /\ Content(heap') = Content(heap)
<1> DEFINE left == LeftNode(current)
<1>1. /\ pc = "rebalance" /\ current # root /\ left # NULL /\ MayRedistribute(heap, left, current)
      /\ heap' = Redistribute(heap, left, current)
      /\ next' = IF heap[current].outer /\ next[1] = current THEN <<current, next[2] + 1>> ELSE next
      /\ root' = root /\ size' = size /\ erased' = erased
      /\ pc' = "idle" /\ current' = NULL /\ kin' = NULL /\ upKey' = 0
  BY DEF RedistributeLeft, Rebalancing, Return, FromLeft
<1>2. Standing(heap, root, current) /\ current \in Alive(heap) /\ Counted /\ Typed /\ root # NULL
  BY <1>1 DEF Inv, Sound, Typed
<1>3. PICK i : Siblings(heap, heap[current].parent, i, left, current)
  BY <1>1, <1>2, NeighboursAre
<1> HIDE DEF left
<1>4. Standing(heap', root, NULL) /\ Content(heap') = Content(heap) /\ Alive(heap') = Alive(heap)
  BY <1>1, <1>2, <1>3, MoveStands
<1>5. Sound' /\ Counted'
  BY <1>1, <1>2, <1>4, CountedIs DEF Sound
<1>6. next' \in (NodeIds \cup {NULL}) \X Nat
  BY <1>1, <1>2 DEF Typed, Alive
<1> QED BY <1>1, <1>2, <1>4, <1>5, <1>6 DEF Inv, Typed

LEMMA RedistributeRightKeeps ==
  ASSUME Inv, RedistributeRight
  PROVE  Inv' /\ Content(heap') = Content(heap)
<1> DEFINE right == RightNode(current)
<1>1. /\ pc = "rebalance" /\ current # root /\ right # NULL /\ MayRedistribute(heap, current, right)
      /\ heap' = Redistribute(heap, current, right)
      /\ next' = IF heap[current].outer /\ next[1] = right THEN <<current, Len(heap'[current].keys)>> ELSE next
      /\ root' = root /\ size' = size /\ erased' = erased
      /\ pc' = "idle" /\ current' = NULL /\ kin' = NULL /\ upKey' = 0
  BY DEF RedistributeRight, Rebalancing, Return, FromRight
<1>2. Standing(heap, root, current) /\ current \in Alive(heap) /\ Counted /\ Typed /\ root # NULL
  BY <1>1 DEF Inv, Sound, Typed
<1>3. PICK i : Siblings(heap, heap[current].parent, i, current, right)
  BY <1>1, <1>2, NeighboursAre
<1> HIDE DEF right
<1>4. Standing(heap', root, NULL) /\ Content(heap') = Content(heap) /\ Alive(heap') = Alive(heap)
  BY <1>1, <1>2, <1>3, MoveStands
<1>5. Sound' /\ Counted'
  BY <1>1, <1>2, <1>4, CountedIs DEF Sound
<1>6. next' \in (NodeIds \cup {NULL}) \X Nat
  <2>1. CASE ~heap[current].outer
    BY <1>1, <1>2, <2>1 DEF Typed
  <2>2. CASE heap[current].outer
    <3>1. heap' \in Heaps /\ current \in Alive(heap') /\ current \in NodeIds
      BY <1>2, <1>4, RootIsAlive DEF Alive
    <3>2. Len(heap'[current].keys) \in Nat
      BY <3>1, AliveIs, Lengths
    <3> QED BY <1>1, <1>2, <3>1, <3>2 DEF Typed
  <2> QED BY <2>1, <2>2
<1> QED BY <1>1, <1>2, <1>4, <1>5, <1>6 DEF Inv, Typed

LEMMA CoalesceLeftKeeps ==
  ASSUME Inv, CoalesceLeft
  PROVE  Inv' /\ Content(heap') = Content(heap)
<1> DEFINE left == LeftNode(current)
<1>1. /\ pc = "rebalance" /\ current # root /\ left # NULL /\ ~MayRedistribute(heap, left, current)
      /\ IsSparse(heap[current]) /\ MayCoalesce(heap, left, current)
      /\ heap' = Merge(heap, left, current)
      /\ next' = IF heap[current].outer /\ next[1] = current
                 THEN <<left, next[2] + Len(heap[left].keys)>> ELSE next
      /\ root' = root /\ size' = size /\ erased' = erased
      /\ pc' = pc /\ current' = heap[left].parent /\ kin' = kin /\ upKey' = upKey
  BY DEF CoalesceLeft, Rebalancing, IntoLeft, FromLeft
<1>2. Standing(heap, root, current) /\ current \in Alive(heap) /\ Counted /\ Typed /\ root # NULL
      /\ kin = NULL
  BY <1>1 DEF Inv, Sound, Typed
<1>3. PICK i : Siblings(heap, heap[current].parent, i, left, current)
  BY <1>1, <1>2, NeighboursAre
<1> HIDE DEF left
<1>4. /\ Standing(heap', root, heap[current].parent) /\ Content(heap') = Content(heap)
      /\ heap[current].parent \in Alive(heap')
  BY <1>1, <1>2, <1>3, MergeStands
<1>5. heap[left].parent = heap[current].parent /\ left \in Alive(heap)
  BY <1>3 DEF Siblings
<1>6. Sound' /\ Counted'
  BY <1>1, <1>2, <1>4, <1>5, CountedIs DEF Sound
<1>7. next' \in (NodeIds \cup {NULL}) \X Nat
  <2>1. left \in NodeIds /\ Len(heap[left].keys) \in Nat
    BY <1>2, <1>5, RootIsAlive, AliveIs, Lengths
  <2> QED BY <1>1, <1>2, <2>1 DEF Typed
<1> QED BY <1>1, <1>2, <1>4, <1>6, <1>7 DEF Inv, Typed

LEMMA CoalesceRightKeeps ==
  ASSUME Inv, CoalesceRight
  PROVE  Inv' /\ Content(heap') = Content(heap)
<1> DEFINE right == RightNode(current)
<1>1. /\ pc = "rebalance" /\ current # root /\ right # NULL /\ ~MayRedistribute(heap, current, right)
      /\ IsSparse(heap[current]) /\ MayCoalesce(heap, current, right)
      /\ heap' = Merge(heap, current, right)
      /\ next' = IF heap[current].outer /\ next[1] = right
                 THEN <<current, Len(heap[current].keys) + 1>> ELSE next
      /\ root' = root /\ size' = size /\ erased' = erased
      /\ pc' = pc /\ current' = heap[current].parent /\ kin' = kin /\ upKey' = upKey
  BY DEF CoalesceRight, Rebalancing, FromRightAll, FromRight
<1>2. Standing(heap, root, current) /\ current \in Alive(heap) /\ Counted /\ Typed /\ root # NULL
      /\ kin = NULL
  BY <1>1 DEF Inv, Sound, Typed
<1>3. PICK i : Siblings(heap, heap[current].parent, i, current, right)
  BY <1>1, <1>2, NeighboursAre
<1> HIDE DEF right
<1>4. /\ Standing(heap', root, heap[current].parent) /\ Content(heap') = Content(heap)
      /\ heap[current].parent \in Alive(heap')
  BY <1>1, <1>2, <1>3, MergeStands
<1>5. Sound' /\ Counted'
  BY <1>1, <1>2, <1>4, CountedIs DEF Sound
<1>6. next' \in (NodeIds \cup {NULL}) \X Nat
  <2>1. current \in NodeIds /\ Len(heap[current].keys) \in Nat
    BY <1>2, RootIsAlive, AliveIs, Lengths
  <2> QED BY <1>1, <1>2, <2>1 DEF Typed
<1> QED BY <1>1, <1>2, <1>4, <1>5, <1>6 DEF Inv, Typed

LEMMA EndAtRootKeeps ==
  ASSUME Inv, EndAtRoot
  PROVE  Inv' /\ Content(heap') = Content(heap)
<1>1. /\ pc = "rebalance" /\ current = root
      /\ size' = size /\ next' = next /\ erased' = erased
      /\ pc' = "idle" /\ current' = NULL /\ kin' = NULL /\ upKey' = 0
  BY DEF EndAtRoot, Return
<1>2. Standing(heap, root, root) /\ root \in Alive(heap) /\ Counted /\ Typed /\ root # NULL
  BY <1>1 DEF Inv, Sound, Typed
<1>3. Ends(heap, root)
  BY <1>2, EndStands
<1>4. Standing(heap', root', NULL) /\ Content(heap') = Content(heap) /\ root' # NULL
  <2>1. CASE ~heap[root].outer /\ heap[root].keys = <<>>
    <3>1. root' = heap[root].kids[1] /\ heap' = [heap EXCEPT ![root] = Freed, ![root'].parent = NULL]
      BY <2>1 DEF EndAtRoot
    <3>2. root' \in NodeIds /\ Standing(heap', root', NULL) /\ Content(heap') = Content(heap)
      BY <1>3, <2>1, <3>1 DEF Ends
    <3> QED BY <3>2, MapAssumption
  <2>2. CASE ~(~heap[root].outer /\ heap[root].keys = <<>>)
    <3>1. heap' = heap /\ root' = root
      BY <2>2 DEF EndAtRoot
    <3> QED BY <1>2, <1>3, <2>2, <3>1 DEF Ends
  <2> QED BY <2>1, <2>2
<1>5. Sound' /\ Counted'
  BY <1>1, <1>2, <1>4, CountedIs DEF Sound
<1> QED BY <1>1, <1>2, <1>4, <1>5 DEF Inv, Typed

(* The invariant holds of an empty map.                                    *)
LEMMA InitHolds == Init => Inv
<1> SUFFICES ASSUME Init PROVE Inv
  OBVIOUS
<1>1. heap = [n \in NodeIds |-> Freed] /\ root = NULL /\ size = 0 /\ pc = "idle" /\ current = NULL
      /\ kin = NULL /\ upKey = 0 /\ next = End /\ erased = 0
  BY DEF Init
<1>2. Counted
  BY <1>1, NothingHeld, FS_EmptySet DEF Counted
<1> QED BY <1>1, <1>2, EndIs DEF Inv, Sound

(* Every action keeps the invariant.                                       *)
LEMMA InvHolds == Spec => []Inv
<1>1. Inv /\ [Next]_vars => Inv'
  <2> SUFFICES ASSUME Inv, [Next]_vars PROVE Inv'
    OBVIOUS
  <2>1. ASSUME NEW k \in Keys, InsertFirst(k) PROVE Inv'
    BY <2>1, InsertFirstKeeps
  <2>2. ASSUME NEW k \in Keys, Insert(k) PROVE Inv'
    BY <2>2, InsertKeeps
  <2>3. ASSUME NEW k \in Keys, Erase(k) PROVE Inv'
    BY <2>3, EraseKeeps
  <2>4. ASSUME NEW k \in Updatable, Update(k) PROVE Inv'
    BY <2>4, UpdateKeeps, MapAssumption
  <2>5. CASE UNCHANGED vars
    BY <2>5 DEF Inv, Sound, Counted, vars, tree, call
  <2> QED BY <2>1, <2>2, <2>3, <2>4, <2>5, ClearKeeps, PropagateToRootKeeps, PropagateUpwardsKeeps,
             EnoughKeysKeeps, RedistributeLeftKeeps, RedistributeRightKeeps, CoalesceLeftKeeps,
             CoalesceRightKeeps, EndAtRootKeeps DEF Next
<1> QED BY <1>1, InitHolds, PTL DEF Spec

(* The variables of the map (include/map.h) keep their types through every *)
(* call, and current and kin are addresses of nodes whenever they are      *)
(* followed.                                                               *)
THEOREM TypeIsKept == Spec => []TypeOK
<1>1. Inv => TypeOK
  <2> SUFFICES ASSUME Inv PROVE TypeOK
    OBVIOUS
  <2>1. Sound /\ Counted
    BY DEF Inv
  <2>2. size \in Nat
    BY <2>1, FS_CardinalityType DEF Counted
  <2>3. CASE root = NULL
    BY <2>1, <2>2, <2>3 DEF Inv, Sound, TypeOK
  <2>4. CASE root # NULL
    <3>1. /\ heap \in [NodeIds -> Node \cup {Freed}] /\ root \in NodeIds
          /\ pc \in {"idle", "propagate", "rebalance"}
          /\ current \in NodeIds \cup {NULL} /\ kin \in NodeIds \cup {NULL}
      <4>1. CASE pc = "idle" /\ Standing(heap, root, NULL)
        BY <4>1, RootIsAlive DEF Inv, Heaps
      <4>2. CASE pc = "propagate" /\ Pending(heap, root, current, kin, upKey)
        BY <4>2, KinIs DEF Heaps, Alive
      <4>3. CASE pc = "rebalance" /\ current \in Alive(heap) /\ Standing(heap, root, current)
        BY <4>3, RootIsAlive DEF Inv, Heaps, Alive
      <4> QED BY <2>1, <2>4, <4>1, <4>2, <4>3 DEF Sound
    <3> QED BY <2>2, <3>1 DEF Inv, TypeOK
  <2> QED BY <2>3, <2>4
<1> QED BY <1>1, InvHolds, PTL

(***************************************************************************)
(* The tree is in order.                                                   *)
(***************************************************************************)

(* The depth of a node is what the root is higher than it.                 *)
LEMMA DepthIs ==
  ASSUME NEW t, NEW lo, NEW hi, Tree(heap, root, NULL, NULL, t, lo, hi)
  PROVE  \A n \in Live : Depth[n] = t[root] - t[n]
<1> DEFINE F == CHOOSE f : f = [n \in Live |-> IF n = root THEN 0 ELSE 1 + f[heap[n].parent]]
           G == [n \in Live |-> t[root] - t[n]]
<1>1. Live = Alive(heap)
  BY DEF Live, Alive
<1>2. /\ t \in [NodeIds -> Nat] /\ root \in Live
      /\ \A n \in Live : t[n] <= t[root] /\ t[n] \in Nat /\ t[root] \in Nat
  BY <1>1 DEF Tree, Shape, Placed, Alive
<1>3. ASSUME NEW n \in Live, n # root PROVE heap[n].parent \in Live /\ t[n] + 1 = t[heap[n].parent]
  <2>1. n \notin {root, NULL}
    BY <1>1, <1>3, MapAssumption DEF Alive
  <2> QED BY <1>1, <2>1, KidHasPlace
<1>4. G = [n \in Live |-> IF n = root THEN 0 ELSE 1 + G[heap[n].parent]]
  <2>1. \A n \in Live : G[n] = t[root] - t[n]
    OBVIOUS
  <2>2. G = [n \in Live |-> G[n]]
    OBVIOUS
  <2>3. ASSUME NEW n \in Live PROVE G[n] = IF n = root THEN 0 ELSE 1 + G[heap[n].parent]
    <3>1. CASE n = root
      BY <1>2, <2>1, <3>1
    <3>2. CASE n # root
      <4>1. heap[n].parent \in Live /\ t[n] + 1 = t[heap[n].parent] /\ t[heap[n].parent] \in Nat
        BY <1>2, <1>3, <3>2
      <4> HIDE DEF G
      <4> QED BY <1>2, <2>1, <3>2, <4>1
    <3> QED BY <3>1, <3>2
  <2> HIDE DEF G
  <2> QED BY <2>2, <2>3
<1>5. F = [n \in Live |-> IF n = root THEN 0 ELSE 1 + F[heap[n].parent]]
  <2> HIDE DEF G
  <2> QED BY <1>4
<1>6. Depth = F
  BY DEF Depth
<1> HIDE DEF F, G
<1> DEFINE Z == {d \in Nat : \A n \in Live : t[root] - t[n] <= d => F[n] = t[root] - t[n]}
<1>7. 0 \in Z
  <2>1. ASSUME NEW n \in Live, t[root] - t[n] <= 0 PROVE F[n] = t[root] - t[n]
    <3>1. n = root
      <4>1. SUFFICES ASSUME n # root PROVE FALSE
        OBVIOUS
      <4>2. heap[n].parent \in Live /\ t[n] + 1 = t[heap[n].parent]
        BY <1>3, <4>1
      <4>3. t[heap[n].parent] <= t[root] /\ t[n] \in Nat /\ t[root] \in Nat
        BY <1>2, <4>2
      <4> QED BY <2>1, <4>2, <4>3
    <3>2. F[n] = 0
      BY <1>5, <3>1
    <3> QED BY <1>2, <3>1, <3>2
  <2> QED BY <2>1
<1>8. ASSUME NEW d \in Nat, d \in Z PROVE d + 1 \in Z
  <2>1. ASSUME NEW n \in Live, t[root] - t[n] <= d + 1 PROVE F[n] = t[root] - t[n]
    <3>1. CASE n = root
      <4>1. F[n] = 0
        BY <1>5, <3>1
      <4> QED BY <1>2, <3>1, <4>1
    <3>2. CASE n # root
      <4> DEFINE p == heap[n].parent
      <4>1. p \in Live /\ t[n] + 1 = t[p] /\ t[p] \in Nat /\ t[n] \in Nat /\ t[root] \in Nat
        BY <1>2, <1>3, <3>2
      <4>2. F[n] = 1 + F[p]
        BY <1>5, <3>2
      <4> HIDE DEF p
      <4>3. t[root] - t[p] <= d
        BY <2>1, <4>1
      <4>4. F[p] = t[root] - t[p]
        BY <1>8, <4>1, <4>3
      <4> QED BY <4>1, <4>2, <4>4
    <3> QED BY <3>1, <3>2
  <2> QED BY <2>1
<1>9. \A d \in Nat : d \in Z
  <2> HIDE DEF Z
  <2> QED BY <1>7, <1>8, ClimbTo
<1>10. ASSUME NEW n \in Live PROVE F[n] = t[root] - t[n]
  <2>1. t[root] \in Nat /\ t[root] - t[n] <= t[root]
    BY <1>2
  <2> QED BY <1>9, <2>1
<1> QED BY <1>6, <1>10

(* When a call returns, kids know their parents, all leaves are equally    *)
(* deep, no node is fuller than its fanout, no leaf sparser than half of   *)
(* it, no inner node empty, and no node is left behind, whichever keys     *)
(* came and went (Insert, Erase, PropagateUpwards and Clear of             *)
(* include/map.h).                                                         *)
THEOREM Balanced == Spec => []TreeIsBalanced
<1>1. Inv => TreeIsBalanced
  <2> SUFFICES ASSUME Inv, pc = "idle" PROVE TreeIsBalanced
    BY DEF TreeIsBalanced
  <2>1. CASE root = NULL
    <3>1. heap = [n \in NodeIds |-> Freed]
      BY <2>1 DEF Inv, Sound
    <3>2. Live = {} /\ Reachable = {}
      BY <2>1, <3>1 DEF Live, Reachable
    <3>3. {Depth[n] : n \in {m \in Reachable : heap[m].outer}} = {}
      BY <3>2
    <3>4. Cardinality({}) <= 1
      BY FS_EmptySet
    <3> QED BY <3>2, <3>3, <3>4 DEF TreeIsBalanced
  <2>2. CASE root # NULL
    <3>1. Standing(heap, root, NULL)
      BY <2>2 DEF Inv, Sound
    <3>2. Reachable = Live /\ Live = Alive(heap)
      BY <3>1, ReachableIs
    <3>3. PICK t, lo, hi : Tree(heap, root, NULL, NULL, t, lo, hi)
      BY <3>1 DEF Standing
    <3>4. heap \in Heaps
      BY <3>1, RootIsAlive
    <3>5. ASSUME NEW n \in Reachable
          PROVE  /\ ~IsFull(heap[n])
                 /\ heap[n].outer => n = root \/ ~IsSparse(heap[n])
                 /\ ~heap[n].outer =>
                      /\ heap[n].keys # <<>>
                      /\ Len(heap[n].kids) = Len(heap[n].keys) + 1
                      /\ \A m \in ToSet(heap[n].kids) : heap[m].parent = n
      <4>1. n \in Alive(heap) /\ n # NULL
        BY <3>2, MapAssumption DEF Alive
      <4>2. NodeFilled(heap[n], n = root, n = NULL)
        BY <3>1, <4>1, FilledIs DEF Standing
      <4>3. (n = NULL) = FALSE
        BY <4>1
      <4>4. NodeFilled(heap[n], n = root, FALSE)
        BY <4>2, <4>3
      <4>5. ASSUME ~heap[n].outer
            PROVE  /\ Len(heap[n].kids) = Len(heap[n].keys) + 1
                   /\ \A m \in ToSet(heap[n].kids) : heap[m].parent = n
        <5>1. n \in Inners(heap)
          BY <4>1, <4>5 DEF Inners
        <5>2. KnowsKids(heap, root, NULL, t, n)
          BY <3>3, <5>1, KidsKnown
        <5>3. heap[n].kids \in Seq(NodeIds)
          BY <5>2 DEF KnowsKids
        <5>4. ToSet(heap[n].kids) = Elements(heap[n].kids)
          BY <5>3, ToSetIs
        <5>5. \A m \in Elements(heap[n].kids) : IsKid(heap, m, n)
          BY DEF Elements, IsKid
        <5> QED BY <5>2, <5>4, <5>5 DEF KnowsKids
      <4> QED BY <4>4, <4>5 DEF NodeFilled
    <3>6. Cardinality({Depth[n] : n \in {m \in Reachable : heap[m].outer}}) <= 1
      <4> DEFINE D == {Depth[n] : n \in {m \in Reachable : heap[m].outer}}
      <4>1. \A m \in Live : heap[m].outer => t[m] = 0 /\ t[root] \in Nat
        BY <3>2, <3>3 DEF Tree, Shape, Placed, Alive
      <4>2. \A m \in Live : Depth[m] = t[root] - t[m]
        BY <3>3, DepthIs
      <4>3. \A d \in D : d = t[root]
        <5>1. TAKE d \in D
        <5>2. PICK m \in Live : heap[m].outer /\ d = Depth[m]
          BY <3>2
        <5> QED BY <4>1, <4>2, <5>2
      <4> HIDE DEF D
      <4>4. D = {} \/ D = {t[root]}
        BY <4>3
      <4>5. Cardinality(D) = 0 \/ Cardinality(D) = 1
        BY <4>4, FS_EmptySet, FS_Singleton
      <4>6. Cardinality(D) <= 1
        BY <4>5
      <4> QED BY <4>6 DEF D
    <3> QED BY <3>2, <3>5, <3>6 DEF TreeIsBalanced
  <2> QED BY <2>1, <2>2
<1> QED BY <1>1, InvHolds, PTL

(***************************************************************************)
(* No call gets stuck.                                                     *)
(***************************************************************************)

(* A sparse node and a sibling too short to give a key fit into one node.  *)
LEMMA SparseFits ==
  ASSUME NEW x \in Node, NEW y \in Node, x.outer = y.outer, IsSparse(x), Len(y.keys) < Len(x.keys) + 2
  PROVE  /\ Len(x.keys) + Len(y.keys) <= Fanout(x) /\ Len(y.keys) + Len(x.keys) <= Fanout(x)
         /\ Fanout(x) = Fanout(y)
<1> DEFINE m == Len(x.keys)
           n == Len(y.keys)
           f == Fanout(x)
           half == f \div 2
<1>1. m \in Nat /\ f \in Nat /\ half \in Nat /\ 2 * half <= f
  BY Lengths
<1>2. n \in Nat
  BY Lengths
<1>3. m < half
  BY DEF IsSparse
<1>4. n < m + 2
  OBVIOUS
<1>5. f = Fanout(y)
  BY DEF Fanout
<1> HIDE DEF m, n, f, half
<1>6. m + n <= f /\ n + m <= f
  BY <1>1, <1>2, <1>3, <1>4
<1> QED BY <1>5, <1>6 DEF m, n, f

(* A sparse node takes a key from a sibling or is merged with it.          *)
LEMMA SiblingHelps ==
  ASSUME NEW h, NEW r, NEW c, Standing(h, r, c), NEW p, NEW i, NEW a, NEW b, Siblings(h, p, i, a, b),
         c \in {a, b}, IsSparse(h[c])
  PROVE  MayRedistribute(h, a, b) \/ MayCoalesce(h, a, b)
<1>1. PICK t, lo, hi : Tree(h, r, NULL, NULL, t, lo, hi)
  BY DEF Standing
<1>2. a \in Alive(h) /\ b \in Alive(h) /\ h[a] \in Node /\ h[b] \in Node
  <2>1. LookedAt(h, r, c, p, a, b)
    BY SiblingsFilled
  <2> QED BY <2>1 DEF LookedAt
<1>3. h[a].outer = h[b].outer
  <2>1. t[a] = t[b]
    <3>1. Parting(h, r, p, i, a, b, t, lo, hi)
      BY <1>1, PartingIs
    <3> QED BY <3>1 DEF Parting
  <2>2. h[a].outer \in BOOLEAN /\ h[b].outer \in BOOLEAN
    BY <1>2 DEF Node
  <2>3. (h[a].outer <=> t[a] = 0) /\ (h[b].outer <=> t[b] = 0)
    BY <1>1, <1>2 DEF Tree, Shape, Placed
  <2> QED BY <2>1, <2>2, <2>3
<1>4. Len(h[a].keys) \in Nat /\ Len(h[b].keys) \in Nat
  BY <1>2, Lengths
<1>5. ASSUME ~MayRedistribute(h, a, b)
      PROVE  Len(h[a].keys) < Len(h[b].keys) + 2 /\ Len(h[b].keys) < Len(h[a].keys) + 2
  BY <1>4, <1>5 DEF MayRedistribute
<1>6. ASSUME ~MayRedistribute(h, a, b) PROVE Len(h[a].keys) + Len(h[b].keys) <= Fanout(h[a])
  <2>1. CASE c = a
    BY <1>2, <1>3, <1>5, <1>6, <2>1, SparseFits
  <2>2. CASE c = b
    <3>1. Len(h[a].keys) + Len(h[b].keys) <= Fanout(h[b]) /\ Fanout(h[b]) = Fanout(h[a])
      BY <1>2, <1>3, <1>5, <1>6, <2>2, SparseFits
    <3> QED BY <3>1, Zenon
  <2> QED BY <2>1, <2>2
<1> QED BY <1>6 DEF MayCoalesce

(* A node has a neighbour: its parent has a key, or Filled forbids it.     *)
LEMMA NotAlone ==
  ASSUME NEW l, Standing(heap, root, l), NEW n \in Alive(heap), n # root, heap[n].parent # l
  PROVE  LeftNode(n) # NULL \/ RightNode(n) # NULL
<1> DEFINE p == heap[n].parent
           kids == heap[p].kids
           i == Position(kids, n)
<1>1. PICK t, lo, hi : Tree(heap, root, NULL, NULL, t, lo, hi)
  BY DEF Standing
<1>2. n \notin {root, NULL}
  BY MapAssumption DEF Alive
<1>3. /\ p \in Inners(heap) /\ i \in 1..Len(kids)
      /\ Len(kids) = Len(heap[p].keys) + 1 /\ heap[p] \in Node
  BY <1>1, <1>2, KidHasPlace DEF KidIndex
<1>4. Len(heap[p].keys) >= 1 /\ Len(heap[p].keys) \in Nat
  <2>1. heap[p].keys # <<>>
    BY <1>3 DEF Standing, Filled
  <2> QED BY <1>3, <2>1, Lengths
<1>5. ASSUME NEW j \in 1..Len(kids) PROVE kids[j] # NULL
  <2>1. kids[j] \in Alive(heap)
    BY <1>1, <1>3 DEF Tree, Shape, Family
  <2> QED BY <2>1, MapAssumption DEF Alive
<1>6. LeftNode(n) = IF i <= 1 THEN NULL ELSE kids[i - 1]
  BY DEF LeftNode
<1>7. RightNode(n) = IF i = 0 \/ i = Len(kids) THEN NULL ELSE kids[i + 1]
  BY DEF RightNode
<1> HIDE DEF i, kids
<1>8. CASE i = 1
  <2>1. i # 0 /\ i # Len(kids) /\ i + 1 \in 1..Len(kids)
    BY <1>3, <1>4, <1>8
  <2> QED BY <1>5, <1>7, <2>1
<1>9. CASE i # 1
  <2>1. ~(i <= 1) /\ i - 1 \in 1..Len(kids)
    BY <1>3, <1>4, <1>9
  <2> QED BY <1>5, <1>6, <2>1
<1> QED BY <1>8, <1>9

(* Whatever calls came before, PropagateUpwards finds the node it comes    *)
(* from in its parent, and the loop of Erase always has a sibling to take  *)
(* a key from or to merge with: no call throws half way or goes round for  *)
(* ever (InnerNode::Insert and Erase of include/map.h).                    *)
THEOREM CallsProceed == Spec => []CallsGoOn
<1>1. Inv => CallsGoOn
  <2> SUFFICES ASSUME Inv PROVE CallsGoOn
    OBVIOUS
  <2>1. ASSUME pc = "propagate", current # root
        PROVE  KidIndex(heap, heap[current].parent, current) # 0
    <3>1. Pending(heap, root, current, kin, upKey)
      BY <2>1 DEF Inv, Sound
    <3>2. PICK t, lo, hi : Tree(heap, root, kin, current, t, lo, hi)
      BY <3>1 DEF Pending
    <3>3. current \in Alive(heap) /\ current \notin {root, kin}
      BY <2>1, <3>1, KinIs
    <3>4. /\ KidIndex(heap, heap[current].parent, current) \in 1..Len(heap[heap[current].parent].kids)
          /\ Len(heap[heap[current].parent].kids) = Len(heap[heap[current].parent].keys) + 1
          /\ heap[heap[current].parent] \in Node
      BY <3>2, <3>3, KidHasPlace
    <3> QED BY <3>4
  <2>2. ASSUME Rebalancing, IsSparse(heap[current])
        PROVE  FromLeft \/ FromRight \/ IntoLeft \/ FromRightAll
    <3>1. Standing(heap, root, current) /\ current \in Alive(heap) /\ current # root
      BY <2>2 DEF Inv, Sound, Rebalancing
    <3>2. heap[current].parent # current
      <4>1. PICK t, lo, hi : Tree(heap, root, NULL, NULL, t, lo, hi)
        BY <3>1 DEF Standing
      <4>2. current \notin {root, NULL}
        BY <3>1, MapAssumption DEF Alive
      <4> QED BY <3>1, <4>1, <4>2, KidHasPlace
    <3>3. LeftNode(current) # NULL \/ RightNode(current) # NULL
      BY <3>1, <3>2, NotAlone
    <3>4. CASE LeftNode(current) # NULL
      <4>1. PICK i : Siblings(heap, heap[current].parent, i, LeftNode(current), current)
        BY <3>1, <3>4, NeighboursAre
      <4>2. \/ MayRedistribute(heap, LeftNode(current), current)
            \/ MayCoalesce(heap, LeftNode(current), current)
        BY <2>2, <3>1, <4>1, SiblingHelps
      <4> QED BY <3>4, <4>2 DEF FromLeft, IntoLeft
    <3>5. CASE RightNode(current) # NULL
      <4>1. PICK i : Siblings(heap, heap[current].parent, i, current, RightNode(current))
        BY <3>1, <3>5, NeighboursAre
      <4>2. \/ MayRedistribute(heap, current, RightNode(current))
            \/ MayCoalesce(heap, current, RightNode(current))
        BY <2>2, <3>1, <4>1, SiblingHelps
      <4> QED BY <3>5, <4>2 DEF FromRight, FromRightAll
    <3> QED BY <3>3, <3>4, <3>5
  <2> QED BY <2>1, <2>2 DEF CallsGoOn
<1> QED BY <1>1, InvHolds, PTL

(***************************************************************************)
(* What is written along the chain: f[n] is what n and those that follow   *)
(* it hold, one after the other.                                           *)
(***************************************************************************)
Strung(S, nx, X, f) ==
  f = [n \in S \cup {NULL} |-> IF n = NULL THEN <<>> ELSE X[n] \o f[nx[n]]]

(* The members of S stand in line: nx leads from one to the next above it. *)
InLine(S, nx, lo, hi, top) ==
  /\ NULL \notin S /\ top \in Nat
  /\ \A n \in S : lo[n] \in Nat /\ hi[n] \in Nat /\ lo[n] <= top /\ Under(lo[n], hi[n])
  /\ \A n \in S : nx[n] = NULL <=> hi[n] = 0
  /\ \A n \in S : nx[n] # NULL => nx[n] \in S /\ lo[nx[n]] = hi[n]
  /\ \A m, n \in S : m # n => Apart(lo, hi, m, n)

(* How far n is from the end of the line. *)
Ahead(lo, top, n) == IF n = NULL THEN 0 ELSE (top - lo[n]) + 1

LEMMA AheadFalls ==
  ASSUME NEW S, NEW nx, NEW lo, NEW hi, NEW top, InLine(S, nx, lo, hi, top), NEW n \in S
  PROVE  /\ Ahead(lo, top, n) \in Nat /\ Ahead(lo, top, n) <= top + 1 /\ Ahead(lo, top, n) >= 1
         /\ nx[n] \in S \cup {NULL} /\ Ahead(lo, top, nx[n]) \in Nat
         /\ Ahead(lo, top, nx[n]) < Ahead(lo, top, n)
<1>1. n # NULL /\ lo[n] \in Nat /\ lo[n] <= top /\ top \in Nat /\ Under(lo[n], hi[n]) /\ hi[n] \in Nat
  BY DEF InLine
<1>2. Ahead(lo, top, n) = (top - lo[n]) + 1
  BY <1>1 DEF Ahead
<1>3. CASE nx[n] = NULL
  <2>1. Ahead(lo, top, nx[n]) = 0
    BY <1>3 DEF Ahead
  <2> QED BY <1>1, <1>2, <1>3, <2>1
<1>4. CASE nx[n] # NULL
  <2>1. nx[n] \in S /\ lo[nx[n]] = hi[n] /\ hi[n] # 0
    BY <1>4 DEF InLine
  <2>2. lo[nx[n]] \in Nat /\ lo[nx[n]] <= top
    BY <2>1 DEF InLine
  <2>3. Ahead(lo, top, nx[n]) = (top - lo[nx[n]]) + 1
    BY <1>4 DEF Ahead
  <2>4. lo[n] < lo[nx[n]]
    BY <1>1, <2>1 DEF Under
  <2> QED BY <1>1, <1>2, <2>1, <2>2, <2>3, <2>4
<1> QED BY <1>3, <1>4

(* The recursions along the chain have a solution.                         *)
LEMMA StrungSome ==
  ASSUME NEW S, NEW nx, NEW lo, NEW hi, NEW top, InLine(S, nx, lo, hi, top), NEW X
  PROVE  \E f : Strung(S, nx, X, f)
<1> DEFINE a(n) == Ahead(lo, top, n)
           B == S \cup {NULL}
           Good(f, m) == \A n \in B : a(n) <= m => f[n] = IF n = NULL THEN <<>> ELSE X[n] \o f[nx[n]]
           Z == {m \in Nat : \E f : Good(f, m)}
<1>1. \A n \in S : /\ a(n) \in Nat /\ a(n) <= top + 1 /\ a(n) >= 1
                   /\ nx[n] \in B /\ a(nx[n]) \in Nat /\ a(nx[n]) < a(n)
  BY AheadFalls
<1>2. a(NULL) = 0 /\ NULL \notin S /\ top + 1 \in Nat
  BY DEF Ahead, InLine
<1> HIDE DEF a
<1>3. 0 \in Z
  <2> DEFINE f0 == [n \in B |-> <<>>]
  <2>1. Good(f0, 0)
    <3>1. ASSUME NEW n \in B, a(n) <= 0 PROVE n = NULL
      <4>1. n \notin S
        <5>1. SUFFICES ASSUME n \in S PROVE FALSE
          OBVIOUS
        <5>2. a(n) \in Nat /\ a(n) >= 1
          BY <1>1, <5>1
        <5> QED BY <3>1, <5>2
      <4> QED BY <4>1
    <3> QED BY <3>1
  <2> HIDE DEF f0
  <2> QED BY <2>1
<1>4. ASSUME NEW m \in Nat, m \in Z PROVE m + 1 \in Z
  <2>1. PICK f : Good(f, m)
    BY <1>4
  <2> DEFINE g == [n \in B |-> IF a(n) <= m THEN f[n] ELSE IF n = NULL THEN <<>> ELSE X[n] \o f[nx[n]]]
  <2>2. ASSUME NEW n \in B, a(n) <= m + 1 PROVE g[n] = IF n = NULL THEN <<>> ELSE X[n] \o g[nx[n]]
    <3>1. g[n] = IF n = NULL THEN <<>> ELSE X[n] \o f[nx[n]]
      BY <2>1
    <3>2. n # NULL => g[nx[n]] = f[nx[n]]
      <4>1. SUFFICES ASSUME n # NULL PROVE g[nx[n]] = f[nx[n]]
        OBVIOUS
      <4>2. n \in S
        BY <2>2, <4>1
      <4>3. nx[n] \in B /\ a(nx[n]) \in Nat /\ a(nx[n]) < a(n) /\ a(n) \in Nat
        BY <1>1, <4>2
      <4>4. a(nx[n]) <= m
        BY <2>2, <4>3
      <4> QED BY <4>3, <4>4
    <3> HIDE DEF g
    <3> QED BY <3>1, <3>2
  <2> HIDE DEF g
  <2>3. Good(g, m + 1)
    BY <2>2
  <2> QED BY <2>3
<1>5. \A m \in Nat : m \in Z
  <2> HIDE DEF Z
  <2> QED BY <1>3, <1>4, ClimbTo
<1>6. PICK f : Good(f, top + 1)
  BY <1>2, <1>5
<1> DEFINE g == [n \in B |-> f[n]]
<1>7. ASSUME NEW n \in B PROVE g[n] = IF n = NULL THEN <<>> ELSE X[n] \o g[nx[n]]
  <2>1. a(n) <= top + 1
    BY <1>1, <1>2
  <2>2. f[n] = IF n = NULL THEN <<>> ELSE X[n] \o f[nx[n]]
    BY <1>6, <2>1
  <2>3. n # NULL => g[nx[n]] = f[nx[n]]
    BY <1>1
  <2> QED BY <2>2, <2>3
<1>8. g = [n \in B |-> g[n]]
  OBVIOUS
<1> HIDE DEF g
<1>9. Strung(S, nx, X, g)
  BY <1>7, <1>8 DEF Strung
<1> QED BY <1>9

(* Induction along the line.                                               *)
LEMMA AlongTheLine ==
  ASSUME NEW S, NEW nx, NEW lo, NEW hi, NEW top, InLine(S, nx, lo, hi, top), NEW T,
         NULL \in T, \A n \in S : nx[n] \in T => n \in T
  PROVE  \A n \in S \cup {NULL} : n \in T
<1> DEFINE a(n) == Ahead(lo, top, n)
           B == S \cup {NULL}
           Z == {m \in Nat : \A n \in B : a(n) <= m => n \in T}
<1>1. \A n \in S : /\ a(n) \in Nat /\ a(n) <= top + 1 /\ a(n) >= 1
                   /\ nx[n] \in B /\ a(nx[n]) \in Nat /\ a(nx[n]) < a(n)
  BY AheadFalls
<1>2. a(NULL) = 0 /\ NULL \notin S /\ top + 1 \in Nat
  BY DEF Ahead, InLine
<1> HIDE DEF a
<1>3. 0 \in Z
  <2>1. ASSUME NEW n \in B, a(n) <= 0 PROVE n \in T
    <3>1. n \notin S
      <4>1. SUFFICES ASSUME n \in S PROVE FALSE
        OBVIOUS
      <4>2. a(n) \in Nat /\ a(n) >= 1
        BY <1>1, <4>1
      <4> QED BY <2>1, <4>2
    <3> QED BY <3>1
  <2> QED BY <2>1
<1>4. ASSUME NEW m \in Nat, m \in Z PROVE m + 1 \in Z
  <2>1. ASSUME NEW n \in B, a(n) <= m + 1 PROVE n \in T
    <3>1. CASE n = NULL
      BY <3>1
    <3>2. CASE n # NULL
      <4>1. nx[n] \in B /\ a(nx[n]) \in Nat /\ a(nx[n]) < a(n) /\ a(n) \in Nat /\ n \in S
        BY <1>1, <3>2
      <4>2. a(nx[n]) <= m
        BY <2>1, <4>1
      <4> QED BY <1>4, <4>1, <4>2
    <3> QED BY <3>1, <3>2
  <2> QED BY <2>1
<1>5. \A m \in Nat : m \in Z
  <2> HIDE DEF Z
  <2> QED BY <1>3, <1>4, ClimbTo
<1>6. ASSUME NEW n \in B PROVE n \in T
  <2>1. a(n) <= top + 1
    BY <1>1, <1>2
  <2> QED BY <1>2, <1>5, <2>1
<1> QED BY <1>6

(* Those from n on. *)
FromOn(S, lo, n) == IF n = NULL THEN {} ELSE {m \in S : lo[m] >= lo[n]}

(* What follows a leaf is the leaf itself and what follows the next one.   *)
LEMMA FromOnIs ==
  ASSUME NEW S, NEW nx, NEW lo, NEW hi, NEW top, InLine(S, nx, lo, hi, top), NEW n \in S
  PROVE  /\ FromOn(S, lo, n) = {n} \cup FromOn(S, lo, nx[n])
         /\ n \notin FromOn(S, lo, nx[n]) /\ FromOn(S, lo, n) \subseteq S
<1>1. n # NULL /\ lo[n] \in Nat /\ Under(lo[n], hi[n]) /\ hi[n] \in Nat
  BY DEF InLine
<1>2. FromOn(S, lo, n) = {m \in S : lo[m] >= lo[n]}
  BY <1>1 DEF FromOn
<1>3. ASSUME NEW m \in S, m # n
      PROVE  lo[m] >= lo[n] <=> hi[n] # 0 /\ lo[m] >= hi[n]
  <2>1. Apart(lo, hi, m, n) /\ lo[m] \in Nat /\ hi[m] \in Nat /\ Under(lo[m], hi[m])
    BY <1>3 DEF InLine
  <2>2. (hi[m] # 0 /\ hi[m] <= lo[n]) \/ (hi[n] # 0 /\ hi[n] <= lo[m])
    BY <2>1 DEF Apart, Before
  <2>3. (hi[m] = 0 \/ lo[m] < hi[m]) /\ (hi[n] = 0 \/ lo[n] < hi[n])
    BY <1>1, <2>1 DEF Under
  <2> QED BY <1>1, <2>1, <2>2, <2>3
<1>4. CASE nx[n] = NULL
  <2>1. hi[n] = 0 /\ FromOn(S, lo, nx[n]) = {}
    BY <1>4 DEF InLine, FromOn
  <2> QED BY <1>1, <1>2, <1>3, <2>1
<1>5. CASE nx[n] # NULL
  <2>1. hi[n] # 0 /\ lo[nx[n]] = hi[n]
    BY <1>5 DEF InLine
  <2>2. FromOn(S, lo, nx[n]) = {m \in S : lo[m] >= hi[n]}
    BY <1>5, <2>1 DEF FromOn
  <2>3. lo[n] < hi[n]
    BY <1>1, <2>1 DEF Under
  <2> QED BY <1>1, <1>2, <1>3, <2>1, <2>2, <2>3
<1> QED BY <1>4, <1>5

StrungOn(S, nx, X, f) ==
  NULL \notin S /\ f[NULL] = <<>> /\ \A n \in S : f[n] = X[n] \o f[nx[n]]

LEMMA StrungIs ==
  ASSUME NEW S, NEW nx, NEW lo, NEW hi, NEW top, InLine(S, nx, lo, hi, top),
         NEW X, NEW f, Strung(S, nx, X, f)
  PROVE  StrungOn(S, nx, X, f)
<1>1. NULL \notin S
  BY DEF InLine
<1> QED BY <1>1 DEF Strung, StrungOn

Upward(S, lo, X, T, f, n) ==
  /\ f[n] \in Seq(T) /\ Ascending(f[n])
  /\ Elements(f[n]) = UNION {Elements(X[m]) : m \in FromOn(S, lo, n)}
  /\ n # NULL => \A i \in 1..Len(f[n]) : lo[n] <= f[n][i]

LEMMA EmptyIs ==
  /\ \A T : <<>> \in Seq(T)
  /\ Ascending(<<>>) /\ Elements(<<>>) = {} /\ Len(<<>>) = 0
BY DEF Ascending, Elements

(* What is written from a leaf on is in ascending order, and all that is   *)
(* held from there on.                                                     *)
LEMMA WrittenUpward ==
  ASSUME NEW S, NEW nx, NEW lo, NEW hi, NEW top, InLine(S, nx, lo, hi, top),
         NEW T, T \subseteq Nat, NEW X,
         \A n \in S : /\ X[n] \in Seq(T) /\ Ascending(X[n])
                      /\ \A i \in 1..Len(X[n]) : lo[n] <= X[n][i] /\ Under(X[n][i], hi[n]),
         NEW f, Strung(S, nx, X, f)
  PROVE  \A n \in S \cup {NULL} : Upward(S, lo, X, T, f, n)
<1> DEFINE Z == {n \in S \cup {NULL} : Upward(S, lo, X, T, f, n)}
<1>1. NULL \notin S /\ f[NULL] = <<>> /\ \A n \in S : f[n] = X[n] \o f[nx[n]]
  <2>1. StrungOn(S, nx, X, f)
    BY StrungIs
  <2> QED BY <2>1 DEF StrungOn
<1>2. NULL \in Z
  <2>1. FromOn(S, lo, NULL) = {}
    BY DEF FromOn
  <2> QED BY <1>1, <2>1, EmptyIs DEF Upward
<1>3. ASSUME NEW n \in S, nx[n] \in Z PROVE n \in Z
  <2> DEFINE u == X[n]
             v == f[nx[n]]
             w == f[n]
  <2>1. w = u \o v
    BY <1>1
  <2>2. /\ u \in Seq(T) /\ Ascending(u) /\ lo[n] \in Nat /\ hi[n] \in Nat /\ n # NULL
        /\ \A i \in 1..Len(u) : lo[n] <= u[i] /\ Under(u[i], hi[n])
    BY DEF InLine
  <2>3. /\ v \in Seq(T) /\ Ascending(v)
        /\ Elements(v) = UNION {Elements(X[m]) : m \in FromOn(S, lo, nx[n])}
        /\ nx[n] # NULL => \A i \in 1..Len(v) : lo[nx[n]] <= v[i]
    BY <1>3 DEF Upward
  <2>4. nx[n] = NULL => v = <<>>
    BY <1>1
  <2>5. nx[n] # NULL => hi[n] # 0 /\ lo[nx[n]] = hi[n] /\ lo[n] < hi[n]
    BY DEF InLine, Under
  <2> HIDE DEF u, v, w
  <2>6. Len(u) \in Nat /\ Len(v) \in Nat /\ (\A i \in 1..Len(u) : u[i] \in Nat) /\ \A i \in 1..Len(v) : v[i] \in Nat
    <3>1. Len(u) \in Nat /\ Len(v) \in Nat /\ (\A i \in 1..Len(u) : u[i] \in T) /\ \A i \in 1..Len(v) : v[i] \in T
      BY <2>2, <2>3
    <3> QED BY <3>1
  <2>7. w \in Seq(T) /\ ConcatOf(u, v, w)
    BY <2>1, <2>2, <2>3, Joined
  <2>8. ASSUME NEW j \in 1..Len(v) PROVE nx[n] # NULL /\ hi[n] <= v[j] /\ lo[n] < v[j]
    <3>1. nx[n] # NULL
      <4>1. SUFFICES ASSUME nx[n] = NULL PROVE FALSE
        OBVIOUS
      <4>2. Len(v) = 0
        BY <2>4, <4>1, EmptyIs
      <4> QED BY <4>2
    <3>2. hi[n] <= v[j] /\ lo[n] < hi[n] /\ v[j] \in Nat
      BY <2>3, <2>5, <2>6, <3>1
    <3> QED BY <2>2, <3>1, <3>2
  <2>9. \A i \in 1..Len(u), j \in 1..Len(v) : u[i] < v[j]
    <3>1. TAKE i \in 1..Len(u), j \in 1..Len(v)
    <3>2. hi[n] # 0 /\ hi[n] <= v[j] /\ v[j] \in Nat /\ u[i] \in Nat
      BY <2>5, <2>6, <2>8
    <3>3. u[i] < hi[n]
      BY <2>2, <3>2 DEF Under
    <3> QED BY <2>2, <3>2, <3>3
  <2>10. Ascending(w)
    BY <2>2, <2>3, <2>6, <2>7, <2>9, ConcatAscending
  <2>11. Elements(w) = Elements(u) \cup Elements(v)
    BY <2>6, <2>7, ConcatElements
  <2>12. FromOn(S, lo, n) = {n} \cup FromOn(S, lo, nx[n])
    BY FromOnIs
  <2>13. Elements(w) = UNION {Elements(X[m]) : m \in FromOn(S, lo, n)}
    BY <2>3, <2>11, <2>12 DEF u
  <2>14. \A i \in 1..Len(w) : lo[n] <= w[i]
    <3>1. TAKE i \in 1..Len(w)
    <3>2. w[i] \in Elements(u) \cup Elements(v)
      BY <2>11 DEF Elements
    <3>3. CASE w[i] \in Elements(u)
      BY <2>2, <3>3 DEF Elements
    <3>4. CASE w[i] \in Elements(v)
      <4>1. PICK j \in 1..Len(v) : w[i] = v[j]
        BY <3>4 DEF Elements
      <4>2. lo[n] < v[j] /\ v[j] \in Nat
        BY <2>6, <2>8
      <4> QED BY <2>2, <4>1, <4>2
    <3> QED BY <3>2, <3>3, <3>4
  <2>15. Upward(S, lo, X, T, f, n)
    BY <2>7, <2>10, <2>13, <2>14 DEF Upward, w
  <2> QED BY <2>15
<1>4. \A n \in S \cup {NULL} : n \in Z
  <2> HIDE DEF Z
  <2> QED BY <1>2, <1>3, AlongTheLine
<1> QED BY <1>4

(* Two sequences at each place, of equal length. *)
Alike(S, T, V, f, g) ==
  \A n \in S : f[n] \in Seq(T) /\ g[n] \in Seq(V) /\ Len(f[n]) = Len(g[n])

LEMMA LengthsAlike ==
  ASSUME NEW S, NEW nx, NEW lo, NEW hi, NEW top, InLine(S, nx, lo, hi, top),
         NEW T, NEW V, NEW X, NEW Y, Alike(S, T, V, X, Y),
         NEW f, Strung(S, nx, X, f), NEW g, Strung(S, nx, Y, g)
  PROVE  Alike(S \cup {NULL}, T, V, f, g)
<1> DEFINE Z == {n \in S \cup {NULL} : f[n] \in Seq(T) /\ g[n] \in Seq(V) /\ Len(f[n]) = Len(g[n])}
<1>1. NULL \notin S /\ f[NULL] = <<>> /\ (\A n \in S : f[n] = X[n] \o f[nx[n]])
      /\ g[NULL] = <<>> /\ \A n \in S : g[n] = Y[n] \o g[nx[n]]
  <2>1. StrungOn(S, nx, X, f)
    BY StrungIs
  <2>2. StrungOn(S, nx, Y, g)
    BY StrungIs
  <2> QED BY <2>1, <2>2 DEF StrungOn
<1>2. NULL \in Z
  <2>1. f[NULL] \in Seq(T) /\ g[NULL] \in Seq(V)
    BY <1>1, EmptyIs
  <2> QED BY <1>1, <2>1
<1>3. ASSUME NEW n \in S, nx[n] \in Z PROVE n \in Z
  <2>1. f[n] = X[n] \o f[nx[n]] /\ g[n] = Y[n] \o g[nx[n]]
    BY <1>1
  <2>2. f[nx[n]] \in Seq(T) /\ g[nx[n]] \in Seq(V) /\ Len(f[nx[n]]) = Len(g[nx[n]])
    BY <1>3
  <2>3. X[n] \in Seq(T) /\ Y[n] \in Seq(V) /\ Len(X[n]) = Len(Y[n])
    BY DEF Alike
  <2>4. f[n] \in Seq(T) /\ Len(f[n]) = Len(X[n]) + Len(f[nx[n]])
    <3>1. f[n] \in Seq(T) /\ ConcatOf(X[n], f[nx[n]], f[n])
      BY <2>1, <2>2, <2>3, Joined
    <3> QED BY <3>1 DEF ConcatOf
  <2>5. g[n] \in Seq(V) /\ Len(g[n]) = Len(Y[n]) + Len(g[nx[n]])
    <3>1. g[n] \in Seq(V) /\ ConcatOf(Y[n], g[nx[n]], g[n])
      BY <2>1, <2>2, <2>3, Joined
    <3> QED BY <3>1 DEF ConcatOf
  <2> QED BY <2>2, <2>3, <2>4, <2>5
<1>4. \A n \in S \cup {NULL} : n \in Z
  <2> HIDE DEF Z
  <2> QED BY <1>2, <1>3, AlongTheLine
<1> QED BY <1>4 DEF Alike

Followed(S, nx, lo, f, n) ==
  /\ f[n] \in Seq(S) /\ Elements(f[n]) = FromOn(S, lo, n)
  /\ n # NULL => Len(f[n]) >= 1 /\ f[n][1] = n
  /\ \A i \in 1..(Len(f[n]) - 1) : nx[f[n][i]] = f[n][i + 1]

LEMMA NodesFollow ==
  ASSUME NEW S, NEW nx, NEW lo, NEW hi, NEW top, InLine(S, nx, lo, hi, top),
         NEW X, \A n \in S : X[n] = <<n>>, NEW f, Strung(S, nx, X, f)
  PROVE  \A n \in S \cup {NULL} : Followed(S, nx, lo, f, n)
<1> DEFINE Z == {n \in S \cup {NULL} : Followed(S, nx, lo, f, n)}
<1>1. NULL \notin S /\ f[NULL] = <<>> /\ \A n \in S : f[n] = <<n>> \o f[nx[n]]
  <2>1. StrungOn(S, nx, X, f)
    BY StrungIs
  <2>2. NULL \notin S /\ f[NULL] = <<>> /\ \A n \in S : f[n] = X[n] \o f[nx[n]]
    BY <2>1 DEF StrungOn
  <2> QED BY <2>2
<1>2. NULL \in Z
  <2>1. FromOn(S, lo, NULL) = {}
    BY DEF FromOn
  <2>2. f[NULL] \in Seq(S) /\ Elements(f[NULL]) = {} /\ Len(f[NULL]) = 0
    BY <1>1, EmptyIs
  <2>3. \A i \in 1..(Len(f[NULL]) - 1) : nx[f[NULL][i]] = f[NULL][i + 1]
    BY <2>2
  <2>4. Followed(S, nx, lo, f, NULL)
    BY <2>1, <2>2, <2>3 DEF Followed
  <2> QED BY <2>4
<1>3. ASSUME NEW n \in S, nx[n] \in Z PROVE n \in Z
  <2> DEFINE v == f[nx[n]]
             w == f[n]
  <2>1. w = <<n>> \o v /\ n # NULL
    BY <1>1
  <2>2. /\ v \in Seq(S) /\ Elements(v) = FromOn(S, lo, nx[n])
        /\ nx[n] # NULL => Len(v) >= 1 /\ v[1] = nx[n]
        /\ \A i \in 1..(Len(v) - 1) : nx[v[i]] = v[i + 1]
    BY <1>3 DEF Followed
  <2>3. nx[n] = NULL => v = <<>>
    BY <1>1
  <2> HIDE DEF v, w
  <2>4. w \in Seq(S) /\ ConsOf(n, v, w)
    BY <2>1, <2>2, Consed
  <2>5. /\ Len(w) = Len(v) + 1 /\ w[1] = n /\ (\A j \in 1..Len(v) : w[j + 1] = v[j])
        /\ Len(v) \in Nat
    BY <2>2, <2>4 DEF ConsOf
  <2>6. Elements(w) = FromOn(S, lo, n)
    <3>1. Elements(w) = Elements(v) \cup {n}
      BY <2>4, <2>5, EndElements
    <3>2. FromOn(S, lo, n) = {n} \cup FromOn(S, lo, nx[n])
      BY FromOnIs
    <3> QED BY <2>2, <3>1, <3>2
  <2>7. ASSUME NEW i \in 1..(Len(w) - 1) PROVE nx[w[i]] = w[i + 1]
    <3>1. i \in 1..Len(v) /\ w[i + 1] = v[i]
      BY <2>5
    <3>2. CASE i = 1
      <4>1. nx[n] # NULL
        <5>1. SUFFICES ASSUME nx[n] = NULL PROVE FALSE
          OBVIOUS
        <5>2. Len(v) = 0
          BY <2>3, <5>1, EmptyIs
        <5> QED BY <3>1, <5>2
      <4> QED BY <2>2, <2>5, <3>1, <3>2, <4>1
    <3>3. CASE i # 1
      <4>1. i - 1 \in 1..(Len(v) - 1) /\ i - 1 \in 1..Len(v) /\ (i - 1) + 1 = i
        BY <2>5, <3>1, <3>3
      <4>2. w[i] = v[i - 1] /\ nx[v[i - 1]] = v[i]
        BY <2>2, <2>5, <4>1
      <4> QED BY <3>1, <4>2
    <3> QED BY <3>2, <3>3
  <2>8. Len(w) >= 1
    BY <2>5
  <2>9. Followed(S, nx, lo, f, n)
    BY <2>1, <2>4, <2>5, <2>6, <2>7, <2>8 DEF Followed, w
  <2> QED BY <2>9
<1>4. \A n \in S \cup {NULL} : n \in Z
  <2> HIDE DEF Z
  <2> QED BY <1>2, <1>3, AlongTheLine
<1> QED BY <1>4

(* Ascending keys are as many as there are of them.                        *)
LEMMA AscendingCount ==
  ASSUME NEW T, T \subseteq Nat, NEW s, s \in Seq(T), Ascending(s)
  PROVE  Cardinality(Elements(s)) = Len(s)
<1> DEFINE f == [i \in 1..Len(s) |-> s[i]]
<1>1. Len(s) \in Nat /\ \A i \in 1..Len(s) : s[i] \in Nat
  <2>1. Len(s) \in Nat /\ \A i \in 1..Len(s) : s[i] \in T
    OBVIOUS
  <2> QED BY <2>1
<1>2. f \in [1..Len(s) -> Elements(s)]
  BY DEF Elements
<1>3. \A e \in Elements(s) : \E i \in 1..Len(s) : f[i] = e
  BY DEF Elements
<1>4. \A i, j \in 1..Len(s) : f[i] = f[j] => i = j
  <2>1. TAKE i, j \in 1..Len(s)
  <2>2. ~(i < j /\ s[i] = s[j]) /\ ~(j < i /\ s[i] = s[j])
    BY <1>1 DEF Ascending
  <2> QED BY <2>2
<1>5. f \in Bijection(1..Len(s), Elements(s))
  <2> HIDE DEF f
  <2> QED BY <1>2, <1>3, <1>4 DEF Bijection, Injection, Surjection, IsInjective
<1>6. ExistsBijection(1..Len(s), Elements(s))
  BY <1>5 DEF ExistsBijection
<1> QED BY <1>1, <1>6, FS_CountingElements

(***************************************************************************)
(* The chain of a tree.                                                    *)
(***************************************************************************)

NextOf(h) == [n \in Leaves(h) |-> h[n].next]

(* The leaves of a tree stand in line.                                     *)
LEMMA LeavesInLine ==
  ASSUME NEW h, NEW r, NEW k, NEW c, NEW t, NEW lo, NEW hi, Tree(h, r, k, c, t, lo, hi)
  PROVE  \E top : InLine(Leaves(h), NextOf(h), lo, hi, top)
<1> DEFINE nx == NextOf(h)
           S == Leaves(h)
<1>1. PICK top \in Nat : \A n \in Alive(h) : lo[n] <= top
  BY DEF Tree, Bounded
<1>2. /\ lo \in [NodeIds -> Nat] /\ hi \in [NodeIds -> Nat]
      /\ \A n \in Alive(h) : Under(lo[n], hi[n])
      /\ \A m, n \in Alive(h) : m # n /\ t[m] = t[n] => Apart(lo, hi, m, n)
  BY DEF Tree, Ordered, Ranged
<1>3. \A n \in S : n \in Alive(h) /\ n \in NodeIds /\ n # NULL /\ t[n] = 0
  BY MapAssumption DEF Tree, Shape, Placed, Leaves, Alive
<1>4. \A n \in S : /\ nx[n] = NULL <=> hi[n] = 0
                   /\ nx[n] # NULL => nx[n] \in S /\ lo[nx[n]] = hi[n]
  BY DEF Tree, Chained, NextOf
<1> HIDE DEF nx, S
<1>5. InLine(S, nx, lo, hi, top)
  BY <1>1, <1>2, <1>3, <1>4 DEF InLine
<1> QED BY <1>5 DEF S, nx

(* Serialize starts at the leaf whose keys have no lower bound.            *)
LEMMA FirstLeafIs ==
  ASSUME NEW k, NEW c, NEW t, NEW lo, NEW hi, Tree(heap, root, k, c, t, lo, hi), root # NULL
  PROVE  FirstLeaf \in Leaves(heap) /\ lo[FirstLeaf] = 0
<1> DEFINE nx == [n \in Live |-> heap[n].kids[1]]
           B == Leaves(heap)
           F == CHOOSE f : f = [n \in Live |-> IF heap[n].outer THEN n ELSE f[heap[n].kids[1]]]
<1>1. Live = Alive(heap)
  BY DEF Live, Alive
<1>2. /\ t \in [NodeIds -> Nat] /\ root \in Alive(heap) /\ \A n \in Alive(heap) : t[n] <= t[root]
      /\ lo[root] = 0
  BY DEF Tree, Shape, Placed, Ordered
<1>3. \A n \in Live : t[n] \in Nat /\ t[n] <= t[root] /\ t[root] \in Nat
  BY <1>1, <1>2 DEF Alive
<1>4. ASSUME NEW n \in Live, n \notin B
      PROVE  nx[n] \in Live /\ t[nx[n]] + 1 = t[n] /\ lo[nx[n]] = lo[n]
  <2>1. n \in Inners(heap) /\ nx[n] = heap[n].kids[1]
    BY <1>1, <1>4 DEF Inners, Leaves
  <2>2. KnowsKids(heap, root, k, t, n)
    BY <2>1, KidsKnown
  <2>3. 1 \in 1..Len(heap[n].kids)
    BY <2>2 DEF KnowsKids
  <2>4. IsKid(heap, heap[n].kids[1], n)
    BY <2>3 DEF IsKid
  <2>5. heap[n].kids[1] \in Alive(heap) /\ t[heap[n].kids[1]] + 1 = t[n]
    BY <2>2, <2>4 DEF KnowsKids
  <2>6. lo[heap[n].kids[1]] = lo[n]
    BY <2>1 DEF Tree, Ordered, Fences
  <2> QED BY <1>1, <2>1, <2>5, <2>6
<1>5. \A n \in Live : heap[n].outer <=> n \in B
  BY <1>1 DEF Leaves
<1> HIDE DEF B, nx
<1>6. Descends(Live, B, nx)
  <2>1. root \in Live
    BY <1>1, <1>2
  <2>2. t[root] \in Nat /\ \A n \in Live : t[n] \in Nat /\ t[n] <= t[root]
    BY <1>3, <2>1
  <2>3. \A n \in Live : n \notin B => nx[n] \in Live /\ t[nx[n]] + 1 = t[n]
    BY <1>4
  <2> QED BY <2>2, <2>3, Descent
<1>7. F = [n \in Live |-> IF heap[n].outer THEN n ELSE F[heap[n].kids[1]]]
  <2>1. PICK f : f = [n \in Live |-> IF n \in B THEN n ELSE f[nx[n]]]
    BY <1>6 DEF Descends
  <2>2. f = [n \in Live |-> IF heap[n].outer THEN n ELSE f[heap[n].kids[1]]]
    BY <1>5, <2>1 DEF nx
  <2> QED BY <2>2
<1>8. FirstLeaf = F[root]
  BY DEF FirstLeaf
<1> HIDE DEF F
<1>9. \A n \in Live : F[n] = IF n \in B THEN n ELSE F[nx[n]]
  BY <1>5, <1>7 DEF nx
<1> DEFINE Z == {m \in Nat : \A n \in Live : t[n] <= m /\ lo[n] = 0 => F[n] \in B /\ lo[F[n]] = 0}
<1>10. 0 \in Z
  <2>1. ASSUME NEW n \in Live, t[n] <= 0 PROVE n \in B
    <3>1. SUFFICES ASSUME n \notin B PROVE FALSE
      OBVIOUS
    <3>2. nx[n] \in Live /\ t[nx[n]] + 1 = t[n]
      BY <1>4, <3>1
    <3> QED BY <1>3, <2>1, <3>2
  <2> QED BY <1>9, <2>1
<1>11. ASSUME NEW m \in Nat, m \in Z PROVE m + 1 \in Z
  <2>1. SUFFICES ASSUME NEW n \in Live, t[n] <= m + 1, lo[n] = 0
                 PROVE  F[n] \in B /\ lo[F[n]] = 0
    OBVIOUS
  <2>2. CASE n \in B
    BY <1>9, <2>1, <2>2
  <2>3. CASE n \notin B
    <3>1. nx[n] \in Live /\ t[nx[n]] + 1 = t[n] /\ lo[nx[n]] = 0
      BY <1>4, <2>1, <2>3
    <3>2. t[nx[n]] <= m
      BY <1>3, <2>1, <3>1
    <3> QED BY <1>9, <1>11, <2>3, <3>1, <3>2
  <2> QED BY <2>2, <2>3
<1>12. \A m \in Nat : m \in Z
  <2> HIDE DEF Z
  <2> QED BY <1>10, <1>11, ClimbTo
<1>13. root \in Live /\ t[root] \in Nat /\ t[root] <= t[root]
  BY <1>1, <1>2, <1>3
<1> QED BY <1>2, <1>8, <1>12, <1>13 DEF B

(* From the first leaf on, there are all of them.                          *)
LEMMA AllFollow ==
  ASSUME NEW k, NEW c, NEW t, NEW lo, NEW hi, Tree(heap, root, k, c, t, lo, hi), root # NULL
  PROVE  FirstLeaf # NULL /\ FromOn(Leaves(heap), lo, FirstLeaf) = Leaves(heap)
<1>1. FirstLeaf \in Leaves(heap) /\ lo[FirstLeaf] = 0
  BY FirstLeafIs
<1>2. lo \in [NodeIds -> Nat] /\ NULL \notin Leaves(heap) /\ Leaves(heap) \subseteq NodeIds
  BY MapAssumption DEF Tree, Ordered, Leaves, Alive
<1>3. \A m \in Leaves(heap) : lo[m] >= 0
  <2>1. \A m \in Leaves(heap) : lo[m] \in Nat
    BY <1>2
  <2> QED BY <2>1
<1> QED BY <1>1, <1>2, <1>3 DEF FromOn

HeldAt(h, field) == [n \in Leaves(h) |-> h[n][field]]
Alone(h) == [n \in Leaves(h) |-> <<n>>]

(* Written and Chain are such recursions.                                  *)
LEMMA WrittenIs ==
  ASSUME NEW k, NEW c, NEW t, NEW lo, NEW hi, Tree(heap, root, k, c, t, lo, hi), NEW field
  PROVE  \E f : Strung(Leaves(heap), NextOf(heap), HeldAt(heap, field), f) /\ Written(field) = f[FirstLeaf]
<1> DEFINE S == Leaves(heap)
           X == HeldAt(heap, field)
           nx == NextOf(heap)
           F == CHOOSE f : f = [n \in LiveLeaves \cup {NULL} |->
                                  IF n = NULL THEN <<>> ELSE heap[n][field] \o f[heap[n].next]]
<1>1. PICK top : InLine(S, nx, lo, hi, top)
  BY LeavesInLine
<1>2. LiveLeaves = S
  BY DEF LiveLeaves, Live, Leaves, Alive
<1>3. \A n \in S : X[n] = heap[n][field] /\ nx[n] = heap[n].next
  BY DEF HeldAt, NextOf
<1> HIDE DEF S, X, nx
<1>4. PICK g : Strung(S, nx, X, g)
  BY <1>1, StrungSome
<1>5. g = [n \in LiveLeaves \cup {NULL} |-> IF n = NULL THEN <<>> ELSE heap[n][field] \o g[heap[n].next]]
  BY <1>2, <1>3, <1>4 DEF Strung
<1>6. F = [n \in LiveLeaves \cup {NULL} |-> IF n = NULL THEN <<>> ELSE heap[n][field] \o F[heap[n].next]]
  BY <1>5
<1>7. Written(field) = F[FirstLeaf]
  BY DEF Written
<1> HIDE DEF F
<1>8. Strung(S, nx, X, F)
  BY <1>2, <1>3, <1>6 DEF Strung
<1> QED BY <1>7, <1>8 DEF S, X, nx

LEMMA ChainIs ==
  ASSUME NEW k, NEW c, NEW t, NEW lo, NEW hi, Tree(heap, root, k, c, t, lo, hi)
  PROVE  \E f : Strung(Leaves(heap), NextOf(heap), Alone(heap), f) /\ Chain = f[FirstLeaf]
<1> DEFINE S == Leaves(heap)
           X == Alone(heap)
           nx == NextOf(heap)
           F == CHOOSE f : f = [n \in LiveLeaves \cup {NULL} |->
                                  IF n = NULL THEN <<>> ELSE <<n>> \o f[heap[n].next]]
<1>1. PICK top : InLine(S, nx, lo, hi, top)
  BY LeavesInLine
<1>2. LiveLeaves = S
  BY DEF LiveLeaves, Live, Leaves, Alive
<1>3. \A n \in S : X[n] = <<n>> /\ nx[n] = heap[n].next
  BY DEF Alone, NextOf
<1> HIDE DEF S, X, nx
<1>4. PICK g : Strung(S, nx, X, g)
  BY <1>1, StrungSome
<1>5. g = [n \in LiveLeaves \cup {NULL} |-> IF n = NULL THEN <<>> ELSE <<n>> \o g[heap[n].next]]
  BY <1>2, <1>3, <1>4 DEF Strung
<1>6. F = [n \in LiveLeaves \cup {NULL} |-> IF n = NULL THEN <<>> ELSE <<n>> \o F[heap[n].next]]
  BY <1>5
<1>7. Chain = F[FirstLeaf]
  BY DEF Chain
<1> HIDE DEF F
<1>8. Strung(S, nx, X, F)
  BY <1>2, <1>3, <1>6 DEF Strung
<1> QED BY <1>7, <1>8 DEF S, X, nx

(* What a snapshot writes of a tree.                                       *)
Lined(h, keys, values, chain) ==
  /\ keys \in Seq(Keys) /\ Ascending(keys) /\ Elements(keys) = Held(h)
  /\ values \in Seq(Values) /\ Len(values) = Len(keys)
  /\ chain \in Seq(Leaves(h)) /\ Elements(chain) = Leaves(h)
  /\ \A i \in 2..Len(chain) : h[chain[i]].previous = chain[i - 1]

LEMMA LeafWithin ==
  ASSUME NEW h, NEW r, NEW k, NEW c, NEW t, NEW lo, NEW hi, Tree(h, r, k, c, t, lo, hi),
         NEW n \in Leaves(h)
  PROVE  /\ h[n].keys \in Seq(Keys) /\ h[n].values \in Seq(Values) /\ Len(h[n].values) = Len(h[n].keys)
         /\ Ascending(h[n].keys)
         /\ \A i \in 1..Len(h[n].keys) : lo[n] <= h[n].keys[i] /\ Under(h[n].keys[i], hi[n])
<1>1. h \in Heaps /\ n \in Alive(h) /\ Len(h[n].values) = Len(h[n].keys)
  BY DEF Tree, Shape, Leaves
<1>2. h[n].keys \in Seq(Keys) /\ h[n].values \in Seq(Values)
  BY <1>1, AliveIsNode
<1>3. Ranged(h[n], lo[n], hi[n])
  BY <1>1 DEF Tree, Ordered
<1> QED BY <1>1, <1>2, <1>3 DEF Ranged

LEMMA KeysWritten ==
  ASSUME NEW k, NEW c, NEW t, NEW lo, NEW hi, Tree(heap, root, k, c, t, lo, hi), root # NULL
  PROVE  /\ Written("keys") \in Seq(Keys) /\ Ascending(Written("keys"))
         /\ Elements(Written("keys")) = Held(heap)
<1> DEFINE S == Leaves(heap)
           X == HeldAt(heap, "keys")
           nx == NextOf(heap)
<1>1. PICK f : Strung(Leaves(heap), NextOf(heap), HeldAt(heap, "keys"), f) /\ Written("keys") = f[FirstLeaf]
  BY WrittenIs
<1>2. PICK top : InLine(Leaves(heap), NextOf(heap), lo, hi, top)
  BY LeavesInLine
<1>3. \A n \in S : X[n] = heap[n].keys
  BY DEF HeldAt
<1>4. \A n \in S : /\ X[n] \in Seq(Keys) /\ Ascending(X[n])
                   /\ \A i \in 1..Len(X[n]) : lo[n] <= X[n][i] /\ Under(X[n][i], hi[n])
  BY <1>3, LeafWithin
<1>5. Keys \subseteq Nat /\ heap \in Heaps
  BY MapAssumption DEF Tree, Shape
<1>6. FirstLeaf # NULL /\ FirstLeaf \in S /\ FromOn(S, lo, FirstLeaf) = S
  BY AllFollow, FirstLeafIs
<1>7. Held(heap) = UNION {Elements(heap[n].keys) : n \in S}
  BY <1>5, HeldIs
<1> HIDE DEF S, X, nx
<1>8. InLine(S, nx, lo, hi, top) /\ Strung(S, nx, X, f)
  BY <1>1, <1>2 DEF S, X, nx
<1>9. Upward(S, lo, X, Keys, f, FirstLeaf)
  <2>1. \A n \in S \cup {NULL} : Upward(S, lo, X, Keys, f, n)
    BY <1>4, <1>5, <1>8, WrittenUpward
  <2> QED BY <1>6, <2>1
<1>10. Held(heap) = UNION {Elements(X[m]) : m \in S}
  BY <1>3, <1>7
<1> QED BY <1>1, <1>6, <1>9, <1>10 DEF Upward

LEMMA ValuesWritten ==
  ASSUME NEW k, NEW c, NEW t, NEW lo, NEW hi, Tree(heap, root, k, c, t, lo, hi), root # NULL
  PROVE  Written("values") \in Seq(Values) /\ Len(Written("values")) = Len(Written("keys"))
<1> DEFINE S == Leaves(heap)
           X == HeldAt(heap, "keys")
           Y == HeldAt(heap, "values")
           nx == NextOf(heap)
<1>1. PICK f : Strung(Leaves(heap), NextOf(heap), HeldAt(heap, "keys"), f) /\ Written("keys") = f[FirstLeaf]
  BY WrittenIs
<1>2. PICK g : Strung(Leaves(heap), NextOf(heap), HeldAt(heap, "values"), g) /\ Written("values") = g[FirstLeaf]
  BY WrittenIs
<1>3. PICK top : InLine(Leaves(heap), NextOf(heap), lo, hi, top)
  BY LeavesInLine
<1>4. \A n \in S : X[n] = heap[n].keys /\ Y[n] = heap[n].values
  BY DEF HeldAt
<1>5. Alike(S, Keys, Values, X, Y)
  BY <1>4, LeafWithin DEF Alike
<1>6. FirstLeaf \in S
  BY FirstLeafIs
<1> HIDE DEF S, X, Y, nx
<1>7. InLine(S, nx, lo, hi, top) /\ Strung(S, nx, X, f) /\ Strung(S, nx, Y, g)
  BY <1>1, <1>2, <1>3 DEF S, X, Y, nx
<1>8. Alike(S \cup {NULL}, Keys, Values, f, g)
  BY <1>5, <1>7, LengthsAlike
<1> QED BY <1>1, <1>2, <1>6, <1>8 DEF Alike

LEMMA ChainFollows ==
  ASSUME NEW k, NEW c, NEW t, NEW lo, NEW hi, Tree(heap, root, k, c, t, lo, hi), root # NULL
  PROVE  /\ Chain \in Seq(Leaves(heap)) /\ Elements(Chain) = Leaves(heap)
         /\ \A i \in 2..Len(Chain) : heap[Chain[i]].previous = Chain[i - 1]
<1> DEFINE S == Leaves(heap)
           X == Alone(heap)
           nx == NextOf(heap)
<1>1. PICK f : Strung(Leaves(heap), NextOf(heap), Alone(heap), f) /\ Chain = f[FirstLeaf]
  BY ChainIs
<1>2. PICK top : InLine(Leaves(heap), NextOf(heap), lo, hi, top)
  BY LeavesInLine
<1>3. \A n \in S : X[n] = <<n>> /\ nx[n] = heap[n].next
  BY DEF Alone, NextOf
<1>4. FirstLeaf # NULL /\ FirstLeaf \in S /\ FromOn(S, lo, FirstLeaf) = S
  BY AllFollow, FirstLeafIs
<1>5. \A n \in S : nx[n] # NULL => nx[n] \in S /\ heap[nx[n]].previous = n
  BY <1>3 DEF Tree, Chained
<1>6. NULL \notin S
  BY <1>2 DEF InLine
<1> HIDE DEF S, X, nx
<1>7. InLine(S, nx, lo, hi, top) /\ Strung(S, nx, X, f)
  BY <1>1, <1>2 DEF S, X, nx
<1>8. Followed(S, nx, lo, f, FirstLeaf)
  <2>1. \A n \in S \cup {NULL} : Followed(S, nx, lo, f, n)
    BY <1>3, <1>7, NodesFollow
  <2> QED BY <1>4, <2>1
<1> DEFINE w == f[FirstLeaf]
<1>9. /\ w \in Seq(S) /\ Elements(w) = S
      /\ \A i \in 1..(Len(w) - 1) : nx[w[i]] = w[i + 1]
  BY <1>4, <1>8 DEF Followed
<1> HIDE DEF w
<1>10. ASSUME NEW i \in 2..Len(w) PROVE heap[w[i]].previous = w[i - 1]
  <2>1. Len(w) \in Nat /\ i \in 1..Len(w) /\ i - 1 \in 1..(Len(w) - 1) /\ i - 1 \in 1..Len(w) /\ (i - 1) + 1 = i
    BY <1>9
  <2>2. nx[w[i - 1]] = w[i]
    BY <1>9, <2>1
  <2>3. w[i] \in S /\ w[i - 1] \in S
    BY <1>9, <2>1
  <2> QED BY <1>5, <1>6, <2>2, <2>3
<1>11. Chain = w
  BY <1>1 DEF w
<1> QED BY <1>9, <1>10, <1>11 DEF S

(* A snapshot writes all that the tree holds, in order.                    *)
LEMMA SnapshotIs ==
  ASSUME NEW k, NEW c, NEW t, NEW lo, NEW hi, Tree(heap, root, k, c, t, lo, hi), root # NULL
  PROVE  Lined(heap, Written("keys"), Written("values"), Chain)
BY KeysWritten, ValuesWritten, ChainFollows DEF Lined

(* A map without a root writes nothing.                                    *)
LEMMA NothingWritten ==
  ASSUME root = NULL, heap = [n \in NodeIds |-> Freed]
  PROVE  (\A field : Written(field) = <<>>) /\ Chain = <<>>
<1>1. FirstLeaf = NULL
  BY DEF FirstLeaf
<1>2. LiveLeaves \cup {NULL} = {NULL}
  BY DEF LiveLeaves, Live
<1>3. Chain = <<>>
  <2> DEFINE F == CHOOSE f : f = [n \in LiveLeaves \cup {NULL} |->
                                    IF n = NULL THEN <<>> ELSE <<n>> \o f[heap[n].next]]
             g == [n \in {NULL} |-> <<>>]
  <2>1. g = [n \in LiveLeaves \cup {NULL} |-> IF n = NULL THEN <<>> ELSE <<n>> \o g[heap[n].next]]
    BY <1>2
  <2>2. F = [n \in LiveLeaves \cup {NULL} |-> IF n = NULL THEN <<>> ELSE <<n>> \o F[heap[n].next]]
    <3> HIDE DEF g
    <3> QED BY <2>1
  <2>3. Chain = F[FirstLeaf]
    BY DEF Chain
  <2> HIDE DEF F
  <2> QED BY <1>1, <2>2, <2>3
<1>4. ASSUME NEW field PROVE Written(field) = <<>>
  <2> DEFINE F == CHOOSE f : f = [n \in LiveLeaves \cup {NULL} |->
                                    IF n = NULL THEN <<>> ELSE heap[n][field] \o f[heap[n].next]]
             g == [n \in {NULL} |-> <<>>]
  <2>1. g = [n \in LiveLeaves \cup {NULL} |-> IF n = NULL THEN <<>> ELSE heap[n][field] \o g[heap[n].next]]
    BY <1>2
  <2>2. F = [n \in LiveLeaves \cup {NULL} |-> IF n = NULL THEN <<>> ELSE heap[n][field] \o F[heap[n].next]]
    <3> HIDE DEF g
    <3> QED BY <2>1
  <2>3. Written(field) = F[FirstLeaf]
    BY DEF Written
  <2> HIDE DEF F
  <2> QED BY <1>1, <2>2, <2>3
<1> QED BY <1>3, <1>4

(* The tree of an idle map, of one that is being linked into, of one that  *)
(* is being rebalanced.                                                    *)
LEMMA SomeTree ==
  ASSUME Inv, root # NULL
  PROVE  \E k, c, t, lo, hi : Tree(heap, root, k, c, t, lo, hi)
BY DEF Inv, Sound, Standing, Pending

(* The invariant says that every key is found ...                          *)
LEMMA InvFinds == Inv => EveryKeyIsFound
<1> SUFFICES ASSUME Inv, pc = "idle", NEW k \in Keys
             PROVE  Contained(k) <=> k \in KeysHeld
  BY DEF EveryKeyIsFound
<1>1. CASE root = NULL
  <2>1. Written("keys") = <<>>
    BY <1>1, NothingWritten DEF Inv, Sound
  <2>2. KeysHeld = {}
    BY <2>1 DEF KeysHeld, ToSet
  <2> QED BY <1>1, <2>2 DEF Contained
<1>2. CASE root # NULL
  <2>1. Standing(heap, root, NULL)
    BY <1>2 DEF Inv, Sound
  <2>2. PICK t, lo, hi : Tree(heap, root, NULL, NULL, t, lo, hi)
    BY <2>1 DEF Standing
  <2>3. Written("keys") \in Seq(Keys) /\ Elements(Written("keys")) = Held(heap)
    BY <1>2, <2>2, KeysWritten
  <2>4. ToSet(Written("keys")) = Elements(Written("keys"))
    BY <2>3, ToSetIs
  <2>5. Contained(k) <=> k \in Held(heap)
    BY <2>1, ContainedIs
  <2> QED BY <2>3, <2>4, <2>5 DEF KeysHeld
<1> QED BY <1>1, <1>2

(* ... and that the chain holds the map.                                   *)
LEMMA InvHoldsTheMap == Inv => ChainHoldsTheMap
<1> SUFFICES ASSUME Inv PROVE ChainHoldsTheMap
  OBVIOUS
<1> DEFINE keys == Written("keys")
           values == Written("values")
           chain == Chain
<1>1. CASE root = NULL
  <2>1. keys = <<>> /\ values = <<>> /\ chain = <<>> /\ heap = [n \in NodeIds |-> Freed]
    BY <1>1, NothingWritten DEF Inv, Sound
  <2>2. size = 0
    <3>1. Held(heap) = {}
      BY <2>1, NothingHeld
    <3> QED BY <3>1, FS_EmptySet DEF Inv, Counted
  <2>3. Entries = {}
    BY <2>1 DEF Entries, ToSet
  <2>4. Len(keys) = 0 /\ Len(values) = 0 /\ Len(chain) = 0
    BY <2>1, EmptyIs
  <2> HIDE DEF keys, values, chain
  <2>5. 2..0 = {}
    OBVIOUS
  <2> QED BY <2>2, <2>3, <2>4, <2>5 DEF ChainHoldsTheMap, keys, values, chain
<1>2. CASE root # NULL
  <2>1. PICK k, c, t, lo, hi : Tree(heap, root, k, c, t, lo, hi)
    BY <1>2, SomeTree
  <2>2. Lined(heap, Written("keys"), Written("values"), Chain)
    BY <1>2, <2>1, SnapshotIs
  <2>3. /\ keys \in Seq(Keys) /\ Ascending(keys) /\ Elements(keys) = Held(heap)
        /\ Len(values) = Len(keys)
        /\ chain \in Seq(Leaves(heap)) /\ Elements(chain) = Leaves(heap)
        /\ \A i \in 2..Len(chain) : heap[chain[i]].previous = chain[i - 1]
    BY <2>2 DEF Lined
  <2>4. Entries = UNION {{<<heap[n].keys[i], heap[n].values[i]>> : i \in DOMAIN heap[n].keys} : n \in Leaves(heap)}
    <3>1. ToSet(Chain) = Elements(Chain)
      BY <2>3, ToSetIs
    <3> QED BY <2>3, <3>1 DEF Entries
  <2> HIDE DEF keys, values, chain
  <2>5. ASSUME NEW i \in 2..Len(keys) PROVE keys[i - 1] < keys[i]
    <3>1. Len(keys) \in Nat /\ i \in 1..Len(keys) /\ i - 1 \in 1..Len(keys) /\ i - 1 < i
      BY <2>3
    <3> QED BY <2>3, <3>1 DEF Ascending
  <2>6. ASSUME NEW e \in Entries PROVE e[2] \in {e[1], Updated}
    <3>1. PICK n \in Leaves(heap) :
               e \in {<<heap[n].keys[i], heap[n].values[i]>> : i \in DOMAIN heap[n].keys}
      BY <2>4
    <3>2. PICK i \in DOMAIN heap[n].keys : e = <<heap[n].keys[i], heap[n].values[i]>>
      BY <3>1
    <3>3. heap[n].keys \in Seq(Keys)
      BY <2>1, LeafWithin
    <3>4. i \in 1..Len(heap[n].keys)
      BY <3>3
    <3>5. heap[n].values[i] \in {heap[n].keys[i], Updated}
      BY <2>1, <3>4 DEF Tree, Owned
    <3> QED BY <3>2, <3>5
  <2>7. Len(keys) = size
    <3>1. Keys \subseteq Nat
      BY MapAssumption
    <3>2. Cardinality(Elements(keys)) = Len(keys)
      BY <2>3, <3>1, AscendingCount
    <3> QED BY <2>3, <3>2 DEF Inv, Counted
  <2> QED BY <2>3, <2>5, <2>6, <2>7 DEF ChainHoldsTheMap, keys, values, chain
<1> QED BY <1>1, <1>2

(* Find and Contains (include/map.h) are right about every key: the way    *)
(* down by the separators ends at the leaf that holds it.                  *)
THEOREM Found == Spec => []EveryKeyIsFound
BY InvFinds, InvHolds, PTL

(* Between any two steps, those inside a call included, what Serialize     *)
(* (include/map.h) would write along the chain of the leaves is every key  *)
(* in ascending order, with its value, and as many as size_ says.          *)
THEOREM MapIsWritten == Spec => []ChainHoldsTheMap
BY InvHoldsTheMap, InvHolds, PTL

(***************************************************************************)
(* The key after another one.                                              *)
(***************************************************************************)

(* What the keys of a leaf are, and where those of another stand.          *)
LeafAt(h, lo, hi, n) ==
  /\ h[n].keys \in Seq(Keys) /\ Len(h[n].keys) \in Nat /\ Ascending(h[n].keys)
  /\ lo[n] \in Nat /\ hi[n] \in Nat /\ Under(lo[n], hi[n])
  /\ \A i \in 1..Len(h[n].keys) :
       h[n].keys[i] \in Nat /\ h[n].keys[i] >= lo[n] /\ (hi[n] # 0 => h[n].keys[i] < hi[n])

(* Facts about one leaf, for arithmetic.                                   *)
LEMMA LeafPlace ==
  ASSUME NEW h, NEW r, NEW k, NEW c, NEW t, NEW lo, NEW hi, Tree(h, r, k, c, t, lo, hi),
         NEW n \in Leaves(h)
  PROVE  LeafAt(h, lo, hi, n)
<1>1. /\ h[n].keys \in Seq(Keys) /\ Ascending(h[n].keys)
      /\ \A i \in 1..Len(h[n].keys) : lo[n] <= h[n].keys[i] /\ Under(h[n].keys[i], hi[n])
  BY LeafWithin
<1>2. n \in Alive(h) /\ n \in NodeIds
  BY DEF Leaves, Alive
<1>3. lo[n] \in Nat /\ hi[n] \in Nat /\ Under(lo[n], hi[n])
  BY <1>2 DEF Tree, Ordered, Ranged
<1>4. Len(h[n].keys) \in Nat /\ \A i \in 1..Len(h[n].keys) : h[n].keys[i] \in Keys
  BY <1>1
<1>5. ASSUME NEW i \in 1..Len(h[n].keys)
      PROVE  h[n].keys[i] \in Nat /\ h[n].keys[i] >= lo[n] /\ (hi[n] # 0 => h[n].keys[i] < hi[n])
  <2>1. h[n].keys[i] \in Nat
    BY <1>4, MapAssumption
  <2>2. lo[n] <= h[n].keys[i] /\ (hi[n] = 0 \/ h[n].keys[i] < hi[n])
    BY <1>1 DEF Under
  <2> QED BY <1>3, <2>1, <2>2
<1> QED BY <1>1, <1>3, <1>4, <1>5 DEF LeafAt

(* The keys of two leaves do not mix.                                      *)
LEMMA LeavesApart ==
  ASSUME NEW h, NEW r, NEW k, NEW c, NEW t, NEW lo, NEW hi, Tree(h, r, k, c, t, lo, hi),
         NEW m \in Leaves(h), NEW n \in Leaves(h), m # n
  PROVE  (hi[m] # 0 /\ hi[m] <= lo[n]) \/ (hi[n] # 0 /\ hi[n] <= lo[m])
<1>1. m \in Alive(h) /\ n \in Alive(h) /\ t[m] = 0 /\ t[n] = 0
  BY DEF Leaves, Tree, Shape, Placed
<1>2. Apart(lo, hi, m, n)
  BY <1>1 DEF Tree, Ordered
<1> QED BY <1>2 DEF Apart, Before

(* What is held is held at a place in a leaf.                              *)
LEMMA HeldSomewhere ==
  ASSUME NEW h \in Heaps, NEW k
  PROVE  k \in Held(h) <=> \E m \in Leaves(h) : \E j \in 1..Len(h[m].keys) : h[m].keys[j] = k
<1>1. Held(h) = UNION {Elements(h[n].keys) : n \in Leaves(h)}
  BY HeldIs
<1> QED BY <1>1 DEF Elements

IsLeast(k, S) == k \in S /\ \A l \in S : k <= l

(* The key after the i-th of a leaf: in the leaf itself, or the first of   *)
(* the leaf that follows, or none.                                         *)
LEMMA NextKey ==
  ASSUME NEW h, NEW r, NEW k, NEW c, NEW t, NEW lo, NEW hi, Tree(h, r, k, c, t, lo, hi),
         NEW n \in Leaves(h), NEW i \in 1..Len(h[n].keys),
         h[n].next # NULL => Len(h[h[n].next].keys) >= 1
  PROVE  /\ i < Len(h[n].keys) => IsLeast(h[n].keys[i + 1], Above(h, h[n].keys[i]))
         /\ i = Len(h[n].keys) /\ h[n].next # NULL =>
              IsLeast(h[h[n].next].keys[1], Above(h, h[n].keys[i]))
         /\ i = Len(h[n].keys) /\ h[n].next = NULL => Above(h, h[n].keys[i]) = {}
<1> DEFINE ks == h[n].keys
           e == h[n].keys[i]
<1>1. h \in Heaps
  BY DEF Tree, Shape
<1>2. LeafAt(h, lo, hi, n)
  BY LeafPlace
<1>3. /\ Len(ks) \in Nat /\ (\A a, b \in 1..Len(ks) : a < b => ks[a] < ks[b])
      /\ lo[n] \in Nat /\ hi[n] \in Nat
      /\ \A j \in 1..Len(ks) : ks[j] \in Nat /\ ks[j] >= lo[n] /\ (hi[n] # 0 => ks[j] < hi[n])
      /\ i \in 1..Len(ks) /\ e = ks[i]
  BY <1>2 DEF LeafAt, Ascending
<1>4. \A l : l \in Above(h, e) <=>
        l > e /\ \E m \in Leaves(h) : \E j \in 1..Len(h[m].keys) : h[m].keys[j] = l
  <2>1. \A l : l \in Held(h) <=> \E m \in Leaves(h) : \E j \in 1..Len(h[m].keys) : h[m].keys[j] = l
    BY <1>1, HeldSomewhere
  <2> HIDE DEF e
  <2> QED BY <2>1 DEF Above
<1> HIDE DEF e, ks
<1>5. ASSUME NEW m \in Leaves(h), m # n, NEW j \in 1..Len(h[m].keys), h[m].keys[j] > e
      PROVE  hi[n] # 0 /\ hi[n] <= lo[m] /\ lo[m] \in Nat /\ h[m].keys[j] \in Nat /\ lo[m] <= h[m].keys[j]
  <2>1. LeafAt(h, lo, hi, m)
    BY LeafPlace
  <2>2. /\ lo[m] \in Nat /\ hi[m] \in Nat /\ h[m].keys[j] \in Nat /\ h[m].keys[j] >= lo[m]
        /\ hi[m] # 0 => h[m].keys[j] < hi[m]
    BY <2>1 DEF LeafAt
  <2>3. (hi[m] # 0 /\ hi[m] <= lo[n]) \/ (hi[n] # 0 /\ hi[n] <= lo[m])
    BY <1>5, LeavesApart
  <2>4. e \in Nat /\ e >= lo[n]
    BY <1>3
  <2>5. ~(hi[m] # 0 /\ hi[m] <= lo[n])
    <3> DEFINE key == h[m].keys[j]
               high == hi[m]
               low == lo[n]
    <3>1. key \in Nat /\ high \in Nat /\ low \in Nat /\ e \in Nat
      BY <1>3, <2>2, <2>4
    <3>2. key > e /\ e >= low /\ (high # 0 => key < high)
      BY <1>5, <2>2, <2>4
    <3> HIDE DEF key, high, low
    <3>3. ~(high # 0 /\ high <= low)
      BY <3>1, <3>2
    <3> QED BY <3>3 DEF high, low
  <2> QED BY <2>2, <2>3, <2>5
<1>6. ASSUME NEW j \in 1..Len(ks), ks[j] > e PROVE j > i
  <2>1. ~(j < i) /\ j # i
    BY <1>3, <1>6
  <2> QED BY <1>3, <2>1
<1>7. ASSUME i < Len(ks) PROVE IsLeast(ks[i + 1], Above(h, e))
  <2>1. i + 1 \in 1..Len(ks) /\ i < i + 1 /\ ks[i + 1] > e /\ ks[i + 1] \in Nat
    BY <1>3, <1>7
  <2>2. ks[i + 1] \in Above(h, e)
    BY <1>4, <2>1 DEF ks
  <2>3. ASSUME NEW l \in Above(h, e) PROVE ks[i + 1] <= l
    <3>1. l > e
      BY <1>4
    <3>2. PICK m \in Leaves(h) : \E j \in 1..Len(h[m].keys) : h[m].keys[j] = l
      BY <1>4
    <3>3. PICK j \in 1..Len(h[m].keys) : h[m].keys[j] = l
      BY <3>2
    <3>4. CASE m = n
      <4>1. j \in 1..Len(ks) /\ ks[j] = l
        BY <3>3, <3>4 DEF ks
      <4>2. j > i
        BY <1>6, <3>1, <4>1
      <4>3. j = i + 1 \/ i + 1 < j
        BY <1>3, <4>1, <4>2
      <4>4. ks[j] = ks[i + 1] \/ ks[i + 1] < ks[j]
        BY <1>3, <2>1, <4>1, <4>3
      <4> QED BY <1>3, <2>1, <4>1, <4>4
    <3>5. CASE m # n
      <4>1. hi[n] # 0 /\ hi[n] <= lo[m] /\ lo[m] \in Nat /\ l \in Nat /\ lo[m] <= l
        BY <1>5, <3>1, <3>3, <3>5
      <4>2. ks[i + 1] < hi[n]
        BY <1>3, <2>1, <4>1
      <4> QED BY <1>3, <2>1, <4>1, <4>2
    <3> QED BY <3>4, <3>5
  <2> QED BY <2>2, <2>3 DEF IsLeast
<1>8. ASSUME i = Len(ks), NEW l \in Above(h, e)
      PROVE  \E m \in Leaves(h) \ {n} : \E j \in 1..Len(h[m].keys) :
               h[m].keys[j] = l /\ hi[n] # 0 /\ hi[n] <= lo[m] /\ lo[m] \in Nat /\ l \in Nat /\ lo[m] <= l
  <2>1. l > e
    BY <1>4
  <2>2. PICK m \in Leaves(h) : \E j \in 1..Len(h[m].keys) : h[m].keys[j] = l
    BY <1>4
  <2>3. PICK j \in 1..Len(h[m].keys) : h[m].keys[j] = l
    BY <2>2
  <2>4. m # n
    <3>1. SUFFICES ASSUME m = n PROVE FALSE
      OBVIOUS
    <3>2. j \in 1..Len(ks) /\ ks[j] = l
      BY <2>3, <3>1 DEF ks
    <3>3. j > i
      BY <1>6, <2>1, <3>2
    <3> QED BY <1>3, <1>8, <3>2, <3>3
  <2>5. hi[n] # 0 /\ hi[n] <= lo[m] /\ lo[m] \in Nat /\ l \in Nat /\ lo[m] <= l
    BY <1>5, <2>1, <2>3, <2>4
  <2> QED BY <2>3, <2>4, <2>5
<1>9. h[n].next = NULL <=> hi[n] = 0
  BY DEF Tree, Chained
<1>10. ASSUME i = Len(ks), h[n].next = NULL PROVE Above(h, e) = {}
  BY <1>8, <1>9, <1>10
<1>11. ASSUME i = Len(ks), h[n].next # NULL PROVE IsLeast(h[h[n].next].keys[1], Above(h, e))
  <2> DEFINE x == h[n].next
             f == h[h[n].next].keys[1]
  <2>1. x \in Leaves(h) /\ lo[x] = hi[n] /\ Len(h[x].keys) >= 1
    BY <1>11, NextLeaf
  <2>2. LeafAt(h, lo, hi, x)
    BY <2>1, LeafPlace
  <2> HIDE DEF x
  <2>3. /\ Len(h[x].keys) \in Nat /\ lo[x] \in Nat /\ hi[x] \in Nat /\ Under(lo[x], hi[x])
        /\ (\A a, b \in 1..Len(h[x].keys) : a < b => h[x].keys[a] < h[x].keys[b])
        /\ \A j \in 1..Len(h[x].keys) : h[x].keys[j] \in Nat /\ h[x].keys[j] >= lo[x] /\ (hi[x] # 0 => h[x].keys[j] < hi[x])
    BY <2>2 DEF LeafAt, Ascending
  <2>4. 1 \in 1..Len(h[x].keys) /\ f = h[x].keys[1]
    BY <2>1, <2>3 DEF x
  <2> HIDE DEF f
  <2>5. f \in Nat /\ f >= lo[x] /\ (hi[x] # 0 => f < hi[x])
    BY <2>3, <2>4
  <2>6. f \in Above(h, e)
    <3>1. e \in Nat /\ e < hi[n]
      BY <1>3, <1>9, <1>11
    <3>2. f > e
      BY <1>3, <2>1, <2>5, <3>1
    <3> QED BY <1>4, <2>1, <2>4, <3>2
  <2>7. ASSUME NEW l \in Above(h, e) PROVE f <= l
    <3>1. PICK m \in Leaves(h) \ {n} : \E j \in 1..Len(h[m].keys) :
               h[m].keys[j] = l /\ hi[n] # 0 /\ hi[n] <= lo[m] /\ lo[m] \in Nat /\ l \in Nat /\ lo[m] <= l
      BY <1>8, <1>11
    <3>2. PICK j \in 1..Len(h[m].keys) :
               h[m].keys[j] = l /\ hi[n] # 0 /\ hi[n] <= lo[m] /\ lo[m] \in Nat /\ l \in Nat /\ lo[m] <= l
      BY <3>1
    <3>3. CASE m = x
      <4>1. j = 1 \/ 1 < j
        BY <3>2
      <4>2. h[x].keys[1] = h[x].keys[j] \/ h[x].keys[1] < h[x].keys[j]
        BY <2>3, <2>4, <3>2, <3>3, <4>1
      <4> QED BY <2>4, <2>5, <3>2, <3>3, <4>2
    <3>4. CASE m # x
      <4>1. (hi[m] # 0 /\ hi[m] <= lo[x]) \/ (hi[x] # 0 /\ hi[x] <= lo[m])
        BY <2>1, <3>4, LeavesApart
      <4>2. hi[m] \in Nat /\ Under(lo[m], hi[m])
        BY LeafPlace DEF LeafAt
      <4>3. ~(hi[m] # 0 /\ hi[m] <= lo[x])
        BY <2>1, <2>3, <3>2, <4>2 DEF Under
      <4> QED BY <2>3, <2>5, <3>2, <4>1, <4>3
    <3> QED BY <3>3, <3>4
  <2>8. IsLeast(f, Above(h, e))
    BY <2>6, <2>7 DEF IsLeast
  <2> QED BY <2>8 DEF f
<1> QED BY <1>7, <1>10, <1>11 DEF e, ks

(***************************************************************************)
(* What a step on the tree makes of an iterator.                           *)
(***************************************************************************)

(* The iterator is carried on when each key it may point to stays in its   *)
(* reach.                                                                  *)
LEMMA LeadsOn ==
  ASSUME NEW h, NEW s, NEW it, NEW jt, NEW e, Content(s) = Content(h), Leads(h, it, e),
         it = End => jt = End,
         \A k : PointsTo(h, it, k) => PointsTo(s, jt, k)
  PROVE  Leads(s, jt, e)
<1>1. Above(s, e) = Above(h, e)
  BY DEF Above, Content
<1>2. CASE Above(h, e) = {}
  BY <1>1, <1>2 DEF Leads
<1>3. CASE Above(h, e) # {}
  <2>1. PICK k \in Above(h, e) : PointsTo(h, it, k) /\ \A l \in Above(h, e) : k <= l
    BY <1>3 DEF Leads
  <2>2. PointsTo(s, jt, k)
    BY <2>1
  <2> QED BY <1>1, <1>3, <2>1, <2>2 DEF Leads
<1> QED BY <1>2, <1>3

SameLeaves(h, s) == \A m \in Leaves(h) : m \in Leaves(s) /\ s[m].keys = h[m].keys

LEMMA KeptPoints ==
  ASSUME NEW h, NEW s, NEW it, NEW k, PointsTo(h, it, k), it[1] \in Leaves(s),
         s[it[1]].keys = h[it[1]].keys
  PROVE  PointsTo(s, it, k)
BY DEF PointsTo

(* An iterator leads where it led as long as its leaf is kept.             *)
LEMMA KeptLeads ==
  ASSUME NEW h, NEW s, NEW it, NEW e, Content(s) = Content(h), Leads(h, it, e), SameLeaves(h, s)
  PROVE  Leads(s, it, e)
<1>1. ASSUME NEW k, PointsTo(h, it, k) PROVE PointsTo(s, it, k)
  <2>1. it[1] \in Leaves(h)
    BY <1>1 DEF PointsTo
  <2>2. it[1] \in Leaves(s) /\ s[it[1]].keys = h[it[1]].keys
    BY <2>1 DEF SameLeaves
  <2> QED BY <1>1, <2>2, KeptPoints
<1> QED BY <1>1, LeadsOn

(* A move or a merge of inner nodes leaves the leaves as they are.         *)
LEMMA ShiftKeepsLeaves ==
  ASSUME NEW h, NEW s, NEW p, NEW i, NEW a, NEW b, Siblings(h, p, i, a, b), ~h[a].outer, ~h[b].outer,
         Shifted(h, s, a, b, p)
  PROVE  SameLeaves(h, s)
<1> SUFFICES ASSUME NEW m \in Leaves(h) PROVE m \in Leaves(s) /\ s[m].keys = h[m].keys
  BY DEF SameLeaves
<1>1. m \in Alive(h) \ {a, b, p} /\ h[m].outer
  BY DEF Leaves, Inners, Siblings
<1>2. s[m].outer = h[m].outer /\ s[m].keys = h[m].keys /\ m \in Alive(s)
  BY <1>1 DEF Shifted
<1> QED BY <1>1, <1>2 DEF Leaves

LEMMA ShrinkKeepsLeaves ==
  ASSUME NEW h, NEW s, NEW p, NEW i, NEW a, NEW b, NEW more, Siblings(h, p, i, a, b), ~h[a].outer, ~h[b].outer,
         Shrunk(h, s, a, b, p, more)
  PROVE  SameLeaves(h, s)
<1> SUFFICES ASSUME NEW m \in Leaves(h) PROVE m \in Leaves(s) /\ s[m].keys = h[m].keys
  BY DEF SameLeaves
<1>1. m \in Alive(h) \ {a, b, p} /\ h[m].outer
  BY DEF Leaves, Inners, Siblings
<1>2. m \in Alive(s) \ {a, p} /\ s[m].outer = h[m].outer /\ s[m].keys = h[m].keys
  BY <1>1 DEF Shrunk
<1> QED BY <1>1, <1>2 DEF Leaves

(* Siblings are alike, and the right one of two leaves follows the left.   *)
Kindred(h, p, a, b) ==
  /\ h[a].outer => /\ a \in Leaves(h) /\ b \in Leaves(h) /\ h[a].next = b
                   /\ h[a].keys \in Seq(Keys) /\ h[b].keys \in Seq(Keys)
                   /\ Len(h[a].keys) >= 1 /\ Len(h[b].keys) >= 1
                   /\ h[b].next # NULL => h[b].next \notin {a, b, p}
  /\ ~h[a].outer => ~h[b].outer
  /\ a # b /\ p # a /\ p # b /\ ~h[p].outer /\ a # NULL /\ b # NULL

LEMMA KindredAre ==
  ASSUME NEW h, NEW r, NEW c, Standing(h, r, c), NEW p, NEW i, NEW a, NEW b, Siblings(h, p, i, a, b),
         c \in {a, b}
  PROVE  Kindred(h, p, a, b)
<1>1. PICK t, lo, hi : Tree(h, r, NULL, NULL, t, lo, hi)
  BY DEF Standing
<1>2. /\ \A m \in {a, b} : m \in Alive(h) /\ h[m] \in Node /\ m \in NodeIds /\ NodeFilled(h[m], FALSE, TRUE)
  <2>1. LookedAt(h, r, c, p, a, b)
    BY SiblingsFilled
  <2> QED BY <2>1 DEF LookedAt
<1>3. a # b /\ p # a /\ p # b /\ ~h[p].outer /\ a # NULL /\ b # NULL
  BY <1>2, MapAssumption DEF Siblings, Inners
<1>4. ASSUME h[a].outer
      PROVE  /\ a \in Leaves(h) /\ b \in Leaves(h) /\ h[a].next = b
             /\ h[a].keys \in Seq(Keys) /\ h[b].keys \in Seq(Keys)
             /\ Len(h[a].keys) >= 1 /\ Len(h[b].keys) >= 1
             /\ h[b].next # NULL => h[b].next \notin {a, b, p}
  <2>1. a \in Leaves(h) /\ b \in Leaves(h) /\ h[b].outer /\ h[a].next = b
    BY <1>1, <1>4, SiblingLeaves
  <2>2. h[b].next # NULL => h[b].next \in Leaves(h) \ {a, b, p}
    BY <1>1, <1>4, SiblingsDiffer
  <2>3. h[a].keys # <<>> /\ h[b].keys # <<>>
    BY <1>2, <1>4, <2>1, LooseLeaf
  <2>4. Len(h[a].keys) >= 1 /\ Len(h[b].keys) >= 1
    BY <1>2, <2>3, Lengths
  <2>5. h[a].keys \in Seq(Keys) /\ h[b].keys \in Seq(Keys)
    BY <1>2 DEF Node
  <2> QED BY <2>1, <2>2, <2>4, <2>5
<1>5. ASSUME ~h[a].outer PROVE ~h[b].outer
  <2>1. InnerPair(h, p, i, a, b)
    BY <1>1, <1>5, SiblingInners
  <2> QED BY <2>1 DEF InnerPair
<1> QED BY <1>3, <1>4, <1>5 DEF Kindred

OthersKept(h, s, a, b) ==
  \A m \in Leaves(h) \ {a, b} : m \in Leaves(s) /\ s[m].keys = h[m].keys

(* The last key of a crosses to b ...                                      *)
SentRight(h, s, a, b) ==
  OthersKept(h, s, a, b) /\ b \in Leaves(s) /\ ConsOf(h[a].keys[Len(h[a].keys)], h[b].keys, s[b].keys)

(* ... or the first of b to a ...                                          *)
SentLeft(h, s, a, b) ==
  OthersKept(h, s, a, b) /\ a \in Leaves(s) /\ SnocOf(h[a].keys, h[b].keys[1], s[a].keys)

(* ... or all that b holds.                                                *)
SentAll(h, s, a, b) ==
  OthersKept(h, s, a, b) /\ a \in Leaves(s) /\ ConcatOf(h[a].keys, h[b].keys, s[a].keys)

(* Where the elements of a leaf go: one to the right, one to the left, all *)
(* to the left.                                                            *)
LEMMA LeafSent ==
  ASSUME NEW h, NEW r, NEW c, Standing(h, r, c), NEW p, NEW i, NEW a, NEW b, Siblings(h, p, i, a, b),
         c \in {a, b}, h[a].outer, NEW s, s = OuterRedistribute(h, a, b), Shifted(h, s, a, b, p),
         s[a].outer, s[b].outer
  PROVE  /\ ~(Len(h[b].keys) >= Len(h[a].keys) + 2) => SentRight(h, s, a, b)
         /\ Len(h[b].keys) >= Len(h[a].keys) + 2 => SentLeft(h, s, a, b)
<1>1. /\ a # b /\ p # a /\ p # b /\ a \in Leaves(h) /\ b \in Leaves(h)
      /\ h[a].keys \in Seq(Keys) /\ h[b].keys \in Seq(Keys)
      /\ Len(h[a].keys) >= 1 /\ Len(h[b].keys) >= 1 /\ ~h[p].outer
  <2>1. Kindred(h, p, a, b)
    BY KindredAre
  <2> QED BY <2>1 DEF Kindred
<1>2. /\ h \in Heaps /\ a \in NodeIds /\ b \in NodeIds /\ p \in NodeIds
      /\ h[a] \in Node /\ h[b] \in Node /\ h[p] \in Node /\ h[a].parent = p
  <2>1. LookedAt(h, r, c, p, a, b)
    BY SiblingsFilled
  <2> QED BY <2>1 DEF LookedAt, Siblings
<1>3. MoveOf(h, a, b, s)
  BY <1>1, <1>2, OuterRedistributeIs
<1>4. OthersKept(h, s, a, b) /\ a \in Leaves(s) /\ b \in Leaves(s)
  <2>1. ASSUME NEW m \in Leaves(h) \ {a, b} PROVE m \in Leaves(s) /\ s[m].keys = h[m].keys
    <3>1. m \in Alive(h) \ {a, b, p} /\ h[m].outer
      BY <1>1 DEF Leaves
    <3>2. s[m].outer = h[m].outer /\ s[m].keys = h[m].keys /\ m \in Alive(s)
      BY <3>1 DEF Shifted
    <3> QED BY <3>1, <3>2 DEF Leaves
  <2>2. a \in Alive(s) /\ b \in Alive(s)
    BY <1>1 DEF Shifted, Leaves
  <2> QED BY <2>1, <2>2 DEF OthersKept, Leaves
<1>5. ASSUME ~(Len(h[b].keys) >= Len(h[a].keys) + 2) PROVE SentRight(h, s, a, b)
  <2>1. s[b] = [h[b] EXCEPT !.keys = <<Last(h[a].keys)>> \o h[b].keys,
                            !.values = <<Last(h[a].values)>> \o h[b].values]
    BY <1>3, <1>5 DEF MoveOf
  <2>2. s[b].keys = <<Last(h[a].keys)>> \o h[b].keys
    BY <1>2, <2>1 DEF Node
  <2>3. h[a].keys # <<>>
    BY <1>2, <1>1, Lengths
  <2>4. Last(h[a].keys) = h[a].keys[Len(h[a].keys)] /\ Last(h[a].keys) \in Keys
    BY <1>1, <2>3, FrontIs
  <2>5. ConsOf(Last(h[a].keys), h[b].keys, s[b].keys)
    BY <1>1, <2>2, <2>4, Consed
  <2> QED BY <1>4, <2>4, <2>5 DEF SentRight
<1>6. ASSUME Len(h[b].keys) >= Len(h[a].keys) + 2 PROVE SentLeft(h, s, a, b)
  <2>1. s[a] = [h[a] EXCEPT !.keys = Append(h[a].keys, Head(h[b].keys)),
                            !.values = Append(h[a].values, Head(h[b].values))]
    BY <1>3, <1>6 DEF MoveOf
  <2>2. s[a].keys = Append(h[a].keys, Head(h[b].keys))
    BY <1>2, <2>1 DEF Node
  <2>3. h[b].keys # <<>>
    BY <1>2, <1>1, Lengths
  <2>4. Head(h[b].keys) = h[b].keys[1] /\ Head(h[b].keys) \in Keys
    BY <1>1, <2>3, TailIs
  <2>5. SnocOf(h[a].keys, Head(h[b].keys), s[a].keys)
    BY <1>1, <2>2, <2>4, Appended
  <2> QED BY <1>4, <2>4, <2>5 DEF SentLeft
<1> QED BY <1>5, <1>6

LEMMA LeafJoined ==
  ASSUME NEW h, NEW r, NEW c, Standing(h, r, c), NEW p, NEW i, NEW a, NEW b, Siblings(h, p, i, a, b),
         c \in {a, b}, h[a].outer, MayCoalesce(h, a, b), NEW s, s = Merge(h, a, b),
         NEW more, Shrunk(h, s, a, b, p, more)
  PROVE  SentAll(h, s, a, b)
<1>1. /\ a # b /\ p # a /\ p # b /\ a \in Leaves(h) /\ b \in Leaves(h)
      /\ h[a].keys \in Seq(Keys) /\ h[b].keys \in Seq(Keys) /\ ~h[p].outer
  <2>1. Kindred(h, p, a, b)
    BY KindredAre
  <2> QED BY <2>1 DEF Kindred
<1>2. MergedLeaves(h, a, b, p, i, s)
  <2>1. PICK t, lo, hi : Tree(h, r, NULL, NULL, t, lo, hi)
    BY DEF Standing
  <2> QED BY <2>1, LeavesToMerge
<1>3. s[a].keys = h[a].keys \o h[b].keys /\ s[a].outer
  BY <1>2 DEF MergedLeaves
<1>4. ConcatOf(h[a].keys, h[b].keys, s[a].keys)
  BY <1>1, <1>3, Joined
<1>5. a \in Alive(s) /\ \A m \in Alive(h) \ {a, b, p} : m \in Alive(s) /\ s[m].outer = h[m].outer /\ s[m].keys = h[m].keys
  BY <1>1 DEF Shrunk, Leaves
<1>6. ASSUME NEW m \in Leaves(h) \ {a, b} PROVE m \in Leaves(s) /\ s[m].keys = h[m].keys
  <2>1. m \in Alive(h) \ {a, b, p} /\ h[m].outer
    BY <1>1 DEF Leaves
  <2> QED BY <1>5, <2>1 DEF Leaves
<1> QED BY <1>3, <1>4, <1>5, <1>6 DEF SentAll, OthersKept, Leaves

(***************************************************************************)
(* Erase returns the successor.                                            *)
(***************************************************************************)

(* Where the iterator may be while the leaf n is looked at: in it, or at   *)
(* the start of the next.                                                  *)
At(h, n, it) == it[1] \in {NULL, n} \/ (it[1] = h[n].next /\ it[2] = 1)

(* An iterator that is moved with its element leads to the same key.       *)
LEMMA CarriedRight ==
  ASSUME NEW h, NEW s, NEW p, NEW a, NEW b, Kindred(h, p, a, b), h[a].outer, SentRight(h, s, a, b),
         Content(s) = Content(h), NEW it, NEW e, Leads(h, it, e), At(h, b, it),
         NEW jt, jt = IF it[1] = b THEN <<b, it[2] + 1>> ELSE it
  PROVE  Leads(s, jt, e)
<1>1. /\ a # b /\ b # NULL /\ Len(h[b].keys) >= 1 /\ h[b].keys \in Seq(Keys)
      /\ h[b].next # NULL => h[b].next \notin {a, b, p}
  BY DEF Kindred
<1>2. /\ \A m \in Leaves(h) \ {a, b} : m \in Leaves(s) /\ s[m].keys = h[m].keys
      /\ b \in Leaves(s) /\ Len(s[b].keys) = Len(h[b].keys) + 1
      /\ \A j \in 1..Len(h[b].keys) : s[b].keys[j + 1] = h[b].keys[j]
  BY DEF SentRight, OthersKept, ConsOf
<1>3. it = End => jt = End
  BY <1>1 DEF End
<1>4. ASSUME NEW k, PointsTo(h, it, k) PROVE PointsTo(s, jt, k)
  <2>1. it[1] \in Leaves(h) /\ it[2] \in 1..Len(h[it[1]].keys) /\ h[it[1]].keys[it[2]] = k
    BY <1>4 DEF PointsTo
  <2>2. it[1] # NULL
    BY <2>1, MapAssumption DEF Leaves, Alive
  <2>3. CASE it[1] = b
    <3>1. jt[1] = b /\ jt[2] = it[2] + 1 /\ it[2] \in 1..Len(h[b].keys) /\ h[b].keys[it[2]] = k
      BY <2>1, <2>3
    <3>2. Len(h[b].keys) \in Nat
      BY <1>1
    <3>3. jt[2] \in 1..Len(s[b].keys)
      BY <1>2, <3>1, <3>2
    <3>4. s[b].keys[jt[2]] = k
      BY <1>2, <3>1
    <3> QED BY <1>2, <3>1, <3>3, <3>4 DEF PointsTo
  <2>4. CASE it[1] # b
    <3>1. jt = it /\ it[1] \in Leaves(h) \ {a, b}
      BY <1>1, <2>1, <2>2, <2>4 DEF At
    <3>2. it[1] \in Leaves(s) /\ s[it[1]].keys = h[it[1]].keys
      BY <1>2, <3>1
    <3> QED BY <1>4, <3>1, <3>2, KeptPoints
  <2> QED BY <2>3, <2>4
<1> QED BY <1>3, <1>4, LeadsOn

LEMMA CarriedLeft ==
  ASSUME NEW h, NEW s, NEW p, NEW a, NEW b, Kindred(h, p, a, b), h[a].outer, SentLeft(h, s, a, b),
         Content(s) = Content(h), NEW it, NEW e, Leads(h, it, e), At(h, a, it),
         NEW jt, jt = IF it[1] = b THEN <<a, Len(s[a].keys)>> ELSE it
  PROVE  Leads(s, jt, e)
<1>1. /\ a # b /\ a # NULL /\ b # NULL /\ h[a].keys \in Seq(Keys) /\ h[a].next = b
  BY DEF Kindred
<1>2. /\ a \in Leaves(s) /\ Len(s[a].keys) = Len(h[a].keys) + 1
      /\ s[a].keys[Len(h[a].keys) + 1] = h[b].keys[1]
      /\ \A j \in 1..Len(h[a].keys) : s[a].keys[j] = h[a].keys[j]
  BY DEF SentLeft, SnocOf
<1>3. it = End => jt = End
  BY <1>1 DEF End
<1>4. Len(h[a].keys) \in Nat
  BY <1>1
<1>5. ASSUME NEW k, PointsTo(h, it, k) PROVE PointsTo(s, jt, k)
  <2>1. it[1] \in Leaves(h) /\ it[2] \in 1..Len(h[it[1]].keys) /\ h[it[1]].keys[it[2]] = k
    BY <1>5 DEF PointsTo
  <2>2. it[1] # NULL
    BY <2>1, MapAssumption DEF Leaves, Alive
  <2>3. CASE it[1] = b
    <3>1. jt[1] = a /\ jt[2] = Len(s[a].keys) /\ it[2] = 1 /\ h[b].keys[1] = k
      BY <1>1, <2>1, <2>3 DEF At
    <3>2. jt[2] \in 1..Len(s[a].keys) /\ s[a].keys[jt[2]] = k
      BY <1>2, <1>4, <3>1
    <3> QED BY <1>2, <3>1, <3>2 DEF PointsTo
  <2>4. CASE it[1] # b
    <3>1. jt = it /\ it[1] = a
      BY <1>1, <2>1, <2>2, <2>4 DEF At
    <3>2. it[2] \in 1..Len(h[a].keys) /\ h[a].keys[it[2]] = k
      BY <2>1, <3>1
    <3>3. it[2] \in 1..Len(s[a].keys) /\ s[a].keys[it[2]] = k
      BY <1>2, <1>4, <3>2
    <3> QED BY <1>2, <3>1, <3>3 DEF PointsTo
  <2> QED BY <2>3, <2>4
<1> QED BY <1>3, <1>5, LeadsOn

LEMMA CarriedInto ==
  ASSUME NEW h, NEW s, NEW p, NEW a, NEW b, Kindred(h, p, a, b), h[a].outer, SentAll(h, s, a, b),
         Content(s) = Content(h), NEW it, NEW e, Leads(h, it, e),
         it[1] \in {NULL, a, b} \/ it[1] = h[b].next,
         NEW jt, jt = IF it[1] = b THEN <<a, Len(h[a].keys) + it[2]>> ELSE it
  PROVE  Leads(s, jt, e)
<1>1. /\ a # b /\ a # NULL /\ b # NULL /\ h[a].keys \in Seq(Keys) /\ h[b].keys \in Seq(Keys)
      /\ h[b].next # NULL => h[b].next \notin {a, b, p}
  BY DEF Kindred
<1>2. /\ \A m \in Leaves(h) \ {a, b} : m \in Leaves(s) /\ s[m].keys = h[m].keys
      /\ a \in Leaves(s) /\ Len(s[a].keys) = Len(h[a].keys) + Len(h[b].keys)
      /\ \A j \in 1..Len(h[a].keys) : s[a].keys[j] = h[a].keys[j]
      /\ \A j \in 1..Len(h[b].keys) : s[a].keys[Len(h[a].keys) + j] = h[b].keys[j]
  BY DEF SentAll, OthersKept, ConcatOf
<1>3. it = End => jt = End
  BY <1>1 DEF End
<1> DEFINE la == Len(h[a].keys)
           lb == Len(h[b].keys)
<1>4. /\ la \in Nat /\ lb \in Nat /\ Len(s[a].keys) = la + lb
      /\ \A j \in 1..la : s[a].keys[j] = h[a].keys[j]
      /\ \A j \in 1..lb : s[a].keys[la + j] = h[b].keys[j]
  BY <1>1, <1>2
<1>5. ASSUME NEW k, PointsTo(h, it, k) PROVE PointsTo(s, jt, k)
  <2>1. it[1] \in Leaves(h) /\ it[2] \in 1..Len(h[it[1]].keys) /\ h[it[1]].keys[it[2]] = k
    BY <1>5 DEF PointsTo
  <2>2. it[1] # NULL
    BY <2>1, MapAssumption DEF Leaves, Alive
  <2>3. CASE it[1] = b
    <3>1. jt[1] = a /\ jt[2] = la + it[2] /\ it[2] \in 1..lb /\ h[b].keys[it[2]] = k
      BY <2>1, <2>3
    <3> HIDE DEF la, lb
    <3>2. jt[2] \in 1..Len(s[a].keys)
      BY <1>4, <3>1
    <3>3. s[a].keys[la + it[2]] = h[b].keys[it[2]]
      BY <1>4, <3>1
    <3> QED BY <1>2, <3>1, <3>2, <3>3 DEF PointsTo
  <2>4. CASE it[1] = a
    <3>1. jt = it /\ it[2] \in 1..la /\ h[a].keys[it[2]] = k
      BY <1>1, <2>1, <2>4
    <3> HIDE DEF la, lb
    <3>2. it[2] \in 1..Len(s[a].keys) /\ s[a].keys[it[2]] = k
      BY <1>4, <3>1
    <3> QED BY <1>2, <2>4, <3>1, <3>2 DEF PointsTo
  <2>5. CASE it[1] \notin {a, b}
    <3>1. jt = it /\ it[1] \in Leaves(h) \ {a, b}
      BY <1>1, <2>1, <2>2, <2>5
    <3>2. it[1] \in Leaves(s) /\ s[it[1]].keys = h[it[1]].keys
      BY <1>2, <3>1
    <3> QED BY <1>5, <3>1, <3>2, KeptPoints
  <2> QED BY <2>3, <2>4, <2>5
<1> QED BY <1>3, <1>5, LeadsOn

(* A sparse leaf is given a key, and does not give one.                    *)
LEMMA SparseTakes ==
  ASSUME NEW h, NEW r, NEW c, Standing(h, r, c), NEW p, NEW i, NEW a, NEW b, Siblings(h, p, i, a, b),
         c \in {a, b}, h[a].outer, MayRedistribute(h, a, b), IsSparse(h[c]),
         NEW s, s = OuterRedistribute(h, a, b)
  PROVE  /\ c = a => SentLeft(h, s, a, b)
         /\ c = b => SentRight(h, s, a, b)
<1>1. PICK t, lo, hi : Tree(h, r, NULL, NULL, t, lo, hi)
  BY DEF Standing
<1>2. /\ a # b
      /\ \A m \in {a, b} : h[m] \in Node /\ NodeFilled(h[m], FALSE, m = c) /\ NodeFilled(h[m], FALSE, TRUE)
  <2>1. LookedAt(h, r, c, p, a, b)
    BY SiblingsFilled
  <2> QED BY <2>1 DEF LookedAt, Siblings
<1>3. h[b].outer
  BY <1>1, SiblingLeaves
<1>4. \A m \in {a, b} : Len(h[m].keys) + 1 >= OuterFanout \div 2 /\ h[m].keys # <<>> /\ ~IsFull(h[m])
  BY <1>2, <1>3, LooseLeaf
<1>5. s[a].outer /\ s[b].outer
  <2>1. MovedElement(h, a, b, s)
    BY <1>1, <1>4, LeavesToMove
  <2> QED BY <2>1 DEF MovedElement
<1>6. Shifted(h, s, a, b, p)
  BY LeafMoveStands
<1> DEFINE la == Len(h[a].keys)
           lb == Len(h[b].keys)
           f == OuterFanout \div 2
<1>7. la \in Nat /\ lb \in Nat /\ f \in Nat
  BY <1>2, <1>3, Lengths
<1>8. (lb >= la + 2 => SentLeft(h, s, a, b)) /\ (~(lb >= la + 2) => SentRight(h, s, a, b))
  BY <1>5, <1>6, LeafSent
<1>9. (IsSparse(h[a]) <=> la < f) /\ (IsSparse(h[b]) <=> lb < f)
  BY <1>3 DEF IsSparse, Fanout
<1>10. lb >= la + 2 \/ la >= lb + 2
  BY DEF MayRedistribute
<1>11. CASE c = a
  <2>1. (b = c) = FALSE
    BY <1>2, <1>11
  <2>2. NodeFilled(h[b], FALSE, FALSE)
    BY <1>2, <2>1
  <2>3. ~IsSparse(h[b]) /\ IsSparse(h[a])
    BY <1>3, <1>11, <2>2 DEF NodeFilled
  <2> HIDE DEF la, lb, f
  <2>4. lb >= la + 2
    BY <1>7, <1>9, <1>10, <2>3
  <2> QED BY <1>2, <1>8, <1>11, <2>4
<1>12. CASE c = b
  <2>1. (a = c) = FALSE
    BY <1>2, <1>12
  <2>2. NodeFilled(h[a], FALSE, FALSE)
    BY <1>2, <2>1
  <2>3. ~IsSparse(h[a]) /\ IsSparse(h[b])
    BY <1>3, <1>12, <2>2 DEF NodeFilled
  <2> HIDE DEF la, lb, f
  <2>4. ~(lb >= la + 2)
    BY <1>7, <1>9, <1>10, <2>3
  <2> QED BY <1>2, <1>8, <1>12, <2>4
<1> QED BY <1>11, <1>12

(* The rounds of the loop in Erase carry the iterator along.               *)
LEMMA RedistributeLeftCarries ==
  ASSUME Inv, IteratorInv, RedistributeLeft
  PROVE  IteratorInv'
<1> SUFFICES ASSUME erased' # 0, root' # NULL PROVE Leads(heap', next', erased')
  BY DEF IteratorInv, RedistributeLeft, Return
<1> DEFINE left == LeftNode(current)
<1>1. /\ pc = "rebalance" /\ current # root /\ left # NULL /\ MayRedistribute(heap, left, current)
      /\ IsSparse(heap[current])
      /\ heap' = Redistribute(heap, left, current)
      /\ next' = IF heap[current].outer /\ next[1] = current THEN <<current, next[2] + 1>> ELSE next
      /\ root' = root /\ erased' = erased
  BY DEF RedistributeLeft, Rebalancing, Return, FromLeft
<1>2. Standing(heap, root, current) /\ current \in Alive(heap) /\ root # NULL
  BY <1>1 DEF Inv, Sound
<1>3. PICK i : Siblings(heap, heap[current].parent, i, left, current)
  BY <1>1, <1>2, NeighboursAre
<1>4. Leads(heap, next, erased) /\ Beside(heap, current, next)
  BY <1>1, <1>2 DEF IteratorInv
<1> DEFINE p == heap[current].parent
<1>5. Siblings(heap, p, i, left, current)
  BY <1>3
<1> HIDE DEF left, p
<1>6. Content(heap') = Content(heap) /\ Shifted(heap, heap', left, current, p)
  BY <1>1, <1>2, <1>5, MoveStands
<1>7. Kindred(heap, p, left, current)
  BY <1>2, <1>5, KindredAre
<1>8. CASE heap[left].outer
  <2>1. heap[current].outer
    BY <1>7, <1>8 DEF Kindred, Leaves
  <2>2. heap' = OuterRedistribute(heap, left, current)
    BY <1>1, <1>8 DEF Redistribute
  <2>3. SentRight(heap, heap', left, current)
    BY <1>1, <1>2, <1>5, <1>8, <2>2, SparseTakes
  <2>4. At(heap, current, next)
    BY <1>4, <2>1 DEF Beside, At
  <2>5. next' = IF next[1] = current THEN <<current, next[2] + 1>> ELSE next
    BY <1>1, <2>1
  <2>6. Leads(heap', next', erased)
    BY <1>4, <1>6, <1>7, <1>8, <2>3, <2>4, <2>5, CarriedRight
  <2> QED BY <1>1, <2>6
<1>9. CASE ~heap[left].outer
  <2>1. ~heap[current].outer
    BY <1>7, <1>9 DEF Kindred
  <2>2. SameLeaves(heap, heap')
    BY <1>5, <1>6, <1>9, <2>1, ShiftKeepsLeaves
  <2>3. Leads(heap', next, erased)
    BY <1>4, <1>6, <2>2, KeptLeads
  <2> QED BY <1>1, <2>1, <2>3
<1> QED BY <1>8, <1>9

LEMMA RedistributeRightCarries ==
  ASSUME Inv, IteratorInv, RedistributeRight
  PROVE  IteratorInv'
<1> SUFFICES ASSUME erased' # 0, root' # NULL PROVE Leads(heap', next', erased')
  BY DEF IteratorInv, RedistributeRight, Return
<1> DEFINE right == RightNode(current)
<1>1. /\ pc = "rebalance" /\ current # root /\ right # NULL /\ MayRedistribute(heap, current, right)
      /\ IsSparse(heap[current])
      /\ heap' = Redistribute(heap, current, right)
      /\ next' = IF heap[current].outer /\ next[1] = right THEN <<current, Len(heap'[current].keys)>> ELSE next
      /\ root' = root /\ erased' = erased
  BY DEF RedistributeRight, Rebalancing, Return, FromRight
<1>2. Standing(heap, root, current) /\ current \in Alive(heap) /\ root # NULL
  BY <1>1 DEF Inv, Sound
<1>3. PICK i : Siblings(heap, heap[current].parent, i, current, right)
  BY <1>1, <1>2, NeighboursAre
<1>4. Leads(heap, next, erased) /\ Beside(heap, current, next)
  BY <1>1, <1>2 DEF IteratorInv
<1> DEFINE p == heap[current].parent
<1>5. Siblings(heap, p, i, current, right)
  BY <1>3
<1> HIDE DEF right, p
<1>6. Content(heap') = Content(heap) /\ Shifted(heap, heap', current, right, p)
  BY <1>1, <1>2, <1>5, MoveStands
<1>7. Kindred(heap, p, current, right)
  BY <1>2, <1>5, KindredAre
<1>8. CASE heap[current].outer
  <2>2. heap' = OuterRedistribute(heap, current, right)
    BY <1>1, <1>8 DEF Redistribute
  <2>3. SentLeft(heap, heap', current, right)
    BY <1>1, <1>2, <1>5, <1>8, <2>2, SparseTakes
  <2>4. At(heap, current, next)
    BY <1>4, <1>8 DEF Beside, At
  <2>5. next' = IF next[1] = right THEN <<current, Len(heap'[current].keys)>> ELSE next
    BY <1>1, <1>8
  <2>6. Leads(heap', next', erased)
    BY <1>4, <1>6, <1>7, <1>8, <2>3, <2>4, <2>5, CarriedLeft
  <2> QED BY <1>1, <2>6
<1>9. CASE ~heap[current].outer
  <2>1. ~heap[right].outer
    BY <1>7, <1>9 DEF Kindred
  <2>2. SameLeaves(heap, heap')
    BY <1>5, <1>6, <1>9, <2>1, ShiftKeepsLeaves
  <2>3. Leads(heap', next, erased)
    BY <1>4, <1>6, <2>2, KeptLeads
  <2> QED BY <1>1, <1>9, <2>3
<1> QED BY <1>8, <1>9

LEMMA CoalesceLeftCarries ==
  ASSUME Inv, IteratorInv, CoalesceLeft
  PROVE  IteratorInv'
<1> DEFINE left == LeftNode(current)
<1>1. /\ pc = "rebalance" /\ current # root /\ left # NULL /\ ~MayRedistribute(heap, left, current)
      /\ IsSparse(heap[current]) /\ MayCoalesce(heap, left, current)
      /\ heap' = Merge(heap, left, current)
      /\ next' = IF heap[current].outer /\ next[1] = current
                 THEN <<left, next[2] + Len(heap[left].keys)>> ELSE next
      /\ root' = root /\ erased' = erased /\ pc' = pc /\ current' = heap[left].parent
  BY DEF CoalesceLeft, Rebalancing, IntoLeft, FromLeft
<1> SUFFICES ASSUME erased' # 0
             PROVE  Leads(heap', next', erased') /\ ~heap'[current'].outer
  BY <1>1 DEF IteratorInv, Beside
<1>2. Standing(heap, root, current) /\ current \in Alive(heap) /\ root # NULL /\ Typed
  BY <1>1 DEF Inv, Sound, Typed
<1>3. PICK i : Siblings(heap, heap[current].parent, i, left, current)
  BY <1>1, <1>2, NeighboursAre
<1>4. Leads(heap, next, erased) /\ Beside(heap, current, next)
  BY <1>1, <1>2 DEF IteratorInv
<1> DEFINE p == heap[current].parent
<1>5. Siblings(heap, p, i, left, current) /\ heap[left].parent = p
  BY <1>3 DEF Siblings
<1> HIDE DEF left, p
<1>6. Content(heap') = Content(heap) /\ \E more : Shrunk(heap, heap', left, current, p, more)
  BY <1>1, <1>2, <1>5, MergeStands
<1>7. PICK more : Shrunk(heap, heap', left, current, p, more)
  BY <1>6
<1>8. ~heap'[current'].outer
  BY <1>1, <1>5, <1>7 DEF Shrunk
<1>9. Kindred(heap, p, left, current)
  BY <1>2, <1>5, KindredAre
<1>10. CASE heap[left].outer
  <2>1. heap[current].outer
    BY <1>9, <1>10 DEF Kindred, Leaves
  <2>2. SentAll(heap, heap', left, current)
    BY <1>1, <1>2, <1>5, <1>7, <1>10, LeafJoined
  <2>3. next[1] \in {NULL, left, current} \/ next[1] = heap[current].next
    BY <1>4, <2>1 DEF Beside
  <2>4. next' = IF next[1] = current THEN <<left, Len(heap[left].keys) + next[2]>> ELSE next
    <3>1. heap[left].keys \in Seq(Keys)
      BY <1>9, <1>10 DEF Kindred
    <3>2. Len(heap[left].keys) \in Nat /\ next[2] \in Nat
      BY <1>2, <3>1 DEF Typed
    <3>3. next[2] + Len(heap[left].keys) = Len(heap[left].keys) + next[2]
      BY <3>2
    <3> QED BY <1>1, <2>1, <3>3
  <2>5. Leads(heap', next', erased)
    BY <1>4, <1>6, <1>9, <1>10, <2>2, <2>3, <2>4, CarriedInto
  <2> QED BY <1>1, <1>8, <2>5
<1>11. CASE ~heap[left].outer
  <2>1. ~heap[current].outer
    BY <1>9, <1>11 DEF Kindred
  <2>2. SameLeaves(heap, heap')
    BY <1>5, <1>7, <1>11, <2>1, ShrinkKeepsLeaves
  <2>3. Leads(heap', next, erased)
    BY <1>4, <1>6, <2>2, KeptLeads
  <2> QED BY <1>1, <1>8, <2>1, <2>3
<1> QED BY <1>10, <1>11

LEMMA CoalesceRightCarries ==
  ASSUME Inv, IteratorInv, CoalesceRight
  PROVE  IteratorInv'
<1> DEFINE right == RightNode(current)
<1>1. /\ pc = "rebalance" /\ current # root /\ right # NULL /\ ~MayRedistribute(heap, current, right)
      /\ IsSparse(heap[current]) /\ MayCoalesce(heap, current, right)
      /\ heap' = Merge(heap, current, right)
      /\ next' = IF heap[current].outer /\ next[1] = right
                 THEN <<current, Len(heap[current].keys) + 1>> ELSE next
      /\ root' = root /\ erased' = erased /\ pc' = pc /\ current' = heap[current].parent
  BY DEF CoalesceRight, Rebalancing, FromRightAll, FromRight
<1> SUFFICES ASSUME erased' # 0
             PROVE  Leads(heap', next', erased') /\ ~heap'[current'].outer
  BY <1>1 DEF IteratorInv, Beside
<1>2. Standing(heap, root, current) /\ current \in Alive(heap) /\ root # NULL
  BY <1>1 DEF Inv, Sound
<1>3. PICK i : Siblings(heap, heap[current].parent, i, current, right)
  BY <1>1, <1>2, NeighboursAre
<1>4. Leads(heap, next, erased) /\ Beside(heap, current, next)
  BY <1>1, <1>2 DEF IteratorInv
<1> DEFINE p == heap[current].parent
<1>5. Siblings(heap, p, i, current, right) /\ heap[current].parent = p
  BY <1>3
<1> HIDE DEF right, p
<1>6. Content(heap') = Content(heap) /\ \E more : Shrunk(heap, heap', current, right, p, more)
  BY <1>1, <1>2, <1>5, MergeStands
<1>7. PICK more : Shrunk(heap, heap', current, right, p, more)
  BY <1>6
<1>8. ~heap'[current'].outer
  BY <1>1, <1>5, <1>7 DEF Shrunk
<1>9. Kindred(heap, p, current, right)
  BY <1>2, <1>5, KindredAre
<1>10. CASE heap[current].outer
  <2>1. heap[current].next = right /\ current # right /\ right # NULL
    BY <1>9, <1>10 DEF Kindred
  <2>2. SentAll(heap, heap', current, right)
    BY <1>1, <1>2, <1>5, <1>7, <1>10, LeafJoined
  <2>3. next[1] \in {NULL, current, right} /\ (next[1] = right => next[2] = 1)
    BY <1>4, <1>10, <2>1 DEF Beside
  <2>4. next' = IF next[1] = right THEN <<current, Len(heap[current].keys) + next[2]>> ELSE next
    BY <1>1, <1>10, <2>3
  <2>5. Leads(heap', next', erased)
    BY <1>4, <1>6, <1>9, <1>10, <2>2, <2>3, <2>4, CarriedInto
  <2> QED BY <1>1, <1>8, <2>5
<1>11. CASE ~heap[current].outer
  <2>1. ~heap[right].outer
    BY <1>9, <1>11 DEF Kindred
  <2>2. SameLeaves(heap, heap')
    BY <1>5, <1>7, <1>11, <2>1, ShrinkKeepsLeaves
  <2>3. Leads(heap', next, erased)
    BY <1>4, <1>6, <2>2, KeptLeads
  <2> QED BY <1>1, <1>8, <1>11, <2>3
<1> QED BY <1>10, <1>11

(***************************************************************************)
(* What Erase starts with.                                                 *)
(***************************************************************************)
LEMMA EraseLeads ==
  ASSUME NEW h, NEW r, Standing(h, r, NULL), NEW n \in Leaves(h), NEW i \in 1..Len(h[n].keys),
         NEW s, s = OuterErase(h, n, i), n # r \/ s[n].keys # <<>>,
         NEW it, it = AfterErase(s, n, i), NEW e, e = h[n].keys[i]
  PROVE  Leads(s, it, e) /\ Beside(s, n, it)
<1>1. PICK t, lo, hi : Tree(h, r, NULL, NULL, t, lo, hi)
  BY DEF Standing
<1>2. h \in Heaps /\ Len(h[n].values) = Len(h[n].keys)
  BY <1>1 DEF Tree, Shape
<1>3. RemovedLeaf(h, s, n, i)
  BY <1>2, OuterEraseIs
<1>4. /\ LeafChange(h, s, n) /\ RemoveOf(h[n].keys, i, s[n].keys)
  BY <1>3 DEF RemovedLeaf
<1>5. /\ Leaves(s) = Leaves(h) /\ s[n].next = h[n].next /\ s[n].outer
      /\ \A m \in Leaves(h) \ {n} : s[m] = h[m]
  <2>1. /\ Leaves(s) = Leaves(h) /\ (\A m \in Alive(h) : Links(s[m], h[m]))
        /\ \A m \in Alive(h) \ {n} : s[m] = h[m]
    BY <1>4, LeafChangeAlive
  <2>2. n \in Alive(h) /\ \A m \in Leaves(h) : m \in Alive(h)
    BY DEF Leaves
  <2>3. s[n].outer
    BY <1>4 DEF LeafChange
  <2> QED BY <2>1, <2>2, <2>3 DEF Links
<1>6. LeafAt(h, lo, hi, n)
  BY <1>1, LeafPlace
<1>7. n \in Alive(h) /\ h[n].outer /\ h[n] \in Node /\ n \in NodeIds /\ n # NULL
  <2>1. n \in Alive(h) /\ h[n].outer
    BY DEF Leaves
  <2> QED BY <1>2, <2>1, AliveIs, MapAssumption
<1>8. ASSUME h[n].next # NULL
      PROVE  h[n].next \in Leaves(h) \ {n} /\ Len(h[h[n].next].keys) >= 1
  <2> DEFINE x == h[n].next
  <2>1. x \in Leaves(h) /\ lo[x] = hi[n] /\ hi[n] # 0
    BY <1>1, <1>8 DEF Tree, Chained
  <2>2. x # n
    <3>1. lo[n] \in Nat /\ hi[n] \in Nat /\ lo[n] < hi[n]
      BY <1>6, <2>1 DEF LeafAt, Under
    <3> HIDE DEF x
    <3> QED BY <2>1, <3>1
  <2> HIDE DEF x
  <2>3. x \in Alive(h) /\ h[x].outer /\ h[x] \in Node /\ x # NULL
    <3>1. x \in Alive(h) /\ h[x].outer
      BY <2>1 DEF Leaves
    <3> QED BY <1>2, <3>1, AliveIs, MapAssumption
  <2>4. h[x].keys # <<>>
    <3>1. NodeFilled(h[x], x = r, x = NULL)
      BY <2>3, FilledIs DEF Standing
    <3>2. (x = NULL) = FALSE
      BY <2>3
    <3>3. NodeFilled(h[x], x = r, FALSE)
      BY <3>1, <3>2
    <3>4. CASE x = r
      BY <2>3, <3>3, <3>4 DEF NodeFilled
    <3>5. CASE x # r
      <4>1. ~IsSparse(h[x])
        BY <2>3, <3>3, <3>5 DEF NodeFilled
      <4>2. Len(h[x].keys) \in Nat /\ Fanout(h[x]) \div 2 \in Nat /\ Fanout(h[x]) \div 2 >= 1
        BY <2>3, Lengths
      <4>3. Len(h[x].keys) >= 1
        BY <4>1, <4>2 DEF IsSparse
      <4> QED BY <2>3, <4>3, Lengths
    <3> QED BY <3>4, <3>5
  <2>5. Len(h[x].keys) >= 1
    BY <2>3, <2>4, Lengths
  <2> QED BY <2>1, <2>2, <2>5 DEF x
<1> DEFINE l == Len(h[n].keys)
<1>9. /\ l \in Nat /\ i \in 1..l /\ s[n].keys \in Seq(Keys) /\ Len(s[n].keys) = l - 1
      /\ \A j \in i..(l - 1) : s[n].keys[j] = h[n].keys[j + 1]
  <2>1. s[n] \in Node
    BY <1>4 DEF LeafChange
  <2>2. l \in Nat /\ s[n].keys \in Seq(Keys)
    BY <1>6, <2>1 DEF LeafAt, Node
  <2> QED BY <1>4, <2>2 DEF RemoveOf
<1>10. Above(s, e) = Above(h, e)
  <2>1. Held(s) = Held(h) \ {e}
    BY <1>1, <1>3, EraseKeepsTree
  <2>2. e \in Nat
    BY <1>6 DEF LeafAt
  <2>3. ~(e > e)
    BY <2>2
  <2> QED BY <2>1, <2>3 DEF Above
<1>11. /\ i < l => IsLeast(h[n].keys[i + 1], Above(h, e))
       /\ i = l /\ h[n].next # NULL => IsLeast(h[h[n].next].keys[1], Above(h, e))
       /\ i = l /\ h[n].next = NULL => Above(h, e) = {}
  BY <1>1, <1>8, NextKey
<1>12. CASE i < l
  <2>1. it = <<n, i>>
    <3>1. i # Len(s[n].keys) + 1
      <4> HIDE DEF l
      <4> QED BY <1>9, <1>12
    <3> QED BY <3>1 DEF AfterErase
  <2>2. i \in 1..Len(s[n].keys) /\ s[n].keys[i] = h[n].keys[i + 1]
    <3> HIDE DEF l
    <3> QED BY <1>9, <1>12
  <2>3. PointsTo(s, it, h[n].keys[i + 1])
    BY <1>5, <2>1, <2>2 DEF PointsTo
  <2>4. IsLeast(h[n].keys[i + 1], Above(s, e))
    BY <1>10, <1>11, <1>12
  <2>5. Leads(s, it, e)
    BY <2>3, <2>4 DEF Leads, IsLeast
  <2> QED BY <2>1, <2>5 DEF Beside
<1>13. CASE ~(i < l)
  <2>1. i = l /\ i = Len(s[n].keys) + 1
    <3> HIDE DEF l
    <3> QED BY <1>9, <1>13
  <2>2. it = Incremented(s, <<n, i>>)
    BY <2>1 DEF AfterErase
  <2>3. Len(s[n].keys) > 0
    <3>1. l >= 2
      <4>1. CASE n = r
        <5>1. s[n].keys # <<>>
          BY <4>1
        <5>2. Len(s[n].keys) \in Nat /\ Len(s[n].keys) # 0
          BY <1>9, <5>1
        <5> HIDE DEF l
        <5> QED BY <1>9, <5>2
      <4>2. CASE n # r
        <5>1. NodeFilled(h[n], n = r, n = NULL)
          BY <1>7, FilledIs DEF Standing
        <5>2. (n = NULL) = FALSE /\ (n = r) = FALSE
          BY <1>7, <4>2
        <5>3. NodeFilled(h[n], FALSE, FALSE)
          BY <5>1, <5>2
        <5>4. ~IsSparse(h[n])
          BY <1>7, <5>3 DEF NodeFilled
        <5>5. Fanout(h[n]) \div 2 \in Nat /\ Fanout(h[n]) \div 2 >= 2
          BY <1>7, Lengths
        <5>6. ~(l < Fanout(h[n]) \div 2)
          BY <5>4 DEF IsSparse
        <5> DEFINE f == Fanout(h[n]) \div 2
        <5>7. f \in Nat /\ f >= 2 /\ ~(l < f)
          BY <5>5, <5>6
        <5> HIDE DEF l, f
        <5> QED BY <1>9, <5>7
      <4> QED BY <4>1, <4>2
    <3> HIDE DEF l
    <3> QED BY <1>9, <3>1
  <2>4. it = IF h[n].next = NULL THEN End ELSE <<h[n].next, 1>>
    <3>1. i >= Len(s[n].keys)
      <4> HIDE DEF l
      <4> QED BY <1>9, <2>1
    <3> QED BY <1>5, <2>2, <2>3, <3>1 DEF Incremented
  <2>5. CASE h[n].next = NULL
    <3>1. Above(s, e) = {} /\ it = End
      BY <1>10, <1>11, <2>1, <2>4, <2>5
    <3> QED BY <3>1 DEF Leads, Beside, End
  <2>6. CASE h[n].next # NULL
    <3> DEFINE x == h[n].next
    <3>1. x \in Leaves(h) \ {n} /\ Len(h[x].keys) >= 1 /\ it = <<x, 1>>
      BY <1>8, <2>4, <2>6
    <3>2. IsLeast(h[x].keys[1], Above(s, e))
      BY <1>10, <1>11, <2>1, <2>6
    <3>3. Beside(s, n, it)
      BY <1>5, <3>1 DEF Beside
    <3> HIDE DEF x
    <3>4. s[x] = h[x] /\ x \in Leaves(s)
      BY <1>5, <3>1
    <3>5. LeafAt(h, lo, hi, x)
      BY <1>1, <3>1, LeafPlace
    <3>6. Len(h[x].keys) \in Nat
      BY <3>5 DEF LeafAt
    <3>7. 1 \in 1..Len(s[x].keys)
      BY <3>1, <3>4, <3>6
    <3>8. PointsTo(s, it, h[x].keys[1])
      BY <3>1, <3>4, <3>7 DEF PointsTo
    <3>9. Leads(s, it, e)
      BY <3>2, <3>8 DEF Leads, IsLeast
    <3> QED BY <3>3, <3>9
  <2> QED BY <2>5, <2>6
<1> QED BY <1>9, <1>12, <1>13

LEMMA EraseCarries ==
  ASSUME Inv, NEW k \in Keys, Erase(k)
  PROVE  IteratorInv'
<1> DEFINE n == Locate(k)
           i == Position(heap[n].keys, k)
           h == OuterErase(heap, n, i)
<1>1. /\ pc = "idle" /\ root # NULL /\ Contained(k)
      /\ erased' = k /\ next' = AfterErase(h, n, i)
  BY DEF Erase
<1>2. Standing(heap, root, NULL)
  BY <1>1 DEF Inv, Sound
<1>3. FoundAt(n, k) /\ k \in Held(heap)
  BY <1>1, <1>2, LocateFinds, ContainedIs
<1>4. CASE n = root /\ h[n].keys = <<>>
  <2>1. root' = NULL /\ pc' = "idle"
    BY <1>1, <1>4 DEF Erase, call
  <2> QED BY <2>1 DEF IteratorInv
<1>5. CASE ~(n = root /\ h[n].keys = <<>>)
  <2>1. heap' = h /\ root' = root /\ pc' = "rebalance" /\ current' = n
    BY <1>5 DEF Erase
  <2> HIDE DEF n
  <2>2. n \in Leaves(heap) /\ i \in 1..Len(heap[n].keys) /\ heap[n].keys[i] = k
    BY <1>3 DEF FoundAt
  <2> HIDE DEF i
  <2>3. h = OuterErase(heap, n, i)
    OBVIOUS
  <2> HIDE DEF h
  <2>4. n # root \/ h[n].keys # <<>>
    BY <1>5
  <2>5. Leads(h, next', k) /\ Beside(h, n, next')
    BY <1>1, <1>2, <2>2, <2>3, <2>4, EraseLeads
  <2>6. Leads(heap', next', erased') /\ Beside(heap', current', next')
    BY <1>1, <2>1, <2>5
  <2> QED BY <2>1, <2>6 DEF IteratorInv
<1> QED BY <1>4, <1>5

LEMMA EnoughKeysCarries ==
  ASSUME IteratorInv, EnoughKeys
  PROVE  IteratorInv'
BY DEF IteratorInv, EnoughKeys, Rebalancing, Return, tree

LEMMA EndAtRootCarries ==
  ASSUME Inv, IteratorInv, EndAtRoot
  PROVE  IteratorInv'
<1>1. /\ pc = "rebalance" /\ current = root
      /\ next' = next /\ erased' = erased /\ pc' = "idle"
  BY DEF EndAtRoot, Return
<1>2. Standing(heap, root, root) /\ root \in Alive(heap) /\ root # NULL
  BY <1>1 DEF Inv, Sound
<1>3. Ends(heap, root)
  BY <1>2, EndStands
<1>4. CASE ~(~heap[root].outer /\ heap[root].keys = <<>>)
  BY <1>1, <1>2, <1>4 DEF EndAtRoot, IteratorInv
<1>5. CASE ~heap[root].outer /\ heap[root].keys = <<>>
  <2> DEFINE m == heap[root].kids[1]
  <2>1. root' = m /\ heap' = [heap EXCEPT ![root] = Freed, ![root'].parent = NULL]
    BY <1>5 DEF EndAtRoot
  <2>2. m \in NodeIds /\ Content(heap') = Content(heap)
    BY <1>3, <1>5, <2>1 DEF Ends
  <2>3. heap \in Heaps
    BY <1>2 DEF Standing, Tree, Shape
  <2>4. Standing(heap', m, NULL)
    BY <1>3, <1>5, <2>1 DEF Ends
  <2>5. heap' \in Heaps /\ m \in Alive(heap')
    BY <2>4 DEF Standing, Tree, Shape
  <2> HIDE DEF m
  <2>6. SameLeaves(heap, heap')
    <3> SUFFICES ASSUME NEW x \in Leaves(heap) PROVE x \in Leaves(heap') /\ heap'[x].keys = heap[x].keys
      BY DEF SameLeaves
    <3>1. x \in NodeIds /\ x # root /\ heap[x] \in Node /\ heap[x] # Freed /\ heap[x].outer
      <4>1. x \in Alive(heap) /\ heap[x].outer
        BY DEF Leaves
      <4> QED BY <1>5, <2>3, <4>1, AliveIs DEF Alive
    <3>2. CASE x # m
      <4>1. heap'[x] = heap[x]
        BY <2>1, <2>3, <3>1, <3>2 DEF Heaps
      <4> QED BY <3>1, <4>1 DEF Leaves, Alive
    <3>3. CASE x = m
      <4>1. heap'[x] = [heap[x] EXCEPT !.parent = NULL]
        BY <2>1, <2>3, <3>1, <3>3 DEF Heaps
      <4>2. heap'[x].keys = heap[x].keys /\ heap'[x].outer = heap[x].outer
        BY <3>1, <4>1 DEF Node
      <4> QED BY <2>5, <3>1, <3>3, <4>2 DEF Leaves
    <3> QED BY <3>2, <3>3
  <2>7. IteratorInv => erased = 0 \/ Leads(heap, next, erased)
    BY <1>1, <1>2 DEF IteratorInv
  <2>8. erased = 0 \/ Leads(heap', next, erased)
    BY <2>2, <2>6, <2>7, KeptLeads
  <2> QED BY <1>1, <2>8 DEF IteratorInv
<1> QED BY <1>4, <1>5

(* While Erase runs, its iterator leads to the successor.                  *)
LEMMA IteratorHolds == Spec => []IteratorInv
<1>1. Init => IteratorInv
  BY DEF Init, IteratorInv
<1>2. Inv /\ IteratorInv /\ [Next]_vars => IteratorInv'
  <2> SUFFICES ASSUME Inv, IteratorInv, [Next]_vars PROVE IteratorInv'
    OBVIOUS
  <2>1. ASSUME NEW k \in Keys, InsertFirst(k) PROVE IteratorInv'
    BY <2>1 DEF InsertFirst, IteratorInv
  <2>2. ASSUME NEW k \in Keys, Insert(k) PROVE IteratorInv'
    BY <2>2 DEF Insert, IteratorInv
  <2>3. ASSUME NEW k \in Keys, Erase(k) PROVE IteratorInv'
    BY <2>3, EraseCarries
  <2>4. ASSUME NEW k \in Updatable, Update(k) PROVE IteratorInv'
    BY <2>4 DEF Update, IteratorInv
  <2>5. CASE UNCHANGED vars
    BY <2>5 DEF IteratorInv, vars, tree, call
  <2>6. CASE Clear
    BY <2>6 DEF Clear, IteratorInv
  <2>7. CASE PropagateToRoot
    BY <2>7 DEF PropagateToRoot, IteratorInv
  <2>8. CASE PropagateUpwards
    BY <2>8 DEF PropagateUpwards, IteratorInv
  <2> QED BY <2>1, <2>2, <2>3, <2>4, <2>5, <2>6, <2>7, <2>8, EnoughKeysCarries, RedistributeLeftCarries,
             RedistributeRightCarries, CoalesceLeftCarries, CoalesceRightCarries, EndAtRootCarries DEF Next
<1> QED BY <1>1, <1>2, InvHolds, PTL DEF Spec

Returned == pc = "idle" /\ erased # 0 /\ root # NULL => IteratorIsSuccessor

(* So it does when Erase returns.                                          *)
LEMMA SuccessorReturned ==
  ASSUME Inv, IteratorInv
  PROVE  Returned
<1> SUFFICES ASSUME pc = "idle", erased # 0, root # NULL PROVE IteratorIsSuccessor
  BY DEF Returned
<1>1. Leads(heap, next, erased)
  BY DEF IteratorInv
<1>2. PICK k, c, t, lo, hi : Tree(heap, root, k, c, t, lo, hi)
  BY SomeTree
<1>3. KeysHeld = Held(heap)
  <2>1. Written("keys") \in Seq(Keys) /\ Elements(Written("keys")) = Held(heap)
    BY <1>2, KeysWritten
  <2> QED BY <2>1, ToSetIs DEF KeysHeld
<1> DEFINE above == {l \in KeysHeld : l > erased}
<1>4. above = Above(heap, erased)
  BY <1>3 DEF Above
<1>5. above \subseteq Nat
  <2>1. Held(heap) \subseteq Nat
    <3>1. Written("keys") \in Seq(Keys) /\ Elements(Written("keys")) = Held(heap)
      BY <1>2, KeysWritten
    <3> DEFINE w == Written("keys")
    <3> HIDE DEF w
    <3>2. w \in Seq(Keys) => Elements(w) \subseteq Keys
      BY DEF Elements
    <3>3. Held(heap) \subseteq Keys
      BY <3>1, <3>2 DEF w
    <3> QED BY <3>3, MapAssumption
  <2> QED BY <1>3, <2>1
<1>6. CASE above = {}
  BY <1>1, <1>4, <1>6 DEF Leads, IteratorIsSuccessor
<1>7. CASE above # {}
  <2>1. PICK m \in above : PointsTo(heap, next, m) /\ \A l \in above : m <= l
    BY <1>1, <1>4, <1>7 DEF Leads
  <2>2. next[1] # NULL /\ heap[next[1]].keys[next[2]] = m
    BY <2>1, MapAssumption DEF PointsTo, Leaves, Alive
  <2>3. Min(above) \in above /\ \A y \in above : Min(above) <= y
    BY <1>5, <1>7, LeastIs
  <2> HIDE DEF above
  <2>4. m \in Nat /\ Min(above) \in Nat /\ m <= Min(above) /\ Min(above) <= m
    BY <1>5, <2>1, <2>3
  <2>5. m = Min(above)
    BY <2>4
  <2> QED BY <1>7, <2>2, <2>5 DEF above, IteratorIsSuccessor
<1> QED BY <1>6, <1>7

(* Erase, through every move of the rebalancing, returns the iterator at   *)
(* the key that follows the erased one.                                    *)
THEOREM EraseReturns == Spec => EraseReturnsSuccessor
<1>1. Returned' => (pc' = "idle" /\ erased' # 0 /\ root' # NULL => IteratorIsSuccessor')
  BY DEF Returned
<1> QED BY <1>1, SuccessorReturned, InvHolds, IteratorHolds, PTL DEF EraseReturnsSuccessor

(***************************************************************************)
(* The keys of the leaves with their values.                               *)
(***************************************************************************)
EntryAt(h, e, m, j) == m \in Leaves(h) /\ j \in 1..Len(h[m].keys) /\ e = <<h[m].keys[j], h[m].values[j]>>

LEMMA PairsAre ==
  ASSUME NEW h, NEW e
  PROVE  e \in Pairs(h) <=> \E m, j : EntryAt(h, e, m, j)
BY DEF Pairs, PairsOf, EntryAt

LEMMA PairsHeld ==
  ASSUME NEW h \in Heaps, NEW e \in Pairs(h)
  PROVE  e[1] \in Held(h)
<1>1. PICK m, j : EntryAt(h, e, m, j)
  BY PairsAre
<1> QED BY <1>1, HeldSomewhere DEF EntryAt

(* A key has one place.                                                    *)
LEMMA OnePlace ==
  ASSUME NEW h, NEW r, NEW k, NEW c, NEW t, NEW lo, NEW hi, Tree(h, r, k, c, t, lo, hi),
         NEW m \in Leaves(h), NEW j \in 1..Len(h[m].keys),
         NEW n \in Leaves(h), NEW i \in 1..Len(h[n].keys), h[m].keys[j] = h[n].keys[i]
  PROVE  m = n /\ j = i
<1>1. LeafAt(h, lo, hi, m) /\ LeafAt(h, lo, hi, n)
  BY LeafPlace
<1>2. m = n
  <2>1. SUFFICES ASSUME m # n PROVE FALSE
    OBVIOUS
  <2>2. (hi[m] # 0 /\ hi[m] <= lo[n]) \/ (hi[n] # 0 /\ hi[n] <= lo[m])
    BY <2>1, LeavesApart
  <2>3. /\ h[m].keys[j] \in Nat /\ h[m].keys[j] >= lo[m] /\ (hi[m] # 0 => h[m].keys[j] < hi[m])
        /\ h[n].keys[i] >= lo[n] /\ (hi[n] # 0 => h[n].keys[i] < hi[n])
        /\ lo[m] \in Nat /\ lo[n] \in Nat /\ hi[m] \in Nat /\ hi[n] \in Nat
    BY <1>1 DEF LeafAt
  <2> QED BY <2>2, <2>3
<1>3. j = i
  <2>1. /\ \A x, y \in 1..Len(h[n].keys) : x < y => h[n].keys[x] < h[n].keys[y]
        /\ h[n].keys[i] \in Nat /\ i \in Nat /\ j \in Nat /\ j \in 1..Len(h[n].keys)
    BY <1>1, <1>2 DEF LeafAt, Ascending
  <2>2. ~(j < i) /\ ~(i < j)
    BY <1>2, <2>1
  <2> QED BY <2>1, <2>2
<1> QED BY <1>2, <1>3

Others(S, k) == {e \in S : e[1] # k}

(* A key that is erased, inserted or updated in its leaf: no other pair    *)
(* changes.                                                                *)
LEMMA PairsErased ==
  ASSUME NEW h, NEW s, NEW n, NEW i \in 1..Len(h[n].keys), RemovedLeaf(h, s, n, i),
         NEW r, NEW k, NEW c, NEW t, NEW lo, NEW hi, Tree(h, r, k, c, t, lo, hi)
  PROVE  Pairs(s) = Others(Pairs(h), h[n].keys[i])
<1>1. LeafChange(h, s, n) /\ RemoveOf(h[n].keys, i, s[n].keys) /\ RemoveOf(h[n].values, i, s[n].values)
  BY DEF RemovedLeaf
<1>2. n \in Leaves(h) /\ Leaves(s) = Leaves(h) /\ \A m \in Leaves(h) \ {n} : s[m] = h[m]
  <2>1. Leaves(s) = Leaves(h) /\ \A m \in Alive(h) \ {n} : s[m] = h[m]
    BY <1>1, LeafChangeAlive
  <2> QED BY <1>1, <2>1 DEF LeafChange, Leaves
<1> DEFINE l == Len(h[n].keys)
<1>3. /\ l \in Nat /\ i \in 1..l /\ Len(h[n].values) = l /\ Len(s[n].keys) = l - 1
      /\ \A j \in 1..(i - 1) : s[n].keys[j] = h[n].keys[j] /\ s[n].values[j] = h[n].values[j]
      /\ \A j \in i..(l - 1) : s[n].keys[j] = h[n].keys[j + 1] /\ s[n].values[j] = h[n].values[j + 1]
  <2>1. LeafAt(h, lo, hi, n) /\ Len(h[n].values) = l
    BY <1>2, LeafPlace, LeafWithin
  <2>2. l \in Nat
    BY <2>1 DEF LeafAt
  <2> QED BY <1>1, <2>1, <2>2 DEF RemoveOf
<1> HIDE DEF l
<1>4. ASSUME NEW e \in Pairs(s) PROVE e \in Others(Pairs(h), h[n].keys[i])
  <2>1. PICK m, j : EntryAt(s, e, m, j)
    BY PairsAre
  <2>2. \E jj : EntryAt(h, e, m, jj) /\ (m # n \/ jj # i)
    <3>1. CASE m # n
      BY <1>2, <2>1, <3>1 DEF EntryAt
    <3>2. CASE m = n
      <4>1. j \in 1..(l - 1) /\ e = <<s[n].keys[j], s[n].values[j]>>
        BY <1>3, <2>1, <3>2 DEF EntryAt
      <4>2. CASE j < i
        <5>1. j \in 1..(i - 1) /\ j \in 1..l /\ j # i
          BY <1>3, <4>1, <4>2
        <5>2. e = <<h[n].keys[j], h[n].values[j]>>
          BY <1>3, <4>1, <5>1
        <5> QED BY <1>2, <3>2, <5>1, <5>2 DEF EntryAt, l
      <4>3. CASE ~(j < i)
        <5>1. j \in i..(l - 1) /\ j + 1 \in 1..l /\ j + 1 # i
          BY <1>3, <4>1, <4>3
        <5>2. e = <<h[n].keys[j + 1], h[n].values[j + 1]>>
          BY <1>3, <4>1, <5>1
        <5>3. EntryAt(h, e, m, j + 1)
          BY <1>2, <3>2, <5>1, <5>2 DEF EntryAt, l
        <5> QED BY <5>1, <5>3
      <4> QED BY <4>2, <4>3
    <3> QED BY <3>1, <3>2
  <2>3. PICK jj : EntryAt(h, e, m, jj) /\ (m # n \/ jj # i)
    BY <2>2
  <2>4. e[1] # h[n].keys[i]
    BY <1>2, <2>3, OnePlace DEF EntryAt
  <2>5. e \in Pairs(h)
    BY <2>3, PairsAre
  <2> QED BY <2>4, <2>5 DEF Others
<1>5. ASSUME NEW e \in Others(Pairs(h), h[n].keys[i]) PROVE e \in Pairs(s)
  <2>1. e \in Pairs(h) /\ e[1] # h[n].keys[i]
    BY DEF Others
  <2>2. PICK m, j : EntryAt(h, e, m, j)
    BY <2>1, PairsAre
  <2>3. \E jj : EntryAt(s, e, m, jj)
    <3>1. CASE m # n
      BY <1>2, <2>2, <3>1 DEF EntryAt
    <3>2. CASE m = n
      <4>1. j \in 1..l /\ e = <<h[n].keys[j], h[n].values[j]>> /\ j # i
        BY <2>1, <2>2, <3>2 DEF EntryAt, l
      <4>2. CASE j < i
        <5>1. j \in 1..(i - 1) /\ j \in 1..Len(s[n].keys)
          BY <1>3, <4>1, <4>2
        <5>2. e = <<s[n].keys[j], s[n].values[j]>>
          BY <1>3, <4>1, <5>1
        <5> QED BY <1>2, <3>2, <5>1, <5>2 DEF EntryAt
      <4>3. CASE ~(j < i)
        <5> DEFINE q == j - 1
        <5>1. q \in i..(l - 1) /\ q \in 1..Len(s[n].keys) /\ q + 1 = j
          BY <1>3, <4>1, <4>3
        <5> HIDE DEF q
        <5>2. e = <<s[n].keys[q], s[n].values[q]>>
          BY <1>3, <4>1, <5>1
        <5>3. EntryAt(s, e, m, q)
          BY <1>2, <3>2, <5>1, <5>2 DEF EntryAt
        <5> QED BY <5>3
      <4> QED BY <4>2, <4>3
    <3> QED BY <3>1, <3>2
  <2> QED BY <2>3, PairsAre
<1> QED BY <1>4, <1>5

LEMMA PairsInserted ==
  ASSUME NEW h \in Heaps, NEW s, NEW n, NEW i \in 1..(Len(h[n].keys) + 1), NEW key,
         InsertedLeaf(h, s, n, i, key), Len(h[n].values) = Len(h[n].keys)
  PROVE  Pairs(s) = Pairs(h) \cup {<<key, key>>}
<1>1. LeafChange(h, s, n) /\ InsertOf(h[n].keys, i, key, s[n].keys) /\ InsertOf(h[n].values, i, key, s[n].values)
  BY DEF InsertedLeaf
<1>2. n \in Leaves(h) /\ Leaves(s) = Leaves(h) /\ \A m \in Leaves(h) \ {n} : s[m] = h[m]
  <2>1. Leaves(s) = Leaves(h) /\ \A m \in Alive(h) \ {n} : s[m] = h[m]
    BY <1>1, LeafChangeAlive
  <2> QED BY <1>1, <2>1 DEF LeafChange, Leaves
<1> DEFINE l == Len(h[n].keys)
<1>3. /\ l \in Nat /\ i \in 1..(l + 1) /\ Len(s[n].keys) = l + 1
      /\ s[n].keys[i] = key /\ s[n].values[i] = key
      /\ \A j \in 1..(i - 1) : s[n].keys[j] = h[n].keys[j] /\ s[n].values[j] = h[n].values[j]
      /\ \A j \in i..l : s[n].keys[j + 1] = h[n].keys[j] /\ s[n].values[j + 1] = h[n].values[j]
  <2>1. h[n] \in Node
    BY <1>2, AliveIs DEF Leaves
  <2>2. l \in Nat
    BY <2>1, Lengths
  <2> QED BY <1>1, <2>2 DEF InsertOf
<1> HIDE DEF l
<1>4. ASSUME NEW e \in Pairs(s) PROVE e \in Pairs(h) \cup {<<key, key>>}
  <2>1. PICK m, j : EntryAt(s, e, m, j)
    BY PairsAre
  <2>2. CASE m # n
    <3>1. EntryAt(h, e, m, j)
      BY <1>2, <2>1, <2>2 DEF EntryAt
    <3> QED BY <3>1, PairsAre
  <2>3. CASE m = n
    <3>1. j \in 1..(l + 1) /\ e = <<s[n].keys[j], s[n].values[j]>>
      BY <1>3, <2>1, <2>3 DEF EntryAt
    <3>2. CASE j = i
      BY <1>3, <3>1, <3>2
    <3>3. CASE j < i
      <4>1. j \in 1..(i - 1) /\ j \in 1..l
        BY <1>3, <3>1, <3>3
      <4>2. e = <<h[n].keys[j], h[n].values[j]>>
        BY <1>3, <3>1, <4>1
      <4>3. EntryAt(h, e, n, j)
        BY <1>2, <4>1, <4>2 DEF EntryAt, l
      <4> QED BY <4>3, PairsAre
    <3>4. CASE j > i
      <4> DEFINE q == j - 1
      <4>1. q \in i..l /\ q \in 1..l /\ q + 1 = j
        BY <1>3, <3>1, <3>4
      <4> HIDE DEF q
      <4>2. e = <<h[n].keys[q], h[n].values[q]>>
        BY <1>3, <3>1, <4>1
      <4>3. EntryAt(h, e, n, q)
        BY <1>2, <4>1, <4>2 DEF EntryAt, l
      <4> QED BY <4>3, PairsAre
    <3>5. j \in Nat /\ i \in Nat
      BY <1>3, <3>1
    <3> QED BY <3>2, <3>3, <3>4, <3>5
  <2> QED BY <2>2, <2>3
<1>5. ASSUME NEW e \in Pairs(h) PROVE e \in Pairs(s)
  <2>1. PICK m, j : EntryAt(h, e, m, j)
    BY PairsAre
  <2>2. CASE m # n
    <3>1. EntryAt(s, e, m, j)
      BY <1>2, <2>1, <2>2 DEF EntryAt
    <3> QED BY <3>1, PairsAre
  <2>3. CASE m = n
    <3>1. j \in 1..l /\ e = <<h[n].keys[j], h[n].values[j]>>
      BY <2>1, <2>3 DEF EntryAt, l
    <3>2. CASE j < i
      <4>1. j \in 1..(i - 1) /\ j \in 1..Len(s[n].keys)
        BY <1>3, <3>1, <3>2
      <4>2. e = <<s[n].keys[j], s[n].values[j]>>
        BY <1>3, <3>1, <4>1
      <4>3. EntryAt(s, e, n, j)
        BY <1>2, <4>1, <4>2 DEF EntryAt
      <4> QED BY <4>3, PairsAre
    <3>3. CASE ~(j < i)
      <4>1. j \in i..l /\ j + 1 \in 1..Len(s[n].keys)
        BY <1>3, <3>1, <3>3
      <4>2. e = <<s[n].keys[j + 1], s[n].values[j + 1]>>
        BY <1>3, <3>1, <4>1
      <4>3. EntryAt(s, e, n, j + 1)
        BY <1>2, <4>1, <4>2 DEF EntryAt
      <4> QED BY <4>3, PairsAre
    <3> QED BY <3>2, <3>3
  <2> QED BY <2>2, <2>3
<1>6. <<key, key>> \in Pairs(s)
  <2>1. EntryAt(s, <<key, key>>, n, i)
    BY <1>2, <1>3 DEF EntryAt
  <2> QED BY <2>1, PairsAre
<1> QED BY <1>4, <1>5, <1>6

LEMMA PairsUpdated ==
  ASSUME NEW h, NEW n \in Leaves(h), NEW i \in 1..Len(h[n].keys), NEW s, s = UpdateLeaf(h, n, i),
         NEW r, NEW k, NEW c, NEW t, NEW lo, NEW hi, Tree(h, r, k, c, t, lo, hi)
  PROVE  Pairs(s) = Others(Pairs(h), h[n].keys[i]) \cup {<<h[n].keys[i], Updated>>}
<1>1. h \in Heaps /\ Len(h[n].values) = Len(h[n].keys)
  BY DEF Tree, Shape
<1>2. /\ Leaves(s) = Leaves(h) /\ \A m \in NodeIds : s[m].keys = h[m].keys
  BY <1>1, UpdateKeepsTree
<1>3. n \in NodeIds /\ h[n] \in Node /\ \A m \in Leaves(h) : m \in NodeIds
  BY <1>1, AliveIs DEF Leaves, Alive
<1>4. /\ \A m \in NodeIds \ {n} : s[m] = h[m]
      /\ \A j \in 1..Len(h[n].keys) : s[n].values[j] = IF j = i THEN Updated ELSE h[n].values[j]
  <2>1. s[n] = [h[n] EXCEPT !.values = [h[n].values EXCEPT ![i] = Updated]]
    BY <1>1, <1>3 DEF UpdateLeaf, Heaps
  <2>2. s[n].values = [h[n].values EXCEPT ![i] = Updated]
    BY <1>3, <2>1 DEF Node
  <2>3. h[n].values \in Seq(Values)
    BY <1>3 DEF Node
  <2>4. \A j \in 1..Len(h[n].keys) : s[n].values[j] = IF j = i THEN Updated ELSE h[n].values[j]
    BY <1>1, <2>2, <2>3
  <2>5. \A m \in NodeIds \ {n} : s[m] = h[m]
    BY <1>1, <1>3 DEF UpdateLeaf, Heaps
  <2> QED BY <2>4, <2>5
<1>5. ASSUME NEW m, NEW j, NEW e
      PROVE  /\ EntryAt(s, e, m, j) => (m = n /\ j = i /\ e = <<h[n].keys[i], Updated>>) \/ (EntryAt(h, e, m, j) /\ ~(m = n /\ j = i))
             /\ EntryAt(h, e, m, j) /\ ~(m = n /\ j = i) => EntryAt(s, e, m, j)
  <2>1. CASE m # n
    BY <1>2, <1>3, <1>4, <2>1 DEF EntryAt
  <2>2. CASE m = n
    BY <1>2, <1>3, <1>4, <2>2 DEF EntryAt
  <2> QED BY <2>1, <2>2
<1>6. EntryAt(s, <<h[n].keys[i], Updated>>, n, i)
  BY <1>2, <1>3, <1>4 DEF EntryAt
<1>7. ASSUME NEW e \in Pairs(s) PROVE e \in Others(Pairs(h), h[n].keys[i]) \cup {<<h[n].keys[i], Updated>>}
  <2>1. PICK m, j : EntryAt(s, e, m, j)
    BY PairsAre
  <2>2. ASSUME EntryAt(h, e, m, j), ~(m = n /\ j = i) PROVE e \in Others(Pairs(h), h[n].keys[i])
    <3>1. e[1] # h[n].keys[i]
      BY <2>2, OnePlace DEF EntryAt
    <3>2. e \in Pairs(h)
      BY <2>2, PairsAre
    <3> QED BY <3>1, <3>2 DEF Others
  <2> QED BY <1>5, <2>1, <2>2
<1>8. ASSUME NEW e \in Others(Pairs(h), h[n].keys[i]) PROVE e \in Pairs(s)
  <2>1. e \in Pairs(h) /\ e[1] # h[n].keys[i]
    BY DEF Others
  <2>2. PICK m, j : EntryAt(h, e, m, j)
    BY <2>1, PairsAre
  <2>3. ~(m = n /\ j = i)
    BY <2>1, <2>2 DEF EntryAt
  <2> QED BY <1>5, <2>2, <2>3, PairsAre
<1>9. <<h[n].keys[i], Updated>> \in Pairs(s)
  BY <1>6, PairsAre
<1> QED BY <1>7, <1>8, <1>9

(***************************************************************************)
(* What each action makes of the pairs.                                    *)
(***************************************************************************)
Puts(S, T) == \E e \in T \ S : T = Others(S, e[1]) \cup {e}
Drops(S, T) == \E e \in S \ T : T = Others(S, e[1])
Changes(S, T) == T = S \/ Puts(S, T) \/ Drops(S, T) \/ T = {}

(* A pair for a key that had none.                                         *)
LEMMA NewPair ==
  ASSUME NEW h \in Heaps, NEW k, k \notin Held(h), NEW T, T = Pairs(h) \cup {<<k, k>>}
  PROVE  Changes(Pairs(h), T)
<1>1. \A e \in Pairs(h) : e[1] # k
  BY PairsHeld
<1> DEFINE S == Pairs(h)
           e == <<k, k>>
<1>2. e[1] = k
  OBVIOUS
<1>3. Others(S, k) = S
  BY <1>1 DEF Others
<1> HIDE DEF S, e
<1>4. e \notin S
  BY <1>1, <1>2 DEF S
<1>5. T = S \cup {e}
  BY DEF S, e
<1>6. e \in T \ S /\ T = Others(S, e[1]) \cup {e}
  BY <1>2, <1>3, <1>4, <1>5
<1>7. Puts(S, T)
  BY <1>6 DEF Puts
<1> QED BY <1>7 DEF Changes, S

LEMMA NoPairs ==
  ASSUME NEW h, \A n \in Leaves(h) : h[n].keys = <<>>
  PROVE  Pairs(h) = {}
<1>1. ASSUME NEW e \in Pairs(h) PROVE FALSE
  <2>1. PICK m, j : EntryAt(h, e, m, j)
    BY PairsAre
  <2>2. h[m].keys = <<>> /\ j \in 1..Len(h[m].keys)
    BY <2>1 DEF EntryAt
  <2> QED BY <2>2
<1> QED BY <1>1

LEMMA NoPairsAtAll == Pairs([n \in NodeIds |-> Freed]) = {}
<1>1. Leaves([n \in NodeIds |-> Freed]) = {}
  BY DEF Leaves, Alive
<1> QED BY <1>1, NoPairs

(* The five calls that change the map.                                     *)
LEMMA InsertFirstPuts ==
  ASSUME Inv, NEW k \in Keys, InsertFirst(k)
  PROVE  Changes(Pairs(heap), Pairs(heap'))
<1> DEFINE n == Allocate(heap)
<1>1. /\ pc = "idle" /\ root = NULL /\ HasRoom
      /\ heap' = OuterInsert([heap EXCEPT ![n] = NewNode(TRUE)], n, k)
  BY DEF InsertFirst
<1>2. heap = [m \in NodeIds |-> Freed]
  BY <1>1 DEF Inv, Sound
<1>3. n \in NodeIds
  BY <1>1, AllocateIs DEF HasRoom
<1>4. EmptyLeaf(NewNode(TRUE))
  BY NewLeafIsEmpty
<1> HIDE DEF n
<1>5. ASSUME NEW x, EmptyLeaf(x), NEW f, f = [heap EXCEPT ![n] = x], NEW s, s = OuterInsert(f, n, k)
      PROVE  Changes({}, Pairs(s))
  <2>1. x \in Node /\ x.outer /\ x.keys = <<>> /\ x.values = <<>>
    BY <1>5 DEF EmptyLeaf
  <2>2. f \in Heaps /\ f[n] = x /\ \A m \in NodeIds \ {n} : f[m] = Freed
    BY <1>2, <1>3, <1>5, <2>1 DEF Heaps
  <2>3. Leaves(f) = {n}
    BY <1>3, <2>1, <2>2, FreedAssumption DEF Leaves, Alive
  <2>4. Pairs(f) = {} /\ Held(f) = {}
    <3>1. Pairs(f) = {}
      BY <2>1, <2>2, <2>3, NoPairs
    <3>2. ToSet(x.keys) = {}
      BY <2>1 DEF ToSet
    <3> QED BY <2>2, <2>3, <3>1, <3>2 DEF Held
  <2>5. Len(f[n].values) = Len(f[n].keys) /\ Ascending(f[n].keys) /\ n \in Leaves(f)
    BY <2>1, <2>2, <2>3 DEF Ascending
  <2>6. PICK i \in 1..(Len(f[n].keys) + 1) : InsertedLeaf(f, s, n, i, k)
    BY <1>5, <2>2, <2>5, OuterInsertIs
  <2>7. Pairs(s) = Pairs(f) \cup {<<k, k>>}
    BY <2>2, <2>5, <2>6, PairsInserted
  <2>8. Changes(Pairs(f), Pairs(s))
    BY <2>2, <2>4, <2>7, NewPair
  <2> QED BY <2>4, <2>8
<1>6. Changes({}, Pairs(heap'))
  BY <1>1, <1>4, <1>5
<1> QED BY <1>2, <1>6, NoPairsAtAll

LEMMA InsertPuts ==
  ASSUME Inv, NEW k \in Keys, Insert(k)
  PROVE  Changes(Pairs(heap), Pairs(heap'))
<1> DEFINE n == Locate(k)
           inserted == OuterInsert(heap, n, k)
<1>1. pc = "idle" /\ root # NULL /\ ~Contained(k)
  BY DEF Insert
<1>2. Standing(heap, root, NULL)
  BY <1>1 DEF Inv, Sound
<1>3. FoundAt(n, k) /\ k \notin Held(heap)
  BY <1>1, <1>2, LocateFinds, ContainedIs
<1>4. ~IsFull(inserted[n]) => heap' = inserted
  BY DEF Insert
<1>5. IsFull(inserted[n]) => HasRoom /\ heap' = OuterSplit(inserted, n, Allocate(heap))
  BY DEF Insert
<1> HIDE DEF n
<1>6. PICK t, lo, hi : Tree(heap, root, NULL, NULL, t, lo, hi) /\ Within(lo, hi, n, k)
  BY <1>3 DEF FoundAt
<1>7. n \in Leaves(heap) /\ heap \in Heaps /\ Filled(heap, root, NULL)
  BY <1>2, <1>3 DEF FoundAt, Standing
<1>8. Takes(heap, inserted, root, n, k)
  BY <1>3, <1>6, <1>7, LeafTakes
<1>9. Pairs(inserted) = Pairs(heap) \cup {<<k, k>>}
  <2>1. Len(heap[n].values) = Len(heap[n].keys) /\ Ascending(heap[n].keys)
    BY <1>6, <1>7, LeafWithin
  <2>2. PICK i \in 1..(Len(heap[n].keys) + 1) : InsertedLeaf(heap, inserted, n, i, k)
    BY <1>7, <2>1, OuterInsertIs
  <2> HIDE DEF inserted
  <2> QED BY <1>7, <2>1, <2>2, PairsInserted
<1>10. Pairs(heap') = Pairs(inserted)
  <2>1. CASE IsFull(inserted[n])
    <3>1. Allocate(heap) \in NodeIds /\ heap[Allocate(heap)] = Freed
      BY <1>5, <2>1, AllocateIs DEF HasRoom
    <3> HIDE DEF inserted
    <3>2. Content(heap') = Content(inserted)
      BY <1>5, <1>7, <1>8, <2>1, <3>1, SplitPends
    <3> QED BY <3>2 DEF Content
  <2>2. CASE ~IsFull(inserted[n])
    BY <1>4, <2>2
  <2> QED BY <2>1, <2>2
<1> HIDE DEF inserted
<1> QED BY <1>3, <1>7, <1>9, <1>10, NewPair

LEMMA UpdatePuts ==
  ASSUME Inv, NEW k \in Keys, Update(k)
  PROVE  Changes(Pairs(heap), Pairs(heap'))
<1> DEFINE n == Locate(k)
           i == Position(heap[n].keys, k)
<1>1. /\ pc = "idle" /\ root # NULL /\ Contained(k)
      /\ heap' = UpdateLeaf(heap, n, i)
  BY DEF Update, UpdateLeaf
<1>2. Standing(heap, root, NULL)
  BY <1>1 DEF Inv, Sound
<1>3. FoundAt(n, k) /\ k \in Held(heap)
  BY <1>1, <1>2, LocateFinds, ContainedIs
<1> HIDE DEF n
<1>4. n \in Leaves(heap) /\ i \in 1..Len(heap[n].keys) /\ heap[n].keys[i] = k
  BY <1>3 DEF FoundAt
<1> HIDE DEF i
<1>5. PICK t, lo, hi : Tree(heap, root, NULL, NULL, t, lo, hi)
  BY <1>2 DEF Standing
<1> DEFINE S == Pairs(heap)
           T == Pairs(heap')
           e == <<k, Updated>>
<1>6. T = Others(S, k) \cup {e}
  BY <1>1, <1>4, <1>5, PairsUpdated
<1>7. e[1] = k
  OBVIOUS
<1>8. e \in S => S = T
  <2>1. SUFFICES ASSUME e \in S PROVE \A d \in S : d[1] = k => d = e
    BY <1>6, <1>7 DEF Others
  <2>2. PICK m, j : EntryAt(heap, e, m, j)
    BY <2>1, PairsAre
  <2>3. ASSUME NEW d \in S, d[1] = k PROVE d = e
    <3>1. PICK p, q : EntryAt(heap, d, p, q)
      BY PairsAre
    <3>2. heap[m].keys[j] = heap[p].keys[q]
      BY <2>2, <2>3, <3>1 DEF EntryAt
    <3>3. m = p /\ j = q
      BY <1>5, <2>2, <3>1, <3>2, OnePlace DEF EntryAt
    <3> QED BY <2>2, <3>1, <3>3 DEF EntryAt
  <2> QED BY <2>3
<1> HIDE DEF S, T, e
<1>9. e \notin S => Puts(S, T)
  BY <1>6, <1>7 DEF Puts
<1>10. Changes(S, T)
  BY <1>8, <1>9 DEF Changes
<1> QED BY <1>10 DEF S, T

LEMMA EraseDrops ==
  ASSUME Inv, NEW k \in Keys, Erase(k)
  PROVE  Changes(Pairs(heap), Pairs(heap'))
<1> DEFINE n == Locate(k)
           i == Position(heap[n].keys, k)
           h == OuterErase(heap, n, i)
<1>1. pc = "idle" /\ root # NULL /\ Contained(k)
  BY DEF Erase
<1>2. Standing(heap, root, NULL)
  BY <1>1 DEF Inv, Sound
<1>3. FoundAt(n, k) /\ k \in Held(heap)
  BY <1>1, <1>2, LocateFinds, ContainedIs
<1>4. /\ n = root /\ h[n].keys = <<>> => heap' = [h EXCEPT ![n] = Freed]
      /\ ~(n = root /\ h[n].keys = <<>>) => heap' = h
  BY DEF Erase
<1> HIDE DEF n
<1>5. n \in Leaves(heap) /\ i \in 1..Len(heap[n].keys) /\ heap[n].keys[i] = k
      /\ Len(heap[n].values) = Len(heap[n].keys) /\ heap \in Heaps
  BY <1>3 DEF FoundAt
<1> HIDE DEF i
<1>6. h = OuterErase(heap, n, i)
  OBVIOUS
<1> HIDE DEF h
<1>7. CASE n = root /\ h[n].keys = <<>>
  <2>1. Shortened(heap, h, root, n, i)
    BY <1>2, <1>5, <1>6, EraseStands
  <2>2. heap' = [m \in NodeIds |-> Freed]
    BY <1>4, <1>7, <2>1 DEF Shortened
  <2>3. Pairs(heap') = {}
    BY <2>2, NoPairsAtAll
  <2> QED BY <2>3 DEF Changes
<1>8. CASE ~(n = root /\ h[n].keys = <<>>)
  <2>1. heap' = h
    BY <1>4, <1>8
  <2>2. PICK t, lo, hi : Tree(heap, root, NULL, NULL, t, lo, hi)
    BY <1>2 DEF Standing
  <2>3. RemovedLeaf(heap, h, n, i)
    BY <1>5, <1>6, OuterEraseIs
  <2> DEFINE S == Pairs(heap)
             T == Pairs(heap')
             e == <<heap[n].keys[i], heap[n].values[i]>>
  <2>4. T = Others(S, k)
    BY <1>5, <2>1, <2>2, <2>3, PairsErased
  <2>5. e \in S
    <3>1. EntryAt(heap, e, n, i)
      BY <1>5 DEF EntryAt
    <3> QED BY <3>1, PairsAre
  <2>6. e[1] = k
    BY <1>5
  <2> HIDE DEF S, T, e
  <2>7. e \notin T
    BY <2>4, <2>6 DEF Others
  <2>8. Drops(S, T)
    BY <2>4, <2>5, <2>6, <2>7 DEF Drops
  <2>9. Changes(S, T)
    BY <2>8 DEF Changes
  <2> QED BY <2>9 DEF S, T
<1> QED BY <1>7, <1>8

LEMMA ClearEmpties ==
  ASSUME Inv, Clear
  PROVE  Changes(Pairs(heap), Pairs(heap'))
<1>1. /\ pc = "idle" /\ root # NULL
      /\ heap' = [n \in NodeIds |-> IF n \in Reachable THEN Freed ELSE heap[n]]
  BY DEF Clear
<1>2. Standing(heap, root, NULL)
  BY <1>1 DEF Inv, Sound
<1>3. Reachable = Alive(heap)
  BY <1>2, ReachableIs
<1>4. heap' = [n \in NodeIds |-> Freed]
  BY <1>1, <1>3 DEF Alive
<1> QED BY <1>4, NoPairsAtAll DEF Changes

(***************************************************************************)
(* Along the chain there is what the leaves hold, so the map changes as    *)
(* the pairs do.                                                           *)
(***************************************************************************)
Reflected == Entries = Pairs(heap)

(* Chain passes every leaf, so what it holds is what the leaves hold.      *)
LEMMA EntriesArePairs == Inv => Reflected
<1> SUFFICES ASSUME Inv PROVE Entries = Pairs(heap)
  BY DEF Reflected
<1>1. CASE root = NULL
  <2>1. heap = [n \in NodeIds |-> Freed]
    BY <1>1 DEF Inv, Sound
  <2>2. Chain = <<>>
    BY <1>1, <2>1, NothingWritten
  <2>3. ToSet(Chain) = {}
    BY <2>2 DEF ToSet
  <2>4. Entries = {}
    BY <2>3 DEF Entries
  <2> QED BY <2>1, <2>4, NoPairsAtAll
<1>2. CASE root # NULL
  <2>1. PICK k, c, t, lo, hi : Tree(heap, root, k, c, t, lo, hi)
    BY <1>2, SomeTree
  <2>2. Chain \in Seq(Leaves(heap)) /\ Elements(Chain) = Leaves(heap)
    BY <1>2, <2>1, ChainFollows
  <2>3. ToSet(Chain) = Leaves(heap)
    BY <2>2, ToSetIs
  <2>4. \A n \in Leaves(heap) : DOMAIN heap[n].keys = 1..Len(heap[n].keys)
    <3>1. \A n \in Leaves(heap) : heap[n].keys \in Seq(Keys)
      BY <2>1, LeafWithin
    <3> QED BY <3>1
  <2>5. Entries = UNION {PairsOf(heap[n]) : n \in Leaves(heap)}
    BY <2>3, <2>4 DEF Entries, PairsOf
  <2> QED BY <2>5 DEF Pairs
<1> QED BY <1>1, <1>2

(* A step changes one pair, drops one, drops all, or none.                 *)
LEMMA StepChanges ==
  ASSUME Inv, [Next]_vars
  PROVE  Changes(Pairs(heap), Pairs(heap'))
<1>1. Content(heap') = Content(heap) => Changes(Pairs(heap), Pairs(heap'))
  BY DEF Content, Changes
<1>2. ASSUME NEW k \in Keys, InsertFirst(k) PROVE Changes(Pairs(heap), Pairs(heap'))
  BY <1>2, InsertFirstPuts
<1>3. ASSUME NEW k \in Keys, Insert(k) PROVE Changes(Pairs(heap), Pairs(heap'))
  BY <1>3, InsertPuts
<1>4. ASSUME NEW k \in Keys, Erase(k) PROVE Changes(Pairs(heap), Pairs(heap'))
  BY <1>4, EraseDrops
<1>5. ASSUME NEW k \in Updatable, Update(k) PROVE Changes(Pairs(heap), Pairs(heap'))
  BY <1>5, UpdatePuts, MapAssumption
<1>6. CASE UNCHANGED vars
  BY <1>6 DEF Changes, vars, tree
<1> QED BY <1>1, <1>2, <1>3, <1>4, <1>5, <1>6, ClearEmpties, PropagateToRootKeeps,
           PropagateUpwardsKeeps, EnoughKeysKeeps, RedistributeLeftKeeps, RedistributeRightKeeps,
           CoalesceLeftKeeps, CoalesceRightKeeps, EndAtRootKeeps DEF Next

(* The map (include/map.h) is one: each call puts or drops one key with    *)
(* its value or all of them, at one step, and no split, redistribution or  *)
(* merge, and no step of theirs, loses, invents or moves an entry.         *)
THEOREM MapIsImplemented == Spec => ImplementsMap
<1>1. Init => Inv /\ Map!Init
  <2> SUFFICES ASSUME Init PROVE Inv /\ Map!Init
    OBVIOUS
  <2>1. Inv
    BY InitHolds
  <2>2. heap = [n \in NodeIds |-> Freed]
    BY DEF Init
  <2>3. Entries = {}
    BY <2>1, <2>2, EntriesArePairs, NoPairsAtAll DEF Reflected
  <2> QED BY <2>1, <2>3 DEF Map!Init
<1>2. Inv /\ Reflected /\ Reflected' /\ [Next]_vars => [Map!Next]_Entries
  <2> SUFFICES ASSUME Inv, Reflected, Reflected', [Next]_vars PROVE [Map!Next]_Entries
    OBVIOUS
  <2>1. Changes(Entries, Entries')
    BY StepChanges DEF Reflected
  <2>2. CASE Puts(Entries, Entries')
    BY <2>2 DEF Puts, Others, Map!Next, Map!Put, Map!Without
  <2>3. CASE Drops(Entries, Entries')
    BY <2>3 DEF Drops, Others, Map!Next, Map!Erase, Map!Without
  <2>4. CASE Entries' = {}
    BY <2>4 DEF Map!Next, Map!Clear
  <2> QED BY <2>1, <2>2, <2>3, <2>4 DEF Changes
<1> QED BY <1>1, <1>2, InvHolds, EntriesArePairs, PTL DEF Spec, ImplementsMap, Map!Spec
=============================================================================
