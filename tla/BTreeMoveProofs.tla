-------------------------- MODULE BTreeMoveProofs ---------------------------
(***************************************************************************)
(* The operations of the nodes and of the tree, as combinations of the     *)
(* steps of BTreeNodeProofs. A redistribution is a kid that leaves its     *)
(* parent, two nodes that are joined, divided at another place, and linked *)
(* again; a merge is the first half of it. At the end: from a tree at      *)
(* rest, or one with a node beside it, each call leads to such a tree.     *)
(***************************************************************************)
EXTENDS BTreeNodeProofs, FiniteSetTheorems, WellFoundedInduction

(***************************************************************************)
(* What the calls of one node do, as steps of the kinds that keep trees.   *)
(***************************************************************************)

(* Induction, from the well-foundedness of the order of the numbers.       *)
LEMMA ClimbTo ==
  ASSUME NEW S, 0 \in S, \A n \in Nat : n \in S => n + 1 \in S
  PROVE  \A n \in Nat : n \in S
<1> DEFINE Missing == {n \in Nat : n \notin S}
<1> SUFFICES ASSUME Missing # {} PROVE FALSE
  OBVIOUS
<1>1. PICK m \in Missing : \A y \in Missing : <<y, m>> \notin OpToRel(<, Nat)
  <2>1. Missing \subseteq Nat
    OBVIOUS
  <2> HIDE DEF Missing
  <2> QED BY <2>1, NatLessThanWellFounded, WFMin, Zenon
<1>2. m \in Nat /\ m # 0
  OBVIOUS
<1>3. m - 1 \in Nat /\ m - 1 < m /\ (m - 1) + 1 = m
  BY <1>2
<1>4. m - 1 \in Missing
  BY <1>3
<1>5. <<m - 1, m>> \in OpToRel(<, Nat)
  BY <1>2, <1>3, Zenon DEF OpToRel
<1> QED BY <1>1, <1>4, <1>5

(* Where a key belongs among ascending ones.                               *)
Smaller(s, k) == {j \in DOMAIN s : s[j] < k}

PlaceOf(s, k, i) ==
  /\ i \in 1..(Len(s) + 1)
  /\ \A j \in 1..Len(s) : (j < i => s[j] < k) /\ (j >= i => k <= s[j])

(* Insert of OuterNode puts a key after all that are smaller.              *)
LEMMA PlaceIs ==
  ASSUME NEW S, NEW s \in Seq(S), \A j \in 1..Len(s) : s[j] \in Nat, Ascending(s), NEW k \in Nat
  PROVE  PlaceOf(s, k, 1 + Cardinality(Smaller(s, k)))
<1> DEFINE n == Len(s)
<1>1. n \in Nat /\ DOMAIN s = 1..n
  OBVIOUS
<1>2. \A i, j \in 1..n : i < j => s[i] < s[j]
  BY DEF Ascending
<1>3. \A j \in 1..n : s[j] \in Nat
  OBVIOUS
<1> HIDE DEF n
<1> DEFINE P(m) == /\ \A j \in 1..n : j <= m => s[j] < k
                   /\ \A j \in 1..n : j > m => k <= s[j]
<1>4. \E m \in 0..n : P(m)
  <2> DEFINE S0 == {m \in Nat : m <= n => (\E l \in 0..m : P(l)) \/ (\A j \in 1..n : j <= m => s[j] < k)}
  <2>1. 0 \in S0
    BY <1>1
  <2>2. ASSUME NEW m \in Nat, m \in S0 PROVE m + 1 \in S0
    <3> SUFFICES ASSUME m + 1 <= n, ~ \E l \in 0..(m + 1) : P(l)
                 PROVE  \A j \in 1..n : j <= m + 1 => s[j] < k
      OBVIOUS
    <3>1. \A j \in 1..n : j <= m => s[j] < k
      <4>1. m <= n /\ \A l \in 0..m : l \in 0..(m + 1)
        BY <1>1
      <4> HIDE DEF P
      <4> QED BY <2>2, <4>1
    <3>6. m \in 0..(m + 1) /\ m + 1 \in 1..n
      BY <1>1
    <3>2. ~P(m) /\ m + 1 \in 1..n
      <4> HIDE DEF P
      <4> QED BY <3>6
    <3>3. ~(k <= s[m + 1])
      <4> SUFFICES ASSUME k <= s[m + 1] PROVE FALSE
        OBVIOUS
      <4>1. ASSUME NEW j \in 1..n, j > m PROVE k <= s[j]
        <5>1. CASE j = m + 1
          BY <5>1
        <5>2. CASE j # m + 1
          <6>1. m + 1 < j /\ s[m + 1] < s[j] /\ s[j] \in Nat /\ s[m + 1] \in Nat
            BY <1>1, <1>2, <1>3, <3>2, <4>1, <5>2
          <6> QED BY <6>1
        <5> QED BY <5>1, <5>2
      <4> QED BY <3>1, <3>2, <4>1
    <3>4. s[m + 1] \in Nat /\ s[m + 1] < k
      BY <1>3, <3>2, <3>3
    <3>5. ASSUME NEW j \in 1..n, j <= m + 1 PROVE s[j] < k
      <4>1. j <= m \/ j = m + 1
        BY <1>1, <3>5
      <4> QED BY <3>1, <3>4, <4>1
    <3> QED BY <3>5
  <2>3. \A m \in Nat : m \in S0
    <3> HIDE DEF S0
    <3> QED BY <2>1, <2>2, ClimbTo
  <2>4. n \in S0
    BY <1>1, <2>3
  <2>5. CASE \E l \in 0..n : P(l)
    BY <2>5
  <2>6. CASE ~ \E l \in 0..n : P(l)
    <3>1. \A j \in 1..n : j <= n => s[j] < k
      <4> HIDE DEF P
      <4> QED BY <1>1, <2>4, <2>6
    <3>2. n \in 0..n /\ P(n)
      BY <1>1, <3>1
    <3> QED BY <3>2
  <2> QED BY <2>5, <2>6
<1>5. PICK m \in 0..n : P(m)
  BY <1>4
<1>6. Smaller(s, k) = 1..m
  <2>1. \A j \in 1..n : s[j] < k <=> j <= m
    BY <1>1, <1>3, <1>5
  <2> QED BY <1>1, <2>1 DEF Smaller
<1>7. Cardinality(1..m) = m
  <2>1. 1 \in Int /\ m \in Int /\ m \in Nat
    BY <1>1
  <2>2. Cardinality(1..m) = IF 1 > m THEN 0 ELSE m - 1 + 1
    BY <2>1, FS_Interval
  <2> QED BY <2>1, <2>2
<1>8. 1 + Cardinality(Smaller(s, k)) = m + 1 /\ m \in Nat /\ m <= n
  BY <1>1, <1>6, <1>7
<1>9. PlaceOf(s, k, m + 1)
  <2>1. m + 1 \in 1..(n + 1)
    BY <1>1, <1>8
  <2>2. ASSUME NEW j \in 1..n PROVE (j < m + 1 => s[j] < k) /\ (j >= m + 1 => k <= s[j])
    BY <1>1, <1>5, <1>8
  <2> QED BY <2>1, <2>2 DEF PlaceOf, n
<1> QED BY <1>8, <1>9

(* OuterNode::Insert.                                                      *)
InsertedLeaf(h, s, n, i, k) ==
  /\ LeafChange(h, s, n) /\ PlaceOf(h[n].keys, k, i)
  /\ InsertOf(h[n].keys, i, k, s[n].keys) /\ InsertOf(h[n].values, i, k, s[n].values)

(* OuterInsert changes one leaf, by the key at its place.                  *)
LEMMA OuterInsertIs ==
  ASSUME NEW h \in Heaps, NEW n \in Leaves(h), Len(h[n].values) = Len(h[n].keys),
         Ascending(h[n].keys), NEW k \in Keys
  PROVE  \E i \in 1..(Len(h[n].keys) + 1) : InsertedLeaf(h, OuterInsert(h, n, k), n, i, k)
<1> DEFINE x == h[n]
           i == 1 + Cardinality(Smaller(x.keys, k))
           s == OuterInsert(h, n, k)
           ks == InsertAt(x.keys, i, k)
           vs == InsertAt(x.values, i, k)
<1>1. /\ n \in NodeIds /\ x \in Node /\ x.outer /\ x.keys \in Seq(Keys) /\ x.values \in Seq(Values)
      /\ \A j \in 1..Len(x.keys) : x.keys[j] \in Nat
  <2>1. n \in Alive(h) /\ h[n].outer
    BY DEF Leaves
  <2> QED BY <2>1, AliveIsNode
<1>2. k \in Nat /\ k \in Values
  BY MapAssumption DEF Values
<1>3. PlaceOf(x.keys, k, i)
  <2>1. Ascending(x.keys)
    OBVIOUS
  <2> HIDE DEF x
  <2> QED BY <1>1, <1>2, <2>1, PlaceIs
<1>4. i \in 1..(Len(x.keys) + 1) /\ i \in 1..(Len(x.values) + 1)
  BY <1>3 DEF PlaceOf
<1>5. s = [h EXCEPT ![n].keys = ks, ![n].values = vs]
  BY Zenon DEF OuterInsert, Smaller
<1> HIDE DEF i
<1>6. ks \in Seq(Keys) /\ InsertOf(x.keys, i, k, ks)
  <2> HIDE DEF x
  <2> QED BY <1>1, <1>4, InsertedAt
<1>7. vs \in Seq(Values) /\ InsertOf(x.values, i, k, vs)
  <2> HIDE DEF x
  <2> QED BY <1>1, <1>2, <1>4, InsertedAt
<1>8. Len(ks) = Len(vs)
  BY <1>6, <1>7 DEF InsertOf
<1> HIDE DEF ks, vs, s
<1>9. h \in [NodeIds -> Node \cup {Freed}]
  BY DEF Heaps
<1>10. /\ s \in Heaps /\ s[n] \in Node /\ s[n].outer /\ s[n].keys = ks /\ s[n].values = vs
       /\ s[n].kids = x.kids /\ s[n].parent = x.parent /\ Links(s[n], x)
       /\ \A m \in NodeIds \ {n} : s[m] = h[m]
  <2> DEFINE y == [x EXCEPT !.keys = ks, !.values = vs]
  <2>1. s[n] = y /\ (\A m \in NodeIds \ {n} : s[m] = h[m]) /\ s = [m \in NodeIds |-> s[m]]
    BY <1>1, <1>5, <1>9 DEF Node
  <2>2. /\ y \in Node /\ y.outer /\ y.keys = ks /\ y.values = vs
        /\ y.kids = x.kids /\ y.parent = x.parent /\ Links(y, x)
    <3> HIDE DEF x
    <3> QED BY <1>1, <1>6, <1>7 DEF Node, Links
  <2> HIDE DEF y, x
  <2>3. \A m \in NodeIds : s[m] \in Node \cup {Freed}
    BY <1>9, <2>1, <2>2
  <2>4. s \in Heaps
    BY <2>1, <2>3, Zenon DEF Heaps
  <2> QED BY <2>1, <2>2, <2>4
<1>11. LeafChange(h, s, n)
  BY <1>8, <1>10, Zenon DEF LeafChange
<1>12. InsertedLeaf(h, s, n, i, k)
  BY <1>3, <1>6, <1>7, <1>10, <1>11, Zenon DEF InsertedLeaf
<1> QED BY <1>4, <1>12, Zenon DEF s

LEMMA ExtendedElements ==
  ASSUME NEW s, NEW e, NEW u, Extended(s, e, u)
  PROVE  Elements(u) = Elements(s) \cup {e}
<1>1. /\ \A j \in 1..Len(u) : u[j] = e \/ \E l \in 1..Len(s) : u[j] = s[l]
      /\ \A l \in 1..Len(s) : \E j \in 1..Len(u) : u[j] = s[l]
      /\ \E j \in 1..Len(u) : u[j] = e
  BY Zenon DEF Extended
<1>2. ASSUME NEW f \in Elements(u) PROVE f \in Elements(s) \cup {e}
  <2>1. PICK j \in 1..Len(u) : f = u[j]
    BY Zenon DEF Elements
  <2>2. CASE u[j] = e
    BY <2>1, <2>2
  <2>3. CASE u[j] # e
    <3>1. PICK l \in 1..Len(s) : u[j] = s[l]
      BY <1>1, <2>3, Zenon
    <3>2. f \in Elements(s)
      BY <2>1, <3>1, Zenon DEF Elements
    <3> QED BY <3>2
  <2> QED BY <2>2, <2>3
<1>3. ASSUME NEW f \in Elements(s) PROVE f \in Elements(u)
  <2>1. PICK l \in 1..Len(s) : f = s[l]
    BY Zenon DEF Elements
  <2>2. PICK j \in 1..Len(u) : u[j] = s[l]
    BY <1>1, <2>1, Zenon
  <2> QED BY <2>1, <2>2, Zenon DEF Elements
<1>4. e \in Elements(u)
  BY <1>1, Zenon DEF Elements
<1> QED BY <1>2, <1>3, <1>4, Zenon

LEMMA InsertKeepsTree ==
  ASSUME NEW h, NEW s, NEW n, NEW i \in 1..(Len(h[n].keys) + 1), NEW key \in Keys,
         InsertedLeaf(h, s, n, i, key),
         NEW r, NEW k, NEW c, NEW t, NEW lo, NEW hi, Tree(h, r, k, c, t, lo, hi),
         lo[n] <= key, Under(key, hi[n]), \A j \in 1..Len(h[n].keys) : h[n].keys[j] # key
  PROVE  /\ Tree(s, r, k, c, t, lo, hi) /\ Held(s) = Held(h) \cup {key}
         /\ Len(s[n].keys) = Len(h[n].keys) + 1
<1> DEFINE x == h[n]
           y == s[n]
<1>1. /\ LeafChange(h, s, n) /\ PlaceOf(x.keys, key, i)
      /\ InsertOf(x.keys, i, key, y.keys) /\ InsertOf(x.values, i, key, y.values)
  BY DEF InsertedLeaf
<1>2. /\ h \in Heaps /\ s \in Heaps /\ n \in Leaves(h) /\ y.outer /\ Len(y.values) = Len(y.keys)
      /\ \A m \in NodeIds \ {n} : s[m] = h[m]
  BY <1>1 DEF LeafChange
<1>3. n \in Alive(h) /\ x.outer /\ n \in Leaves(s) /\ n \in Alive(s)
      /\ Leaves(s) = Leaves(h) /\ (\A m \in Leaves(h) \ {n} : s[m] = h[m])
  BY <1>1, <1>2, LeafChangeAlive DEF Leaves
<1>4. /\ x.keys \in Seq(Keys) /\ Len(x.keys) \in Nat
      /\ \A j \in 1..Len(x.keys) : x.keys[j] \in Nat
  BY <1>2, <1>3, AliveIsNode
<1>5. Ranged(x, lo[n], hi[n]) /\ lo[n] \in Nat /\ hi[n] \in Nat
  BY <1>2, <1>3 DEF Tree, Ordered, Alive
<1>6. key \in Nat
  BY MapAssumption
<1>7. Len(y.keys) = Len(x.keys) + 1
  BY <1>1 DEF InsertOf
<1>8. Extended(x.keys, key, y.keys)
  <2> HIDE DEF x, y
  <2>1. Len(x.keys) \in Nat /\ i \in 1..(Len(x.keys) + 1) /\ InsertOf(x.keys, i, key, y.keys)
    BY <1>1, <1>4 DEF x
  <2> QED BY <2>1, InsertedElements
<1>9. Ascending(y.keys)
  <2>1. \A j \in 1..Len(x.keys) : (j = i - 1 => x.keys[j] < key) /\ (j = i => key < x.keys[j])
    <3>1. ASSUME NEW j \in 1..Len(x.keys) PROVE (j = i - 1 => x.keys[j] < key) /\ (j = i => key < x.keys[j])
      <4>1. (j < i => x.keys[j] < key) /\ (j >= i => key <= x.keys[j]) /\ x.keys[j] # key
        BY <1>1 DEF PlaceOf
      <4>2. x.keys[j] \in Nat /\ i \in Nat /\ j \in Nat
        BY <1>4
      <4> HIDE DEF x, y
      <4> QED BY <1>6, <4>1, <4>2
    <3> QED BY <3>1
  <2>2. Ascending(x.keys) /\ i \in 1..(Len(x.keys) + 1)
    BY <1>5 DEF Ranged
  <2> HIDE DEF x, y
  <2> QED BY <1>1, <1>4, <1>6, <2>1, <2>2, InsertedAscending
<1>10. Ranged(y, lo[n], hi[n])
  <2>1. ASSUME NEW j \in 1..Len(y.keys) PROVE lo[n] <= y.keys[j] /\ Under(y.keys[j], hi[n])
    <3>1. y.keys[j] = key \/ \E l \in 1..Len(x.keys) : y.keys[j] = x.keys[l]
      BY <1>8 DEF Extended
    <3> HIDE DEF x, y
    <3> QED BY <1>5, <3>1 DEF x, Ranged
  <2>2. Under(lo[n], hi[n])
    BY <1>5 DEF Ranged
  <2> QED BY <1>2, <1>9, <2>1, <2>2 DEF Ranged
<1>11. Owned(s)
  <2>1. Owned(h) /\ Len(x.values) = Len(x.keys)
    BY <1>3, <1>2 DEF Tree, Shape
  <2>2. ASSUME NEW j \in 1..Len(y.keys) PROVE y.values[j] \in {y.keys[j], Updated}
    <3>1. \A l \in 1..Len(x.keys) : x.values[l] \in {x.keys[l], Updated}
      BY <1>2, <2>1 DEF Owned
    <3>2. /\ y.keys[i] = key /\ (\A l \in 1..(i - 1) : y.keys[l] = x.keys[l])
          /\ \A l \in i..Len(x.keys) : y.keys[l + 1] = x.keys[l]
      BY <1>1, Zenon DEF InsertOf
    <3>3. /\ y.values[i] = key /\ (\A l \in 1..(i - 1) : y.values[l] = x.values[l])
          /\ \A l \in i..Len(x.values) : y.values[l + 1] = x.values[l]
      BY <1>1, Zenon DEF InsertOf
    <3> HIDE DEF x, y
    <3>4. CASE j = i
      BY <3>2, <3>3, <3>4
    <3>5. CASE j < i
      <4>1. j \in 1..(i - 1) /\ j \in 1..Len(x.keys)
        BY <1>4, <1>7, <3>5 DEF x
      <4> QED BY <3>1, <3>2, <3>3, <4>1
    <3>6. CASE j > i
      <4>1. j - 1 \in i..Len(x.keys) /\ j - 1 \in 1..Len(x.keys) /\ (j - 1) + 1 = j
        BY <1>4, <1>7, <3>6 DEF x
      <4>2. y.keys[(j - 1) + 1] = x.keys[j - 1] /\ y.values[(j - 1) + 1] = x.values[j - 1]
        BY <2>1, <3>2, <3>3, <4>1, Zenon
      <4> QED BY <3>1, <4>1, <4>2
    <3> QED BY <1>4, <1>7, <3>4, <3>5, <3>6
  <2>3. ASSUME NEW m \in Leaves(s), NEW j \in 1..Len(s[m].keys)
        PROVE  s[m].values[j] \in {s[m].keys[j], Updated}
    <3>1. CASE m = n
      BY <2>2, <3>1
    <3>2. CASE m # n
      <4>1. s[m] = h[m] /\ m \in Leaves(h)
        BY <1>3, <3>2
      <4> QED BY <2>1, <4>1 DEF Owned
    <3> QED BY <3>1, <3>2
  <2> QED BY <2>3 DEF Owned
<1>12. Tree(s, r, k, c, t, lo, hi)
  BY <1>1, <1>10, <1>11, LeafChangeKeepsTree
<1>13. Held(s) = Held(h) \cup {key}
  <2>1. Held(h) = UNION {Elements(h[m].keys) : m \in Leaves(h)}
    BY <1>2, HeldIs
  <2>2. Held(s) = UNION {Elements(s[m].keys) : m \in Leaves(h)}
    BY <1>2, <1>3, HeldIs
  <2>3. Elements(y.keys) = Elements(x.keys) \cup {key}
    <3> HIDE DEF x, y
    <3> QED BY <1>8, ExtendedElements
  <2>4. \A m \in Leaves(h) \ {n} : Elements(s[m].keys) = Elements(h[m].keys)
    BY <1>3
  <2> HIDE DEF Elements
  <2> QED BY <1>2, <2>1, <2>2, <2>3, <2>4
<1> QED BY <1>7, <1>12, <1>13

(* Where a key may be, there only.                                         *)
Within(lo, hi, n, key) == lo[n] <= key /\ Under(key, hi[n])

(* No two leaves have room for the same key.                               *)
LEMMA LeafOfKey ==
  ASSUME NEW h, NEW r, NEW k, NEW c, NEW t, NEW lo, NEW hi, Tree(h, r, k, c, t, lo, hi),
         NEW m \in Leaves(h), NEW n \in Leaves(h), NEW key \in Nat,
         Within(lo, hi, m, key), Within(lo, hi, n, key)
  PROVE  m = n
<1>1. /\ m \in Alive(h) /\ n \in Alive(h) /\ h[m].outer /\ h[n].outer
      /\ m \in NodeIds /\ n \in NodeIds
  BY DEF Leaves, Alive
<1>2. t[m] = 0 /\ t[n] = 0
  BY <1>1 DEF Tree, Shape, Placed
<1>3. m # n => Apart(lo, hi, m, n)
  BY <1>1, <1>2 DEF Tree, Ordered
<1>4. lo[m] \in Nat /\ lo[n] \in Nat /\ hi[m] \in Nat /\ hi[n] \in Nat
  BY <1>1 DEF Tree, Ordered
<1> QED BY <1>3, <1>4 DEF Within, Under, Apart, Before

LEMMA KeysWithin ==
  ASSUME NEW h, NEW r, NEW k, NEW c, NEW t, NEW lo, NEW hi, Tree(h, r, k, c, t, lo, hi),
         NEW n \in Leaves(h)
  PROVE  /\ Ascending(h[n].keys) /\ Len(h[n].keys) = Len(h[n].values)
         /\ \A j \in 1..Len(h[n].keys) : Within(lo, hi, n, h[n].keys[j])
<1>1. n \in Alive(h)
  BY DEF Leaves
<1>2. Ranged(h[n], lo[n], hi[n]) /\ Len(h[n].keys) = Len(h[n].values)
  BY <1>1 DEF Tree, Ordered, Shape
<1> QED BY <1>2 DEF Ranged, Within

(* OuterNode::Erase.                                                       *)
RemovedLeaf(h, s, n, i) ==
  /\ LeafChange(h, s, n)
  /\ RemoveOf(h[n].keys, i, s[n].keys) /\ RemoveOf(h[n].values, i, s[n].values)

(* OuterErase takes a key and its value from one leaf.                     *)
LEMMA OuterEraseIs ==
  ASSUME NEW h \in Heaps, NEW n \in Leaves(h), Len(h[n].values) = Len(h[n].keys),
         NEW i \in 1..Len(h[n].keys)
  PROVE  RemovedLeaf(h, OuterErase(h, n, i), n, i)
<1> DEFINE x == h[n]
           s == OuterErase(h, n, i)
           ks == RemoveAt(x.keys, i)
           vs == RemoveAt(x.values, i)
<1>1. n \in NodeIds /\ x \in Node /\ x.outer /\ x.keys \in Seq(Keys) /\ x.values \in Seq(Values)
  <2>1. n \in Alive(h) /\ h[n].outer
    BY DEF Leaves
  <2> QED BY <2>1, AliveIsNode
<1>2. i \in 1..Len(x.keys) /\ i \in 1..Len(x.values)
  OBVIOUS
<1>5. s = [h EXCEPT ![n].keys = ks, ![n].values = vs]
  BY Zenon DEF OuterErase
<1>6. ks \in Seq(Keys) /\ RemoveOf(x.keys, i, ks)
  <2> HIDE DEF x
  <2> QED BY <1>1, <1>2, RemovedFrom
<1>7. vs \in Seq(Values) /\ RemoveOf(x.values, i, vs)
  <2> HIDE DEF x
  <2> QED BY <1>1, <1>2, RemovedFrom
<1>8. Len(ks) = Len(vs)
  BY <1>6, <1>7 DEF RemoveOf
<1> HIDE DEF ks, vs, s
<1>9. h \in [NodeIds -> Node \cup {Freed}]
  BY DEF Heaps
<1>10. /\ s \in Heaps /\ s[n] \in Node /\ s[n].outer /\ s[n].keys = ks /\ s[n].values = vs
       /\ s[n].kids = x.kids /\ s[n].parent = x.parent /\ Links(s[n], x)
       /\ \A m \in NodeIds \ {n} : s[m] = h[m]
  <2> DEFINE y == [x EXCEPT !.keys = ks, !.values = vs]
  <2>1. s[n] = y /\ (\A m \in NodeIds \ {n} : s[m] = h[m]) /\ s = [m \in NodeIds |-> s[m]]
    BY <1>1, <1>5, <1>9 DEF Node
  <2>2. /\ y \in Node /\ y.outer /\ y.keys = ks /\ y.values = vs
        /\ y.kids = x.kids /\ y.parent = x.parent /\ Links(y, x)
    <3> HIDE DEF x
    <3> QED BY <1>1, <1>6, <1>7 DEF Node, Links
  <2> HIDE DEF y, x
  <2>3. \A m \in NodeIds : s[m] \in Node \cup {Freed}
    BY <1>9, <2>1, <2>2
  <2>4. s \in Heaps
    BY <2>1, <2>3, Zenon DEF Heaps
  <2> QED BY <2>1, <2>2, <2>4
<1>11. LeafChange(h, s, n)
  BY <1>8, <1>10, Zenon DEF LeafChange
<1>12. RemovedLeaf(h, s, n, i)
  BY <1>6, <1>7, <1>10, <1>11, Zenon DEF RemovedLeaf
<1> QED BY <1>12, Zenon DEF s

RemovedKeys(x, y, i) ==
  /\ \A j \in 1..Len(y) : \E l \in 1..Len(x) : l # i /\ y[j] = x[l]
  /\ \A l \in 1..Len(x) : l # i => \E j \in 1..Len(y) : y[j] = x[l]
  /\ Ascending(x) => Ascending(y)

LEMMA RemovedKeysAre ==
  ASSUME NEW x, NEW y, Len(x) \in Nat, NEW i \in 1..Len(x), RemoveOf(x, i, y)
  PROVE  RemovedKeys(x, y, i)
<1>1. /\ Len(y) = Len(x) - 1 /\ Len(y) \in Nat
      /\ \A j \in 1..(i - 1) : y[j] = x[j]
      /\ \A j \in i..(Len(x) - 1) : y[j] = x[j + 1]
  BY DEF RemoveOf
<1> DEFINE at(j) == IF j < i THEN j ELSE j + 1
<1>2. ASSUME NEW j \in 1..Len(y) PROVE at(j) \in 1..Len(x) /\ at(j) # i /\ y[j] = x[at(j)]
  <2>1. CASE j < i
    <3>1. j \in 1..(i - 1) /\ j \in 1..Len(x) /\ j # i
      BY <1>1, <2>1
    <3> QED BY <1>1, <2>1, <3>1
  <2>2. CASE ~(j < i)
    <3>1. j \in i..(Len(x) - 1) /\ j + 1 \in 1..Len(x) /\ j + 1 # i
      BY <1>1, <2>2
    <3> QED BY <1>1, <2>2, <3>1
  <2> QED BY <2>1, <2>2
<1>3. ASSUME NEW l \in 1..Len(x), l # i PROVE \E j \in 1..Len(y) : y[j] = x[l]
  <2>1. CASE l < i
    <3>1. l \in 1..(i - 1) /\ l \in 1..Len(y)
      BY <1>1, <2>1
    <3> QED BY <1>1, <3>1
  <2>2. CASE l > i
    <3>1. l - 1 \in i..(Len(x) - 1) /\ l - 1 \in 1..Len(y) /\ (l - 1) + 1 = l
      BY <1>1, <2>2
    <3>2. y[l - 1] = x[(l - 1) + 1]
      BY <1>1, <3>1, Zenon
    <3> QED BY <3>1, <3>2
  <2> QED BY <1>3, <2>1, <2>2
<1>4. ASSUME Ascending(x), NEW j \in 1..Len(y), NEW l \in 1..Len(y), j < l PROVE y[j] < y[l]
  <2>1. at(j) < at(l)
    BY <1>4
  <2>2. at(j) \in 1..Len(x) /\ at(l) \in 1..Len(x) /\ y[j] = x[at(j)] /\ y[l] = x[at(l)]
    BY <1>2
  <2> HIDE DEF at
  <2> QED BY <1>4, <2>1, <2>2 DEF Ascending
<1>5. Ascending(x) => Ascending(y)
  BY <1>4 DEF Ascending
<1>6. \A j \in 1..Len(y) : \E l \in 1..Len(x) : l # i /\ y[j] = x[l]
  <2> HIDE DEF at
  <2> QED BY <1>2
<1> QED BY <1>3, <1>5, <1>6, Zenon DEF RemovedKeys

LEMMA EraseKeepsTree ==
  ASSUME NEW h, NEW s, NEW n, NEW i \in 1..Len(h[n].keys), RemovedLeaf(h, s, n, i),
         NEW r, NEW k, NEW c, NEW t, NEW lo, NEW hi, Tree(h, r, k, c, t, lo, hi)
  PROVE  /\ Tree(s, r, k, c, t, lo, hi) /\ Held(s) = Held(h) \ {h[n].keys[i]}
         /\ Len(s[n].keys) = Len(h[n].keys) - 1
<1> DEFINE x == h[n]
           y == s[n]
           key == x.keys[i]
<1>1. LeafChange(h, s, n) /\ RemoveOf(x.keys, i, y.keys) /\ RemoveOf(x.values, i, y.values)
  BY DEF RemovedLeaf
<1>2. /\ h \in Heaps /\ s \in Heaps /\ n \in Leaves(h) /\ y.outer /\ Len(y.values) = Len(y.keys)
      /\ \A m \in NodeIds \ {n} : s[m] = h[m]
  BY <1>1 DEF LeafChange
<1>3. n \in Alive(h) /\ x.outer /\ n \in Leaves(s) /\ n \in Alive(s)
      /\ Leaves(s) = Leaves(h) /\ (\A m \in Leaves(h) \ {n} : s[m] = h[m])
  BY <1>1, <1>2, LeafChangeAlive DEF Leaves
<1>4. /\ x.keys \in Seq(Keys) /\ Len(x.keys) \in Nat
      /\ \A j \in 1..Len(x.keys) : x.keys[j] \in Nat
  BY <1>2, <1>3, AliveIsNode
<1>5. Ranged(x, lo[n], hi[n])
  BY <1>3 DEF Tree, Ordered
<1>7. Len(y.keys) = Len(x.keys) - 1
  BY <1>1 DEF RemoveOf
<1>8. RemovedKeys(x.keys, y.keys, i)
  <2>1. i \in 1..Len(x.keys)
    OBVIOUS
  <2> HIDE DEF x, y
  <2> QED BY <1>1, <1>4, <2>1, RemovedKeysAre
<1>9. Ascending(y.keys)
  BY <1>5, <1>8 DEF Ranged, RemovedKeys
<1>10. Ranged(y, lo[n], hi[n])
  <2>1. ASSUME NEW j \in 1..Len(y.keys) PROVE lo[n] <= y.keys[j] /\ Under(y.keys[j], hi[n])
    <3>1. PICK l \in 1..Len(x.keys) : y.keys[j] = x.keys[l]
      BY <1>8, Zenon DEF RemovedKeys
    <3> HIDE DEF y
    <3> QED BY <1>5, <3>1 DEF Ranged
  <2>2. Under(lo[n], hi[n])
    BY <1>5 DEF Ranged
  <2> QED BY <1>2, <1>9, <2>1, <2>2 DEF Ranged
<1>11. Owned(s)
  <2>1. Owned(h) /\ Len(x.values) = Len(x.keys)
    BY <1>3, <1>2 DEF Tree, Shape
  <2>2. ASSUME NEW j \in 1..Len(y.keys) PROVE y.values[j] \in {y.keys[j], Updated}
    <3>1. \A l \in 1..Len(x.keys) : x.values[l] \in {x.keys[l], Updated}
      BY <1>2, <2>1 DEF Owned
    <3>2. /\ \A l \in 1..(i - 1) : y.keys[l] = x.keys[l]
          /\ \A l \in i..(Len(x.keys) - 1) : y.keys[l] = x.keys[l + 1]
      BY <1>1, Zenon DEF RemoveOf
    <3>3. /\ \A l \in 1..(i - 1) : y.values[l] = x.values[l]
          /\ \A l \in i..(Len(x.values) - 1) : y.values[l] = x.values[l + 1]
      BY <1>1, Zenon DEF RemoveOf
    <3>7. i \in 1..Len(x.keys)
      OBVIOUS
    <3> HIDE DEF x, y
    <3>5. CASE j < i
      <4>1. j \in 1..(i - 1) /\ j \in 1..Len(x.keys)
        BY <1>4, <1>7, <3>5, <3>7
      <4> QED BY <3>1, <3>2, <3>3, <4>1
    <3>6. CASE ~(j < i)
      <4>1. j \in i..(Len(x.keys) - 1) /\ j + 1 \in 1..Len(x.keys)
        BY <1>4, <1>7, <3>6, <3>7
      <4> QED BY <2>1, <3>1, <3>2, <3>3, <4>1
    <3> QED BY <3>5, <3>6
  <2>3. ASSUME NEW m \in Leaves(s), NEW j \in 1..Len(s[m].keys)
        PROVE  s[m].values[j] \in {s[m].keys[j], Updated}
    <3>1. CASE m = n
      BY <2>2, <3>1
    <3>2. CASE m # n
      <4>1. s[m] = h[m] /\ m \in Leaves(h)
        BY <1>3, <3>2
      <4> QED BY <2>1, <4>1 DEF Owned
    <3> QED BY <3>1, <3>2
  <2> QED BY <2>3 DEF Owned
<1>12. Tree(s, r, k, c, t, lo, hi)
  BY <1>1, <1>10, <1>11, LeafChangeKeepsTree
<1>13. Held(s) = Held(h) \ {key}
  <2>1. Held(h) = UNION {Elements(h[m].keys) : m \in Leaves(h)}
    BY <1>2, HeldIs
  <2>2. Held(s) = UNION {Elements(s[m].keys) : m \in Leaves(h)}
    BY <1>2, <1>3, HeldIs
  <2>3. Elements(y.keys) = Elements(x.keys) \ {key}
    <3>1. ASSUME NEW e \in Elements(y.keys) PROVE e \in Elements(x.keys) /\ e # key
      <4>1. PICK j \in 1..Len(y.keys) : e = y.keys[j]
        BY DEF Elements
      <4>2. PICK l \in 1..Len(x.keys) : l # i /\ y.keys[j] = x.keys[l]
        BY <1>8, Zenon DEF RemovedKeys
      <4>3. x.keys[l] # x.keys[i]
        <5>1. Ascending(x.keys) /\ i \in 1..Len(x.keys)
          BY <1>5 DEF Ranged
        <5> HIDE DEF x
        <5>2. l < i \/ i < l
          BY <1>4, <4>2, <5>1
        <5>3. x.keys[l] < x.keys[i] \/ x.keys[i] < x.keys[l]
          BY <5>1, <5>2, Zenon DEF Ascending
        <5> QED BY <1>4, <4>2, <5>1, <5>3
      <4> QED BY <4>1, <4>2, <4>3 DEF Elements
    <3>2. ASSUME NEW e \in Elements(x.keys), e # key PROVE e \in Elements(y.keys)
      <4>1. PICK l \in 1..Len(x.keys) : e = x.keys[l]
        BY DEF Elements
      <4>2. l # i
        BY <3>2, <4>1
      <4>3. PICK j \in 1..Len(y.keys) : y.keys[j] = x.keys[l]
        BY <1>8, <4>2, Zenon DEF RemovedKeys
      <4> QED BY <4>1, <4>3 DEF Elements
    <3> HIDE DEF Elements, key
    <3> QED BY <3>1, <3>2
  <2>4. \A m \in Leaves(h) \ {n} : Elements(s[m].keys) = Elements(h[m].keys)
    BY <1>3
  <2>5. ASSUME NEW m \in Leaves(h) \ {n} PROVE key \notin Elements(h[m].keys)
    <3> SUFFICES ASSUME key \in Elements(h[m].keys) PROVE FALSE
      OBVIOUS
    <3>1. PICK j \in 1..Len(h[m].keys) : key = h[m].keys[j]
      BY DEF Elements
    <3>2. Within(lo, hi, m, h[m].keys[j])
      BY KeysWithin
    <3>3. Within(lo, hi, n, h[n].keys[i])
      BY <1>2, KeysWithin
    <3>4. Within(lo, hi, m, key) /\ Within(lo, hi, n, key) /\ key \in Nat
      BY <1>4, <3>1, <3>2, <3>3
    <3> HIDE DEF key
    <3> QED BY <1>2, <3>4, LeafOfKey
  <2> HIDE DEF Elements, key
  <2> QED BY <1>2, <2>1, <2>2, <2>3, <2>4, <2>5
<1> QED BY <1>7, <1>12, <1>13

(* Map::Update.                                                            *)
UpdateLeaf(h, n, i) == [h EXCEPT ![n].values[i] = Updated]

LEMMA UpdateKeepsTree ==
  ASSUME NEW h \in Heaps, NEW n \in Leaves(h), NEW i \in 1..Len(h[n].values), NEW s,
         s = UpdateLeaf(h, n, i),
         NEW r, NEW k, NEW c, NEW t, NEW lo, NEW hi, Tree(h, r, k, c, t, lo, hi)
  PROVE  /\ Tree(s, r, k, c, t, lo, hi) /\ Held(s) = Held(h)
         /\ \A m \in NodeIds : s[m].keys = h[m].keys /\ s[m].outer = h[m].outer
         /\ Alive(s) = Alive(h) /\ Leaves(s) = Leaves(h) /\ Inners(s) = Inners(h)
<1> DEFINE x == h[n]
           y == s[n]
<1>1. /\ n \in NodeIds /\ x \in Node /\ x.outer /\ x.keys \in Seq(Keys) /\ x.values \in Seq(Values)
      /\ n \in Alive(h)
  <2>1. n \in Alive(h) /\ h[n].outer
    BY DEF Leaves
  <2> QED BY <2>1, AliveIsNode
<1>2. Len(x.values) = Len(x.keys) /\ Owned(h) /\ Ranged(x, lo[n], hi[n])
  BY <1>1 DEF Tree, Shape, Ordered
<1> DEFINE vs == [x.values EXCEPT ![i] = Updated]
<1>3. vs \in Seq(Values) /\ Len(vs) = Len(x.values) /\ vs[i] = Updated
      /\ \A j \in 1..Len(x.values) : j # i => vs[j] = x.values[j]
  <2>1. Updated \in Values /\ x.values \in Seq(Values) /\ i \in 1..Len(x.values)
    BY <1>1 DEF Values
  <2> HIDE DEF x
  <2> QED BY <2>1
<1>4. h \in [NodeIds -> Node \cup {Freed}]
  BY DEF Heaps
<1>5. /\ y = [x EXCEPT !.values = vs] /\ \A m \in NodeIds \ {n} : s[m] = h[m]
      /\ s = [m \in NodeIds |-> s[m]]
  BY <1>1, <1>4 DEF Node, UpdateLeaf
<1> HIDE DEF vs
<1>6. /\ y \in Node /\ y.outer /\ y.keys = x.keys /\ y.values = vs
      /\ y.kids = x.kids /\ y.parent = x.parent /\ Links(y, x)
  <2> HIDE DEF x, y
  <2> QED BY <1>1, <1>3, <1>5 DEF Node, Links
<1> HIDE DEF y
<1>7. s \in Heaps
  <2>1. \A m \in NodeIds : s[m] \in Node \cup {Freed}
    BY <1>4, <1>5, <1>6 DEF y
  <2> QED BY <1>5, <2>1, Zenon DEF Heaps
<1>8. LeafChange(h, s, n)
  BY <1>2, <1>3, <1>5, <1>6, <1>7 DEF LeafChange, y
<1>9. /\ Alive(s) = Alive(h) /\ Leaves(s) = Leaves(h) /\ Inners(s) = Inners(h)
  BY <1>8, LeafChangeAlive
<1>10. \A m \in NodeIds : s[m].keys = h[m].keys /\ s[m].outer = h[m].outer
  <2>1. x.outer \in BOOLEAN /\ y.outer \in BOOLEAN
    BY <1>1, <1>6 DEF Node
  <2>2. y.outer = x.outer
    BY <1>1, <1>6, <2>1
  <2> QED BY <1>5, <1>6, <2>2 DEF y
<1>11. Ranged(y, lo[n], hi[n])
  BY <1>1, <1>2, <1>6 DEF Ranged
<1>12. Owned(s)
  <2>1. ASSUME NEW m \in Leaves(s), NEW j \in 1..Len(s[m].keys)
        PROVE  s[m].values[j] \in {s[m].keys[j], Updated}
    <3>1. m \in Leaves(h) /\ h[m].values[j] \in {h[m].keys[j], Updated} /\ s[m].keys = h[m].keys
      BY <1>2, <1>9, <1>10 DEF Owned, Leaves, Alive
    <3>2. CASE m # n
      BY <1>5, <3>1, <3>2 DEF Leaves, Alive
    <3>3. CASE m = n /\ j = i
      BY <1>3, <1>6, <3>3 DEF y
    <3>4. CASE m = n /\ j # i
      <4>1. j \in 1..Len(x.values)
        BY <1>2, <3>1, <3>4
      <4> QED BY <1>3, <1>6, <3>1, <3>4, <4>1 DEF y
    <3> QED BY <3>2, <3>3, <3>4
  <2> QED BY <2>1 DEF Owned
<1>13. Tree(s, r, k, c, t, lo, hi)
  BY <1>8, <1>11, <1>12, LeafChangeKeepsTree DEF y
<1>14. Held(s) = Held(h)
  <2>1. \A m \in Leaves(h) : s[m].keys = h[m].keys
    BY <1>10 DEF Leaves, Alive
  <2> QED BY <1>9, <2>1 DEF Held
<1> QED BY <1>9, <1>10, <1>13, <1>14

LEMMA NextLeaf ==
  ASSUME NEW h, NEW r, NEW k, NEW c, NEW t, NEW lo, NEW hi, Tree(h, r, k, c, t, lo, hi),
         NEW n \in Leaves(h), h[n].next # NULL
  PROVE  h[n].next \in Leaves(h) \ {n} /\ h[h[n].next].previous = n /\ lo[h[n].next] = hi[n]
<1>1. n \in Alive(h) /\ n \in NodeIds
  BY DEF Leaves, Alive
<1>2. h[n].next \in Leaves(h) /\ lo[h[n].next] = hi[n] /\ hi[n] # 0 /\ h[h[n].next].previous = n
  BY DEF Tree, Chained
<1>3. Under(lo[n], hi[n]) /\ lo[n] \in Nat /\ hi[n] \in Nat
  BY <1>1 DEF Tree, Ordered, Ranged
<1> QED BY <1>2, <1>3 DEF Under

(* OuterNode::Split.                                                       *)
LEMMA OuterSplitDivides ==
  ASSUME NEW h, NEW r, NEW k, NEW c, NEW t, NEW lo, NEW hi, Tree(h, r, k, c, t, lo, hi),
         NEW n \in Leaves(h), NEW new \in NodeIds, h[new] = Freed,
         Len(h[n].keys) = OuterFanout + 1
  PROVE  LET s == OuterSplit(h, n, new)
         IN  /\ DividedLeaf(h, s, n, new)
             /\ \A m \in {n, new} : ~IsFull(s[m]) /\ ~IsSparse(s[m])
<1> DEFINE s == OuterSplit(h, n, new)
           x == h[n]
<1>1. /\ n \in NodeIds /\ x \in Node /\ x.outer /\ x.keys \in Seq(Keys) /\ x.values \in Seq(Values)
      /\ h \in Heaps /\ n \in Alive(h) /\ x.next \in NodeIds \cup {NULL}
      /\ Len(x.values) = Len(x.keys) /\ n # new
  <2>1. n \in Alive(h) /\ h[n].outer /\ h \in Heaps
    BY DEF Leaves, Tree, Shape
  <2>2. n # new
    BY <2>1 DEF Alive
  <2>3. Len(x.values) = Len(x.keys)
    BY DEF Tree, Shape
  <2>4. n \in NodeIds /\ x \in Node /\ x.keys \in Seq(Keys) /\ x.values \in Seq(Values)
    BY <2>1, AliveIsNode
  <2>5. x.next \in NodeIds \cup {NULL}
    BY <2>4 DEF Node
  <2> QED BY <2>1, <2>2, <2>3, <2>4, <2>5
<1>2. x.next # NULL => /\ x.next \in Leaves(h) /\ x.next \in Alive(h) /\ x.next \notin {n, new}
                       /\ h[x.next] \in Node /\ h[x.next].previous = n
  <2> SUFFICES ASSUME x.next # NULL PROVE /\ x.next \in Leaves(h) /\ x.next \in Alive(h) /\ x.next \notin {n, new}
                       /\ h[x.next] \in Node /\ h[x.next].previous = n
    OBVIOUS
  <2>1. x.next \in Leaves(h) \ {n} /\ h[x.next].previous = n
    BY NextLeaf
  <2>2. x.next \in Alive(h) /\ x.next # new
    BY <2>1 DEF Leaves, Alive
  <2> QED BY <1>1, <2>1, <2>2, AliveIsNode
<1>3. x.next \notin {n, new}
  BY <1>1, <1>2, MapAssumption
<1>4. /\ s \in Heaps /\ s[n] \in Node /\ s[new] \in Node
      /\ s[n].keys \o s[new].keys = x.keys
      /\ s[n].values \o s[new].values = x.values
      /\ Len(s[n].keys) = Len(s[n].values) /\ Len(s[new].keys) = Len(s[new].values)
      /\ \A m \in {n, new} : s[m].outer /\ s[m].parent = x.parent
                             /\ ~IsFull(s[m]) /\ ~IsSparse(s[m])
      /\ s[n].previous = x.previous /\ s[n].next = new
      /\ s[new].previous = n /\ s[new].next = x.next
      /\ x.next # NULL => s[x.next] = [h[x.next] EXCEPT !.previous = new]
      /\ \A m \in NodeIds \ {n, new, x.next} : s[m] = h[m]
  <2>1. /\ h \in Heaps /\ n \in NodeIds /\ new \in NodeIds /\ n # new /\ h[n] \in Node
        /\ h[n].outer /\ Len(h[n].keys) = OuterFanout + 1 /\ Len(h[n].values) = Len(h[n].keys)
        /\ h[n].next \notin {n, new} /\ (h[n].next # NULL => h[h[n].next] \in Node)
    BY <1>1, <1>2, <1>3
  <2> HIDE DEF s, x
  <2>2. SplitLeaf(h, n, new, s)
    BY <2>1, SplitKeepsTheLeaf DEF s
  <2> QED BY <2>2, Zenon DEF SplitLeaf, x
<1> HIDE DEF s
<1>5. ASSUME NEW m \in {n, new} PROVE s[m].keys \in Seq(Keys) /\ s[m].values \in Seq(Values) /\ s[m].keys # <<>>
  <2>1. s[m] \in Node
    BY <1>4
  <2>2. s[m].keys \in Seq(Keys) /\ s[m].values \in Seq(Values)
    BY <2>1 DEF Node
  <2>3. ~(Len(s[m].keys) < OuterFanout \div 2)
    BY <1>4 DEF IsSparse, Fanout
  <2>4. OuterFanout \in Nat /\ OuterFanout >= 4
    BY MapAssumption
  <2>5. OuterFanout \div 2 >= 2
    BY <2>4
  <2>6. Len(s[m].keys) \in Nat /\ Len(<<>>) = 0
    BY <2>2
  <2>7. Len(s[m].keys) # 0
    BY <2>3, <2>4, <2>5, <2>6
  <2> QED BY <2>2, <2>6, <2>7
<1>6. ConcatOf(s[n].keys, s[new].keys, x.keys)
  <2>1. ConcatOf(s[n].keys, s[new].keys, s[n].keys \o s[new].keys)
    BY <1>5, Joined
  <2> QED BY <1>4, <2>1
<1>7. ConcatOf(s[n].values, s[new].values, x.values)
  <2>1. ConcatOf(s[n].values, s[new].values, s[n].values \o s[new].values)
    BY <1>5, Joined
  <2> QED BY <1>4, <2>1
<1>8. ASSUME NEW q \in NodeIds, q = x.next
      PROVE  /\ q \in Leaves(h) /\ q # n /\ h[q].previous = n
             /\ s[q] \in Node /\ Body(s[q], h[q]) /\ s[q].parent = h[q].parent
             /\ s[q].next = h[q].next /\ s[q].previous = new
  <2>1. q # NULL
    BY MapAssumption
  <2>2. s[q] = [h[q] EXCEPT !.previous = new] /\ h[q] \in Node /\ q \in Leaves(h) /\ h[q].previous = n
    BY <1>2, <1>4, <1>8, <2>1
  <2>3. ASSUME NEW u \in Node, NEW y, y = [u EXCEPT !.previous = new]
        PROVE y \in Node /\ Body(y, u) /\ y.parent = u.parent /\ y.next = u.next /\ y.previous = new
    BY <2>3 DEF Node, Body
  <2> QED BY <1>3, <1>8, <2>2, <2>3
<1>9. \A q \in NodeIds : q = h[n].next =>
       /\ q \in Leaves(h) /\ q # n /\ h[q].previous = n
       /\ s[q] \in Node /\ Body(s[q], h[q]) /\ s[q].parent = h[q].parent
       /\ s[q].next = h[q].next /\ s[q].previous = new
  BY <1>8
<1>10. DividedLeaf(h, s, n, new)
  BY <1>1, <1>4, <1>5, <1>6, <1>7, <1>9 DEF DividedLeaf
<1> QED BY <1>4, <1>10 DEF s

(* InnerNode::Insert.                                                      *)
LEMMA Reparented ==
  ASSUME NEW x \in Node, NEW p \in NodeIds \cup {NULL}, NEW y, y = [x EXCEPT !.parent = p]
  PROVE  y \in Node /\ Body(y, x) /\ Links(y, x) /\ y.parent = p
BY DEF Node, Body, Links

(* Every node but the root is a kid of its parent, at a place of its own.  *)
LEMMA KidHasPlace ==
  ASSUME NEW h, NEW r, NEW k, NEW c, NEW t, NEW lo, NEW hi, Tree(h, r, k, c, t, lo, hi),
         NEW n \in Alive(h), n \notin {r, k}
  PROVE  LET p == h[n].parent
         IN  /\ p \in Inners(h) /\ p \in Alive(h) /\ p \in NodeIds /\ h[p] \in Node /\ ~h[p].outer
             /\ KidIndex(h, p, n) \in 1..Len(h[p].kids) /\ h[p].kids[KidIndex(h, p, n)] = n
             /\ Len(h[p].kids) = Len(h[p].keys) + 1 /\ Distinct(h[p].kids)
             /\ t[n] + 1 = t[p] /\ p # n
<1> DEFINE p == h[n].parent
<1>1. h \in Heaps /\ p \in Inners(h) /\ IsKid(h, n, p) /\ t \in [NodeIds -> Nat] /\ n \in NodeIds
  BY DEF Tree, Shape, Placed, Alive
<1>2. p \in Alive(h) /\ p \in NodeIds /\ h[p] \in Node /\ ~h[p].outer /\ h[p].kids \in Seq(NodeIds)
  BY <1>1, AliveIsNode DEF Inners
<1>3. Family(h, r, k, t, p)
  BY <1>1 DEF Tree, Shape
<1> HIDE DEF p
<1>4. PICK i \in 1..Len(h[p].kids) : h[p].kids[i] = n
  BY <1>1, Zenon DEF IsKid
<1>5. Len(h[p].kids) = Len(h[p].keys) + 1 /\ Distinct(h[p].kids) /\ t[n] + 1 = t[p]
  BY <1>3, <1>4 DEF Family
<1>6. KidIndex(h, p, n) = i
  <2>1. \A j, l \in 1..Len(h[p].kids) : h[p].kids[j] = h[p].kids[l] => j = l
    BY <1>5 DEF Distinct
  <2>2. Position(h[p].kids, n) = i
    BY <1>2, <1>4, <2>1, PositionIs
  <2> QED BY <2>2, Zenon DEF KidIndex
<1>7. t[n] \in Nat /\ p # n
  <2>1. t[n] \in Nat
    BY <1>1
  <2> QED BY <1>5, <2>1
<1> QED BY <1>1, <1>2, <1>4, <1>5, <1>6, <1>7, Zenon DEF p

KidInserted(h, s, p, i, k, key) ==
  /\ s \in Heaps /\ s[p] \in Node /\ s[p].outer = h[p].outer
  /\ s[p].parent = h[p].parent
  /\ InsertOf(h[p].keys, i, key, s[p].keys) /\ InsertOf(h[p].kids, i + 1, k, s[p].kids)
  /\ s[k] \in Node /\ Body(s[k], h[k]) /\ Links(s[k], h[k]) /\ s[k].parent = p
  /\ \A m \in NodeIds \ {p, k} : s[m] = h[m]

LEMMA InnerInsertIs ==
  ASSUME NEW h \in Heaps, NEW p \in NodeIds, h[p] \in Node, h[p].keys # <<>>,
         NEW c, NEW k \in NodeIds, k # p, h[k] \in Node, NEW key \in Keys,
         NEW i, KidIndex(h, p, c) = i, i \in 1..Len(h[p].kids),
         Len(h[p].kids) = Len(h[p].keys) + 1
  PROVE  KidInserted(h, InnerInsert(h, p, c, key, k), p, i, k, key)
<1> DEFINE x == h[p]
           ks == InsertAt(x.keys, i, key)
           ms == InsertAt(x.kids, i + 1, k)
           y == [x EXCEPT !.keys = ks, !.kids = ms]
           g == [h EXCEPT ![p].keys = InsertAt(@, i, key), ![p].kids = InsertAt(@, i + 1, k)]
           s == InnerInsert(h, p, c, key, k)
<1>1. x \in Node /\ x.keys \in Seq(Keys) /\ x.kids \in Seq(NodeIds)
  BY DEF Node
<1>2. s = SetParent(g, {k}, p)
  BY Zenon DEF InnerInsert
<1>3. i \in 1..(Len(x.keys) + 1) /\ i + 1 \in 1..(Len(x.kids) + 1)
  <2>1. Len(x.keys) \in Nat /\ Len(x.kids) = Len(x.keys) + 1 /\ i \in 1..Len(x.kids)
    BY <1>1
  <2> HIDE DEF x
  <2> QED BY <2>1
<1>4. /\ ks \in Seq(Keys) /\ InsertOf(x.keys, i, key, ks)
      /\ ms \in Seq(NodeIds) /\ InsertOf(x.kids, i + 1, k, ms)
  <2> HIDE DEF x
  <2>1. ks \in Seq(Keys) /\ InsertOf(x.keys, i, key, ks)
    BY <1>1, <1>3, InsertedAt
  <2>2. ms \in Seq(NodeIds) /\ InsertOf(x.kids, i + 1, k, ms)
    BY <1>1, <1>3, InsertedAt
  <2> QED BY <2>1, <2>2
<1>5. h \in [NodeIds -> Node \cup {Freed}]
  BY DEF Heaps
<1>6. g[p] = y /\ (\A m \in NodeIds \ {p} : g[m] = h[m]) /\ g = [m \in NodeIds |-> g[m]]
  BY <1>1, <1>5 DEF Node
<1> HIDE DEF g, ks, ms
<1>7. /\ y \in Node /\ y.outer = x.outer /\ y.parent = x.parent /\ y.keys = ks /\ y.kids = ms
  <2> HIDE DEF x
  <2> QED BY <1>1, <1>4 DEF Node
<1> HIDE DEF y
<1>8. s = [m \in NodeIds |-> IF m \in {k} THEN [g[m] EXCEPT !.parent = p] ELSE g[m]]
  BY <1>2, Zenon DEF SetParent
<1> HIDE DEF s
<1>9. /\ s[p] = y /\ s[k] = [h[k] EXCEPT !.parent = p]
      /\ (\A m \in NodeIds \ {p, k} : s[m] = h[m]) /\ s = [m \in NodeIds |-> s[m]]
  BY <1>6, <1>8
<1>10. s[k] \in Node /\ Body(s[k], h[k]) /\ Links(s[k], h[k]) /\ s[k].parent = p
  BY <1>9, Reparented
<1>11. s \in Heaps
  <2>1. \A m \in NodeIds : s[m] \in Node \cup {Freed}
    BY <1>5, <1>7, <1>9, <1>10
  <2> QED BY <1>9, <2>1, Zenon DEF Heaps
<1> QED BY <1>4, <1>7, <1>9, <1>10, <1>11, Zenon DEF s, KidInserted

(* InnerInsert is a link in the sense above: the new kid stands right of   *)
(* the one that was divided.                                               *)
LEMMA InnerInsertLinks ==
  ASSUME NEW h, NEW r, NEW k, NEW c, NEW t, NEW lo, NEW hi, Tree(h, r, k, c, t, lo, hi),
         k # NULL, c # r, c # k, c \in Alive(h), t[k] = t[c], NEW key \in Keys,
         NEW p, p = h[c].parent, h[p].keys # <<>>
  PROVE  Linked(h, InnerInsert(h, p, c, key, k), p, KidIndex(h, p, c), c, k, key)
<1> DEFINE s == InnerInsert(h, p, c, key, k)
           i == KidIndex(h, p, c)
<1>1. /\ p \in Inners(h) /\ p \in Alive(h) /\ p \in NodeIds /\ h[p] \in Node /\ ~h[p].outer
      /\ i \in 1..Len(h[p].kids) /\ h[p].kids[i] = c
      /\ Len(h[p].kids) = Len(h[p].keys) + 1
      /\ t[c] + 1 = t[p] /\ p # c
  BY KidHasPlace
<1>2. h \in Heaps /\ k \in Alive(h) /\ t \in [NodeIds -> Nat]
  BY DEF Tree, Shape
<1>3. k \in NodeIds /\ h[k] \in Node
  BY <1>2, AliveIsNode
<1>4. k # p
  <2>1. t[c] \in Nat
    BY <1>2 DEF Alive
  <2> QED BY <1>1, <2>1
<1>5. KidInserted(h, s, p, i, k, key)
  <2>1. i \in 1..Len(h[p].kids) /\ KidIndex(h, p, c) = i
    BY <1>1
  <2> HIDE DEF i
  <2> QED BY <1>1, <1>2, <1>3, <1>4, <2>1, InnerInsertIs
<1> HIDE DEF s, i
<1>6. Linked(h, s, p, i, c, k, key)
  BY <1>1, <1>2, <1>4, <1>5 DEF Linked, KidInserted
<1> QED BY <1>6 DEF s, i

(* A node of its own, before it is filled.                                 *)
LEMMA NewNodeIs ==
  ASSUME NEW outer \in BOOLEAN
  PROVE  /\ NewNode(outer) \in Node /\ NewNode(outer).outer = outer
         /\ NewNode(outer).keys = <<>> /\ NewNode(outer).values = <<>>
         /\ NewNode(outer).kids = <<>> /\ NewNode(outer).next = NULL
<1>1. <<>> \in Seq(Keys) /\ <<>> \in Seq(Values) /\ <<>> \in Seq(NodeIds)
  OBVIOUS
<1>2. ASSUME NEW l, l = [outer |-> outer, keys |-> <<>>, values |-> <<>>, kids |-> <<>>,
                         parent |-> NULL, next |-> NULL, previous |-> NULL]
      PROVE  /\ l \in Node /\ l.outer = outer /\ l.keys = <<>> /\ l.values = <<>>
             /\ l.kids = <<>> /\ l.next = NULL
  BY <1>1, <1>2, Zenon DEF Node
<1> QED BY <1>2, Zenon DEF NewNode

(* InnerInsert into an empty inner node makes a new root.                  *)
LEMMA RootInsertIs ==
  ASSUME NEW h \in Heaps, NEW n \in NodeIds, h[n] = Freed, NEW key \in Keys,
         NEW r \in Alive(h), NEW k \in Alive(h), r # k
  PROVE  NewRoot(h, InnerInsert([h EXCEPT ![n] = NewNode(FALSE)], n, r, key, k), r, k, n, key)
<1> DEFINE f == [h EXCEPT ![n] = NewNode(FALSE)]
           s == InnerInsert(f, n, r, key, k)
           g == [f EXCEPT ![n].keys = <<key>>, ![n].kids = <<r, k>>]
           x == NewNode(FALSE)
           ks == <<key>>
           ms == <<r, k>>
           y == [x EXCEPT !.keys = ks, !.kids = ms]
<1>1. /\ x \in Node /\ x.outer = FALSE /\ x.keys = <<>>
  BY NewNodeIs, Zenon
<1>2. /\ r \in NodeIds /\ k \in NodeIds /\ h[r] \in Node /\ h[k] \in Node
      /\ r # n /\ k # n
  BY AliveIsNode DEF Alive
<1>3. h \in [NodeIds -> Node \cup {Freed}]
  BY DEF Heaps
<1>4. ks \in Seq(Keys) /\ ms \in Seq(NodeIds) /\ Len(ks) = 1 /\ ks[1] = key
      /\ Len(ms) = 2 /\ ms[1] = r /\ ms[2] = k
  BY <1>2
<1> HIDE DEF ks, ms
<1>5. f[n] = x /\ (\A m \in NodeIds \ {n} : f[m] = h[m]) /\ f = [m \in NodeIds |-> f[m]]
  BY <1>3
<1>6. s = SetParent(g, {r, k}, n)
  BY <1>1, <1>5, Zenon DEF InnerInsert
<1> HIDE DEF f, x
<1>7. g[n] = y /\ (\A m \in NodeIds \ {n} : g[m] = h[m]) /\ g = [m \in NodeIds |-> g[m]]
  BY <1>1, <1>5 DEF Node, ks, ms
<1> HIDE DEF g
<1>8. y \in Node /\ y.outer = FALSE /\ y.keys = ks /\ y.kids = ms
  BY <1>1, <1>4 DEF Node
<1> HIDE DEF y
<1>9. s = [m \in NodeIds |-> IF m \in {r, k} THEN [g[m] EXCEPT !.parent = n] ELSE g[m]]
  BY <1>6, Zenon DEF SetParent
<1> HIDE DEF s
<1>10. /\ s[n] = y /\ s[r] = [h[r] EXCEPT !.parent = n] /\ s[k] = [h[k] EXCEPT !.parent = n]
       /\ (\A m \in NodeIds \ {n, r, k} : s[m] = h[m]) /\ s = [m \in NodeIds |-> s[m]]
  BY <1>2, <1>7, <1>9
<1>11. \A m \in {r, k} : s[m] \in Node /\ Body(s[m], h[m]) /\ Links(s[m], h[m]) /\ s[m].parent = n
  BY <1>2, <1>10, Reparented
<1>12. s \in Heaps
  <2>1. \A m \in NodeIds : s[m] \in Node \cup {Freed}
    BY <1>3, <1>8, <1>10, <1>11
  <2> QED BY <1>10, <2>1, Zenon DEF Heaps
<1>13. NewRoot(h, s, r, k, n, key)
  BY <1>4, <1>8, <1>10, <1>11, <1>12 DEF NewRoot
<1> QED BY <1>13 DEF s, f, x

(* InnerNode::Split.                                                       *)
LEMMA ToSetIs ==
  ASSUME NEW S, NEW s \in Seq(S)
  PROVE  ToSet(s) = Elements(s)
BY DEF ToSet, Elements

HalvesOf(x, l, u, v) ==
  /\ u.keys \in Seq(Keys) /\ v.keys \in Seq(Keys)
  /\ u.kids \in Seq(NodeIds) /\ v.kids \in Seq(NodeIds)
  /\ Parted(x, u, v, x.keys[l + 1]) /\ Len(u.keys) = l /\ Len(v.keys) = Len(x.keys) - (l + 1)

CutOf(S, s, i, u, v) ==
  /\ u \in Seq(S) /\ Len(u) = i /\ \A j \in 1..i : u[j] = s[j]
  /\ v \in Seq(S) /\ Len(v) = Len(s) - i /\ \A j \in 1..(Len(s) - i) : v[j] = s[i + j]

LEMMA CutIs ==
  ASSUME NEW S, NEW s \in Seq(S), NEW i \in Nat, i <= Len(s)
  PROVE  CutOf(S, s, i, SubSeq(s, 1, i), After(s, i))
<1>1. /\ SubSeq(s, 1, i) \in Seq(S) /\ Len(SubSeq(s, 1, i)) = i
      /\ After(s, i) \in Seq(S) /\ Len(After(s, i)) = Len(s) - i
      /\ \A j \in 1..i : SubSeq(s, 1, i)[j] = s[j]
      /\ \A j \in 1..(Len(s) - i) : After(s, i)[j] = s[i + j]
  BY CutInTwo
<1> QED BY <1>1, Zenon DEF CutOf

LEMMA InnerHalves ==
  ASSUME NEW x, x.keys \in Seq(Keys), x.kids \in Seq(NodeIds), Len(x.kids) = Len(x.keys) + 1,
         NEW l \in Nat, l + 1 <= Len(x.keys), NEW u, NEW v,
         u.keys = SubSeq(x.keys, 1, l), u.kids = SubSeq(x.kids, 1, l + 1),
         v.keys = After(x.keys, l + 1), v.kids = After(x.kids, l + 1)
  PROVE  HalvesOf(x, l, u, v)
<1> DEFINE n == Len(x.keys)
           i == l + 1
<1>1. /\ n \in Nat /\ i \in Nat /\ l <= n /\ i <= n /\ i <= Len(x.kids) /\ Len(x.kids) = n + 1
      /\ i = l + 1
  <2>1. n \in Nat
    OBVIOUS
  <2> HIDE DEF n
  <2> QED BY <2>1 DEF n
<1>10. /\ u.kids = SubSeq(x.kids, 1, i) /\ v.keys = After(x.keys, i) /\ v.kids = After(x.kids, i)
  OBVIOUS
<1> HIDE DEF i, n
<1>2. u.keys \in Seq(Keys) /\ Len(u.keys) = l /\ \A j \in 1..l : u.keys[j] = x.keys[j]
  <2>1. l <= Len(x.keys)
    BY <1>1 DEF n
  <2>2. CutOf(Keys, x.keys, l, u.keys, After(x.keys, l))
    BY <2>1, CutIs, Zenon
  <2> QED BY <2>2, Zenon DEF CutOf
<1>3. /\ v.keys \in Seq(Keys) /\ Len(v.keys) = n - i
      /\ \A j \in 1..(n - i) : v.keys[j] = x.keys[i + j]
  <2>1. CutOf(Keys, x.keys, i, SubSeq(x.keys, 1, i), v.keys)
    BY <1>1, <1>10, CutIs, Zenon DEF n
  <2> QED BY <2>1, Zenon DEF CutOf, n
<1>11. CutOf(NodeIds, x.kids, i, u.kids, v.kids)
  BY <1>1, <1>10, CutIs, Zenon
<1>4. u.kids \in Seq(NodeIds) /\ Len(u.kids) = i /\ \A j \in 1..i : u.kids[j] = x.kids[j]
  BY <1>11, Zenon DEF CutOf
<1>5. /\ v.kids \in Seq(NodeIds) /\ Len(v.kids) = Len(x.kids) - i
      /\ \A j \in 1..(Len(x.kids) - i) : v.kids[j] = x.kids[i + j]
  BY <1>11, Zenon DEF CutOf
<1> DEFINE w == Len(v.keys)
<1>6. w \in Nat /\ n = l + w + 1 /\ n - i = w /\ Len(x.kids) - i = w + 1 /\ i = Len(u.keys) + 1
      /\ Len(v.kids) = w + 1 /\ Len(u.kids) = Len(u.keys) + 1 /\ i = l + 1
  <2>1. Len(v.keys) = n - i /\ Len(v.kids) = Len(x.kids) - i /\ Len(u.keys) = l /\ Len(u.kids) = i
    BY <1>2, <1>3, <1>4, <1>5, Zenon
  <2>2. /\ w \in Nat /\ n = l + w + 1 /\ n - i = w /\ Len(x.kids) - i = w + 1
        /\ Len(v.kids) = w + 1
    <3> DEFINE k == Len(x.kids)
               m == Len(v.kids)
    <3>1. /\ n \in Nat /\ l \in Nat /\ i = l + 1 /\ i <= n /\ k = n + 1
          /\ w = n - i /\ m = k - i
      BY <1>1, <2>1, Zenon DEF w
    <3> HIDE DEF k, m, w
    <3>2. w \in Nat /\ n = l + w + 1 /\ n - i = w /\ k - i = w + 1 /\ m = w + 1
      BY <3>1
    <3> QED BY <3>2, Zenon DEF k, m
  <2> QED BY <1>1, <2>1, <2>2, Zenon
<1> HIDE DEF w
<1>7. MiddleOf(u.keys, x.keys[l + 1], v.keys, x.keys)
  <2>1. \A j \in 1..w : x.keys[l + 1 + j] = v.keys[j]
    BY <1>3, <1>6
  <2>2. Len(x.keys) = l + w + 1
    BY <1>6 DEF n
  <2> QED BY <1>2, <2>1, <2>2 DEF MiddleOf, w
<1>8. ConcatOf(u.kids, v.kids, x.kids)
  <2>1. \A j \in 1..(w + 1) : x.kids[(l + 1) + j] = v.kids[j]
    BY <1>5, <1>6
  <2>2. Len(x.kids) = (l + 1) + (w + 1) /\ Len(v.kids) = w + 1
    BY <1>1, <1>6
  <2>3. /\ Len(x.kids) = Len(u.kids) + Len(v.kids)
        /\ \A j \in 1..Len(u.kids) : x.kids[j] = u.kids[j]
        /\ \A j \in 1..Len(v.kids) : x.kids[Len(u.kids) + j] = v.kids[j]
    <3>1. Len(u.kids) = l + 1 /\ i = l + 1
      BY <1>1, <1>4
    <3> QED BY <1>4, <2>1, <2>2, <3>1, Zenon
  <2> QED BY <2>3 DEF ConcatOf
<1>9. Parted(x, u, v, x.keys[l + 1])
  <2>1. Len(u.keys) \in Nat /\ Len(v.keys) \in Nat /\ Len(v.kids) = Len(v.keys) + 1
    BY <1>2, <1>6 DEF w
  <2> QED BY <1>6, <1>7, <1>8, <2>1 DEF Parted
<1>12. Len(v.keys) = Len(x.keys) - (l + 1)
  BY <1>1, <1>3, Zenon DEF n
<1> QED BY <1>2, <1>3, <1>4, <1>5, <1>9, <1>12, Zenon DEF HalvesOf

(***************************************************************************)
(* Calls on a parent and its kids.                                         *)
(***************************************************************************)

KnowsKids(h, r, k, t, n) ==
  /\ n \in Alive(h) /\ n \in NodeIds /\ h[n] \in Node /\ ~h[n].outer
  /\ h[n].keys \in Seq(Keys) /\ h[n].kids \in Seq(NodeIds)
  /\ Len(h[n].kids) = Len(h[n].keys) + 1 /\ Distinct(h[n].kids)
  /\ \A m : IsKid(h, m, n) => m \in Alive(h) \ {r, k, n} /\ h[m].parent = n /\ t[m] + 1 = t[n]

(* Where the kids of an inner node are.                                    *)
LEMMA KidsKnown ==
  ASSUME NEW h, NEW r, NEW k, NEW c, NEW t, NEW lo, NEW hi, Tree(h, r, k, c, t, lo, hi),
         NEW n \in Inners(h)
  PROVE  KnowsKids(h, r, k, t, n)
<1>1. h \in Heaps /\ Family(h, r, k, t, n) /\ n \in Alive(h) /\ ~h[n].outer /\ t \in [NodeIds -> Nat]
  BY DEF Tree, Shape, Inners
<1>2. /\ Len(h[n].kids) = Len(h[n].keys) + 1 /\ Distinct(h[n].kids)
      /\ \A m : IsKid(h, m, n) => m \in Alive(h) \ {r, k} /\ h[m].parent = n /\ t[m] + 1 = t[n]
  BY <1>1, FamilyIs
<1>3. ASSUME NEW m, IsKid(h, m, n)
      PROVE  m \in Alive(h) \ {r, k, n} /\ h[m].parent = n /\ t[m] + 1 = t[n]
  <2>1. m \in Alive(h) \ {r, k} /\ h[m].parent = n /\ t[m] + 1 = t[n]
    BY <1>2, <1>3
  <2>2. t[m] \in Nat
    BY <1>1, <2>1 DEF Alive
  <2>3. m # n
    BY <2>1, <2>2
  <2> QED BY <2>1, <2>3
<1>4. n \in NodeIds /\ h[n] \in Node /\ h[n].keys \in Seq(Keys) /\ h[n].kids \in Seq(NodeIds)
  BY <1>1, AliveIsNode
<1> QED BY <1>1, <1>2, <1>3, <1>4, Zenon DEF KnowsKids

SplitInner(h, s, n, new, l) ==
  /\ DividedInner(h, s, n, new, h[n].keys[l + 1])
  /\ Len(s[n].keys) = l /\ Len(s[new].keys) = Len(h[n].keys) - (l + 1)

(* InnerSplit divides an inner node.                                       *)
LEMMA InnerSplitDivides ==
  ASSUME NEW h, NEW r, NEW k, NEW c, NEW t, NEW lo, NEW hi, Tree(h, r, k, c, t, lo, hi),
         NEW n \in Inners(h), NEW new \in NodeIds, h[new] = Freed,
         NEW l, l = KeysLeft(h[n]), l \in Nat, l + 1 <= Len(h[n].keys)
  PROVE  SplitInner(h, InnerSplit(h, n, new), n, new, l)
<1> DEFINE x == h[n]
           up == x.keys[l + 1]
           lowKeys == SubSeq(x.keys, 1, l)
           lowKids == SubSeq(x.kids, 1, l + 1)
           highKeys == After(x.keys, l + 1)
           highKids == After(x.kids, l + 1)
           u == [x EXCEPT !.keys = lowKeys, !.kids = lowKids]
           v == [NewNode(FALSE) EXCEPT !.keys = highKeys, !.kids = highKids, !.parent = x.parent]
           g == [h EXCEPT ![n].keys = SubSeq(@, 1, l), ![n].kids = SubSeq(@, 1, l + 1), ![new] = v]
           s == InnerSplit(h, n, new)
<1>1. /\ n \in Alive(h) /\ n \in NodeIds /\ x \in Node /\ ~x.outer
      /\ x.keys \in Seq(Keys) /\ x.kids \in Seq(NodeIds)
      /\ Len(x.kids) = Len(x.keys) + 1 /\ Distinct(x.kids)
      /\ \A m : IsKid(h, m, n) => m \in Alive(h) \ {r, k, n} /\ h[m].parent = n
  <2>1. KnowsKids(h, r, k, t, n)
    BY KidsKnown
  <2> QED BY <2>1, Zenon DEF KnowsKids
<1>2. h \in [NodeIds -> Node \cup {Freed}] /\ h \in Heaps /\ n # new
  BY <1>1 DEF Tree, Shape, Heaps, Alive
<1>3. x.parent \in NodeIds \cup {NULL} /\ x.outer = FALSE
  BY <1>1 DEF Node
<1>4. s = SetParent(g, ToSet(highKids), new)
  BY Zenon DEF InnerSplit
<1>5. /\ HalvesOf(x, l, u, v)
      /\ u.keys = lowKeys /\ u.kids = lowKids /\ v.keys = highKeys /\ v.kids = highKids
      /\ u.parent = x.parent /\ v.parent = x.parent /\ u.outer = FALSE /\ v.outer = FALSE
  <2>1. /\ u.keys = lowKeys /\ u.kids = lowKids /\ u.parent = x.parent /\ u.outer = FALSE
    <3> HIDE DEF lowKeys, lowKids, x
    <3> QED BY <1>1, <1>3 DEF Node
  <2>2. v.keys = highKeys /\ v.kids = highKids /\ v.parent = x.parent /\ v.outer = FALSE
    <3> HIDE DEF highKeys, highKids, x
    <3>1. NewNode(FALSE) \in Node /\ NewNode(FALSE).outer = FALSE
      BY NewNodeIs, Zenon
    <3> QED BY <3>1 DEF Node
  <2> HIDE DEF x, u, v
  <2>3. l + 1 <= Len(x.keys)
    BY DEF x
  <2>4. HalvesOf(x, l, u, v)
    BY <1>1, <2>1, <2>2, <2>3, InnerHalves, Zenon
  <2> QED BY <2>1, <2>2, <2>4
<1> HIDE DEF lowKeys, lowKids, highKeys, highKids
<1>6. /\ u.keys \in Seq(Keys) /\ u.kids \in Seq(NodeIds)
      /\ v.keys \in Seq(Keys) /\ v.kids \in Seq(NodeIds) /\ Parted(x, u, v, up)
  <2> HIDE DEF u, v, x
  <2> QED BY <1>5, Zenon DEF HalvesOf, up
<1>7. u \in Node /\ v \in Node
  <2>1. lowKeys \in Seq(Keys) /\ lowKids \in Seq(NodeIds)
    BY <1>5, <1>6, Zenon
  <2>2. highKeys \in Seq(Keys) /\ highKids \in Seq(NodeIds)
    BY <1>5, <1>6, Zenon
  <2>3. u \in Node
    BY <1>1, <2>1 DEF Node
  <2>4. NewNode(FALSE) \in Node
    BY NewNodeIs, Zenon
  <2>5. v \in Node
    <3> HIDE DEF x
    <3> QED BY <1>3, <2>2, <2>4 DEF Node
  <2> QED BY <2>3, <2>5
<1>8. g[n] = u /\ g[new] = v /\ (\A m \in NodeIds \ {n, new} : g[m] = h[m])
      /\ g = [m \in NodeIds |-> g[m]]
  <2> HIDE DEF v
  <2> QED BY <1>1, <1>2 DEF Node, lowKeys, lowKids
<1> HIDE DEF g, u, v, up, x
<1>9. ToSet(highKids) = Elements(v.kids)
  BY <1>5, <1>6, ToSetIs
<1>10. s = [m \in NodeIds |-> IF m \in Elements(v.kids) THEN [g[m] EXCEPT !.parent = new] ELSE g[m]]
  BY <1>4, <1>9, Zenon DEF SetParent
<1> HIDE DEF s
<1>11. ASSUME NEW m \in Elements(v.kids)
       PROVE  m \in Alive(h) \ {n} /\ h[m].parent = n /\ m \in NodeIds \ {n, new} /\ h[m] \in Node
  <2>1. Elements(x.kids) = Elements(u.kids) \cup Elements(v.kids)
    <3>1. ConcatOf(u.kids, v.kids, x.kids) /\ Len(u.kids) \in Nat /\ Len(v.kids) \in Nat
      BY <1>6 DEF Parted
    <3> QED BY <3>1, ConcatElements
  <2>2. m \in Elements(x.kids)
    BY <2>1
  <2>3. IsKid(h, m, n)
    BY <2>2, KidIsElement DEF x
  <2>4. m \in Alive(h) \ {n} /\ h[m].parent = n
    BY <1>1, <2>3
  <2> QED BY <1>2, <2>4, AliveIsNode DEF Alive
<1>12. s[n] = u /\ s[new] = v
  BY <1>1, <1>8, <1>10, <1>11
<1>13. ASSUME NEW m \in NodeIds
       PROVE  IsKid(s, m, new) <=> m \in Elements(v.kids)
  BY <1>12, KidIsElement
<1>14. ASSUME NEW m \in Elements(v.kids)
       PROVE  s[m] \in Node /\ Body(s[m], h[m]) /\ Links(s[m], h[m]) /\ s[m].parent = new
  <2>1. s[m] = [h[m] EXCEPT !.parent = new] /\ h[m] \in Node
    BY <1>8, <1>10, <1>11
  <2> QED BY <2>1, Reparented
<1>15. s \in Heaps
  <2>1. \A m \in NodeIds : s[m] \in Node \cup {Freed}
    BY <1>2, <1>7, <1>8, <1>10, <1>12, <1>14
  <2> QED BY <1>10, <2>1, Zenon DEF Heaps
<1>16. \A m \in NodeIds : IsKid(s, m, new) =>
       /\ m \in Alive(h) \ {n} /\ h[m].parent = n
       /\ s[m] \in Node /\ Body(s[m], h[m]) /\ Links(s[m], h[m]) /\ s[m].parent = new
  BY <1>11, <1>13, <1>14
<1>17. \A m \in NodeIds \ {n, new} : ~IsKid(s, m, new) => s[m] = h[m]
  BY <1>8, <1>10, <1>13
<1>18. Parted(h[n], s[n], s[new], up) /\ s[n].parent = h[n].parent /\ ~s[n].outer /\ ~s[new].outer
  BY <1>5, <1>6, <1>12 DEF x
<1>19. DividedInner(h, s, n, new, up)
  BY <1>2, <1>7, <1>12, <1>15, <1>16, <1>17, <1>18 DEF DividedInner
<1>20. Len(u.keys) = l /\ Len(v.keys) = Len(x.keys) - (l + 1)
  BY <1>5, Zenon DEF HalvesOf
<1> QED BY <1>12, <1>19, <1>20 DEF SplitInner, s, up, x

(* The end of Erase: a root without keys gives way to its kid.             *)
LEMMA DropRootIs ==
  ASSUME NEW h, NEW r, NEW c, NEW t, NEW lo, NEW hi, Tree(h, r, NULL, c, t, lo, hi),
         r \in Inners(h), h[r].keys = <<>>, NEW m, m = h[r].kids[1],
         NEW s, s = [h EXCEPT ![r] = Freed, ![m].parent = NULL]
  PROVE  DropRoot(h, s, r, m)
<1>1. /\ r \in NodeIds /\ Len(h[r].kids) = 1
      /\ \A n : IsKid(h, n, r) => n \in Alive(h) \ {r}
  <2>3. KnowsKids(h, r, NULL, t, r)
    BY KidsKnown
  <2>1. /\ r \in NodeIds /\ Len(h[r].kids) = Len(h[r].keys) + 1
        /\ \A n : IsKid(h, n, r) => n \in Alive(h) \ {r}
    BY <2>3 DEF KnowsKids
  <2>2. Len(h[r].kids) = 1
    <3>1. Len(h[r].keys) = 0
      OBVIOUS
    <3> QED BY <2>1, <3>1
  <2> QED BY <2>1, <2>2
<1>2. m \in Alive(h) \ {r}
  <2>1. 1 \in 1..Len(h[r].kids) /\ h[r].kids[1] = m
    BY <1>1
  <2>2. IsKid(h, m, r)
    BY <2>1, Zenon DEF IsKid
  <2> QED BY <1>1, <2>2
<1>3. h \in [NodeIds -> Node \cup {Freed}] /\ h \in Heaps
  BY DEF Tree, Shape, Heaps
<1>4. m \in NodeIds /\ h[m] \in Node
  BY <1>2, <1>3, AliveIsNode
<1>5. /\ s[r] = Freed /\ s[m] = [h[m] EXCEPT !.parent = NULL]
      /\ (\A n \in NodeIds \ {r, m} : s[n] = h[n]) /\ s = [n \in NodeIds |-> s[n]]
  BY <1>1, <1>2, <1>3, <1>4
<1>6. s[m] \in Node /\ Body(s[m], h[m]) /\ Links(s[m], h[m])
  BY <1>4, <1>5, Reparented
<1>7. s \in Heaps
  <2>1. \A n \in NodeIds : s[n] \in Node \cup {Freed}
    BY <1>3, <1>5, <1>6
  <2> QED BY <1>5, <2>1, Zenon DEF Heaps
<1>8. DropRoot(h, s, r, m)
  BY <1>3, <1>5, <1>6, <1>7 DEF DropRoot
<1> QED BY <1>8

(***************************************************************************)
(* Two nodes that stand side by side.                                      *)
(***************************************************************************)
Siblings(h, p, i, a, b) ==
  /\ a \in Alive(h) /\ b \in Alive(h) /\ a # b /\ p \in Inners(h)
  /\ i \in 1..Len(h[p].keys) /\ h[p].kids[i] = a /\ h[p].kids[i + 1] = b
  /\ Len(h[p].kids) = Len(h[p].keys) + 1 /\ Distinct(h[p].kids)
  /\ h[a].parent = p /\ h[b].parent = p /\ p # a /\ p # b
  /\ KidIndex(h, p, a) = i /\ KidIndex(h, p, b) = i + 1

(* The node that b leaves.                                                 *)
Unlinked(h, p, i) ==
  [h EXCEPT ![p] = [h[p] EXCEPT !.keys = RemoveAt(h[p].keys, i),
                                !.kids = RemoveAt(h[p].kids, i + 1)]]

LEMMA RemovedInserted ==
  ASSUME NEW s, NEW u, Len(s) \in Nat, NEW i \in 1..Len(s), RemoveOf(s, i, u)
  PROVE  InsertOf(u, i, s[i], s)
<1>1. /\ Len(u) = Len(s) - 1
      /\ \A j \in 1..(i - 1) : u[j] = s[j]
      /\ \A j \in i..(Len(s) - 1) : u[j] = s[j + 1]
  BY DEF RemoveOf
<1>2. Len(s) = Len(u) + 1
  BY <1>1
<1>3. \A j \in i..Len(u) : s[j + 1] = u[j]
  BY <1>1
<1> QED BY <1>1, <1>2, <1>3 DEF InsertOf

LEMMA KidsStand ==
  ASSUME NEW h, NEW r, NEW k, NEW c, NEW t, NEW lo, NEW hi, Tree(h, r, k, c, t, lo, hi),
         NEW p \in Inners(h), NEW i \in 1..Len(h[p].keys)
  PROVE  /\ Siblings(h, p, i, h[p].kids[i], h[p].kids[i + 1])
         /\ \A m \in {h[p].kids[i], h[p].kids[i + 1]} : m # r /\ m # k /\ t[m] + 1 = t[p]
<1> DEFINE a == h[p].kids[i]
           b == h[p].kids[i + 1]
<1>1. /\ h[p].keys \in Seq(Keys) /\ h[p].kids \in Seq(NodeIds)
      /\ Len(h[p].kids) = Len(h[p].keys) + 1 /\ Distinct(h[p].kids)
      /\ \A m : IsKid(h, m, p) => m \in Alive(h) \ {r, k, p} /\ h[m].parent = p /\ t[m] + 1 = t[p]
  <2>1. KnowsKids(h, r, k, t, p)
    BY KidsKnown
  <2> QED BY <2>1, Zenon DEF KnowsKids
<1>2. i \in 1..Len(h[p].kids) /\ i + 1 \in 1..Len(h[p].kids) /\ i # i + 1
  BY <1>1
<1>3. IsKid(h, a, p) /\ IsKid(h, b, p)
  BY <1>2, Zenon DEF IsKid
<1>4. a # b
  BY <1>1, <1>2, Zenon DEF Distinct
<1>5. KidIndex(h, p, a) = i /\ KidIndex(h, p, b) = i + 1
  <2>1. \A j, l \in 1..Len(h[p].kids) : h[p].kids[j] = h[p].kids[l] => j = l
    BY <1>1 DEF Distinct
  <2>2. Position(h[p].kids, a) = i
    BY <1>1, <1>2, <2>1, PositionIs
  <2>3. Position(h[p].kids, b) = i + 1
    BY <1>1, <1>2, <2>1, PositionIs
  <2> QED BY <2>2, <2>3, Zenon DEF KidIndex
<1>6. \A m \in {a, b} : m \in Alive(h) \ {r, k, p} /\ h[m].parent = p /\ t[m] + 1 = t[p]
  BY <1>1, <1>3
<1>7. Siblings(h, p, i, a, b)
  <2> HIDE DEF a, b
  <2>1. h[p].kids[i] = a /\ h[p].kids[i + 1] = b
    BY DEF a, b
  <2> QED BY <1>1, <1>4, <1>5, <1>6, <2>1 DEF Siblings
<1> HIDE DEF a, b
<1>8. \A m \in {a, b} : m # r /\ m # k /\ t[m] + 1 = t[p]
  BY <1>6
<1> QED BY <1>7, <1>8 DEF a, b

(* Two siblings of which the right one is taken from the parent.           *)
LEMMA UnlinkedIs ==
  ASSUME NEW h \in Heaps, NEW p, NEW i, NEW a, NEW b, Siblings(h, p, i, a, b)
  PROVE  /\ Linked(Unlinked(h, p, i), h, p, i, a, b, h[p].keys[i])
         /\ \A m \in NodeIds \ {p} : Unlinked(h, p, i)[m] = h[m]
         /\ Unlinked(h, p, i)[p] = [h[p] EXCEPT !.keys = RemoveAt(h[p].keys, i),
                                                !.kids = RemoveAt(h[p].kids, i + 1)]
<1> DEFINE x == h[p]
           ks == RemoveAt(x.keys, i)
           ms == RemoveAt(x.kids, i + 1)
           y == [x EXCEPT !.keys = ks, !.kids = ms]
           g == Unlinked(h, p, i)
<1>1. /\ a \in Alive(h) /\ b \in Alive(h) /\ a # b /\ p \in Inners(h)
      /\ i \in 1..Len(x.keys) /\ x.kids[i] = a /\ x.kids[i + 1] = b
      /\ Len(x.kids) = Len(x.keys) + 1
      /\ h[b].parent = p /\ p # a /\ p # b
  BY DEF Siblings
<1>2. p \in NodeIds /\ x \in Node /\ x.outer = FALSE /\ x.keys \in Seq(Keys) /\ x.kids \in Seq(NodeIds)
      /\ p \in Alive(h) /\ x.outer \in BOOLEAN
  <2>1. p \in Alive(h) /\ ~h[p].outer
    BY <1>1 DEF Inners
  <2>2. p \in NodeIds /\ x \in Node /\ x.outer \in BOOLEAN /\ x.keys \in Seq(Keys) /\ x.kids \in Seq(NodeIds)
    BY <2>1, AliveIsNode
  <2> QED BY <2>1, <2>2
<1>3. h \in [NodeIds -> Node \cup {Freed}]
  BY DEF Heaps
<1>4. i + 1 \in 1..Len(x.kids)
  <2> HIDE DEF x
  <2> QED BY <1>1, <1>2
<1>5. /\ ks \in Seq(Keys) /\ RemoveOf(x.keys, i, ks)
      /\ ms \in Seq(NodeIds) /\ RemoveOf(x.kids, i + 1, ms)
  <2> HIDE DEF x
  <2>1. ks \in Seq(Keys) /\ RemoveOf(x.keys, i, ks)
    BY <1>1, <1>2, RemovedFrom
  <2>2. ms \in Seq(NodeIds) /\ RemoveOf(x.kids, i + 1, ms)
    BY <1>2, <1>4, RemovedFrom
  <2> QED BY <2>1, <2>2
<1>6. g[p] = y /\ (\A m \in NodeIds \ {p} : g[m] = h[m]) /\ g = [m \in NodeIds |-> g[m]]
  BY <1>2, <1>3 DEF Unlinked
<1> HIDE DEF ks, ms
<1>7. y \in Node /\ y.outer = FALSE /\ y.keys = ks /\ y.kids = ms /\ y.parent = x.parent
  BY <1>2, <1>5 DEF Node
<1> HIDE DEF g, y
<1>8. g \in Heaps
  <2>1. \A m \in NodeIds : g[m] \in Node \cup {Freed}
    BY <1>3, <1>6, <1>7
  <2> QED BY <1>6, <2>1, Zenon DEF Heaps
<1>9. Inners(g) = Inners(h) /\ Alive(g) = Alive(h)
  <2>1. y # Freed /\ x # Freed
    BY <1>2, <1>7, FreedAssumption
  <2>2. \A m \in NodeIds : (g[m] # Freed <=> h[m] # Freed) /\ (g[m].outer = h[m].outer)
    BY <1>2, <1>6, <1>7, <2>1
  <2>3. Alive(g) = Alive(h)
    BY <2>2 DEF Alive
  <2> QED BY <2>2, <2>3 DEF Inners, Alive
<1>10. InsertOf(ks, i, x.keys[i], x.keys)
  <2> HIDE DEF x
  <2>1. Len(x.keys) \in Nat
    BY <1>2
  <2> QED BY <1>1, <1>5, <2>1, RemovedInserted
<1>11. InsertOf(ms, i + 1, b, x.kids)
  <2>1. Len(x.kids) \in Nat
    BY <1>2
  <2>2. InsertOf(ms, i + 1, x.kids[i + 1], x.kids)
    <3> HIDE DEF x
    <3> QED BY <1>4, <1>5, <2>1, RemovedInserted
  <2> QED BY <1>1, <2>2
<1>12. i \in 1..Len(ms) /\ ms[i] = a
  <2>1. Len(ms) = Len(x.keys) /\ \A j \in 1..((i + 1) - 1) : ms[j] = x.kids[j]
    <3>1. Len(x.keys) \in Nat
      BY <1>2
    <3> HIDE DEF x
    <3> QED BY <1>1, <1>5, <3>1 DEF RemoveOf
  <2>2. i \in 1..((i + 1) - 1)
    BY <1>1
  <2> QED BY <1>1, <2>1, <2>2
<1>13. h[b] \in Node /\ b \in NodeIds /\ g[b] = h[b] /\ Body(h[b], h[b]) /\ Links(h[b], h[b])
  <2>1. h[b] \in Node /\ b \in NodeIds
    BY <1>1, AliveIsNode
  <2> QED BY <1>1, <1>6, <2>1 DEF Body, Links
<1>14. Linked(g, h, p, i, a, b, x.keys[i])
  BY <1>1, <1>2, <1>6, <1>7, <1>8, <1>9, <1>10, <1>11, <1>12, <1>13 DEF Linked
<1>15. g[p] = [h[p] EXCEPT !.keys = RemoveAt(h[p].keys, i), !.kids = RemoveAt(h[p].kids, i + 1)]
  BY <1>6 DEF y, ks, ms, x
<1> QED BY <1>6, <1>14, <1>15 DEF g

(***************************************************************************)
(* Leaves that are merged.                                                 *)
(***************************************************************************)

(* What the tree says of two siblings, and of the heap where the right one *)
(* left its parent.                                                        *)
Parting(h, r, p, i, a, b, t, lo, hi) ==
  /\ Tree(Unlinked(h, p, i), r, b, a, t, lo, hi) /\ Content(Unlinked(h, p, i)) = Content(h)
  /\ lo[b] = h[p].keys[i] /\ hi[a] = h[p].keys[i]
  /\ h[p].keys[i] \in Keys /\ h[p].keys[i] \in Nat /\ h[p].keys[i] # 0
  /\ t[a] = t[b] /\ a # r /\ b # r /\ b # NULL

(* Siblings part: the tree where the right one is beside it.               *)
LEMMA PartingIs ==
  ASSUME NEW h, NEW r, NEW any, NEW t, NEW lo, NEW hi, Tree(h, r, NULL, any, t, lo, hi),
         NEW p, NEW i, NEW a, NEW b, Siblings(h, p, i, a, b)
  PROVE  Parting(h, r, p, i, a, b, t, lo, hi)
<1> DEFINE g == Unlinked(h, p, i)
           key == h[p].keys[i]
<1>1. h \in Heaps /\ p \in Inners(h) /\ i \in 1..Len(h[p].keys) /\ p \in Alive(h)
      /\ a = h[p].kids[i] /\ b = h[p].kids[i + 1] /\ b \in Alive(h)
  BY DEF Tree, Shape, Siblings, Inners
<1>2. a # r /\ b # r /\ t[a] + 1 = t[p] /\ t[b] + 1 = t[p]
  BY <1>1, KidsStand
<1>3. a \in NodeIds /\ b \in NodeIds /\ t \in [NodeIds -> Nat]
  BY DEF Siblings, Alive, Tree, Shape
<1>4. t[a] = t[b] /\ b # NULL
  <2>1. t[a] \in Nat /\ t[b] \in Nat /\ t[p] \in Nat
    BY <1>1, <1>3 DEF Alive
  <2> QED BY <1>2, <1>3, <2>1, MapAssumption
<1>5. key \in Keys /\ key \in Nat /\ key # 0
  <2>1. key \in Keys
    BY <1>1, AliveIsNode
  <2> QED BY <2>1, MapAssumption
<1>6. Linked(g, h, p, i, a, b, key)
  BY <1>1, UnlinkedIs
<1> HIDE DEF g, key
<1>7. Tree(g, r, b, a, t, lo, hi) /\ lo[b] = key /\ hi[a] = key /\ Content(h) = Content(g)
  BY <1>2, <1>4, <1>6, UnlinkKeepsTree
<1> QED BY <1>2, <1>4, <1>5, <1>7 DEF Parting, g, key

LEMMA SiblingLeaves ==
  ASSUME NEW h, NEW r, NEW any, NEW t, NEW lo, NEW hi, Tree(h, r, NULL, any, t, lo, hi),
         NEW p, NEW i, NEW a, NEW b, Siblings(h, p, i, a, b), h[a].outer
  PROVE  /\ a \in Leaves(h) /\ b \in Leaves(h) /\ h[b].outer
         /\ h[a].next = b /\ h[b].previous = a
<1>1. Parting(h, r, p, i, a, b, t, lo, hi)
  BY PartingIs
<1>2. /\ a \in Alive(h) /\ b \in Alive(h) /\ h \in Heaps
      /\ \A n \in Alive(h) : h[n].outer <=> t[n] = 0
  BY DEF Siblings, Tree, Shape, Placed
<1>3. a \in Leaves(h) /\ b \in Leaves(h) /\ h[b].outer /\ t[b] = 0
  BY <1>1, <1>2 DEF Leaves, Parting
<1>4. h[a].next # NULL /\ lo[h[a].next] = hi[a] /\ h[a].next \in Leaves(h)
      /\ h[h[a].next].previous = a
  BY <1>1, <1>3 DEF Tree, Chained, Parting
<1> DEFINE n == h[a].next
           key == lo[b]
<1>5. key \in Nat /\ lo[n] = key
  BY <1>1, <1>4 DEF Parting
<1>6. ASSUME NEW m \in Leaves(h), lo[m] = key PROVE Within(lo, hi, m, key)
  <2>1. Under(lo[m], hi[m])
    BY <1>6 DEF Tree, Ordered, Ranged, Leaves
  <2> HIDE DEF key
  <2> QED BY <1>5, <1>6, <2>1 DEF Within
<1>7. Within(lo, hi, n, key) /\ Within(lo, hi, b, key)
  BY <1>3, <1>4, <1>5, <1>6
<1> HIDE DEF key, n
<1>8. n \in Leaves(h)
  BY <1>4 DEF n
<1>9. n = b
  BY <1>3, <1>5, <1>7, <1>8, LeafOfKey
<1> QED BY <1>3, <1>4, <1>9 DEF n

(* A leaf that takes in the one after it.                                  *)
JoinedLeaves(g, j, a, b) ==
  /\ g \in Heaps /\ j \in Heaps /\ a \in Leaves(g) /\ b \in Leaves(g) /\ a # b
  /\ g[a].next = b /\ g[b].previous = a
  /\ Len(g[a].values) = Len(g[a].keys) /\ Len(g[b].values) = Len(g[b].keys)
  /\ g[a].keys # <<>> /\ g[b].keys # <<>>
  /\ j[a] \in Node /\ j[a].outer /\ j[b] = Freed
  /\ j[a].keys = g[a].keys \o g[b].keys /\ j[a].values = g[a].values \o g[b].values
  /\ j[a].parent = g[a].parent /\ j[a].previous = g[a].previous /\ j[a].next = g[b].next
  /\ \A x \in NodeIds : x = g[b].next =>
       /\ x \in Leaves(g) \ {a, b} /\ g[x].previous = b /\ j[x] = [g[x] EXCEPT !.previous = a]
  /\ \A m \in NodeIds \ {a, b, g[b].next} : j[m] = g[m]

LEMMA JoinedLeavesDivide ==
  ASSUME NEW g, NEW j, NEW a, NEW b, JoinedLeaves(g, j, a, b)
  PROVE  DividedLeaf(j, g, a, b)
<1>1. /\ g \in Heaps /\ j \in Heaps /\ a \in Leaves(g) /\ b \in Leaves(g) /\ a # b
      /\ g[a].next = b /\ g[b].previous = a
      /\ Len(g[a].values) = Len(g[a].keys) /\ Len(g[b].values) = Len(g[b].keys)
      /\ g[a].keys # <<>> /\ g[b].keys # <<>>
      /\ j[a] \in Node /\ j[a].outer /\ j[b] = Freed
      /\ j[a].keys = g[a].keys \o g[b].keys /\ j[a].values = g[a].values \o g[b].values
      /\ j[a].parent = g[a].parent /\ j[a].previous = g[a].previous /\ j[a].next = g[b].next
      /\ \A m \in NodeIds \ {a, b, g[b].next} : j[m] = g[m]
  BY DEF JoinedLeaves
<1>2. a \in Alive(g) /\ b \in Alive(g) /\ g[a].outer /\ g[b].outer
  BY <1>1 DEF Leaves
<1>3. /\ a \in NodeIds /\ b \in NodeIds /\ g[a] \in Node /\ g[b] \in Node
      /\ g[a].keys \in Seq(Keys) /\ g[a].values \in Seq(Values)
      /\ g[b].keys \in Seq(Keys) /\ g[b].values \in Seq(Values)
  BY <1>1, <1>2, AliveIsNode
<1>4. ConcatOf(g[a].keys, g[b].keys, j[a].keys) /\ j[a].keys \in Seq(Keys)
  BY <1>1, <1>3, Joined
<1>5. ConcatOf(g[a].values, g[b].values, j[a].values)
  BY <1>1, <1>3, Joined
<1>6. Len(j[a].values) = Len(j[a].keys)
  BY <1>1, <1>4, <1>5 DEF ConcatOf
<1>7. a \in Leaves(j)
  <2>1. j[a] # Freed
    BY <1>1, FreedAssumption
  <2> QED BY <1>1, <1>3, <2>1 DEF Leaves, Alive
<1>8. ASSUME NEW x \in NodeIds, x = j[a].next
      PROVE  /\ x \in Leaves(j) /\ x # a /\ j[x].previous = a
             /\ g[x] \in Node /\ Body(g[x], j[x]) /\ g[x].parent = j[x].parent
             /\ g[x].next = j[x].next /\ g[x].previous = b
  <2>1. x \in Leaves(g) \ {a, b} /\ g[x].previous = b /\ j[x] = [g[x] EXCEPT !.previous = a]
    BY <1>1, <1>8 DEF JoinedLeaves
  <2>2. g[x] \in Node /\ g[x].outer
    BY <1>1, <2>1, AliveIsNode DEF Leaves
  <2>3. ASSUME NEW u \in Node, NEW y, y = [u EXCEPT !.previous = a]
        PROVE  /\ y \in Node /\ Body(u, y) /\ u.parent = y.parent /\ u.next = y.next
               /\ y.previous = a /\ y.outer = u.outer
    BY <1>3, <2>3 DEF Node, Body
  <2>4. /\ j[x] \in Node /\ Body(g[x], j[x]) /\ g[x].parent = j[x].parent /\ g[x].next = j[x].next
        /\ j[x].previous = a /\ j[x].outer = g[x].outer
    BY <2>1, <2>2, <2>3
  <2>5. x \in Leaves(j)
    <3>1. j[x] # Freed
      BY <2>4, FreedAssumption
    <3> QED BY <2>2, <2>4, <3>1 DEF Leaves, Alive
  <2> QED BY <2>1, <2>2, <2>4, <2>5
<1>9. \A x \in NodeIds : x = j[a].next =>
       /\ x \in Leaves(j) /\ x # a /\ j[x].previous = a
       /\ g[x] \in Node /\ Body(g[x], j[x]) /\ g[x].parent = j[x].parent
       /\ g[x].next = j[x].next /\ g[x].previous = b
  BY <1>8
<1>10. \A m \in NodeIds \ {a, b, j[a].next} : g[m] = j[m]
  BY <1>1
<1> QED BY <1>1, <1>2, <1>3, <1>4, <1>5, <1>6, <1>7, <1>9, <1>10 DEF DividedLeaf

(***************************************************************************)
(* A leaf merges into the one left of it.                                  *)
(***************************************************************************)

(* What a merge and a move leave of the sizes. *)
Shrunk(h, s, a, b, p, more) ==
  /\ s \in Heaps /\ Alive(s) = Alive(h) \ {b}
  /\ s[a].outer = h[a].outer /\ Len(s[a].keys) = Len(h[a].keys) + Len(h[b].keys) + more
  /\ ~s[p].outer /\ Len(s[p].keys) = Len(h[p].keys) - 1
  /\ \A m \in Alive(s) \ {a, p} : s[m].outer = h[m].outer /\ s[m].keys = h[m].keys

LEMMA SiblingsDiffer ==
  ASSUME NEW h, NEW r, NEW any, NEW t, NEW lo, NEW hi, Tree(h, r, NULL, any, t, lo, hi),
         NEW p, NEW i, NEW a, NEW b, Siblings(h, p, i, a, b), h[a].outer
  PROVE  h[b].next # NULL => h[b].next \in Leaves(h) \ {a, b, p} /\ h[h[b].next].previous = b
<1>1. a \in Leaves(h) /\ b \in Leaves(h) /\ h[a].next = b
  BY SiblingLeaves
<1> SUFFICES ASSUME h[b].next # NULL
             PROVE  h[b].next \in Leaves(h) \ {a, b, p} /\ h[h[b].next].previous = b
  OBVIOUS
<1> DEFINE n == h[b].next
<1>2. n \in Leaves(h) \ {b} /\ h[n].previous = b /\ lo[n] = hi[b]
  BY <1>1, NextLeaf
<1>3. lo[b] = hi[a] /\ hi[a] # 0
  <2>1. Parting(h, r, p, i, a, b, t, lo, hi)
    BY PartingIs
  <2> QED BY <2>1 DEF Parting
<1>4. hi[b] # 0 /\ lo[a] \in Nat /\ lo[b] \in Nat /\ hi[a] \in Nat /\ hi[b] \in Nat
  BY <1>1 DEF Tree, Ordered, Chained, Leaves, Alive
<1>5. Under(lo[a], hi[a]) /\ Under(lo[b], hi[b])
  BY <1>1 DEF Tree, Ordered, Ranged, Leaves
<1> HIDE DEF n
<1>6. n # a
  BY <1>2, <1>3, <1>4, <1>5 DEF Under
<1>7. n # p
  BY <1>2 DEF Siblings, Inners, Leaves
<1> QED BY <1>2, <1>6, <1>7 DEF n

LEMMA LeavesToMerge ==
  ASSUME NEW h, NEW r, NEW any, NEW t, NEW lo, NEW hi, Tree(h, r, NULL, any, t, lo, hi),
         NEW p, NEW i, NEW a, NEW b, Siblings(h, p, i, a, b), h[a].outer, MayCoalesce(h, a, b)
  PROVE  MergedLeaves(h, a, b, p, i, Merge(h, a, b))
<1>1. a \in Leaves(h) /\ b \in Leaves(h) /\ h \in Heaps
  BY SiblingLeaves DEF Tree, Shape
<1>2. /\ a # b /\ p \in Inners(h) /\ i \in 1..Len(h[p].keys)
      /\ h[p].kids[i] = a /\ h[p].kids[i + 1] = b
      /\ Len(h[p].kids) = Len(h[p].keys) + 1 /\ Distinct(h[p].kids)
      /\ h[a].parent = p /\ p # a /\ p # b
  BY DEF Siblings
<1>3. p \in Alive(h) /\ a \in Alive(h) /\ b \in Alive(h)
  BY <1>1, <1>2 DEF Inners, Leaves
<1>4. /\ p \in NodeIds \ {a, b} /\ a \in NodeIds /\ b \in NodeIds
      /\ h[p] \in Node /\ h[a] \in Node /\ h[b] \in Node
      /\ \A j \in 1..Len(h[p].keys) : h[p].keys[j] \in Nat
      /\ Len(h[p].keys) \in Nat
  BY <1>1, <1>2, <1>3, AliveIsNode
<1>5. Len(h[a].values) = Len(h[a].keys) /\ Len(h[b].values) = Len(h[b].keys)
  BY <1>1 DEF Tree, Shape
<1>6. Ascending(h[p].keys)
  BY <1>3 DEF Tree, Ordered, Ranged
<1>7. \A j, l \in 1..Len(h[p].keys) : h[p].keys[j] = h[p].keys[l] => j = l
  <2> DEFINE ks == h[p].keys
  <2>1. \A j, l \in 1..Len(ks) : j < l => ks[j] < ks[l]
    BY <1>6 DEF Ascending
  <2>2. Len(ks) \in Nat /\ \A j \in 1..Len(ks) : ks[j] \in Nat
    BY <1>4
  <2> HIDE DEF ks
  <2>3. ASSUME NEW j \in 1..Len(ks), NEW l \in 1..Len(ks), ks[j] = ks[l] PROVE j = l
    <3>1. ~(j < l) /\ ~(l < j)
      BY <2>1, <2>2, <2>3
    <3> QED BY <2>2, <3>1
  <2>4. \A j, l \in 1..Len(ks) : ks[j] = ks[l] => j = l
    BY <2>3
  <2> QED BY <2>4 DEF ks
<1>8. \A j, l \in 1..Len(h[p].kids) : h[p].kids[j] = h[p].kids[l] => j = l
  BY <1>2 DEF Distinct
<1>9. h[b].next \notin {a, b, p} /\ (h[b].next # NULL => h[h[b].next] \in Node)
  <2>1. CASE h[b].next = NULL
    BY <2>1, <1>4, MapAssumption
  <2>2. CASE h[b].next # NULL
    <3>1. h[b].next \in Leaves(h) \ {a, b, p}
      BY <2>2, SiblingsDiffer
    <3> QED BY <1>1, <3>1, AliveIsNode DEF Leaves
  <2> QED BY <2>1, <2>2
<1> QED BY <1>1, <1>2, <1>4, <1>5, <1>7, <1>8, <1>9, MergeKeepsTheLeaves

LEMMA MergeJoinsLeaves ==
  ASSUME NEW h, NEW r, NEW any, NEW t, NEW lo, NEW hi, Tree(h, r, NULL, any, t, lo, hi),
         NEW p, NEW i, NEW a, NEW b, Siblings(h, p, i, a, b), h[a].outer,
         h[a].keys # <<>>, h[b].keys # <<>>, NEW s, MergedLeaves(h, a, b, p, i, s)
  PROVE  JoinedLeaves(Unlinked(h, p, i), s, a, b)
<1> DEFINE g == Unlinked(h, p, i)
<1>1. Parting(h, r, p, i, a, b, t, lo, hi)
  BY PartingIs
<1>2. g \in Heaps
  BY <1>1 DEF Parting, Tree, Shape
<1>3. h \in Heaps /\ a # b /\ p # a /\ p # b /\ h[a].parent = p /\ p \in Inners(h)
  BY DEF Tree, Shape, Siblings
<1>4. /\ \A m \in NodeIds \ {p} : g[m] = h[m]
      /\ g[p] = [h[p] EXCEPT !.keys = RemoveAt(h[p].keys, i), !.kids = RemoveAt(h[p].kids, i + 1)]
      /\ Linked(g, h, p, i, a, b, h[p].keys[i])
  <2>1. Linked(g, h, p, i, a, b, h[p].keys[i])
    BY <1>3, UnlinkedIs
  <2>2. p \in NodeIds
    BY <1>3 DEF Inners, Alive
  <2>3. h = [m \in NodeIds |-> h[m]]
    BY <1>3 DEF Heaps
  <2>4. ASSUME NEW x PROVE /\ \A m \in NodeIds \ {p} : [h EXCEPT ![p] = x][m] = h[m]
                           /\ [h EXCEPT ![p] = x][p] = x
    BY <2>2, <2>3
  <2> QED BY <2>1, <2>4 DEF Unlinked
<1>5. a \in Leaves(h) /\ b \in Leaves(h) /\ h[a].next = b /\ h[b].previous = a
  BY SiblingLeaves
<1>6. Leaves(g) = Leaves(h)
  BY <1>4, LinkedAlive
<1>7. a \in NodeIds /\ b \in NodeIds /\ p \in NodeIds
  BY <1>3, <1>5 DEF Leaves, Inners, Alive
<1>8. g[a] = h[a] /\ g[b] = h[b]
  BY <1>3, <1>4, <1>7
<1>9. Len(h[a].values) = Len(h[a].keys) /\ Len(h[b].values) = Len(h[b].keys)
  BY <1>5 DEF Tree, Shape
<1>10. /\ s \in Heaps /\ s[a] \in Node
       /\ s[a].keys = h[a].keys \o h[b].keys /\ s[a].values = h[a].values \o h[b].values
       /\ s[a].outer /\ s[a].parent = p
       /\ s[a].previous = h[a].previous /\ s[a].next = h[b].next
       /\ h[b].next # NULL => s[h[b].next] = [h[h[b].next] EXCEPT !.previous = a]
       /\ s[b] = Freed
       /\ s[p] = [h[p] EXCEPT !.keys = RemoveAt(h[p].keys, i), !.kids = RemoveAt(h[p].kids, i + 1)]
       /\ \A m \in NodeIds \ {a, b, p, h[b].next} : s[m] = h[m]
  BY DEF MergedLeaves
<1> HIDE DEF g
<1>11. ASSUME NEW x \in NodeIds, x = g[b].next
       PROVE  /\ x \in Leaves(g) \ {a, b} /\ g[x].previous = b
              /\ s[x] = [g[x] EXCEPT !.previous = a]
  <2>1. x = h[b].next /\ h[b].next # NULL
    BY <1>8, <1>11, MapAssumption
  <2>2. x \in Leaves(h) \ {a, b, p} /\ h[x].previous = b
    BY <2>1, SiblingsDiffer
  <2>3. g[x] = h[x]
    BY <1>4, <2>2, <1>11
  <2> QED BY <1>6, <1>10, <2>1, <2>2, <2>3
<1>12. ASSUME NEW m \in NodeIds \ {a, b, g[b].next} PROVE s[m] = g[m]
  <2>1. CASE m = p
    BY <1>4, <1>10, <2>1
  <2>2. CASE m # p
    BY <1>4, <1>8, <1>10, <1>12, <2>2
  <2> QED BY <2>1, <2>2
<1>13. JoinedLeaves(g, s, a, b)
  BY <1>2, <1>3, <1>5, <1>6, <1>8, <1>9, <1>10, <1>11, <1>12 DEF JoinedLeaves
<1> QED BY <1>13 DEF g

(* The tree that a merge leaves.                                           *)
Remains(h, s, r, a, b, p, more) ==
  /\ \E t, lo, hi : Tree(s, r, NULL, NULL, t, lo, hi)
  /\ Content(s) = Content(h) /\ Shrunk(h, s, a, b, p, more)

(* Merge of two leaves: they part, and are joined.                         *)
LEMMA LeafMergeKeepsTree ==
  ASSUME NEW h, NEW r, NEW any, NEW t, NEW lo, NEW hi, Tree(h, r, NULL, any, t, lo, hi),
         NEW p, NEW i, NEW a, NEW b, Siblings(h, p, i, a, b), h[a].outer,
         h[a].keys # <<>>, h[b].keys # <<>>, MayCoalesce(h, a, b)
  PROVE  Remains(h, Merge(h, a, b), r, a, b, p, 0)
<1> DEFINE s == Merge(h, a, b)
           g == Unlinked(h, p, i)
<1>1. MergedLeaves(h, a, b, p, i, s)
  BY LeavesToMerge
<1> HIDE DEF s
<1>2. JoinedLeaves(g, s, a, b)
  BY <1>1, MergeJoinsLeaves
<1>3. Parting(h, r, p, i, a, b, t, lo, hi)
  BY PartingIs
<1>4. Tree(g, r, b, a, t, lo, hi) /\ a # r /\ hi[a] # 0 /\ Content(g) = Content(h)
  BY <1>3 DEF Parting
<1> HIDE DEF g
<1>5. DividedLeaf(s, g, a, b)
  BY <1>2, JoinedLeavesDivide
<1>6. Tree(s, r, NULL, NULL, t, lo, [hi EXCEPT ![a] = hi[b]]) /\ Content(g) = Content(s)
  BY <1>4, <1>5, LeafJoinKeepsTree
<1>7. Shrunk(h, s, a, b, p, 0)
  <2>1. h \in Heaps /\ s \in Heaps /\ p \in Inners(h) /\ a # b /\ p # a /\ p # b
        /\ a \in Leaves(h) /\ b \in Leaves(h) /\ i \in 1..Len(h[p].keys)
    BY <1>6, SiblingLeaves DEF Tree, Shape, Siblings
  <2>2. Alive(g) = Alive(h)
    <3>1. Linked(g, h, p, i, a, b, h[p].keys[i])
      BY <2>1, UnlinkedIs DEF g
    <3> QED BY <3>1, LinkedAlive
  <2>3. Alive(g) = Alive(s) \cup {b} /\ b \notin Alive(s)
    BY <1>5, DividedLeafAlive
  <2>4. /\ s[a].keys = h[a].keys \o h[b].keys /\ s[a].outer
        /\ h[b].next # NULL => s[h[b].next] = [h[h[b].next] EXCEPT !.previous = a]
        /\ s[p] = [h[p] EXCEPT !.keys = RemoveAt(h[p].keys, i), !.kids = RemoveAt(h[p].kids, i + 1)]
        /\ \A m \in NodeIds \ {a, b, p, h[b].next} : s[m] = h[m]
    BY <1>1 DEF MergedLeaves
  <2>5. p \in Alive(h) /\ a \in Alive(h) /\ b \in Alive(h) /\ ~h[p].outer
    BY <2>1 DEF Inners, Leaves
  <2>6. /\ h[p] \in Node /\ h[p].keys \in Seq(Keys)
        /\ h[a].keys \in Seq(Keys) /\ h[b].keys \in Seq(Keys)
    BY <2>1, <2>5, AliveIsNode
  <2>7. Len(s[a].keys) = Len(h[a].keys) + Len(h[b].keys) + 0
    BY <2>4, <2>6
  <2>8. Len(RemoveAt(h[p].keys, i)) = Len(h[p].keys) - 1
    BY <2>1, <2>6, RemovedFrom DEF RemoveOf
  <2>9. ASSUME NEW x \in Node, NEW ks, NEW ms
        PROVE  /\ [x EXCEPT !.keys = ks, !.kids = ms].keys = ks
               /\ [x EXCEPT !.keys = ks, !.kids = ms].outer = x.outer
    BY DEF Node
  <2>10. s[p].keys = RemoveAt(h[p].keys, i) /\ s[p].outer = h[p].outer
    <3>1. /\ [h[p] EXCEPT !.keys = RemoveAt(h[p].keys, i), !.kids = RemoveAt(h[p].kids, i + 1)].keys
               = RemoveAt(h[p].keys, i)
          /\ [h[p] EXCEPT !.keys = RemoveAt(h[p].keys, i), !.kids = RemoveAt(h[p].kids, i + 1)].outer
               = h[p].outer
      BY <2>6, <2>9
    <3>2. s[p] = [h[p] EXCEPT !.keys = RemoveAt(h[p].keys, i), !.kids = RemoveAt(h[p].kids, i + 1)]
      BY <2>4
    <3> QED BY ONLY <3>1, <3>2
  <2>11. ASSUME NEW m \in Alive(s) \ {a, p} PROVE s[m].outer = h[m].outer /\ s[m].keys = h[m].keys
    <3>1. m \in Alive(h) /\ m \in NodeIds /\ m # b
      BY <2>2, <2>3, <2>11 DEF Alive
    <3>2. CASE m = h[b].next
      <4>1. h[m] \in Node /\ m # NULL
        BY <2>1, <3>1, AliveIsNode, MapAssumption
      <4>2. s[m] = [h[m] EXCEPT !.previous = a]
        BY <2>4, <3>2, <4>1
      <4> QED BY <4>1, <4>2 DEF Node
    <3>3. CASE m # h[b].next
      BY <2>4, <2>11, <3>1, <3>3
    <3> QED BY <3>2, <3>3
  <2>12. s[a].outer = h[a].outer
    <3>1. h[a].outer \in BOOLEAN /\ s[a].outer \in BOOLEAN
      <4>1. a \in Alive(s)
        BY <2>1, <2>2, <2>3, <2>5
      <4> QED BY <2>1, <2>5, <4>1, AliveIsNode
    <3> QED BY <2>4, <3>1
  <2>13. Alive(s) = Alive(h) \ {b}
    BY <2>2, <2>3
  <2>14. ~s[p].outer
    BY <2>5, <2>10
  <2> QED BY <2>1, <2>7, <2>8, <2>10, <2>11, <2>12, <2>13, <2>14 DEF Shrunk
<1> QED BY <1>4, <1>6, <1>7 DEF s, Remains

(***************************************************************************)
(* An element crosses between two leaves: as if they were joined, divided  *)
(* elsewhere, and the right one linked again.                              *)
(***************************************************************************)
JoinLeaves(g, a, b) == [OuterCoalesce(g, a, b) EXCEPT ![b] = Freed]

LEMMA JoinLeavesIs ==
  ASSUME NEW g \in Heaps, NEW a \in Leaves(g), NEW b \in Leaves(g), a # b,
         g[a].next = b, g[b].previous = a,
         Len(g[a].values) = Len(g[a].keys), Len(g[b].values) = Len(g[b].keys),
         g[a].keys # <<>>, g[b].keys # <<>>,
         g[b].next # NULL => g[b].next \in Leaves(g) \ {a, b} /\ g[g[b].next].previous = b
  PROVE  JoinedLeaves(g, JoinLeaves(g, a, b), a, b)
<1> DEFINE w == OuterCoalesce(g, a, b)
           j == JoinLeaves(g, a, b)
<1>1. a \in Alive(g) /\ b \in Alive(g) /\ g[a].outer /\ g[b].outer
  BY DEF Leaves
<1>2. a \in NodeIds /\ b \in NodeIds /\ g[a] \in Node /\ g[b] \in Node
  BY <1>1, AliveIsNode
<1>3. g[b].next \notin {a, b} /\ (g[b].next # NULL => g[g[b].next] \in Node)
  <2>1. CASE g[b].next = NULL
    BY <2>1, <1>2, MapAssumption
  <2>2. CASE g[b].next # NULL
    BY <2>2, AliveIsNode DEF Leaves
  <2> QED BY <2>1, <2>2
<1>4. JoinOf(g, a, b, w)
  BY <1>2, <1>3, OuterCoalesceIs
<1> HIDE DEF w
<1>5. /\ w = [m \in NodeIds |-> w[m]]
      /\ w[a] = [g[a] EXCEPT !.keys = g[a].keys \o g[b].keys,
                             !.values = g[a].values \o g[b].values, !.next = g[b].next]
      /\ g[b].next # NULL => w[g[b].next] = [g[g[b].next] EXCEPT !.previous = a]
      /\ \A m \in NodeIds \ {a, g[b].next} : w[m] = g[m]
  BY <1>4 DEF JoinOf
<1>6. JoinedLeaf(w[a], g[a], g[b])
  BY <1>1, <1>2, <1>5, JoinedLeafIs
<1>7. j = [w EXCEPT ![b] = Freed]
  BY DEF j, w, JoinLeaves
<1> HIDE DEF j
<1>8. j = [m \in NodeIds |-> j[m]] /\ j[b] = Freed /\ \A m \in NodeIds \ {b} : j[m] = w[m]
  BY <1>2, <1>5, <1>7
<1>9. j[a] \in Node /\ j[a].outer /\ j[a].keys = g[a].keys \o g[b].keys
      /\ j[a].values = g[a].values \o g[b].values /\ j[a].parent = g[a].parent
      /\ j[a].previous = g[a].previous /\ j[a].next = g[b].next
  BY <1>2, <1>6, <1>8 DEF JoinedLeaf
<1>10. ASSUME NEW x \in NodeIds, x = g[b].next
       PROVE  /\ x \in Leaves(g) \ {a, b} /\ g[x].previous = b /\ j[x] \in Node
              /\ j[x] = [g[x] EXCEPT !.previous = a]
  <2>1. x # NULL
    BY <1>10, MapAssumption
  <2>2. x \in Leaves(g) \ {a, b} /\ g[x].previous = b /\ g[x] \in Node
    BY <1>3, <1>10, <2>1
  <2>3. j[x] = [g[x] EXCEPT !.previous = a]
    BY <1>5, <1>8, <1>10, <2>1, <2>2
  <2>4. [g[x] EXCEPT !.previous = a] \in Node
    BY <1>2, <2>2 DEF Node
  <2> QED BY <2>2, <2>3, <2>4
<1>11. \A m \in NodeIds \ {a, b, g[b].next} : j[m] = g[m]
  BY <1>5, <1>8
<1>12. j \in Heaps
  <2>1. ASSUME NEW m \in NodeIds PROVE j[m] \in Node \cup {Freed}
    <3>1. CASE m = a
      BY <1>9, <3>1
    <3>2. CASE m = b
      BY <1>8, <3>2
    <3>3. CASE m = g[b].next
      BY <1>10, <3>3
    <3>4. CASE m \notin {a, b, g[b].next}
      BY <1>11, <3>4 DEF Heaps
    <3> QED BY <3>1, <3>2, <3>3, <3>4
  <2> QED BY <1>8, <2>1 DEF Heaps
<1>13. \A x \in NodeIds : x = g[b].next =>
         /\ x \in Leaves(g) \ {a, b} /\ g[x].previous = b /\ j[x] = [g[x] EXCEPT !.previous = a]
  BY <1>10
<1>14. JoinedLeaves(g, j, a, b)
  BY <1>8, <1>9, <1>11, <1>12, <1>13 DEF JoinedLeaves
<1> QED BY <1>14 DEF j

LEMMA PartedLeaves ==
  ASSUME NEW h, NEW r, NEW any, NEW t, NEW lo, NEW hi, Tree(h, r, NULL, any, t, lo, hi),
         NEW p, NEW i, NEW a, NEW b, Siblings(h, p, i, a, b), h[a].outer,
         h[a].keys # <<>>, h[b].keys # <<>>, NEW g, g = Unlinked(h, p, i)
  PROVE  JoinedLeaves(g, JoinLeaves(g, a, b), a, b)
<1>1. Parting(h, r, p, i, a, b, t, lo, hi)
  BY PartingIs
<1>2. g \in Heaps /\ a # b /\ p # a /\ p # b /\ h \in Heaps
  BY <1>1 DEF Parting, Tree, Shape, Siblings
<1>3. a \in Leaves(h) /\ b \in Leaves(h) /\ h[a].next = b /\ h[b].previous = a
  BY SiblingLeaves
<1>4. \A m \in NodeIds \ {p} : g[m] = h[m]
  <2>1. h = [m \in NodeIds |-> h[m]]
    BY <1>2 DEF Heaps
  <2>2. ASSUME NEW x PROVE \A m \in NodeIds \ {p} : [h EXCEPT ![p] = x][m] = h[m]
    BY <2>1
  <2> QED BY <2>2 DEF Unlinked
<1>5. Leaves(g) = Leaves(h)
  <2>1. Linked(g, h, p, i, a, b, h[p].keys[i])
    BY <1>2, UnlinkedIs
  <2> QED BY <2>1, LinkedAlive
<1>6. Len(h[a].values) = Len(h[a].keys) /\ Len(h[b].values) = Len(h[b].keys)
  BY <1>3 DEF Tree, Shape
<1>7. g[a] = h[a] /\ g[b] = h[b]
  BY <1>2, <1>3, <1>4 DEF Leaves, Alive
<1>8. g[b].next # NULL => g[b].next \in Leaves(g) \ {a, b} /\ g[g[b].next].previous = b
  <2> SUFFICES ASSUME g[b].next # NULL
               PROVE  g[b].next \in Leaves(g) \ {a, b} /\ g[g[b].next].previous = b
    OBVIOUS
  <2>1. h[b].next \in Leaves(h) \ {a, b, p} /\ h[h[b].next].previous = b
    BY <1>7, SiblingsDiffer
  <2>2. g[h[b].next] = h[h[b].next]
    BY <1>4, <2>1 DEF Leaves, Alive
  <2> QED BY <1>5, <1>7, <2>1, <2>2
<1> QED BY <1>2, <1>3, <1>5, <1>6, <1>7, <1>8, JoinLeavesIs

(***************************************************************************)
(* An element that crosses between two leaves.                             *)
(***************************************************************************)

LEMMA LeavesToMove ==
  ASSUME NEW h, NEW r, NEW any, NEW t, NEW lo, NEW hi, Tree(h, r, NULL, any, t, lo, hi),
         NEW p, NEW i, NEW a, NEW b, Siblings(h, p, i, a, b), h[a].outer,
         MayRedistribute(h, a, b), ~IsFull(h[a]), ~IsFull(h[b]),
         \A m \in {a, b} : Len(h[m].keys) + 1 >= OuterFanout \div 2
  PROVE  MovedElement(h, a, b, OuterRedistribute(h, a, b))
<1>1. a \in Leaves(h) /\ b \in Leaves(h) /\ h \in Heaps /\ h[b].outer
  BY SiblingLeaves DEF Tree, Shape
<1>2. /\ a # b /\ p \in Inners(h) /\ i \in 1..Len(h[p].keys)
      /\ h[a].parent = p /\ p # a /\ p # b /\ KidIndex(h, p, a) = i
  BY DEF Siblings
<1>3. p \in Alive(h) /\ a \in Alive(h) /\ b \in Alive(h)
  BY <1>1, <1>2 DEF Inners, Leaves
<1>4. /\ p \in NodeIds \ {a, b} /\ a \in NodeIds /\ b \in NodeIds
      /\ h[p] \in Node /\ h[a] \in Node /\ h[b] \in Node
      /\ h[p].keys \in Seq(Keys)
  BY <1>1, <1>2, <1>3, AliveIsNode
<1>5. Len(h[a].values) = Len(h[a].keys) /\ Len(h[b].values) = Len(h[b].keys)
  BY <1>1 DEF Tree, Shape
<1>6. KidIndex(h, h[a].parent, a) \in DOMAIN h[h[a].parent].keys
  BY <1>2, <1>4
<1>7. h[a].parent \in NodeIds \ {a, b} /\ h[h[a].parent] \in Node
  BY <1>2, <1>4
<1> QED BY <1>1, <1>2, <1>4, <1>5, <1>6, <1>7, MoveKeepsTheLeaves

(* The heap s is that of h with one element across, g that where b stands  *)
(* beside the tree meanwhile.                                              *)
Crossed(h, s, g, p, i, a, b) ==
  /\ s \in Heaps /\ g \in Heaps /\ Alive(s) = Alive(h)
  /\ \A m \in NodeIds \ {p} : g[m] = s[m]
  /\ g[p] = Unlinked(h, p, i)[p]
  /\ \A m \in Alive(h) : s[m].outer = h[m].outer
  /\ s[b].parent = p /\ s[p] \in Node /\ s[p].parent = h[p].parent /\ s[p].kids = h[p].kids
  /\ Len(s[p].keys) = Len(h[p].keys)
  /\ \A j \in 1..Len(h[p].keys) : j # i => s[p].keys[j] = h[p].keys[j]

LEMMA CrossedLinks ==
  ASSUME NEW h \in Heaps, NEW p, NEW i, NEW a, NEW b, Siblings(h, p, i, a, b),
         NEW s, NEW g, Crossed(h, s, g, p, i, a, b), NEW key \in Keys, s[p].keys[i] = key
  PROVE  Linked(g, s, p, i, a, b, key)
<1> DEFINE f == Unlinked(h, p, i)
<1>1. Linked(f, h, p, i, a, b, h[p].keys[i])
  BY UnlinkedIs
<1>2. /\ f \in Heaps /\ p \in Inners(f) /\ p # a /\ p # b /\ a # b /\ a \in Alive(f) /\ b \in Alive(f)
      /\ i \in 1..Len(f[p].kids) /\ f[p].kids[i] = a /\ ~h[p].outer /\ h[p].parent = f[p].parent
      /\ InsertOf(f[p].keys, i, h[p].keys[i], h[p].keys) /\ InsertOf(f[p].kids, i + 1, b, h[p].kids)
  BY <1>1 DEF Linked
<1> HIDE DEF f
<1>3. /\ s \in Heaps /\ g \in Heaps /\ Alive(s) = Alive(h)
      /\ \A m \in NodeIds \ {p} : g[m] = s[m]
      /\ g[p] = f[p]
      /\ \A m \in Alive(h) : s[m].outer = h[m].outer
      /\ s[b].parent = p /\ s[p] \in Node /\ s[p].parent = h[p].parent /\ s[p].kids = h[p].kids
      /\ Len(s[p].keys) = Len(h[p].keys)
      /\ \A j \in 1..Len(h[p].keys) : j # i => s[p].keys[j] = h[p].keys[j]
  BY DEF Crossed, f
<1>4. a \in Alive(h) /\ b \in Alive(h) /\ p \in Alive(h) /\ i \in 1..Len(h[p].keys)
  BY DEF Siblings, Inners
<1>5. a \in NodeIds /\ b \in NodeIds /\ p \in NodeIds /\ Len(h[p].keys) \in Nat
  BY <1>4, AliveIsNode
<1>6. g[a] = s[a] /\ g[b] = s[b]
  BY <1>2, <1>3, <1>5
<1>7. a \in Alive(g) /\ b \in Alive(g)
  BY <1>3, <1>4, <1>5, <1>6 DEF Alive
<1>8. p \in Inners(g)
  BY <1>2, <1>3, <1>5 DEF Inners, Alive
<1>9. s[b] \in Node
  BY <1>3, <1>4, AliveIsNode
<1>10. InsertOf(g[p].keys, i, key, s[p].keys)
  <2> DEFINE u == f[p].keys
             x == h[p].keys
             y == s[p].keys
  <2>1. Len(x) = Len(u) + 1 /\ (\A j \in 1..(i - 1) : x[j] = u[j]) /\ (\A j \in i..Len(u) : x[j + 1] = u[j])
    BY <1>2 DEF InsertOf
  <2>2. Len(y) = Len(x) /\ (\A j \in 1..Len(x) : j # i => y[j] = x[j]) /\ y[i] = key
    BY <1>3
  <2>3. Len(x) \in Nat /\ i \in Nat /\ 1 <= i /\ i <= Len(x)
    BY <1>4, <1>5
  <2>4. Len(u) \in Nat
    <3>1. u \in Seq(Keys)
      BY <1>2, AliveIsNode DEF Inners
    <3> QED BY <3>1
  <2> HIDE DEF u, x, y
  <2>5. ASSUME NEW j \in 1..(i - 1) PROVE y[j] = u[j]
    <3>1. j \in 1..Len(x) /\ j # i
      BY <2>3
    <3> QED BY <2>1, <2>2, <3>1
  <2>6. ASSUME NEW j \in i..Len(u) PROVE y[j + 1] = u[j]
    <3>1. j + 1 \in 1..Len(x) /\ j + 1 # i
      BY <2>1, <2>3, <2>4
    <3> QED BY <2>1, <2>2, <3>1
  <2>7. InsertOf(u, i, key, y)
    BY <2>1, <2>2, <2>5, <2>6 DEF InsertOf
  <2> QED BY <1>3, <2>7 DEF u, y
<1>11. InsertOf(g[p].kids, i + 1, b, s[p].kids) /\ i \in 1..Len(g[p].kids) /\ g[p].kids[i] = a
       /\ s[p].parent = g[p].parent
  BY <1>2, <1>3
<1>12. ~s[p].outer
  BY <1>2, <1>3, <1>4
<1>13. \A m \in NodeIds \ {p, b} : s[m] = g[m]
  BY <1>3
<1>14. Body(s[b], g[b]) /\ Links(s[b], g[b])
  BY <1>6 DEF Body, Links
<1> QED BY <1>2, <1>3, <1>7, <1>8, <1>9, <1>10, <1>11, <1>12, <1>13, <1>14 DEF Linked

(* The parent's separator changes and nothing else of it.                  *)
LEMMA NewSeparator ==
  ASSUME NEW x \in Node, NEW i \in 1..Len(x.keys), NEW e \in Keys, NEW y,
         y = [x EXCEPT !.keys[i] = e]
  PROVE  /\ y \in Node /\ y.outer = x.outer /\ y.parent = x.parent /\ y.kids = x.kids
         /\ Len(y.keys) = Len(x.keys) /\ y.keys[i] = e
         /\ \A j \in 1..Len(x.keys) : j # i => y.keys[j] = x.keys[j]
<1> DEFINE ks == [x.keys EXCEPT ![i] = e]
<1>1. x.keys \in Seq(Keys)
  BY DEF Node
<1>2. ks \in Seq(Keys) /\ Len(ks) = Len(x.keys) /\ ks[i] = e
      /\ \A j \in 1..Len(x.keys) : j # i => ks[j] = x.keys[j]
  BY <1>1
<1>3. y = [x EXCEPT !.keys = ks]
  OBVIOUS
<1> HIDE DEF ks
<1>4. y \in Node /\ y.outer = x.outer /\ y.parent = x.parent /\ y.kids = x.kids /\ y.keys = ks
  BY <1>2, <1>3 DEF Node
<1> QED BY <1>2, <1>4

LEMMA LeavesCross ==
  ASSUME NEW h, NEW r, NEW any, NEW t, NEW lo, NEW hi, Tree(h, r, NULL, any, t, lo, hi),
         NEW p, NEW i, NEW a, NEW b, Siblings(h, p, i, a, b), h[a].outer,
         NEW s, MovedElement(h, a, b, s), NEW g, g = [s EXCEPT ![p] = Unlinked(h, p, i)[p]]
  PROVE  /\ Crossed(h, s, g, p, i, a, b)
         /\ s[p].keys[i] = s[b].keys[1] /\ s[b].keys # <<>> /\ s[b].keys[1] \in Keys
<1>1. h \in Heaps /\ a # b /\ p \in Inners(h) /\ p # a /\ p # b /\ i \in 1..Len(h[p].keys)
      /\ h[a].parent = p /\ h[b].parent = p /\ KidIndex(h, p, a) = i
  BY DEF Tree, Shape, Siblings
<1>2. a \in Leaves(h) /\ b \in Leaves(h)
  BY SiblingLeaves
<1>3. a \in Alive(h) /\ b \in Alive(h) /\ p \in Alive(h) /\ h[a].outer /\ h[b].outer /\ ~h[p].outer
  BY <1>1, <1>2 DEF Leaves, Inners
<1>4. /\ a \in NodeIds /\ b \in NodeIds /\ p \in NodeIds /\ h[p] \in Node
      /\ h[a].outer \in BOOLEAN /\ h[b].outer \in BOOLEAN
  BY <1>1, <1>3, AliveIsNode
<1>5. /\ s \in Heaps /\ s[a] \in Node /\ s[b] \in Node /\ s[p] \in Node
      /\ s[a].outer /\ s[b].outer /\ s[b].parent = p /\ ~IsSparse(s[b])
      /\ Len(s[b].keys) = Len(s[b].values)
      /\ s[p] = [h[p] EXCEPT !.keys[i] = s[b].keys[1]]
      /\ \A m \in NodeIds \ {a, b, p} : s[m] = h[m]
  BY <1>1 DEF MovedElement
<1>6. s[b].keys # <<>> /\ s[b].keys[1] \in Keys
  <2>1. s[b].keys \in Seq(Keys)
    BY <1>5 DEF Node
  <2>2. Len(s[b].keys) >= OuterFanout \div 2
    BY <1>5, <2>1, MapAssumption DEF IsSparse, Fanout
  <2>3. Len(s[b].keys) > 0
    BY <2>1, <2>2, MapAssumption
  <2> QED BY <2>1, <2>3
<1>7. /\ s[p].outer = h[p].outer /\ s[p].parent = h[p].parent /\ s[p].kids = h[p].kids
      /\ Len(s[p].keys) = Len(h[p].keys) /\ s[p].keys[i] = s[b].keys[1]
      /\ \A j \in 1..Len(h[p].keys) : j # i => s[p].keys[j] = h[p].keys[j]
  BY <1>1, <1>4, <1>5, <1>6, NewSeparator
<1>8. s[a] # Freed /\ s[b] # Freed /\ s[p] # Freed
  BY <1>5, FreedAssumption
<1>9. Alive(s) = Alive(h)
  BY <1>3, <1>5, <1>8 DEF Alive
<1>10. \A m \in Alive(h) : s[m].outer = h[m].outer
  <2> SUFFICES ASSUME NEW m \in Alive(h) PROVE s[m].outer = h[m].outer
    OBVIOUS
  <2>1. CASE m = p
    BY <1>7, <2>1
  <2>2. CASE m \in {a, b}
    <3>1. s[m].outer \in BOOLEAN /\ h[m].outer \in BOOLEAN
      BY <1>4, <1>5, <2>2 DEF Node
    <3> QED BY <1>3, <1>5, <2>2, <3>1
  <2>3. CASE m \notin {a, b, p}
    BY <1>5, <2>3 DEF Alive
  <2> QED BY <2>1, <2>2, <2>3
<1>11. Unlinked(h, p, i) \in Heaps
  <2>1. Parting(h, r, p, i, a, b, t, lo, hi)
    BY PartingIs
  <2> QED BY <2>1 DEF Parting, Tree, Shape
<1> DEFINE f == Unlinked(h, p, i)
<1> HIDE DEF f
<1>12. f \in Heaps /\ g = [s EXCEPT ![p] = f[p]]
  BY <1>11 DEF f
<1>13. g \in Heaps /\ g[p] = f[p] /\ \A m \in NodeIds \ {p} : g[m] = s[m]
  BY <1>4, <1>5, <1>12 DEF Heaps
<1>14. Crossed(h, s, g, p, i, a, b)
  BY <1>5, <1>7, <1>9, <1>10, <1>13 DEF Crossed, f
<1> QED BY <1>6, <1>7, <1>14

LEMMA CrossedDivides ==
  ASSUME NEW h, NEW r, NEW any, NEW t, NEW lo, NEW hi, Tree(h, r, NULL, any, t, lo, hi),
         NEW p, NEW i, NEW a, NEW b, Siblings(h, p, i, a, b), h[a].outer,
         NEW s, MovedElement(h, a, b, s), NEW g, Crossed(h, s, g, p, i, a, b),
         NEW f, f = Unlinked(h, p, i), NEW j, JoinedLeaves(f, j, a, b)
  PROVE  DividedLeaf(j, g, a, b)
<1>1. h \in Heaps /\ a # b /\ p \in Inners(h) /\ p # a /\ p # b
      /\ h[a].parent = p /\ h[b].parent = p /\ KidIndex(h, p, a) = i
  BY DEF Tree, Shape, Siblings
<1>2. a \in Leaves(h) /\ b \in Leaves(h) /\ h[a].next = b /\ h[b].previous = a
  BY SiblingLeaves
<1>3. a \in NodeIds /\ b \in NodeIds /\ p \in NodeIds
  BY <1>1, <1>2 DEF Leaves, Inners, Alive
<1>4. \A m \in NodeIds \ {p} : f[m] = h[m]
  <2>1. h = [m \in NodeIds |-> h[m]]
    BY <1>1 DEF Heaps
  <2>2. ASSUME NEW x PROVE \A m \in NodeIds \ {p} : [h EXCEPT ![p] = x][m] = h[m]
    BY <2>1
  <2> QED BY <2>2 DEF Unlinked
<1>5. f[a] = h[a] /\ f[b] = h[b]
  BY <1>1, <1>3, <1>4
<1>6. /\ j \in Heaps /\ j[a] \in Node /\ j[a].outer /\ j[b] = Freed
      /\ j[a].keys = h[a].keys \o h[b].keys /\ j[a].values = h[a].values \o h[b].values
      /\ j[a].parent = p /\ j[a].previous = h[a].previous /\ j[a].next = h[b].next
      /\ \A x \in NodeIds : x = h[b].next =>
           /\ x \in Leaves(f) \ {a, b} /\ f[x].previous = b /\ j[x] = [f[x] EXCEPT !.previous = a]
      /\ \A m \in NodeIds \ {a, b, h[b].next} : j[m] = f[m]
  BY <1>1, <1>5 DEF JoinedLeaves
<1>7. /\ s \in Heaps /\ s[a] \in Node /\ s[b] \in Node
      /\ s[a].keys \o s[b].keys = h[a].keys \o h[b].keys
      /\ s[a].values \o s[b].values = h[a].values \o h[b].values
      /\ \A m \in {a, b} :
           /\ Len(s[m].keys) = Len(s[m].values)
           /\ ~IsFull(s[m]) /\ ~IsSparse(s[m])
           /\ s[m].outer /\ s[m].parent = h[m].parent
           /\ s[m].next = h[m].next /\ s[m].previous = h[m].previous
      /\ \A m \in NodeIds \ {a, b, p} : s[m] = h[m]
  BY <1>1 DEF MovedElement
<1>8. /\ g \in Heaps /\ \A m \in NodeIds \ {p} : g[m] = s[m]
      /\ g[p] = f[p]
  BY DEF Crossed
<1>9. g[a] = s[a] /\ g[b] = s[b]
  BY <1>1, <1>3, <1>8
<1>10. \A m \in {a, b} : s[m].keys # <<>> /\ s[m].keys \in Seq(Keys) /\ s[m].values \in Seq(Values)
  <2> SUFFICES ASSUME NEW m \in {a, b}
               PROVE  s[m].keys # <<>> /\ s[m].keys \in Seq(Keys) /\ s[m].values \in Seq(Values)
    OBVIOUS
  <2>1. s[m].keys \in Seq(Keys) /\ s[m].values \in Seq(Values) /\ s[m].outer /\ ~IsSparse(s[m])
    BY <1>7 DEF Node
  <2>2. Len(s[m].keys) >= OuterFanout \div 2
    BY <2>1, MapAssumption DEF IsSparse, Fanout
  <2>3. Len(s[m].keys) > 0
    BY <2>1, <2>2, MapAssumption
  <2> QED BY <2>1, <2>3
<1>11. ConcatOf(s[a].keys, s[b].keys, j[a].keys) /\ ConcatOf(s[a].values, s[b].values, j[a].values)
  <2>1. ConcatOf(s[a].keys, s[b].keys, s[a].keys \o s[b].keys)
    BY <1>10, Joined
  <2>2. ConcatOf(s[a].values, s[b].values, s[a].values \o s[b].values)
    BY <1>10, Joined
  <2> QED BY <1>6, <1>7, <2>1, <2>2
<1>12. Len(j[a].values) = Len(j[a].keys)
  BY <1>7, <1>11 DEF ConcatOf
<1>13. a \in Leaves(j)
  <2>1. j[a] # Freed
    BY <1>6, FreedAssumption
  <2> QED BY <1>3, <1>6, <2>1 DEF Leaves, Alive
<1>14. s[a].parent = p /\ s[b].parent = p /\ s[a].previous = h[a].previous /\ s[a].next = b
       /\ s[b].next = h[b].next /\ s[b].previous = a
  BY <1>1, <1>2, <1>7
<1>15. ASSUME NEW x \in NodeIds, x = j[a].next
       PROVE  /\ x \in Leaves(j) /\ x # a /\ j[x].previous = a
              /\ g[x] \in Node /\ Body(g[x], j[x]) /\ g[x].parent = j[x].parent
              /\ g[x].next = j[x].next /\ g[x].previous = b
  <2>1. x = h[b].next /\ x # NULL
    BY <1>6, <1>15, MapAssumption
  <2>2. x \in Leaves(h) \ {a, b, p} /\ h[x].previous = b
    BY <2>1, SiblingsDiffer
  <2>3. h[x] \in Node /\ h[x].outer
    BY <1>1, <2>2, AliveIsNode DEF Leaves
  <2>4. f[x] = h[x] /\ g[x] = h[x]
    BY <1>4, <1>7, <1>8, <2>2, <1>15
  <2>5. j[x] = [h[x] EXCEPT !.previous = a]
    BY <1>6, <1>15, <2>1, <2>4
  <2>6. ASSUME NEW u \in Node
        PROVE  LET y == [u EXCEPT !.previous = a]
               IN  /\ y \in Node /\ Body(u, y) /\ u.parent = y.parent /\ u.next = y.next
                   /\ y.previous = a /\ y.outer = u.outer
    BY <1>3 DEF Node, Body
  <2>7. /\ j[x] \in Node /\ Body(h[x], j[x]) /\ h[x].parent = j[x].parent /\ h[x].next = j[x].next
        /\ j[x].previous = a /\ j[x].outer = h[x].outer
    BY <2>3, <2>5, <2>6
  <2>8. x \in Leaves(j)
    <3>1. j[x] # Freed
      BY <2>7, FreedAssumption
    <3> QED BY <2>3, <2>7, <3>1 DEF Leaves, Alive
  <2> QED BY <2>2, <2>3, <2>4, <2>7, <2>8
<1>16. \A x \in NodeIds : x = j[a].next =>
         /\ x \in Leaves(j) /\ x # a /\ j[x].previous = a
         /\ g[x] \in Node /\ Body(g[x], j[x]) /\ g[x].parent = j[x].parent
         /\ g[x].next = j[x].next /\ g[x].previous = b
  BY <1>15
<1>17. ASSUME NEW m \in NodeIds \ {a, b, j[a].next} PROVE g[m] = j[m]
  <2>1. CASE m = p
    BY <1>6, <1>8, <1>17, <2>1
  <2>2. CASE m # p
    <3>1. f[m] = h[m] /\ g[m] = s[m]
      BY <1>4, <1>8, <2>2
    <3>2. s[m] = h[m]
      BY <1>7, <1>17, <2>2
    <3>3. j[a].next = h[b].next
      BY <1>6
    <3>4. j[m] = f[m]
      BY <1>6, <1>17, <3>3
    <3> QED BY <3>1, <3>2, <3>4, Zenon
  <2> QED BY <2>1, <2>2
<1>18. Len(s[a].values) = Len(s[a].keys) /\ Len(s[b].values) = Len(s[b].keys)
       /\ s[a].keys # <<>> /\ s[b].keys # <<>> /\ s[a].outer /\ s[b].outer
  BY <1>7, <1>10
<1> QED BY <1>3, <1>6, <1>7, <1>8, <1>9, <1>11, <1>12, <1>13, <1>14, <1>16, <1>17, <1>18
        DEF DividedLeaf

(* Redistribute between two leaves: they part, are joined, are divided     *)
(* elsewhere, and are linked by the new separator.                         *)
LEMMA LeafMoveKeepsTree ==
  ASSUME NEW h, NEW r, NEW any, NEW t, NEW lo, NEW hi, Tree(h, r, NULL, any, t, lo, hi),
         NEW p, NEW i, NEW a, NEW b, Siblings(h, p, i, a, b), h[a].outer,
         h[a].keys # <<>>, h[b].keys # <<>>, NEW s, MovedElement(h, a, b, s)
  PROVE  /\ \E tt, low, high : Tree(s, r, NULL, NULL, tt, low, high)
         /\ Content(s) = Content(h)
<1> DEFINE f == Unlinked(h, p, i)
           g == [s EXCEPT ![p] = Unlinked(h, p, i)[p]]
           j == JoinLeaves(f, a, b)
           v == s[b].keys[1]
<1>1. JoinedLeaves(f, j, a, b)
  BY PartedLeaves
<1>2. Parting(h, r, p, i, a, b, t, lo, hi)
  BY PartingIs
<1>3. Tree(f, r, b, a, t, lo, hi) /\ a # r /\ b # r /\ hi[a] # 0 /\ Content(f) = Content(h)
      /\ t[a] = t[b] /\ b # NULL
  BY <1>2 DEF Parting
<1>4. Crossed(h, s, g, p, i, a, b) /\ s[p].keys[i] = v /\ v \in Keys
  BY LeavesCross
<1>5. h \in Heaps
  BY DEF Tree, Shape
<1> DEFINE t2 == [t EXCEPT ![b] = 0]
           hi1 == [hi EXCEPT ![a] = hi[b]]
           lo2 == [lo EXCEPT ![b] = v]
           hi2 == [hi1 EXCEPT ![a] = v, ![b] = hi1[a]]
<1> HIDE DEF g, j, v
<1>6. DividedLeaf(j, g, a, b)
  BY <1>1, <1>4, CrossedDivides
<1>7. Linked(g, s, p, i, a, b, v)
  BY <1>4, <1>5, CrossedLinks
<1>8. DividedLeaf(j, f, a, b)
  BY <1>1, JoinedLeavesDivide
<1> HIDE DEF f
<1>9. Tree(j, r, NULL, a, t, lo, hi1) /\ Content(f) = Content(j)
  BY <1>3, <1>8, LeafJoinKeepsTree
<1>10. v = g[b].keys[1]
  <2>1. b \in NodeIds /\ b # p
    BY <1>6 DEF DividedLeaf, Siblings
  <2>2. g[b] = s[b]
    BY <1>4, <2>1 DEF Crossed
  <2> QED BY <2>2 DEF v
<1>11. t \in [NodeIds -> Nat] /\ hi \in [NodeIds -> Nat] /\ lo \in [NodeIds -> Nat]
       /\ a \in NodeIds /\ b \in NodeIds /\ a # b /\ \A m \in Leaves(h) : t[m] = 0
  BY <1>8 DEF Tree, Shape, Ordered, DividedLeaf, Siblings, Alive, Leaves, Placed
<1>12. t2[b] = t2[a]
  <2>1. a \in Leaves(h) /\ b \in Leaves(h)
    BY SiblingLeaves
  <2> QED BY <1>11, <2>1
<1>13. hi2[a] = v
  BY <1>11
<1> HIDE DEF hi1, t2, lo2, hi2
<1>14. Tree(g, r, b, a, t2, lo2, hi2) /\ Content(g) = Content(j)
  <2>1. Tree(g, r, b, a, [t EXCEPT ![b] = 0], [lo EXCEPT ![b] = v],
             [hi1 EXCEPT ![a] = v, ![b] = hi1[a]])
    BY <1>6, <1>9, <1>10, LeafSplitKeepsTree, Zenon
  <2>2. Content(g) = Content(j)
    BY <1>6, DividedLeafHolds
  <2> QED BY <2>1, <2>2 DEF t2, lo2, hi2
<1>15. Tree(s, r, NULL, NULL, t2, lo2, hi2) /\ Content(s) = Content(g)
  BY <1>3, <1>4, <1>7, <1>12, <1>13, <1>14, LinkKeepsTree
<1> QED BY <1>3, <1>9, <1>14, <1>15

(***************************************************************************)
(* An inner node takes in the one after it, and the key between the two.   *)
(***************************************************************************)
LEMMA MiddleIs ==
  ASSUME NEW S, NEW u \in Seq(S), NEW v \in Seq(S), NEW e \in S
  PROVE  (u \o <<e>>) \o v \in Seq(S) /\ MiddleOf(u, e, v, (u \o <<e>>) \o v)
<1> DEFINE w == u \o <<e>>
           x == w \o v
<1>1. <<e>> \in Seq(S) /\ Len(<<e>>) = 1 /\ <<e>>[1] = e /\ Len(u) \in Nat /\ Len(v) \in Nat
  OBVIOUS
<1>2. w \in Seq(S) /\ ConcatOf(u, <<e>>, w)
  BY <1>1, Joined
<1>3. Len(w) = Len(u) + 1 /\ w[Len(u) + 1] = e /\ \A j \in 1..Len(u) : w[j] = u[j]
  BY <1>1, <1>2 DEF ConcatOf
<1> HIDE DEF w
<1>4. x \in Seq(S) /\ ConcatOf(w, v, x)
  BY <1>2, Joined
<1>5. Len(x) = Len(u) + Len(v) + 1
  BY <1>1, <1>3, <1>4 DEF ConcatOf
<1>6. x[Len(u) + 1] = e
  <2>1. Len(u) + 1 \in 1..Len(w)
    BY <1>1, <1>3
  <2> QED BY <1>3, <1>4, <2>1 DEF ConcatOf
<1>7. ASSUME NEW j \in 1..Len(u) PROVE x[j] = u[j]
  <2>1. j \in 1..Len(w)
    BY <1>1, <1>3
  <2> QED BY <1>3, <1>4, <2>1 DEF ConcatOf
<1>8. ASSUME NEW j \in 1..Len(v) PROVE x[Len(u) + 1 + j] = v[j]
  BY <1>3, <1>4 DEF ConcatOf
<1> HIDE DEF x
<1>9. MiddleOf(u, e, v, x)
  BY <1>5, <1>6, <1>7, <1>8 DEF MiddleOf
<1> QED BY <1>4, <1>9 DEF x, w

LEMMA PartedIs ==
  ASSUME NEW u, NEW v, NEW x, NEW up \in Keys,
         u.keys \in Seq(Keys), u.kids \in Seq(NodeIds), Len(u.kids) = Len(u.keys) + 1,
         v.keys \in Seq(Keys), v.kids \in Seq(NodeIds), Len(v.kids) = Len(v.keys) + 1,
         x.keys = (u.keys \o <<up>>) \o v.keys, x.kids = u.kids \o v.kids
  PROVE  Parted(x, u, v, up)
<1>1. MiddleOf(u.keys, up, v.keys, x.keys)
  BY MiddleIs
<1>2. ConcatOf(u.kids, v.kids, x.kids)
  BY Joined
<1>3. Len(u.keys) \in Nat /\ Len(v.keys) \in Nat
  OBVIOUS
<1> QED BY <1>1, <1>2, <1>3 DEF Parted

GatheredInner(g, j, a, b, up) ==
  /\ j = [m \in NodeIds |-> j[m]] /\ j[a] \in Node /\ ~j[a].outer /\ j[b] = Freed
  /\ Parted(j[a], g[a], g[b], up) /\ j[a].parent = g[a].parent
  /\ \A m \in NodeIds : IsKid(g, m, b) => j[m] = [g[m] EXCEPT !.parent = a]
  /\ \A m \in NodeIds \ {a, b} : ~IsKid(g, m, b) => j[m] = g[m]

LEMMA GatheredDivides ==
  ASSUME NEW g, NEW r, NEW t, NEW lo, NEW hi, NEW a, NEW b, Tree(g, r, b, a, t, lo, hi),
         t[a] = t[b], a # b, a \in Inners(g), b \in Inners(g),
         NEW j, NEW up, GatheredInner(g, j, a, b, up)
  PROVE  DividedInner(j, g, a, b, up)
<1>1. g \in Heaps /\ t \in [NodeIds -> Nat]
  BY DEF Tree, Shape
<1>2. /\ a \in NodeIds /\ b \in NodeIds /\ g[a] \in Node /\ g[b] \in Node
      /\ ~g[a].outer /\ ~g[b].outer /\ a \in Alive(g) /\ b \in Alive(g)
  BY <1>1, AliveIsNode DEF Inners
<1>3. /\ j = [m \in NodeIds |-> j[m]] /\ j[a] \in Node /\ ~j[a].outer /\ j[b] = Freed
      /\ Parted(j[a], g[a], g[b], up) /\ j[a].parent = g[a].parent
      /\ \A m \in NodeIds : IsKid(g, m, b) => j[m] = [g[m] EXCEPT !.parent = a]
      /\ \A m \in NodeIds \ {a, b} : ~IsKid(g, m, b) => j[m] = g[m]
  BY DEF GatheredInner
<1>4. ASSUME NEW m \in NodeIds, IsKid(g, m, b)
      PROVE  m \in Alive(g) \ {a, b} /\ g[m].parent = b /\ g[m] \in Node
  <2>1. KnowsKids(g, r, b, t, b)
    BY KidsKnown
  <2>2. m \in Alive(g) \ {r, b} /\ g[m].parent = b /\ t[m] + 1 = t[b]
    BY <1>4, <2>1 DEF KnowsKids
  <2>3. m # a
    BY <1>1, <1>2, <2>2
  <2> QED BY <1>1, <2>2, <2>3, AliveIsNode
<1>5. ASSUME NEW m \in NodeIds, IsKid(g, m, b)
      PROVE  /\ m \in Alive(j) \ {a} /\ j[m].parent = a /\ j[m] \in Node
             /\ g[m] \in Node /\ Body(g[m], j[m]) /\ Links(g[m], j[m]) /\ g[m].parent = b
  <2>1. j[m] = [g[m] EXCEPT !.parent = a] /\ g[m] \in Node /\ m # a /\ g[m].parent = b
    BY <1>3, <1>4, <1>5
  <2>2. j[m] \in Node /\ Body(j[m], g[m]) /\ Links(j[m], g[m]) /\ j[m].parent = a
    BY <1>2, <2>1, Reparented
  <2>3. j[m] # Freed
    BY <2>2, FreedAssumption
  <2>4. Body(g[m], j[m]) /\ Links(g[m], j[m])
    BY <2>2 DEF Body, Links
  <2> QED BY <2>1, <2>2, <2>3, <2>4 DEF Alive
<1>6. j \in Heaps
  <2>1. ASSUME NEW m \in NodeIds PROVE j[m] \in Node \cup {Freed}
    <3>1. CASE m \in {a, b}
      BY <1>3, <3>1
    <3>2. CASE m \notin {a, b} /\ IsKid(g, m, b)
      BY <1>5, <3>2
    <3>3. CASE m \notin {a, b} /\ ~IsKid(g, m, b)
      BY <1>1, <1>3, <3>3 DEF Heaps
    <3> QED BY <3>1, <3>2, <3>3
  <2> QED BY <1>3, <2>1 DEF Heaps
<1>7. a \in Inners(j)
  <2>1. j[a] # Freed
    BY <1>3, FreedAssumption
  <2> QED BY <1>2, <1>3, <2>1 DEF Inners, Alive
<1>8. \A m \in NodeIds : IsKid(g, m, b) =>
        /\ m \in Alive(j) \ {a} /\ j[m].parent = a
        /\ g[m] \in Node /\ Body(g[m], j[m]) /\ Links(g[m], j[m]) /\ g[m].parent = b
  BY <1>5
<1>9. \A m \in NodeIds \ {a, b} : ~IsKid(g, m, b) => g[m] = j[m]
  BY <1>3
<1> QED BY <1>1, <1>2, <1>3, <1>6, <1>7, <1>8, <1>9 DEF DividedInner

(* The node that comes of it. *)
Gathered(x, y, up) == [x EXCEPT !.keys = (x.keys \o <<up>>) \o y.keys, !.kids = x.kids \o y.kids]

LEMMA GatheredIs ==
  ASSUME NEW x \in Node, NEW y \in Node, NEW up \in Keys, ~x.outer,
         Len(x.kids) = Len(x.keys) + 1, Len(y.kids) = Len(y.keys) + 1
  PROVE  /\ Gathered(x, y, up) \in Node /\ ~Gathered(x, y, up).outer
         /\ Gathered(x, y, up).parent = x.parent
         /\ Parted(Gathered(x, y, up), x, y, up)
         /\ Len(Gathered(x, y, up).keys) = Len(x.keys) + Len(y.keys) + 1
<1> DEFINE ks == (x.keys \o <<up>>) \o y.keys
           ms == x.kids \o y.kids
           w == Gathered(x, y, up)
<1>1. /\ x.keys \in Seq(Keys) /\ x.kids \in Seq(NodeIds)
      /\ y.keys \in Seq(Keys) /\ y.kids \in Seq(NodeIds)
  BY DEF Node
<1>2. ks \in Seq(Keys) /\ MiddleOf(x.keys, up, y.keys, ks)
  BY <1>1, MiddleIs
<1>3. ms \in Seq(NodeIds)
  BY <1>1, Joined
<1> HIDE DEF ks, ms
<1>4. w = [x EXCEPT !.keys = ks, !.kids = ms]
  BY DEF Gathered, ks, ms
<1> HIDE DEF w
<1>5. w \in Node /\ w.outer = x.outer /\ w.parent = x.parent /\ w.keys = ks /\ w.kids = ms
  BY <1>2, <1>3, <1>4 DEF Node
<1>6. Parted(w, x, y, up)
  <2>1. w.keys = (x.keys \o <<up>>) \o y.keys /\ w.kids = x.kids \o y.kids
    BY <1>5 DEF ks, ms
  <2> QED BY <1>1, <2>1, PartedIs
<1>7. Len(w.keys) = Len(x.keys) + Len(y.keys) + 1
  BY <1>2, <1>5 DEF MiddleOf
<1>8. w \in Node /\ ~w.outer /\ w.parent = x.parent
  BY <1>5
<1> QED BY <1>6, <1>7, <1>8 DEF w

(***************************************************************************)
(* Inner nodes that are merged.                                            *)
(***************************************************************************)

(* A node that loses its i-th key and the kid behind it.                   *)
Without(x, i) == [x EXCEPT !.keys = RemoveAt(x.keys, i), !.kids = RemoveAt(x.kids, i + 1)]

MergedInner(h, a, b, p, i, s) ==
  LET kids == Elements(h[b].kids)
  IN  /\ s = [m \in NodeIds |-> s[m]]
      /\ s[a] = Gathered(h[a], h[b], h[p].keys[i]) /\ s[b] = Freed
      /\ s[p] = Without(h[p], i)
      /\ \A m \in kids : s[m] = [h[m] EXCEPT !.parent = a]
      /\ \A m \in NodeIds \ {a, b, p} : m \notin kids => s[m] = h[m]

LEMMA LeastOfTwo ==
  ASSUME NEW i \in Nat
  PROVE  Min({i, i + 1}) = i
BY DEF Min

LEMMA InnerMergeIs ==
  ASSUME NEW h \in Heaps, NEW a \in NodeIds, NEW b \in NodeIds, a # b,
         h[a] \in Node, h[b] \in Node, ~h[a].outer,
         NEW p \in NodeIds \ {a, b}, h[a].parent = p, h[p] \in Node,
         NEW i \in 1..Len(h[p].keys), KidIndex(h, p, a) = i, KidIndex(h, p, b) = i + 1,
         Position(h[p].keys, h[p].keys[i]) = i,
         Elements(h[b].kids) \in SUBSET (NodeIds \ {a, b, p})
  PROVE  MergedInner(h, a, b, p, i, Merge(h, a, b))
<1> DEFINE q == h[p]
           up == h[p].keys[i]
           kids == Elements(h[b].kids)
           low == Gathered(h[a], h[b], up)
           f == [h EXCEPT ![a].keys = @ \o <<up>> \o h[b].keys, ![a].kids = @ \o h[b].kids]
           joined == InnerCoalesce(h, a, b)
           s == Merge(h, a, b)
<1>1. SeparatorIndex(h, a, b) = i
  <2>1. SeparatorIndex(h, a, b) = Min({i, i + 1})
    BY Zenon DEF SeparatorIndex
  <2>2. i \in Nat
    BY DEF Node
  <2> QED BY <2>1, <2>2, LeastOfTwo
<1>2. h = [m \in NodeIds |-> h[m]]
  BY DEF Heaps
<1>3. f = [h EXCEPT ![a] = low]
  BY <1>2 DEF Gathered, Node
<1> HIDE DEF low
<1>4. ToSet(h[b].kids) = kids
  <2>1. h[b].kids \in Seq(NodeIds)
    BY DEF Node
  <2> QED BY <2>1, ToSetIs
<1>5. joined = SetParent(f, kids, a)
  BY <1>1, <1>4, Zenon DEF InnerCoalesce
<1> HIDE DEF f
<1>6. joined = [m \in NodeIds |-> IF m \in kids THEN [f[m] EXCEPT !.parent = a] ELSE f[m]]
  BY <1>5, Zenon DEF SetParent
<1>7. f[a] = low /\ \A m \in NodeIds \ {a} : f[m] = h[m]
  BY <1>2, <1>3
<1> HIDE DEF joined, kids
<1>8. /\ joined = [m \in NodeIds |-> joined[m]]
      /\ joined[a] = low /\ joined[p] = q /\ joined[b] = h[b]
      /\ \A m \in kids : joined[m] = [h[m] EXCEPT !.parent = a]
      /\ \A m \in NodeIds \ {a} : m \notin kids => joined[m] = h[m]
  <2>1. kids \subseteq NodeIds \ {a, b, p}
    BY DEF kids
  <2> QED BY <1>6, <1>7, <2>1
<1>9. joined[a].parent = p
  <2>1. \A x \in Node : \A ks, ms : [x EXCEPT !.keys = ks, !.kids = ms].parent = x.parent
    BY DEF Node
  <2>2. low.parent = h[a].parent
    BY <2>1 DEF low, Gathered
  <2> QED BY <1>8, <2>2
<1>10. SeparatorIndex(joined, a, b) = i
  <2>1. KidIndex(joined, p, a) = i /\ KidIndex(joined, p, b) = i + 1
    BY <1>8, Zenon DEF KidIndex
  <2>2. SeparatorIndex(joined, a, b) = Min({i, i + 1})
    BY <1>9, <2>1, Zenon DEF SeparatorIndex
  <2>3. i \in Nat
    BY DEF Node
  <2> QED BY <2>2, <2>3, LeastOfTwo
<1> DEFINE rest == [q EXCEPT !.keys = RemoveAt(q.keys, i), !.kids = RemoveAt(q.kids, i + 1)]
<1>11. s = [InnerErase(joined, p, q.keys[i], b) EXCEPT ![b] = Freed]
  <2>1. s = LET key == joined[p].keys[SeparatorIndex(joined, a, b)]
            IN  [InnerErase(joined, p, key, b) EXCEPT ![b] = Freed]
    BY Zenon DEF Merge, joined
  <2> QED BY <1>8, <1>10, <2>1, Zenon
<1>12. InnerErase(joined, p, q.keys[i], b) = [joined EXCEPT ![p] = rest]
  <2>1. Position(q.kids, b) = i + 1 /\ Position(q.keys, q.keys[i]) = i
    BY Zenon DEF KidIndex
  <2> QED BY <1>8, <2>1 DEF InnerErase
<1> HIDE DEF s, rest
<1>13. /\ s = [m \in NodeIds |-> s[m]] /\ s[b] = Freed /\ s[p] = rest
       /\ \A m \in NodeIds \ {b, p} : s[m] = joined[m]
  BY <1>8, <1>11, <1>12
<1>14. s[a] = low
  BY <1>8, <1>13
<1>15. \A m \in kids : s[m] = [h[m] EXCEPT !.parent = a]
  <2>1. kids \subseteq NodeIds \ {a, b, p}
    BY DEF kids
  <2> QED BY <1>8, <1>13, <2>1
<1>16. \A m \in NodeIds \ {a, b, p} : m \notin kids => s[m] = h[m]
  BY <1>8, <1>13
<1>17. MergedInner(h, a, b, p, i, s)
  BY <1>13, <1>14, <1>15, <1>16 DEF MergedInner, rest, low, kids, Without
<1> QED BY <1>17 DEF s

(* What the tree says of two inner nodes side by side.                     *)
InnerPair(h, p, i, a, b) ==
  /\ h \in Heaps /\ a \in NodeIds /\ b \in NodeIds /\ a # b /\ p \in NodeIds \ {a, b}
  /\ a \in Inners(h) /\ b \in Inners(h) /\ p \in Inners(h)
  /\ h[a] \in Node /\ h[b] \in Node /\ h[p] \in Node /\ ~h[a].outer /\ ~h[b].outer /\ ~h[p].outer
  /\ h[a].parent = p /\ h[b].parent = p
  /\ i \in 1..Len(h[p].keys) /\ KidIndex(h, p, a) = i /\ KidIndex(h, p, b) = i + 1
  /\ Position(h[p].keys, h[p].keys[i]) = i /\ h[p].keys[i] \in Keys
  /\ Len(h[a].kids) = Len(h[a].keys) + 1 /\ Len(h[b].kids) = Len(h[b].keys) + 1
  /\ Distinct(h[a].kids) /\ Distinct(h[b].kids)
  /\ Elements(h[a].kids) \cap Elements(h[b].kids) = {}
  /\ \A m \in Elements(h[a].kids) : m \in Alive(h) \ {a, b, p} /\ m \in NodeIds /\ h[m] \in Node
                                      /\ h[m].parent = a
  /\ \A m \in Elements(h[b].kids) : m \in Alive(h) \ {a, b, p} /\ m \in NodeIds /\ h[m] \in Node
                                      /\ h[m].parent = b

LEMMA AscendingDistinct ==
  ASSUME NEW s, Ascending(s), Len(s) \in Nat, \A j \in 1..Len(s) : s[j] \in Nat
  PROVE  \A j, l \in 1..Len(s) : s[j] = s[l] => j = l
<1>1. \A j, l \in 1..Len(s) : j < l => s[j] < s[l]
  BY DEF Ascending
<1>2. ASSUME NEW j \in 1..Len(s), NEW l \in 1..Len(s), s[j] = s[l] PROVE j = l
  <2>1. ~(j < l) /\ ~(l < j)
    BY <1>1, <1>2
  <2> QED BY <2>1
<1> QED BY <1>2

LEMMA SiblingInners ==
  ASSUME NEW h, NEW r, NEW any, NEW t, NEW lo, NEW hi, Tree(h, r, NULL, any, t, lo, hi),
         NEW p, NEW i, NEW a, NEW b, Siblings(h, p, i, a, b), ~h[a].outer
  PROVE  InnerPair(h, p, i, a, b)
<1>1. /\ a \in Alive(h) /\ b \in Alive(h) /\ a # b /\ p \in Inners(h)
      /\ i \in 1..Len(h[p].keys) /\ h[p].kids[i] = a /\ h[p].kids[i + 1] = b
      /\ h[a].parent = p /\ h[b].parent = p /\ p # a /\ p # b
      /\ KidIndex(h, p, a) = i /\ KidIndex(h, p, b) = i + 1
  BY DEF Siblings
<1>2. h \in Heaps /\ t \in [NodeIds -> Nat] /\ \A n \in Alive(h) : h[n].outer <=> t[n] = 0
  BY DEF Tree, Shape, Placed
<1>3. t[a] + 1 = t[p] /\ t[b] + 1 = t[p] /\ t[a] = t[b]
  <2>1. t[a] + 1 = t[p] /\ t[b] + 1 = t[p]
    BY <1>1, KidsStand
  <2>2. Parting(h, r, p, i, a, b, t, lo, hi)
    BY PartingIs
  <2> QED BY <2>1, <2>2 DEF Parting
<1>4. p \in Alive(h) /\ ~h[p].outer /\ ~h[b].outer
  BY <1>1, <1>2, <1>3 DEF Inners
<1>5. a \in Inners(h) /\ b \in Inners(h)
  BY <1>1, <1>4 DEF Inners
<1>6. /\ a \in NodeIds /\ b \in NodeIds /\ p \in NodeIds
      /\ h[a] \in Node /\ h[b] \in Node /\ h[p] \in Node
      /\ h[p].keys \in Seq(Keys) /\ Len(h[p].keys) \in Nat
      /\ \A j \in 1..Len(h[p].keys) : h[p].keys[j] \in Keys /\ h[p].keys[j] \in Nat
  BY <1>1, <1>2, <1>4, AliveIsNode
<1>7. Position(h[p].keys, h[p].keys[i]) = i
  <2>1. Ascending(h[p].keys)
    BY <1>4 DEF Tree, Ordered, Ranged
  <2>2. \A j, l \in 1..Len(h[p].keys) : h[p].keys[j] = h[p].keys[l] => j = l
    BY <1>6, <2>1, AscendingDistinct
  <2> QED BY <1>1, <1>6, <2>2, PositionIs
<1>8. ASSUME NEW n \in {a, b}
      PROVE  /\ Len(h[n].kids) = Len(h[n].keys) + 1 /\ Distinct(h[n].kids)
             /\ \A m \in Elements(h[n].kids) : m \in Alive(h) \ {a, b, p} /\ h[m].parent = n
                                               /\ m \in NodeIds /\ h[m] \in Node
  <2>1. KnowsKids(h, r, NULL, t, n)
    BY <1>5, KidsKnown
  <2>2. Len(h[n].kids) = Len(h[n].keys) + 1 /\ Distinct(h[n].kids)
        /\ \A m : IsKid(h, m, n) => m \in Alive(h) /\ h[m].parent = n /\ t[m] + 1 = t[n]
    BY <2>1 DEF KnowsKids
  <2>3. ASSUME NEW m \in Elements(h[n].kids)
        PROVE  m \in Alive(h) \ {a, b, p} /\ h[m].parent = n /\ m \in NodeIds /\ h[m] \in Node
    <3>1. m \in Alive(h) /\ h[m].parent = n /\ t[m] + 1 = t[n]
      BY <2>2, <2>3, KidIsElement
    <3>2. m \in NodeIds /\ h[m] \in Node
      BY <1>2, <3>1, AliveIsNode
    <3>3. t[m] \in Nat /\ t[a] \in Nat /\ t[b] \in Nat /\ t[p] \in Nat /\ t[n] = t[a]
      BY <1>2, <1>3, <1>6, <3>2
    <3>4. m # a /\ m # b /\ m # p
      BY <1>3, <3>1, <3>3
    <3> QED BY <3>1, <3>2, <3>4
  <2> QED BY <2>2, <2>3
<1>9. Elements(h[a].kids) \cap Elements(h[b].kids) = {}
  BY <1>1, <1>8
<1>10. h[p].keys[i] \in Keys
  BY <1>1, <1>6
<1> QED BY <1>1, <1>2, <1>4, <1>5, <1>6, <1>7, <1>8, <1>9, <1>10 DEF InnerPair

LEMMA MergeGathers ==
  ASSUME NEW h, NEW p, NEW i, NEW a, NEW b, InnerPair(h, p, i, a, b),
         NEW s, MergedInner(h, a, b, p, i, s),
         NEW g, \A m \in NodeIds \ {p} : g[m] = h[m],
         g[p] = Without(h[p], i)
  PROVE  /\ GatheredInner(g, s, a, b, h[p].keys[i])
         /\ Len(s[a].keys) = Len(h[a].keys) + Len(h[b].keys) + 1
<1> DEFINE up == h[p].keys[i]
           low == Gathered(h[a], h[b], up)
<1>1. /\ h \in Heaps /\ a \in NodeIds /\ b \in NodeIds /\ a # b /\ p \in NodeIds \ {a, b}
      /\ h[a] \in Node /\ h[b] \in Node /\ ~h[a].outer /\ up \in Keys
      /\ Len(h[a].kids) = Len(h[a].keys) + 1 /\ Len(h[b].kids) = Len(h[b].keys) + 1
      /\ \A m \in Elements(h[b].kids) : m \in NodeIds \ {a, b, p}
  BY DEF InnerPair
<1>2. /\ low \in Node /\ ~low.outer /\ low.parent = h[a].parent /\ Parted(low, h[a], h[b], up)
      /\ Len(low.keys) = Len(h[a].keys) + Len(h[b].keys) + 1
  BY <1>1, GatheredIs
<1> HIDE DEF low
<1>3. g[a] = h[a] /\ g[b] = h[b]
  BY <1>1
<1>4. /\ s = [m \in NodeIds |-> s[m]] /\ s[a] = low /\ s[b] = Freed /\ s[p] = g[p]
      /\ \A m \in Elements(h[b].kids) : s[m] = [h[m] EXCEPT !.parent = a]
      /\ \A m \in NodeIds \ {a, b, p} : m \notin Elements(h[b].kids) => s[m] = h[m]
  BY DEF MergedInner, low
<1>5. \A m : IsKid(g, m, b) <=> m \in Elements(h[b].kids)
  BY <1>3, KidIsElement
<1>6. \A m \in NodeIds : IsKid(g, m, b) => s[m] = [g[m] EXCEPT !.parent = a]
  BY <1>1, <1>4, <1>5
<1>7. \A m \in NodeIds \ {a, b} : ~IsKid(g, m, b) => s[m] = g[m]
  BY <1>1, <1>4, <1>5
<1>8. GatheredInner(g, s, a, b, up)
  BY <1>2, <1>3, <1>4, <1>6, <1>7 DEF GatheredInner
<1> QED BY <1>2, <1>4, <1>8

RejoinedInners(h, j, r, p, i, a, b, c, t, lo, hi) ==
  /\ DividedInner(j, Unlinked(h, p, i), a, b, h[p].keys[i])
  /\ Tree(j, r, NULL, c, t, lo, [hi EXCEPT ![a] = hi[b]]) /\ Content(j) = Content(h)

LEMMA PartedInners ==
  ASSUME NEW h, NEW r, NEW any, NEW t, NEW lo, NEW hi, Tree(h, r, NULL, any, t, lo, hi),
         NEW p, NEW i, NEW a, NEW b, Siblings(h, p, i, a, b), ~h[a].outer,
         NEW j, GatheredInner(Unlinked(h, p, i), j, a, b, h[p].keys[i]), NEW c
  PROVE  RejoinedInners(h, j, r, p, i, a, b, c, t, lo, hi)
<1> DEFINE g == Unlinked(h, p, i)
           up == h[p].keys[i]
<1>1. Parting(h, r, p, i, a, b, t, lo, hi)
  BY PartingIs
<1>2. Tree(g, r, b, a, t, lo, hi) /\ Content(g) = Content(h) /\ hi[a] = up /\ up \in Nat /\ up # 0
      /\ t[a] = t[b]
  BY <1>1 DEF Parting
<1>3. InnerPair(h, p, i, a, b)
  BY SiblingInners
<1>4. h \in Heaps /\ a \in Inners(h) /\ b \in Inners(h) /\ a # b
  BY <1>3 DEF InnerPair
<1>5. Inners(g) = Inners(h)
  <2>1. Linked(g, h, p, i, a, b, up)
    BY <1>4, UnlinkedIs
  <2> QED BY <2>1, LinkedAlive
<1> HIDE DEF g, up
<1>6. a \in Inners(g) /\ b \in Inners(g) /\ GatheredInner(g, j, a, b, up)
  BY <1>4, <1>5 DEF g, up
<1>7. DividedInner(j, g, a, b, up)
  BY <1>2, <1>4, <1>6, GatheredDivides
<1>8. Tree(j, r, NULL, c, t, lo, [hi EXCEPT ![a] = hi[b]]) /\ Content(g) = Content(j)
  BY <1>2, <1>7, InnerJoinKeepsTree
<1> QED BY <1>2, <1>7, <1>8 DEF g, up, RejoinedInners

LEMMA UnlinkedAt ==
  ASSUME NEW h \in Heaps, NEW p \in NodeIds, NEW i
  PROVE  /\ \A m \in NodeIds \ {p} : Unlinked(h, p, i)[m] = h[m]
         /\ Unlinked(h, p, i)[p] = Without(h[p], i)
<1>1. h = [m \in NodeIds |-> h[m]]
  BY DEF Heaps
<1>2. ASSUME NEW x PROVE /\ \A m \in NodeIds \ {p} : [h EXCEPT ![p] = x][m] = h[m]
                         /\ [h EXCEPT ![p] = x][p] = x
  BY <1>1
<1> QED BY <1>2 DEF Unlinked, Without

LEMMA WithoutKid ==
  ASSUME NEW x \in Node, NEW i \in 1..Len(x.keys), NEW y, y = Without(x, i)
  PROVE  y.outer = x.outer /\ y.parent = x.parent /\ Len(y.keys) = Len(x.keys) - 1
<1> DEFINE ks == RemoveAt(x.keys, i)
           ms == RemoveAt(x.kids, i + 1)
<1>1. Len(ks) = Len(x.keys) - 1
  <2>1. x.keys \in Seq(Keys)
    BY DEF Node
  <2> QED BY <2>1, RemovedFrom DEF RemoveOf
<1> HIDE DEF ks, ms
<1>2. y = [x EXCEPT !.keys = ks, !.kids = ms]
  BY DEF ks, ms, Without
<1>3. y.outer = x.outer /\ y.parent = x.parent /\ y.keys = ks
  BY <1>2 DEF Node
<1> QED BY <1>1, <1>3

LEMMA MergedInnerShrinks ==
  ASSUME NEW h, NEW p, NEW i, NEW a, NEW b, InnerPair(h, p, i, a, b),
         NEW s \in Heaps, MergedInner(h, a, b, p, i, s), Alive(s) = Alive(h) \ {b}
  PROVE  Shrunk(h, s, a, b, p, 1)
<1> DEFINE up == h[p].keys[i]
           low == Gathered(h[a], h[b], up)
<1>1. /\ h \in Heaps /\ a \in NodeIds /\ b \in NodeIds /\ a # b /\ p \in NodeIds \ {a, b}
      /\ h[a] \in Node /\ h[b] \in Node /\ ~h[a].outer /\ up \in Keys
      /\ h[p] \in Node /\ ~h[p].outer /\ i \in 1..Len(h[p].keys)
      /\ Len(h[a].kids) = Len(h[a].keys) + 1 /\ Len(h[b].kids) = Len(h[b].keys) + 1
      /\ \A m \in Elements(h[b].kids) : m \in NodeIds \ {a, b, p} /\ h[m] \in Node
  BY DEF InnerPair
<1>2. low \in Node /\ ~low.outer /\ Len(low.keys) = Len(h[a].keys) + Len(h[b].keys) + 1
  BY <1>1, GatheredIs
<1> HIDE DEF low
<1>3. /\ s[a] = low /\ s[b] = Freed
      /\ s[p] = Without(h[p], i)
      /\ \A m \in Elements(h[b].kids) : s[m] = [h[m] EXCEPT !.parent = a]
      /\ \A m \in NodeIds \ {a, b, p} : m \notin Elements(h[b].kids) => s[m] = h[m]
  BY DEF MergedInner, low
<1>4. s[p].outer = h[p].outer /\ Len(s[p].keys) = Len(h[p].keys) - 1
  BY <1>1, <1>3, WithoutKid
<1>5. ASSUME NEW m \in Alive(s) \ {a, p} PROVE s[m].outer = h[m].outer /\ s[m].keys = h[m].keys
  <2>1. m \in NodeIds \ {a, b, p}
    BY <1>5 DEF Alive
  <2>2. CASE m \in Elements(h[b].kids)
    <3>1. s[m] = [h[m] EXCEPT !.parent = a] /\ h[m] \in Node
      BY <1>1, <1>3, <2>2
    <3> QED BY <1>1, <3>1, Reparented DEF Body
  <2>3. CASE m \notin Elements(h[b].kids)
    BY <1>3, <2>1, <2>3
  <2> QED BY <2>2, <2>3
<1>6. s[a].outer = h[a].outer
  <2>1. low.outer \in BOOLEAN /\ h[a].outer \in BOOLEAN
    BY <1>1, <1>2 DEF Node
  <2> QED BY <1>1, <1>2, <1>3, <2>1
<1>7. ~s[p].outer /\ Len(s[a].keys) = Len(h[a].keys) + Len(h[b].keys) + 1
  BY <1>1, <1>2, <1>3, <1>4
<1> QED BY <1>4, <1>5, <1>6, <1>7 DEF Shrunk

(* Merge of two inner nodes.                                               *)
LEMMA InnerMergeKeepsTree ==
  ASSUME NEW h, NEW r, NEW any, NEW t, NEW lo, NEW hi, Tree(h, r, NULL, any, t, lo, hi),
         NEW p, NEW i, NEW a, NEW b, Siblings(h, p, i, a, b), ~h[a].outer
  PROVE  Remains(h, Merge(h, a, b), r, a, b, p, 1)
<1> DEFINE s == Merge(h, a, b)
           g == Unlinked(h, p, i)
           up == h[p].keys[i]
<1>1. InnerPair(h, p, i, a, b)
  BY SiblingInners
<1>2. MergedInner(h, a, b, p, i, s)
  <2>1. /\ h \in Heaps /\ a \in NodeIds /\ b \in NodeIds /\ a # b /\ p \in NodeIds \ {a, b}
        /\ h[a] \in Node /\ h[b] \in Node /\ h[p] \in Node /\ ~h[a].outer
        /\ h[a].parent = p
        /\ i \in 1..Len(h[p].keys) /\ KidIndex(h, p, a) = i /\ KidIndex(h, p, b) = i + 1
        /\ Position(h[p].keys, h[p].keys[i]) = i
        /\ \A m \in Elements(h[b].kids) : m \in NodeIds \ {a, b, p}
    BY <1>1 DEF InnerPair
  <2>2. Elements(h[b].kids) \in SUBSET (NodeIds \ {a, b, p})
    BY <2>1
  <2> QED BY <2>1, <2>2, InnerMergeIs
<1> HIDE DEF s
<1>3. /\ \A m \in NodeIds \ {p} : g[m] = h[m]
      /\ g[p] = Without(h[p], i)
      /\ h \in Heaps
  <2>1. h \in Heaps /\ p \in NodeIds
    BY <1>1 DEF InnerPair
  <2> QED BY <2>1, UnlinkedAt
<1>4. GatheredInner(g, s, a, b, up)
  <2> HIDE DEF g
  <2> QED BY <1>1, <1>2, <1>3, MergeGathers
<1>5. /\ DividedInner(s, g, a, b, up)
      /\ Tree(s, r, NULL, NULL, t, lo, [hi EXCEPT ![a] = hi[b]]) /\ Content(s) = Content(h)
  <2>1. RejoinedInners(h, s, r, p, i, a, b, NULL, t, lo, hi)
    BY <1>4, PartedInners
  <2> QED BY <2>1 DEF RejoinedInners
<1>6. Alive(s) = Alive(h) \ {b}
  <2>1. Linked(g, h, p, i, a, b, up)
    BY <1>3, UnlinkedIs
  <2> HIDE DEF g, up
  <2>2. Alive(g) = Alive(h)
    BY <2>1, LinkedAlive
  <2>3. Alive(g) = Alive(s) \cup {b} /\ b \notin Alive(s)
    BY <1>5, DividedInnerAlive
  <2> QED BY <2>2, <2>3
<1>7. Shrunk(h, s, a, b, p, 1)
  <2>1. s \in Heaps
    BY <1>5 DEF Tree, Shape
  <2> QED BY <1>1, <1>2, <1>6, <2>1, MergedInnerShrinks
<1> QED BY <1>5, <1>7 DEF s, Remains

(***************************************************************************)
(* An element crosses from one sequence to the next.                       *)
(***************************************************************************)
LEMMA MiddleRight ==
  ASSUME NEW u, NEW v, NEW w, NEW uu, NEW vv, NEW e, Len(u) \in Nat, Len(v) \in Nat, Len(v) >= 1,
         MiddleOf(u, e, v, w), SnocOf(u, e, uu), TailOf(v, vv)
  PROVE  MiddleOf(uu, v[1], vv, w)
<1>1. Len(w) = Len(uu) + Len(vv) + 1 /\ Len(uu) = Len(u) + 1 /\ Len(vv) = Len(v) - 1
  BY DEF MiddleOf, SnocOf, TailOf
<1>2. w[Len(uu) + 1] = v[1]
  <2>1. 1 \in 1..Len(v) /\ Len(u) + 1 + 1 = Len(uu) + 1
    BY <1>1
  <2>2. w[Len(u) + 1 + 1] = v[1]
    BY <2>1 DEF MiddleOf
  <2> QED BY <2>1, <2>2
<1>3. ASSUME NEW j \in 1..Len(uu) PROVE w[j] = uu[j]
  <2>1. CASE j = Len(u) + 1
    BY <2>1 DEF MiddleOf, SnocOf
  <2>2. CASE j # Len(u) + 1
    <3>1. j \in 1..Len(u)
      BY <1>1, <2>2
    <3> QED BY <3>1 DEF MiddleOf, SnocOf
  <2> QED BY <2>1, <2>2
<1>4. ASSUME NEW j \in 1..Len(vv) PROVE w[Len(uu) + 1 + j] = vv[j]
  <2>1. j \in 1..(Len(v) - 1) /\ j + 1 \in 1..Len(v) /\ Len(uu) + 1 + j = Len(u) + 1 + (j + 1)
    BY <1>1
  <2>2. w[Len(u) + 1 + (j + 1)] = v[j + 1]
    BY <2>1 DEF MiddleOf
  <2>3. vv[j] = v[j + 1]
    BY <2>1 DEF TailOf
  <2> QED BY <2>1, <2>2, <2>3
<1> QED BY <1>1, <1>2, <1>3, <1>4 DEF MiddleOf

LEMMA ConcatRight ==
  ASSUME NEW u, NEW v, NEW w, NEW uu, NEW vv, Len(u) \in Nat, Len(v) \in Nat, Len(v) >= 1,
         ConcatOf(u, v, w), SnocOf(u, v[1], uu), TailOf(v, vv)
  PROVE  ConcatOf(uu, vv, w)
<1>1. Len(w) = Len(uu) + Len(vv) /\ Len(uu) = Len(u) + 1 /\ Len(vv) = Len(v) - 1
  BY DEF ConcatOf, SnocOf, TailOf
<1>2. ASSUME NEW j \in 1..Len(uu) PROVE w[j] = uu[j]
  <2>1. CASE j = Len(u) + 1
    <3>1. 1 \in 1..Len(v)
      OBVIOUS
    <3> QED BY <2>1, <3>1 DEF ConcatOf, SnocOf
  <2>2. CASE j # Len(u) + 1
    <3>1. j \in 1..Len(u)
      BY <1>1, <2>2
    <3> QED BY <3>1 DEF ConcatOf, SnocOf
  <2> QED BY <2>1, <2>2
<1>3. ASSUME NEW j \in 1..Len(vv) PROVE w[Len(uu) + j] = vv[j]
  <2>1. j \in 1..(Len(v) - 1) /\ j + 1 \in 1..Len(v) /\ Len(uu) + j = Len(u) + (j + 1)
    BY <1>1
  <2>2. w[Len(u) + (j + 1)] = v[j + 1]
    BY <2>1 DEF ConcatOf
  <2>3. vv[j] = v[j + 1]
    BY <2>1 DEF TailOf
  <2> QED BY <2>1, <2>2, <2>3
<1> QED BY <1>1, <1>2, <1>3 DEF ConcatOf

LEMMA MiddleLeft ==
  ASSUME NEW u, NEW v, NEW w, NEW uu, NEW vv, NEW e, Len(u) \in Nat, Len(v) \in Nat, Len(u) >= 1,
         MiddleOf(u, e, v, w), FrontOf(u, uu), ConsOf(e, v, vv)
  PROVE  MiddleOf(uu, u[Len(u)], vv, w)
<1>1. Len(w) = Len(uu) + Len(vv) + 1 /\ Len(uu) = Len(u) - 1 /\ Len(vv) = Len(v) + 1
  BY DEF MiddleOf, ConsOf, FrontOf
<1>2. w[Len(uu) + 1] = u[Len(u)]
  <2>1. Len(u) \in 1..Len(u) /\ Len(u) = Len(uu) + 1
    BY <1>1
  <2>2. w[Len(u)] = u[Len(u)]
    BY <2>1 DEF MiddleOf
  <2> QED BY <2>1, <2>2
<1>3. ASSUME NEW j \in 1..Len(uu) PROVE w[j] = uu[j]
  <2>1. j \in 1..(Len(u) - 1) /\ j \in 1..Len(u)
    BY <1>1
  <2> QED BY <2>1 DEF MiddleOf, FrontOf
<1>4. ASSUME NEW j \in 1..Len(vv) PROVE w[Len(uu) + 1 + j] = vv[j]
  <2>1. CASE j = 1
    <3>1. Len(uu) + 1 + j = Len(u) + 1
      BY <1>1, <2>1
    <3>2. w[Len(u) + 1] = e /\ vv[1] = e
      BY DEF MiddleOf, ConsOf
    <3> QED BY <2>1, <3>1, <3>2
  <2>2. CASE j # 1
    <3> DEFINE l == j - 1
    <3>1. l \in 1..Len(v) /\ j = l + 1 /\ Len(uu) + 1 + j = Len(u) + 1 + l
      BY <1>1, <2>2
    <3> HIDE DEF l
    <3>2. w[Len(u) + 1 + l] = v[l] /\ vv[l + 1] = v[l]
      BY <3>1 DEF MiddleOf, ConsOf
    <3> QED BY <3>1, <3>2
  <2> QED BY <2>1, <2>2
<1> QED BY <1>1, <1>2, <1>3, <1>4 DEF MiddleOf

LEMMA ConcatLeft ==
  ASSUME NEW u, NEW v, NEW w, NEW uu, NEW vv, Len(u) \in Nat, Len(v) \in Nat, Len(u) >= 1,
         ConcatOf(u, v, w), FrontOf(u, uu), ConsOf(u[Len(u)], v, vv)
  PROVE  ConcatOf(uu, vv, w)
<1>1. Len(w) = Len(uu) + Len(vv) /\ Len(uu) = Len(u) - 1 /\ Len(vv) = Len(v) + 1
  BY DEF ConcatOf, ConsOf, FrontOf
<1>2. ASSUME NEW j \in 1..Len(uu) PROVE w[j] = uu[j]
  <2>1. j \in 1..(Len(u) - 1) /\ j \in 1..Len(u)
    BY <1>1
  <2> QED BY <2>1 DEF ConcatOf, FrontOf
<1>3. ASSUME NEW j \in 1..Len(vv) PROVE w[Len(uu) + j] = vv[j]
  <2>1. CASE j = 1
    <3>1. Len(uu) + j = Len(u) /\ Len(u) \in 1..Len(u)
      BY <1>1, <2>1
    <3>2. w[Len(u)] = u[Len(u)] /\ vv[1] = u[Len(u)]
      BY <3>1 DEF ConcatOf, ConsOf
    <3> QED BY <2>1, <3>1, <3>2
  <2>2. CASE j # 1
    <3> DEFINE l == j - 1
    <3>1. l \in 1..Len(v) /\ j = l + 1 /\ Len(uu) + j = Len(u) + l
      BY <1>1, <2>2
    <3> HIDE DEF l
    <3>2. w[Len(u) + l] = v[l] /\ vv[l + 1] = v[l]
      BY <3>1 DEF ConcatOf, ConsOf
    <3> QED BY <3>1, <3>2
  <2> QED BY <2>1, <2>2
<1> QED BY <1>1, <1>2, <1>3 DEF ConcatOf

LEMMA EndElements ==
  ASSUME NEW s, Len(s) \in Nat, NEW e, NEW u
  PROVE  /\ SnocOf(s, e, u) => Elements(u) = Elements(s) \cup {e}
         /\ ConsOf(e, s, u) => Elements(u) = Elements(s) \cup {e}
<1>1. ASSUME SnocOf(s, e, u) PROVE Elements(u) = Elements(s) \cup {e}
  <2>1. Len(u) = Len(s) + 1 /\ u[Len(s) + 1] = e /\ \A j \in 1..Len(s) : u[j] = s[j]
    BY <1>1 DEF SnocOf
  <2>2. 1..Len(u) = 1..Len(s) \cup {Len(s) + 1}
    BY <2>1
  <2> QED BY <2>1, <2>2 DEF Elements
<1>2. ASSUME ConsOf(e, s, u) PROVE Elements(u) = Elements(s) \cup {e}
  <2>1. Len(u) = Len(s) + 1 /\ u[1] = e /\ \A j \in 1..Len(s) : u[j + 1] = s[j]
    BY <1>2 DEF ConsOf
  <2>2. ASSUME NEW m \in Elements(u) PROVE m \in Elements(s) \cup {e}
    <3>1. PICK j \in 1..Len(u) : m = u[j]
      BY DEF Elements
    <3>2. CASE j = 1
      BY <2>1, <3>1, <3>2
    <3>3. CASE j # 1
      <4> DEFINE l == j - 1
      <4>1. l \in 1..Len(s) /\ l + 1 = j
        BY <2>1, <3>3
      <4> HIDE DEF l
      <4> QED BY <2>1, <3>1, <4>1 DEF Elements
    <3> QED BY <3>2, <3>3
  <2>3. ASSUME NEW m \in Elements(s) PROVE m \in Elements(u)
    <3>1. PICK j \in 1..Len(s) : m = s[j]
      BY DEF Elements
    <3>2. j + 1 \in 1..Len(u) /\ u[j + 1] = m
      BY <2>1, <3>1
    <3> QED BY <3>2 DEF Elements
  <2>4. e \in Elements(u)
    <3>1. 1 \in 1..Len(u)
      BY <2>1
    <3> QED BY <2>1, <3>1 DEF Elements
  <2> QED BY <2>2, <2>3, <2>4
<1> QED BY <1>1, <1>2

LEMMA RestElements ==
  ASSUME NEW s, Len(s) \in Nat, Len(s) >= 1, Distinct(s), NEW u
  PROVE  /\ TailOf(s, u) => Elements(u) = Elements(s) \ {s[1]}
         /\ FrontOf(s, u) => Elements(u) = Elements(s) \ {s[Len(s)]}
<1>0. \A i, j \in 1..Len(s) : s[i] = s[j] => i = j
  BY DEF Distinct
<1>1. ASSUME TailOf(s, u) PROVE Elements(u) = Elements(s) \ {s[1]}
  <2>1. Len(u) = Len(s) - 1 /\ \A j \in 1..(Len(s) - 1) : u[j] = s[j + 1]
    BY <1>1 DEF TailOf
  <2>2. ASSUME NEW m \in Elements(u) PROVE m \in Elements(s) \ {s[1]}
    <3>1. PICK j \in 1..Len(u) : m = u[j]
      BY DEF Elements
    <3>2. j + 1 \in 1..Len(s) /\ m = s[j + 1] /\ 1 \in 1..Len(s) /\ j + 1 # 1
      BY <2>1, <3>1
    <3> DEFINE l == j + 1
    <3> HIDE DEF l
    <3>3. l \in 1..Len(s) /\ m = s[l] /\ 1 \in 1..Len(s) /\ l # 1
      BY <3>2 DEF l
    <3>4. m # s[1]
      BY <1>0, <3>3
    <3> QED BY <3>3, <3>4 DEF Elements
  <2>3. ASSUME NEW m \in Elements(s) \ {s[1]} PROVE m \in Elements(u)
    <3>1. PICK j \in 1..Len(s) : m = s[j]
      BY DEF Elements
    <3> DEFINE l == j - 1
    <3>2. l \in 1..(Len(s) - 1) /\ l \in 1..Len(u) /\ l + 1 = j
      BY <2>1, <2>3, <3>1
    <3> HIDE DEF l
    <3> QED BY <2>1, <3>1, <3>2 DEF Elements
  <2> QED BY <2>2, <2>3
<1>2. ASSUME FrontOf(s, u) PROVE Elements(u) = Elements(s) \ {s[Len(s)]}
  <2>1. Len(u) = Len(s) - 1 /\ \A j \in 1..(Len(s) - 1) : u[j] = s[j]
    BY <1>2 DEF FrontOf
  <2>2. ASSUME NEW m \in Elements(u) PROVE m \in Elements(s) \ {s[Len(s)]}
    <3>1. PICK j \in 1..Len(u) : m = u[j]
      BY DEF Elements
    <3>2. j \in 1..Len(s) /\ m = s[j] /\ Len(s) \in 1..Len(s) /\ j # Len(s)
      BY <2>1, <3>1
    <3>3. m # s[Len(s)]
      BY <1>0, <3>2
    <3> QED BY <3>2, <3>3 DEF Elements
  <2>3. ASSUME NEW m \in Elements(s) \ {s[Len(s)]} PROVE m \in Elements(u)
    <3>1. PICK j \in 1..Len(s) : m = s[j]
      BY DEF Elements
    <3>2. j \in 1..(Len(s) - 1) /\ j \in 1..Len(u)
      BY <2>1, <2>3, <3>1
    <3> QED BY <2>1, <3>1, <3>2 DEF Elements
  <2> QED BY <2>2, <2>3
<1> QED BY <1>1, <1>2

(***************************************************************************)
(* Two inner nodes, before and after a key and a kid crossed.              *)
(***************************************************************************)
AcrossNodes(x, y, u, v, up, e) ==
  /\ u \in Node /\ v \in Node /\ ~u.outer /\ ~v.outer
  /\ u.parent = x.parent /\ v.parent = y.parent
  /\ e \in Keys /\ Parted(Gathered(x, y, up), u, v, e)

InnerNode(x) == x \in Node /\ ~x.outer /\ Len(x.kids) = Len(x.keys) + 1

LEMMA InnerFields ==
  ASSUME NEW x, InnerNode(x)
  PROVE  x.keys \in Seq(Keys) /\ x.kids \in Seq(NodeIds) /\ Len(x.keys) \in Nat /\ Len(x.kids) \in Nat
<1>1. x.keys \in Seq(Keys) /\ x.kids \in Seq(NodeIds)
  BY DEF InnerNode, Node
<1> QED BY <1>1

Refilled(u, x, ks, ms) ==
  u \in Node /\ ~u.outer /\ u.parent = x.parent /\ u.keys = ks /\ u.kids = ms

LEMMA InnerRefilled ==
  ASSUME NEW x, InnerNode(x), NEW ks \in Seq(Keys), NEW ms \in Seq(NodeIds), NEW u,
         u = [x EXCEPT !.keys = ks, !.kids = ms]
  PROVE  Refilled(u, x, ks, ms)
<1>1. x \in Node /\ x.outer = FALSE
  BY DEF InnerNode, Node
<1>2. u \in Node
  BY <1>1 DEF Node
<1>3. u.outer = FALSE /\ u.parent = x.parent /\ u.keys = ks /\ u.kids = ms
  BY <1>1 DEF Node
<1> QED BY <1>2, <1>3 DEF Refilled

LEMMA PartsOfGathered ==
  ASSUME NEW x, NEW y, InnerNode(x), InnerNode(y), NEW up \in Keys
  PROVE  /\ MiddleOf(x.keys, up, y.keys, Gathered(x, y, up).keys)
         /\ ConcatOf(x.kids, y.kids, Gathered(x, y, up).kids)
  <1>1. Parted(Gathered(x, y, up), x, y, up)
    BY GatheredIs DEF InnerNode
  <1> QED BY <1>1 DEF Parted

HeadSent(x, y, u, v, up) ==
  /\ AcrossNodes(x, y, u, v, up, Head(y.keys))
  /\ Len(u.keys) = Len(x.keys) + 1 /\ Len(v.keys) = Len(y.keys) - 1
  /\ Elements(u.kids) = Elements(x.kids) \cup {Head(y.kids)}
  /\ Distinct(y.kids) => Elements(v.kids) = Elements(y.kids) \ {Head(y.kids)}
  /\ Head(y.kids) \in Elements(y.kids)

LEMMA HeadNodes ==
  ASSUME NEW x, NEW y, InnerNode(x), InnerNode(y), Len(y.keys) >= 1, NEW up \in Keys, NEW u, NEW v,
         u = [x EXCEPT !.keys = Append(x.keys, up), !.kids = Append(x.kids, Head(y.kids))],
         v = [y EXCEPT !.keys = Tail(y.keys), !.kids = Tail(y.kids)]
  PROVE  HeadSent(x, y, u, v, up)
<1> DEFINE ks == Append(x.keys, up)
           ms == Append(x.kids, Head(y.kids))
           kt == Tail(y.keys)
           mt == Tail(y.kids)
           w == Gathered(x, y, up)
<1>1. /\ x.keys \in Seq(Keys) /\ x.kids \in Seq(NodeIds) /\ Len(x.keys) \in Nat /\ Len(x.kids) \in Nat
  BY InnerFields
<1>2. /\ y.keys \in Seq(Keys) /\ y.kids \in Seq(NodeIds) /\ Len(y.keys) \in Nat /\ Len(y.kids) \in Nat
  BY InnerFields
<1>3. Len(x.kids) = Len(x.keys) + 1 /\ Len(y.kids) = Len(y.keys) + 1
  BY DEF InnerNode
<1>4. y.keys # <<>> /\ y.kids # <<>> /\ Len(y.kids) >= 1
  BY <1>2, <1>3
<1>5. kt \in Seq(Keys) /\ TailOf(y.keys, kt) /\ Head(y.keys) = y.keys[1] /\ Head(y.keys) \in Keys
  BY <1>2, <1>4, TailIs
<1>6. mt \in Seq(NodeIds) /\ TailOf(y.kids, mt) /\ Head(y.kids) = y.kids[1] /\ Head(y.kids) \in NodeIds
  BY <1>2, <1>4, TailIs
<1>7. ks \in Seq(Keys) /\ SnocOf(x.keys, up, ks)
  BY <1>1, Appended
<1>8. ms \in Seq(NodeIds) /\ SnocOf(x.kids, y.kids[1], ms)
  BY <1>1, <1>6, Appended
<1> HIDE DEF ks, ms, kt, mt
<1>9. u \in Node /\ ~u.outer /\ u.parent = x.parent /\ u.keys = ks /\ u.kids = ms
  <2>1. u = [x EXCEPT !.keys = ks, !.kids = ms]
    BY DEF ks, ms
  <2>2. Refilled(u, x, ks, ms)
    BY <1>7, <1>8, <2>1, InnerRefilled
  <2> QED BY <2>2 DEF Refilled
<1>10. v \in Node /\ ~v.outer /\ v.parent = y.parent /\ v.keys = kt /\ v.kids = mt
  <2>1. v = [y EXCEPT !.keys = kt, !.kids = mt]
    BY DEF kt, mt
  <2>2. Refilled(v, y, kt, mt)
    BY <1>5, <1>6, <2>1, InnerRefilled
  <2> QED BY <2>2 DEF Refilled
<1>11. MiddleOf(x.keys, up, y.keys, w.keys) /\ ConcatOf(x.kids, y.kids, w.kids)
  BY PartsOfGathered
<1> HIDE DEF w
<1>12. MiddleOf(ks, y.keys[1], kt, w.keys)
  BY <1>1, <1>2, <1>5, <1>7, <1>11, MiddleRight
<1>13. ConcatOf(ms, mt, w.kids)
  BY <1>1, <1>2, <1>4, <1>6, <1>8, <1>11, ConcatRight
<1>14. /\ Len(ks) = Len(x.keys) + 1 /\ Len(kt) = Len(y.keys) - 1
       /\ Len(ms) = Len(ks) + 1 /\ Len(mt) = Len(kt) + 1 /\ Len(ks) \in Nat /\ Len(kt) \in Nat
  <2>1. Len(ks) = Len(x.keys) + 1 /\ Len(ms) = Len(x.kids) + 1
    BY <1>7, <1>8 DEF SnocOf
  <2>2. Len(kt) = Len(y.keys) - 1 /\ Len(mt) = Len(y.kids) - 1
    BY <1>5, <1>6 DEF TailOf
  <2> QED BY <1>1, <1>2, <1>3, <2>1, <2>2
<1>15. Parted(w, u, v, Head(y.keys))
  BY <1>5, <1>9, <1>10, <1>12, <1>13, <1>14 DEF Parted
<1>16. Elements(ms) = Elements(x.kids) \cup {Head(y.kids)}
  BY <1>1, <1>6, <1>8, EndElements
<1>17. Distinct(y.kids) => Elements(mt) = Elements(y.kids) \ {Head(y.kids)}
  BY <1>2, <1>4, <1>6, RestElements
<1>18. Head(y.kids) \in Elements(y.kids)
  <2>1. 1 \in 1..Len(y.kids)
    BY <1>2, <1>4
  <2> QED BY <1>6, <2>1 DEF Elements
<1>19. AcrossNodes(x, y, u, v, up, Head(y.keys))
  BY <1>5, <1>9, <1>10, <1>15 DEF AcrossNodes, w
<1>20. HeadSent(x, y, u, v, up)
  <2>1. u.keys = ks /\ u.kids = ms /\ v.keys = kt /\ v.kids = mt
    BY <1>9, <1>10
  <2> HIDE DEF ks, ms, kt, mt
  <2> QED BY <1>14, <1>16, <1>17, <1>18, <1>19, <2>1 DEF HeadSent
<1> QED BY <1>20

LastSent(x, y, u, v, up) ==
  /\ AcrossNodes(x, y, u, v, up, Last(x.keys))
  /\ Len(u.keys) = Len(x.keys) - 1 /\ Len(v.keys) = Len(y.keys) + 1
  /\ Elements(v.kids) = Elements(y.kids) \cup {Last(x.kids)}
  /\ Distinct(x.kids) => Elements(u.kids) = Elements(x.kids) \ {Last(x.kids)}
  /\ Last(x.kids) \in Elements(x.kids)

LEMMA LastNodes ==
  ASSUME NEW x, NEW y, InnerNode(x), InnerNode(y), Len(x.keys) >= 1, NEW up \in Keys, NEW u, NEW v,
         u = [x EXCEPT !.keys = Front(x.keys), !.kids = Front(x.kids)],
         v = [y EXCEPT !.keys = <<up>> \o y.keys, !.kids = <<Last(x.kids)>> \o y.kids]
  PROVE  LastSent(x, y, u, v, up)
<1> DEFINE ks == <<up>> \o y.keys
           ms == <<Last(x.kids)>> \o y.kids
           kf == Front(x.keys)
           mf == Front(x.kids)
           w == Gathered(x, y, up)
<1>1. /\ x.keys \in Seq(Keys) /\ x.kids \in Seq(NodeIds) /\ Len(x.keys) \in Nat /\ Len(x.kids) \in Nat
  BY InnerFields
<1>2. /\ y.keys \in Seq(Keys) /\ y.kids \in Seq(NodeIds) /\ Len(y.keys) \in Nat /\ Len(y.kids) \in Nat
  BY InnerFields
<1>3. Len(x.kids) = Len(x.keys) + 1 /\ Len(y.kids) = Len(y.keys) + 1
  BY DEF InnerNode
<1>4. x.keys # <<>> /\ x.kids # <<>> /\ Len(x.kids) >= 1
  BY <1>1, <1>3
<1>5. kf \in Seq(Keys) /\ FrontOf(x.keys, kf) /\ Last(x.keys) = x.keys[Len(x.keys)] /\ Last(x.keys) \in Keys
  BY <1>1, <1>4, FrontIs
<1>6. mf \in Seq(NodeIds) /\ FrontOf(x.kids, mf) /\ Last(x.kids) = x.kids[Len(x.kids)]
      /\ Last(x.kids) \in NodeIds
  BY <1>1, <1>4, FrontIs
<1>7. ks \in Seq(Keys) /\ ConsOf(up, y.keys, ks)
  BY <1>2, Consed
<1>8. ms \in Seq(NodeIds) /\ ConsOf(x.kids[Len(x.kids)], y.kids, ms)
  BY <1>2, <1>6, Consed
<1> HIDE DEF ks, ms, kf, mf
<1>9. u \in Node /\ ~u.outer /\ u.parent = x.parent /\ u.keys = kf /\ u.kids = mf
  <2>1. u = [x EXCEPT !.keys = kf, !.kids = mf]
    BY DEF kf, mf
  <2>2. Refilled(u, x, kf, mf)
    BY <1>5, <1>6, <2>1, InnerRefilled
  <2> QED BY <2>2 DEF Refilled
<1>10. v \in Node /\ ~v.outer /\ v.parent = y.parent /\ v.keys = ks /\ v.kids = ms
  <2>1. v = [y EXCEPT !.keys = ks, !.kids = ms]
    BY DEF ks, ms
  <2>2. Refilled(v, y, ks, ms)
    BY <1>7, <1>8, <2>1, InnerRefilled
  <2> QED BY <2>2 DEF Refilled
<1>11. MiddleOf(x.keys, up, y.keys, w.keys) /\ ConcatOf(x.kids, y.kids, w.kids)
  BY PartsOfGathered
<1> HIDE DEF w
<1>12. MiddleOf(kf, x.keys[Len(x.keys)], ks, w.keys)
  BY <1>1, <1>2, <1>5, <1>7, <1>11, MiddleLeft
<1>13. ConcatOf(mf, ms, w.kids)
  BY <1>1, <1>2, <1>4, <1>6, <1>8, <1>11, ConcatLeft
<1>14. /\ Len(ks) = Len(y.keys) + 1 /\ Len(kf) = Len(x.keys) - 1
       /\ Len(ms) = Len(ks) + 1 /\ Len(mf) = Len(kf) + 1 /\ Len(ks) \in Nat /\ Len(kf) \in Nat
  <2>1. Len(ks) = Len(y.keys) + 1 /\ Len(ms) = Len(y.kids) + 1
    BY <1>7, <1>8 DEF ConsOf
  <2>2. Len(kf) = Len(x.keys) - 1 /\ Len(mf) = Len(x.kids) - 1
    BY <1>5, <1>6 DEF FrontOf
  <2> QED BY <1>1, <1>2, <1>3, <2>1, <2>2
<1>15. Parted(w, u, v, Last(x.keys))
  BY <1>5, <1>9, <1>10, <1>12, <1>13, <1>14 DEF Parted
<1>16. Elements(ms) = Elements(y.kids) \cup {Last(x.kids)}
  BY <1>2, <1>6, <1>8, EndElements
<1>17. Distinct(x.kids) => Elements(mf) = Elements(x.kids) \ {Last(x.kids)}
  BY <1>1, <1>4, <1>6, RestElements
<1>18. Last(x.kids) \in Elements(x.kids)
  <2>1. Len(x.kids) \in 1..Len(x.kids)
    BY <1>1, <1>4
  <2> QED BY <1>6, <2>1 DEF Elements
<1>19. AcrossNodes(x, y, u, v, up, Last(x.keys))
  BY <1>5, <1>9, <1>10, <1>15 DEF AcrossNodes, w
<1>20. LastSent(x, y, u, v, up)
  <2>1. u.keys = kf /\ u.kids = mf /\ v.keys = ks /\ v.kids = ms
    BY <1>9, <1>10
  <2> HIDE DEF ks, ms, kf, mf
  <2> QED BY <1>14, <1>16, <1>17, <1>18, <1>19, <2>1 DEF LastSent
<1> QED BY <1>20

(***************************************************************************)
(* InnerNode::Redistribute: the kid z goes to its new parent, the key e    *)
(* goes up.                                                                *)
(***************************************************************************)
Carried(h, a, b, p, i, u, v, z, e, to, s) ==
  /\ s = [m \in NodeIds |-> s[m]] /\ s[a] = u /\ s[b] = v
  /\ s[p] = [h[p] EXCEPT !.keys[i] = e] /\ s[z] = [h[z] EXCEPT !.parent = to]
  /\ \A m \in NodeIds \ {a, b, p, z} : s[m] = h[m]

Rewritten(h, a, b, p, u, v, w, z, to, s) ==
  /\ s = [m \in NodeIds |-> s[m]] /\ s[a] = u /\ s[b] = v /\ s[p] = w
  /\ s[z] = [h[z] EXCEPT !.parent = to]
  /\ \A m \in NodeIds \ {a, b, p, z} : s[m] = h[m]

LEMMA ThreeNodes ==
  ASSUME NEW h \in Heaps, NEW a \in NodeIds, NEW b \in NodeIds, NEW p \in NodeIds,
         a # b, a # p, b # p, NEW u, NEW v, NEW w, NEW f,
         f = [h EXCEPT ![a] = u, ![b] = v, ![p] = w],
         NEW z \in NodeIds \ {a, b, p}, NEW to, NEW s, s = SetParent(f, {z}, to)
  PROVE  Rewritten(h, a, b, p, u, v, w, z, to, s)
<1>1. h = [m \in NodeIds |-> h[m]]
  BY DEF Heaps
<1>2. f[a] = u /\ f[b] = v /\ f[p] = w /\ \A m \in NodeIds \ {a, b, p} : f[m] = h[m]
  BY <1>1
<1>3. s = [m \in NodeIds |-> IF m \in {z} THEN [f[m] EXCEPT !.parent = to] ELSE f[m]]
  BY DEF SetParent
<1>4. s[z] = [f[z] EXCEPT !.parent = to]
  BY <1>3
<1>5. \A m \in NodeIds \ {z} : s[m] = f[m]
  BY <1>3
<1>6. s = [m \in NodeIds |-> s[m]]
  BY <1>3
<1> QED BY <1>2, <1>4, <1>5, <1>6 DEF Rewritten

LEMMA HeadCarried ==
  ASSUME NEW h, NEW p, NEW i, NEW a, NEW b, InnerPair(h, p, i, a, b),
         Len(h[b].keys) >= Len(h[a].keys) + 2, Head(h[b].kids) \in NodeIds \ {a, b, p},
         NEW u, u = [h[a] EXCEPT !.keys = Append(h[a].keys, h[p].keys[i]),
                                 !.kids = Append(h[a].kids, Head(h[b].kids))],
         NEW v, v = [h[b] EXCEPT !.keys = Tail(h[b].keys), !.kids = Tail(h[b].kids)]
  PROVE  Carried(h, a, b, p, i, u, v, Head(h[b].kids), Head(h[b].keys), a, InnerRedistribute(h, a, b))
<1> DEFINE x == h[a]
           y == h[b]
           q == h[p]
           up == q.keys[i]
           z == Head(y.kids)
           e == Head(y.keys)
           w == [q EXCEPT !.keys[i] = e]
           f == [h EXCEPT ![a].keys = Append(@, up), ![a].kids = Append(@, Head(y.kids)),
                          ![b].keys = Tail(@), ![b].kids = Tail(@),
                          ![x.parent].keys[i] = Head(y.keys)]
           s == InnerRedistribute(h, a, b)
<1>1. /\ h \in Heaps /\ a \in NodeIds /\ b \in NodeIds /\ p \in NodeIds /\ a # b /\ a # p /\ b # p
      /\ x \in Node /\ y \in Node /\ q \in Node /\ x.parent = p
      /\ KidIndex(h, p, a) = i /\ KidIndex(h, p, b) = i + 1 /\ i \in Nat
  BY DEF InnerPair, Node
<1>2. SeparatorIndex(h, a, b) = i
  <2>1. SeparatorIndex(h, a, b) = Min({i, i + 1})
    BY <1>1, Zenon DEF SeparatorIndex
  <2> QED BY <1>1, <2>1, LeastOfTwo
<1>3. s = SetParent(f, {z}, a)
  BY <1>1, <1>2, Zenon DEF InnerRedistribute
<1>4. f = [h EXCEPT ![a] = u, ![b] = v, ![p] = w]
  <2>1. h = [m \in NodeIds |-> h[m]]
    BY <1>1 DEF Heaps
  <2> HIDE DEF z, e, up
  <2> QED BY <1>1, <2>1 DEF Node, z, e, up
<1>5. z \in NodeIds \ {a, b, p}
  OBVIOUS
<1> HIDE DEF f, s, w, z
<1>6. Rewritten(h, a, b, p, u, v, w, z, a, s)
  BY <1>1, <1>3, <1>4, <1>5, ThreeNodes
<1> QED BY <1>6 DEF Rewritten, Carried, s, w, z

LEMMA LastCarried ==
  ASSUME NEW h, NEW p, NEW i, NEW a, NEW b, InnerPair(h, p, i, a, b),
         ~(Len(h[b].keys) >= Len(h[a].keys) + 2), Last(h[a].kids) \in NodeIds \ {a, b, p},
         NEW u, u = [h[a] EXCEPT !.keys = Front(h[a].keys), !.kids = Front(h[a].kids)],
         NEW v, v = [h[b] EXCEPT !.keys = <<h[p].keys[i]>> \o h[b].keys,
                                 !.kids = <<Last(h[a].kids)>> \o h[b].kids]
  PROVE  Carried(h, a, b, p, i, u, v, Last(h[a].kids), Last(h[a].keys), b, InnerRedistribute(h, a, b))
<1> DEFINE x == h[a]
           y == h[b]
           q == h[p]
           up == q.keys[i]
           z == Last(x.kids)
           e == Last(x.keys)
           w == [q EXCEPT !.keys[i] = e]
           f == [h EXCEPT ![b].keys = <<up>> \o @, ![b].kids = <<Last(x.kids)>> \o @,
                          ![a].keys = Front(@), ![a].kids = Front(@),
                          ![x.parent].keys[i] = Last(x.keys)]
           s == InnerRedistribute(h, a, b)
<1>1. /\ h \in Heaps /\ a \in NodeIds /\ b \in NodeIds /\ p \in NodeIds /\ a # b /\ a # p /\ b # p
      /\ x \in Node /\ y \in Node /\ q \in Node /\ x.parent = p
      /\ KidIndex(h, p, a) = i /\ KidIndex(h, p, b) = i + 1 /\ i \in Nat
  BY DEF InnerPair, Node
<1>2. SeparatorIndex(h, a, b) = i
  <2>1. SeparatorIndex(h, a, b) = Min({i, i + 1})
    BY <1>1, Zenon DEF SeparatorIndex
  <2> QED BY <1>1, <2>1, LeastOfTwo
<1>3. s = SetParent(f, {z}, b)
  BY <1>1, <1>2, Zenon DEF InnerRedistribute
<1>4. f = [h EXCEPT ![a] = u, ![b] = v, ![p] = w]
  <2>1. h = [m \in NodeIds |-> h[m]]
    BY <1>1 DEF Heaps
  <2> HIDE DEF z, e, up
  <2> QED BY <1>1, <2>1 DEF Node, z, e, up
<1>5. z \in NodeIds \ {a, b, p}
  OBVIOUS
<1> HIDE DEF f, s, w, z
<1>6. Rewritten(h, a, b, p, u, v, w, z, b, s)
  BY <1>1, <1>3, <1>4, <1>5, ThreeNodes
<1> QED BY <1>6 DEF Rewritten, Carried, s, w, z

(***************************************************************************)
(* A kid that crosses between two inner nodes.                             *)
(***************************************************************************)

(* One kid of an inner node has gone over to its sibling.                  *)
MovedInner(h, a, b, p, i, s, e) ==
  /\ s = [m \in NodeIds |-> s[m]]
  /\ AcrossNodes(h[a], h[b], s[a], s[b], h[p].keys[i], e)
  /\ s[p] = [h[p] EXCEPT !.keys[i] = e]
  /\ \A m \in Elements(s[b].kids) :
       /\ m \in Elements(h[a].kids) \cup Elements(h[b].kids)
       /\ s[m] \in Node /\ Body(s[m], h[m]) /\ Links(s[m], h[m]) /\ s[m].parent = b
  /\ \A m \in Elements(h[b].kids) \ Elements(s[b].kids) : s[m] = [h[m] EXCEPT !.parent = a]
  /\ \A m \in NodeIds \ {a, b, p} :
       m \notin Elements(h[b].kids) \cup Elements(s[b].kids) => s[m] = h[m]

Roomy(x) == Len(x.keys) >= 1 /\ Len(x.keys) <= InnerFanout

LEMMA NewParent ==
  ASSUME NEW x \in Node, NEW a \in NodeIds \cup {NULL}, NEW y, y = [x EXCEPT !.parent = a]
  PROVE  y \in Node /\ Body(y, x) /\ Links(y, x) /\ y.parent = a
BY DEF Node, Body, Links

LEMMA HeadMoved ==
  ASSUME NEW h, NEW p, NEW i, NEW a, NEW b, InnerPair(h, p, i, a, b),
         Len(h[b].keys) >= Len(h[a].keys) + 2, Roomy(h[b]), NEW s, s = InnerRedistribute(h, a, b)
  PROVE  MovedInner(h, a, b, p, i, s, Head(h[b].keys)) /\ Roomy(s[a]) /\ Roomy(s[b])
<1> DEFINE u == [h[a] EXCEPT !.keys = Append(h[a].keys, h[p].keys[i]),
                             !.kids = Append(h[a].kids, Head(h[b].kids))]
           v == [h[b] EXCEPT !.keys = Tail(h[b].keys), !.kids = Tail(h[b].kids)]
           z == Head(h[b].kids)
           e == Head(h[b].keys)
           A == Elements(h[a].kids)
           B == Elements(h[b].kids)
<1>1. /\ InnerNode(h[a]) /\ InnerNode(h[b]) /\ h[p].keys[i] \in Keys
      /\ Distinct(h[b].kids) /\ A \cap B = {} /\ a \in NodeIds /\ b \in NodeIds
      /\ Len(h[a].keys) \in Nat /\ Len(h[b].keys) \in Nat
  BY DEF InnerPair, InnerNode, Node
<1>2. /\ AcrossNodes(h[a], h[b], u, v, h[p].keys[i], e)
      /\ Len(u.keys) = Len(h[a].keys) + 1 /\ Len(v.keys) = Len(h[b].keys) - 1
      /\ Elements(u.kids) = A \cup {z}
      /\ Elements(v.kids) = B \ {z}
      /\ z \in B
  <2> DEFINE x == h[a]
             y == h[b]
             up == h[p].keys[i]
  <2>1. HeadSent(h[a], h[b], u, v, h[p].keys[i])
    <3>1. InnerNode(x) /\ InnerNode(y) /\ up \in Keys /\ Len(y.keys) >= 1
      BY <1>1
    <3>2. u = [x EXCEPT !.keys = Append(x.keys, up),
                             !.kids = Append(x.kids, Head(y.kids))]
      OBVIOUS
    <3>3. v = [y EXCEPT !.keys = Tail(y.keys), !.kids = Tail(y.kids)]
      OBVIOUS
    <3> HIDE DEF u, v, x, y, up
    <3>4. HeadSent(x, y, u, v, up)
      BY <3>1, <3>2, <3>3, HeadNodes
    <3> QED BY <3>4 DEF x, y, up
  <2> HIDE DEF u, v, x, y, up
  <2> QED BY <1>1, <2>1 DEF HeadSent
<1>3. \A m \in A \cup B : m \in NodeIds \ {a, b, p} /\ h[m] \in Node
  BY DEF InnerPair
<1>4. \A m \in B : h[m].parent = b
  BY DEF InnerPair
<1>5. Carried(h, a, b, p, i, u, v, z, e, a, s)
  <2>1. z \in NodeIds \ {a, b, p}
    BY <1>2, <1>3
  <2> QED BY <1>1, <2>1, HeadCarried
<1> HIDE DEF u, v, z, e, A, B
<1>6. /\ s = [m \in NodeIds |-> s[m]] /\ s[a] = u /\ s[b] = v
      /\ s[p] = [h[p] EXCEPT !.keys[i] = e]
  BY <1>5 DEF Carried
<1>7. /\ s[z] = [h[z] EXCEPT !.parent = a]
      /\ \A m \in NodeIds \ {a, b, p, z} : s[m] = h[m]
  BY <1>5 DEF Carried
<1>8. ASSUME NEW m \in Elements(s[b].kids)
      PROVE  m \in B /\ s[m] \in Node /\ Body(s[m], h[m]) /\ Links(s[m], h[m]) /\ s[m].parent = b
  <2>1. m \in B /\ m # z
    BY <1>2, <1>6
  <2>2. s[m] = h[m]
    BY <1>3, <1>7, <2>1
  <2> QED BY <1>3, <1>4, <2>1, <2>2 DEF Body, Links
<1>9. ASSUME NEW m \in B \ Elements(s[b].kids) PROVE s[m] = [h[m] EXCEPT !.parent = a]
  BY <1>2, <1>6, <1>7
<1>10. ASSUME NEW m \in NodeIds \ {a, b, p}, m \notin B \cup Elements(s[b].kids) PROVE s[m] = h[m]
  <2>1. \A n \in NodeIds \ {a, b, p, z} : s[n] = h[n]
    BY <1>7
  <2>2. s[b] = v
    BY <1>6
  <2> QED BY <1>2, <1>10, <2>1
<1>11. MovedInner(h, a, b, p, i, s, e)
  BY <1>2, <1>6, <1>8, <1>9, <1>10 DEF MovedInner, A, B
<1>12. Roomy(s[a]) /\ Roomy(s[b])
  <2>1. s[a] = u /\ s[b] = v
    BY <1>6
  <2>2. Len(h[b].keys) >= Len(h[a].keys) + 2 /\ Len(h[b].keys) <= InnerFanout /\ InnerFanout \in Nat
    BY MapAssumption DEF Roomy
  <2>3. Len(u.keys) = Len(h[a].keys) + 1 /\ Len(v.keys) = Len(h[b].keys) - 1
    BY <1>2
  <2>4. Len(h[a].keys) \in Nat /\ Len(h[b].keys) \in Nat
    BY <1>1
  <2>5. /\ Len(u.keys) >= 1 /\ Len(u.keys) <= InnerFanout
        /\ Len(v.keys) >= 1 /\ Len(v.keys) <= InnerFanout
    <3> DEFINE la == Len(h[a].keys)
               lb == Len(h[b].keys)
               lu == Len(u.keys)
               lv == Len(v.keys)
    <3> HIDE DEF la, lb, lu, lv
    <3> SUFFICES lu >= 1 /\ lu <= InnerFanout /\ lv >= 1 /\ lv <= InnerFanout
      BY DEF lu, lv
    <3>1. la \in Nat /\ lb \in Nat
      BY <2>4 DEF la, lb
    <3>2. lu = la + 1 /\ lv = lb - 1
      BY <2>3 DEF la, lb, lu, lv
    <3>3. lb >= la + 2 /\ lb <= InnerFanout /\ InnerFanout \in Nat
      BY <2>2 DEF la, lb
    <3> QED BY ONLY <3>1, <3>2, <3>3
  <2>6. Roomy(u) /\ Roomy(v)
    BY <2>5 DEF Roomy
  <2> QED BY <2>1, <2>6
<1> QED BY <1>11, <1>12 DEF e

LEMMA LastMoved ==
  ASSUME NEW h, NEW p, NEW i, NEW a, NEW b, InnerPair(h, p, i, a, b),
         ~(Len(h[b].keys) >= Len(h[a].keys) + 2), Len(h[a].keys) >= Len(h[b].keys) + 2,
         Roomy(h[a]), NEW s, s = InnerRedistribute(h, a, b)
  PROVE  MovedInner(h, a, b, p, i, s, Last(h[a].keys)) /\ Roomy(s[a]) /\ Roomy(s[b])
<1> DEFINE u == [h[a] EXCEPT !.keys = Front(h[a].keys), !.kids = Front(h[a].kids)]
           v == [h[b] EXCEPT !.keys = <<h[p].keys[i]>> \o h[b].keys,
                             !.kids = <<Last(h[a].kids)>> \o h[b].kids]
           z == Last(h[a].kids)
           e == Last(h[a].keys)
           A == Elements(h[a].kids)
           B == Elements(h[b].kids)
<1>1. /\ InnerNode(h[a]) /\ InnerNode(h[b]) /\ h[p].keys[i] \in Keys
      /\ Distinct(h[a].kids) /\ A \cap B = {} /\ a \in NodeIds /\ b \in NodeIds
      /\ Len(h[a].keys) \in Nat /\ Len(h[b].keys) \in Nat
  BY DEF InnerPair, InnerNode, Node
<1>2. /\ AcrossNodes(h[a], h[b], u, v, h[p].keys[i], e)
      /\ Len(u.keys) = Len(h[a].keys) - 1 /\ Len(v.keys) = Len(h[b].keys) + 1
      /\ Elements(v.kids) = B \cup {z}
      /\ z \in A
  <2> DEFINE x == h[a]
             y == h[b]
             up == h[p].keys[i]
  <2>1. LastSent(h[a], h[b], u, v, h[p].keys[i])
    <3>1. InnerNode(x) /\ InnerNode(y) /\ up \in Keys /\ Len(x.keys) >= 1
      BY <1>1
    <3>2. u = [x EXCEPT !.keys = Front(x.keys), !.kids = Front(x.kids)]
      OBVIOUS
    <3>3. v = [y EXCEPT !.keys = <<up>> \o y.keys,
                             !.kids = <<Last(x.kids)>> \o y.kids]
      OBVIOUS
    <3> HIDE DEF u, v, x, y, up
    <3>4. LastSent(x, y, u, v, up)
      BY <3>1, <3>2, <3>3, LastNodes
    <3> QED BY <3>4 DEF x, y, up
  <2> HIDE DEF u, v, x, y, up
  <2> QED BY <1>1, <2>1 DEF LastSent
<1>3. \A m \in A \cup B : m \in NodeIds \ {a, b, p} /\ h[m] \in Node
  BY DEF InnerPair
<1>4. \A m \in B : h[m].parent = b
  BY DEF InnerPair
<1>5. Carried(h, a, b, p, i, u, v, z, e, b, s)
  <2>1. z \in NodeIds \ {a, b, p}
    BY <1>2, <1>3
  <2> QED BY <1>1, <2>1, LastCarried
<1> HIDE DEF u, v, z, e, A, B
<1>6. /\ s = [m \in NodeIds |-> s[m]] /\ s[a] = u /\ s[b] = v
      /\ s[p] = [h[p] EXCEPT !.keys[i] = e]
  BY <1>5 DEF Carried
<1>7. /\ s[z] = [h[z] EXCEPT !.parent = b]
      /\ \A m \in NodeIds \ {a, b, p, z} : s[m] = h[m]
  BY <1>5 DEF Carried
<1>8. ASSUME NEW m \in Elements(s[b].kids)
      PROVE  m \in A \cup B /\ s[m] \in Node /\ Body(s[m], h[m]) /\ Links(s[m], h[m]) /\ s[m].parent = b
  <2>1. m \in B \cup {z} /\ (m \in B => m # z)
    BY <1>1, <1>2, <1>6
  <2>2. CASE m = z
    <3>1. h[z] \in Node
      BY <1>2, <1>3
    <3> QED BY <1>1, <1>2, <1>7, <2>2, <3>1, NewParent
  <2>3. CASE m \in B
    <3>1. s[m] = h[m]
      BY <1>3, <1>7, <2>1, <2>3
    <3> QED BY <1>3, <1>4, <2>3, <3>1 DEF Body, Links
  <2> QED BY <2>1, <2>2, <2>3
<1>9. ASSUME NEW m \in B \ Elements(s[b].kids) PROVE s[m] = [h[m] EXCEPT !.parent = a]
  BY <1>2, <1>6
<1>10. ASSUME NEW m \in NodeIds \ {a, b, p}, m \notin B \cup Elements(s[b].kids) PROVE s[m] = h[m]
  <2>1. \A n \in NodeIds \ {a, b, p, z} : s[n] = h[n]
    BY <1>7
  <2>2. s[b] = v
    BY <1>6
  <2> QED BY <1>2, <1>10, <2>1, <2>2
<1>11. MovedInner(h, a, b, p, i, s, e)
  BY <1>2, <1>6, <1>8, <1>9, <1>10 DEF MovedInner, A, B
<1>12. Roomy(s[a]) /\ Roomy(s[b])
  <2>1. s[a] = u /\ s[b] = v
    BY <1>6
  <2>2. Len(h[a].keys) >= Len(h[b].keys) + 2 /\ Len(h[a].keys) <= InnerFanout /\ InnerFanout \in Nat
    BY MapAssumption DEF Roomy
  <2>3. Len(u.keys) = Len(h[a].keys) - 1 /\ Len(v.keys) = Len(h[b].keys) + 1
    BY <1>2
  <2>4. Len(h[a].keys) \in Nat /\ Len(h[b].keys) \in Nat
    BY <1>1
  <2>5. /\ Len(u.keys) >= 1 /\ Len(u.keys) <= InnerFanout
        /\ Len(v.keys) >= 1 /\ Len(v.keys) <= InnerFanout
    <3> DEFINE la == Len(h[a].keys)
               lb == Len(h[b].keys)
               lu == Len(u.keys)
               lv == Len(v.keys)
    <3> HIDE DEF la, lb, lu, lv
    <3> SUFFICES lu >= 1 /\ lu <= InnerFanout /\ lv >= 1 /\ lv <= InnerFanout
      BY DEF lu, lv
    <3>1. la \in Nat /\ lb \in Nat
      BY <2>4 DEF la, lb
    <3>2. lu = la - 1 /\ lv = lb + 1
      BY <2>3 DEF la, lb, lu, lv
    <3>3. la >= lb + 2 /\ la <= InnerFanout /\ InnerFanout \in Nat
      BY <2>2 DEF la, lb
    <3> QED BY ONLY <3>1, <3>2, <3>3
  <2>6. Roomy(u) /\ Roomy(v)
    BY <2>5 DEF Roomy
  <2> QED BY <2>1, <2>6
<1> QED BY <1>11, <1>12 DEF e

LEMMA InnersToMove ==
  ASSUME NEW h, NEW p, NEW i, NEW a, NEW b, InnerPair(h, p, i, a, b), MayRedistribute(h, a, b),
         Len(h[a].keys) <= InnerFanout, Len(h[b].keys) <= InnerFanout
  PROVE  LET s == InnerRedistribute(h, a, b)
         IN  (\E e : MovedInner(h, a, b, p, i, s, e)) /\ Roomy(s[a]) /\ Roomy(s[b])
<1>1. Len(h[a].keys) \in Nat /\ Len(h[b].keys) \in Nat
  BY DEF InnerPair, Node
<1>2. CASE Len(h[b].keys) >= Len(h[a].keys) + 2
  <2>1. Roomy(h[b])
    BY <1>1, <1>2 DEF Roomy
  <2> QED BY <1>2, <2>1, HeadMoved
<1>3. CASE ~(Len(h[b].keys) >= Len(h[a].keys) + 2) /\ Len(h[a].keys) >= Len(h[b].keys) + 2
  <2>1. Roomy(h[a])
    BY <1>1, <1>3 DEF Roomy
  <2> QED BY <1>3, <2>1, LastMoved
<1> QED BY <1>2, <1>3 DEF MayRedistribute

(***************************************************************************)
(* The node that a and b would be together divides into what they become.  *)
(***************************************************************************)
LEMMA MovedDivides ==
  ASSUME NEW h, NEW p, NEW i, NEW a, NEW b, InnerPair(h, p, i, a, b),
         NEW s, NEW e, MovedInner(h, a, b, p, i, s, e), s \in Heaps,
         NEW f, \A m \in NodeIds \ {p} : f[m] = h[m],
         NEW g, g \in Heaps, \A m \in NodeIds \ {p} : g[m] = s[m], g[p] = f[p],
         NEW j, j \in Heaps, GatheredInner(f, j, a, b, h[p].keys[i]),
         j[a] = Gathered(f[a], f[b], h[p].keys[i])
  PROVE  DividedInner(j, g, a, b, e)
<1> DEFINE A == Elements(h[a].kids)
           B == Elements(h[b].kids)
<1>1. /\ a \in NodeIds /\ b \in NodeIds /\ a # b /\ p \in NodeIds \ {a, b}
      /\ \A m \in A : m \in NodeIds \ {a, b, p} /\ h[m] \in Node /\ h[m].parent = a
      /\ \A m \in B : m \in NodeIds \ {a, b, p} /\ h[m] \in Node /\ h[m].parent = b
  BY DEF InnerPair
<1>2. f[a] = h[a] /\ f[b] = h[b] /\ g[a] = s[a] /\ g[b] = s[b] /\ \A m \in NodeIds \ {p} : f[m] = h[m] /\ g[m] = s[m]
  BY <1>1
<1>3. AcrossNodes(h[a], h[b], s[a], s[b], h[p].keys[i], e)
  BY DEF MovedInner
<1>4. /\ s[a] \in Node /\ s[b] \in Node /\ ~s[a].outer /\ ~s[b].outer
      /\ Parted(Gathered(h[a], h[b], h[p].keys[i]), s[a], s[b], e) /\ s[a].parent = h[a].parent
  BY <1>3 DEF AcrossNodes
<1>5. /\ j[a] \in Node /\ ~j[a].outer /\ j[b] = Freed /\ j[a].parent = h[a].parent
      /\ \A m \in NodeIds : IsKid(f, m, b) => j[m] = [f[m] EXCEPT !.parent = a]
      /\ \A m \in NodeIds \ {a, b} : ~IsKid(f, m, b) => j[m] = f[m]
  BY <1>2 DEF GatheredInner
<1>6. Parted(j[a], g[a], g[b], e)
  BY <1>2, <1>4
<1>7. \A m : IsKid(f, m, b) <=> m \in B
  BY <1>2 DEF IsKid, Elements
<1>8. \A m : IsKid(g, m, b) <=> m \in Elements(s[b].kids)
  BY <1>2 DEF IsKid, Elements
<1>9. /\ \A m \in Elements(s[b].kids) :
           /\ m \in A \cup B
           /\ s[m] \in Node /\ Body(s[m], h[m]) /\ Links(s[m], h[m]) /\ s[m].parent = b
      /\ \A m \in B \ Elements(s[b].kids) : s[m] = [h[m] EXCEPT !.parent = a]
      /\ \A m \in NodeIds \ {a, b, p} : m \notin B \cup Elements(s[b].kids) => s[m] = h[m]
  BY DEF MovedInner
<1> HIDE DEF A, B
<1>10. ASSUME NEW m \in Elements(s[b].kids)
       PROVE  /\ m \in Alive(j) \ {a} /\ j[m].parent = a
              /\ g[m] \in Node /\ Body(g[m], j[m]) /\ Links(g[m], j[m]) /\ g[m].parent = b
  <2>1. m \in NodeIds \ {a, b, p} /\ h[m] \in Node /\ f[m] = h[m] /\ g[m] = s[m]
    BY <1>1, <1>2, <1>9
  <2>2. j[m] \in Node /\ Body(j[m], h[m]) /\ Links(j[m], h[m]) /\ j[m].parent = a
    <3>1. CASE m \in B
      <4>1. j[m] = [h[m] EXCEPT !.parent = a]
        BY <1>5, <1>7, <2>1, <3>1
      <4> QED BY <1>1, <2>1, <4>1, NewParent
    <3>2. CASE m \notin B
      <4>1. j[m] = h[m]
        BY <1>5, <1>7, <2>1, <3>2
      <4> QED BY <1>1, <1>9, <2>1, <3>2, <4>1 DEF Body, Links
    <3> QED BY <3>1, <3>2
  <2>3. s[m] \in Node /\ Body(s[m], h[m]) /\ Links(s[m], h[m]) /\ s[m].parent = b
    BY <1>9
  <2>4. m \in Alive(j)
    BY <2>1, <2>2, FreedAssumption DEF Alive
  <2> QED BY <2>1, <2>2, <2>3, <2>4 DEF Body, Links
<1>11. ASSUME NEW m \in NodeIds \ {a, b}, m \notin Elements(s[b].kids)
       PROVE  g[m] = j[m]
  <2>1. CASE m = p
    <3>1. p \notin B
      BY <1>1
    <3> QED BY <1>1, <1>5, <1>7, <2>1, <3>1
  <2>2. CASE m # p /\ m \in B
    <3>1. g[m] = [h[m] EXCEPT !.parent = a]
      BY <1>2, <1>9, <1>11, <2>2
    <3>2. j[m] = [h[m] EXCEPT !.parent = a]
      BY <1>2, <1>5, <1>7, <2>2
    <3> QED BY <3>1, <3>2
  <2>3. CASE m # p /\ m \notin B
    BY <1>2, <1>5, <1>7, <1>9, <1>11, <2>3
  <2> QED BY <2>1, <2>2, <2>3
<1>12. a \in Inners(j)
  BY <1>1, <1>5, FreedAssumption DEF Inners, Alive
<1> QED BY <1>1, <1>2, <1>4, <1>5, <1>6, <1>8, <1>10, <1>11, <1>12 DEF DividedInner

LEMMA MovedInnerCrosses ==
  ASSUME NEW h, NEW p, NEW i, NEW a, NEW b, InnerPair(h, p, i, a, b),
         NEW s, NEW e, MovedInner(h, a, b, p, i, s, e),
         Unlinked(h, p, i)[p] \in Node,
         NEW g, g = [s EXCEPT ![p] = Unlinked(h, p, i)[p]]
  PROVE  Crossed(h, s, g, p, i, a, b) /\ s[p].keys[i] = e /\ e \in Keys
<1> DEFINE A == Elements(h[a].kids)
           B == Elements(h[b].kids)
           q == Unlinked(h, p, i)[p]
<1>1. /\ a \in NodeIds /\ b \in NodeIds /\ a # b /\ p \in NodeIds \ {a, b} /\ h \in Heaps
      /\ h[a] \in Node /\ h[b] \in Node /\ h[p] \in Node /\ ~h[a].outer /\ ~h[b].outer
      /\ h[a].parent = p /\ h[b].parent = p /\ i \in 1..Len(h[p].keys)
      /\ \A m \in A \cup B : m \in NodeIds \ {a, b, p} /\ h[m] \in Node
  BY DEF InnerPair
<1>2. AcrossNodes(h[a], h[b], s[a], s[b], h[p].keys[i], e)
  BY DEF MovedInner
<1>3. /\ s[a] \in Node /\ s[b] \in Node /\ ~s[a].outer /\ ~s[b].outer
      /\ s[b].parent = h[b].parent /\ e \in Keys
  BY <1>2 DEF AcrossNodes
<1>4. /\ s[p] \in Node /\ s[p].outer = h[p].outer /\ s[p].parent = h[p].parent /\ s[p].kids = h[p].kids
      /\ Len(s[p].keys) = Len(h[p].keys) /\ s[p].keys[i] = e
      /\ \A j \in 1..Len(h[p].keys) : j # i => s[p].keys[j] = h[p].keys[j]
  <2>1. s[p] = [h[p] EXCEPT !.keys[i] = e]
    BY DEF MovedInner
  <2> QED BY <1>1, <1>3, <2>1, NewSeparator
<1>5. /\ \A m \in Elements(s[b].kids) : m \in A \cup B /\ s[m] \in Node /\ Body(s[m], h[m])
      /\ \A m \in B \ Elements(s[b].kids) : s[m] = [h[m] EXCEPT !.parent = a]
      /\ \A m \in NodeIds \ {a, b, p} : m \notin B \cup Elements(s[b].kids) => s[m] = h[m]
      /\ s = [m \in NodeIds |-> s[m]]
  BY DEF MovedInner
<1> HIDE DEF A, B, q
<1>6. ASSUME NEW m \in NodeIds \ {a, b, p}
      PROVE  s[m] = h[m] \/ (s[m] \in Node /\ h[m] \in Node /\ s[m].outer = h[m].outer)
  <2>1. CASE m \in Elements(s[b].kids)
    BY <1>1, <1>5, <2>1 DEF Body
  <2>2. CASE m \in B \ Elements(s[b].kids)
    <3>1. s[m] = [h[m] EXCEPT !.parent = a] /\ h[m] \in Node
      BY <1>1, <1>5, <2>2
    <3> QED BY <1>1, <3>1, NewParent DEF Body
  <2>3. CASE m \notin B \cup Elements(s[b].kids)
    BY <1>5, <2>3
  <2> QED BY <2>1, <2>2, <2>3
<1>7. \A m \in NodeIds : s[m] = h[m] \/ (s[m] \in Node /\ h[m] \in Node /\ s[m].outer = h[m].outer)
  <2>1. h[a].outer \in BOOLEAN /\ h[b].outer \in BOOLEAN /\ s[a].outer \in BOOLEAN /\ s[b].outer \in BOOLEAN
    BY <1>1, <1>3 DEF Node
  <2>2. s[a].outer = h[a].outer /\ s[b].outer = h[b].outer
    BY <1>1, <1>3, <2>1
  <2> QED BY <1>1, <1>3, <1>4, <1>6, <2>2
<1>8. \A m \in NodeIds : h[m] \in Node \cup {Freed}
  BY <1>1 DEF Heaps
<1>9. s \in Heaps
  <2>1. \A m \in NodeIds : s[m] \in Node \cup {Freed}
    BY <1>7, <1>8
  <2> QED BY <1>5, <2>1 DEF Heaps
<1>10. Alive(s) = Alive(h) /\ \A m \in Alive(h) : s[m].outer = h[m].outer
  BY <1>7, FreedAssumption DEF Alive
<1>11. g = [s EXCEPT ![p] = q]
  BY DEF q
<1>12. q \in Node
  BY DEF q
<1>13. g \in Heaps /\ g[p] = q /\ \A m \in NodeIds \ {p} : g[m] = s[m]
  <2>1. s \in [NodeIds -> Node \cup {Freed}]
    BY <1>9 DEF Heaps
  <2> QED BY <1>1, <1>11, <1>12, <2>1 DEF Heaps
<1> QED BY <1>1, <1>3, <1>4, <1>9, <1>10, <1>13 DEF Crossed, q

(* Redistribute between two inner nodes.                                   *)
LEMMA InnerMoveKeepsTree ==
  ASSUME NEW h, NEW r, NEW any, NEW t, NEW lo, NEW hi, Tree(h, r, NULL, any, t, lo, hi),
         NEW p, NEW i, NEW a, NEW b, Siblings(h, p, i, a, b), ~h[a].outer,
         NEW s, NEW e, MovedInner(h, a, b, p, i, s, e)
  PROVE  /\ \E tt, low, high : Tree(s, r, NULL, NULL, tt, low, high)
         /\ Content(s) = Content(h)
<1> DEFINE f == Unlinked(h, p, i)
           g == [s EXCEPT ![p] = Unlinked(h, p, i)[p]]
           j == Merge(h, a, b)
           up == h[p].keys[i]
<1>1. InnerPair(h, p, i, a, b)
  BY SiblingInners
<1>2. MergedInner(h, a, b, p, i, j)
  <2>1. /\ h \in Heaps /\ a \in NodeIds /\ b \in NodeIds /\ a # b /\ p \in NodeIds \ {a, b}
        /\ h[a] \in Node /\ h[b] \in Node /\ h[p] \in Node /\ ~h[a].outer
        /\ h[a].parent = p
        /\ i \in 1..Len(h[p].keys) /\ KidIndex(h, p, a) = i /\ KidIndex(h, p, b) = i + 1
        /\ Position(h[p].keys, h[p].keys[i]) = i
        /\ \A m \in Elements(h[b].kids) : m \in NodeIds \ {a, b, p}
    BY <1>1 DEF InnerPair
  <2>2. Elements(h[b].kids) \in SUBSET (NodeIds \ {a, b, p})
    BY <2>1
  <2> QED BY <2>1, <2>2, InnerMergeIs
<1>3. Parting(h, r, p, i, a, b, t, lo, hi)
  BY PartingIs
<1>4. Tree(f, r, b, a, t, lo, hi) /\ a # r /\ b # r /\ t[a] = t[b] /\ b # NULL
  BY <1>3 DEF Parting
<1>5. /\ \A m \in NodeIds \ {p} : f[m] = h[m]
      /\ f[p] = Without(h[p], i)
      /\ h \in Heaps
  <2>1. h \in Heaps /\ p \in NodeIds
    BY <1>1 DEF InnerPair
  <2> QED BY <2>1, UnlinkedAt
<1> HIDE DEF j, g
<1>6. GatheredInner(f, j, a, b, up)
  <2> HIDE DEF f
  <2> QED BY <1>1, <1>2, <1>5, MergeGathers
<1> DEFINE hi1 == [hi EXCEPT ![a] = hi[b]]
           t2 == [t EXCEPT ![b] = t[a]]
           lo2 == [lo EXCEPT ![b] = e]
           hi2 == [hi1 EXCEPT ![a] = e, ![b] = hi1[a]]
<1>7. Tree(j, r, NULL, a, t, lo, hi1) /\ Content(j) = Content(h)
  <2>1. RejoinedInners(h, j, r, p, i, a, b, a, t, lo, hi)
    BY <1>6, PartedInners
  <2> QED BY <2>1 DEF RejoinedInners
<1>8. f[p] \in Node
  <2>1. p \in NodeIds /\ p \in Alive(h)
    BY <1>1 DEF InnerPair, Inners
  <2>2. f \in Heaps /\ p \in Alive(f)
    <3>1. Linked(f, h, p, i, a, b, up)
      BY <1>5, UnlinkedIs
    <3> HIDE DEF f, up
    <3> QED BY <3>1 DEF Linked, Inners
  <2> QED BY <2>1, <2>2 DEF Heaps, Alive
<1>9. Crossed(h, s, g, p, i, a, b) /\ s[p].keys[i] = e /\ e \in Keys
  BY <1>1, <1>8, MovedInnerCrosses DEF g
<1>10. Linked(f, h, p, i, a, b, up)
  BY <1>5, UnlinkedIs
<1>11. Linked(g, s, p, i, a, b, e)
  BY <1>5, <1>9, CrossedLinks
<1> HIDE DEF f
<1>12. DividedInner(j, g, a, b, e)
  <2>1. s \in Heaps /\ g \in Heaps /\ g[p] = f[p] /\ \A m \in NodeIds \ {p} : g[m] = s[m]
    BY <1>9 DEF Crossed, f
  <2>2. j \in Heaps
    BY <1>7 DEF Tree, Shape
  <2>3. f[a] = h[a] /\ f[b] = h[b]
    BY <1>1, <1>5 DEF InnerPair
  <2>4. j[a] = Gathered(f[a], f[b], up)
    BY <1>2, <2>3 DEF MergedInner
  <2> QED BY <1>1, <1>5, <1>6, <2>1, <2>2, <2>4, MovedDivides
<1>13. t \in [NodeIds -> Nat] /\ hi \in [NodeIds -> Nat] /\ lo \in [NodeIds -> Nat]
       /\ a \in NodeIds /\ b \in NodeIds /\ a # b /\ e \in Nat
  BY <1>1, <1>9, MapAssumption DEF Tree, Shape, Ordered, InnerPair
<1>14. t2[b] = t2[a] /\ hi2[a] = e
  BY <1>13
<1> HIDE DEF hi1, t2, lo2, hi2
<1>15. Tree(g, r, b, a, t2, lo2, hi2) /\ Content(g) = Content(j)
  <2>1. Tree(g, r, b, a, [t EXCEPT ![b] = t[a]], [lo EXCEPT ![b] = e],
             [hi1 EXCEPT ![a] = e, ![b] = hi1[a]]) /\ Content(g) = Content(j)
    BY <1>7, <1>12, <1>13, InnerSplitKeepsTree, Zenon
  <2> QED BY <2>1 DEF t2, lo2, hi2
<1>16. Tree(s, r, NULL, NULL, t2, lo2, hi2) /\ Content(s) = Content(g)
  BY <1>4, <1>9, <1>11, <1>14, <1>15, LinkKeepsTree
<1> QED BY <1>7, <1>15, <1>16

(***************************************************************************)
(* The way down.                                                           *)
(***************************************************************************)
KidPlace(x, k, i) ==
  /\ i \in 1..(Len(x.keys) + 1)
  /\ i = 1 \/ (i - 1 \in 1..Len(x.keys) /\ x.keys[i - 1] <= k)
  /\ i = Len(x.keys) + 1 \/ (i \in 1..Len(x.keys) /\ k < x.keys[i])

(* KidFor finds the kid between whose fences the key is.                   *)
LEMMA KidForIs ==
  ASSUME NEW x, Len(x.keys) \in Nat, Len(x.keys) >= 1, Len(x.kids) = Len(x.keys) + 1,
         \A j \in 1..Len(x.keys) : x.keys[j] \in Nat, NEW k \in Nat
  PROVE  KidPlace(x, k, KidFor(x, k))
<1> DEFINE l == Len(x.keys)
           Z == {m \in Nat : m + 1 \in 1..l /\ k < x.keys[m + 1]
                   => \E j \in 1..m : x.keys[j] <= k /\ k < x.keys[j + 1]}
<1>1. l \in Nat /\ l >= 1 /\ Last(x.keys) = x.keys[l]
  BY DEF Last
<1>2. CASE k < x.keys[1]
  BY <1>1, <1>2 DEF KidPlace, KidFor
<1>3. CASE ~(k < x.keys[1]) /\ k >= x.keys[l]
  <2>1. KidFor(x, k) = l + 1
    BY <1>1, <1>3 DEF KidFor
  <2> QED BY <1>1, <1>3, <2>1 DEF KidPlace
<1>4. CASE ~(k < x.keys[1]) /\ ~(k >= x.keys[l])
  <2>1. x.keys[1] <= k /\ k < x.keys[l] /\ l > 1
    BY <1>1, <1>4
  <2>2. 0 \in Z
    BY <1>1, <1>4
  <2>3. ASSUME NEW m \in Nat, m \in Z PROVE m + 1 \in Z
    <3>1. SUFFICES ASSUME (m + 1) + 1 \in 1..l, k < x.keys[(m + 1) + 1]
                   PROVE  \E j \in 1..(m + 1) : x.keys[j] <= k /\ k < x.keys[j + 1]
      OBVIOUS
    <3>2. m + 1 \in 1..l
      BY <1>1, <3>1
    <3>3. CASE k < x.keys[m + 1]
      BY <2>3, <3>2, <3>3
    <3>4. CASE ~(k < x.keys[m + 1])
      <4>1. x.keys[m + 1] <= k
        BY <3>2, <3>4
      <4> QED BY <3>1, <4>1
    <3> QED BY <3>3, <3>4
  <2>4. \A m \in Nat : m \in Z
    <3> HIDE DEF Z
    <3> QED BY <2>2, <2>3, ClimbTo
  <2>5. \E j \in 1..(l - 1) : x.keys[j] <= k /\ k < x.keys[j + 1]
    <3> DEFINE q == l - 1
    <3>1. q \in Nat /\ q + 1 = l
      BY <1>1, <2>1
    <3> HIDE DEF q
    <3>2. q \in Z
      BY <2>4, <3>1
    <3>3. q + 1 \in 1..l /\ k < x.keys[q + 1]
      BY <1>1, <2>1, <3>1
    <3>4. \E j \in 1..q : x.keys[j] <= k /\ k < x.keys[j + 1]
      BY <3>2, <3>3
    <3> QED BY <3>4 DEF q
  <2> DEFINE c == CHOOSE j \in 1..(l - 1) : x.keys[j] <= k /\ k < x.keys[j + 1]
  <2>6. c \in 1..(l - 1) /\ x.keys[c] <= k /\ k < x.keys[c + 1]
    BY <2>5
  <2>7. KidFor(x, k) = 1 + c
    BY <1>1, <1>4 DEF KidFor
  <2> HIDE DEF c
  <2> QED BY <1>1, <2>6, <2>7 DEF KidPlace
<1> QED BY <1>2, <1>3, <1>4

(* What is known of the kid a key is looked for in.                        *)
Further(h, t, lo, hi, n, k, m) ==
  m \in Alive(h) /\ t[m] + 1 = t[n] /\ (Within(lo, hi, n, k) => Within(lo, hi, m, k))

LEMMA KidForWithin ==
  ASSUME NEW h, NEW r, NEW c, NEW t, NEW lo, NEW hi, Tree(h, r, NULL, c, t, lo, hi),
         NEW n \in Inners(h), h[n].keys # <<>>, NEW k \in Nat
  PROVE  Further(h, t, lo, hi, n, k, h[n].kids[KidFor(h[n], k)])
<1> DEFINE x == h[n]
           i == KidFor(x, k)
           m == x.kids[i]
<1>1. x \in Node /\ n \in Alive(h)
  BY FreedAssumption DEF Tree, Shape, Inners, Alive, Heaps
<1>2. Len(x.keys) \in Nat /\ Len(x.keys) >= 1 /\ \A j \in 1..Len(x.keys) : x.keys[j] \in Nat
  <2>1. x.keys \in Seq(Keys) /\ x.keys # <<>>
    BY <1>1 DEF Node
  <2> HIDE DEF x
  <2>2. Len(x.keys) \in Nat /\ Len(x.keys) >= 1
    BY <2>1
  <2>3. \A j \in 1..Len(x.keys) : x.keys[j] \in Keys
    BY <2>1
  <2> QED BY <2>2, <2>3, MapAssumption
<1>3. Family(h, r, NULL, t, n)
  BY DEF Tree, Shape
<1>4. Fences(x, lo[n], hi[n], lo, hi)
  <2>1. Upper(hi, c, NULL) = hi
    BY DEF Upper
  <2> QED BY <2>1 DEF Tree, Ordered
<1>5. Len(x.kids) = Len(x.keys) + 1 /\ \A j \in 1..Len(x.kids) :
        x.kids[j] \in Alive(h) /\ t[x.kids[j]] + 1 = t[n]
  BY <1>3 DEF Family
<1> HIDE DEF x
<1>6. KidPlace(x, k, i)
  BY <1>2, <1>5, KidForIs
<1> HIDE DEF i
<1>7. m \in Alive(h) /\ t[m] + 1 = t[n]
  BY <1>2, <1>5, <1>6 DEF KidPlace
<1>8. ASSUME Within(lo, hi, n, k) PROVE lo[m] <= k
  <2>1. CASE i = 1
    BY <1>4, <1>8, <2>1 DEF Fences, Within
  <2>2. CASE i - 1 \in 1..Len(x.keys) /\ x.keys[i - 1] <= k
    <3> DEFINE j == i - 1
    <3>1. j \in 1..Len(x.keys) /\ x.keys[j] <= k /\ j + 1 = i
      BY <1>2, <1>6, <2>2 DEF KidPlace
    <3> HIDE DEF j
    <3>2. lo[x.kids[j + 1]] = x.keys[j]
      BY <1>4, <3>1 DEF Fences
    <3> QED BY <3>1, <3>2
  <2> QED BY <1>6, <2>1, <2>2 DEF KidPlace
<1>9. ASSUME Within(lo, hi, n, k) PROVE Under(k, hi[m])
  <2>1. CASE i = Len(x.keys) + 1
    BY <1>4, <1>9, <2>1 DEF Fences, Within
  <2>2. CASE i \in 1..Len(x.keys) /\ k < x.keys[i]
    BY <1>4, <2>2 DEF Fences, Under
  <2> QED BY <1>6, <2>1, <2>2 DEF KidPlace
<1> HIDE DEF m
<1>10. Further(h, t, lo, hi, n, k, m)
  BY <1>7, <1>8, <1>9 DEF Further, Within
<1> QED BY <1>10 DEF m, i, x

(* A function that goes on until it is at the bottom.                      *)
Descends(S, B, nx) == \E f : f = [n \in S |-> IF n \in B THEN n ELSE f[nx[n]]]

LEMMA Descent ==
  ASSUME NEW S, NEW B, NEW nx, NEW t, NEW top \in Nat,
         \A n \in S : t[n] \in Nat /\ t[n] <= top,
         \A n \in S : n \notin B => nx[n] \in S /\ t[nx[n]] + 1 = t[n]
  PROVE  Descends(S, B, nx)
<1> DEFINE Good(f, m) == \A n \in S : t[n] <= m => f[n] = IF n \in B THEN n ELSE f[nx[n]]
           Z == {m \in Nat : \E f : Good(f, m)}
<1>1. 0 \in Z
  <2>1. Good([n \in S |-> n], 0)
    OBVIOUS
  <2> QED BY <2>1
<1>2. ASSUME NEW m \in Nat, m \in Z PROVE m + 1 \in Z
  <2>1. PICK f : Good(f, m)
    BY <1>2
  <2> DEFINE g == [n \in S |-> IF t[n] <= m THEN f[n] ELSE IF n \in B THEN n ELSE f[nx[n]]]
  <2>2. ASSUME NEW n \in S, t[n] <= m + 1 PROVE g[n] = IF n \in B THEN n ELSE g[nx[n]]
    <3>1. g[n] = IF n \in B THEN n ELSE f[nx[n]]
      BY <2>1
    <3>2. n \notin B => g[nx[n]] = f[nx[n]]
      <4>1. n \notin B => nx[n] \in S /\ t[nx[n]] <= m
        BY <2>2
      <4> QED BY <4>1
    <3> HIDE DEF g
    <3> QED BY <3>1, <3>2
  <2> HIDE DEF g
  <2>3. Good(g, m + 1)
    BY <2>2
  <2> QED BY <2>3
<1>3. \A m \in Nat : m \in Z
  <2> HIDE DEF Z
  <2> QED BY <1>1, <1>2, ClimbTo
<1>4. PICK f : Good(f, top)
  BY <1>3
<1> DEFINE g == [n \in S |-> f[n]]
<1>5. g = [n \in S |-> IF n \in B THEN n ELSE g[nx[n]]]
  BY <1>4
<1> QED BY <1>5 DEF Descends

(* The way down ends at the leaf that has room for the key.                *)
LEMMA LocateIs ==
  ASSUME NEW t, NEW lo, NEW hi, NEW c, Tree(heap, root, NULL, c, t, lo, hi),
         \A n \in Inners(heap) : heap[n].keys # <<>>, NEW k \in Keys
  PROVE  Locate(k) \in Leaves(heap) /\ Within(lo, hi, Locate(k), k)
<1> DEFINE nx == [n \in Live |-> heap[n].kids[KidFor(heap[n], k)]]
           B == Leaves(heap)
           F == CHOOSE f : f = [n \in Live |-> IF heap[n].outer THEN n
                                               ELSE f[heap[n].kids[KidFor(heap[n], k)]]]
<1>1. Live = Alive(heap) /\ k \in Nat
  BY MapAssumption DEF Live, Alive
<1>2. /\ t \in [NodeIds -> Nat] /\ root \in Alive(heap) /\ \A n \in Alive(heap) : t[n] <= t[root]
      /\ lo[root] = 0 /\ hi[root] = 0
  BY DEF Tree, Shape, Placed, Ordered, Upper
<1>3. \A n \in Live : t[n] \in Nat /\ t[n] <= t[root] /\ t[root] \in Nat
  BY <1>1, <1>2 DEF Alive
<1>4. ASSUME NEW n \in Live, n \notin B
      PROVE  nx[n] \in Live /\ t[nx[n]] + 1 = t[n] /\ (Within(lo, hi, n, k) => Within(lo, hi, nx[n], k))
  <2>1. n \in Inners(heap) /\ nx[n] = heap[n].kids[KidFor(heap[n], k)]
    BY <1>1, <1>4 DEF Inners, Leaves
  <2>2. Further(heap, t, lo, hi, n, k, heap[n].kids[KidFor(heap[n], k)])
    BY <1>1, <2>1, KidForWithin
  <2> QED BY <1>1, <2>1, <2>2 DEF Further
<1>5. \A n \in Live : heap[n].outer <=> n \in B
  BY <1>1 DEF Leaves
<1> HIDE DEF B, nx
<1>6. Descends(Live, B, nx)
  <2>1. root \in Live
    BY <1>1, <1>2
  <2>2. t[root] \in Nat /\ \A n \in Live : t[n] \in Nat /\ t[n] <= t[root]
    BY <1>3, <2>1
  <2>3. \A n \in Live : n \notin B => nx[n] \in Live /\ t[nx[n]] + 1 = t[n]
    BY <1>4
  <2> QED BY <2>2, <2>3, Descent
<1>7. F = [n \in Live |-> IF heap[n].outer THEN n ELSE F[heap[n].kids[KidFor(heap[n], k)]]]
  <2>1. PICK f : f = [n \in Live |-> IF n \in B THEN n ELSE f[nx[n]]]
    BY <1>6 DEF Descends
  <2>2. f = [n \in Live |-> IF heap[n].outer THEN n ELSE f[heap[n].kids[KidFor(heap[n], k)]]]
    BY <1>5, <2>1 DEF nx
  <2> QED BY <2>2
<1>8. Locate(k) = F[root]
  BY DEF Locate
<1> HIDE DEF F
<1>9. \A n \in Live : F[n] = IF n \in B THEN n ELSE F[nx[n]]
  BY <1>5, <1>7 DEF nx
<1> DEFINE Z == {m \in Nat : \A n \in Live : t[n] <= m /\ Within(lo, hi, n, k)
                     => F[n] \in B /\ Within(lo, hi, F[n], k)}
<1>10. 0 \in Z
  <2>1. ASSUME NEW n \in Live, t[n] <= 0 PROVE n \in B
    <3>1. SUFFICES ASSUME n \notin B PROVE FALSE
      OBVIOUS
    <3>2. nx[n] \in Live /\ t[nx[n]] + 1 = t[n]
      BY <1>4, <3>1
    <3> QED BY <1>3, <2>1, <3>2
  <2> QED BY <1>9, <2>1
<1>11. ASSUME NEW m \in Nat, m \in Z PROVE m + 1 \in Z
  <2>1. SUFFICES ASSUME NEW n \in Live, t[n] <= m + 1, Within(lo, hi, n, k)
                 PROVE  F[n] \in B /\ Within(lo, hi, F[n], k)
    OBVIOUS
  <2>2. CASE n \in B
    BY <1>9, <2>1, <2>2
  <2>3. CASE n \notin B
    <3>1. nx[n] \in Live /\ t[nx[n]] + 1 = t[n] /\ Within(lo, hi, nx[n], k)
      BY <1>4, <2>1, <2>3
    <3>2. t[nx[n]] <= m
      BY <1>3, <2>1, <3>1
    <3> QED BY <1>9, <1>11, <2>3, <3>1, <3>2
  <2> QED BY <2>2, <2>3
<1>12. \A m \in Nat : m \in Z
  <2> HIDE DEF Z
  <2> QED BY <1>10, <1>11, ClimbTo
<1>13. Within(lo, hi, root, k) /\ root \in Live /\ t[root] \in Nat
  BY <1>1, <1>2, <1>3 DEF Within, Under
<1> QED BY <1>8, <1>12, <1>13 DEF B

(***************************************************************************)
(* How full nodes are.                                                     *)
(***************************************************************************)
NodeFilled(x, top, loose) ==
  /\ ~IsFull(x)
  /\ x.outer =>
       /\ top => x.keys # <<>>
       /\ ~top /\ ~loose => ~IsSparse(x)
       /\ loose => top \/ Len(x.keys) + 1 >= OuterFanout \div 2
  /\ ~x.outer /\ ~loose => x.keys # <<>>

(* How full the nodes are, said node by node.                              *)
LEMMA FilledIs ==
  ASSUME NEW h, NEW r, NEW c
  PROVE  Filled(h, r, c) <=> \A n \in Alive(h) : NodeFilled(h[n], n = r, n = c)
BY DEF Filled, NodeFilled, Leaves, Inners

LEMMA SameFill ==
  ASSUME NEW x, NEW y, y.outer = x.outer, y.keys = x.keys, NEW top, NEW loose, NodeFilled(x, top, loose)
  PROVE  NodeFilled(y, top, loose)
BY DEF NodeFilled, IsFull, IsSparse, Fanout

LEMMA Lengths ==
  ASSUME NEW x \in Node
  PROVE  /\ Len(x.keys) \in Nat /\ (x.keys # <<>> <=> Len(x.keys) >= 1)
         /\ Fanout(x) \in Nat /\ Fanout(x) \div 2 \in Nat /\ Fanout(x) \div 2 >= 1
         /\ x.outer => Fanout(x) = OuterFanout /\ Fanout(x) \div 2 >= 2
         /\ ~x.outer => Fanout(x) = InnerFanout
         /\ 2 * (Fanout(x) \div 2) <= Fanout(x)
<1>1. x.keys \in Seq(Keys)
  BY DEF Node
<1>2. Len(x.keys) \in Nat /\ (x.keys # <<>> <=> Len(x.keys) >= 1)
  BY <1>1
<1>3. CASE x.outer
  <2>1. Fanout(x) = OuterFanout
    BY <1>3 DEF Fanout
  <2> QED BY <1>2, <1>3, <2>1, MapAssumption
<1>4. CASE ~x.outer
  <2>1. Fanout(x) = InnerFanout
    BY <1>4 DEF Fanout
  <2> QED BY <1>2, <1>4, <2>1, MapAssumption
<1> QED BY <1>3, <1>4

(* A node in good order may be looked at for rebalancing.                  *)
LEMMA Loosened ==
  ASSUME NEW x \in Node, NEW top \in BOOLEAN, NodeFilled(x, top, FALSE)
  PROVE  NodeFilled(x, top, TRUE)
<1>1. ~IsSparse(x) => Len(x.keys) + 1 >= Fanout(x) \div 2
  BY Lengths DEF IsSparse
<1>2. x.outer => Fanout(x) = OuterFanout
  BY DEF Fanout
<1> QED BY <1>1, <1>2 DEF NodeFilled

LEMMA Tightened ==
  ASSUME NEW x \in Node, NEW top \in BOOLEAN, NodeFilled(x, top, TRUE), ~IsSparse(x)
  PROVE  NodeFilled(x, top, FALSE)
<1>1. Len(x.keys) >= 1 /\ x.keys # <<>>
  BY Lengths DEF IsSparse
<1> QED BY <1>1 DEF NodeFilled

(* The kid that takes the place of a root without keys.                    *)
LEMMA FilledAtRoot ==
  ASSUME NEW x \in Node, NodeFilled(x, FALSE, FALSE)
  PROVE  NodeFilled(x, TRUE, FALSE)
<1>1. ~IsSparse(x) => x.keys # <<>>
  BY Lengths DEF IsSparse
<1> QED BY <1>1 DEF NodeFilled

LEMMA LeafFilled ==
  ASSUME NEW x \in Node, x.outer, ~IsFull(x), ~IsSparse(x), NEW top \in BOOLEAN
  PROVE  NodeFilled(x, top, FALSE)
<1>1. x.keys # <<>>
  BY Lengths DEF IsSparse
<1> QED BY <1>1 DEF NodeFilled

LEMMA InnerFilled ==
  ASSUME NEW x \in Node, ~x.outer, Len(x.keys) >= 1, Len(x.keys) <= InnerFanout, NEW top, NEW loose
  PROVE  NodeFilled(x, top, loose)
<1>1. x.keys # <<>> /\ ~IsFull(x)
  BY Lengths DEF IsFull
<1> QED BY <1>1 DEF NodeFilled

(* A key more, if there is room for it, and a key less.                    *)
LEMMA FilledByOne ==
  ASSUME NEW x \in Node, NEW y \in Node, y.outer = x.outer, x.outer, Len(y.keys) = Len(x.keys) + 1,
         ~IsFull(y), NEW top \in BOOLEAN, NodeFilled(x, top, FALSE)
  PROVE  NodeFilled(y, top, FALSE)
<1>1. ~IsSparse(x) => ~IsSparse(y)
  BY Lengths DEF IsSparse, Fanout
<1>2. y.keys # <<>>
  BY Lengths
<1> QED BY <1>1, <1>2 DEF NodeFilled

LEMMA FilledLessOne ==
  ASSUME NEW x \in Node, NEW y \in Node, y.outer = x.outer, x.outer, Len(y.keys) = Len(x.keys) - 1,
         NEW top \in BOOLEAN, NodeFilled(x, top, FALSE), top => y.keys # <<>>
  PROVE  NodeFilled(y, top, TRUE)
<1>1. ~IsSparse(x) => Len(y.keys) + 1 >= OuterFanout \div 2
  <2>1. Fanout(x) = OuterFanout
    BY DEF Fanout
  <2> QED BY <2>1, Lengths DEF IsSparse
<1>2. ~IsFull(y)
  <2>1. Fanout(y) = Fanout(x)
    BY DEF Fanout
  <2> QED BY <2>1, Lengths DEF NodeFilled, IsFull
<1> QED BY <1>1, <1>2 DEF NodeFilled

(* Two that are merged: x is sparse, y is not longer by more than one.     *)
LEMMA FilledTogether ==
  ASSUME NEW x \in Node, NEW y \in Node, NEW z \in Node, y.outer = x.outer, z.outer = x.outer,
         IsSparse(x), Len(y.keys) <= Len(x.keys) + 1, NodeFilled(y, FALSE, FALSE),
         Len(z.keys) = Len(x.keys) + Len(y.keys) + (IF x.outer THEN 0 ELSE 1)
  PROVE  NodeFilled(z, FALSE, FALSE)
<1> DEFINE a == Len(x.keys)
           b == Len(y.keys)
           c == Len(z.keys)
           f == Fanout(x)
           g == Fanout(x) \div 2
<1>1. Fanout(y) = f /\ Fanout(z) = f
  BY DEF Fanout
<1>2. a \in Nat /\ b \in Nat /\ f \in Nat /\ g \in Nat /\ 2 * g <= f /\ a < g /\ b <= a + 1
  BY Lengths DEF IsSparse
<1> HIDE DEF a, b, c, f, g
<1>3. CASE x.outer
  <2>1. c = a + b
    BY <1>3, <1>2 DEF a, b, c
  <2>2. b >= g
    BY <1>1, <1>2, <1>3 DEF NodeFilled, IsSparse, b, g, f
  <2>3. ~(c > f) /\ ~(c < g)
    BY <1>2, <2>1, <2>2
  <2>4. ~IsFull(z) /\ ~IsSparse(z)
    BY <1>1, <2>3 DEF IsFull, IsSparse, c, f, g
  <2> QED BY <1>3, <2>4, LeafFilled
<1>4. CASE ~x.outer
  <2>1. c = a + b + 1
    BY <1>4 DEF a, b, c
  <2>2. f = InnerFanout
    BY <1>4 DEF f, Fanout
  <2>3. c >= 1 /\ c <= f
    BY <1>2, <2>1
  <2> QED BY <1>4, <2>2, <2>3, InnerFilled DEF c
<1> QED BY <1>3, <1>4

(* The leaves that have redistributed.                                     *)
LEMMA AliveIs ==
  ASSUME NEW h \in Heaps, NEW n \in Alive(h)
  PROVE  n \in NodeIds /\ h[n] \in Node
BY DEF Heaps, Alive

(***************************************************************************)
(* A tree between two calls, or in the loop of Erase with l the node       *)
(* looked at; and one with the node k beside c.                            *)
(***************************************************************************)
LEMMA StandingIs ==
  ASSUME NEW h, NEW r, NEW l, NEW c, NEW t, NEW lo, NEW hi, Tree(h, r, NULL, c, t, lo, hi),
         Filled(h, r, l)
  PROVE  Standing(h, r, l)
<1>1. Tree(h, r, NULL, NULL, t, lo, hi)
  BY TreeAtRest
<1> QED BY <1>1 DEF Standing

LEMMA PendingIs ==
  ASSUME NEW h, NEW r, NEW c, NEW k, NEW t, NEW lo, NEW hi, Tree(h, r, k, c, t, lo, hi),
         t[k] = t[c], NEW key \in Keys, hi[c] = key, k # NULL, k # c, c \in Alive(h),
         Filled(h, NULL, NULL)
  PROVE  Pending(h, r, c, k, key)
BY DEF Pending

(* A root that is a leaf is alone.                                         *)
LEMMA LoneLeaf ==
  ASSUME NEW h, NEW r, NEW c, NEW t, NEW lo, NEW hi, Tree(h, r, NULL, c, t, lo, hi), r \in Leaves(h)
  PROVE  Alive(h) = {r}
<1>1. /\ t \in [NodeIds -> Nat] /\ r \in Alive(h)
      /\ \A n \in Alive(h) : Placed(h, r, NULL, t, n)
  BY DEF Tree, Shape
<1>2. t[r] = 0
  BY <1>1 DEF Placed, Leaves
<1>3. ASSUME NEW n \in Alive(h) PROVE h[n].outer
  <2>1. t[n] \in Nat /\ t[n] <= t[r]
    BY <1>1 DEF Placed, Alive
  <2>2. t[n] = 0
    BY <1>2, <2>1
  <2> QED BY <1>1, <2>2 DEF Placed
<1>4. ASSUME NEW n \in Alive(h), n # r PROVE FALSE
  <2>1. n # NULL
    BY MapAssumption DEF Alive
  <2>2. h[n].parent \in Inners(h)
    BY <1>1, <1>4, <2>1 DEF Placed
  <2> QED BY <1>3, <2>2 DEF Inners
<1> QED BY <1>1, <1>4

LEMMA FilledAnywhere ==
  ASSUME NEW h \in Heaps, NEW r, NEW c, Filled(h, NULL, NULL)
  PROVE  Filled(h, r, NULL)
<1>1. ASSUME NEW m \in Alive(h) PROVE NodeFilled(h[m], m = r, m = NULL)
  <2>1. m \in NodeIds /\ h[m] \in Node /\ m # NULL
    BY AliveIs, MapAssumption
  <2>2. (m = NULL) = FALSE
    BY <2>1
  <2>3. NodeFilled(h[m], FALSE, FALSE)
    <3>1. NodeFilled(h[m], m = NULL, m = NULL)
      BY FilledIs
    <3> QED BY <2>2, <3>1
  <2>4. NodeFilled(h[m], TRUE, FALSE)
    BY <2>1, <2>3, FilledAtRoot
  <2>5. (m = r) = TRUE \/ (m = r) = FALSE
    OBVIOUS
  <2> QED BY <2>2, <2>3, <2>4, <2>5
<1> QED BY <1>1, FilledIs

LEMMA FilledBelow ==
  ASSUME NEW h \in Heaps, NEW r, Filled(h, r, NULL), NEW m \in Alive(h), m # r \/ ~h[m].outer
  PROVE  NodeFilled(h[m], FALSE, FALSE)
<1>1. m \in NodeIds /\ m # NULL
  BY AliveIs, MapAssumption
<1>2. (m = NULL) = FALSE
  BY <1>1
<1>3. NodeFilled(h[m], m = r, m = NULL)
  BY FilledIs
<1> QED BY <1>2, <1>3 DEF NodeFilled

(***************************************************************************)
(* Insertion.                                                              *)
(***************************************************************************)
Takes(h, s, r, n, k) ==
  /\ s \in Heaps /\ n \in Leaves(s) /\ Alive(s) = Alive(h) /\ Held(s) = Held(h) \cup {k}
  /\ Len(s[n].keys) = Len(h[n].keys) + 1
  /\ \E t, lo, hi : Tree(s, r, NULL, NULL, t, lo, hi)
  /\ \A m \in Alive(h) \ {n} : s[m] = h[m]

(* The leaf that is located takes the key.                                 *)
LEMMA LeafTakes ==
  ASSUME NEW h, NEW r, NEW t, NEW lo, NEW hi, Tree(h, r, NULL, NULL, t, lo, hi),
         NEW n \in Leaves(h), NEW k \in Keys, Within(lo, hi, n, k), k \notin Held(h)
  PROVE  Takes(h, OuterInsert(h, n, k), r, n, k)
<1> DEFINE s == OuterInsert(h, n, k)
<1>1. h \in Heaps /\ Len(h[n].values) = Len(h[n].keys)
  BY DEF Tree, Shape
<1>2. Ascending(h[n].keys)
  BY KeysWithin
<1>3. PICK i \in 1..(Len(h[n].keys) + 1) : InsertedLeaf(h, s, n, i, k)
  BY <1>1, <1>2, OuterInsertIs
<1> HIDE DEF s
<1>4. \A j \in 1..Len(h[n].keys) : h[n].keys[j] # k
  <2>1. \A j \in 1..Len(h[n].keys) : h[n].keys[j] \in Held(h)
    BY <1>1, HeldIs DEF Elements
  <2> QED BY <2>1
<1>5. Tree(s, r, NULL, NULL, t, lo, hi) /\ Held(s) = Held(h) \cup {k}
      /\ Len(s[n].keys) = Len(h[n].keys) + 1
  <2>1. lo[n] <= k /\ Under(k, hi[n])
    BY DEF Within
  <2> QED BY <1>3, <1>4, <2>1, InsertKeepsTree
<1>6. LeafChange(h, s, n)
  BY <1>3 DEF InsertedLeaf
<1>7. s \in Heaps /\ \A m \in NodeIds \ {n} : s[m] = h[m]
  BY <1>6 DEF LeafChange
<1>8. Alive(s) = Alive(h) /\ Leaves(s) = Leaves(h)
  BY <1>6, LeafChangeAlive
<1>9. \A m \in Alive(h) \ {n} : s[m] = h[m]
  BY <1>7 DEF Alive
<1> QED BY <1>5, <1>7, <1>8, <1>9 DEF Takes, s

(* Insert into a leaf that has room for it ...                             *)
LEMMA InsertStands ==
  ASSUME NEW h, NEW r, NEW n, NEW k, NEW s, Takes(h, s, r, n, k), Filled(h, r, NULL),
         h \in Heaps, n \in Leaves(h), ~IsFull(s[n])
  PROVE  Standing(s, r, NULL)
<1>1. /\ s \in Heaps /\ n \in Leaves(s) /\ Alive(s) = Alive(h)
      /\ Len(s[n].keys) = Len(h[n].keys) + 1
      /\ \E t, lo, hi : Tree(s, r, NULL, NULL, t, lo, hi)
      /\ \A m \in Alive(h) \ {n} : s[m] = h[m]
  BY DEF Takes
<1>2. n \in Alive(h) /\ h[n].outer /\ s[n].outer /\ n \in NodeIds
  BY <1>1 DEF Leaves, Alive
<1>3. h[n] \in Node /\ s[n] \in Node
  BY <1>1, <1>2, AliveIs
<1>4. s[n].outer = h[n].outer
  BY <1>2, <1>3 DEF Node
<1>5. n # NULL
  BY <1>2, MapAssumption
<1>6. NodeFilled(h[n], n = r, FALSE)
  <2>1. NodeFilled(h[n], n = r, n = NULL)
    BY <1>2, FilledIs
  <2>2. (n = NULL) = FALSE
    BY <1>5
  <2> QED BY <2>1, <2>2
<1>7. NodeFilled(s[n], n = r, FALSE)
  <2>1. (n = r) \in BOOLEAN
    OBVIOUS
  <2> QED BY <1>1, <1>2, <1>3, <1>4, <1>6, <2>1, FilledByOne
<1>8. Filled(s, r, NULL)
  <2>1. ASSUME NEW m \in Alive(s) PROVE NodeFilled(s[m], m = r, m = NULL)
    <3>1. CASE m = n
      <4>1. (m = NULL) = FALSE
        BY <1>5, <3>1
      <4> QED BY <1>7, <3>1, <4>1
    <3>2. CASE m # n
      <4>1. NodeFilled(h[m], m = r, m = NULL)
        BY <1>1, FilledIs
      <4>2. s[m] = h[m]
        BY <1>1, <3>2
      <4> QED BY <4>1, <4>2
    <3> QED BY <3>1, <3>2
  <2> QED BY <2>1, FilledIs
<1> QED BY <1>1, <1>8 DEF Standing

(* ... and into one that has to be divided.                                *)
LEMMA SplitPends ==
  ASSUME NEW h, NEW r, NEW n, NEW k, NEW s, Takes(h, s, r, n, k), Filled(h, r, NULL),
         h \in Heaps, n \in Leaves(h), IsFull(s[n]), NEW new \in NodeIds, h[new] = Freed,
         NEW g, g = OuterSplit(s, n, new)
  PROVE  Pending(g, r, n, new, g[new].keys[1]) /\ Content(g) = Content(s)
<1>1. /\ s \in Heaps /\ n \in Leaves(s) /\ Alive(s) = Alive(h)
      /\ Len(s[n].keys) = Len(h[n].keys) + 1
      /\ \E t, lo, hi : Tree(s, r, NULL, NULL, t, lo, hi)
      /\ \A m \in Alive(h) \ {n} : s[m] = h[m]
  BY DEF Takes
<1>2. n \in Alive(h) /\ h[n].outer /\ s[n].outer /\ n \in NodeIds
  BY <1>1 DEF Leaves, Alive
<1>3. h[n] \in Node /\ s[n] \in Node
  BY <1>1, <1>2, AliveIs
<1>4. n # NULL /\ new # NULL /\ new \notin Alive(h) /\ s[new] = Freed
  BY <1>1, <1>2, MapAssumption DEF Alive
<1>5. Len(s[n].keys) = OuterFanout + 1
  <2>1. NodeFilled(h[n], n = r, n = NULL)
    BY <1>2, FilledIs
  <2>2. ~IsFull(h[n])
    BY <2>1 DEF NodeFilled
  <2> DEFINE a == Len(h[n].keys)
             b == Len(s[n].keys)
  <2>3. a \in Nat /\ b \in Nat /\ b = a + 1 /\ OuterFanout \in Nat
    BY <1>1, <1>3, Lengths, MapAssumption
  <2>4. ~(a > OuterFanout) /\ b > OuterFanout
    BY <1>2, <2>2 DEF IsFull, Fanout
  <2> HIDE DEF a, b
  <2>5. b = OuterFanout + 1
    BY <2>3, <2>4
  <2> QED BY <2>5 DEF b
<1>6. PICK t, lo, hi : Tree(s, r, NULL, NULL, t, lo, hi)
  BY <1>1
<1>7. DividedLeaf(s, g, n, new) /\ \A m \in {n, new} : ~IsFull(g[m]) /\ ~IsSparse(g[m])
  BY <1>1, <1>4, <1>5, <1>6, OuterSplitDivides
<1> DEFINE v == g[new].keys[1]
           t2 == [t EXCEPT ![new] = 0]
           lo2 == [lo EXCEPT ![new] = v]
           hi2 == [hi EXCEPT ![n] = v, ![new] = hi[n]]
<1>8. Tree(g, r, new, n, t2, lo2, hi2) /\ v \in Keys /\ Content(g) = Content(s)
  <2>1. v = g[new].keys[1] /\ DividedLeaf(s, g, n, new)
    BY <1>7
  <2> HIDE DEF v
  <2>2. /\ Tree(g, r, new, n, [t EXCEPT ![new] = 0], [lo EXCEPT ![new] = v],
                [hi EXCEPT ![n] = v, ![new] = hi[n]])
        /\ v \in Keys /\ Content(g) = Content(s)
    <3>1. Tree(g, r, new, n, [t EXCEPT ![new] = 0], [lo EXCEPT ![new] = v],
                  [hi EXCEPT ![n] = v, ![new] = hi[n]])
      BY <1>6, <2>1, LeafSplitKeepsTree, Zenon
    <3>2. Content(g) = Content(s)
      BY <2>1, DividedLeafHolds
    <3>3. v \in Keys
      <4>1. g[new] \in Node /\ g[new].keys # <<>>
        BY <2>1 DEF DividedLeaf
      <4> QED BY <2>1, <4>1 DEF Node
    <3> QED BY <3>1, <3>2, <3>3
  <2> QED BY <2>2
<1>9. n # new /\ t \in [NodeIds -> Nat] /\ hi \in [NodeIds -> Nat] /\ t[n] = 0
  <2>1. n # new
    BY <1>2, <1>4
  <2> QED BY <1>1, <1>6, <2>1 DEF Tree, Shape, Ordered, Placed, Leaves
<1>10. t2[new] = t2[n] /\ hi2[n] = v
  BY <1>2, <1>9
<1>11. /\ Alive(g) = Alive(s) \cup {new}
       /\ \A m \in Alive(s) : g[m].outer = s[m].outer
       /\ \A m \in Alive(s) \ {n} : Body(g[m], s[m])
  BY <1>7, DividedLeafAlive
<1>12. g[n] \in Node /\ g[new] \in Node /\ g[n].outer /\ g[new].outer
  BY <1>7 DEF DividedLeaf
<1> HIDE DEF v, t2, lo2, hi2
<1>13. Filled(g, NULL, NULL)
  <2>1. ASSUME NEW m \in {n, new} PROVE NodeFilled(g[m], FALSE, FALSE)
    <3>1. g[m] \in Node /\ g[m].outer /\ ~IsFull(g[m]) /\ ~IsSparse(g[m])
      BY <1>7, <1>12
    <3> QED BY <3>1, LeafFilled
  <2>2. ASSUME NEW m \in Alive(g), m \notin {n, new} PROVE NodeFilled(g[m], FALSE, FALSE)
    <3>1. m \in Alive(h) /\ m \in Alive(s) /\ s[m] = h[m]
      BY <1>1, <1>11, <2>2
    <3>2. g[m].outer = h[m].outer /\ g[m].keys = h[m].keys
      BY <1>11, <2>2, <3>1 DEF Body
    <3>3. m # r \/ ~h[m].outer
      <4>1. SUFFICES ASSUME m = r, h[m].outer PROVE FALSE
        OBVIOUS
      <4>2. r \in Leaves(s)
        BY <3>1, <4>1 DEF Leaves
      <4>3. Alive(s) = {r}
        BY <1>6, <4>2, LoneLeaf
      <4> QED BY <1>1, <1>2, <2>2, <4>1, <4>3
    <3>4. NodeFilled(h[m], FALSE, FALSE)
      BY <3>1, <3>3, FilledBelow
    <3> QED BY <3>2, <3>4, SameFill
  <2>3. ASSUME NEW m \in Alive(g) PROVE NodeFilled(g[m], m = NULL, m = NULL)
    <3>1. m # NULL
      BY MapAssumption DEF Alive
    <3>2. (m = NULL) = FALSE
      BY <3>1
    <3>3. NodeFilled(g[m], FALSE, FALSE)
      BY <2>1, <2>2
    <3> QED BY <3>2, <3>3
  <2> QED BY <2>3, FilledIs
<1>14. n \in Alive(g)
  BY <1>1, <1>2, <1>11
<1>15. Pending(g, r, n, new, v)
  BY <1>4, <1>8, <1>9, <1>10, <1>13, <1>14, PendingIs
<1> QED BY <1>8, <1>15 DEF v

(* Update.                                                                 *)
LEMMA UpdateStands ==
  ASSUME NEW h, NEW r, Standing(h, r, NULL), NEW n \in Leaves(h), NEW i \in 1..Len(h[n].values),
         NEW s, s = UpdateLeaf(h, n, i)
  PROVE  Standing(s, r, NULL) /\ Held(s) = Held(h)
<1>1. PICK t, lo, hi : Tree(h, r, NULL, NULL, t, lo, hi)
  BY DEF Standing
<1>2. h \in Heaps
  BY <1>1 DEF Tree, Shape
<1>3. /\ Tree(s, r, NULL, NULL, t, lo, hi) /\ Held(s) = Held(h)
      /\ \A m \in NodeIds : s[m].keys = h[m].keys /\ s[m].outer = h[m].outer
      /\ Alive(s) = Alive(h)
  BY <1>1, <1>2, UpdateKeepsTree
<1>4. Filled(s, r, NULL)
  <2>1. ASSUME NEW m \in Alive(s) PROVE NodeFilled(s[m], m = r, m = NULL)
    <3>1. NodeFilled(h[m], m = r, m = NULL) /\ m \in NodeIds
      BY <1>3, FilledIs DEF Standing, Alive
    <3> QED BY <1>3, <3>1, SameFill
  <2> QED BY <2>1, FilledIs
<1> QED BY <1>3, <1>4 DEF Standing

(***************************************************************************)
(* The first key.                                                          *)
(***************************************************************************)
EmptyLeaf(x) == x \in Node /\ x.outer /\ x.keys = <<>> /\ x.values = <<>> /\ x.next = NULL

LEMMA NewLeafIsEmpty == EmptyLeaf(NewNode(TRUE))
BY NewNodeIs, Zenon DEF EmptyLeaf

LEMMA EmptyLeafStands ==
  ASSUME NEW h \in Heaps, NEW n \in NodeIds, \A m \in NodeIds \ {n} : h[m] = Freed,
         EmptyLeaf(h[n]), NEW z, z = [m \in NodeIds |-> 0]
  PROVE  Tree(h, n, NULL, NULL, z, z, z) /\ Leaves(h) = {n} /\ Alive(h) = {n} /\ Held(h) = {}
<1>1. /\ h[n] \in Node /\ h[n].outer /\ h[n].keys = <<>> /\ h[n].values = <<>>
      /\ h[n].next = NULL
  BY DEF EmptyLeaf
<1>2. Alive(h) = {n} /\ Leaves(h) = {n} /\ Inners(h) = {}
  BY <1>1, FreedAssumption DEF Alive, Leaves, Inners
<1>3. 1..Len(h[n].keys) = {} /\ Len(h[n].values) = Len(h[n].keys)
  BY <1>1
<1>0. z \in [NodeIds -> Nat] /\ z[n] = 0
  OBVIOUS
<1>4. Shape(h, n, NULL, z)
  <2>1. Placed(h, n, NULL, z, n)
    BY <1>0, <1>1 DEF Placed
  <2> QED BY <1>0, <1>2, <1>3, <2>1 DEF Shape
<1>5. Ordered(h, n, NULL, NULL, z, z, z)
  <2>1. Ranged(h[n], z[n], z[n])
    BY <1>0, <1>3 DEF Ranged, Under, Ascending
  <2>2. Upper(z, NULL, NULL) = z
    BY DEF Upper
  <2> QED BY <1>0, <1>2, <2>1, <2>2 DEF Ordered
<1>6. Chained(h, z, z)
  BY <1>0, <1>1, <1>2 DEF Chained
<1>7. Bounded(h, z)
  BY <1>0, <1>2 DEF Bounded
<1>8. Owned(h)
  BY <1>2, <1>3 DEF Owned
<1>9. Held(h) = {}
  BY <1>2, <1>3, HeldIs DEF Elements
<1> QED BY <1>2, <1>4, <1>5, <1>6, <1>7, <1>8, <1>9 DEF Tree

(* The first key of a map.                                                 *)
LEMMA FirstStands ==
  ASSUME NEW f \in Heaps, NEW n \in NodeIds, EmptyLeaf(f[n]), \A m \in NodeIds \ {n} : f[m] = Freed,
         NEW k \in Keys, NEW s, s = OuterInsert(f, n, k)
  PROVE  Standing(s, n, NULL) /\ Held(s) = {k}
<1> DEFINE z == [m \in NodeIds |-> 0]
<1>1. f[n] \in Node /\ f[n].outer /\ f[n].keys = <<>>
  BY DEF EmptyLeaf
<1>3. Tree(f, n, NULL, NULL, z, z, z) /\ Leaves(f) = {n} /\ Alive(f) = {n} /\ Held(f) = {}
  BY EmptyLeafStands, Zenon
<1>4. Within(z, z, n, k)
  BY MapAssumption DEF Within, Under
<1>5. Takes(f, s, n, n, k)
  <2>1. n \in Leaves(f) /\ k \notin Held(f) /\ s = OuterInsert(f, n, k)
    BY <1>3
  <2> HIDE DEF z
  <2> QED BY <1>3, <1>4, <2>1, LeafTakes
<1>6. /\ s \in Heaps /\ n \in Leaves(s) /\ Alive(s) = {n}
      /\ Len(s[n].keys) = 1 /\ Held(s) = {k}
      /\ \E t, lo, hi : Tree(s, n, NULL, NULL, t, lo, hi)
  <2> HIDE DEF z
  <2>1. f[n].keys = <<>>
    BY <1>1
  <2>2. Len(f[n].keys) = 0
    BY <2>1
  <2>3. Len(s[n].keys) = 1
    BY <1>5, <2>2 DEF Takes
  <2> QED BY <1>3, <1>5, <2>3 DEF Takes
<1> HIDE DEF z
<1>7. Filled(s, n, NULL)
  <2>1. s[n] \in Node /\ s[n].outer
    BY <1>6, AliveIs DEF Leaves
  <2>2. s[n].keys # <<>> /\ ~IsFull(s[n])
    <3>1. ~(Len(s[n].keys) > OuterFanout)
      <4>1. Len(s[n].keys) = 1
        BY <1>6
      <4>2. OuterFanout \in Nat /\ OuterFanout >= 4
        BY MapAssumption
      <4> QED BY ONLY <4>1, <4>2
    <3>2. (s[n].keys # <<>> <=> Len(s[n].keys) >= 1) /\ Fanout(s[n]) = OuterFanout
      BY <2>1, Lengths
    <3>3. Len(s[n].keys) = 1
      BY <1>6
    <3>4. s[n].keys # <<>>
      BY ONLY <3>2, <3>3
    <3> QED BY ONLY <3>1, <3>2, <3>4 DEF IsFull
  <2>3. n # NULL
    BY MapAssumption
  <2>4. NodeFilled(s[n], n = n, n = NULL)
    BY <2>1, <2>2, <2>3 DEF NodeFilled
  <2> QED BY <1>6, <2>4, FilledIs
<1> QED BY <1>6, <1>7 DEF Standing

(***************************************************************************)
(* PropagateUpwards.                                                       *)
(***************************************************************************)
LEMMA RootStands ==
  ASSUME NEW h, NEW r, NEW k, NEW key, Pending(h, r, r, k, key), NEW n \in NodeIds, h[n] = Freed,
         NEW s, NewRoot(h, s, r, k, n, key)
  PROVE  Standing(s, n, NULL) /\ Content(s) = Content(h)
<1>1. PICK t, lo, hi : Tree(h, r, k, r, t, lo, hi) /\ t[k] = t[r] /\ hi[r] = key
  BY DEF Pending
<1>2. key \in Keys /\ k # NULL /\ k # r /\ r \in Alive(h) /\ Filled(h, NULL, NULL)
  BY DEF Pending
<1>3. h \in Heaps /\ k \in Alive(h)
  BY <1>1, <1>2 DEF Tree, Shape
<1> DEFINE t2 == [t EXCEPT ![n] = t[r] + 1]
           lo2 == [lo EXCEPT ![n] = 0]
           hi2 == [hi EXCEPT ![n] = 0]
<1>5. Tree(s, n, NULL, NULL, t2, lo2, hi2) /\ Content(s) = Content(h)
  BY <1>1, <1>2, NewRootKeepsTree
<1> HIDE DEF t2, lo2, hi2
<1>6. /\ n \notin Alive(h) /\ Alive(s) = Alive(h) \cup {n}
      /\ \A m \in Alive(h) : Body(s[m], h[m])
  BY NewRootAlive
<1>7. s[n] \in Node /\ ~s[n].outer /\ Len(s[n].keys) = 1
  BY DEF NewRoot
<1>8. Filled(s, n, NULL)
  <2>1. ASSUME NEW m \in Alive(h) PROVE NodeFilled(s[m], m = n, m = NULL)
    <3>1. m \in NodeIds /\ h[m] \in Node
      BY <1>3, AliveIs
    <3>2. (m = n) = FALSE /\ (m = NULL) = FALSE
      BY <1>6, <3>1, MapAssumption
    <3>3. NodeFilled(h[m], FALSE, FALSE)
      <4>1. NodeFilled(h[m], m = NULL, m = NULL)
        BY <1>2, FilledIs
      <4> QED BY <3>2, <4>1
    <3>4. s[m].outer = h[m].outer /\ s[m].keys = h[m].keys
      BY <1>6 DEF Body
    <3>5. NodeFilled(s[m], FALSE, FALSE)
      BY <3>3, <3>4, SameFill
    <3> QED BY <3>2, <3>5
  <2>3. NodeFilled(s[n], n = n, n = NULL)
    <3>1. Len(s[n].keys) >= 1 /\ Len(s[n].keys) <= InnerFanout
      <4>1. InnerFanout \in Nat /\ InnerFanout >= 3
        BY MapAssumption
      <4> QED BY <1>7, <4>1
    <3> QED BY <1>7, <3>1, InnerFilled
  <2> QED BY <1>6, <2>1, <2>3, FilledIs
<1> QED BY <1>5, <1>8 DEF Standing

(***************************************************************************)
(* The parent takes the new kid ...                                        *)
(***************************************************************************)
LEMMA InnerInsertAlive ==
  ASSUME NEW h, NEW s, NEW p, NEW i, NEW c, NEW k, NEW key, Linked(h, s, p, i, c, k, key)
  PROVE  /\ Alive(s) = Alive(h) /\ Len(s[p].keys) = Len(h[p].keys) + 1
         /\ \A m \in Alive(h) \ {p} : s[m].outer = h[m].outer /\ s[m].keys = h[m].keys
         /\ p \in Alive(h) /\ ~h[p].outer /\ ~s[p].outer /\ s[p] \in Node /\ h[p] \in Node
         /\ p \in NodeIds
<1>1. /\ h \in Heaps /\ p \in Inners(h)
      /\ s[p] \in Node /\ ~s[p].outer
      /\ InsertOf(h[p].keys, i, key, s[p].keys)
      /\ s[k] \in Node /\ Body(s[k], h[k])
      /\ \A m \in NodeIds \ {p, k} : s[m] = h[m]
  BY DEF Linked
<1>2. Alive(s) = Alive(h)
  BY LinkedAlive
<1>3. Len(s[p].keys) = Len(h[p].keys) + 1
  BY <1>1 DEF InsertOf
<1>4. p \in Alive(h) /\ ~h[p].outer
  BY <1>1 DEF Inners
<1>5. \A m \in Alive(h) \ {p} : s[m].outer = h[m].outer /\ s[m].keys = h[m].keys
  BY <1>1 DEF Alive, Body
<1> QED BY <1>1, <1>2, <1>3, <1>4, <1>5, AliveIs

LEMMA LinkStands ==
  ASSUME NEW h, NEW r, NEW c, NEW k, NEW key, Pending(h, r, c, k, key), c # r,
         NEW s, s = InnerInsert(h, h[c].parent, c, key, k)
  PROVE  /\ Linked(h, s, h[c].parent, KidIndex(h, h[c].parent, c), c, k, key)
         /\ \E t, lo, hi : Tree(s, r, NULL, NULL, t, lo, hi)
         /\ Content(s) = Content(h)
<1>1. PICK t, lo, hi : Tree(h, r, k, c, t, lo, hi) /\ t[k] = t[c] /\ hi[c] = key
  BY DEF Pending
<1>2. key \in Keys /\ k # NULL /\ k # c /\ c \in Alive(h) /\ Filled(h, NULL, NULL)
  BY DEF Pending
<1>3. h \in Heaps /\ k \in Alive(h) \ {r}
  BY <1>1, <1>2 DEF Tree, Shape
<1> DEFINE p == h[c].parent
<1>4. p \in Alive(h) /\ ~h[p].outer
  <2>1. c \notin {r, k}
    BY <1>2
  <2> QED BY <1>1, <1>2, <2>1, KidHasPlace
<1>5. h[p].keys # <<>>
  <2>1. p # NULL
    BY <1>4, MapAssumption DEF Alive
  <2>2. Filled(h, r, NULL)
    BY <1>2, <1>3, FilledAnywhere
  <2>3. NodeFilled(h[p], FALSE, FALSE)
    BY <1>3, <1>4, <2>2, FilledBelow
  <2> QED BY <1>4, <2>3 DEF NodeFilled
<1> HIDE DEF p
<1>6. Linked(h, s, p, KidIndex(h, p, c), c, k, key)
  BY <1>1, <1>2, <1>5, InnerInsertLinks DEF p
<1>7. Tree(s, r, NULL, NULL, t, lo, hi) /\ Content(s) = Content(h)
  BY <1>1, <1>2, <1>3, <1>6, LinkKeepsTree
<1> QED BY <1>6, <1>7 DEF p

(* The parent takes the new kid.                                           *)
LEMMA PropagateStands ==
  ASSUME NEW h, NEW r, NEW c, NEW k, NEW key, Pending(h, r, c, k, key), c # r,
         NEW p, p = h[c].parent,
         NEW s, s = InnerInsert(h, p, c, key, k), ~IsFull(s[p])
  PROVE  Standing(s, r, NULL) /\ Content(s) = Content(h)
<1>1. /\ Linked(h, s, p, KidIndex(h, p, c), c, k, key)
      /\ \E t, lo, hi : Tree(s, r, NULL, NULL, t, lo, hi)
      /\ Content(s) = Content(h)
  BY LinkStands
<1>2. /\ Alive(s) = Alive(h) /\ Len(s[p].keys) = Len(h[p].keys) + 1
      /\ \A m \in Alive(h) \ {p} : s[m].outer = h[m].outer /\ s[m].keys = h[m].keys
      /\ p \in Alive(h) /\ ~h[p].outer /\ ~s[p].outer /\ s[p] \in Node /\ h[p] \in Node
  BY <1>1, InnerInsertAlive
<1>3. h \in Heaps /\ s \in Heaps
  BY <1>1 DEF Linked
<1>4. Filled(h, NULL, NULL)
  BY DEF Pending
<1>5. s[p].keys # <<>>
  <2> DEFINE a == Len(h[p].keys)
             b == Len(s[p].keys)
  <2>1. a \in Nat /\ b = a + 1 /\ (s[p].keys # <<>> <=> b >= 1)
    BY <1>2, Lengths
  <2> HIDE DEF a, b
  <2> QED BY <2>1
<1>6. ASSUME NEW m \in Alive(s) PROVE NodeFilled(s[m], m = NULL, m = NULL)
  <2>1. CASE m = p
    BY <1>2, <1>5, <2>1 DEF NodeFilled
  <2>2. CASE m # p
    <3>1. NodeFilled(h[m], m = NULL, m = NULL)
      BY <1>2, <1>4, FilledIs
    <3> QED BY <1>2, <2>2, <3>1, SameFill
  <2> QED BY <2>1, <2>2
<1>7. Filled(s, NULL, NULL)
  BY <1>6, FilledIs
<1>8. Filled(s, r, NULL)
  BY <1>3, <1>7, FilledAnywhere
<1> QED BY <1>1, <1>8 DEF Standing

(* ... and is split if that is one too many.                               *)
LEMMA PropagateSplits ==
  ASSUME NEW h, NEW r, NEW c, NEW k, NEW key, Pending(h, r, c, k, key), c # r,
         NEW p, p = h[c].parent,
         NEW s, s = InnerInsert(h, p, c, key, k), IsFull(s[p]),
         NEW new \in NodeIds, s[new] = Freed,
         NEW g, g = InnerSplit(s, p, new)
  PROVE  Pending(g, r, p, new, s[p].keys[KeysLeft(s[p]) + 1]) /\ Content(g) = Content(h)
<1>1. /\ Linked(h, s, p, KidIndex(h, p, c), c, k, key)
      /\ \E t, lo, hi : Tree(s, r, NULL, NULL, t, lo, hi)
      /\ Content(s) = Content(h)
  BY LinkStands
<1>2. /\ Alive(s) = Alive(h) /\ Len(s[p].keys) = Len(h[p].keys) + 1
      /\ \A m \in Alive(h) \ {p} : s[m].outer = h[m].outer /\ s[m].keys = h[m].keys
      /\ p \in Alive(h) /\ ~h[p].outer /\ ~s[p].outer /\ s[p] \in Node /\ h[p] \in Node
      /\ p \in NodeIds
  BY <1>1, InnerInsertAlive
<1>3. h \in Heaps /\ s \in Heaps
  BY <1>1 DEF Linked
<1>4. Filled(h, NULL, NULL)
  BY DEF Pending
<1> DEFINE l == KeysLeft(s[p])
           n == Len(s[p].keys)
           up == s[p].keys[l + 1]
<1>5. n = InnerFanout + 1 /\ InnerFanout \in Nat /\ InnerFanout >= 3
  <2>1. NodeFilled(h[p], p = NULL, p = NULL)
    BY <1>2, <1>4, FilledIs
  <2>2. ~IsFull(h[p])
    BY <2>1 DEF NodeFilled
  <2> DEFINE a == Len(h[p].keys)
  <2>3. a \in Nat /\ n \in Nat /\ n = a + 1 /\ InnerFanout \in Nat /\ InnerFanout >= 3
    BY <1>2, Lengths, MapAssumption
  <2>4. ~(a > InnerFanout) /\ n > InnerFanout
    BY <1>2, <2>2 DEF IsFull, Fanout
  <2> HIDE DEF a, n
  <2> QED BY <2>3, <2>4
<1>6. l \in Nat /\ (2 * l = n \/ 2 * l = n + 1)
  <2>1. n \in Nat
    BY <1>2, Lengths
  <2> QED BY <2>1, KeysLeftIs
<1>7. l + 1 \in 1..n /\ l + 1 <= n /\ l >= 1 /\ l <= InnerFanout
      /\ n - (l + 1) >= 1 /\ n - (l + 1) <= InnerFanout
  <2> HIDE DEF l, n
  <2> QED BY <1>5, <1>6
<1>8. up \in Keys
  <2>1. s[p].keys \in Seq(Keys)
    BY <1>2 DEF Node
  <2> HIDE DEF l
  <2> QED BY <1>7, <2>1
<1>9. PICK t, lo, hi : Tree(s, r, NULL, NULL, t, lo, hi)
  BY <1>1
<1>10. p \in Inners(s)
  BY <1>2 DEF Inners
<1>11. DividedInner(s, g, p, new, up) /\ Len(g[p].keys) = l /\ Len(g[new].keys) = n - (l + 1)
  <2> HIDE DEF l
  <2>1. l = KeysLeft(s[p]) /\ l \in Nat /\ l + 1 <= Len(s[p].keys)
    BY <1>6, <1>7 DEF l
  <2>2. SplitInner(s, g, p, new, l)
    BY <1>2, <1>9, <1>10, <2>1, InnerSplitDivides
  <2> QED BY <2>2 DEF SplitInner
<1> DEFINE t2 == [t EXCEPT ![new] = t[p]]
           lo2 == [lo EXCEPT ![new] = up]
           hi2 == [hi EXCEPT ![p] = up, ![new] = hi[p]]
<1> HIDE DEF l, n, up
<1>12. Tree(g, r, new, p, t2, lo2, hi2) /\ Content(g) = Content(s)
  <2>1. up \in Nat
    BY <1>8, MapAssumption
  <2> QED BY <1>9, <1>11, <2>1, InnerSplitKeepsTree, Zenon
<1>13. new \notin Alive(s) /\ p # new /\ new # NULL
  BY <1>2, MapAssumption DEF Alive
<1>14. t2[new] = t2[p] /\ hi2[p] = up
  <2>1. t \in [NodeIds -> Nat] /\ hi \in [NodeIds -> Nat]
    BY <1>9 DEF Tree, Shape, Ordered
  <2> QED BY <1>2, <1>13, <2>1
<1> HIDE DEF t2, lo2, hi2
<1>15. /\ Alive(g) = Alive(s) \cup {new}
       /\ \A m \in Alive(s) : g[m].outer = s[m].outer
       /\ \A m \in Alive(s) \ {p} : Body(g[m], s[m])
  BY <1>11, DividedInnerAlive
<1>16. g[p] \in Node /\ g[new] \in Node /\ ~g[p].outer /\ ~g[new].outer
  BY <1>11 DEF DividedInner
<1>17. Filled(g, NULL, NULL)
  <2>1. ASSUME NEW m \in {p, new} PROVE NodeFilled(g[m], m = NULL, m = NULL)
    <3>1. g[m] \in Node /\ ~g[m].outer /\ Len(g[m].keys) >= 1 /\ Len(g[m].keys) <= InnerFanout
      BY <1>7, <1>11, <1>16
    <3> QED BY <3>1, InnerFilled
  <2>2. ASSUME NEW m \in Alive(g), m \notin {p, new} PROVE NodeFilled(g[m], m = NULL, m = NULL)
    <3>1. m \in Alive(h) /\ m \in Alive(s)
      BY <1>2, <1>15, <2>2
    <3>2. g[m].outer = h[m].outer /\ g[m].keys = h[m].keys
      BY <1>2, <1>15, <2>2, <3>1 DEF Body
    <3>3. NodeFilled(h[m], m = NULL, m = NULL)
      BY <1>4, <3>1, FilledIs
    <3> QED BY <3>2, <3>3, SameFill
  <2> QED BY <2>1, <2>2, FilledIs
<1>18. p \in Alive(g)
  BY <1>2, <1>15
<1>19. Pending(g, r, p, new, up)
  BY <1>8, <1>12, <1>13, <1>14, <1>17, <1>18, PendingIs
<1> QED BY <1>1, <1>12, <1>19 DEF up, l

(***************************************************************************)
(* Erasure.                                                                *)
(***************************************************************************)
Shortened(h, s, r, n, i) ==
  /\ Held(s) = Held(h) \ {h[n].keys[i]} /\ n \in Alive(s) /\ s \in Heaps
  /\ n # r \/ s[n].keys # <<>> => Standing(s, r, n)
  /\ n = r /\ s[n].keys = <<>> => [s EXCEPT ![n] = Freed] = [m \in NodeIds |-> Freed] /\ Held(s) = {}

(* Erase up to its loop.                                                   *)
LEMMA EraseStands ==
  ASSUME NEW h, NEW r, Standing(h, r, NULL), NEW n \in Leaves(h), NEW i \in 1..Len(h[n].keys),
         NEW s, s = OuterErase(h, n, i)
  PROVE  Shortened(h, s, r, n, i)
<1>1. PICK t, lo, hi : Tree(h, r, NULL, NULL, t, lo, hi)
  BY DEF Standing
<1>2. h \in Heaps /\ Len(h[n].values) = Len(h[n].keys)
  BY <1>1 DEF Tree, Shape
<1>3. RemovedLeaf(h, s, n, i)
  BY <1>2, OuterEraseIs
<1>4. /\ Tree(s, r, NULL, NULL, t, lo, hi) /\ Held(s) = Held(h) \ {h[n].keys[i]}
      /\ Len(s[n].keys) = Len(h[n].keys) - 1
  BY <1>1, <1>3, EraseKeepsTree
<1>5. LeafChange(h, s, n)
  BY <1>3 DEF RemovedLeaf
<1>6. Alive(s) = Alive(h) /\ Leaves(s) = Leaves(h) /\ (\A m \in Alive(h) \ {n} : s[m] = h[m])
      /\ s \in Heaps /\ s[n] \in Node /\ s[n].outer
  <2>1. Alive(s) = Alive(h) /\ Leaves(s) = Leaves(h) /\ \A m \in Alive(h) \ {n} : s[m] = h[m]
    BY <1>5, LeafChangeAlive
  <2> QED BY <1>5, <2>1 DEF LeafChange
<1>7. n \in Alive(h) /\ h[n].outer /\ h[n] \in Node /\ n \in NodeIds /\ n # NULL
  <2>1. n \in Alive(h) /\ h[n].outer
    BY DEF Leaves
  <2> QED BY <1>2, <2>1, AliveIs, MapAssumption
<1>8. ASSUME n # r \/ s[n].keys # <<>> PROVE Standing(s, r, n)
  <2>1. ASSUME NEW m \in Alive(s) PROVE NodeFilled(s[m], m = r, m = n)
    <3>1. NodeFilled(h[m], m = r, m = NULL) /\ m # NULL
      BY <1>6, FilledIs, MapAssumption DEF Standing, Alive
    <3>2. (m = NULL) = FALSE
      BY <3>1
    <3>3. CASE m = n
      <4>1. s[n].outer = h[n].outer
        BY <1>6, <1>7 DEF Node
      <4>2. NodeFilled(h[n], n = r, FALSE)
        BY <3>1, <3>2, <3>3
      <4>3. (n = r) \in BOOLEAN /\ ((n = r) => s[n].keys # <<>>)
        BY <1>8
      <4>4. NodeFilled(s[n], n = r, TRUE)
        BY <1>4, <1>6, <1>7, <4>1, <4>2, <4>3, FilledLessOne
      <4>5. (m = n) = TRUE
        BY <3>3
      <4> QED BY <3>3, <4>4, <4>5
    <3>4. CASE m # n
      <4>1. s[m] = h[m] /\ (m = n) = FALSE
        BY <1>6, <3>4
      <4> QED BY <3>1, <3>2, <4>1
    <3> QED BY <3>3, <3>4
  <2>2. Filled(s, r, n)
    BY <2>1, FilledIs
  <2> QED BY <1>4, <2>2 DEF Standing
<1>9. ASSUME n = r, s[n].keys = <<>>
      PROVE  [s EXCEPT ![n] = Freed] = [m \in NodeIds |-> Freed] /\ Held(s) = {}
  <2>1. r \in Leaves(s)
    BY <1>6, <1>9
  <2>2. Alive(s) = {n}
    BY <1>4, <1>9, <2>1, LoneLeaf
  <2>3. \A m \in NodeIds \ {n} : s[m] = Freed
    BY <2>2 DEF Alive
  <2>4. s = [m \in NodeIds |-> s[m]]
    BY <1>6 DEF Heaps
  <2>5. Leaves(s) = {n}
    BY <1>9, <2>1, <2>2 DEF Leaves
  <2>6. Held(s) = {}
    <3>1. 1..Len(s[n].keys) = {}
      BY <1>9
    <3> QED BY <1>6, <2>5, <3>1, HeldIs DEF Elements
  <2> QED BY <1>7, <2>3, <2>4, <2>6
<1> QED BY <1>4, <1>6, <1>7, <1>8, <1>9 DEF Shortened

LEMMA EnoughStands ==
  ASSUME NEW h, NEW r, NEW n \in Alive(h), Standing(h, r, n), n # r, ~IsSparse(h[n])
  PROVE  Standing(h, r, NULL)
<1>1. h \in Heaps
  BY DEF Standing, Tree, Shape
<1>2. ASSUME NEW m \in Alive(h) PROVE NodeFilled(h[m], m = r, m = NULL)
  <2>1. NodeFilled(h[m], m = r, m = n) /\ m # NULL /\ h[m] \in Node
    BY <1>1, FilledIs, AliveIs, MapAssumption DEF Standing
  <2>2. (m = NULL) = FALSE /\ (m = r) \in BOOLEAN
    BY <2>1
  <2>3. CASE m = n
    <3>1. (m = n) = TRUE
      BY <2>3
    <3>2. NodeFilled(h[m], m = r, TRUE)
      BY <2>1, <3>1
    <3>3. ~IsSparse(h[m])
      BY <2>3
    <3> QED BY <2>1, <2>2, <3>2, <3>3, Tightened
  <2>4. CASE m # n
    <3>1. (m = n) = FALSE
      BY <2>4
    <3> QED BY <2>1, <2>2, <3>1
  <2> QED BY <2>3, <2>4
<1>3. Filled(h, r, NULL)
  BY <1>2, FilledIs
<1> QED BY <1>3 DEF Standing

(* What is known of two siblings one of which is looked at.                *)
LookedAt(h, r, c, p, a, b) ==
  /\ a # r /\ b # r /\ p # c /\ h \in Heaps
  /\ \A m \in {a, b} : m \in Alive(h) /\ h[m] \in Node /\ m \in NodeIds
                        /\ NodeFilled(h[m], FALSE, m = c) /\ NodeFilled(h[m], FALSE, TRUE)
  /\ \A m \in Alive(h) \ {a, b} : NodeFilled(h[m], m = r, FALSE)
  /\ p \in Alive(h) /\ ~h[p].outer /\ h[p] \in Node /\ p \in NodeIds

LEMMA SiblingsFilled ==
  ASSUME NEW h, NEW r, NEW c, Standing(h, r, c), NEW p, NEW i, NEW a, NEW b, Siblings(h, p, i, a, b),
         c \in {a, b}
  PROVE  LookedAt(h, r, c, p, a, b)
<1>1. PICK t, lo, hi : Tree(h, r, NULL, NULL, t, lo, hi)
  BY DEF Standing
<1>2. h \in Heaps
  BY <1>1 DEF Tree, Shape
<1>3. /\ a \in Alive(h) /\ b \in Alive(h) /\ a # b /\ p \in Inners(h) /\ p # a /\ p # b
  BY DEF Siblings
<1>4. a # r /\ b # r
  <2>1. Parting(h, r, p, i, a, b, t, lo, hi)
    BY <1>1, PartingIs
  <2> QED BY <2>1 DEF Parting
<1>5. ASSUME NEW m \in Alive(h) PROVE NodeFilled(h[m], m = r, m = c) /\ h[m] \in Node /\ m \in NodeIds
  BY <1>2, FilledIs, AliveIs DEF Standing
<1>6. ASSUME NEW m \in {a, b} PROVE NodeFilled(h[m], FALSE, m = c) /\ NodeFilled(h[m], FALSE, TRUE)
  <2>1. (m = r) = FALSE /\ m \in Alive(h)
    BY <1>3, <1>4
  <2>2. NodeFilled(h[m], FALSE, m = c) /\ h[m] \in Node
    BY <1>5, <2>1
  <2>3. (m = c) = TRUE \/ (m = c) = FALSE
    OBVIOUS
  <2>4. FALSE \in BOOLEAN
    OBVIOUS
  <2> QED BY <2>2, <2>3, <2>4, Loosened
<1>7. ASSUME NEW m \in Alive(h) \ {a, b} PROVE NodeFilled(h[m], m = r, FALSE)
  <2>1. (m = c) = FALSE
    BY <1>7
  <2> QED BY <1>5, <2>1
<1>8. p \in Alive(h) /\ ~h[p].outer /\ p # c
  BY <1>3 DEF Inners
<1> QED BY <1>2, <1>3, <1>4, <1>5, <1>6, <1>7, <1>8 DEF LookedAt

(***************************************************************************)
(* The rounds of the loop in Erase.                                        *)
(***************************************************************************)

(* What a move between two siblings changes of the fill of the nodes.      *)
Shifted(h, s, a, b, p) ==
  /\ Alive(s) = Alive(h)
  /\ \A m \in {a, b} : s[m] \in Node /\ NodeFilled(s[m], FALSE, FALSE)
  /\ s[p] \in Node /\ ~s[p].outer /\ Len(s[p].keys) = Len(h[p].keys)
  /\ \A m \in Alive(h) \ {a, b, p} : s[m].outer = h[m].outer /\ s[m].keys = h[m].keys

LEMMA ShiftFills ==
  ASSUME NEW h, NEW r, NEW c, Standing(h, r, c), NEW p, NEW i, NEW a, NEW b, Siblings(h, p, i, a, b),
         c \in {a, b}, NEW s, Shifted(h, s, a, b, p)
  PROVE  Filled(s, r, NULL)
<1>1. /\ a # r /\ b # r /\ p # c /\ h \in Heaps
      /\ \A m \in Alive(h) \ {a, b} : NodeFilled(h[m], m = r, FALSE)
      /\ p \in Alive(h) /\ ~h[p].outer /\ h[p] \in Node /\ p \in NodeIds
  <2>1. LookedAt(h, r, c, p, a, b)
    BY SiblingsFilled
  <2> QED BY <2>1 DEF LookedAt
<1>2. ASSUME NEW m \in Alive(s) PROVE NodeFilled(s[m], m = r, m = NULL)
  <2>1. m # NULL /\ m \in Alive(h) /\ (m = NULL) = FALSE
    BY <1>2, MapAssumption DEF Alive, Shifted
  <2>2. CASE m \in {a, b}
    <3>1. NodeFilled(s[m], FALSE, FALSE)
      BY <2>2 DEF Shifted
    <3>2. (m = r) = FALSE
      BY <1>1, <2>2
    <3> QED BY <2>1, <3>1, <3>2
  <2>3. CASE m = p /\ m \notin {a, b}
    <3>1. s[p] \in Node /\ ~s[p].outer /\ Len(s[p].keys) = Len(h[p].keys)
      BY DEF Shifted
    <3>2. NodeFilled(h[p], p = r, FALSE)
      BY <1>1, <2>3
    <3>3. h[p].keys # <<>> /\ ~IsFull(h[p])
      BY <1>1, <3>2 DEF NodeFilled
    <3>4. Len(h[p].keys) >= 1 /\ Len(h[p].keys) <= InnerFanout
      <4>1. Len(h[p].keys) \in Nat /\ (h[p].keys # <<>> <=> Len(h[p].keys) >= 1)
            /\ Fanout(h[p]) = InnerFanout
        BY <1>1, Lengths
      <4> QED BY <3>3, <4>1, MapAssumption DEF IsFull
    <3>5. Len(s[p].keys) >= 1 /\ Len(s[p].keys) <= InnerFanout
      BY <3>1, <3>4
    <3>6. NodeFilled(s[p], m = r, m = NULL)
      BY <3>1, <3>5, InnerFilled
    <3> QED BY <2>3, <3>6
  <2>4. CASE m \notin {a, b, p}
    <3>1. s[m].outer = h[m].outer /\ s[m].keys = h[m].keys
      BY <2>1, <2>4 DEF Shifted
    <3>2. NodeFilled(h[m], m = r, FALSE)
      BY <1>1, <2>1, <2>4
    <3>3. NodeFilled(s[m], m = r, FALSE)
      BY <3>1, <3>2, SameFill
    <3> QED BY <2>1, <3>3
  <2> QED BY <2>2, <2>3, <2>4
<1> QED BY <1>2, FilledIs

(* The leaf that is looked at still has a key. *)
LEMMA LooseLeaf ==
  ASSUME NEW x \in Node, x.outer, NodeFilled(x, FALSE, TRUE)
  PROVE  Len(x.keys) + 1 >= OuterFanout \div 2 /\ x.keys # <<>> /\ ~IsFull(x)
<1>1. Len(x.keys) \in Nat /\ (x.keys # <<>> <=> Len(x.keys) >= 1) /\ Fanout(x) = OuterFanout
      /\ Fanout(x) \div 2 >= 2 /\ Fanout(x) \div 2 \in Nat
  BY Lengths
<1>2. Len(x.keys) + 1 >= OuterFanout \div 2 /\ ~IsFull(x)
  BY DEF NodeFilled
<1> QED BY <1>1, <1>2

LEMMA LeafMoveStands ==
  ASSUME NEW h, NEW r, NEW c, Standing(h, r, c), NEW p, NEW i, NEW a, NEW b, Siblings(h, p, i, a, b),
         c \in {a, b}, h[a].outer, MayRedistribute(h, a, b), NEW s, s = OuterRedistribute(h, a, b)
  PROVE  Standing(s, r, NULL) /\ Content(s) = Content(h) /\ Alive(s) = Alive(h) /\ Shifted(h, s, a, b, p)
<1>1. PICK t, lo, hi : Tree(h, r, NULL, NULL, t, lo, hi)
  BY DEF Standing
<1>2. /\ a # r /\ b # r /\ p # c /\ h \in Heaps
      /\ \A m \in {a, b} : m \in Alive(h) /\ h[m] \in Node /\ m \in NodeIds /\ NodeFilled(h[m], FALSE, TRUE)
      /\ p \in Alive(h) /\ ~h[p].outer /\ h[p] \in Node /\ p \in NodeIds
  <2>1. LookedAt(h, r, c, p, a, b)
    BY SiblingsFilled
  <2> QED BY <2>1 DEF LookedAt
<1>3. h[b].outer
  BY <1>1, SiblingLeaves
<1>4. \A m \in {a, b} : Len(h[m].keys) + 1 >= OuterFanout \div 2 /\ h[m].keys # <<>> /\ ~IsFull(h[m])
  BY <1>2, <1>3, LooseLeaf
<1>5. MovedElement(h, a, b, s)
  BY <1>1, <1>4, LeavesToMove
<1>6. (\E tt, low, high : Tree(s, r, NULL, NULL, tt, low, high)) /\ Content(s) = Content(h)
  <2>1. h[a].keys # <<>> /\ h[b].keys # <<>>
    BY <1>4
  <2> QED BY <1>1, <1>5, <2>1, LeafMoveKeepsTree
<1> DEFINE g == [s EXCEPT ![p] = Unlinked(h, p, i)[p]]
<1>7. Crossed(h, s, g, p, i, a, b)
  BY <1>1, <1>5, LeavesCross
<1> HIDE DEF g
<1>8. h[a].parent = p /\ p # a /\ p # b
  BY DEF Siblings
<1>9. Shifted(h, s, a, b, p)
  <2>1. Alive(s) = Alive(h) /\ s[p] \in Node /\ Len(s[p].keys) = Len(h[p].keys) /\ s[p].outer = h[p].outer
    BY <1>2, <1>7 DEF Crossed
  <2>2. \A m \in {a, b} : s[m] \in Node /\ s[m].outer /\ ~IsFull(s[m]) /\ ~IsSparse(s[m])
    BY <1>5 DEF MovedElement
  <2>3. \A m \in {a, b} : NodeFilled(s[m], FALSE, FALSE)
    BY <2>2 DEF NodeFilled
  <2>4. \A m \in NodeIds \ {a, b, p} : s[m] = h[m]
    BY <1>5, <1>8 DEF MovedElement
  <2>5. \A m \in Alive(h) : m \in NodeIds
    BY DEF Alive
  <2> QED BY <1>2, <2>1, <2>2, <2>3, <2>4, <2>5 DEF Shifted
<1>10. Filled(s, r, NULL)
  BY <1>9, ShiftFills
<1>11. Standing(s, r, NULL) /\ Alive(s) = Alive(h)
  BY <1>6, <1>9, <1>10 DEF Standing, Shifted
<1> QED BY <1>6, <1>9, <1>11

LEMMA InnerMoveStands ==
  ASSUME NEW h, NEW r, NEW c, Standing(h, r, c), NEW p, NEW i, NEW a, NEW b, Siblings(h, p, i, a, b),
         c \in {a, b}, ~h[a].outer, MayRedistribute(h, a, b), NEW s, s = InnerRedistribute(h, a, b)
  PROVE  Standing(s, r, NULL) /\ Content(s) = Content(h) /\ Alive(s) = Alive(h) /\ Shifted(h, s, a, b, p)
<1>1. PICK t, lo, hi : Tree(h, r, NULL, NULL, t, lo, hi)
  BY DEF Standing
<1>2. /\ a # r /\ b # r /\ p # c /\ h \in Heaps
      /\ \A m \in {a, b} : m \in Alive(h) /\ h[m] \in Node /\ m \in NodeIds /\ NodeFilled(h[m], FALSE, TRUE)
      /\ p \in Alive(h) /\ ~h[p].outer /\ h[p] \in Node /\ p \in NodeIds
  <2>1. LookedAt(h, r, c, p, a, b)
    BY SiblingsFilled
  <2> QED BY <2>1 DEF LookedAt
<1>3. InnerPair(h, p, i, a, b)
  BY <1>1, SiblingInners
<1>4. \A m \in {a, b} : Len(h[m].keys) <= InnerFanout
  <2>1. TAKE m \in {a, b}
  <2>2. h[m] \in Node /\ ~h[m].outer
    BY <1>3 DEF InnerPair
  <2>3. Len(h[m].keys) \in Nat /\ Fanout(h[m]) = InnerFanout
    BY <2>2, Lengths
  <2>4. ~IsFull(h[m])
    BY <1>2 DEF NodeFilled
  <2> QED BY <2>3, <2>4, MapAssumption DEF IsFull
<1>5. (\E e : MovedInner(h, a, b, p, i, s, e)) /\ Roomy(s[a]) /\ Roomy(s[b])
  BY <1>3, <1>4, InnersToMove
<1>6. PICK e : MovedInner(h, a, b, p, i, s, e)
  BY <1>5
<1>7. (\E tt, low, high : Tree(s, r, NULL, NULL, tt, low, high)) /\ Content(s) = Content(h)
  BY <1>1, <1>6, InnerMoveKeepsTree
<1> DEFINE g == [s EXCEPT ![p] = Unlinked(h, p, i)[p]]
<1>8. Unlinked(h, p, i)[p] \in Node
  <2>1. Linked(Unlinked(h, p, i), h, p, i, a, b, h[p].keys[i])
    BY <1>2, UnlinkedIs
  <2>2. Unlinked(h, p, i) \in Heaps /\ p \in Inners(Unlinked(h, p, i))
    BY <2>1 DEF Linked
  <2>3. p \in Alive(Unlinked(h, p, i))
    BY <2>2 DEF Inners
  <2> HIDE DEF g
  <2> QED BY <2>2, <2>3, AliveIs
<1>9. Crossed(h, s, g, p, i, a, b)
  BY <1>3, <1>6, <1>8, MovedInnerCrosses
<1> HIDE DEF g
<1>10. Shifted(h, s, a, b, p)
  <2>1. Alive(s) = Alive(h) /\ s[p] \in Node /\ Len(s[p].keys) = Len(h[p].keys) /\ s \in Heaps
    BY <1>9 DEF Crossed
  <2>2. \A m \in Alive(h) : s[m].outer = h[m].outer
    BY <1>9 DEF Crossed
  <2>3. \A m \in {a, b} : s[m] \in Node /\ ~s[m].outer
    <3>1. TAKE m \in {a, b}
    <3>2. m \in Alive(s) /\ s[m] \in Node
      BY <1>2, <2>1, AliveIs
    <3>3. ~h[m].outer
      BY <1>3 DEF InnerPair
    <3> QED BY <1>2, <2>2, <3>2, <3>3
  <2>4. \A m \in {a, b} : NodeFilled(s[m], FALSE, FALSE)
    BY <1>5, <2>3, InnerFilled DEF Roomy
  <2>5. ASSUME NEW m \in Alive(h) \ {a, b, p} PROVE s[m].keys = h[m].keys
    <3>1. m \in NodeIds \ {a, b, p}
      BY DEF Alive
    <3>2. CASE m \in Elements(s[b].kids)
      BY <1>6, <3>2 DEF MovedInner, Body
    <3>3. CASE m \in Elements(h[b].kids) \ Elements(s[b].kids)
      <4>1. s[m] = [h[m] EXCEPT !.parent = a]
        BY <1>6, <3>3 DEF MovedInner
      <4>2. h[m] \in Node
        BY <1>2, AliveIs
      <4> QED BY <4>1, <4>2 DEF Node
    <3>4. CASE m \notin Elements(h[b].kids) \cup Elements(s[b].kids)
      BY <1>6, <3>1, <3>4 DEF MovedInner
    <3> QED BY <3>2, <3>3, <3>4
  <2> QED BY <1>2, <2>1, <2>2, <2>3, <2>4, <2>5 DEF Shifted
<1>11. Filled(s, r, NULL)
  BY <1>10, ShiftFills
<1>12. Standing(s, r, NULL) /\ Alive(s) = Alive(h)
  BY <1>7, <1>10, <1>11 DEF Standing, Shifted
<1> QED BY <1>7, <1>10, <1>12

(* Redistribute: current has enough keys, and its sibling keeps enough.    *)
LEMMA MoveStands ==
  ASSUME NEW h, NEW r, NEW c, Standing(h, r, c), NEW p, NEW i, NEW a, NEW b, Siblings(h, p, i, a, b),
         c \in {a, b}, MayRedistribute(h, a, b), NEW s, s = Redistribute(h, a, b)
  PROVE  Standing(s, r, NULL) /\ Content(s) = Content(h) /\ Alive(s) = Alive(h) /\ Shifted(h, s, a, b, p)
<1>1. CASE h[a].outer
  <2>1. s = OuterRedistribute(h, a, b)
    BY <1>1 DEF Redistribute
  <2> QED BY <1>1, <2>1, LeafMoveStands
<1>2. CASE ~h[a].outer
  <2>1. s = InnerRedistribute(h, a, b)
    BY <1>2 DEF Redistribute
  <2> QED BY <1>2, <2>1, InnerMoveStands
<1> QED BY <1>1, <1>2

LEMMA ShrinkFills ==
  ASSUME NEW h, NEW r, NEW c, Standing(h, r, c), NEW p, NEW i, NEW a, NEW b, Siblings(h, p, i, a, b),
         c \in {a, b}, IsSparse(h[c]), ~MayRedistribute(h, a, b),
         NEW s, Shrunk(h, s, a, b, p, IF h[a].outer THEN 0 ELSE 1), h[b].outer = h[a].outer
  PROVE  Filled(s, r, p) /\ p \in Alive(s)
<1>1. LookedAt(h, r, c, p, a, b)
  BY SiblingsFilled
<1>2. /\ a # r /\ b # r /\ p # c /\ h \in Heaps
      /\ \A m \in {a, b} : m \in Alive(h) /\ h[m] \in Node /\ m \in NodeIds /\ NodeFilled(h[m], FALSE, m = c)
      /\ \A m \in Alive(h) \ {a, b} : NodeFilled(h[m], m = r, FALSE)
      /\ p \in Alive(h) /\ ~h[p].outer /\ h[p] \in Node /\ p \in NodeIds
  BY <1>1 DEF LookedAt
<1>3. a # b /\ p # a /\ p # b
  BY DEF Siblings
<1>4. /\ s \in Heaps /\ Alive(s) = Alive(h) \ {b}
      /\ s[a].outer = h[a].outer /\ ~s[p].outer /\ Len(s[p].keys) = Len(h[p].keys) - 1
      /\ Len(s[a].keys) = Len(h[a].keys) + Len(h[b].keys) + (IF h[a].outer THEN 0 ELSE 1)
      /\ \A m \in Alive(s) \ {a, p} : s[m].outer = h[m].outer /\ s[m].keys = h[m].keys
  BY DEF Shrunk
<1>5. s[a] \in Node /\ s[p] \in Node /\ a \in Alive(s) /\ p \in Alive(s)
  BY <1>2, <1>3, <1>4, AliveIs
<1>6. Len(h[a].keys) \in Nat /\ Len(h[b].keys) \in Nat
  BY <1>2, Lengths
<1>7. Len(h[a].keys) <= Len(h[b].keys) + 1 /\ Len(h[b].keys) <= Len(h[a].keys) + 1
  <2> DEFINE m == Len(h[a].keys)
             n == Len(h[b].keys)
  <2>1. m \in Nat /\ n \in Nat /\ ~(n >= m + 2) /\ ~(m >= n + 2)
    BY <1>6, Zenon DEF MayRedistribute
  <2> HIDE DEF m, n
  <2>2. m <= n + 1 /\ n <= m + 1
    BY <2>1
  <2> QED BY <2>2 DEF m, n
<1>8. NodeFilled(s[a], FALSE, FALSE)
  <2>1. CASE c = a
    <3>1. NodeFilled(h[b], FALSE, FALSE)
      <4>1. (b = c) = FALSE
        BY <1>3, <2>1
      <4> QED BY <1>2, <4>1
    <3>2. h[a] \in Node /\ h[b] \in Node /\ IsSparse(h[a])
      BY <1>2, <2>1
    <3> QED BY <1>4, <1>5, <1>7, <3>1, <3>2, FilledTogether
  <2>2. CASE c = b
    <3>1. NodeFilled(h[a], FALSE, FALSE)
      <4>1. (a = c) = FALSE
        BY <1>3, <2>2
      <4> QED BY <1>2, <4>1
    <3>2. h[a] \in Node /\ h[b] \in Node /\ IsSparse(h[b])
      BY <1>2, <2>2
    <3>3. Len(s[a].keys) = Len(h[b].keys) + Len(h[a].keys) + (IF h[b].outer THEN 0 ELSE 1)
      <4> DEFINE la == Len(h[a].keys)
                 lb == Len(h[b].keys)
                 more == IF h[a].outer THEN 0 ELSE 1
      <4>1. Len(s[a].keys) = la + lb + more /\ la \in Nat /\ lb \in Nat /\ more \in Nat
        BY <1>4, <1>6
      <4>2. more = IF h[b].outer THEN 0 ELSE 1
        BY DEF more
      <4> HIDE DEF la, lb, more
      <4>3. Len(s[a].keys) = lb + la + more
        BY <4>1
      <4> QED BY <4>2, <4>3 DEF la, lb
    <3>4. s[a].outer = h[b].outer
      BY <1>4
    <3> QED BY <1>5, <1>7, <3>1, <3>2, <3>3, <3>4, FilledTogether
  <2> QED BY <2>1, <2>2
<1>9. NodeFilled(s[p], p = r, TRUE)
  <2>1. NodeFilled(h[p], p = r, FALSE)
    BY <1>2, <1>3
  <2>2. ~IsFull(h[p])
    BY <2>1 DEF NodeFilled
  <2>3. ~IsFull(s[p])
    <3>1. Fanout(s[p]) = InnerFanout /\ Fanout(h[p]) = InnerFanout /\ Len(h[p].keys) \in Nat
      BY <1>2, <1>4, <1>5, Lengths
    <3> QED BY <1>4, <2>2, <3>1, MapAssumption DEF IsFull
  <2> QED BY <1>4, <2>3 DEF NodeFilled
<1>10. ASSUME NEW m \in Alive(s) PROVE NodeFilled(s[m], m = r, m = p)
  <2>1. CASE m = a
    <3>1. (m = r) = FALSE /\ (m = p) = FALSE
      BY <1>2, <1>3, <2>1
    <3> QED BY <1>8, <2>1, <3>1
  <2>2. CASE m = p
    <3>1. (m = p) = TRUE
      BY <2>2
    <3> QED BY <1>9, <2>2, <3>1
  <2>3. CASE m \notin {a, p}
    <3>1. s[m].outer = h[m].outer /\ s[m].keys = h[m].keys /\ m \in Alive(h) \ {a, b}
      BY <1>4, <2>3
    <3>2. NodeFilled(h[m], m = r, FALSE)
      BY <1>2, <3>1
    <3>3. NodeFilled(s[m], m = r, FALSE)
      BY <3>1, <3>2, SameFill
    <3>4. (m = p) = FALSE
      BY <2>3
    <3> QED BY <3>3, <3>4
  <2> QED BY <2>1, <2>2, <2>3
<1> QED BY <1>5, <1>10, FilledIs

(* Merge: the parent has lost a key and is looked at next.                 *)
LEMMA MergeStands ==
  ASSUME NEW h, NEW r, NEW c, Standing(h, r, c), NEW p, NEW i, NEW a, NEW b, Siblings(h, p, i, a, b),
         c \in {a, b}, IsSparse(h[c]), ~MayRedistribute(h, a, b), MayCoalesce(h, a, b),
         NEW s, s = Merge(h, a, b)
  PROVE  /\ Standing(s, r, p) /\ Content(s) = Content(h) /\ p \in Alive(s)
         /\ \E more : Shrunk(h, s, a, b, p, more)
<1>1. PICK t, lo, hi : Tree(h, r, NULL, NULL, t, lo, hi)
  BY DEF Standing
<1>2. \A m \in {a, b} : h[m] \in Node /\ NodeFilled(h[m], FALSE, TRUE)
  <2>1. LookedAt(h, r, c, p, a, b)
    BY SiblingsFilled
  <2> QED BY <2>1 DEF LookedAt
<1> DEFINE more == IF h[a].outer THEN 0 ELSE 1
<1>3. Remains(h, s, r, a, b, p, more) /\ h[b].outer = h[a].outer
  <2>1. CASE h[a].outer
    <3>1. h[b].outer = h[a].outer
      <4>1. h[a] \in Node /\ h[b] \in Node /\ h[b].outer
        BY <1>1, <1>2, <2>1, SiblingLeaves
      <4> QED BY <2>1, <4>1 DEF Node
    <3>2. h[a].keys # <<>> /\ h[b].keys # <<>>
      BY <1>2, <2>1, <3>1, LooseLeaf
    <3>3. Remains(h, s, r, a, b, p, 0)
      BY <1>1, <2>1, <3>2, LeafMergeKeepsTree
    <3>4. more = 0
      BY <2>1
    <3> QED BY <3>1, <3>3, <3>4
  <2>2. CASE ~h[a].outer
    <3>1. h[b].outer = h[a].outer
      <4>1. InnerPair(h, p, i, a, b)
        BY <1>1, <2>2, SiblingInners
      <4>2. h[a] \in Node /\ h[b] \in Node /\ ~h[b].outer
        BY <4>1 DEF InnerPair
      <4> QED BY <2>2, <4>2 DEF Node
    <3>2. Remains(h, s, r, a, b, p, 1)
      BY <1>1, <2>2, InnerMergeKeepsTree
    <3>3. more = 1
      BY <2>2
    <3> QED BY <3>1, <3>2, <3>3
  <2> QED BY <2>1, <2>2
<1>4. Filled(s, r, p) /\ p \in Alive(s)
  <2>1. Shrunk(h, s, a, b, p, IF h[a].outer THEN 0 ELSE 1)
    BY <1>3 DEF Remains
  <2> HIDE DEF more
  <2> QED BY <1>3, <2>1, ShrinkFills
<1> HIDE DEF more
<1>5. Standing(s, r, p) /\ Content(s) = Content(h)
  BY <1>3, <1>4 DEF Standing, Remains
<1>6. \E n : Shrunk(h, s, a, b, p, n)
  BY <1>3 DEF Remains
<1> QED BY <1>4, <1>5, <1>6

Ends(h, r) ==
  /\ ~h[r].outer /\ h[r].keys = <<>> =>
       LET m == h[r].kids[1]
           s == [h EXCEPT ![r] = Freed, ![m].parent = NULL]
       IN  m \in NodeIds /\ Standing(s, m, NULL) /\ Content(s) = Content(h)
  /\ ~(~h[r].outer /\ h[r].keys = <<>>) => Standing(h, r, NULL)

(* The loop ends at the root.                                              *)
LEMMA EndStands ==
  ASSUME NEW h, NEW r, Standing(h, r, r), r \in Alive(h)
  PROVE  Ends(h, r)
<1>1. PICK t, lo, hi : Tree(h, r, NULL, NULL, t, lo, hi)
  BY DEF Standing
<1>2. h \in Heaps /\ Shape(h, r, NULL, t)
  BY <1>1 DEF Tree, Shape
<1>3. \A m \in Alive(h) : NodeFilled(h[m], m = r, m = r) /\ h[m] \in Node /\ m # NULL
  BY <1>2, FilledIs, AliveIs, MapAssumption DEF Standing
<1>4. ASSUME ~h[r].outer, h[r].keys = <<>>, NEW m, m = h[r].kids[1],
             NEW s, s = [h EXCEPT ![r] = Freed, ![m].parent = NULL]
      PROVE  m \in NodeIds /\ Standing(s, m, NULL) /\ Content(s) = Content(h)
  <2>1. r \in Inners(h)
    BY <1>4 DEF Inners
  <2>2. DropRoot(h, s, r, m)
    BY <1>1, <1>4, <2>1, DropRootIs
  <2>3. Tree(s, m, NULL, NULL, t, lo, hi) /\ Content(s) = Content(h)
    BY <1>1, <2>2, DropRootKeepsTree
  <2>4. /\ m \in Alive(h) \ {r} /\ Alive(s) = Alive(h) \ {r}
        /\ \A n \in Alive(s) : Body(s[n], h[n])
    BY <1>2, <2>2, DropRootAlive
  <2>5. ASSUME NEW n \in Alive(s) PROVE NodeFilled(s[n], n = m, n = NULL)
    <3>1. n \in Alive(h) /\ n # r /\ s[n].outer = h[n].outer /\ s[n].keys = h[n].keys /\ h[n] \in Node
      BY <1>3, <2>4 DEF Body
    <3>2. (n = r) = FALSE /\ (n = NULL) = FALSE
      BY <1>3, <3>1
    <3>3. NodeFilled(h[n], FALSE, FALSE)
      BY <1>3, <3>1, <3>2
    <3>4. NodeFilled(s[n], FALSE, FALSE)
      BY <3>1, <3>3, SameFill
    <3>5. s[n] \in Node
      BY <2>3, AliveIs DEF Tree, Shape
    <3>6. NodeFilled(s[n], TRUE, FALSE)
      BY <3>4, <3>5, FilledAtRoot
    <3>7. (n = m) = TRUE \/ (n = m) = FALSE
      OBVIOUS
    <3> QED BY <3>2, <3>4, <3>6, <3>7
  <2>6. Filled(s, m, NULL)
    BY <2>5, FilledIs
  <2>7. m \in NodeIds
    BY <2>4 DEF Alive
  <2> QED BY <2>3, <2>6, <2>7, StandingIs
<1>5. ASSUME ~(~h[r].outer /\ h[r].keys = <<>>) PROVE Standing(h, r, NULL)
  <2>1. ASSUME NEW n \in Alive(h) PROVE NodeFilled(h[n], n = r, n = NULL)
    <3>1. (n = NULL) = FALSE
      BY <1>3
    <3>2. CASE n # r
      <4>1. (n = r) = FALSE
        BY <3>2
      <4> QED BY <1>3, <3>1, <4>1
    <3>3. CASE n = r
      <4>1. (n = r) = TRUE
        BY <3>3
      <4>2. NodeFilled(h[n], TRUE, TRUE)
        BY <1>3, <4>1
      <4>3. h[n].outer \/ h[n].keys # <<>>
        BY <1>5, <3>3
      <4>4. NodeFilled(h[n], TRUE, FALSE)
        BY <4>2, <4>3 DEF NodeFilled
      <4> QED BY <3>1, <4>1, <4>4
    <3> QED BY <3>2, <3>3
  <2>2. Filled(h, r, NULL)
    BY <2>1, FilledIs
  <2> QED BY <1>1, <2>2, StandingIs
<1> QED BY <1>4, <1>5 DEF Ends
=============================================================================
