-------------------------- MODULE BTreeNodeProofs ---------------------------
(***************************************************************************)
(* What the operations on nodes keep, whatever the fanouts and the keys.   *)
(* First the leaves: a split, a move and a merge leave the keys of the     *)
(* nodes they touch in the order they were in, each value with its key,    *)
(* the chain linked both ways, and every other node as it was. Then trees: *)
(* dividing a node, joining two, linking a kid, raising or dropping a root *)
(* and changing a leaf each make a tree of a tree, with the same content.  *)
(***************************************************************************)
EXTENDS BTreeInvariant, SequenceTheorems, TLAPS

(* A sequence that is cut in two, and one whose first or last element      *)
(* crosses to a neighbour.                                                 *)
LEMMA CutInTwo ==
  ASSUME NEW S, NEW s \in Seq(S), NEW i \in Nat, i <= Len(s)
  PROVE  /\ SubSeq(s, 1, i) \in Seq(S) /\ Len(SubSeq(s, 1, i)) = i
         /\ After(s, i) \in Seq(S) /\ Len(After(s, i)) = Len(s) - i
         /\ \A j \in 1..i : SubSeq(s, 1, i)[j] = s[j]
         /\ \A j \in 1..(Len(s) - i) : After(s, i)[j] = s[i + j]
         /\ SubSeq(s, 1, i) \o After(s, i) = s
<1> DEFINE n == Len(s)
<1>1. n \in Nat /\ s \in Seq(S) /\ (\A j \in 1..n : s[j] \in S)
  OBVIOUS
<1>2. /\ SubSeq(s, 1, i) \in Seq(S)
      /\ Len(SubSeq(s, 1, i)) = IF 1 <= i THEN i - 1 + 1 ELSE 0
      /\ \A j \in 1..(i - 1 + 1) : SubSeq(s, 1, i)[j] = s[1 + j - 1]
  <2>1. 1 \in Int /\ i \in Int /\ \A j \in 1..i : s[j] \in S
    BY <1>1
  <2> HIDE DEF n
  <2> QED BY <2>1, SubSeqProperties
<1>3. /\ SubSeq(s, i + 1, n) \in Seq(S)
      /\ Len(SubSeq(s, i + 1, n)) = IF i + 1 <= n THEN n - (i + 1) + 1 ELSE 0
      /\ \A j \in 1..(n - (i + 1) + 1) : SubSeq(s, i + 1, n)[j] = s[(i + 1) + j - 1]
  <2>1. i + 1 \in Int /\ n \in Int /\ \A j \in (i + 1)..n : s[j] \in S
    BY <1>1
  <2> HIDE DEF n
  <2> QED BY <2>1, SubSeqProperties
<1>4. SubSeq(s, 1, i) \o SubSeq(s, i + 1, n) = s
  <2>1. SubSeq(s, 1, i) \o SubSeq(s, i + 1, n) = SubSeq(s, 1, n)
    <3>1. 1 \in 1..(Len(s) + 1) /\ i \in (1 - 1)..Len(s) /\ n \in i..Len(s)
      BY <1>1
    <3> HIDE DEF n
    <3> QED BY <3>1, ConcatAdjacentSubSeq
  <2> QED BY <2>1, SubSeqFull
<1>5. After(s, i) = SubSeq(s, i + 1, n)
  BY DEF After
<1> HIDE DEF n
<1>6. /\ Len(SubSeq(s, 1, i)) = i /\ Len(After(s, i)) = n - i
      /\ \A j \in 1..i : SubSeq(s, 1, i)[j] = s[j]
      /\ \A j \in 1..(n - i) : After(s, i)[j] = s[i + j]
  <2>1. i <= n
    BY DEF n
  <2>2. \A j \in 1..i : j \in 1..(i - 1 + 1) /\ 1 + j - 1 = j
    BY <1>1
  <2>3. \A j \in 1..(n - i) : j \in 1..(n - (i + 1) + 1) /\ (i + 1) + j - 1 = i + j
    BY <1>1
  <2>4. Len(SubSeq(s, 1, i)) = i /\ Len(SubSeq(s, i + 1, n)) = n - i
    BY <1>1, <1>2, <1>3, <2>1
  <2>5. \A j \in 1..i : SubSeq(s, 1, i)[j] = s[j]
    BY <1>2, <2>2, Zenon
  <2>6. \A j \in 1..(n - i) : SubSeq(s, i + 1, n)[j] = s[i + j]
    BY <1>3, <2>3, Zenon
  <2> QED BY <1>5, <2>4, <2>5, <2>6, Zenon
<1> QED BY <1>2, <1>3, <1>4, <1>5, <1>6, Zenon DEF n

LEMMA HeadCrosses ==
  ASSUME NEW S, NEW s \in Seq(S), NEW t \in Seq(S), t # <<>>
  PROVE  /\ Append(s, Head(t)) \in Seq(S) /\ Len(Append(s, Head(t))) = Len(s) + 1
         /\ Tail(t) \in Seq(S) /\ Len(Tail(t)) = Len(t) - 1
         /\ Append(s, Head(t)) \o Tail(t) = s \o t
<1>1. Head(t) \in S /\ Tail(t) \in Seq(S) /\ Len(Tail(t)) = Len(t) - 1
  BY HeadTailProperties
<1>2. t = <<Head(t)>> \o Tail(t)
  OBVIOUS
<1>3. Append(s, Head(t)) = s \o <<Head(t)>> /\ <<Head(t)>> \in Seq(S)
  BY <1>1
<1>4. (s \o <<Head(t)>>) \o Tail(t) = s \o (<<Head(t)>> \o Tail(t))
  BY <1>1, <1>3, ConcatAssociative
<1>5. Append(s, Head(t)) \in Seq(S) /\ Len(Append(s, Head(t))) = Len(s) + 1
  BY <1>1, AppendProperties
<1> QED BY <1>1, <1>2, <1>3, <1>4, <1>5, Zenon

Recut(S, s, t, u, v) ==
  /\ u \in Seq(S) /\ Len(u) = Len(s) - 1
  /\ v \in Seq(S) /\ Len(v) = Len(t) + 1
  /\ u \o v = s \o t

LEMMA ThreeJoined ==
  ASSUME NEW T, NEW p \in Seq(T), NEW q \in Seq(T), NEW r \in Seq(T)
  PROVE  (p \o q) \o r = p \o (q \o r)
BY ConcatAssociative

LEMMA LastCrosses ==
  ASSUME NEW S, NEW s \in Seq(S), NEW t \in Seq(S), s # <<>>
  PROVE  Recut(S, s, t, Front(s), <<Last(s)>> \o t)
<1> DEFINE i == Len(s) - 1
<1>1. i \in Nat /\ i <= Len(s) /\ i + 1 = Len(s) /\ Len(s) \in 1..Len(s)
  OBVIOUS
<1>2. Last(s) \in S /\ Last(s) = s[i + 1]
  BY <1>1 DEF Last
<1> HIDE DEF i
<1>3. /\ SubSeq(s, 1, i) \in Seq(S) /\ Len(SubSeq(s, 1, i)) = i
      /\ After(s, i) \in Seq(S) /\ Len(After(s, i)) = Len(s) - i
      /\ \A j \in 1..(Len(s) - i) : After(s, i)[j] = s[i + j]
      /\ SubSeq(s, 1, i) \o After(s, i) = s
  BY <1>1, CutInTwo
<1>4. Front(s) = SubSeq(s, 1, i)
  BY Zenon DEF Front, i
<1>5. After(s, i) = <<Last(s)>>
  <2>1. Len(s) - i = 1 /\ 1 \in 1..(Len(s) - i)
    BY <1>1
  <2>2. After(s, i)[1] = Last(s) /\ Len(After(s, i)) = 1
    BY <1>2, <1>3, <2>1
  <2>3. ASSUME NEW u \in Seq(S), Len(u) = 1 PROVE u = <<u[1]>>
    BY <2>3
  <2> QED BY <1>3, <2>2, <2>3, Zenon
<1>6. <<Last(s)>> \in Seq(S) /\ Len(<<Last(s)>>) = 1
  BY <1>2
<1>7. <<Last(s)>> \o t \in Seq(S) /\ Len(<<Last(s)>> \o t) = Len(t) + 1
  <2> DEFINE l == <<Last(s)>>
  <2>1. l \in Seq(S) /\ Len(l) = 1 /\ Len(t) \in Nat
    BY <1>6
  <2> HIDE DEF l
  <2>2. l \o t \in Seq(S) /\ Len(l \o t) = Len(l) + Len(t)
    BY <2>1, ConcatProperties
  <2>3. Len(l) + Len(t) = Len(t) + 1
    BY <2>1
  <2> QED BY <2>2, <2>3, Zenon DEF l
<1>8. (SubSeq(s, 1, i) \o After(s, i)) \o t = SubSeq(s, 1, i) \o (After(s, i) \o t)
  <2>1. SubSeq(s, 1, i) \in Seq(S) /\ After(s, i) \in Seq(S)
    BY <1>3, Zenon
  <2>2. ASSUME NEW p \in Seq(S), NEW q \in Seq(S)
        PROVE  (p \o q) \o t = p \o (q \o t)
    BY ThreeJoined
  <2> QED BY <2>1, <2>2, Zenon
<1>9. Front(s) \o (<<Last(s)>> \o t) = s \o t
  BY <1>3, <1>4, <1>5, <1>8, Zenon
<1>10. Front(s) \in Seq(S) /\ Len(Front(s)) = Len(s) - 1
  BY <1>1, <1>3, <1>4
<1> QED BY <1>7, <1>9, <1>10, Zenon DEF Recut

(***************************************************************************)
(* The leaves.                                                             *)
(***************************************************************************)
LEMMA KeysLeftIs ==
  ASSUME NEW x, Len(x.keys) \in Nat
  PROVE  /\ KeysLeft(x) \in Nat
         /\ 2 * KeysLeft(x) = Len(x.keys) \/ 2 * KeysLeft(x) = Len(x.keys) + 1
<1>1. ASSUME NEW k \in Nat
      PROVE  /\ (k + 1) \div 2 \in Nat
             /\ 2 * ((k + 1) \div 2) = k \/ 2 * ((k + 1) \div 2) = k + 1
  OBVIOUS
<1> QED BY <1>1, Zenon DEF KeysLeft

SplitOf(h, n, new, s) ==
  LET x == h[n]
      left == KeysLeft(x)
  IN  /\ s = [m \in NodeIds |-> s[m]]
      /\ s[n] = [x EXCEPT !.keys = SubSeq(x.keys, 1, left),
                          !.values = SubSeq(x.values, 1, left), !.next = new]
      /\ s[new] = [NewNode(TRUE) EXCEPT !.keys = After(x.keys, left),
                                        !.values = After(x.values, left),
                                        !.parent = x.parent,
                                        !.next = x.next, !.previous = n]
      /\ x.next # NULL => s[x.next] = [h[x.next] EXCEPT !.previous = new]
      /\ \A m \in NodeIds \ {n, new, x.next} : s[m] = h[m]

LEMMA OuterSplitIs ==
  ASSUME NEW h \in Heaps, NEW n \in NodeIds, NEW new \in NodeIds, n # new, h[n] \in Node,
         h[n].next \notin {n, new}, h[n].next # NULL => h[h[n].next] \in Node
  PROVE  SplitOf(h, n, new, OuterSplit(h, n, new))
<1> DEFINE x == h[n]
           left == KeysLeft(x)
           low == [x EXCEPT !.keys = SubSeq(x.keys, 1, left),
                            !.values = SubSeq(x.values, 1, left), !.next = new]
           high == [NewNode(TRUE) EXCEPT !.keys = After(x.keys, left),
                                         !.values = After(x.values, left),
                                         !.parent = x.parent,
                                         !.next = x.next, !.previous = n]
           split == [h EXCEPT ![n].keys = SubSeq(@, 1, left),
                              ![n].values = SubSeq(@, 1, left),
                              ![n].next = new, ![new] = high]
           s == OuterSplit(h, n, new)
<1>1. s = IF x.next = NULL THEN split ELSE [split EXCEPT ![x.next].previous = new]
  BY Zenon DEF OuterSplit
<1>2. h = [m \in NodeIds |-> h[m]]
  BY DEF Heaps
<1>3. x.next \in NodeIds \cup {NULL}
  BY DEF Node
<1>4. /\ split = [m \in NodeIds |-> split[m]] /\ split[n] = low /\ split[new] = high
      /\ \A m \in NodeIds \ {n, new} : split[m] = h[m]
  <2> HIDE DEF high, left
  <2> QED BY <1>2 DEF Node
<1> HIDE DEF s, split, low, high
<1>5. CASE x.next = NULL
  BY <1>1, <1>4, <1>5 DEF s, low, high, SplitOf
<1>6. CASE x.next # NULL
  <2>1. s = [split EXCEPT ![x.next].previous = new]
    BY <1>1, <1>6
  <2>2. split[x.next] = h[x.next]
    BY <1>3, <1>4, <1>6
  <2>3. /\ s = [m \in NodeIds |-> s[m]] /\ s[n] = low /\ s[new] = high
        /\ s[x.next] = [h[x.next] EXCEPT !.previous = new]
        /\ \A m \in NodeIds \ {n, new, x.next} : s[m] = h[m]
    BY <1>3, <1>4, <1>6, <2>1, <2>2 DEF Node
  <2> QED BY <2>3 DEF s, low, high, SplitOf
<1> QED BY <1>5, <1>6

NewLeafOf(x, keys, values, parent, later, previous) ==
  /\ x \in Node /\ x.outer /\ x.keys = keys /\ x.values = values
  /\ x.parent = parent /\ x.next = later /\ x.previous = previous

LEMMA NextLeafIs ==
  ASSUME NEW ks \in Seq(Keys), NEW vs \in Seq(Values),
         NEW up \in NodeIds \cup {NULL}, NEW later \in NodeIds \cup {NULL},
         NEW before \in NodeIds \cup {NULL}, NEW x,
         x = [NewNode(TRUE) EXCEPT !.keys = ks, !.values = vs, !.parent = up,
                                   !.next = later, !.previous = before]
  PROVE  NewLeafOf(x, ks, vs, up, later, before)
<1>1. NewNode(TRUE) = [outer |-> TRUE, keys |-> <<>>, values |-> <<>>, kids |-> <<>>,
                       parent |-> NULL, next |-> NULL, previous |-> NULL]
  BY Zenon DEF NewNode
<1>2. ASSUME NEW l, l = [outer |-> TRUE, keys |-> <<>>, values |-> <<>>, kids |-> <<>>,
                         parent |-> NULL, next |-> NULL, previous |-> NULL]
      PROVE  l \in Node /\ l.outer
  <2>1. <<>> \in Seq(Keys) /\ <<>> \in Seq(Values) /\ <<>> \in Seq(NodeIds)
    OBVIOUS
  <2>2. l.outer = TRUE
    BY <1>2, Zenon
  <2>3. l \in Node
    BY <1>2, <2>1, Zenon DEF Node
  <2> QED BY <2>2, <2>3, Zenon
<1>3. NewNode(TRUE) \in Node /\ NewNode(TRUE).outer
  BY <1>1, <1>2, Zenon
<1>4. ASSUME NEW l \in Node, l.outer,
             x = [l EXCEPT !.keys = ks, !.values = vs, !.parent = up,
                           !.next = later, !.previous = before]
      PROVE  NewLeafOf(x, ks, vs, up, later, before)
  BY <1>4 DEF NewLeafOf, Node
<1> QED BY <1>3, <1>4, Zenon

SplitLeaf(h, n, new, s) ==
  LET x == h[n]
  IN  /\ s \in Heaps /\ s[n] \in Node /\ s[new] \in Node
      /\ s[n].keys \o s[new].keys = x.keys
      /\ s[n].values \o s[new].values = x.values
      /\ Len(s[n].keys) = Len(s[n].values) /\ Len(s[new].keys) = Len(s[new].values)
      /\ \A m \in {n, new} : s[m].outer /\ s[m].parent = x.parent
                             /\ ~IsFull(s[m]) /\ ~IsSparse(s[m])
      /\ s[n].previous = x.previous /\ s[n].next = new
      /\ s[new].previous = n /\ s[new].next = x.next
      /\ x.next # NULL => s[x.next] = [h[x.next] EXCEPT !.previous = new]
      /\ \A m \in NodeIds \ {n, new, x.next} : s[m] = h[m]

(* OuterNode::Split (include/map.h) of a leaf that is one key over full:   *)
(* lower and upper half together hold the keys and values in the order     *)
(* they had, each half has enough and not too many, the chain leads        *)
(* through both and back, and no other node is touched but for the way     *)
(* back of the next leaf.                                                  *)
THEOREM SplitKeepsTheLeaf ==
  ASSUME NEW h \in Heaps, NEW n \in NodeIds, NEW new \in NodeIds, n # new, h[n] \in Node,
         h[n].outer, Len(h[n].keys) = OuterFanout + 1, Len(h[n].values) = Len(h[n].keys),
         h[n].next \notin {n, new}, h[n].next # NULL => h[h[n].next] \in Node
  PROVE  SplitLeaf(h, n, new, OuterSplit(h, n, new))
<1> DEFINE s == OuterSplit(h, n, new)
           x == h[n]
           left == KeysLeft(x)
           lowKeys == SubSeq(x.keys, 1, left)
           lowValues == SubSeq(x.values, 1, left)
           highKeys == After(x.keys, left)
           highValues == After(x.values, left)
<1>1. /\ x \in Node /\ x.keys \in Seq(Keys) /\ x.values \in Seq(Values)
      /\ Len(x.keys) = OuterFanout + 1 /\ Len(x.values) = OuterFanout + 1
      /\ OuterFanout \in Nat /\ OuterFanout >= 4 /\ x.outer
      /\ x.next \in NodeIds \cup {NULL}
  BY MapAssumption DEF Node
<1>2. /\ s = [m \in NodeIds |-> s[m]]
      /\ s[n] = [x EXCEPT !.keys = lowKeys, !.values = lowValues, !.next = new]
      /\ s[new] = [NewNode(TRUE) EXCEPT !.keys = highKeys, !.values = highValues,
                                        !.parent = x.parent,
                                        !.next = x.next, !.previous = n]
      /\ x.next # NULL => s[x.next] = [h[x.next] EXCEPT !.previous = new]
      /\ \A m \in NodeIds \ {n, new, x.next} : s[m] = h[m]
  <2>1. SplitOf(h, n, new, OuterSplit(h, n, new))
    BY OuterSplitIs
  <2> QED BY <2>1, Zenon DEF SplitOf
<1>3. left \in Nat /\ (2 * left = OuterFanout + 1 \/ 2 * left = OuterFanout + 2)
  BY <1>1, KeysLeftIs
<1> HIDE DEF s, left
<1>4. /\ left <= OuterFanout /\ left >= OuterFanout \div 2
      /\ OuterFanout + 1 - left <= OuterFanout /\ OuterFanout + 1 - left >= OuterFanout \div 2
  BY <1>1, <1>3
<1>11. ASSUME NEW S, NEW q \in Seq(S), Len(q) = OuterFanout + 1
       PROVE  /\ SubSeq(q, 1, left) \in Seq(S) /\ Len(SubSeq(q, 1, left)) = left
              /\ After(q, left) \in Seq(S) /\ Len(After(q, left)) = OuterFanout + 1 - left
              /\ SubSeq(q, 1, left) \o After(q, left) = q
  <2>1. left <= Len(q)
    BY <1>1, <1>3, <1>4, <1>11
  <2>2. /\ SubSeq(q, 1, left) \in Seq(S) /\ Len(SubSeq(q, 1, left)) = left
        /\ After(q, left) \in Seq(S) /\ Len(After(q, left)) = Len(q) - left
        /\ SubSeq(q, 1, left) \o After(q, left) = q
    <3> HIDE DEF x
    <3> QED BY <1>3, <2>1, CutInTwo
  <2>3. Len(q) - left = OuterFanout + 1 - left
    <3> HIDE DEF x
    <3> QED BY <1>1, <1>3, <1>11
  <2> QED BY <2>2, <2>3, Zenon
<1>5. /\ lowKeys \in Seq(Keys) /\ Len(lowKeys) = left
      /\ highKeys \in Seq(Keys) /\ Len(highKeys) = OuterFanout + 1 - left
      /\ lowKeys \o highKeys = x.keys
  BY <1>1, <1>11, Zenon
<1>6. /\ lowValues \in Seq(Values) /\ Len(lowValues) = left
      /\ highValues \in Seq(Values) /\ Len(highValues) = OuterFanout + 1 - left
      /\ lowValues \o highValues = x.values
  BY <1>1, <1>11, Zenon
<1> HIDE DEF lowKeys, lowValues, highKeys, highValues, x
<1>7. /\ s[n] \in Node /\ s[n].keys = lowKeys /\ s[n].values = lowValues /\ s[n].next = new
      /\ s[n].outer /\ s[n].parent = x.parent /\ s[n].previous = x.previous
  BY <1>1, <1>2, <1>5, <1>6 DEF Node
<1>8. /\ s[new] \in Node /\ s[new].keys = highKeys /\ s[new].values = highValues
      /\ s[new].next = x.next /\ s[new].previous = n
      /\ s[new].outer /\ s[new].parent = x.parent
  <2>1. x.parent \in NodeIds \cup {NULL}
    BY <1>1 DEF Node
  <2>2. x.next \in NodeIds \cup {NULL} /\ n \in NodeIds \cup {NULL}
    BY <1>1
  <2>3. NewLeafOf(s[new], highKeys, highValues, x.parent, x.next, n)
    BY <1>2, <1>5, <1>6, <2>1, <2>2, NextLeafIs, Zenon
  <2> QED BY <2>3, Zenon DEF NewLeafOf
<1> USE DEF x
<1>9. s \in Heaps
  <2>1. ASSUME NEW m \in NodeIds PROVE s[m] \in Node \cup {Freed}
    <3>1. CASE m \in {n, new}
      BY <1>7, <1>8, <3>1
    <3>2. CASE m \notin {n, new} /\ m = x.next
      <4>1. x.next # NULL
        BY <3>2, MapAssumption
      <4>2. s[m] = [h[m] EXCEPT !.previous = new] /\ h[m] \in Node
        BY <1>2, <3>2, <4>1
      <4> QED BY <4>2 DEF Node
    <3>3. CASE m \notin {n, new, x.next}
      BY <1>2, <3>3 DEF Heaps
    <3> QED BY <3>1, <3>2, <3>3
  <2> QED BY <1>2, <2>1 DEF Heaps
<1>10. \A m \in {n, new} : ~IsFull(s[m]) /\ ~IsSparse(s[m])
  BY <1>1, <1>3, <1>4, <1>5, <1>7, <1>8 DEF IsFull, IsSparse, Fanout
<1> QED BY <1>2, <1>5, <1>6, <1>7, <1>8, <1>9, <1>10 DEF s, SplitLeaf

(***************************************************************************)
(* A key crosses between siblings.                                         *)
(***************************************************************************)
MoveOf(h, a, b, s) ==
  LET x == h[a]
      y == h[b]
      p == x.parent
  IN  /\ s = [m \in NodeIds |-> s[m]]
      /\ Len(y.keys) >= Len(x.keys) + 2 =>
           /\ s[a] = [x EXCEPT !.keys = Append(x.keys, Head(y.keys)),
                               !.values = Append(x.values, Head(y.values))]
           /\ s[b] = [y EXCEPT !.keys = Tail(y.keys), !.values = Tail(y.values)]
      /\ ~(Len(y.keys) >= Len(x.keys) + 2) =>
           /\ s[a] = [x EXCEPT !.keys = Front(x.keys), !.values = Front(x.values)]
           /\ s[b] = [y EXCEPT !.keys = <<Last(x.keys)>> \o y.keys,
                               !.values = <<Last(x.values)>> \o y.values]
      /\ s[p] = [h[p] EXCEPT !.keys[KidIndex(h, p, a)] = s[b].keys[1]]
      /\ \A m \in NodeIds \ {a, b, p} : s[m] = h[m]

LEMMA OuterRedistributeIs ==
  ASSUME NEW h \in Heaps, NEW a \in NodeIds, NEW b \in NodeIds, a # b,
         h[a] \in Node, h[b] \in Node, h[a].parent \in NodeIds \ {a, b},
         h[h[a].parent] \in Node
  PROVE  MoveOf(h, a, b, OuterRedistribute(h, a, b))
<1> DEFINE x == h[a]
           y == h[b]
           p == x.parent
           i == KidIndex(h, p, a)
           left == [h EXCEPT ![a].keys = Append(@, Head(y.keys)),
                             ![a].values = Append(@, Head(y.values)),
                             ![b].keys = Tail(@), ![b].values = Tail(@)]
           right == [h EXCEPT ![a].keys = Front(@), ![a].values = Front(@),
                              ![b].keys = <<Last(x.keys)>> \o @,
                              ![b].values = <<Last(x.values)>> \o @]
           moved == IF Len(y.keys) >= Len(x.keys) + 2 THEN left ELSE right
           s == OuterRedistribute(h, a, b)
<1>1. s = [moved EXCEPT ![p].keys[i] = moved[b].keys[1]]
  BY Zenon DEF OuterRedistribute
<1>2. h = [m \in NodeIds |-> h[m]]
  BY DEF Heaps
<1>3. /\ left = [m \in NodeIds |-> left[m]]
      /\ left[a] = [x EXCEPT !.keys = Append(x.keys, Head(y.keys)),
                             !.values = Append(x.values, Head(y.values))]
      /\ left[b] = [y EXCEPT !.keys = Tail(y.keys), !.values = Tail(y.values)]
      /\ \A m \in NodeIds \ {a, b} : left[m] = h[m]
  BY <1>2 DEF Node
<1>4. /\ right = [m \in NodeIds |-> right[m]]
      /\ right[a] = [x EXCEPT !.keys = Front(x.keys), !.values = Front(x.values)]
      /\ right[b] = [y EXCEPT !.keys = <<Last(x.keys)>> \o y.keys,
                              !.values = <<Last(x.values)>> \o y.values]
      /\ \A m \in NodeIds \ {a, b} : right[m] = h[m]
  BY <1>2 DEF Node
<1>5. moved = [m \in NodeIds |-> moved[m]] /\ \A m \in NodeIds \ {a, b} : moved[m] = h[m]
  <2> HIDE DEF left, right
  <2> QED BY <1>3, <1>4
<1>6. /\ Len(y.keys) >= Len(x.keys) + 2 => moved = left
      /\ ~(Len(y.keys) >= Len(x.keys) + 2) => moved = right
  BY Zenon
<1> HIDE DEF s, moved, left, right, i
<1>7. /\ s = [m \in NodeIds |-> s[m]]
      /\ s[p] = [h[p] EXCEPT !.keys[i] = moved[b].keys[1]]
      /\ \A m \in NodeIds \ {p} : s[m] = moved[m]
  <2>1. p \in NodeIds /\ p \notin {a, b} /\ moved[p] = h[p]
    BY <1>5
  <2> HIDE DEF p
  <2> QED BY <1>1, <1>5, <2>1
<1>8. s[a] = moved[a] /\ s[b] = moved[b] /\ \A m \in NodeIds \ {a, b, p} : s[m] = h[m]
  BY <1>5, <1>7
<1> QED BY <1>3, <1>4, <1>6, <1>7, <1>8, Zenon DEF s, i, MoveOf

MovedElement(h, a, b, s) ==
  LET p == h[a].parent
  IN  /\ s \in Heaps /\ s[a] \in Node /\ s[b] \in Node /\ s[p] \in Node
      /\ s[a].keys \o s[b].keys = h[a].keys \o h[b].keys
      /\ s[a].values \o s[b].values = h[a].values \o h[b].values
      /\ \A m \in {a, b} :
           /\ Len(s[m].keys) = Len(s[m].values)
           /\ ~IsFull(s[m]) /\ ~IsSparse(s[m])
           /\ s[m].outer /\ s[m].parent = h[m].parent
           /\ s[m].next = h[m].next /\ s[m].previous = h[m].previous
      /\ s[p] = [h[p] EXCEPT !.keys[KidIndex(h, p, a)] = s[b].keys[1]]
      /\ \A m \in NodeIds \ {a, b, p} : s[m] = h[m]

(* OuterNode::Redistribute (include/map.h) between two leaves of one       *)
(* parent: what they hold together stays in order, the chain as it is,     *)
(* the separator in the parent becomes the first key of the right one, and *)
(* if the shorter lacked no more than one key, neither lacks any.          *)
THEOREM MoveKeepsTheLeaves ==
  ASSUME NEW h \in Heaps, NEW a \in NodeIds, NEW b \in NodeIds, a # b,
         h[a] \in Node, h[b] \in Node, h[a].outer, h[b].outer,
         h[a].parent \in NodeIds \ {a, b}, h[h[a].parent] \in Node,
         Len(h[a].values) = Len(h[a].keys), Len(h[b].values) = Len(h[b].keys),
         KidIndex(h, h[a].parent, a) \in DOMAIN h[h[a].parent].keys,
         MayRedistribute(h, a, b), ~IsFull(h[a]), ~IsFull(h[b]),
         \A m \in {a, b} : Len(h[m].keys) + 1 >= OuterFanout \div 2
  PROVE  MovedElement(h, a, b, OuterRedistribute(h, a, b))
<1> DEFINE x == h[a]
           y == h[b]
           p == x.parent
           i == KidIndex(h, p, a)
           s == OuterRedistribute(h, a, b)
           toLeft == Len(y.keys) >= Len(x.keys) + 2
<1>1. /\ x \in Node /\ y \in Node /\ x.outer /\ y.outer /\ p \in NodeIds \ {a, b}
      /\ x.keys \in Seq(Keys) /\ x.values \in Seq(Values) /\ Len(x.values) = Len(x.keys)
      /\ y.keys \in Seq(Keys) /\ y.values \in Seq(Values) /\ Len(y.values) = Len(y.keys)
      /\ OuterFanout \in Nat /\ OuterFanout >= 4
      /\ h[p] \in Node /\ i \in DOMAIN h[p].keys
  BY MapAssumption DEF Node
<1>2. /\ s = [m \in NodeIds |-> s[m]]
      /\ toLeft =>
           /\ s[a] = [x EXCEPT !.keys = Append(x.keys, Head(y.keys)),
                               !.values = Append(x.values, Head(y.values))]
           /\ s[b] = [y EXCEPT !.keys = Tail(y.keys), !.values = Tail(y.values)]
      /\ ~toLeft =>
           /\ s[a] = [x EXCEPT !.keys = Front(x.keys), !.values = Front(x.values)]
           /\ s[b] = [y EXCEPT !.keys = <<Last(x.keys)>> \o y.keys,
                               !.values = <<Last(x.values)>> \o y.values]
      /\ s[p] = [h[p] EXCEPT !.keys[i] = s[b].keys[1]]
      /\ \A m \in NodeIds \ {a, b, p} : s[m] = h[m]
  <2>1. MoveOf(h, a, b, s)
    BY OuterRedistributeIs
  <2> HIDE DEF s
  <2> QED BY <2>1, Zenon DEF MoveOf
<1>3. /\ Len(x.keys) \in Nat /\ Len(y.keys) \in Nat
      /\ Len(x.keys) <= OuterFanout /\ Len(y.keys) <= OuterFanout
      /\ Len(x.keys) + 1 >= OuterFanout \div 2 /\ Len(y.keys) + 1 >= OuterFanout \div 2
      /\ ~toLeft => Len(x.keys) >= Len(y.keys) + 2
  BY <1>1 DEF MayRedistribute, IsFull, Fanout
<1> HIDE DEF s, x, y, p, i
<1> DEFINE Refilled(u, l, ks, vs) ==
             /\ u \in Node /\ u.keys = ks /\ u.values = vs /\ u.outer
             /\ u.parent = l.parent /\ u.next = l.next /\ u.previous = l.previous
<1>4. ASSUME NEW l \in Node, l.outer, NEW ks \in Seq(Keys), NEW vs \in Seq(Values),
             NEW u, u = [l EXCEPT !.keys = ks, !.values = vs]
      PROVE  Refilled(u, l, ks, vs)
  BY <1>4 DEF Node
<1> HIDE DEF Refilled
<1> DEFINE Moved(xk, xv, yk, yv) ==
             /\ xk \in Seq(Keys) /\ xv \in Seq(Values)
             /\ yk \in Seq(Keys) /\ yv \in Seq(Values)
             /\ xk \o yk = x.keys \o y.keys /\ xv \o yv = x.values \o y.values
             /\ Len(xk) = Len(xv) /\ Len(yk) = Len(yv)
             /\ Len(xk) >= OuterFanout \div 2 /\ Len(xk) <= OuterFanout
             /\ Len(yk) >= OuterFanout \div 2 /\ Len(yk) <= OuterFanout
             /\ s[a] = [x EXCEPT !.keys = xk, !.values = xv]
             /\ s[b] = [y EXCEPT !.keys = yk, !.values = yv]
<1>5. \E xk, xv, yk, yv : Moved(xk, xv, yk, yv)
  <2>1. CASE toLeft
    <3> DEFINE xk == Append(x.keys, Head(y.keys))
               xv == Append(x.values, Head(y.values))
               yk == Tail(y.keys)
               yv == Tail(y.values)
    <3>1. y.keys # <<>> /\ y.values # <<>>
      BY <1>1, <1>3, <2>1
    <3>2. /\ xk \in Seq(Keys) /\ Len(xk) = Len(x.keys) + 1
          /\ yk \in Seq(Keys) /\ Len(yk) = Len(y.keys) - 1
          /\ xk \o yk = x.keys \o y.keys
      BY <1>1, <3>1, HeadCrosses, Zenon
    <3>3. /\ xv \in Seq(Values) /\ Len(xv) = Len(x.values) + 1
          /\ yv \in Seq(Values) /\ Len(yv) = Len(y.values) - 1
          /\ xv \o yv = x.values \o y.values
      BY <1>1, <3>1, HeadCrosses, Zenon
    <3>4. s[a] = [x EXCEPT !.keys = xk, !.values = xv] /\ s[b] = [y EXCEPT !.keys = yk, !.values = yv]
      BY <1>2, <2>1, Zenon
    <3> HIDE DEF xk, xv, yk, yv
    <3>5. /\ Len(xk) = Len(xv) /\ Len(yk) = Len(yv)
          /\ Len(xk) >= OuterFanout \div 2 /\ Len(xk) <= OuterFanout
          /\ Len(yk) >= OuterFanout \div 2 /\ Len(yk) <= OuterFanout
      BY <1>1, <1>3, <2>1, <3>2, <3>3
    <3>6. Moved(xk, xv, yk, yv)
      BY <3>2, <3>3, <3>4, <3>5, Zenon
    <3> QED BY <3>6
  <2>2. CASE ~toLeft
    <3> DEFINE xk == Front(x.keys)
               xv == Front(x.values)
               yk == <<Last(x.keys)>> \o y.keys
               yv == <<Last(x.values)>> \o y.values
    <3>1. x.keys # <<>> /\ x.values # <<>>
      BY <1>1, <1>3, <2>2
    <3>2. /\ xk \in Seq(Keys) /\ Len(xk) = Len(x.keys) - 1
          /\ yk \in Seq(Keys) /\ Len(yk) = Len(y.keys) + 1
          /\ xk \o yk = x.keys \o y.keys
      <4>1. Recut(Keys, x.keys, y.keys, Front(x.keys), <<Last(x.keys)>> \o y.keys)
        BY <1>1, <3>1, LastCrosses
      <4> QED BY <4>1, Zenon DEF Recut
    <3>3. /\ xv \in Seq(Values) /\ Len(xv) = Len(x.values) - 1
          /\ yv \in Seq(Values) /\ Len(yv) = Len(y.values) + 1
          /\ xv \o yv = x.values \o y.values
      <4>1. Recut(Values, x.values, y.values, Front(x.values), <<Last(x.values)>> \o y.values)
        BY <1>1, <3>1, LastCrosses
      <4> QED BY <4>1, Zenon DEF Recut
    <3>4. s[a] = [x EXCEPT !.keys = xk, !.values = xv] /\ s[b] = [y EXCEPT !.keys = yk, !.values = yv]
      BY <1>2, <2>2, Zenon
    <3> HIDE DEF xk, xv, yk, yv
    <3>5. /\ Len(xk) = Len(xv) /\ Len(yk) = Len(yv)
          /\ Len(xk) >= OuterFanout \div 2 /\ Len(xk) <= OuterFanout
          /\ Len(yk) >= OuterFanout \div 2 /\ Len(yk) <= OuterFanout
      <4>1. ASSUME NEW f \in Nat, NEW k \in Nat, NEW l \in Nat,
                   k <= f, l <= f, l + 1 >= f \div 2, k >= l + 2
            PROVE  k - 1 >= f \div 2 /\ k - 1 <= f /\ l + 1 <= f
        BY <4>1
      <4>2. Len(x.keys) >= Len(y.keys) + 2
        BY <1>3, <2>2
      <4>3. /\ Len(x.keys) - 1 >= OuterFanout \div 2 /\ Len(x.keys) - 1 <= OuterFanout
            /\ Len(y.keys) + 1 <= OuterFanout /\ Len(y.keys) + 1 >= OuterFanout \div 2
        BY <1>1, <1>3, <4>1, <4>2
      <4> QED BY <1>1, <3>2, <3>3, <4>3, Zenon
    <3>6. Moved(xk, xv, yk, yv)
      BY <3>2, <3>3, <3>4, <3>5, Zenon
    <3> QED BY <3>6
  <2> QED BY <2>1, <2>2
<1>6. PICK xk, xv, yk, yv : Moved(xk, xv, yk, yv)
  BY <1>5, Zenon
<1>7. /\ s[a] \in Node /\ s[a].keys = xk /\ s[a].values = xv /\ s[a].outer
      /\ s[a].parent = x.parent /\ s[a].next = x.next /\ s[a].previous = x.previous
  <2>1. Refilled(s[a], x, xk, xv)
    BY <1>1, <1>4, <1>6, Zenon
  <2> QED BY <2>1, Zenon DEF Refilled
<1>8. /\ s[b] \in Node /\ s[b].keys = yk /\ s[b].values = yv /\ s[b].outer
      /\ s[b].parent = y.parent /\ s[b].next = y.next /\ s[b].previous = y.previous
  <2>1. Refilled(s[b], y, yk, yv)
    BY <1>1, <1>4, <1>6, Zenon
  <2> QED BY <2>1, Zenon DEF Refilled
<1>9. s[p] \in Node
  <2>1. yk[1] \in Keys
    BY <1>1, <1>6
  <2>2. ASSUME NEW q \in Node, NEW k \in Keys, NEW j \in DOMAIN q.keys, NEW u,
               u = [q EXCEPT !.keys[j] = k]
        PROVE  u \in Node
    <3>1. q.keys \in Seq(Keys)
      BY DEF Node
    <3>2. [q.keys EXCEPT ![j] = k] \in Seq(Keys)
      BY <3>1, ExceptSeq
    <3>3. ASSUME NEW z \in Seq(Keys) PROVE [q EXCEPT !.keys = z] \in Node
      BY DEF Node
    <3> QED BY <2>2, <3>2, <3>3, Zenon
  <2>3. s[p] = [h[p] EXCEPT !.keys[i] = yk[1]]
    BY <1>2, <1>8, Zenon
  <2> QED BY <1>1, <2>1, <2>2, <2>3, Zenon
<1>10. s \in Heaps
  <2>1. ASSUME NEW m \in NodeIds PROVE s[m] \in Node \cup {Freed}
    BY <1>2, <1>7, <1>8, <1>9 DEF Heaps
  <2> QED BY <1>2, <2>1 DEF Heaps
<1>11. \A m \in {a, b} :
          /\ Len(s[m].keys) = Len(s[m].values)
          /\ ~IsFull(s[m]) /\ ~IsSparse(s[m])
          /\ s[m].outer /\ s[m].parent = h[m].parent
          /\ s[m].next = h[m].next /\ s[m].previous = h[m].previous
  <2>1. \A m \in {a, b} : /\ Len(s[m].keys) >= OuterFanout \div 2
                          /\ Len(s[m].keys) <= OuterFanout /\ Len(s[m].keys) \in Nat
                          /\ s[m].outer /\ Len(s[m].keys) = Len(s[m].values)
    <3>1. /\ Len(xk) \in Nat /\ Len(xk) >= OuterFanout \div 2 /\ Len(xk) <= OuterFanout
          /\ Len(yk) \in Nat /\ Len(yk) >= OuterFanout \div 2 /\ Len(yk) <= OuterFanout
          /\ Len(xk) = Len(xv) /\ Len(yk) = Len(yv)
      BY <1>6
    <3> QED BY <1>7, <1>8, <3>1, Zenon
  <2>2. \A m \in {a, b} : ~IsFull(s[m]) /\ ~IsSparse(s[m])
    BY <1>1, <2>1 DEF IsFull, IsSparse, Fanout
  <2> QED BY <1>7, <1>8, <2>1, <2>2 DEF x, y
<1>12. s[a].keys \o s[b].keys = x.keys \o y.keys /\ s[a].values \o s[b].values = x.values \o y.values
  BY <1>6, <1>7, <1>8, Zenon
<1> QED BY <1>2, <1>7, <1>8, <1>9, <1>10, <1>11, <1>12, Zenon DEF s, x, y, p, i, MovedElement

(***************************************************************************)
(* A leaf is merged into its left sibling.                                 *)
(***************************************************************************)
LEMMA PositionIs ==
  ASSUME NEW S, NEW s \in Seq(S), NEW i \in 1..Len(s), NEW e, s[i] = e,
         \A j, k \in 1..Len(s) : s[j] = s[k] => j = k
  PROVE  Position(s, e) = i
<1> DEFINE I == {j \in 1..Len(s) : s[j] = e}
<1>1. I = {i} /\ i \in Int
  OBVIOUS
<1>2. SelectInSeq(s, LAMBDA x : x = e) = IF I # {} THEN Min(I) ELSE 0
  BY DEF SelectInSeq
<1>3. Min(I) = i
  BY <1>1 DEF Min
<1> QED BY <1>1, <1>2, <1>3 DEF Position

LEMMA RemovedAt ==
  ASSUME NEW S, NEW s \in Seq(S), NEW i \in 1..Len(s)
  PROVE  RemoveAt(s, i) \in Seq(S) /\ Len(RemoveAt(s, i)) = Len(s) - 1
<1> DEFINE n == Len(s)
<1>1. /\ n \in Nat /\ i \in 1..n /\ i - 1 \in Int /\ i + 1 \in Int /\ 1 \in Int /\ n \in Int
      /\ \A j \in 1..(i - 1) : s[j] \in S
      /\ \A j \in (i + 1)..n : s[j] \in S
  OBVIOUS
<1>2. RemoveAt(s, i) = SubSeq(s, 1, i - 1) \o SubSeq(s, i + 1, n)
  BY DEF RemoveAt
<1> HIDE DEF n
<1>3. /\ SubSeq(s, 1, i - 1) \in Seq(S)
      /\ Len(SubSeq(s, 1, i - 1)) = IF 1 <= i - 1 THEN (i - 1) - 1 + 1 ELSE 0
  BY <1>1, SubSeqProperties
<1>4. /\ SubSeq(s, i + 1, n) \in Seq(S)
      /\ Len(SubSeq(s, i + 1, n)) = IF i + 1 <= n THEN n - (i + 1) + 1 ELSE 0
  BY <1>1, SubSeqProperties
<1>5. ASSUME NEW u \in Seq(S), NEW v \in Seq(S), Len(u) = i - 1, Len(v) = n - i
      PROVE  u \o v \in Seq(S) /\ Len(u \o v) = n - 1
  <2>1. u \o v \in Seq(S) /\ Len(u \o v) = Len(u) + Len(v)
    BY ConcatProperties
  <2>2. i \in Nat
    BY <1>1
  <2> QED BY <1>1, <1>5, <2>1, <2>2
<1>6. Len(SubSeq(s, 1, i - 1)) = i - 1 /\ Len(SubSeq(s, i + 1, n)) = n - i
  BY <1>1, <1>3, <1>4
<1>7. RemoveAt(s, i) \in Seq(S) /\ Len(RemoveAt(s, i)) = n - 1
  BY <1>2, <1>3, <1>4, <1>5, <1>6, Zenon
<1> QED BY <1>7 DEF n

JoinOf(h, a, b, s) ==
  LET x == h[a]
      y == h[b]
  IN  /\ s = [m \in NodeIds |-> s[m]]
      /\ s[a] = [x EXCEPT !.keys = x.keys \o y.keys, !.values = x.values \o y.values,
                          !.next = y.next]
      /\ y.next # NULL => s[y.next] = [h[y.next] EXCEPT !.previous = a]
      /\ \A m \in NodeIds \ {a, y.next} : s[m] = h[m]

LEMMA OuterCoalesceIs ==
  ASSUME NEW h \in Heaps, NEW a \in NodeIds, NEW b \in NodeIds, a # b,
         h[a] \in Node, h[b] \in Node, h[b].next \notin {a, b},
         h[b].next # NULL => h[h[b].next] \in Node
  PROVE  JoinOf(h, a, b, OuterCoalesce(h, a, b))
<1> DEFINE x == h[a]
           y == h[b]
           low == [x EXCEPT !.keys = x.keys \o y.keys, !.values = x.values \o y.values,
                            !.next = y.next]
           joined == [h EXCEPT ![a].keys = @ \o y.keys, ![a].values = @ \o y.values,
                               ![a].next = y.next]
           s == OuterCoalesce(h, a, b)
<1>1. s = IF y.next = NULL THEN joined ELSE [joined EXCEPT ![y.next].previous = a]
  BY Zenon DEF OuterCoalesce
<1>2. h = [m \in NodeIds |-> h[m]]
  BY DEF Heaps
<1>3. y.next \in NodeIds \cup {NULL}
  BY DEF Node
<1>4. /\ joined = [m \in NodeIds |-> joined[m]] /\ joined[a] = low
      /\ \A m \in NodeIds \ {a} : joined[m] = h[m]
  BY <1>2 DEF Node
<1> HIDE DEF s, joined, low
<1>5. CASE y.next = NULL
  BY <1>1, <1>4, <1>5 DEF s, low, JoinOf
<1>6. CASE y.next # NULL
  <2>1. s = [joined EXCEPT ![y.next].previous = a] /\ joined[y.next] = h[y.next]
    BY <1>1, <1>3, <1>4, <1>6
  <2>2. /\ s = [m \in NodeIds |-> s[m]] /\ s[a] = low
        /\ s[y.next] = [h[y.next] EXCEPT !.previous = a]
        /\ \A m \in NodeIds \ {a, y.next} : s[m] = h[m]
    BY <1>3, <1>4, <1>6, <2>1 DEF Node
  <2> QED BY <2>2 DEF s, low, JoinOf
<1> QED BY <1>5, <1>6

JoinedLeaf(l, x, y) ==
  /\ l \in Node /\ l.keys = x.keys \o y.keys /\ l.values = x.values \o y.values
  /\ Len(l.keys) = Len(x.keys) + Len(y.keys) /\ Len(l.values) = Len(l.keys)
  /\ Len(l.keys) \in Nat
  /\ l.outer /\ l.parent = x.parent /\ l.previous = x.previous /\ l.next = y.next

LEMMA JoinedLeafIs ==
  ASSUME NEW x \in Node, NEW y \in Node, x.outer,
         Len(x.values) = Len(x.keys), Len(y.values) = Len(y.keys),
         NEW l, l = [x EXCEPT !.keys = x.keys \o y.keys, !.values = x.values \o y.values,
                              !.next = y.next]
  PROVE  JoinedLeaf(l, x, y)
<1>1. /\ x.keys \in Seq(Keys) /\ y.keys \in Seq(Keys)
      /\ x.values \in Seq(Values) /\ y.values \in Seq(Values)
      /\ y.next \in NodeIds \cup {NULL}
  BY DEF Node
<1>2. ASSUME NEW S, NEW u \in Seq(S), NEW v \in Seq(S)
      PROVE  u \o v \in Seq(S) /\ Len(u \o v) = Len(u) + Len(v) /\ Len(u \o v) \in Nat
  OBVIOUS
<1>3. /\ x.keys \o y.keys \in Seq(Keys) /\ Len(x.keys \o y.keys) = Len(x.keys) + Len(y.keys)
      /\ Len(x.keys \o y.keys) \in Nat
  BY <1>1, <1>2
<1>4. /\ x.values \o y.values \in Seq(Values)
      /\ Len(x.values \o y.values) = Len(x.keys) + Len(y.keys)
  <2>1. /\ x.values \o y.values \in Seq(Values)
        /\ Len(x.values \o y.values) = Len(x.values) + Len(y.values)
    BY <1>1, <1>2
  <2> QED BY <2>1, Zenon
<1> DEFINE Refilled(ks, vs, later) ==
             /\ l \in Node /\ l.keys = ks /\ l.values = vs /\ l.outer
             /\ l.parent = x.parent /\ l.previous = x.previous /\ l.next = later
<1>5. ASSUME NEW ks \in Seq(Keys), NEW vs \in Seq(Values), NEW later \in NodeIds \cup {NULL},
             l = [x EXCEPT !.keys = ks, !.values = vs, !.next = later]
      PROVE  Refilled(ks, vs, later)
  BY <1>5 DEF Node
<1> DEFINE ks == x.keys \o y.keys
           vs == x.values \o y.values
<1>6. l = [x EXCEPT !.keys = ks, !.values = vs, !.next = y.next]
  OBVIOUS
<1>7. ks \in Seq(Keys) /\ vs \in Seq(Values)
  BY <1>3, <1>4
<1> HIDE DEF ks, vs, Refilled
<1>8. Refilled(ks, vs, y.next)
  BY <1>1, <1>5, <1>6, <1>7, Zenon
<1> QED BY <1>3, <1>4, <1>8, Zenon DEF ks, vs, Refilled, JoinedLeaf

MergedLeaves(h, a, b, p, i, s) ==
  LET x == h[a]
      y == h[b]
  IN  /\ s \in Heaps /\ s[a] \in Node /\ s[p] \in Node
      /\ s[a].keys = x.keys \o y.keys /\ s[a].values = x.values \o y.values
      /\ Len(s[a].keys) = Len(s[a].values) /\ ~IsFull(s[a])
      /\ s[a].outer /\ s[a].parent = p
      /\ s[a].previous = x.previous /\ s[a].next = y.next
      /\ y.next # NULL => s[y.next] = [h[y.next] EXCEPT !.previous = a]
      /\ s[b] = Freed
      /\ s[p] = [h[p] EXCEPT !.keys = RemoveAt(h[p].keys, i),
                             !.kids = RemoveAt(h[p].kids, i + 1)]
      /\ \A m \in NodeIds \ {a, b, p, y.next} : s[m] = h[m]

(* OuterNode::Coalesce (include/map.h) of two neighbouring leaves that fit *)
(* in one, and what Erase does then: the left one holds the keys and       *)
(* values of both in order, the chain passes over the right one both ways, *)
(* its address is free, and the parent loses it together with the very     *)
(* separator that stood between the two.                                   *)
THEOREM MergeKeepsTheLeaves ==
  ASSUME NEW h \in Heaps, NEW a \in NodeIds, NEW b \in NodeIds, a # b,
         h[a] \in Node, h[b] \in Node, h[a].outer,
         Len(h[a].values) = Len(h[a].keys), Len(h[b].values) = Len(h[b].keys),
         MayCoalesce(h, a, b),
         NEW p \in NodeIds \ {a, b}, h[a].parent = p, h[p] \in Node,
         NEW i \in 1..Len(h[p].keys), Len(h[p].kids) = Len(h[p].keys) + 1,
         h[p].kids[i] = a, h[p].kids[i + 1] = b,
         \A j, k \in 1..Len(h[p].kids) : h[p].kids[j] = h[p].kids[k] => j = k,
         \A j, k \in 1..Len(h[p].keys) : h[p].keys[j] = h[p].keys[k] => j = k,
         h[b].next \notin {a, b, p}, h[b].next # NULL => h[h[b].next] \in Node
  PROVE  MergedLeaves(h, a, b, p, i, Merge(h, a, b))
<1> DEFINE x == h[a]
           y == h[b]
           q == h[p]
           joined == OuterCoalesce(h, a, b)
           s == Merge(h, a, b)
<1>1. /\ x \in Node /\ y \in Node /\ q \in Node /\ x.outer
      /\ x.keys \in Seq(Keys) /\ x.values \in Seq(Values) /\ Len(x.values) = Len(x.keys)
      /\ y.keys \in Seq(Keys) /\ y.values \in Seq(Values) /\ Len(y.values) = Len(y.keys)
      /\ q.keys \in Seq(Keys) /\ q.kids \in Seq(NodeIds)
      /\ x.parent = p /\ y.next \in NodeIds \cup {NULL} /\ y.next \notin {a, b, p}
      /\ OuterFanout \in Nat /\ NULL \notin NodeIds
  BY MapAssumption DEF Node
<1>2. /\ joined = [m \in NodeIds |-> joined[m]]
      /\ joined[a] = [x EXCEPT !.keys = x.keys \o y.keys, !.values = x.values \o y.values,
                               !.next = y.next]
      /\ y.next # NULL => joined[y.next] = [h[y.next] EXCEPT !.previous = a]
      /\ \A m \in NodeIds \ {a, y.next} : joined[m] = h[m]
  <2>1. JoinOf(h, a, b, joined)
    BY OuterCoalesceIs
  <2> HIDE DEF joined
  <2> QED BY <2>1, Zenon DEF JoinOf
<1>3. /\ Position(q.kids, a) = i /\ Position(q.kids, b) = i + 1
      /\ Position(q.keys, q.keys[i]) = i
  <2>1. i \in 1..Len(q.keys) /\ i \in 1..Len(q.kids) /\ i + 1 \in 1..Len(q.kids)
    BY <1>1
  <2>2. Position(q.kids, a) = i
    BY <1>1, <2>1, PositionIs
  <2>3. Position(q.kids, b) = i + 1
    BY <1>1, <2>1, PositionIs
  <2>4. Position(q.keys, q.keys[i]) = i
    BY <1>1, <2>1, PositionIs
  <2> QED BY <2>2, <2>3, <2>4, Zenon
<1> DEFINE low == [x EXCEPT !.keys = x.keys \o y.keys, !.values = x.values \o y.values,
                            !.next = y.next]
<1>9. /\ low \in Node /\ low.keys = x.keys \o y.keys /\ low.values = x.values \o y.values
      /\ Len(low.keys) = Len(x.keys) + Len(y.keys) /\ Len(low.values) = Len(low.keys)
      /\ Len(low.keys) \in Nat
      /\ low.outer /\ low.parent = p /\ low.previous = x.previous /\ low.next = y.next
  <2>1. JoinedLeaf(low, x, y)
    BY <1>1, JoinedLeafIs
  <2> HIDE DEF low
  <2> QED BY <1>1, <2>1, Zenon DEF JoinedLeaf
<1>4. joined[p] = q /\ joined[a].parent = p /\ joined[a].outer
  <2> HIDE DEF joined, low
  <2>1. joined[a] = low
    BY <1>2, Zenon DEF low
  <2>2. joined[p] = q
    BY <1>1, <1>2
  <2> QED BY <1>9, <2>1, <2>2, Zenon
<1> HIDE DEF joined
<1>5. SeparatorIndex(joined, a, b) = i
  <2>1. SeparatorIndex(joined, a, b) = Min({i, i + 1})
    BY <1>3, <1>4, Zenon DEF SeparatorIndex, KidIndex
  <2>2. Min({i, i + 1}) = i
    BY <1>1 DEF Min
  <2> QED BY <2>1, <2>2, Zenon
<1> DEFINE parent == [q EXCEPT !.keys = RemoveAt(q.keys, i), !.kids = RemoveAt(q.kids, i + 1)]
<1>6. s = [InnerErase(joined, p, q.keys[i], b) EXCEPT ![b] = Freed]
  <2>1. s = LET key == joined[p].keys[SeparatorIndex(joined, a, b)]
            IN  [InnerErase(joined, p, key, b) EXCEPT ![b] = Freed]
    BY <1>1, Zenon DEF Merge, joined
  <2> QED BY <1>4, <1>5, <2>1, Zenon
<1>7. InnerErase(joined, p, q.keys[i], b) = [joined EXCEPT ![p] = parent]
  BY <1>3, <1>4 DEF InnerErase
<1> HIDE DEF s, parent
<1>8. /\ s = [m \in NodeIds |-> s[m]] /\ s[b] = Freed /\ s[p] = parent
      /\ \A m \in NodeIds \ {b, p} : s[m] = joined[m]
  BY <1>2, <1>6, <1>7
<1>10. parent \in Node
  <2>1. RemoveAt(q.keys, i) \in Seq(Keys) /\ RemoveAt(q.kids, i + 1) \in Seq(NodeIds)
    BY <1>1, <1>3, RemovedAt
  <2>2. ASSUME NEW ks \in Seq(Keys), NEW ms \in Seq(NodeIds)
        PROVE  [q EXCEPT !.keys = ks, !.kids = ms] \in Node
    BY <1>1 DEF Node
  <2> QED BY <2>1, <2>2, Zenon DEF parent
<1>11. s[a] = low
  BY <1>2, <1>8
<1> HIDE DEF low
<1>12. ~IsFull(low)
  <2>1. Len(x.keys) + Len(y.keys) <= OuterFanout
    BY <1>1 DEF Fanout, MayCoalesce
  <2>2. Fanout(low) = OuterFanout
    BY <1>9, Zenon DEF Fanout
  <2>3. Len(low.keys) <= OuterFanout /\ Len(low.keys) \in Nat
    BY <1>9, <2>1, Zenon
  <2>4. ~(Len(low.keys) > OuterFanout)
    BY <1>1, <2>3
  <2> QED BY <2>2, <2>4, Zenon DEF IsFull
<1>13. /\ y.next # NULL => s[y.next] = [h[y.next] EXCEPT !.previous = a]
       /\ \A m \in NodeIds \ {a, b, p, y.next} : s[m] = h[m]
  BY <1>1, <1>2, <1>8
<1>14. s \in Heaps
  <2>1. ASSUME NEW m \in NodeIds PROVE s[m] \in Node \cup {Freed}
    <3>1. CASE m \in {a, b, p}
      BY <1>8, <1>9, <1>10, <1>11, <3>1
    <3>2. CASE m = y.next
      <4>1. s[m] = [h[m] EXCEPT !.previous = a] /\ h[m] \in Node
        BY <1>1, <1>13, <3>2
      <4> QED BY <4>1 DEF Node
    <3>3. CASE m \notin {a, b, p, y.next}
      BY <1>13, <3>3 DEF Heaps
    <3> QED BY <3>1, <3>2, <3>3
  <2> QED BY <1>8, <2>1 DEF Heaps
<1> QED BY <1>8, <1>9, <1>10, <1>11, <1>12, <1>13, <1>14, Zenon DEF s, parent, MergedLeaves

(***************************************************************************)
(* Sequences, by position.                                                 *)
(***************************************************************************)
ConcatOf(u, v, w) ==
  /\ Len(w) = Len(u) + Len(v)
  /\ \A j \in 1..Len(u) : w[j] = u[j]
  /\ \A j \in 1..Len(v) : w[Len(u) + j] = v[j]

(* Concatenation, insertion, removal and the crossing of an end: what each *)
(* makes of the positions, the elements and the order.                     *)
LEMMA Joined ==
  ASSUME NEW S, NEW u \in Seq(S), NEW v \in Seq(S)
  PROVE  u \o v \in Seq(S) /\ ConcatOf(u, v, u \o v)
<1> DEFINE w == u \o v
<1>1. /\ w \in Seq(S) /\ Len(w) = Len(u) + Len(v)
      /\ \A i \in 1..(Len(u) + Len(v)) : w[i] = IF i <= Len(u) THEN u[i] ELSE v[i - Len(u)]
  BY ConcatProperties
<1>2. Len(u) \in Nat /\ Len(v) \in Nat
  OBVIOUS
<1> HIDE DEF w
<1>3. \A j \in 1..Len(u) : w[j] = u[j]
  BY <1>1, <1>2
<1>4. ASSUME NEW j \in 1..Len(v) PROVE w[Len(u) + j] = v[j]
  <2>1. /\ Len(u) + j \in 1..(Len(u) + Len(v)) /\ ~(Len(u) + j <= Len(u))
        /\ Len(u) + j - Len(u) = j
    BY <1>2
  <2> QED BY <1>1, <2>1
<1> QED BY <1>1, <1>3, <1>4, Zenon DEF w, ConcatOf

InsertOf(s, i, e, u) ==
  /\ Len(u) = Len(s) + 1 /\ u[i] = e
  /\ \A j \in 1..(i - 1) : u[j] = s[j]
  /\ \A j \in i..Len(s) : u[j + 1] = s[j]

LEMMA InsertedAt ==
  ASSUME NEW S, NEW s \in Seq(S), NEW i \in 1..(Len(s) + 1), NEW e \in S
  PROVE  InsertAt(s, i, e) \in Seq(S) /\ InsertOf(s, i, e, InsertAt(s, i, e))
<1> DEFINE l == i - 1
           a == SubSeq(s, 1, l)
           b == After(s, l)
           m == <<e>>
           am == a \o m
           u == am \o b
<1>1. l \in Nat /\ l <= Len(s) /\ l + 1 = i /\ Len(s) \in Nat
  OBVIOUS
<1> HIDE DEF l
<1>2. /\ a \in Seq(S) /\ Len(a) = l /\ b \in Seq(S) /\ Len(b) = Len(s) - l
      /\ \A j \in 1..l : a[j] = s[j]
      /\ \A j \in 1..(Len(s) - l) : b[j] = s[l + j]
  BY <1>1, CutInTwo
<1>3. InsertAt(s, i, e) = u
  BY <1>1, Zenon DEF InsertAt, After, l
<1>4. m \in Seq(S) /\ Len(m) = 1 /\ m[1] = e
  OBVIOUS
<1> HIDE DEF a, b, m
<1>5. am \in Seq(S) /\ Len(am) = l + 1 /\ (\A j \in 1..l : am[j] = a[j]) /\ am[l + 1] = e
  <2>1. /\ am \in Seq(S) /\ Len(am) = Len(a) + Len(m)
        /\ \A j \in 1..Len(a) : am[j] = a[j]
        /\ \A j \in 1..Len(m) : am[Len(a) + j] = m[j]
    <3>1. am \in Seq(S) /\ ConcatOf(a, m, am)
      BY <1>2, <1>4, Joined, Zenon
    <3> HIDE DEF am
    <3> QED BY <3>1, Zenon DEF ConcatOf
  <2> HIDE DEF am
  <2> QED BY <1>1, <1>2, <1>4, <2>1
<1> HIDE DEF am
<1>6. /\ u \in Seq(S) /\ Len(u) = Len(am) + Len(b)
      /\ \A j \in 1..Len(am) : u[j] = am[j]
      /\ \A j \in 1..Len(b) : u[Len(am) + j] = b[j]
  <2>1. u \in Seq(S) /\ ConcatOf(am, b, u)
    BY <1>2, <1>5, Joined, Zenon
  <2> HIDE DEF u
  <2> QED BY <2>1, Zenon DEF ConcatOf
<1> HIDE DEF u
<1>7. Len(u) = Len(s) + 1
  BY <1>1, <1>2, <1>5, <1>6
<1>8. u[i] = e
  BY <1>1, <1>5, <1>6
<1>9. ASSUME NEW j \in 1..(i - 1) PROVE u[j] = s[j]
  BY <1>1, <1>2, <1>5, <1>6
<1>10. ASSUME NEW j \in i..Len(s) PROVE u[j + 1] = s[j]
  <2>1. j - l \in 1..Len(b) /\ Len(am) + (j - l) = j + 1 /\ l + (j - l) = j
    BY <1>1, <1>2, <1>5
  <2>2. u[Len(am) + (j - l)] = b[j - l]
    BY <1>6, <2>1, Zenon
  <2>3. j - l \in 1..(Len(s) - l)
    BY <1>2, <2>1, Zenon
  <2>4. b[j - l] = s[l + (j - l)]
    BY <1>2, <2>3, Zenon
  <2> QED BY <2>1, <2>2, <2>4, Zenon
<1> QED BY <1>3, <1>6, <1>7, <1>8, <1>9, <1>10, Zenon DEF InsertOf

Extended(s, e, u) ==
  /\ \A j \in 1..Len(u) : u[j] = e \/ \E l \in 1..Len(s) : u[j] = s[l]
  /\ \A l \in 1..Len(s) : \E j \in 1..Len(u) : u[j] = s[l]
  /\ \E j \in 1..Len(u) : u[j] = e
  /\ Distinct(s) /\ (\A l \in 1..Len(s) : s[l] # e) <=> Distinct(u)

LEMMA InsertedElements ==
  ASSUME NEW s, NEW u, NEW e, Len(s) \in Nat, NEW i \in 1..(Len(s) + 1), InsertOf(s, i, e, u)
  PROVE  Extended(s, e, u)
<1>1. /\ Len(u) = Len(s) + 1 /\ u[i] = e
      /\ \A j \in 1..(i - 1) : u[j] = s[j]
      /\ \A j \in i..Len(s) : u[j + 1] = s[j]
      /\ i \in Nat /\ i >= 1 /\ i <= Len(s) + 1 /\ Len(u) \in Nat /\ i \in 1..Len(u)
  BY DEF InsertOf
<1>2. ASSUME NEW j \in 1..Len(u), j < i PROVE j \in 1..Len(s) /\ u[j] = s[j]
  BY <1>1, <1>2
<1>3. ASSUME NEW j \in 1..Len(u), j > i PROVE j - 1 \in 1..Len(s) /\ u[j] = s[j - 1]
  <2>1. j - 1 \in i..Len(s) /\ (j - 1) + 1 = j /\ j - 1 \in 1..Len(s)
    BY <1>1, <1>3
  <2> QED BY <1>1, <2>1
<1>4. ASSUME NEW l \in 1..Len(s) PROVE \E j \in 1..Len(u) : u[j] = s[l]
  <2>1. CASE l < i
    <3>1. l \in 1..(i - 1) /\ l \in 1..Len(u)
      BY <1>1, <2>1
    <3> QED BY <1>1, <3>1, Zenon
  <2>2. CASE l >= i
    <3>1. l \in i..Len(s) /\ l + 1 \in 1..Len(u)
      BY <1>1, <2>2
    <3> QED BY <1>1, <3>1, Zenon
  <2> QED BY <1>1, <2>1, <2>2
<1>5. ASSUME NEW j \in 1..Len(u) PROVE u[j] = e \/ \E l \in 1..Len(s) : u[j] = s[l]
  <2>1. j < i \/ j = i \/ j > i
    BY <1>1
  <2> QED BY <1>1, <1>2, <1>3, <2>1, Zenon
<1>6. ASSUME Distinct(s), \A l \in 1..Len(s) : s[l] # e,
             NEW j \in 1..Len(u), NEW l \in 1..Len(u), u[j] = u[l]
      PROVE  j = l
  <2>1. \A a, b \in 1..Len(s) : s[a] = s[b] => a = b
    BY <1>6 DEF Distinct
  <2>2. CASE j < i /\ l < i
    <3>1. j \in 1..Len(s) /\ l \in 1..Len(s) /\ s[j] = s[l]
      BY <1>2, <1>6, <2>2, Zenon
    <3> QED BY <2>1, <3>1, Zenon
  <2>3. CASE j < i /\ l > i
    <3>1. j \in 1..Len(s) /\ l - 1 \in 1..Len(s) /\ s[j] = s[l - 1]
      BY <1>2, <1>3, <1>6, <2>3, Zenon
    <3>2. j = l - 1
      BY <2>1, <3>1, Zenon
    <3> QED BY <1>1, <2>3, <3>2
  <2>4. CASE j > i /\ l < i
    <3>1. l \in 1..Len(s) /\ j - 1 \in 1..Len(s) /\ s[l] = s[j - 1]
      BY <1>2, <1>3, <1>6, <2>4, Zenon
    <3>2. l = j - 1
      BY <2>1, <3>1, Zenon
    <3> QED BY <1>1, <2>4, <3>2
  <2>5. CASE j > i /\ l > i
    <3>1. j - 1 \in 1..Len(s) /\ l - 1 \in 1..Len(s) /\ s[j - 1] = s[l - 1]
      BY <1>3, <1>6, <2>5, Zenon
    <3>2. j - 1 = l - 1
      BY <2>1, <3>1, Zenon
    <3> QED BY <1>1, <3>2
  <2>6. CASE j = i /\ l # i
    <3>1. \E a \in 1..Len(s) : u[l] = s[a]
      <4>1. l < i \/ l > i
        BY <1>1, <2>6
      <4> QED BY <1>2, <1>3, <4>1, Zenon
    <3> QED BY <1>1, <1>6, <2>6, <3>1, Zenon
  <2>7. CASE j # i /\ l = i
    <3>1. \E a \in 1..Len(s) : u[j] = s[a]
      <4>1. j < i \/ j > i
        BY <1>1, <2>7
      <4> QED BY <1>2, <1>3, <4>1, Zenon
    <3> QED BY <1>1, <1>6, <2>7, <3>1, Zenon
  <2> QED BY <1>1, <2>2, <2>3, <2>4, <2>5, <2>6, <2>7
<1>7. Distinct(s) /\ (\A l \in 1..Len(s) : s[l] # e) => Distinct(u)
  BY <1>6, Zenon DEF Distinct
<1>8. ASSUME Distinct(u) PROVE Distinct(s) /\ \A l \in 1..Len(s) : s[l] # e
  <2>1. \A a, b \in 1..Len(u) : u[a] = u[b] => a = b
    BY <1>8 DEF Distinct
  <2>2. ASSUME NEW l \in 1..Len(s), l < i PROVE l \in 1..Len(u) /\ u[l] = s[l]
    BY <1>1, <2>2
  <2>3. ASSUME NEW l \in 1..Len(s), l >= i PROVE l + 1 \in 1..Len(u) /\ u[l + 1] = s[l]
    BY <1>1, <2>3
  <2>4. ASSUME NEW l \in 1..Len(s) PROVE s[l] # e
    <3>1. CASE l < i
      BY <1>1, <2>1, <2>2, <3>1
    <3>2. CASE l >= i
      <4>1. l + 1 # i
        BY <1>1, <3>2
      <4>2. l + 1 \in 1..Len(u) /\ u[l + 1] = s[l] /\ i \in 1..Len(u) /\ u[i] = e
        BY <1>1, <2>3, <3>2, Zenon
      <4>3. s[l] = e => l + 1 = i
        BY <2>1, <4>2, Zenon
      <4> QED BY <4>1, <4>3
    <3> QED BY <1>1, <3>1, <3>2
  <2>5. ASSUME NEW j \in 1..Len(s), NEW l \in 1..Len(s), s[j] = s[l] PROVE j = l
    <3>1. CASE j < i /\ l < i
      BY <2>1, <2>2, <2>5, <3>1, Zenon
    <3>2. CASE j < i /\ l >= i
      <4>1. j = l + 1
        BY <2>1, <2>2, <2>3, <2>5, <3>2, Zenon
      <4> QED BY <1>1, <3>2, <4>1
    <3>3. CASE j >= i /\ l < i
      <4>1. l = j + 1
        BY <2>1, <2>2, <2>3, <2>5, <3>3, Zenon
      <4> QED BY <1>1, <3>3, <4>1
    <3>4. CASE j >= i /\ l >= i
      <4>1. j + 1 = l + 1
        BY <2>1, <2>3, <2>5, <3>4, Zenon
      <4> QED BY <4>1
    <3> QED BY <1>1, <3>1, <3>2, <3>3, <3>4
  <2> QED BY <2>4, <2>5, Zenon DEF Distinct
<1> QED BY <1>1, <1>4, <1>5, <1>7, <1>8, Zenon DEF Extended

LEMMA AscendingWeakly ==
  ASSUME NEW s, Len(s) \in Nat, \A j \in 1..Len(s) : s[j] \in Nat, Ascending(s),
         NEW i \in 1..Len(s), NEW j \in 1..Len(s), i <= j
  PROVE  s[i] <= s[j]
BY DEF Ascending

LEMMA InsertedAscending ==
  ASSUME NEW s, NEW u, NEW e \in Nat, Len(s) \in Nat, \A j \in 1..Len(s) : s[j] \in Nat,
         NEW i \in 1..(Len(s) + 1), InsertOf(s, i, e, u), Ascending(s),
         \A j \in 1..Len(s) : (j = i - 1 => s[j] < e) /\ (j = i => e < s[j])
  PROVE  Ascending(u)
<1>1. /\ Len(u) = Len(s) + 1 /\ u[i] = e
      /\ \A j \in 1..(i - 1) : u[j] = s[j]
      /\ \A j \in i..Len(s) : u[j + 1] = s[j]
      /\ i \in Nat /\ i >= 1 /\ i <= Len(s) + 1 /\ Len(u) \in Nat /\ Len(s) \in Nat
  BY DEF InsertOf
<1>2. ASSUME NEW j \in 1..Len(u), j < i PROVE j \in 1..Len(s) /\ u[j] = s[j] /\ s[j] \in Nat /\ u[j] < e
  <2>1. j \in 1..Len(s) /\ u[j] = s[j] /\ i - 1 \in 1..Len(s) /\ j <= i - 1
    BY <1>1, <1>2
  <2>2. s[j] \in Nat /\ s[i - 1] \in Nat /\ s[i - 1] < e
    BY <2>1
  <2>3. s[j] <= s[i - 1]
    BY <2>1, AscendingWeakly
  <2> QED BY <2>1, <2>2, <2>3
<1>3. ASSUME NEW j \in 1..Len(u), j > i
      PROVE  j - 1 \in 1..Len(s) /\ u[j] = s[j - 1] /\ s[j - 1] \in Nat /\ e < u[j]
  <2>1. j - 1 \in i..Len(s) /\ (j - 1) + 1 = j /\ j - 1 \in 1..Len(s) /\ i \in 1..Len(s)
        /\ i <= j - 1
    BY <1>1, <1>3
  <2>2. u[j] = s[j - 1]
    <3>1. u[(j - 1) + 1] = s[j - 1]
      BY <1>1, <2>1, Zenon
    <3> QED BY <2>1, <3>1, Zenon
  <2>3. s[i] \in Nat /\ s[j - 1] \in Nat /\ e < s[i]
    BY <2>1
  <2>4. s[i] <= s[j - 1]
    BY <2>1, AscendingWeakly
  <2> QED BY <2>1, <2>2, <2>3, <2>4
<1>4. ASSUME NEW j \in 1..Len(u), NEW l \in 1..Len(u), j < l PROVE u[j] < u[l]
  <2>2. CASE l < i
    <3>0. j < i
      BY <1>1, <1>4, <2>2
    <3>1. j \in 1..Len(s) /\ l \in 1..Len(s) /\ u[j] = s[j] /\ u[l] = s[l]
      BY <1>2, <3>0, <2>2, Zenon
    <3> QED BY <1>4, <3>1, Zenon DEF Ascending
  <2>3. CASE j < i /\ l = i
    BY <1>1, <1>2, <2>3
  <2>6. CASE j < i /\ l > i
    <3>1. u[j] < e /\ e < u[l] /\ u[j] \in Nat /\ u[l] \in Nat
      BY <1>2, <1>3, <2>6, Zenon
    <3> QED BY <3>1
  <2>4. CASE j = i
    <3>1. l > i
      BY <1>4, <2>4
    <3> QED BY <1>1, <1>3, <2>4, <3>1, Zenon
  <2>5. CASE j > i
    <3>0. l > i
      BY <1>1, <1>4, <2>5
    <3>1. j - 1 \in 1..Len(s) /\ l - 1 \in 1..Len(s) /\ u[j] = s[j - 1] /\ u[l] = s[l - 1]
      BY <1>3, <2>5, <3>0, Zenon
    <3>2. j - 1 < l - 1
      BY <1>4
    <3> QED BY <3>1, <3>2, Zenon DEF Ascending
  <2> QED BY <1>1, <1>4, <2>2, <2>3, <2>4, <2>5, <2>6
<1> QED BY <1>4, Zenon DEF Ascending

LEMMA WasAscending ==
  ASSUME NEW s, NEW u, NEW e, Len(s) \in Nat,
         NEW i \in 1..(Len(s) + 1), InsertOf(s, i, e, u), Ascending(u)
  PROVE  Ascending(s)
<1>1. /\ Len(u) = Len(s) + 1
      /\ \A j \in 1..(i - 1) : u[j] = s[j]
      /\ \A j \in i..Len(s) : u[j + 1] = s[j]
      /\ i \in Nat /\ i >= 1 /\ i <= Len(s) + 1 /\ Len(u) \in Nat /\ Len(s) \in Nat
  BY DEF InsertOf
<1>2. \A a, b \in 1..Len(u) : a < b => u[a] < u[b]
  BY DEF Ascending
<1>3. ASSUME NEW l \in 1..Len(s), l < i PROVE l \in 1..Len(u) /\ u[l] = s[l]
  BY <1>1, <1>3
<1>4. ASSUME NEW l \in 1..Len(s), l >= i PROVE l + 1 \in 1..Len(u) /\ u[l + 1] = s[l]
  BY <1>1, <1>4
<1>5. ASSUME NEW j \in 1..Len(s), NEW l \in 1..Len(s), j < l PROVE s[j] < s[l]
  <2>1. CASE l < i
    <3>1. j < i
      BY <1>1, <1>5, <2>1
    <3> QED BY <1>2, <1>3, <1>5, <2>1, <3>1, Zenon
  <2>2. CASE j < i /\ l >= i
    <3>1. j < l + 1
      BY <1>5
    <3> QED BY <1>2, <1>3, <1>4, <2>2, <3>1, Zenon
  <2>3. CASE j >= i
    <3>1. l >= i /\ j + 1 < l + 1
      BY <1>1, <1>5, <2>3
    <3> QED BY <1>2, <1>4, <2>3, <3>1, Zenon
  <2> QED BY <1>1, <1>5, <2>1, <2>2, <2>3
<1> QED BY <1>5, Zenon DEF Ascending

RemoveOf(s, i, u) ==
  /\ Len(u) = Len(s) - 1
  /\ \A j \in 1..(i - 1) : u[j] = s[j]
  /\ \A j \in i..(Len(s) - 1) : u[j] = s[j + 1]

LEMMA RemovedFrom ==
  ASSUME NEW S, NEW s \in Seq(S), NEW i \in 1..Len(s)
  PROVE  RemoveAt(s, i) \in Seq(S) /\ RemoveOf(s, i, RemoveAt(s, i))
<1> DEFINE l == i - 1
           a == SubSeq(s, 1, l)
           b == After(s, i)
           u == a \o b
<1>1. l \in Nat /\ l <= Len(s) /\ l + 1 = i /\ Len(s) \in Nat /\ i \in Nat /\ i <= Len(s)
  OBVIOUS
<1> HIDE DEF l
<1>2. /\ a \in Seq(S) /\ Len(a) = l
      /\ \A j \in 1..l : a[j] = s[j]
  BY <1>1, CutInTwo
<1>3. /\ b \in Seq(S) /\ Len(b) = Len(s) - i
      /\ \A j \in 1..(Len(s) - i) : b[j] = s[i + j]
  BY <1>1, CutInTwo
<1>4. RemoveAt(s, i) = u
  BY <1>1, Zenon DEF RemoveAt, After, l
<1> HIDE DEF a, b
<1>6. /\ u \in Seq(S) /\ Len(u) = Len(a) + Len(b)
      /\ \A j \in 1..Len(a) : u[j] = a[j]
      /\ \A j \in 1..Len(b) : u[Len(a) + j] = b[j]
  <2>1. u \in Seq(S) /\ ConcatOf(a, b, u)
    BY <1>2, <1>3, Joined, Zenon
  <2> HIDE DEF u
  <2> QED BY <2>1, Zenon DEF ConcatOf
<1> HIDE DEF u
<1>7. Len(u) = Len(s) - 1
  <2> DEFINE n == Len(s)
             m == Len(u)
  <2>1. m = l + (n - i)
    BY <1>2, <1>3, <1>6, Zenon
  <2>2. l \in Nat /\ l + 1 = i /\ n \in Nat
    BY <1>1, Zenon
  <2> HIDE DEF n, m
  <2>3. m = n - 1
    BY <2>1, <2>2
  <2> QED BY <2>3 DEF n, m
<1>9. ASSUME NEW j \in 1..(i - 1) PROVE u[j] = s[j]
  BY <1>1, <1>2, <1>6
<1>10. ASSUME NEW j \in i..(Len(s) - 1) PROVE u[j] = s[j + 1]
  <2>1. j - l \in 1..Len(b) /\ Len(a) + (j - l) = j /\ i + (j - l) = j + 1
    BY <1>1, <1>2, <1>3
  <2>2. u[Len(a) + (j - l)] = b[j - l]
    BY <1>6, <2>1, Zenon
  <2>3. b[j - l] = s[i + (j - l)]
    BY <1>3, <2>1, Zenon
  <2> QED BY <2>1, <2>2, <2>3, Zenon
<1> QED BY <1>4, <1>6, <1>7, <1>9, <1>10 DEF RemoveOf

ConsOf(e, s, u) == Len(u) = Len(s) + 1 /\ u[1] = e /\ \A j \in 1..Len(s) : u[j + 1] = s[j]

LEMMA Consed ==
  ASSUME NEW S, NEW s \in Seq(S), NEW e \in S
  PROVE  <<e>> \o s \in Seq(S) /\ ConsOf(e, s, <<e>> \o s)
<1> DEFINE m == <<e>>
           u == m \o s
<1>1. m \in Seq(S) /\ Len(m) = 1 /\ m[1] = e /\ Len(s) \in Nat
  OBVIOUS
<1> HIDE DEF m
<1>2. /\ u \in Seq(S) /\ Len(u) = Len(m) + Len(s)
      /\ \A j \in 1..Len(m) : u[j] = m[j]
      /\ \A j \in 1..Len(s) : u[Len(m) + j] = s[j]
  <2>1. u \in Seq(S) /\ ConcatOf(m, s, u)
    BY <1>1, Joined, Zenon
  <2> HIDE DEF u
  <2> QED BY <2>1, Zenon DEF ConcatOf
<1> HIDE DEF u
<1>3. ASSUME NEW j \in 1..Len(s) PROVE u[j + 1] = s[j]
  <2>1. Len(m) + j = j + 1
    BY <1>1
  <2> QED BY <1>2, <2>1
<1>4. Len(u) = Len(s) + 1 /\ u[1] = e
  BY <1>1, <1>2
<1> QED BY <1>2, <1>3, <1>4, Zenon DEF u, m, ConsOf

SnocOf(s, e, u) == Len(u) = Len(s) + 1 /\ u[Len(s) + 1] = e /\ \A j \in 1..Len(s) : u[j] = s[j]

LEMMA Appended ==
  ASSUME NEW S, NEW s \in Seq(S), NEW e \in S
  PROVE  Append(s, e) \in Seq(S) /\ SnocOf(s, e, Append(s, e))
BY AppendProperties DEF SnocOf

TailOf(s, u) == Len(u) = Len(s) - 1 /\ \A j \in 1..(Len(s) - 1) : u[j] = s[j + 1]

LEMMA TailIs ==
  ASSUME NEW S, NEW s \in Seq(S), s # <<>>
  PROVE  Tail(s) \in Seq(S) /\ TailOf(s, Tail(s)) /\ Head(s) = s[1] /\ Head(s) \in S
<1>1. Head(s) \in S /\ Tail(s) \in Seq(S) /\ Len(Tail(s)) = Len(s) - 1
      /\ \A i \in 1 .. Len(Tail(s)) : Tail(s)[i] = s[i + 1]
  BY HeadTailProperties
<1>2. Head(s) = s[1]
  OBVIOUS
<1> QED BY <1>1, <1>2, Zenon DEF TailOf

FrontOf(s, u) == Len(u) = Len(s) - 1 /\ \A j \in 1..(Len(s) - 1) : u[j] = s[j]

LEMMA FrontIs ==
  ASSUME NEW S, NEW s \in Seq(S), s # <<>>
  PROVE  Front(s) \in Seq(S) /\ FrontOf(s, Front(s)) /\ Last(s) = s[Len(s)] /\ Last(s) \in S
<1> DEFINE i == Len(s) - 1
<1>1. i \in Nat /\ i <= Len(s) /\ Len(s) \in 1..Len(s)
  OBVIOUS
<1>2. Last(s) = s[Len(s)] /\ Last(s) \in S
  BY <1>1 DEF Last
<1> HIDE DEF i
<1>3. /\ SubSeq(s, 1, i) \in Seq(S) /\ Len(SubSeq(s, 1, i)) = i
      /\ \A j \in 1..i : SubSeq(s, 1, i)[j] = s[j]
  BY <1>1, CutInTwo
<1>4. Front(s) = SubSeq(s, 1, i)
  BY Zenon DEF Front, i
<1> QED BY <1>2, <1>3, <1>4, Zenon DEF FrontOf, i

(***************************************************************************)
(* Two sequences and the one they make up together.                        *)
(***************************************************************************)
Cuts(u, v, w) ==
  /\ Len(w) = Len(u) + Len(v) /\ Len(w) \in Nat
  /\ \A i \in 1..Len(u) : i \in 1..Len(w) /\ w[i] = u[i]
  /\ \A i \in 1..Len(v) : Len(u) + i \in 1..Len(w) /\ w[Len(u) + i] = v[i]
  /\ \A j \in 1..Len(w) : j \in 1..Len(u) \/ (j - Len(u) \in 1..Len(v) /\ w[j] = v[j - Len(u)])

LEMMA ConcatPositions ==
  ASSUME NEW u, NEW v, NEW w, ConcatOf(u, v, w), Len(u) \in Nat, Len(v) \in Nat
  PROVE  Cuts(u, v, w)
<1>1. /\ Len(w) = Len(u) + Len(v)
      /\ \A j \in 1..Len(u) : w[j] = u[j]
      /\ \A j \in 1..Len(v) : w[Len(u) + j] = v[j]
  BY DEF ConcatOf
<1>2. \A i \in 1..Len(u) : i \in 1..Len(w) /\ w[i] = u[i]
  BY <1>1
<1>3. \A i \in 1..Len(v) : Len(u) + i \in 1..Len(w) /\ w[Len(u) + i] = v[i]
  BY <1>1
<1>4. ASSUME NEW j \in 1..Len(w)
      PROVE  j \in 1..Len(u) \/ (j - Len(u) \in 1..Len(v) /\ w[j] = v[j - Len(u)])
  <2>1. CASE j <= Len(u)
    <3>1. j \in Nat /\ j >= 1
      BY <1>1
    <3>2. j \in 1..Len(u)
      BY <2>1, <3>1
    <3> QED BY <3>2, Zenon
  <2>2. CASE j > Len(u)
    <3>1. j - Len(u) \in 1..Len(v) /\ Len(u) + (j - Len(u)) = j
      BY <1>1, <2>2
    <3>2. w[Len(u) + (j - Len(u))] = v[j - Len(u)]
      BY <1>3, <3>1, Zenon
    <3> QED BY <3>1, <3>2, Zenon
  <2> QED BY <1>1, <2>1, <2>2
<1> QED BY <1>1, <1>2, <1>3, <1>4 DEF Cuts

Elements(s) == {s[i] : i \in 1..Len(s)}

LEMMA ConcatElements ==
  ASSUME NEW u, NEW v, NEW w, ConcatOf(u, v, w), Len(u) \in Nat, Len(v) \in Nat
  PROVE  Elements(w) = Elements(u) \cup Elements(v)
<1>1. /\ \A i \in 1..Len(u) : i \in 1..Len(w) /\ w[i] = u[i]
      /\ \A i \in 1..Len(v) : Len(u) + i \in 1..Len(w) /\ w[Len(u) + i] = v[i]
      /\ \A j \in 1..Len(w) : j \in 1..Len(u) \/ (j - Len(u) \in 1..Len(v) /\ w[j] = v[j - Len(u)])
  <2>1. Cuts(u, v, w)
    BY ConcatPositions
  <2> QED BY <2>1, Zenon DEF Cuts
<1>2. ASSUME NEW e \in Elements(u) PROVE e \in Elements(w)
  BY <1>1, Zenon DEF Elements
<1>3. ASSUME NEW e \in Elements(v) PROVE e \in Elements(w)
  BY <1>1, Zenon DEF Elements
<1>4. ASSUME NEW e \in Elements(w) PROVE e \in Elements(u) \cup Elements(v)
  <2>1. PICK j \in 1..Len(w) : e = w[j]
    BY Zenon DEF Elements
  <2> QED BY <1>1, <2>1, Zenon DEF Elements
<1> QED BY <1>2, <1>3, <1>4

LEMMA ConcatCut ==
  ASSUME NEW u, NEW v, NEW w, ConcatOf(u, v, w), Len(u) \in Nat, Len(v) \in Nat, Ascending(w)
  PROVE  /\ Ascending(u) /\ Ascending(v)
         /\ \A i \in 1..Len(u), j \in 1..Len(v) : u[i] < v[j]
<1>1. /\ \A i \in 1..Len(u) : i \in 1..Len(w) /\ w[i] = u[i]
      /\ \A i \in 1..Len(v) : Len(u) + i \in 1..Len(w) /\ w[Len(u) + i] = v[i]
  <2>1. Cuts(u, v, w)
    BY ConcatPositions
  <2> QED BY <2>1, Zenon DEF Cuts
<1>2. \A i, j \in 1..Len(w) : i < j => w[i] < w[j]
  BY DEF Ascending
<1>3. ASSUME NEW i \in 1..Len(u), NEW j \in 1..Len(u), i < j PROVE u[i] < u[j]
  BY <1>1, <1>2, <1>3, Zenon
<1>4. ASSUME NEW i \in 1..Len(v), NEW j \in 1..Len(v), i < j PROVE v[i] < v[j]
  <2>1. Len(u) + i < Len(u) + j
    BY <1>4
  <2> QED BY <1>1, <1>2, <2>1, Zenon
<1>5. ASSUME NEW i \in 1..Len(u), NEW j \in 1..Len(v) PROVE u[i] < v[j]
  <2>1. i < Len(u) + j
    OBVIOUS
  <2> QED BY <1>1, <1>2, <2>1, Zenon
<1> QED BY <1>3, <1>4, <1>5, Zenon DEF Ascending

LEMMA ConcatAscending ==
  ASSUME NEW u, NEW v, NEW w, ConcatOf(u, v, w), Len(u) \in Nat, Len(v) \in Nat,
         Ascending(u), Ascending(v), \A i \in 1..Len(u), j \in 1..Len(v) : u[i] < v[j]
  PROVE  Ascending(w)
<1>1. /\ \A i \in 1..Len(u) : i \in 1..Len(w) /\ w[i] = u[i]
      /\ \A j \in 1..Len(w) : j \in 1..Len(u) \/ (j - Len(u) \in 1..Len(v) /\ w[j] = v[j - Len(u)])
      /\ Len(w) \in Nat
  <2>1. Cuts(u, v, w)
    BY ConcatPositions
  <2> QED BY <2>1, Zenon DEF Cuts
<1>2. ASSUME NEW i \in 1..Len(w), NEW j \in 1..Len(w), i < j PROVE w[i] < w[j]
  <2>1. CASE i \in 1..Len(u) /\ j \in 1..Len(u)
    BY <1>1, <1>2, <2>1, Zenon DEF Ascending
  <2>2. CASE i \in 1..Len(u) /\ j \notin 1..Len(u)
    BY <1>1, <2>2, Zenon
  <2>3. CASE i \notin 1..Len(u)
    <3>1. j \notin 1..Len(u) /\ i - Len(u) < j - Len(u)
      BY <1>1, <1>2, <2>3
    <3> QED BY <1>1, <2>3, <3>1, Zenon DEF Ascending
  <2> QED BY <2>1, <2>2, <2>3
<1> QED BY <1>2, Zenon DEF Ascending

(***************************************************************************)
(* Where the nodes stand: alive, leaves and inner nodes, and the link of a *)
(* kid to its parent.                                                      *)
(***************************************************************************)

Body(u, x) ==
  /\ u.outer = x.outer /\ u.keys = x.keys /\ u.values = x.values /\ u.kids = x.kids
Links(u, x) == u.next = x.next /\ u.previous = x.previous

(* In s the node k stands with p, to the right of c, and in h it does not. *)
Linked(h, s, p, i, c, k, key) ==
  /\ h \in Heaps /\ s \in Heaps
  /\ p \in Inners(h) /\ c \in Alive(h) /\ k \in Alive(h) /\ p # c /\ p # k /\ c # k
  /\ i \in 1..Len(h[p].kids) /\ h[p].kids[i] = c
  /\ s[p] \in Node /\ ~s[p].outer /\ s[p].parent = h[p].parent
  /\ InsertOf(h[p].keys, i, key, s[p].keys) /\ InsertOf(h[p].kids, i + 1, k, s[p].kids)
  /\ s[k] \in Node /\ Body(s[k], h[k]) /\ Links(s[k], h[k]) /\ s[k].parent = p
  /\ \A m \in NodeIds \ {p, k} : s[m] = h[m]

(* What is not freed is a node.                                            *)
LEMMA AliveIsNode ==
  ASSUME NEW h \in Heaps, NEW n \in Alive(h)
  PROVE  /\ n \in NodeIds /\ h[n] \in Node /\ h[n].outer \in BOOLEAN
         /\ h[n].keys \in Seq(Keys) /\ h[n].values \in Seq(Values) /\ h[n].kids \in Seq(NodeIds)
         /\ Len(h[n].keys) \in Nat /\ Len(h[n].kids) \in Nat /\ Len(h[n].values) \in Nat
         /\ \A j \in 1..Len(h[n].keys) :
              h[n].keys[j] \in Keys /\ h[n].keys[j] \in Nat /\ h[n].keys[j] > 0
         /\ \A j \in 1..Len(h[n].kids) : h[n].kids[j] \in NodeIds
<1>1. n \in NodeIds /\ h[n] \in Node
  BY DEF Heaps, Alive
<1>2. /\ h[n].outer \in BOOLEAN
      /\ h[n].keys \in Seq(Keys) /\ h[n].values \in Seq(Values) /\ h[n].kids \in Seq(NodeIds)
  BY <1>1 DEF Node
<1>3. ASSUME NEW S, NEW q \in Seq(S)
      PROVE  Len(q) \in Nat /\ \A j \in 1..Len(q) : q[j] \in S
  OBVIOUS
<1>4. \A j \in Keys : j \in Nat /\ j > 0
  BY MapAssumption
<1> QED BY <1>1, <1>2, <1>3, <1>4, Zenon

LEMMA LinkedAlive ==
  ASSUME NEW h, NEW s, NEW p, NEW i, NEW c, NEW k, NEW key, Linked(h, s, p, i, c, k, key)
  PROVE  /\ Alive(s) = Alive(h) /\ Leaves(s) = Leaves(h) /\ Inners(s) = Inners(h)
         /\ \A m \in Alive(h) : s[m].outer = h[m].outer
<1>1. \A m \in NodeIds : m = p \/ m = k \/ s[m] = h[m]
  BY DEF Linked
<1>2. h[p] # Freed /\ h[k] # Freed /\ s[p] # Freed /\ s[k] # Freed /\ p \in NodeIds /\ k \in NodeIds
  BY FreedAssumption DEF Linked, Alive, Inners
<1>3. ~h[p].outer /\ ~s[p].outer /\ s[k].outer = h[k].outer
  BY DEF Linked, Inners, Body
<1>4. Alive(s) = Alive(h)
  BY <1>1, <1>2 DEF Alive
<1>5. s[p].outer = h[p].outer
  <2>1. h[p] \in Node /\ s[p] \in Node
    BY <1>2 DEF Linked, Heaps
  <2> QED BY <1>3, <2>1 DEF Node
<1>6. \A m \in Alive(h) : s[m].outer = h[m].outer
  BY <1>1, <1>3, <1>5 DEF Alive
<1> QED BY <1>4, <1>6 DEF Leaves, Inners

(* The kid that was beside the tree finds its place in the parent.         *)
LEMMA LinkKeepsShape ==
  ASSUME NEW h, NEW s, NEW p, NEW i, NEW c, NEW k, NEW key, Linked(h, s, p, i, c, k, key),
         NEW r, NEW t, Shape(h, r, k, t), t[k] = t[c], k # NULL, r # k, c # r
  PROVE  Shape(s, r, NULL, t)
<1>1. /\ Alive(s) = Alive(h) /\ Leaves(s) = Leaves(h) /\ Inners(s) = Inners(h)
      /\ \A m \in Alive(h) : s[m].outer = h[m].outer
  BY LinkedAlive
<1>2. /\ h \in Heaps /\ s \in Heaps /\ NULL \notin Alive(h)
      /\ p \in Inners(h) /\ c \in Alive(h) /\ k \in Alive(h) /\ p # c /\ p # k /\ c # k
      /\ i \in 1..Len(h[p].kids) /\ h[p].kids[i] = c
      /\ s[p].parent = h[p].parent /\ s[k].parent = p
      /\ s[k].kids = h[k].kids /\ s[k].keys = h[k].keys /\ s[k].values = h[k].values
      /\ \A m \in Alive(h) \ {p, k} : s[m] = h[m]
  BY MapAssumption DEF Linked, Body, Alive
<1>3. /\ Len(s[p].kids) = Len(h[p].kids) + 1 /\ s[p].kids[i + 1] = k
      /\ \A j \in 1..((i + 1) - 1) : s[p].kids[j] = h[p].kids[j]
      /\ \A j \in (i + 1)..Len(h[p].kids) : s[p].kids[j + 1] = h[p].kids[j]
      /\ Len(s[p].keys) = Len(h[p].keys) + 1
  BY DEF Linked, InsertOf
<1>4. Len(h[p].kids) \in Nat /\ Len(h[p].keys) \in Nat /\ i \in Nat /\ i >= 1 /\ i <= Len(h[p].kids)
  BY <1>2, AliveIsNode DEF Inners
<1>5. /\ t \in [NodeIds -> Nat] /\ r \in Alive(h)
      /\ \A n \in Alive(h) : Placed(h, r, k, t, n)
      /\ \A n \in Leaves(h) : Len(h[n].values) = Len(h[n].keys)
      /\ \A n \in Inners(h) : Family(h, r, k, t, n)
  BY DEF Shape
<1>6. \A m : IsKid(h, m, p) => IsKid(s, m, p)
  <2>1. ASSUME NEW j \in 1..Len(h[p].kids) PROVE IsKid(s, h[p].kids[j], p)
    <3>1. CASE j <= i
      <4>1. j \in 1..((i + 1) - 1) /\ j \in 1..Len(s[p].kids)
        BY <1>3, <1>4, <3>1
      <4> QED BY <1>3, <4>1, Zenon DEF IsKid
    <3>2. CASE j > i
      <4>1. j \in (i + 1)..Len(h[p].kids) /\ j + 1 \in 1..Len(s[p].kids)
        BY <1>3, <1>4, <3>2
      <4> QED BY <1>3, <4>1, Zenon DEF IsKid
    <3> QED BY <1>4, <3>1, <3>2
  <2> QED BY <2>1, Zenon DEF IsKid
<1>7. IsKid(s, k, p)
  <2>1. i + 1 \in 1..Len(s[p].kids)
    BY <1>3, <1>4
  <2> QED BY <1>3, <2>1, Zenon DEF IsKid
<1>8. ASSUME NEW n \in Alive(h) PROVE Placed(s, r, NULL, t, n)
  <2>1. Placed(h, r, k, t, n) /\ Placed(h, r, k, t, k) /\ Placed(h, r, k, t, c)
    BY <1>2, <1>5
  <2>2. CASE n = k
    BY <1>1, <1>2, <1>7, <2>1, <2>2 DEF Placed
  <2>3. CASE n # k
    <3>1. s[n].parent = h[n].parent
      BY <1>2, <2>3
    <3>2. n # r => h[n].parent \in Inners(h) /\ IsKid(h, n, h[n].parent)
      BY <2>1, <2>3, Zenon DEF Placed
    <3>3. n # r => IsKid(s, n, h[n].parent)
      <4> SUFFICES ASSUME n # r PROVE IsKid(s, n, h[n].parent)
        OBVIOUS
      <4>1. CASE h[n].parent = p
        BY <1>6, <3>2, <4>1
      <4>2. CASE h[n].parent # p
        <5>1. s[h[n].parent].kids = h[h[n].parent].kids
          BY <1>2, <3>2, <4>2 DEF Inners
        <5> QED BY <3>2, <5>1, Zenon DEF IsKid
      <4> QED BY <4>1, <4>2
    <3> QED BY <1>1, <2>1, <2>3, <3>1, <3>2, <3>3, Zenon DEF Placed
  <2> QED BY <2>2, <2>3
<1>9. \A n \in Leaves(h) : Len(s[n].values) = Len(s[n].keys)
  <2>1. \A n \in Leaves(h) : n \in Alive(h) /\ n # p
    BY <1>2 DEF Leaves, Inners
  <2> QED BY <1>2, <1>5, <2>1
<1>10. ASSUME NEW n \in Inners(h) PROVE Family(s, r, NULL, t, n)
  <2> DEFINE ks == h[n].kids
             us == s[n].kids
  <2>1. n \in Alive(h)
    BY DEF Inners
  <2>2. /\ Len(ks) = Len(h[n].keys) + 1 /\ Distinct(ks)
        /\ \A j \in 1..Len(ks) :
             ks[j] \in Alive(h) \ {r, k} /\ h[ks[j]].parent = n /\ t[ks[j]] + 1 = t[n]
    BY <1>5, Zenon DEF Family
  <2>3. \A m \in Alive(h) \ {k} : s[m].parent = h[m].parent
    BY <1>2
  <2>4. CASE n # p
    <3>1. us = ks /\ s[n].keys = h[n].keys
      BY <1>2, <2>1, <2>4
    <3> HIDE DEF us, ks
    <3>2. \A j \in 1..Len(us) :
             us[j] \in Alive(s) \ {r, NULL} /\ s[us[j]].parent = n /\ t[us[j]] + 1 = t[n]
      BY <1>1, <1>2, <2>2, <2>3, <3>1
    <3>3. Len(us) = Len(s[n].keys) + 1 /\ Distinct(us)
      BY <2>2, <3>1
    <3> QED BY <3>2, <3>3, Zenon DEF Family, us
  <2>5. CASE n = p
    <3>1. /\ Len(us) = Len(ks) + 1 /\ us[i + 1] = k
          /\ \A j \in 1..((i + 1) - 1) : us[j] = ks[j]
          /\ \A j \in (i + 1)..Len(ks) : us[j + 1] = ks[j]
          /\ Len(s[n].keys) = Len(h[n].keys) + 1
          /\ Len(ks) \in Nat /\ Len(h[n].keys) \in Nat /\ i \in Nat /\ i <= Len(ks)
      BY <1>3, <1>4, <2>5
    <3>4. t[k] + 1 = t[n] /\ s[k].parent = n
      <4>1. t[c] + 1 = t[n]
        BY <1>2, <2>2, <2>5
      <4> QED BY <1>2, <2>5, <4>1
    <3> HIDE DEF us, ks
    <3>2. InsertOf(ks, i + 1, k, us) /\ i + 1 \in 1..(Len(ks) + 1)
      <4>1. i + 1 \in 1..(Len(ks) + 1)
        BY <1>4, <3>1
      <4> QED BY <3>1, <4>1, Zenon DEF InsertOf
    <3>3. /\ \A j \in 1..Len(us) : us[j] = k \/ \E l \in 1..Len(ks) : us[j] = ks[l]
          /\ Distinct(ks) /\ (\A l \in 1..Len(ks) : ks[l] # k) <=> Distinct(us)
      <4>1. Extended(ks, k, us)
        BY <3>1, <3>2, InsertedElements
      <4> QED BY <4>1, Zenon DEF Extended
    <3>7. ASSUME NEW j \in 1..Len(us)
          PROVE  us[j] \in Alive(s) \ {r, NULL} /\ s[us[j]].parent = n /\ t[us[j]] + 1 = t[n]
      <4>1. CASE us[j] = k
        BY <1>1, <1>2, <3>4, <4>1
      <4>2. ASSUME NEW l \in 1..Len(ks), us[j] = ks[l]
            PROVE  us[j] \in Alive(s) \ {r, NULL} /\ s[us[j]].parent = n /\ t[us[j]] + 1 = t[n]
        BY <1>1, <1>2, <2>2, <2>3, <4>2
      <4> QED BY <3>3, <4>1, <4>2, Zenon
    <3>5. Distinct(us)
      BY <2>2, <3>3
    <3>6. Len(us) = Len(s[n].keys) + 1
      BY <2>2, <3>1
    <3> QED BY <3>5, <3>6, <3>7, Zenon DEF Family, us
  <2> QED BY <2>4, <2>5
<1> QED BY <1>1, <1>2, <1>5, <1>8, <1>9, <1>10, Zenon DEF Shape

(* And the other way: a kid that leaves its parent is beside the tree.     *)
LEMMA UnlinkKeepsShape ==
  ASSUME NEW h, NEW s, NEW p, NEW i, NEW c, NEW k, NEW key, Linked(h, s, p, i, c, k, key),
         NEW r, NEW t, Shape(s, r, NULL, t), k # NULL, r # k
  PROVE  Shape(h, r, k, t)
<1>1. /\ Alive(s) = Alive(h) /\ Leaves(s) = Leaves(h) /\ Inners(s) = Inners(h)
      /\ \A m \in Alive(h) : s[m].outer = h[m].outer
  BY LinkedAlive
<1>2. /\ h \in Heaps /\ s \in Heaps /\ NULL \notin Alive(h)
      /\ p \in Inners(h) /\ c \in Alive(h) /\ k \in Alive(h) /\ p # c /\ p # k /\ c # k
      /\ i \in 1..Len(h[p].kids) /\ h[p].kids[i] = c
      /\ s[p].parent = h[p].parent /\ s[k].parent = p
      /\ s[k].kids = h[k].kids /\ s[k].keys = h[k].keys /\ s[k].values = h[k].values
      /\ \A m \in Alive(h) \ {p, k} : s[m] = h[m]
  BY MapAssumption DEF Linked, Body, Alive
<1>3. /\ InsertOf(h[p].kids, i + 1, k, s[p].kids)
      /\ Len(s[p].kids) = Len(h[p].kids) + 1
      /\ Len(s[p].keys) = Len(h[p].keys) + 1
  BY DEF Linked, InsertOf
<1>4. Len(h[p].kids) \in Nat /\ Len(h[p].keys) \in Nat /\ i + 1 \in 1..(Len(h[p].kids) + 1)
  BY <1>2, AliveIsNode DEF Inners
<1>5. /\ t \in [NodeIds -> Nat] /\ r \in Alive(h)
      /\ \A n \in Alive(h) : Placed(s, r, NULL, t, n)
      /\ \A n \in Leaves(h) : Len(s[n].values) = Len(s[n].keys)
      /\ \A n \in Inners(h) : Family(s, r, NULL, t, n)
  BY <1>1 DEF Shape
<1>6. /\ \A j \in 1..Len(s[p].kids) :
           s[p].kids[j] = k \/ \E l \in 1..Len(h[p].kids) : s[p].kids[j] = h[p].kids[l]
      /\ \A l \in 1..Len(h[p].kids) : \E j \in 1..Len(s[p].kids) : s[p].kids[j] = h[p].kids[l]
      /\ Distinct(h[p].kids) /\ \A l \in 1..Len(h[p].kids) : h[p].kids[l] # k
  <2>1. Extended(h[p].kids, k, s[p].kids)
    BY <1>3, <1>4, InsertedElements
  <2>2. Distinct(s[p].kids)
    BY <1>2, <1>5, Zenon DEF Family
  <2> QED BY <2>1, <2>2, Zenon DEF Extended
<1>8. ASSUME NEW n \in Alive(h) PROVE Placed(h, r, k, t, n)
  <2>1. Placed(s, r, NULL, t, n)
    BY <1>5
  <2>2. CASE n = k
    BY <1>1, <1>2, <2>1, <2>2 DEF Placed
  <2>3. CASE n # k
    <3>1. s[n].parent = h[n].parent
      BY <1>2, <2>3
    <3>2. n # r => h[n].parent \in Inners(h) /\ IsKid(s, n, h[n].parent)
      <4>1. n # NULL
        BY <1>2
      <4> QED BY <1>1, <2>1, <3>1, <4>1, Zenon DEF Placed
    <3>3. n # r => IsKid(h, n, h[n].parent)
      <4> SUFFICES ASSUME n # r PROVE IsKid(h, n, h[n].parent)
        OBVIOUS
      <4>1. CASE h[n].parent = p
        <5>1. PICK j \in 1..Len(s[p].kids) : s[p].kids[j] = n
          BY <3>2, <4>1, Zenon DEF IsKid
        <5>2. \E l \in 1..Len(h[p].kids) : s[p].kids[j] = h[p].kids[l]
          BY <1>6, <2>3, <5>1, Zenon
        <5>3. \E l \in 1..Len(h[p].kids) : h[p].kids[l] = n
          BY <5>1, <5>2, Zenon
        <5> QED BY <4>1, <5>3, Zenon DEF IsKid
      <4>3. CASE h[n].parent = k
        <5>1. s[h[n].parent].kids = h[h[n].parent].kids
          BY <1>2, <4>3
        <5> QED BY <3>2, <5>1, Zenon DEF IsKid
      <4>2. CASE h[n].parent # p /\ h[n].parent # k
        <5>1. s[h[n].parent].kids = h[h[n].parent].kids
          BY <1>2, <3>2, <4>2 DEF Inners
        <5> QED BY <3>2, <5>1, Zenon DEF IsKid
      <4> QED BY <4>1, <4>2, <4>3
    <3> QED BY <1>1, <2>1, <2>3, <3>1, <3>2, <3>3, Zenon DEF Placed
  <2> QED BY <2>2, <2>3
<1>9. \A n \in Leaves(h) : Len(h[n].values) = Len(h[n].keys)
  <2>1. \A n \in Leaves(h) : n \in Alive(h) /\ n # p
    BY <1>2 DEF Leaves, Inners
  <2> QED BY <1>2, <1>5, <2>1
<1>10. ASSUME NEW n \in Inners(h) PROVE Family(h, r, k, t, n)
  <2> DEFINE ks == h[n].kids
             us == s[n].kids
  <2>1. n \in Alive(h)
    BY DEF Inners
  <2>2. /\ Len(us) = Len(s[n].keys) + 1 /\ Distinct(us)
        /\ \A j \in 1..Len(us) :
             us[j] \in Alive(h) \ {r, NULL} /\ s[us[j]].parent = n /\ t[us[j]] + 1 = t[n]
    BY <1>1, <1>5, Zenon DEF Family
  <2>3. \A m \in Alive(h) \ {k} : s[m].parent = h[m].parent
    BY <1>2
  <2>4. CASE n # p
    <3>1. us = ks /\ s[n].keys = h[n].keys
      BY <1>2, <2>1, <2>4
    <3> HIDE DEF us, ks
    <3>2. \A j \in 1..Len(ks) :
             ks[j] \in Alive(h) \ {r, k} /\ h[ks[j]].parent = n /\ t[ks[j]] + 1 = t[n]
      BY <1>2, <2>2, <2>3, <2>4, <3>1
    <3>3. Len(ks) = Len(h[n].keys) + 1 /\ Distinct(ks)
      BY <2>2, <3>1
    <3> QED BY <3>2, <3>3, Zenon DEF Family, ks
  <2>5. CASE n = p
    <3>1. /\ \A l \in 1..Len(ks) : \E j \in 1..Len(us) : us[j] = ks[l]
          /\ Distinct(ks) /\ \A l \in 1..Len(ks) : ks[l] # k
          /\ Len(us) = Len(ks) + 1 /\ Len(s[n].keys) = Len(h[n].keys) + 1
          /\ Len(ks) \in Nat /\ Len(h[n].keys) \in Nat
      BY <1>3, <1>4, <1>6, <2>5
    <3> HIDE DEF us, ks
    <3>2. \A j \in 1..Len(ks) :
             ks[j] \in Alive(h) \ {r, k} /\ h[ks[j]].parent = n /\ t[ks[j]] + 1 = t[n]
      BY <2>2, <2>3, <3>1
    <3>6. Len(ks) = Len(h[n].keys) + 1
      BY <2>2, <3>1
    <3> QED BY <3>1, <3>2, <3>6, Zenon DEF Family, ks
  <2> QED BY <2>4, <2>5
<1> QED BY <1>1, <1>2, <1>5, <1>8, <1>9, <1>10, Zenon DEF Shape

(***************************************************************************)
(* The keys below each node when a kid is linked.                          *)
(***************************************************************************)

Reaching(x, u, i, k, key, lo, up, after) ==
  /\ Len(x.keys) \in Nat /\ Len(x.kids) = Len(x.keys) + 1 /\ i \in 1..Len(x.kids)
  /\ InsertOf(x.keys, i, key, u.keys) /\ InsertOf(x.kids, i + 1, k, u.kids)
  /\ lo[k] = key /\ after[x.kids[i]] = key /\ after[k] = up[x.kids[i]]
  /\ \A j \in 1..Len(x.kids) : j # i => after[x.kids[j]] = up[x.kids[j]]

LEMMA FencesLinked ==
  ASSUME NEW x, NEW u, NEW i, NEW k, NEW key, NEW lo, NEW up, NEW upAfter,
         Reaching(x, u, i, k, key, lo, up, upAfter),
         NEW low, NEW high, Fences(x, low, high, lo, up)
  PROVE  Fences(u, low, high, lo, upAfter)
<1> DEFINE n == Len(x.keys)
           xk == x.keys
           xm == x.kids
           uk == u.keys
           um == u.kids
<1>1. /\ n \in Nat /\ i \in Nat /\ i >= 1 /\ i <= n + 1
      /\ Len(uk) = n + 1 /\ uk[i] = key /\ Len(um) = n + 2 /\ um[i + 1] = k
      /\ \A j \in 1..(i - 1) : uk[j] = xk[j]
      /\ \A j \in i..n : uk[j + 1] = xk[j]
      /\ \A j \in 1..((i + 1) - 1) : um[j] = xm[j]
      /\ \A j \in (i + 1)..(n + 1) : um[j + 1] = xm[j]
  BY DEF InsertOf, Reaching
<1>2. /\ lo[xm[1]] = low /\ up[xm[n + 1]] = high
      /\ \A j \in 1..n : lo[xm[j + 1]] = xk[j] /\ up[xm[j]] = xk[j]
  BY Zenon DEF Fences
<1>3. /\ lo[k] = key /\ upAfter[xm[i]] = key /\ upAfter[k] = up[xm[i]]
      /\ \A j \in 1..(n + 1) : j # i => upAfter[xm[j]] = up[xm[j]]
  BY Zenon DEF Reaching
<1> HIDE DEF n, xk, xm, uk, um
<1>4. lo[um[1]] = low
  <2>1. 1 \in 1..((i + 1) - 1)
    BY <1>1
  <2> QED BY <1>1, <1>2, <2>1, Zenon
<1>5. upAfter[um[Len(uk) + 1]] = high
  <2>1. CASE i = n + 1
    <3>1. Len(uk) + 1 = i + 1
      BY <1>1, <2>1
    <3> QED BY <1>1, <1>2, <1>3, <2>1, <3>1, Zenon
  <2>2. CASE i # n + 1
    <3>1. n + 1 \in (i + 1)..(n + 1) /\ Len(uk) + 1 = (n + 1) + 1 /\ n + 1 \in 1..(n + 1)
      BY <1>1, <2>2
    <3>2. um[(n + 1) + 1] = xm[n + 1]
      BY <1>1, <3>1, Zenon
    <3>3. upAfter[xm[n + 1]] = up[xm[n + 1]]
      BY <1>3, <2>2, <3>1, Zenon
    <3> QED BY <1>2, <3>1, <3>2, <3>3, Zenon
  <2> QED BY <2>1, <2>2
<1>6. ASSUME NEW j \in 1..Len(uk) PROVE lo[um[j + 1]] = uk[j] /\ upAfter[um[j]] = uk[j]
  <2>1. CASE j < i
    <3>0. j \in Nat /\ j >= 1
      BY <1>1
    <3>1. j \in 1..(i - 1) /\ j \in 1..((i + 1) - 1) /\ j + 1 \in 1..((i + 1) - 1) /\ j \in 1..n
          /\ j \in 1..(n + 1) /\ j # i
      BY <1>1, <2>1, <3>0
    <3>2. uk[j] = xk[j] /\ um[j] = xm[j] /\ um[j + 1] = xm[j + 1]
      BY <1>1, <3>1, Zenon
    <3> QED BY <1>2, <1>3, <3>1, <3>2, Zenon
  <2>2. CASE j = i
    <3>1. i \in 1..((i + 1) - 1)
      BY <1>1
    <3> QED BY <1>1, <1>3, <2>2, <3>1, Zenon
  <2>3. CASE j > i
    <3>1. /\ j - 1 \in i..n /\ (j - 1) + 1 = j /\ j \in (i + 1)..(n + 1) /\ j - 1 \in 1..n
          /\ j \in 1..(n + 1) /\ j # i /\ j - 1 \in 1..(n + 1)
      BY <1>1, <2>3
    <3>2. uk[j] = xk[j - 1]
      <4>1. uk[(j - 1) + 1] = xk[j - 1]
        BY <1>1, <3>1, Zenon
      <4> QED BY <3>1, <4>1, Zenon
    <3>3. lo[um[j + 1]] = uk[j]
      <4>1. um[j + 1] = xm[j]
        BY <1>1, <3>1, Zenon
      <4>2. lo[xm[(j - 1) + 1]] = xk[j - 1]
        BY <1>2, <3>1, Zenon
      <4> QED BY <3>1, <3>2, <4>1, <4>2, Zenon
    <3>4. upAfter[um[j]] = up[xm[j - 1]]
      <4>1. CASE j = i + 1
        <5>1. j - 1 = i
          BY <1>1, <4>1
        <5> QED BY <1>1, <1>3, <4>1, <5>1, Zenon
      <4>2. CASE j # i + 1
        <5>1. j - 1 \in (i + 1)..(n + 1) /\ j - 1 # i
          BY <1>1, <3>1, <4>2
        <5>2. um[(j - 1) + 1] = xm[j - 1]
          BY <1>1, <5>1, Zenon
        <5> QED BY <1>3, <3>1, <5>1, <5>2, Zenon
      <4> QED BY <4>1, <4>2
    <3> QED BY <1>2, <3>1, <3>2, <3>3, <3>4, Zenon
  <2> QED BY <1>1, <2>1, <2>2, <2>3
<1> QED BY <1>4, <1>5, <1>6, Zenon DEF Fences, uk, um

LEMMA RangedLinked ==
  ASSUME NEW x, NEW u, u.outer = x.outer, ~x.outer, Len(x.keys) \in Nat,
         \A j \in 1..Len(x.keys) : x.keys[j] \in Nat,
         NEW i \in 1..(Len(x.keys) + 1), NEW key \in Nat,
         InsertOf(x.keys, i, key, u.keys),
         NEW low \in Nat, NEW high \in Nat, Ranged(x, low, high),
         low < key, Under(key, high),
         \A j \in 1..Len(x.keys) : (j = i - 1 => x.keys[j] < key) /\ (j = i => key < x.keys[j])
  PROVE  Ranged(u, low, high)
<1>1. /\ Under(low, high) /\ Ascending(x.keys)
      /\ \A j \in 1..Len(x.keys) : low < x.keys[j] /\ Under(x.keys[j], high)
  BY Zenon DEF Ranged
<1>2. Ascending(u.keys)
  BY <1>1, InsertedAscending
<1>3. \A j \in 1..Len(u.keys) : u.keys[j] = key \/ \E l \in 1..Len(x.keys) : u.keys[j] = x.keys[l]
  <2>1. Extended(x.keys, key, u.keys)
    BY InsertedElements
  <2> QED BY <2>1, Zenon DEF Extended
<1>4. ASSUME NEW j \in 1..Len(u.keys)
      PROVE  low <= u.keys[j] /\ Under(u.keys[j], high) /\ low < u.keys[j]
  <2>1. u.keys[j] \in Nat /\ low < u.keys[j] /\ Under(u.keys[j], high)
    BY <1>1, <1>3, Zenon
  <2>2. low <= u.keys[j]
    BY <2>1
  <2> QED BY <2>1, <2>2
<1> QED BY <1>1, <1>2, <1>4, Zenon DEF Ranged

LEMMA UpperIs ==
  ASSUME NEW hi \in [NodeIds -> Nat], NEW c, NEW k
  PROVE  /\ k = NULL => Upper(hi, c, k) = hi
         /\ k # NULL /\ c \in NodeIds => Upper(hi, c, k)[c] = hi[k]
         /\ k # NULL => \A m \in NodeIds : m # c => Upper(hi, c, k)[m] = hi[m]
BY DEF Upper

LEMMA FencesKept ==
  ASSUME NEW x, NEW u, u.keys = x.keys, u.kids = x.kids,
         Len(x.keys) \in Nat, Len(x.kids) = Len(x.keys) + 1,
         NEW lo, NEW after, NEW up, NEW upAfter, NEW low, NEW high, Fences(x, low, high, lo, up),
         \A j \in 1..Len(x.kids) : after[x.kids[j]] = lo[x.kids[j]]
                                   /\ upAfter[x.kids[j]] = up[x.kids[j]]
  PROVE  Fences(u, low, high, after, upAfter)
<1>1. /\ lo[x.kids[1]] = low /\ up[x.kids[Len(x.keys) + 1]] = high
      /\ \A j \in 1..Len(x.keys) : lo[x.kids[j + 1]] = x.keys[j] /\ up[x.kids[j]] = x.keys[j]
  BY Zenon DEF Fences
<1>2. /\ 1 \in 1..Len(x.kids) /\ Len(x.keys) + 1 \in 1..Len(x.kids)
      /\ \A j \in 1..Len(x.keys) : j \in 1..Len(x.kids) /\ j + 1 \in 1..Len(x.kids)
  OBVIOUS
<1>3. after[x.kids[1]] = low /\ upAfter[x.kids[Len(x.keys) + 1]] = high
  BY <1>1, <1>2, Zenon
<1>4. \A j \in 1..Len(x.keys) : after[x.kids[j + 1]] = x.keys[j] /\ upAfter[x.kids[j]] = x.keys[j]
  BY <1>1, <1>2, Zenon
<1> QED BY <1>3, <1>4, Zenon DEF Fences

(* The key that kin was to be linked with becomes the fence between it and *)
(* current.                                                                *)
LEMMA LinkKeepsOrder ==
  ASSUME NEW h, NEW s, NEW p, NEW i, NEW c, NEW k, NEW key, Linked(h, s, p, i, c, k, key),
         NEW r, NEW t, Shape(h, r, k, t), t[k] = t[c], k # NULL, r # k, c # r,
         NEW lo, NEW hi, Ordered(h, r, k, c, t, lo, hi), hi[c] = key, key \in Keys, NEW any
  PROVE  Ordered(s, r, NULL, any, t, lo, hi)
<1> DEFINE up == Upper(hi, c, k)
           after == Upper(hi, any, NULL)
<1>1. /\ Alive(s) = Alive(h) /\ Leaves(s) = Leaves(h) /\ Inners(s) = Inners(h)
      /\ \A m \in Alive(h) : s[m].outer = h[m].outer
  BY LinkedAlive
<1>2. /\ h \in Heaps /\ NULL \notin Alive(h)
      /\ p \in Inners(h) /\ c \in Alive(h) /\ k \in Alive(h) /\ p # c /\ p # k /\ c # k
      /\ i \in 1..Len(h[p].kids) /\ h[p].kids[i] = c
      /\ Body(s[k], h[k]) /\ ~s[p].outer /\ ~h[p].outer
      /\ InsertOf(h[p].keys, i, key, s[p].keys) /\ InsertOf(h[p].kids, i + 1, k, s[p].kids)
      /\ \A m \in Alive(h) \ {p, k} : s[m] = h[m]
  BY MapAssumption DEF Linked, Alive, Inners
<1>3. /\ lo \in [NodeIds -> Nat] /\ hi \in [NodeIds -> Nat]
      /\ \A n \in Alive(h) : Ranged(h[n], lo[n], hi[n])
      /\ \A n \in Inners(h) : Fences(h[n], lo[n], hi[n], lo, up)
      /\ \A m, n \in Alive(h) : m # n /\ t[m] = t[n] => Apart(lo, hi, m, n)
      /\ lo[r] = 0 /\ up[r] = 0 /\ hi[c] = lo[k]
  BY Zenon DEF Ordered
<1>4. p \in Alive(h) /\ Alive(h) \subseteq NodeIds /\ r \in Alive(h)
  BY <1>2 DEF Inners, Alive, Shape
<1>5. after = hi /\ up[c] = hi[k] /\ \A m \in NodeIds : m # c => up[m] = hi[m]
  <2>1. c \in NodeIds /\ k # NULL
    BY <1>2, <1>4
  <2>2. hi \in [NodeIds -> Nat]
    BY <1>3
  <2>3. after = hi
    BY <2>2, UpperIs
  <2>4. up[c] = hi[k]
    BY <2>1, <2>2, UpperIs
  <2>5. \A m \in NodeIds : m # c => up[m] = hi[m]
    BY <2>1, <2>2, UpperIs
  <2> QED BY <2>3, <2>4, <2>5, Zenon
<1>6. Family(h, r, k, t, p)
  BY <1>2 DEF Shape
<1>7. /\ Len(h[p].kids) = Len(h[p].keys) + 1 /\ Distinct(h[p].kids)
      /\ \A j \in 1..Len(h[p].kids) : h[p].kids[j] \in Alive(h)
  BY <1>6, Zenon DEF Family
<1> HIDE DEF up, after
<1>8. Len(h[p].keys) \in Nat /\ \A j \in 1..Len(h[p].keys) : h[p].keys[j] \in Nat
  BY <1>2, <1>4, AliveIsNode, Zenon
<1>9. Fences(s[p], lo[p], hi[p], lo, after)
  <2>1. \A j \in 1..Len(h[p].kids) : j # i => after[h[p].kids[j]] = up[h[p].kids[j]]
    <3>1. ASSUME NEW j \in 1..Len(h[p].kids), j # i PROVE h[p].kids[j] # c
      BY <1>2, <1>7, <3>1 DEF Distinct
    <3> QED BY <1>4, <1>5, <1>7, <3>1
  <2>2. lo[k] = key /\ after[h[p].kids[i]] = key /\ after[k] = up[h[p].kids[i]]
    BY <1>2, <1>3, <1>5
  <2>3. Fences(h[p], lo[p], hi[p], lo, up)
    BY <1>2, <1>3
  <2>4. /\ InsertOf(h[p].keys, i, key, s[p].keys) /\ InsertOf(h[p].kids, i + 1, k, s[p].kids)
        /\ i \in 1..Len(h[p].kids) /\ lo[k] = key
        /\ Len(h[p].keys) \in Nat /\ Len(h[p].kids) = Len(h[p].keys) + 1 /\ Distinct(h[p].kids)
    BY <1>2, <1>7, <1>8, <2>2, Zenon
  <2>5. Reaching(h[p], s[p], i, k, key, lo, up, after)
    BY <2>1, <2>2, <2>4, Zenon DEF Reaching
  <2> QED BY <2>3, <2>5, FencesLinked, Zenon
<1>10. Ranged(s[p], lo[p], hi[p])
  <2>1. /\ lo[c] \in Nat /\ hi[c] \in Nat /\ lo[k] \in Nat /\ hi[k] \in Nat
        /\ lo[p] \in Nat /\ hi[p] \in Nat /\ key \in Nat
    BY <1>2, <1>3, <1>4
  <2>2. Under(lo[c], hi[c]) /\ Under(lo[k], hi[k])
    BY <1>2, <1>3, Zenon DEF Ranged
  <2>3. /\ lo[h[p].kids[1]] = lo[p] /\ up[h[p].kids[Len(h[p].keys) + 1]] = hi[p]
        /\ \A j \in 1..Len(h[p].keys) :
             lo[h[p].kids[j + 1]] = h[p].keys[j] /\ up[h[p].kids[j]] = h[p].keys[j]
    BY <1>2, <1>3, Zenon DEF Fences
  <2>4. Ranged(h[p], lo[p], hi[p])
    BY <1>3, <1>4
  <2>5. \A j \in 1..Len(h[p].keys) : lo[p] < h[p].keys[j] /\ Under(h[p].keys[j], hi[p])
    BY <1>2, <2>4, Zenon DEF Ranged
  <2>6. i \in Nat /\ i >= 1 /\ i <= Len(h[p].keys) + 1
    BY <1>2, <1>7, <1>8
  <2>7. lo[c] = IF i = 1 THEN lo[p] ELSE h[p].keys[i - 1]
    <3>1. CASE i = 1
      BY <1>2, <2>3, <3>1, Zenon
    <3>2. CASE i # 1
      <4>1. i - 1 \in 1..Len(h[p].keys) /\ (i - 1) + 1 = i
        BY <1>8, <2>6, <3>2
      <4>2. lo[h[p].kids[(i - 1) + 1]] = h[p].keys[i - 1]
        BY <2>3, <4>1, Zenon
      <4> QED BY <1>2, <3>2, <4>1, <4>2, Zenon
    <3> QED BY <3>1, <3>2
  <2>8. hi[k] = IF i = Len(h[p].keys) + 1 THEN hi[p] ELSE h[p].keys[i]
    <3>1. CASE i = Len(h[p].keys) + 1
      BY <1>2, <1>5, <2>3, <3>1, Zenon
    <3>2. CASE i # Len(h[p].keys) + 1
      <4>1. i \in 1..Len(h[p].keys)
        BY <1>8, <2>6, <3>2
      <4> QED BY <1>2, <1>5, <2>3, <3>2, <4>1, Zenon
    <3> QED BY <3>1, <3>2
  <2>9. key > 0
    BY MapAssumption
  <2>10. lo[p] < key
    <3>1. lo[c] < key
      BY <1>3, <2>1, <2>2, <2>9 DEF Under
    <3>2. CASE i = 1
      BY <2>7, <3>1, <3>2
    <3>3. CASE i # 1
      <4>1. i - 1 \in 1..Len(h[p].keys)
        BY <1>8, <2>6, <3>3
      <4>2. lo[p] < lo[c]
        BY <2>5, <2>7, <3>3, <4>1
      <4> QED BY <2>1, <3>1, <4>2
    <3> QED BY <3>2, <3>3
  <2>11. Under(key, hi[k])
    BY <1>3, <2>2
  <2>12. Under(key, hi[p])
    <3>2. CASE i = Len(h[p].keys) + 1
      BY <2>8, <2>11, <3>2
    <3>3. CASE i # Len(h[p].keys) + 1
      <4>1. i \in 1..Len(h[p].keys)
        BY <1>8, <2>6, <3>3
      <4>2. Under(hi[k], hi[p]) /\ hi[k] > 0
        BY <1>8, <2>1, <2>5, <2>8, <3>3, <4>1
      <4> QED BY <2>1, <2>11, <4>2 DEF Under
    <3> QED BY <3>2, <3>3
  <2>13. ASSUME NEW j \in 1..Len(h[p].keys)
         PROVE  (j = i - 1 => h[p].keys[j] < key) /\ (j = i => key < h[p].keys[j])
    <3>1. ASSUME j = i - 1 PROVE h[p].keys[j] < key
      <4>1. i # 1 /\ lo[c] = h[p].keys[j]
        BY <2>6, <2>7, <3>1
      <4> QED BY <1>3, <2>1, <2>2, <2>9, <4>1 DEF Under
    <3>2. ASSUME j = i PROVE key < h[p].keys[j]
      <4>1. hi[k] = h[p].keys[j] /\ h[p].keys[j] \in Nat /\ lo[p] < h[p].keys[j]
        BY <1>8, <2>5, <2>6, <2>8, <3>2
      <4> QED BY <2>1, <2>11, <4>1 DEF Under
    <3> QED BY <3>1, <3>2
  <2>14. s[p].outer = h[p].outer
    BY <1>1, <1>4
  <2>15. i \in 1..(Len(h[p].keys) + 1)
    BY <1>2, <1>7
  <2> QED BY <1>2, <1>8, <2>1, <2>4, <2>10, <2>12, <2>13, <2>14, <2>15, RangedLinked
<1>11. ASSUME NEW n \in Alive(h) PROVE Ranged(s[n], lo[n], hi[n])
  <2>1. CASE n = p
    BY <1>10, <2>1
  <2>2. CASE n = k
    <3>1. Ranged(h[k], lo[k], hi[k])
      BY <1>2, <1>3
    <3> QED BY <1>2, <2>2, <3>1, Zenon DEF Body, Ranged
  <2>3. CASE n # p /\ n # k
    BY <1>2, <1>3, <2>3
  <2> QED BY <2>1, <2>2, <2>3
<1>12. ASSUME NEW n \in Inners(h) PROVE Fences(s[n], lo[n], hi[n], lo, after)
  <2>1. CASE n = p
    BY <1>9, <2>1
  <2>2. CASE n # p
    <3>1. Fences(h[n], lo[n], hi[n], lo, up)
      BY <1>3
    <3>2. s[n].keys = h[n].keys /\ s[n].kids = h[n].kids /\ n \in Alive(h)
      BY <1>2, <2>2 DEF Body, Inners
    <3>3. Family(h, r, k, t, n)
      BY DEF Shape
    <3>4. Family(h, r, k, t, n) /\ h[c].parent = p
      BY <1>2, <1>6, <3>3, Zenon DEF Family
    <3>5. ASSUME NEW j \in 1..Len(h[n].kids) PROVE after[h[n].kids[j]] = up[h[n].kids[j]]
      <4>1. h[n].kids[j] # c /\ h[n].kids[j] \in NodeIds
        BY <1>4, <2>2, <3>4 DEF Family
      <4> QED BY <1>5, <4>1
    <3>6. Len(h[n].kids) = Len(h[n].keys) + 1 /\ Len(h[n].keys) \in Nat
      BY <1>2, <3>2, <3>3, AliveIsNode, Zenon DEF Family
    <3>7. \A j \in 1..Len(h[n].kids) : lo[h[n].kids[j]] = lo[h[n].kids[j]]
                                        /\ after[h[n].kids[j]] = up[h[n].kids[j]]
      BY <3>5
    <3> HIDE DEF after, up
    <3> QED BY <3>1, <3>2, <3>6, <3>7, FencesKept, Zenon
  <2> QED BY <2>1, <2>2
<1>13. after[r] = 0
  BY <1>3, <1>4, <1>5
<1> QED BY <1>1, <1>3, <1>11, <1>12, <1>13, Zenon DEF Ordered, after

Leaving(x, u, i, k, key, lo, up, after) ==
  /\ Len(x.keys) \in Nat /\ Len(x.kids) = Len(x.keys) + 1 /\ i \in 1..Len(x.kids)
  /\ InsertOf(x.keys, i, key, u.keys) /\ InsertOf(x.kids, i + 1, k, u.kids)
  /\ up[x.kids[i]] = after[k]
  /\ \A j \in 1..Len(x.kids) : j # i => up[x.kids[j]] = after[x.kids[j]]

LEMMA FencesUnlinked ==
  ASSUME NEW x, NEW u, NEW i, NEW k, NEW key, NEW lo, NEW up, NEW upAfter,
         Leaving(x, u, i, k, key, lo, up, upAfter),
         NEW low, NEW high, Fences(u, low, high, lo, upAfter)
  PROVE  /\ Fences(x, low, high, lo, up) /\ lo[k] = key /\ upAfter[x.kids[i]] = key
<1> DEFINE n == Len(x.keys)
           xk == x.keys
           xm == x.kids
           uk == u.keys
           um == u.kids
<1>1. /\ n \in Nat /\ i \in Nat /\ i >= 1 /\ i <= n + 1
      /\ Len(uk) = n + 1 /\ uk[i] = key /\ Len(um) = n + 2 /\ um[i + 1] = k
      /\ \A j \in 1..(i - 1) : uk[j] = xk[j]
      /\ \A j \in i..n : uk[j + 1] = xk[j]
      /\ \A j \in 1..((i + 1) - 1) : um[j] = xm[j]
      /\ \A j \in (i + 1)..(n + 1) : um[j + 1] = xm[j]
  BY DEF InsertOf, Leaving
<1>2. /\ lo[um[1]] = low /\ upAfter[um[(n + 1) + 1]] = high
      /\ \A j \in 1..(n + 1) : lo[um[j + 1]] = uk[j] /\ upAfter[um[j]] = uk[j]
  BY <1>1, Zenon DEF Fences, uk, um
<1>3. /\ up[xm[i]] = upAfter[k]
      /\ \A j \in 1..(n + 1) : j # i => up[xm[j]] = upAfter[xm[j]]
  BY Zenon DEF Leaving
<1> HIDE DEF n, xk, xm, uk, um
<1>7. lo[k] = key /\ upAfter[xm[i]] = key
  <2>1. i \in 1..(n + 1) /\ i \in 1..((i + 1) - 1)
    BY <1>1
  <2> QED BY <1>1, <1>2, <2>1, Zenon
<1>4. lo[xm[1]] = low
  <2>1. 1 \in 1..((i + 1) - 1)
    BY <1>1
  <2> QED BY <1>1, <1>2, <2>1, Zenon
<1>5. up[xm[n + 1]] = high
  <2>1. CASE i = n + 1
    <3>1. (n + 1) + 1 = i + 1
      BY <1>1, <2>1
    <3> QED BY <1>1, <1>2, <1>3, <2>1, <3>1, Zenon
  <2>2. CASE i # n + 1
    <3>1. n + 1 \in (i + 1)..(n + 1) /\ n + 1 \in 1..(n + 1)
      BY <1>1, <2>2
    <3>2. um[(n + 1) + 1] = xm[n + 1]
      BY <1>1, <3>1, Zenon
    <3>3. upAfter[xm[n + 1]] = up[xm[n + 1]]
      BY <1>3, <2>2, <3>1, Zenon
    <3> QED BY <1>2, <3>1, <3>2, <3>3, Zenon
  <2> QED BY <2>1, <2>2
<1>6. ASSUME NEW j \in 1..n PROVE lo[xm[j + 1]] = xk[j] /\ up[xm[j]] = xk[j]
  <2>0. j \in Nat /\ j >= 1 /\ j <= n /\ j \in 1..(n + 1) /\ j + 1 \in 1..(n + 1)
    BY <1>1
  <2>1. CASE j < i
    <3>1. j \in 1..(i - 1) /\ j \in 1..((i + 1) - 1) /\ j + 1 \in 1..((i + 1) - 1) /\ j # i
      BY <1>1, <2>0, <2>1
    <3>2. uk[j] = xk[j] /\ um[j] = xm[j] /\ um[j + 1] = xm[j + 1]
      BY <1>1, <3>1, Zenon
    <3> QED BY <1>2, <1>3, <2>0, <3>1, <3>2, Zenon
  <2>3. CASE j >= i
    <3>1. j \in i..n /\ j + 1 \in (i + 1)..(n + 1)
      BY <1>1, <2>0, <2>3
    <3>2. uk[j + 1] = xk[j] /\ um[(j + 1) + 1] = xm[j + 1]
      BY <1>1, <3>1, Zenon
    <3>3. lo[xm[j + 1]] = xk[j]
      BY <1>2, <2>0, <3>2, Zenon
    <3>4. upAfter[um[j + 1]] = xk[j]
      BY <1>2, <2>0, <3>2, Zenon
    <3>5. up[xm[j]] = upAfter[um[j + 1]]
      <4>1. CASE j = i
        BY <1>1, <1>3, <4>1, Zenon
      <4>2. CASE j # i
        <5>1. j \in (i + 1)..(n + 1)
          BY <1>1, <2>0, <2>3, <4>2
        <5>2. um[j + 1] = xm[j]
          BY <1>1, <5>1, Zenon
        <5>3. up[xm[j]] = upAfter[xm[j]]
          BY <1>3, <2>0, <4>2, Zenon
        <5> QED BY <5>2, <5>3, Zenon
      <4> QED BY <4>1, <4>2
    <3> QED BY <3>3, <3>4, <3>5, Zenon
  <2> QED BY <1>1, <2>0, <2>1, <2>3
<1>8. Fences(x, low, high, lo, up)
  BY <1>4, <1>5, <1>6, Zenon DEF Fences, n, xk, xm
<1> QED BY <1>7, <1>8, Zenon DEF xm

(* The way back: the fence between two kids is where they meet once the    *)
(* right one has left its parent.                                          *)
LEMMA UnlinkKeepsOrder ==
  ASSUME NEW h, NEW s, NEW p, NEW i, NEW c, NEW k, NEW key, Linked(h, s, p, i, c, k, key),
         NEW r, NEW t, Shape(s, r, NULL, t), k # NULL, r # k, c # r,
         NEW lo, NEW hi, NEW any, Ordered(s, r, NULL, any, t, lo, hi)
  PROVE  Ordered(h, r, k, c, t, lo, hi) /\ lo[k] = key /\ hi[c] = key
<1> DEFINE up == Upper(hi, c, k)
           after == Upper(hi, any, NULL)
<1>1. /\ Alive(s) = Alive(h) /\ Leaves(s) = Leaves(h) /\ Inners(s) = Inners(h)
      /\ \A m \in Alive(h) : s[m].outer = h[m].outer
  BY LinkedAlive
<1>2. /\ h \in Heaps /\ NULL \notin Alive(h)
      /\ p \in Inners(h) /\ c \in Alive(h) /\ k \in Alive(h) /\ p # c /\ p # k /\ c # k
      /\ i \in 1..Len(h[p].kids) /\ h[p].kids[i] = c
      /\ Body(s[k], h[k]) /\ ~s[p].outer /\ ~h[p].outer
      /\ InsertOf(h[p].keys, i, key, s[p].keys) /\ InsertOf(h[p].kids, i + 1, k, s[p].kids)
      /\ \A m \in Alive(h) \ {p, k} : s[m] = h[m]
  BY MapAssumption DEF Linked, Alive, Inners
<1>3. /\ lo \in [NodeIds -> Nat] /\ hi \in [NodeIds -> Nat]
      /\ \A n \in Alive(h) : Ranged(s[n], lo[n], hi[n])
      /\ \A n \in Inners(h) : Fences(s[n], lo[n], hi[n], lo, after)
      /\ \A m, n \in Alive(h) : m # n /\ t[m] = t[n] => Apart(lo, hi, m, n)
      /\ lo[r] = 0 /\ after[r] = 0
  BY <1>1, Zenon DEF Ordered
<1>4. p \in Alive(h) /\ Alive(h) \subseteq NodeIds /\ r \in Alive(h)
  BY <1>1, <1>2 DEF Inners, Alive, Shape
<1>5. after = hi /\ up[c] = hi[k] /\ \A m \in NodeIds : m # c => up[m] = hi[m]
  BY <1>2, <1>3, <1>4, UpperIs
<1>6. Shape(h, r, k, t)
  BY UnlinkKeepsShape
<1>7. /\ Len(h[p].kids) = Len(h[p].keys) + 1 /\ Distinct(h[p].kids)
      /\ \A j \in 1..Len(h[p].kids) : h[p].kids[j] \in Alive(h)
      /\ h[c].parent = p
  <2>1. Family(h, r, k, t, p)
    BY <1>2, <1>6 DEF Shape
  <2> QED BY <1>2, <2>1, Zenon DEF Family
<1> HIDE DEF up, after
<1>8. Len(h[p].keys) \in Nat /\ \A j \in 1..Len(h[p].keys) : h[p].keys[j] \in Nat
  BY <1>2, <1>4, AliveIsNode, Zenon
<1>9. Fences(h[p], lo[p], hi[p], lo, up) /\ lo[k] = key /\ after[h[p].kids[i]] = key
  <2>1. \A j \in 1..Len(h[p].kids) : j # i => up[h[p].kids[j]] = after[h[p].kids[j]]
    <3>1. ASSUME NEW j \in 1..Len(h[p].kids), j # i PROVE h[p].kids[j] # c
      BY <1>2, <1>7, <3>1 DEF Distinct
    <3> QED BY <1>4, <1>5, <1>7, <3>1
  <2>2. up[h[p].kids[i]] = after[k]
    BY <1>2, <1>5
  <2>3. Fences(s[p], lo[p], hi[p], lo, after)
    BY <1>2, <1>3
  <2>4. /\ InsertOf(h[p].keys, i, key, s[p].keys) /\ InsertOf(h[p].kids, i + 1, k, s[p].kids)
        /\ i \in 1..Len(h[p].kids)
        /\ Len(h[p].keys) \in Nat /\ Len(h[p].kids) = Len(h[p].keys) + 1 /\ Distinct(h[p].kids)
    BY <1>2, <1>7, <1>8, Zenon
  <2>5. Leaving(h[p], s[p], i, k, key, lo, up, after)
    BY <2>1, <2>2, <2>4, Zenon DEF Leaving
  <2> QED BY <2>3, <2>5, FencesUnlinked
<1>10. Ranged(h[p], lo[p], hi[p])
  <2>1. Ranged(s[p], lo[p], hi[p])
    BY <1>3, <1>4
  <2>2. i \in 1..(Len(h[p].keys) + 1) /\ InsertOf(h[p].keys, i, key, s[p].keys)
    BY <1>2, <1>7
  <2>3. Ascending(h[p].keys)
    BY <1>8, <2>1, <2>2, WasAscending DEF Ranged
  <2>4. \A l \in 1..Len(h[p].keys) : \E j \in 1..Len(s[p].keys) : s[p].keys[j] = h[p].keys[l]
    <3>1. Extended(h[p].keys, key, s[p].keys)
      BY <1>8, <2>2, InsertedElements
    <3> QED BY <3>1, Zenon DEF Extended
  <2> QED BY <1>2, <2>1, <2>3, <2>4, Zenon DEF Ranged
<1>11. ASSUME NEW n \in Alive(h) PROVE Ranged(h[n], lo[n], hi[n])
  <2>1. CASE n = p
    BY <1>10, <2>1
  <2>2. CASE n = k
    <3>1. Ranged(s[k], lo[k], hi[k])
      BY <1>2, <1>3
    <3> QED BY <1>2, <2>2, <3>1, Zenon DEF Body, Ranged
  <2>3. CASE n # p /\ n # k
    BY <1>2, <1>3, <2>3
  <2> QED BY <2>1, <2>2, <2>3
<1>12. ASSUME NEW n \in Inners(h) PROVE Fences(h[n], lo[n], hi[n], lo, up)
  <2>1. CASE n = p
    BY <1>9, <2>1
  <2>2. CASE n # p
    <3>1. Fences(s[n], lo[n], hi[n], lo, after)
      BY <1>3
    <3>2. s[n].keys = h[n].keys /\ s[n].kids = h[n].kids /\ n \in Alive(h)
      BY <1>2, <2>2 DEF Body, Inners
    <3>3. Family(h, r, k, t, n)
      BY <1>6 DEF Shape
    <3>5. ASSUME NEW j \in 1..Len(s[n].kids) PROVE up[s[n].kids[j]] = after[s[n].kids[j]]
      <4>1. h[n].kids[j] # c /\ h[n].kids[j] \in NodeIds
        BY <1>4, <1>7, <2>2, <3>2, <3>3 DEF Family
      <4> QED BY <1>5, <3>2, <4>1
    <3>6. Len(s[n].kids) = Len(s[n].keys) + 1 /\ Len(s[n].keys) \in Nat
      BY <1>2, <3>2, <3>3, AliveIsNode, Zenon DEF Family
    <3> QED BY <3>1, <3>2, <3>5, <3>6, FencesKept, Zenon
  <2> QED BY <2>1, <2>2
<1>13. up[r] = 0
  BY <1>3, <1>4, <1>5
<1>14. hi[c] = key
  BY <1>2, <1>5, <1>9
<1> QED BY <1>3, <1>9, <1>11, <1>12, <1>13, <1>14, Zenon DEF Ordered, up

(***************************************************************************)
(* The ranges of the nodes of one height stay apart when a range is split  *)
(* and when two that meet are joined.                                      *)
(***************************************************************************)
LEMMA ApartSplit ==
  ASSUME NEW A \in SUBSET NodeIds, NEW a \in A, NEW b \in NodeIds \ A,
         NEW lo \in [NodeIds -> Nat], NEW hi \in [NodeIds -> Nat], NEW t \in [NodeIds -> Nat],
         \A n \in A : Under(lo[n], hi[n]),
         \A m, n \in A : m # n /\ t[m] = t[n] => Apart(lo, hi, m, n),
         NEW v \in Nat, lo[a] < v, Under(v, hi[a])
  PROVE  \A m, n \in A \cup {b} :
           m # n /\ [t EXCEPT ![b] = t[a]][m] = [t EXCEPT ![b] = t[a]][n] =>
             Apart([lo EXCEPT ![b] = v], [hi EXCEPT ![a] = v, ![b] = hi[a]], m, n)
<1> DEFINE after == [lo EXCEPT ![b] = v]
           upper == [hi EXCEPT ![a] = v, ![b] = hi[a]]
           high == [t EXCEPT ![b] = t[a]]
<1>1. /\ after[b] = v /\ upper[b] = hi[a] /\ upper[a] = v /\ a # b
      /\ \A n \in A : after[n] = lo[n] /\ lo[n] \in Nat /\ hi[n] \in Nat
      /\ \A n \in A : n # a => upper[n] = hi[n]
      /\ high[b] = t[a] /\ \A n \in A : high[n] = t[n]
  OBVIOUS
<1> HIDE DEF after, upper, high
<1>2. Before(after, upper, a, b)
  <2>1. v # 0
    BY <1>1
  <2> QED BY <1>1, <2>1 DEF Before
<1>3. ASSUME NEW m \in A, m # a, t[m] = t[a]
      PROVE  Apart(after, upper, m, a) /\ Apart(after, upper, m, b)
  <2>1. Apart(lo, hi, m, a)
    BY <1>3
  <2>2. Under(lo[m], hi[m]) /\ lo[a] \in Nat /\ hi[a] \in Nat /\ lo[m] \in Nat /\ hi[m] \in Nat
    BY <1>1
  <2>3. CASE Before(lo, hi, m, a)
    <3>1. Before(after, upper, m, a) /\ Before(after, upper, m, b)
      BY <1>1, <1>3, <2>2, <2>3 DEF Before
    <3> QED BY <3>1 DEF Apart
  <2>4. CASE Before(lo, hi, a, m)
    <3>1. Before(after, upper, a, m) /\ Before(after, upper, b, m)
      BY <1>1, <1>3, <2>2, <2>4 DEF Before, Under
    <3> QED BY <3>1 DEF Apart
  <2> QED BY <2>1, <2>3, <2>4 DEF Apart
<1>4. ASSUME NEW m \in A, NEW n \in A, m # n, t[m] = t[n], m # a, n # a
      PROVE  Apart(after, upper, m, n)
  <2>1. Apart(lo, hi, m, n)
    BY <1>4
  <2> QED BY <1>1, <1>4, <2>1 DEF Apart, Before
<1>5. \A m, n : Apart(after, upper, m, n) => Apart(after, upper, n, m)
  BY Zenon DEF Apart
<1>6. ASSUME NEW m \in A \cup {b}, NEW n \in A \cup {b}, m # n, high[m] = high[n]
      PROVE  Apart(after, upper, m, n)
  <2>1. CASE m \in {a, b} /\ n \in {a, b}
    <3>1. Apart(after, upper, a, b) /\ Apart(after, upper, b, a)
      BY <1>2, Zenon DEF Apart
    <3>2. (m = a /\ n = b) \/ (m = b /\ n = a)
      BY <1>6, <2>1
    <3> QED BY <3>1, <3>2, Zenon
  <2>2. CASE m \in {a, b} /\ n \notin {a, b}
    BY <1>1, <1>3, <1>5, <1>6, <2>2
  <2>3. CASE m \notin {a, b} /\ n \in {a, b}
    BY <1>1, <1>3, <1>6, <2>3
  <2>4. CASE m \notin {a, b} /\ n \notin {a, b}
    BY <1>1, <1>4, <1>6, <2>4
  <2> QED BY <2>1, <2>2, <2>3, <2>4
<1> QED BY <1>6, Zenon DEF after, upper, high

LEMMA ApartJoin ==
  ASSUME NEW A \in SUBSET NodeIds, NEW a \in A, NEW b \in A, a # b,
         NEW lo \in [NodeIds -> Nat], NEW hi \in [NodeIds -> Nat], NEW t \in [NodeIds -> Nat],
         \A n \in A : Under(lo[n], hi[n]),
         \A m, n \in A : m # n /\ t[m] = t[n] => Apart(lo, hi, m, n),
         hi[a] = lo[b], t[a] = t[b]
  PROVE  /\ \A m, n \in A \ {b} :
              m # n /\ t[m] = t[n] => Apart(lo, [hi EXCEPT ![a] = hi[b]], m, n)
         /\ hi[a] # 0 => Under(lo[a], hi[b])
<1> DEFINE upper == [hi EXCEPT ![a] = hi[b]]
<1>1. /\ upper[a] = hi[b]
      /\ \A n \in A : lo[n] \in Nat /\ hi[n] \in Nat
      /\ \A n \in A : n # a => upper[n] = hi[n]
  OBVIOUS
<1> HIDE DEF upper
<1>3. ASSUME NEW m \in A, m # a, m # b, t[m] = t[a] PROVE Apart(lo, upper, m, a)
  <2>1. Apart(lo, hi, m, a) /\ Apart(lo, hi, m, b)
    BY <1>3
  <2>2. /\ Under(lo[m], hi[m]) /\ lo[a] \in Nat /\ hi[a] \in Nat /\ lo[m] \in Nat /\ hi[m] \in Nat
        /\ Under(lo[a], hi[a]) /\ Under(lo[b], hi[b]) /\ lo[b] \in Nat /\ hi[b] \in Nat
    BY <1>1
  <2>3. Before(lo, upper, m, a) \/ Before(lo, upper, a, m)
    BY <1>1, <1>3, <2>1, <2>2 DEF Before, Apart, Under
  <2> QED BY <2>3 DEF Apart
<1>4. ASSUME NEW m \in A, NEW n \in A, m # n, t[m] = t[n], m # a, n # a
      PROVE  Apart(lo, upper, m, n)
  <2>1. Apart(lo, hi, m, n)
    BY <1>4
  <2> QED BY <1>1, <1>4, <2>1 DEF Apart, Before
<1>5. \A m, n : Apart(lo, upper, m, n) => Apart(lo, upper, n, m)
  BY Zenon DEF Apart
<1>6. ASSUME NEW m \in A \ {b}, NEW n \in A \ {b}, m # n, t[m] = t[n]
      PROVE  Apart(lo, upper, m, n)
  <2>1. CASE m = a
    BY <1>3, <1>5, <1>6, <2>1
  <2>2. CASE n = a
    BY <1>3, <1>6, <2>2
  <2>3. CASE m # a /\ n # a
    BY <1>4, <1>6, <2>3
  <2> QED BY <2>1, <2>2, <2>3
<1>7. hi[a] # 0 => Under(lo[a], hi[b])
  <2>1. Under(lo[a], hi[a]) /\ Under(lo[b], hi[b])
    OBVIOUS
  <2> QED BY <1>1, <2>1 DEF Under
<1> QED BY <1>6, <1>7, Zenon DEF upper

(***************************************************************************)
(* A leaf divided in two, or two joined in one.                            *)
(***************************************************************************)

(* What the leaf a holds in h is divided between a and b in s.             *)
DividedLeaf(h, s, a, b) ==
  /\ h \in Heaps /\ s \in Heaps /\ a \in Leaves(h) /\ b \in NodeIds /\ h[b] = Freed
  /\ s[a] \in Node /\ s[b] \in Node /\ s[a].outer /\ s[b].outer
  /\ ConcatOf(s[a].keys, s[b].keys, h[a].keys)
  /\ ConcatOf(s[a].values, s[b].values, h[a].values)
  /\ Len(s[a].values) = Len(s[a].keys) /\ Len(s[b].values) = Len(s[b].keys)
  /\ Len(h[a].values) = Len(h[a].keys)
  /\ s[a].keys # <<>> /\ s[b].keys # <<>>
  /\ s[a].parent = h[a].parent /\ s[a].previous = h[a].previous /\ s[a].next = b
  /\ s[b].next = h[a].next /\ s[b].previous = a
  /\ \A x \in NodeIds : x = h[a].next =>
       /\ x \in Leaves(h) /\ x # a /\ h[x].previous = a
       /\ s[x] \in Node /\ Body(s[x], h[x]) /\ s[x].parent = h[x].parent
       /\ s[x].next = h[x].next /\ s[x].previous = b
  /\ \A m \in NodeIds \ {a, b, h[a].next} : s[m] = h[m]

LEMMA DividedLeafAlive ==
  ASSUME NEW h, NEW s, NEW a, NEW b, DividedLeaf(h, s, a, b)
  PROVE  /\ b \notin Alive(h) /\ Alive(s) = Alive(h) \cup {b} /\ Inners(s) = Inners(h)
         /\ Leaves(s) = Leaves(h) \cup {b} /\ b \notin Leaves(h)
         /\ \A m \in Alive(h) : s[m].outer = h[m].outer /\ s[m].parent = h[m].parent
         /\ \A m \in Inners(h) : s[m] = h[m] /\ m \in Alive(h) /\ m # b
         /\ \A m \in Alive(h) \ {a} : Body(s[m], h[m])
<1>1. /\ a \in Alive(h) /\ h[a].outer /\ b \in NodeIds /\ h[b] = Freed /\ a # b
      /\ s[a] \in Node /\ s[b] \in Node /\ s[a].outer /\ s[b].outer
      /\ s[a].parent = h[a].parent
      /\ \A m \in NodeIds \ {a, b, h[a].next} : s[m] = h[m]
  BY DEF DividedLeaf, Leaves, Alive
<1>2. \A x \in NodeIds : x = h[a].next =>
       /\ x \in Leaves(h) /\ s[x] \in Node /\ Body(s[x], h[x]) /\ s[x].parent = h[x].parent
  BY DEF DividedLeaf
<1>3. \A x \in Leaves(h) : x \in Alive(h) /\ h[x].outer /\ h[x] # Freed
  BY DEF Leaves, Alive
<1>4. s[a] # Freed /\ s[b] # Freed /\ \A x \in NodeIds : x = h[a].next => s[x] # Freed
  BY <1>1, <1>2, FreedAssumption
<1>5. b \notin Alive(h) /\ Alive(s) = Alive(h) \cup {b}
  <2>1. ASSUME NEW m \in NodeIds PROVE s[m] # Freed <=> (h[m] # Freed \/ m = b)
    BY <1>1, <1>2, <1>3, <1>4 DEF Alive
  <2> QED BY <1>1, <2>1 DEF Alive
<1>6. ASSUME NEW m \in Alive(h) \ {a} PROVE Body(s[m], h[m]) /\ s[m].parent = h[m].parent
  <2>1. CASE m = h[a].next
    BY <1>2, <2>1 DEF Alive
  <2>2. CASE m # h[a].next
    <3>1. s[m] = h[m]
      BY <1>1, <2>2 DEF Alive
    <3> QED BY <3>1 DEF Body
  <2> QED BY <2>1, <2>2
<1>7. h[a].outer = TRUE /\ s[a].outer = TRUE
  <2>1. h \in Heaps
    BY DEF DividedLeaf
  <2>2. h[a].outer \in BOOLEAN
    BY <1>1, <2>1, AliveIsNode
  <2>3. s[a].outer \in BOOLEAN
    BY <1>1 DEF Node
  <2> QED BY <1>1, <2>2, <2>3
<1>8. \A m \in Alive(h) : s[m].outer = h[m].outer /\ s[m].parent = h[m].parent
  BY <1>1, <1>6, <1>7 DEF Body
<1>9. Leaves(s) = Leaves(h) \cup {b} /\ Inners(s) = Inners(h)
  BY <1>1, <1>5, <1>8 DEF Leaves, Inners
<1>10. ASSUME NEW m \in Inners(h) PROVE s[m] = h[m] /\ m \in Alive(h) /\ m # b
  <2>1. m \in Alive(h) /\ ~h[m].outer /\ m \in NodeIds
    BY DEF Inners, Alive
  <2>2. m \notin {a, b} /\ m # h[a].next
    BY <1>1, <1>2, <1>3, <2>1, <1>5
  <2> QED BY <1>1, <2>1, <2>2
<1>11. b \notin Leaves(h)
  BY <1>1, <1>3
<1> QED BY <1>5, <1>6, <1>8, <1>9, <1>10, <1>11, Zenon

(* A leaf that is divided, and two that are joined: shape, order, chain.   *)
LEMMA LeafSplitKeepsShape ==
  ASSUME NEW h, NEW s, NEW a, NEW b, DividedLeaf(h, s, a, b),
         NEW r, NEW t, Shape(h, r, NULL, t)
  PROVE  Shape(s, r, b, [t EXCEPT ![b] = 0])
<1> DEFINE u == [t EXCEPT ![b] = 0]
<1>1. /\ b \notin Alive(h) /\ Alive(s) = Alive(h) \cup {b} /\ Inners(s) = Inners(h)
      /\ Leaves(s) = Leaves(h) \cup {b}
      /\ \A m \in Alive(h) : s[m].outer = h[m].outer /\ s[m].parent = h[m].parent
      /\ \A m \in Inners(h) : s[m] = h[m] /\ m \in Alive(h) /\ m # b
      /\ \A m \in Alive(h) \ {a} : Body(s[m], h[m])
  BY DividedLeafAlive
<1>2. /\ s \in Heaps /\ b \in NodeIds /\ s[b].outer
      /\ Len(s[a].values) = Len(s[a].keys) /\ Len(s[b].values) = Len(s[b].keys)
  BY DEF DividedLeaf
<1>3. /\ t \in [NodeIds -> Nat] /\ r \in Alive(h)
      /\ \A n \in Alive(h) : Placed(h, r, NULL, t, n)
      /\ \A n \in Leaves(h) : Len(h[n].values) = Len(h[n].keys)
      /\ \A n \in Inners(h) : Family(h, r, NULL, t, n)
      /\ NULL \notin Alive(h)
  BY MapAssumption DEF Shape, Alive
<1>4. /\ u \in [NodeIds -> Nat] /\ u[b] = 0 /\ \A m \in Alive(h) : u[m] = t[m]
      /\ r \in Alive(s) /\ b \in Alive(s) \ {r} /\ t[r] \in Nat
  BY <1>1, <1>2, <1>3 DEF Alive
<1> HIDE DEF u
<1>5. ASSUME NEW n \in Alive(h) PROVE Placed(s, r, b, u, n)
  <2>1. Placed(h, r, NULL, t, n)
    BY <1>3
  <2>2. u[n] = t[n] /\ u[r] = t[r]
    BY <1>3, <1>4
  <2>3. n \notin {r, b} => h[n].parent \in Inners(h) /\ IsKid(s, n, h[n].parent)
    BY <1>1, <1>3, <2>1, Zenon DEF Placed, IsKid
  <2> QED BY <1>1, <2>1, <2>2, <2>3, Zenon DEF Placed
<1>6. Placed(s, r, b, u, b)
  BY <1>2, <1>3, <1>4 DEF Placed
<1>7. \A n \in Leaves(s) : Len(s[n].values) = Len(s[n].keys)
  BY <1>1, <1>2, <1>3 DEF Body, Leaves
<1>8. ASSUME NEW n \in Inners(s) PROVE Family(s, r, b, u, n)
  <2>1. Family(h, r, NULL, t, n) /\ s[n] = h[n] /\ u[n] = t[n]
    BY <1>1, <1>3, <1>4
  <2>2. /\ Len(h[n].kids) = Len(h[n].keys) + 1 /\ Distinct(h[n].kids)
        /\ \A i \in 1..Len(h[n].kids) : /\ h[n].kids[i] \in Alive(h) \ {r}
                                        /\ h[h[n].kids[i]].parent = n
                                        /\ t[h[n].kids[i]] + 1 = t[n]
    BY <2>1 DEF Family
  <2>3. ASSUME NEW i \in 1..Len(s[n].kids)
        PROVE  /\ s[n].kids[i] \in Alive(s) \ {r, b} /\ s[s[n].kids[i]].parent = n
               /\ u[s[n].kids[i]] + 1 = u[n]
    <3>1. /\ h[n].kids[i] \in Alive(h) \ {r} /\ h[h[n].kids[i]].parent = n
          /\ t[h[n].kids[i]] + 1 = t[n] /\ s[n].kids[i] = h[n].kids[i]
      BY <2>1, <2>2
    <3> QED BY <1>1, <1>4, <2>1, <3>1
  <2> QED BY <2>1, <2>2, <2>3 DEF Family
<1>9. \A n \in Alive(s) : Placed(s, r, b, u, n)
  BY <1>1, <1>5, <1>6
<1> QED BY <1>2, <1>4, <1>7, <1>8, <1>9, Zenon DEF Shape, u

LEMMA LeafJoinKeepsShape ==
  ASSUME NEW h, NEW s, NEW a, NEW b, DividedLeaf(h, s, a, b),
         NEW r, NEW t, Shape(s, r, b, t), a # r
  PROVE  Shape(h, r, NULL, t)
<1>1. /\ b \notin Alive(h) /\ Alive(s) = Alive(h) \cup {b} /\ Inners(s) = Inners(h)
      /\ Leaves(s) = Leaves(h) \cup {b}
      /\ \A m \in Alive(h) : s[m].outer = h[m].outer /\ s[m].parent = h[m].parent
      /\ \A m \in Inners(h) : s[m] = h[m] /\ m \in Alive(h) /\ m # b
      /\ \A m \in Alive(h) \ {a} : Body(s[m], h[m])
  BY DividedLeafAlive
<1>2. h \in Heaps /\ b \in NodeIds /\ Len(h[a].values) = Len(h[a].keys) /\ b # NULL
  BY MapAssumption DEF DividedLeaf
<1>3. /\ t \in [NodeIds -> Nat] /\ r \in Alive(h)
      /\ \A n \in Alive(h) : Placed(s, r, b, t, n)
      /\ \A n \in Leaves(h) : Len(s[n].values) = Len(s[n].keys)
      /\ \A n \in Inners(h) : Family(s, r, b, t, n)
      /\ NULL \notin Alive(h)
  BY <1>1, <1>2, MapAssumption DEF Shape, Alive
<1>5. ASSUME NEW n \in Alive(h) PROVE Placed(h, r, NULL, t, n)
  <2>1. Placed(s, r, b, t, n) /\ n # b
    BY <1>1, <1>3
  <2>3. n \notin {r, NULL} => h[n].parent \in Inners(h) /\ IsKid(h, n, h[n].parent)
    <3>1. n # r => s[n].parent \in Inners(s) /\ IsKid(s, n, s[n].parent)
      BY <2>1 DEF Placed
    <3>2. s[n].parent = h[n].parent
      BY <1>1
    <3>3. n # r => s[h[n].parent] = h[h[n].parent]
      BY <1>1, <3>1, <3>2
    <3> QED BY <1>1, <3>1, <3>2, <3>3, Zenon DEF IsKid
  <2> QED BY <1>1, <2>1, <2>3 DEF Placed
<1>7. \A n \in Leaves(h) : Len(h[n].values) = Len(h[n].keys)
  BY <1>1, <1>2, <1>3 DEF Body, Leaves
<1>8. ASSUME NEW n \in Inners(h) PROVE Family(h, r, NULL, t, n)
  <2>1. Family(s, r, b, t, n) /\ s[n] = h[n]
    BY <1>1, <1>3
  <2> QED BY <1>1, <1>3, <2>1 DEF Family
<1> QED BY <1>2, <1>3, <1>5, <1>7, <1>8, Zenon DEF Shape

LEMMA LeafSplitKeepsOrder ==
  ASSUME NEW h, NEW s, NEW a, NEW b, DividedLeaf(h, s, a, b),
         NEW r, NEW t, Shape(h, r, NULL, t),
         NEW lo, NEW hi, NEW any, Ordered(h, r, NULL, any, t, lo, hi),
         NEW v, v = s[b].keys[1]
  PROVE  Ordered(s, r, b, a, [t EXCEPT ![b] = 0], [lo EXCEPT ![b] = v],
                 [hi EXCEPT ![a] = v, ![b] = hi[a]])
<1> DEFINE high == [t EXCEPT ![b] = 0]
           after == [lo EXCEPT ![b] = v]
           upper == [hi EXCEPT ![a] = v, ![b] = hi[a]]
           up == Upper(upper, a, b)
<1>1. /\ b \notin Alive(h) /\ Alive(s) = Alive(h) \cup {b} /\ Inners(s) = Inners(h)
      /\ \A m \in Alive(h) : s[m].outer = h[m].outer /\ s[m].parent = h[m].parent
      /\ \A m \in Inners(h) : s[m] = h[m] /\ m \in Alive(h) /\ m # b
      /\ \A m \in Alive(h) \ {a} : Body(s[m], h[m])
  BY DividedLeafAlive
<1>2. /\ h \in Heaps /\ s \in Heaps /\ b \in NodeIds /\ b # NULL /\ a # b /\ a \in NodeIds
      /\ a \in Alive(h) /\ s[a].outer /\ s[b].outer /\ h[a].outer
      /\ ConcatOf(s[a].keys, s[b].keys, h[a].keys)
      /\ s[a].keys # <<>> /\ s[b].keys # <<>>
  BY <1>1, MapAssumption DEF DividedLeaf, Leaves, Alive
<1>3. /\ lo \in [NodeIds -> Nat] /\ hi \in [NodeIds -> Nat]
      /\ \A n \in Alive(h) : Ranged(h[n], lo[n], hi[n])
      /\ \A n \in Inners(h) : Fences(h[n], lo[n], hi[n], lo, Upper(hi, any, NULL))
      /\ \A m, n \in Alive(h) : m # n /\ t[m] = t[n] => Apart(lo, hi, m, n)
      /\ lo[r] = 0 /\ Upper(hi, any, NULL)[r] = 0
  BY Zenon DEF Ordered
<1>4. Upper(hi, any, NULL) = hi
  BY <1>3, UpperIs
<1>5. /\ t \in [NodeIds -> Nat] /\ r \in Alive(h) /\ t[a] = 0 /\ Alive(h) \subseteq NodeIds
      /\ \A n \in Inners(h) : Family(h, r, NULL, t, n)
  <2>1. Placed(h, r, NULL, t, a)
    BY <1>2 DEF Shape
  <2> QED BY <1>2, <2>1 DEF Shape, Placed, Alive
<1>6. /\ s[a].keys \in Seq(Keys) /\ s[b].keys \in Seq(Keys)
      /\ Len(s[a].keys) \in Nat /\ Len(s[b].keys) \in Nat
      /\ \A j \in 1..Len(s[a].keys) : s[a].keys[j] \in Nat
      /\ \A j \in 1..Len(s[b].keys) : s[b].keys[j] \in Nat /\ s[b].keys[j] > 0
      /\ 1 \in 1..Len(s[a].keys) /\ 1 \in 1..Len(s[b].keys)
  <2>1. a \in Alive(s) /\ b \in Alive(s)
    BY <1>1, <1>2
  <2>2. s[a].keys \in Seq(Keys) /\ s[b].keys \in Seq(Keys)
    BY <1>2, <2>1, AliveIsNode
  <2>3. 1 \in 1..Len(s[a].keys) /\ 1 \in 1..Len(s[b].keys)
    BY <1>2, <2>2
  <2> QED BY <1>2, <2>1, <2>2, <2>3, AliveIsNode, Zenon
<1>7. /\ Ascending(s[a].keys) /\ Ascending(s[b].keys)
      /\ \A i \in 1..Len(s[a].keys), j \in 1..Len(s[b].keys) : s[a].keys[i] < s[b].keys[j]
  <2>1. Ascending(h[a].keys)
    BY <1>2, <1>3 DEF Ranged
  <2> QED BY <1>2, <1>6, <2>1, ConcatCut
<1>8. /\ \A i \in 1..Len(s[a].keys) : lo[a] <= s[a].keys[i] /\ Under(s[a].keys[i], hi[a])
      /\ \A i \in 1..Len(s[b].keys) : lo[a] <= s[b].keys[i] /\ Under(s[b].keys[i], hi[a])
  <2>1. Elements(h[a].keys) = Elements(s[a].keys) \cup Elements(s[b].keys)
    BY <1>2, <1>6, ConcatElements
  <2>2. \A e \in Elements(h[a].keys) : lo[a] <= e /\ Under(e, hi[a])
    BY <1>2, <1>3, Zenon DEF Ranged, Elements
  <2> QED BY <2>1, <2>2 DEF Elements
<1>9. /\ v \in Nat /\ v > 0 /\ lo[a] \in Nat /\ hi[a] \in Nat /\ lo[a] < v /\ Under(v, hi[a])
  <2>1. lo[a] <= s[a].keys[1] /\ s[a].keys[1] < v /\ s[a].keys[1] \in Nat /\ v \in Nat /\ v > 0
        /\ Under(v, hi[a])
    BY <1>6, <1>7, <1>8
  <2>2. lo[a] \in Nat /\ hi[a] \in Nat
    BY <1>2, <1>3
  <2> QED BY <2>1, <2>2
<1>10. /\ after \in [NodeIds -> Nat] /\ upper \in [NodeIds -> Nat]
       /\ after[b] = v /\ upper[b] = hi[a] /\ upper[a] = v
       /\ \A m \in Alive(h) : after[m] = lo[m]
       /\ \A m \in Alive(h) \ {a} : upper[m] = hi[m]
  BY <1>1, <1>2, <1>3, <1>5, <1>9
<1>11. high = [t EXCEPT ![b] = t[a]]
  BY <1>5
<1>12. \A m, n \in Alive(s) : m # n /\ high[m] = high[n] => Apart(after, upper, m, n)
  <2>1. \A n \in Alive(h) : Under(lo[n], hi[n])
    BY <1>3 DEF Ranged
  <2>2. Alive(h) \in SUBSET NodeIds /\ b \in NodeIds \ Alive(h)
    BY <1>1, <1>2, <1>5
  <2>3. \A m, n \in Alive(h) \cup {b} :
           m # n /\ [t EXCEPT ![b] = t[a]][m] = [t EXCEPT ![b] = t[a]][n] =>
             Apart([lo EXCEPT ![b] = v], [hi EXCEPT ![a] = v, ![b] = hi[a]], m, n)
    BY <1>2, <1>3, <1>5, <1>9, <2>1, <2>2, ApartSplit
  <2> QED BY <1>1, <1>11, <2>3, Zenon
<1> HIDE DEF high, after, upper, up
<1>13. \A m \in Alive(h) : up[m] = hi[m]
  <2>1. b # NULL => Upper(upper, a, b)[a] = upper[b] /\ \A m \in NodeIds : m # a => Upper(upper, a, b)[m] = upper[m]
    BY <1>2, <1>10, UpperIs
  <2> QED BY <1>2, <1>5, <1>10, <2>1 DEF up
<1>14. ASSUME NEW n \in Alive(s) PROVE Ranged(s[n], after[n], upper[n])
  <2>1. CASE n = a
    <3>1. Under(lo[a], v)
      BY <1>9 DEF Under
    <3>2. \A i \in 1..Len(s[a].keys) : Under(s[a].keys[i], v)
      BY <1>6, <1>7 DEF Under
    <3>3. after[n] = lo[a] /\ upper[n] = v
      BY <1>2, <1>10, <2>1
    <3> QED BY <1>2, <1>7, <1>8, <2>1, <3>1, <3>2, <3>3, Zenon DEF Ranged
  <2>2. CASE n = b
    <3>1. \A i \in 1..Len(s[b].keys) : v <= s[b].keys[i]
      <4>1. \A i \in 1..Len(s[b].keys) : i >= 1
        BY <1>6
      <4> QED BY <1>6, <1>7, <4>1, AscendingWeakly
    <3>3. after[n] = v /\ upper[n] = hi[a]
      BY <1>10, <2>2
    <3> QED BY <1>2, <1>7, <1>8, <1>9, <2>2, <3>1, <3>3, Zenon DEF Ranged
  <2>3. CASE n # a /\ n # b
    <3>1. n \in Alive(h) /\ Ranged(h[n], lo[n], hi[n]) /\ Body(s[n], h[n])
      BY <1>1, <1>3, <2>3
    <3>2. after[n] = lo[n] /\ upper[n] = hi[n]
      BY <1>10, <2>3, <3>1
    <3> QED BY <3>1, <3>2 DEF Ranged, Body
  <2> QED BY <2>1, <2>2, <2>3
<1>15. ASSUME NEW n \in Inners(s) PROVE Fences(s[n], after[n], upper[n], after, up)
  <2>1. n \in Inners(h) /\ n \in Alive(h) /\ s[n] = h[n] /\ n # a
    BY <1>1, <1>2 DEF Inners
  <2>2. Fences(h[n], lo[n], hi[n], lo, hi) /\ Family(h, r, NULL, t, n)
    BY <1>3, <1>4, <1>5, <2>1
  <2>3. /\ Len(h[n].keys) \in Nat /\ Len(h[n].kids) = Len(h[n].keys) + 1
        /\ \A j \in 1..Len(h[n].kids) : h[n].kids[j] \in Alive(h)
    <3>1. Len(h[n].keys) \in Nat
      BY <1>2, <2>1, AliveIsNode
    <3> QED BY <2>2, <3>1, Zenon DEF Family
  <2>4. after[n] = lo[n] /\ upper[n] = hi[n]
    BY <1>10, <2>1
  <2>5. \A j \in 1..Len(h[n].kids) :
          after[h[n].kids[j]] = lo[h[n].kids[j]] /\ up[h[n].kids[j]] = hi[h[n].kids[j]]
    BY <1>10, <1>13, <2>3
  <2> QED BY <2>1, <2>2, <2>3, <2>4, <2>5, FencesKept, Zenon
<1>16. after[r] = 0 /\ up[r] = 0 /\ upper[a] = after[b]
  BY <1>3, <1>4, <1>5, <1>10, <1>13
<1> QED BY <1>10, <1>12, <1>14, <1>15, <1>16, Zenon DEF Ordered, high, after, upper, up

LEMMA LeafJoinKeepsOrder ==
  ASSUME NEW h, NEW s, NEW a, NEW b, DividedLeaf(h, s, a, b),
         NEW r, NEW t, Shape(s, r, b, t), a # r,
         NEW lo, NEW hi, NEW any, Ordered(s, r, b, a, t, lo, hi), hi[a] # 0
  PROVE  Ordered(h, r, NULL, any, t, lo, [hi EXCEPT ![a] = hi[b]])
<1> DEFINE upper == [hi EXCEPT ![a] = hi[b]]
           up == Upper(hi, a, b)
<1>1. /\ b \notin Alive(h) /\ Alive(s) = Alive(h) \cup {b} /\ Inners(s) = Inners(h)
      /\ \A m \in Alive(h) : s[m].outer = h[m].outer /\ s[m].parent = h[m].parent
      /\ \A m \in Inners(h) : s[m] = h[m] /\ m \in Alive(h) /\ m # b
      /\ \A m \in Alive(h) \ {a} : Body(s[m], h[m])
  BY DividedLeafAlive
<1>2. /\ h \in Heaps /\ s \in Heaps /\ b \in NodeIds /\ b # NULL /\ a # b /\ a \in NodeIds
      /\ a \in Alive(h) /\ s[a].outer /\ s[b].outer /\ h[a].outer
      /\ ConcatOf(s[a].keys, s[b].keys, h[a].keys)
      /\ s[a].keys # <<>> /\ s[b].keys # <<>>
  BY <1>1, MapAssumption DEF DividedLeaf, Leaves, Alive
<1>3. /\ lo \in [NodeIds -> Nat] /\ hi \in [NodeIds -> Nat]
      /\ \A n \in Alive(s) : Ranged(s[n], lo[n], hi[n])
      /\ \A n \in Inners(s) : Fences(s[n], lo[n], hi[n], lo, up)
      /\ \A m, n \in Alive(s) : m # n /\ t[m] = t[n] => Apart(lo, hi, m, n)
      /\ lo[r] = 0 /\ up[r] = 0 /\ hi[a] = lo[b]
  BY <1>2, Zenon DEF Ordered
<1>5. /\ t \in [NodeIds -> Nat] /\ r \in Alive(h) /\ t[a] = t[b] /\ Alive(s) \subseteq NodeIds
      /\ \A n \in Inners(h) : Family(s, r, b, t, n)
  <2>1. Placed(s, r, b, t, a) /\ Placed(s, r, b, t, b)
    BY <1>1, <1>2 DEF Shape
  <2>2. t[a] = 0 /\ t[b] = 0
    BY <1>2, <2>1 DEF Placed
  <2> QED BY <1>1, <1>2, <2>2 DEF Shape, Alive
<1>6. /\ Len(s[a].keys) \in Nat /\ Len(s[b].keys) \in Nat
      /\ \A j \in 1..Len(s[a].keys) : s[a].keys[j] \in Nat
      /\ \A j \in 1..Len(s[b].keys) : s[b].keys[j] \in Nat
  <2>1. a \in Alive(s) /\ b \in Alive(s)
    BY <1>1, <1>2
  <2> QED BY <1>2, <2>1, AliveIsNode, Zenon
<1>7. Ranged(s[a], lo[a], hi[a]) /\ Ranged(s[b], lo[b], hi[b]) /\ Under(lo[a], hi[a]) /\ Under(lo[b], hi[b])
  BY <1>1, <1>2, <1>3 DEF Ranged
<1>8. lo[a] \in Nat /\ lo[b] \in Nat /\ hi[a] \in Nat /\ hi[b] \in Nat /\ hi[a] = lo[b] /\ hi[a] # 0
  BY <1>2, <1>3
<1>9. Ranged(h[a], lo[a], hi[b])
  <2>1. \A i \in 1..Len(s[a].keys) : lo[a] <= s[a].keys[i] /\ s[a].keys[i] < hi[a]
    BY <1>6, <1>7, <1>8 DEF Ranged, Under
  <2>2. \A i \in 1..Len(s[b].keys) : hi[a] <= s[b].keys[i] /\ Under(s[b].keys[i], hi[b])
    BY <1>6, <1>7, <1>8 DEF Ranged
  <2>3. \A i \in 1..Len(s[a].keys), j \in 1..Len(s[b].keys) : s[a].keys[i] < s[b].keys[j]
    BY <1>6, <1>8, <2>1, <2>2
  <2>4. Ascending(h[a].keys)
    BY <1>2, <1>6, <1>7, <2>3, ConcatAscending DEF Ranged
  <2>5. lo[a] < hi[a] /\ Under(lo[a], hi[b]) /\ (hi[b] = 0 \/ hi[a] < hi[b])
    BY <1>7, <1>8 DEF Under
  <2>6. \A e \in Elements(s[a].keys) : lo[a] <= e /\ Under(e, hi[b])
    BY <1>6, <1>8, <2>1, <2>5 DEF Elements, Under
  <2>7. \A e \in Elements(s[b].keys) : lo[a] <= e /\ Under(e, hi[b])
    BY <1>6, <1>8, <2>2, <2>5 DEF Elements
  <2>8. Elements(h[a].keys) = Elements(s[a].keys) \cup Elements(s[b].keys)
    BY <1>2, <1>6, ConcatElements
  <2>9. \A i \in 1..Len(h[a].keys) : lo[a] <= h[a].keys[i] /\ Under(h[a].keys[i], hi[b])
    BY <2>6, <2>7, <2>8 DEF Elements
  <2> QED BY <1>2, <2>4, <2>5, <2>9, Zenon DEF Ranged
<1>10. /\ upper \in [NodeIds -> Nat] /\ upper[a] = hi[b]
       /\ \A m \in Alive(h) \ {a} : upper[m] = hi[m]
  BY <1>1, <1>2, <1>3, <1>5
<1>12. \A m, n \in Alive(h) : m # n /\ t[m] = t[n] => Apart(lo, upper, m, n)
  <2>1. \A n \in Alive(s) : Under(lo[n], hi[n])
    BY <1>3 DEF Ranged
  <2>2. Alive(s) \in SUBSET NodeIds /\ b \in Alive(s) /\ a \in Alive(s) /\ Alive(h) = Alive(s) \ {b}
    BY <1>1, <1>2, <1>5
  <2>3. \A m, n \in Alive(s) \ {b} :
              m # n /\ t[m] = t[n] => Apart(lo, [hi EXCEPT ![a] = hi[b]], m, n)
    BY <1>2, <1>3, <1>5, <2>1, <2>2, ApartJoin
  <2> QED BY <2>2, <2>3, Zenon
<1> HIDE DEF upper, up
<1>13. \A m \in Alive(h) : up[m] = upper[m]
  <2>1. b # NULL => up[a] = hi[b] /\ \A m \in NodeIds : m # a => up[m] = hi[m]
    BY <1>2, <1>3, UpperIs DEF up
  <2> QED BY <1>1, <1>2, <1>5, <1>10, <2>1
<1>14. ASSUME NEW n \in Alive(h) PROVE Ranged(h[n], lo[n], upper[n])
  <2>1. CASE n = a
    BY <1>9, <1>10, <2>1
  <2>3. CASE n # a
    <3>1. Ranged(s[n], lo[n], hi[n]) /\ Body(s[n], h[n]) /\ upper[n] = hi[n]
      BY <1>1, <1>3, <1>10, <2>3
    <3> QED BY <3>1 DEF Ranged, Body
  <2> QED BY <2>1, <2>3
<1>15. Upper(upper, any, NULL) = upper
  BY <1>10, UpperIs
<1>16. ASSUME NEW n \in Inners(h) PROVE Fences(h[n], lo[n], upper[n], lo, upper)
  <2>1. n \in Inners(s) /\ n \in Alive(h) /\ s[n] = h[n] /\ n # a
    BY <1>1, <1>2 DEF Inners
  <2>2. Fences(h[n], lo[n], hi[n], lo, up) /\ Family(s, r, b, t, n)
    BY <1>3, <1>5, <2>1
  <2>3. /\ Len(h[n].keys) \in Nat /\ Len(h[n].kids) = Len(h[n].keys) + 1
        /\ \A j \in 1..Len(h[n].kids) : h[n].kids[j] \in Alive(h)
    <3>1. Len(h[n].keys) \in Nat
      BY <1>2, <2>1, AliveIsNode
    <3>2. \A j \in 1..Len(h[n].kids) : h[n].kids[j] \in Alive(s) \ {r, b}
      BY <2>1, <2>2, Zenon DEF Family
    <3> QED BY <1>1, <2>1, <2>2, <3>1, <3>2 DEF Family
  <2>4. upper[n] = hi[n]
    BY <1>10, <2>1
  <2>5. \A j \in 1..Len(h[n].kids) :
          lo[h[n].kids[j]] = lo[h[n].kids[j]] /\ upper[h[n].kids[j]] = up[h[n].kids[j]]
    BY <1>13, <2>3
  <2> QED BY <2>1, <2>2, <2>3, <2>4, <2>5, FencesKept, Zenon
<1>17. lo[r] = 0 /\ upper[r] = 0
  BY <1>3, <1>5, <1>13
<1> QED BY <1>3, <1>10, <1>12, <1>14, <1>15, <1>16, <1>17, Zenon DEF Ordered, upper

(***************************************************************************)
(* The chain.                                                              *)
(***************************************************************************)
LEMMA LeafSplitKeepsChain ==
  ASSUME NEW h, NEW s, NEW a, NEW b, DividedLeaf(h, s, a, b),
         NEW lo \in [NodeIds -> Nat], NEW hi \in [NodeIds -> Nat],
         Chained(h, lo, hi), NEW v \in Nat \ {0}
  PROVE  Chained(s, [lo EXCEPT ![b] = v], [hi EXCEPT ![a] = v, ![b] = hi[a]])
<1> DEFINE after == [lo EXCEPT ![b] = v]
           upper == [hi EXCEPT ![a] = v, ![b] = hi[a]]
<1>1. /\ b \notin Leaves(h) /\ Leaves(s) = Leaves(h) \cup {b}
      /\ a \in Leaves(h) /\ b \in NodeIds /\ a # b /\ Leaves(h) \subseteq NodeIds /\ NULL \notin NodeIds
  <2>1. b \notin Leaves(h) /\ Leaves(s) = Leaves(h) \cup {b}
    BY DividedLeafAlive
  <2>2. a \in Leaves(h) /\ b \in NodeIds /\ h[b] = Freed
    BY DEF DividedLeaf
  <2>3. Leaves(h) \subseteq NodeIds /\ NULL \notin NodeIds
    BY MapAssumption DEF Leaves, Alive
  <2> QED BY <2>1, <2>2, <2>3
<1>2. /\ s[a].previous = h[a].previous /\ s[a].next = b
      /\ s[b].next = h[a].next /\ s[b].previous = a
      /\ \A x \in NodeIds : x = h[a].next =>
           /\ x \in Leaves(h) /\ x # a /\ h[x].previous = a
           /\ s[x].next = h[x].next /\ s[x].previous = b
      /\ \A m \in NodeIds \ {a, b, h[a].next} : s[m] = h[m]
  BY DEF DividedLeaf
<1>3. /\ after[b] = v /\ upper[b] = hi[a] /\ upper[a] = v
      /\ \A m \in Leaves(h) : after[m] = lo[m]
      /\ \A m \in Leaves(h) \ {a} : upper[m] = hi[m]
  BY <1>1
<1> HIDE DEF after, upper
<1>4. ASSUME NEW n \in Leaves(h)
      PROVE  /\ h[n].next = NULL <=> hi[n] = 0
             /\ h[n].next # NULL =>
                  /\ h[n].next \in Leaves(h)
                  /\ lo[h[n].next] = hi[n] /\ h[h[n].next].previous = n
  BY DEF Chained
<1> DEFINE Ends(n) == s[n].next = NULL <=> upper[n] = 0
           Goes(n) == s[n].next # NULL =>
                        /\ s[n].next \in Leaves(s)
                        /\ after[s[n].next] = upper[n] /\ s[s[n].next].previous = n
<1>5. Ends(a) /\ Goes(a)
  BY <1>1, <1>2, <1>3
<1>6. Ends(b) /\ Goes(b)
  BY <1>1, <1>2, <1>3, <1>4
<1>7. ASSUME NEW n \in Leaves(h), n # a PROVE Ends(n) /\ Goes(n)
  <2>1. s[n].next = h[n].next
    BY <1>1, <1>2, <1>7
  <2>2. Ends(n)
    BY <1>3, <1>4, <1>7, <2>1
  <2>3. ASSUME h[n].next # NULL PROVE s[h[n].next].previous = n /\ after[h[n].next] = upper[n]
    <3>1. h[n].next \in Leaves(h) /\ lo[h[n].next] = hi[n] /\ h[h[n].next].previous = n
      BY <1>4, <2>3
    <3>2. h[n].next # h[a].next
      BY <1>1, <1>2, <1>7, <3>1
    <3>3. s[h[n].next].previous = n
      <4>1. CASE h[n].next = a
        BY <1>2, <3>1, <4>1
      <4>2. CASE h[n].next # a
        BY <1>1, <1>2, <3>1, <3>2, <4>2
      <4> QED BY <4>1, <4>2
    <3> QED BY <1>3, <1>7, <3>1, <3>3
  <2> QED BY <1>1, <1>4, <2>1, <2>2, <2>3
<1>8. \A n \in Leaves(s) : Ends(n) /\ Goes(n)
  <2> HIDE DEF Ends, Goes
  <2> QED BY <1>1, <1>5, <1>6, <1>7
<1> QED BY <1>8, Zenon DEF Chained, after, upper

LEMMA LeafJoinKeepsChain ==
  ASSUME NEW h, NEW s, NEW a, NEW b, DividedLeaf(h, s, a, b),
         NEW lo \in [NodeIds -> Nat], NEW hi \in [NodeIds -> Nat],
         Chained(s, lo, hi)
  PROVE  Chained(h, lo, [hi EXCEPT ![a] = hi[b]])
<1> DEFINE upper == [hi EXCEPT ![a] = hi[b]]
<1>1. /\ b \notin Leaves(h) /\ Leaves(s) = Leaves(h) \cup {b}
      /\ a \in Leaves(h) /\ b \in NodeIds /\ a # b /\ Leaves(h) \subseteq NodeIds /\ NULL \notin NodeIds
  <2>1. b \notin Leaves(h) /\ Leaves(s) = Leaves(h) \cup {b}
    BY DividedLeafAlive
  <2>2. a \in Leaves(h) /\ b \in NodeIds /\ h[b] = Freed
    BY DEF DividedLeaf
  <2>3. Leaves(h) \subseteq NodeIds /\ NULL \notin NodeIds
    BY MapAssumption DEF Leaves, Alive
  <2> QED BY <2>1, <2>2, <2>3
<1>2. /\ s[a].previous = h[a].previous /\ s[a].next = b
      /\ s[b].next = h[a].next /\ s[b].previous = a
      /\ \A x \in NodeIds : x = h[a].next =>
           /\ x \in Leaves(h) /\ x # a /\ h[x].previous = a
           /\ s[x].next = h[x].next /\ s[x].previous = b
      /\ \A m \in NodeIds \ {a, b, h[a].next} : s[m] = h[m]
  BY DEF DividedLeaf
<1>3. upper[a] = hi[b] /\ \A m \in Leaves(h) \ {a} : upper[m] = hi[m]
  BY <1>1
<1> HIDE DEF upper
<1>4. ASSUME NEW n \in Leaves(s)
      PROVE  /\ s[n].next = NULL <=> hi[n] = 0
             /\ s[n].next # NULL =>
                  /\ s[n].next \in Leaves(s)
                  /\ lo[s[n].next] = hi[n] /\ s[s[n].next].previous = n
  BY DEF Chained
<1> DEFINE Ends(n) == h[n].next = NULL <=> upper[n] = 0
           Goes(n) == h[n].next # NULL =>
                        /\ h[n].next \in Leaves(h)
                        /\ lo[h[n].next] = upper[n] /\ h[h[n].next].previous = n
<1>5. Ends(a) /\ Goes(a)
  <2>1. Ends(a)
    BY <1>1, <1>2, <1>3, <1>4
  <2>2. ASSUME h[a].next # NULL
        PROVE  h[a].next \in Leaves(h) /\ lo[h[a].next] = upper[a] /\ h[h[a].next].previous = a
    <3>1. s[b].next \in Leaves(s) /\ lo[s[b].next] = hi[b]
      BY <1>1, <1>2, <1>4, <2>2
    <3>2. h[a].next \in NodeIds
      BY <1>1, <1>2, <3>1
    <3> QED BY <1>2, <1>3, <3>1, <3>2
  <2> QED BY <2>1, <2>2
<1>7. ASSUME NEW n \in Leaves(h), n # a PROVE Ends(n) /\ Goes(n)
  <2>0. n \in Leaves(s) /\ n # b /\ n \in NodeIds
    BY <1>1
  <2>1. s[n].next = h[n].next
    BY <1>1, <1>2, <1>7
  <2>2. Ends(n)
    BY <1>3, <1>4, <1>7, <2>0, <2>1
  <2>3. ASSUME h[n].next # NULL
        PROVE  h[h[n].next].previous = n /\ lo[h[n].next] = upper[n] /\ h[n].next \in Leaves(h)
    <3>1. h[n].next \in Leaves(s) /\ lo[h[n].next] = hi[n] /\ s[h[n].next].previous = n
      BY <1>4, <2>0, <2>1, <2>3
    <3>2. h[n].next # b /\ h[n].next # h[a].next
      BY <1>1, <1>2, <1>7, <2>0, <3>1
    <3>4. h[n].next \in Leaves(h) /\ h[n].next \in NodeIds
      BY <1>1, <3>1, <3>2
    <3>3. h[h[n].next].previous = n
      <4>1. CASE h[n].next = a
        BY <1>2, <3>1, <4>1
      <4>2. CASE h[n].next # a
        BY <1>1, <1>2, <3>1, <3>2, <3>4, <4>2
      <4> QED BY <4>1, <4>2
    <3> QED BY <1>3, <1>7, <3>1, <3>3, <3>4
  <2> QED BY <1>1, <1>4, <2>1, <2>2, <2>3
<1>8. \A n \in Leaves(h) : Ends(n) /\ Goes(n)
  <2> HIDE DEF Ends, Goes
  <2> QED BY <1>1, <1>5, <1>7
<1> QED BY <1>8, Zenon DEF Chained, upper

(***************************************************************************)
(* What the leaves hold.                                                   *)
(***************************************************************************)
(* The keys with their values, and both, which no step of a rebalancing or *)
(* of a propagation changes.                                               *)
PairsOf(x) == {<<x.keys[i], x.values[i]>> : i \in 1..Len(x.keys)}
Pairs(h) == UNION {PairsOf(h[n]) : n \in Leaves(h)}
Content(h) == <<Held(h), Pairs(h)>>

LEMMA HeldIs ==
  ASSUME NEW h \in Heaps
  PROVE  Held(h) = UNION {Elements(h[n].keys) : n \in Leaves(h)}
<1>1. ASSUME NEW n \in Leaves(h) PROVE ToSet(h[n].keys) = Elements(h[n].keys)
  <2>1. h[n].keys \in Seq(Keys)
    BY AliveIsNode DEF Leaves
  <2>2. DOMAIN h[n].keys = 1..Len(h[n].keys)
    BY <2>1
  <2> QED BY <2>2 DEF ToSet, Elements
<1> QED BY <1>1 DEF Held

LEMMA DividedLeafKeys ==
  ASSUME NEW h, NEW s, NEW a, NEW b, DividedLeaf(h, s, a, b)
  PROVE  Held(s) = Held(h)
<1>1. /\ Leaves(s) = Leaves(h) \cup {b} /\ b \notin Leaves(h)
      /\ \A m \in Alive(h) \ {a} : Body(s[m], h[m])
      /\ Alive(s) = Alive(h) \cup {b}
  BY DividedLeafAlive
<1>2. /\ h \in Heaps /\ s \in Heaps /\ a \in Leaves(h) /\ a \in Alive(h)
      /\ ConcatOf(s[a].keys, s[b].keys, h[a].keys)
  BY DEF DividedLeaf, Leaves
<1>3. Len(s[a].keys) \in Nat /\ Len(s[b].keys) \in Nat
  <2>1. a \in Alive(s) /\ b \in Alive(s)
    BY <1>1, <1>2
  <2> QED BY <1>2, <2>1, AliveIsNode
<1>4. Elements(h[a].keys) = Elements(s[a].keys) \cup Elements(s[b].keys)
  BY <1>2, <1>3, ConcatElements
<1>5. \A m \in Leaves(h) \ {a} : s[m].keys = h[m].keys
  BY <1>1 DEF Body, Leaves
<1>6. Held(h) = UNION {Elements(h[n].keys) : n \in Leaves(h)}
      /\ Held(s) = UNION {Elements(s[n].keys) : n \in Leaves(s)}
  BY <1>2, HeldIs
<1>7. ASSUME NEW e PROVE e \in Held(s) <=> e \in Held(h)
  <2>1. e \in Held(h) => e \in Held(s)
    <3> SUFFICES ASSUME NEW n \in Leaves(h), e \in Elements(h[n].keys) PROVE e \in Held(s)
      BY <1>6
    <3>1. CASE n = a
      BY <1>1, <1>2, <1>4, <1>6, <3>1
    <3>2. CASE n # a
      BY <1>1, <1>5, <1>6, <3>2
    <3> QED BY <3>1, <3>2
  <2>2. e \in Held(s) => e \in Held(h)
    <3> SUFFICES ASSUME NEW n \in Leaves(s), e \in Elements(s[n].keys) PROVE e \in Held(h)
      BY <1>6
    <3>1. CASE n = a \/ n = b
      BY <1>1, <1>2, <1>4, <1>6, <3>1
    <3>2. CASE n # a /\ n # b
      BY <1>1, <1>5, <1>6, <3>2
    <3> QED BY <3>1, <3>2
  <2> QED BY <2>1, <2>2
<1> QED BY <1>7

LEMMA DividedLeafPairs ==
  ASSUME NEW h, NEW s, NEW a, NEW b, DividedLeaf(h, s, a, b)
  PROVE  Pairs(s) = Pairs(h)
<1>1. /\ Leaves(s) = Leaves(h) \cup {b} /\ b \notin Leaves(h)
      /\ \A m \in Alive(h) \ {a} : Body(s[m], h[m])
      /\ Alive(s) = Alive(h) \cup {b}
  BY DividedLeafAlive
<1>2. /\ h \in Heaps /\ s \in Heaps /\ a \in Leaves(h) /\ a \in Alive(h)
      /\ ConcatOf(s[a].keys, s[b].keys, h[a].keys)
      /\ ConcatOf(s[a].values, s[b].values, h[a].values)
      /\ Len(s[a].values) = Len(s[a].keys) /\ Len(s[b].values) = Len(s[b].keys)
  BY DEF DividedLeaf, Leaves
<1>3. Len(s[a].keys) \in Nat /\ Len(s[b].keys) \in Nat
  <2>1. a \in Alive(s) /\ b \in Alive(s)
    BY <1>1, <1>2
  <2> QED BY <1>2, <2>1, AliveIsNode
<1>4. Cuts(s[a].keys, s[b].keys, h[a].keys)
  BY <1>2, <1>3, ConcatPositions
<1>5. Cuts(s[a].values, s[b].values, h[a].values)
  BY <1>2, <1>3, ConcatPositions
<1>6. PairsOf(h[a]) = PairsOf(s[a]) \cup PairsOf(s[b])
  <2>1. ASSUME NEW e \in PairsOf(s[a]) PROVE e \in PairsOf(h[a])
    <3>1. PICK i \in 1..Len(s[a].keys) : e = <<s[a].keys[i], s[a].values[i]>>
      BY DEF PairsOf
    <3>2. i \in 1..Len(h[a].keys) /\ h[a].keys[i] = s[a].keys[i] /\ h[a].values[i] = s[a].values[i]
      BY <1>2, <1>4, <1>5, <3>1, Zenon DEF Cuts
    <3> QED BY <3>1, <3>2 DEF PairsOf
  <2>2. ASSUME NEW e \in PairsOf(s[b]) PROVE e \in PairsOf(h[a])
    <3>1. PICK i \in 1..Len(s[b].keys) : e = <<s[b].keys[i], s[b].values[i]>>
      BY DEF PairsOf
    <3> DEFINE l == Len(s[a].keys) + i
    <3>2. l \in 1..Len(h[a].keys) /\ h[a].keys[l] = s[b].keys[i] /\ h[a].values[l] = s[b].values[i]
      BY <1>2, <1>4, <1>5, <3>1, Zenon DEF Cuts
    <3> HIDE DEF l
    <3> QED BY <3>1, <3>2 DEF PairsOf
  <2>3. ASSUME NEW e \in PairsOf(h[a]) PROVE e \in PairsOf(s[a]) \cup PairsOf(s[b])
    <3>1. PICK j \in 1..Len(h[a].keys) : e = <<h[a].keys[j], h[a].values[j]>>
      BY DEF PairsOf
    <3>2. CASE j \in 1..Len(s[a].keys)
      <4>1. h[a].keys[j] = s[a].keys[j] /\ h[a].values[j] = s[a].values[j]
        BY <1>2, <1>4, <1>5, <3>2, Zenon DEF Cuts
      <4> QED BY <3>1, <3>2, <4>1 DEF PairsOf
    <3>3. CASE j \notin 1..Len(s[a].keys)
      <4> DEFINE i == j - Len(s[a].keys)
      <4>1. i \in 1..Len(s[b].keys) /\ h[a].keys[j] = s[b].keys[i]
        BY <1>4, <3>1, <3>3 DEF Cuts
      <4>2. Len(s[a].keys) + i = j
        BY <1>3
      <4> HIDE DEF i
      <4>3. h[a].values[j] = s[b].values[i]
        BY <1>2, <1>5, <4>1, <4>2, Zenon DEF Cuts
      <4> QED BY <3>1, <4>1, <4>3 DEF PairsOf
    <3> QED BY <3>2, <3>3
  <2> QED BY <2>1, <2>2, <2>3
<1>7. \A m \in Leaves(h) \ {a} : PairsOf(s[m]) = PairsOf(h[m])
  <2> SUFFICES ASSUME NEW m \in Leaves(h) \ {a} PROVE PairsOf(s[m]) = PairsOf(h[m])
    OBVIOUS
  <2>1. s[m].keys = h[m].keys /\ s[m].values = h[m].values
    BY <1>1 DEF Body, Leaves
  <2> QED BY <2>1 DEF PairsOf
<1> DEFINE Q(x) == PairsOf(x)
<1> HIDE DEF Q
<1>8. /\ Q(h[a]) = Q(s[a]) \cup Q(s[b])
      /\ \A m \in Leaves(h) \ {a} : Q(s[m]) = Q(h[m])
      /\ Pairs(h) = UNION {Q(h[n]) : n \in Leaves(h)}
      /\ Pairs(s) = UNION {Q(s[n]) : n \in Leaves(s)}
  BY <1>6, <1>7 DEF Q, Pairs
<1>9. ASSUME NEW e PROVE e \in Pairs(s) <=> e \in Pairs(h)
  <2>1. e \in Pairs(h) => e \in Pairs(s)
    <3> SUFFICES ASSUME NEW n \in Leaves(h), e \in Q(h[n]) PROVE e \in Pairs(s)
      BY <1>8
    <3>1. CASE n = a
      BY <1>1, <1>2, <1>8, <3>1
    <3>2. CASE n # a
      BY <1>1, <1>8, <3>2
    <3> QED BY <3>1, <3>2
  <2>2. e \in Pairs(s) => e \in Pairs(h)
    <3> SUFFICES ASSUME NEW n \in Leaves(s), e \in Q(s[n]) PROVE e \in Pairs(h)
      BY <1>8
    <3>1. CASE n = a \/ n = b
      BY <1>1, <1>2, <1>8, <3>1
    <3>2. CASE n # a /\ n # b
      BY <1>1, <1>8, <3>2
    <3> QED BY <3>1, <3>2
  <2> QED BY <2>1, <2>2
<1> QED BY <1>9

(* Whichever leaf they are in, the keys and the values they go with are    *)
(* the same.                                                               *)
LEMMA DividedLeafHolds ==
  ASSUME NEW h, NEW s, NEW a, NEW b, DividedLeaf(h, s, a, b)
  PROVE  Content(s) = Content(h)
BY DividedLeafKeys, DividedLeafPairs DEF Content

LEMMA DividedLeafOwns ==
  ASSUME NEW h, NEW s, NEW a, NEW b, DividedLeaf(h, s, a, b)
  PROVE  Owned(s) <=> Owned(h)
<1>1. /\ Leaves(s) = Leaves(h) \cup {b} /\ b \notin Leaves(h)
      /\ \A m \in Alive(h) \ {a} : Body(s[m], h[m])
      /\ Alive(s) = Alive(h) \cup {b}
  BY DividedLeafAlive
<1>2. /\ h \in Heaps /\ s \in Heaps /\ a \in Leaves(h) /\ a \in Alive(h)
      /\ ConcatOf(s[a].keys, s[b].keys, h[a].keys)
      /\ ConcatOf(s[a].values, s[b].values, h[a].values)
      /\ Len(s[a].values) = Len(s[a].keys) /\ Len(s[b].values) = Len(s[b].keys)
  BY DEF DividedLeaf, Leaves
<1>3. Len(s[a].keys) \in Nat /\ Len(s[b].keys) \in Nat
  <2>1. a \in Alive(s) /\ b \in Alive(s)
    BY <1>1, <1>2
  <2> QED BY <1>2, <2>1, AliveIsNode
<1>4. /\ \A i \in 1..Len(s[a].keys) : i \in 1..Len(h[a].keys) /\ h[a].keys[i] = s[a].keys[i]
      /\ \A i \in 1..Len(s[b].keys) : Len(s[a].keys) + i \in 1..Len(h[a].keys)
                                      /\ h[a].keys[Len(s[a].keys) + i] = s[b].keys[i]
      /\ \A j \in 1..Len(h[a].keys) :
            j \in 1..Len(s[a].keys)
            \/ (j - Len(s[a].keys) \in 1..Len(s[b].keys) /\ h[a].keys[j] = s[b].keys[j - Len(s[a].keys)])
      /\ Len(h[a].keys) \in Nat /\ Len(h[a].keys) = Len(s[a].keys) + Len(s[b].keys)
  <2>1. Cuts(s[a].keys, s[b].keys, h[a].keys)
    BY <1>2, <1>3, ConcatPositions
  <2> QED BY <2>1, Zenon DEF Cuts
<1>5. /\ \A i \in 1..Len(s[a].keys) : h[a].values[i] = s[a].values[i]
      /\ \A i \in 1..Len(s[b].keys) : h[a].values[Len(s[a].keys) + i] = s[b].values[i]
  <2>1. Cuts(s[a].values, s[b].values, h[a].values)
    BY <1>2, <1>3, ConcatPositions
  <2> QED BY <1>2, <2>1, Zenon DEF Cuts
<1> DEFINE Own(g, n) == \A i \in 1..Len(g[n].keys) : g[n].values[i] \in {g[n].keys[i], Updated}
<1>6. Own(h, a) <=> Own(s, a) /\ Own(s, b)
  <2>1. ASSUME Own(h, a) PROVE Own(s, a) /\ Own(s, b)
    BY <1>4, <1>5, <2>1
  <2>2. ASSUME Own(s, a), Own(s, b) PROVE Own(h, a)
    <3>1. ASSUME NEW j \in 1..Len(h[a].keys) PROVE h[a].values[j] \in {h[a].keys[j], Updated}
      <4>1. CASE j \in 1..Len(s[a].keys)
        BY <1>4, <1>5, <2>2, <4>1
      <4>2. CASE j \notin 1..Len(s[a].keys)
        <5> DEFINE i == j - Len(s[a].keys)
        <5>1. i \in 1..Len(s[b].keys) /\ h[a].keys[j] = s[b].keys[i]
          BY <1>4, <4>2
        <5>2. Len(s[a].keys) + i = j
          BY <1>3
        <5> HIDE DEF i
        <5>3. h[a].values[j] = s[b].values[i]
          BY <1>5, <5>1, <5>2, Zenon
        <5> QED BY <2>2, <5>1, <5>3, Zenon
      <4> QED BY <4>1, <4>2
    <3> QED BY <3>1
  <2> QED BY <2>1, <2>2
<1>7. \A n \in Leaves(h) \ {a} : Own(h, n) <=> Own(s, n)
  <2>1. \A n \in Leaves(h) \ {a} : s[n].keys = h[n].keys /\ s[n].values = h[n].values
    BY <1>1 DEF Body, Leaves
  <2> QED BY <2>1
<1>8. Owned(h) <=> \A n \in Leaves(h) : Own(h, n)
  BY Zenon DEF Owned
<1>9. Owned(s) <=> \A n \in Leaves(s) : Own(s, n)
  BY Zenon DEF Owned
<1> HIDE DEF Own
<1> QED BY <1>1, <1>2, <1>6, <1>7, <1>8, <1>9

(***************************************************************************)
(* Two inner nodes u, v and the one x that they make up with up between    *)
(* them.                                                                   *)
(***************************************************************************)
MiddleOf(u, e, v, w) ==
  /\ Len(w) = Len(u) + Len(v) + 1 /\ w[Len(u) + 1] = e
  /\ \A j \in 1..Len(u) : w[j] = u[j]
  /\ \A j \in 1..Len(v) : w[Len(u) + 1 + j] = v[j]

Parted(x, u, v, up) ==
  /\ Len(u.keys) \in Nat /\ Len(v.keys) \in Nat
  /\ Len(u.kids) = Len(u.keys) + 1 /\ Len(v.kids) = Len(v.keys) + 1
  /\ MiddleOf(u.keys, up, v.keys, x.keys) /\ ConcatOf(u.kids, v.kids, x.kids)

Positions(x, u, v, up, l, r) ==
  /\ l \in Nat /\ r \in Nat /\ Len(x.keys) = l + r + 1 /\ Len(x.kids) = l + r + 2
  /\ Len(u.keys) = l /\ Len(v.keys) = r /\ Len(u.kids) = l + 1 /\ Len(v.kids) = r + 1
  /\ x.keys[l + 1] = up
  /\ \A j \in 1..l : x.keys[j] = u.keys[j]
  /\ \A j \in 1..r : x.keys[l + 1 + j] = v.keys[j]
  /\ \A j \in 1..(l + 1) : x.kids[j] = u.kids[j]
  /\ \A j \in 1..(r + 1) : x.kids[l + 1 + j] = v.kids[j]

LEMMA PartedPositions ==
  ASSUME NEW x, NEW u, NEW v, NEW up, Parted(x, u, v, up)
  PROVE  Positions(x, u, v, up, Len(u.keys), Len(v.keys))
<1>1. /\ Len(u.keys) \in Nat /\ Len(v.keys) \in Nat
      /\ Len(u.kids) = Len(u.keys) + 1 /\ Len(v.kids) = Len(v.keys) + 1
      /\ Len(x.keys) = Len(u.keys) + Len(v.keys) + 1 /\ x.keys[Len(u.keys) + 1] = up
      /\ \A j \in 1..Len(u.keys) : x.keys[j] = u.keys[j]
      /\ \A j \in 1..Len(v.keys) : x.keys[Len(u.keys) + 1 + j] = v.keys[j]
      /\ Len(x.kids) = Len(u.kids) + Len(v.kids)
      /\ \A j \in 1..Len(u.kids) : x.kids[j] = u.kids[j]
      /\ \A j \in 1..Len(v.kids) : x.kids[Len(u.kids) + j] = v.kids[j]
  BY Zenon DEF Parted, MiddleOf, ConcatOf
<1>2. Len(x.kids) = Len(u.keys) + Len(v.keys) + 2
  <2>1. \A a, b \in Nat : (a + 1) + (b + 1) = a + b + 2
    OBVIOUS
  <2> QED BY <1>1, <2>1, Zenon
<1>3. /\ \A j \in 1..(Len(u.keys) + 1) : x.kids[j] = u.kids[j]
      /\ \A j \in 1..(Len(v.keys) + 1) : x.kids[Len(u.keys) + 1 + j] = v.kids[j]
  BY <1>1, Zenon
<1> QED BY <1>1, <1>2, <1>3, Zenon DEF Positions

(* The fences and ranges of an inner node, of its two parts, and of the    *)
(* parts put together again.                                               *)
LEMMA FencesParted ==
  ASSUME NEW x, NEW u, NEW v, NEW up, Parted(x, u, v, up),
         NEW low, NEW high, NEW lo, NEW upper, Fences(x, low, high, lo, upper)
  PROVE  Fences(u, low, up, lo, upper) /\ Fences(v, up, high, lo, upper)
<1> DEFINE l == Len(u.keys)
           r == Len(v.keys)
<1>1. Positions(x, u, v, up, l, r)
  BY PartedPositions
<1> HIDE DEF l, r
<1>2. /\ l \in Nat /\ r \in Nat /\ Len(x.keys) = l + r + 1
      /\ Len(u.keys) = l /\ Len(v.keys) = r /\ x.keys[l + 1] = up
      /\ \A j \in 1..l : x.keys[j] = u.keys[j]
      /\ \A j \in 1..r : x.keys[l + 1 + j] = v.keys[j]
      /\ \A j \in 1..(l + 1) : x.kids[j] = u.kids[j]
      /\ \A j \in 1..(r + 1) : x.kids[l + 1 + j] = v.kids[j]
  BY <1>1, Zenon DEF Positions
<1>3. /\ lo[x.kids[1]] = low /\ upper[x.kids[Len(x.keys) + 1]] = high
      /\ \A j \in 1..Len(x.keys) : lo[x.kids[j + 1]] = x.keys[j] /\ upper[x.kids[j]] = x.keys[j]
  BY Zenon DEF Fences
<1>4. Fences(u, low, up, lo, upper)
  <2>1. lo[u.kids[1]] = low
    <3>1. 1 \in 1..(l + 1)
      BY <1>2
    <3> QED BY <1>2, <1>3, <3>1, Zenon
  <2>2. upper[u.kids[l + 1]] = up
    <3>1. l + 1 \in 1..(l + 1) /\ l + 1 \in 1..Len(x.keys)
      BY <1>2
    <3> QED BY <1>2, <1>3, <3>1, Zenon
  <2>3. ASSUME NEW j \in 1..l PROVE lo[u.kids[j + 1]] = u.keys[j] /\ upper[u.kids[j]] = u.keys[j]
    <3>1. j \in 1..(l + 1) /\ j + 1 \in 1..(l + 1) /\ j \in 1..Len(x.keys)
      BY <1>2
    <3> QED BY <1>2, <1>3, <3>1, Zenon
  <2> QED BY <1>2, <2>1, <2>2, <2>3, Zenon DEF Fences
<1>5. Fences(v, up, high, lo, upper)
  <2>1. lo[v.kids[1]] = up
    <3>1. 1 \in 1..(r + 1) /\ l + 1 \in 1..Len(x.keys)
      BY <1>2
    <3>2. x.kids[l + 1 + 1] = v.kids[1]
      BY <1>2, <3>1, Zenon
    <3> QED BY <1>2, <1>3, <3>1, <3>2, Zenon
  <2>2. upper[v.kids[r + 1]] = high
    <3>1. r + 1 \in 1..(r + 1) /\ l + 1 + (r + 1) = Len(x.keys) + 1
      BY <1>2
    <3>2. x.kids[l + 1 + (r + 1)] = v.kids[r + 1]
      BY <1>2, <3>1, Zenon
    <3> QED BY <1>3, <3>1, <3>2, Zenon
  <2>3. ASSUME NEW j \in 1..r PROVE lo[v.kids[j + 1]] = v.keys[j] /\ upper[v.kids[j]] = v.keys[j]
    <3>1. /\ j \in 1..(r + 1) /\ j + 1 \in 1..(r + 1) /\ l + 1 + j \in 1..Len(x.keys)
          /\ l + 1 + (j + 1) = (l + 1 + j) + 1
      BY <1>2
    <3>2. x.kids[l + 1 + (j + 1)] = v.kids[j + 1] /\ x.kids[l + 1 + j] = v.kids[j]
          /\ x.keys[l + 1 + j] = v.keys[j]
      BY <1>2, <3>1, Zenon
    <3> QED BY <1>3, <3>1, <3>2, Zenon
  <2> QED BY <1>2, <2>1, <2>2, <2>3, Zenon DEF Fences
<1> QED BY <1>4, <1>5

LEMMA FencesGathered ==
  ASSUME NEW x, NEW u, NEW v, NEW up, Parted(x, u, v, up),
         NEW low, NEW high, NEW lo, NEW upper,
         Fences(u, low, up, lo, upper), Fences(v, up, high, lo, upper)
  PROVE  Fences(x, low, high, lo, upper)
<1> DEFINE l == Len(u.keys)
           r == Len(v.keys)
<1>1. Positions(x, u, v, up, l, r)
  BY PartedPositions
<1>3. /\ lo[u.kids[1]] = low /\ upper[u.kids[l + 1]] = up
      /\ \A j \in 1..l : lo[u.kids[j + 1]] = u.keys[j] /\ upper[u.kids[j]] = u.keys[j]
  BY Zenon DEF Fences
<1>4. /\ lo[v.kids[1]] = up /\ upper[v.kids[r + 1]] = high
      /\ \A j \in 1..r : lo[v.kids[j + 1]] = v.keys[j] /\ upper[v.kids[j]] = v.keys[j]
  BY Zenon DEF Fences
<1> HIDE DEF l, r
<1>2. /\ l \in Nat /\ r \in Nat /\ Len(x.keys) = l + r + 1
      /\ x.keys[l + 1] = up
      /\ \A j \in 1..l : x.keys[j] = u.keys[j]
      /\ \A j \in 1..r : x.keys[l + 1 + j] = v.keys[j]
      /\ \A j \in 1..(l + 1) : x.kids[j] = u.kids[j]
      /\ \A j \in 1..(r + 1) : x.kids[l + 1 + j] = v.kids[j]
  BY <1>1, Zenon DEF Positions
<1>5. lo[x.kids[1]] = low
  <2>1. 1 \in 1..(l + 1)
    BY <1>2
  <2> QED BY <1>2, <1>3, <2>1, Zenon
<1>6. upper[x.kids[Len(x.keys) + 1]] = high
  <2>1. r + 1 \in 1..(r + 1) /\ l + 1 + (r + 1) = Len(x.keys) + 1
    BY <1>2
  <2> QED BY <1>2, <1>4, <2>1, Zenon
<1>7. ASSUME NEW j \in 1..Len(x.keys) PROVE lo[x.kids[j + 1]] = x.keys[j] /\ upper[x.kids[j]] = x.keys[j]
  <2>0. j \in Nat /\ j >= 1
    BY <1>2
  <2>1. CASE j <= l
    <3>1. j \in 1..l /\ j \in 1..(l + 1) /\ j + 1 \in 1..(l + 1)
      BY <1>2, <2>0, <2>1
    <3> QED BY <1>2, <1>3, <3>1, Zenon
  <2>2. CASE j = l + 1
    <3>1. j \in 1..(l + 1) /\ 1 \in 1..(r + 1) /\ j + 1 = l + 1 + 1
      BY <1>2, <2>2
    <3> QED BY <1>2, <1>3, <1>4, <2>2, <3>1, Zenon
  <2>3. CASE j > l + 1
    <3> DEFINE i == j - (l + 1)
    <3>1. /\ i \in 1..r /\ i \in 1..(r + 1) /\ i + 1 \in 1..(r + 1)
          /\ l + 1 + i = j /\ l + 1 + (i + 1) = j + 1
      BY <1>2, <2>3
    <3> HIDE DEF i
    <3>2. x.kids[l + 1 + (i + 1)] = v.kids[i + 1] /\ x.kids[l + 1 + i] = v.kids[i]
          /\ x.keys[l + 1 + i] = v.keys[i]
      BY <1>2, <3>1, Zenon
    <3> QED BY <1>4, <3>1, <3>2, Zenon
  <2> QED BY <1>2, <2>0, <2>1, <2>2, <2>3
<1> QED BY <1>5, <1>6, <1>7, Zenon DEF Fences

LEMMA RangedParted ==
  ASSUME NEW x, NEW u, NEW v, NEW up, Parted(x, u, v, up), ~x.outer, ~u.outer, ~v.outer,
         \A j \in 1..Len(x.keys) : x.keys[j] \in Nat /\ x.keys[j] > 0,
         NEW low \in Nat, NEW high \in Nat, Ranged(x, low, high)
  PROVE  /\ Ranged(u, low, up) /\ Ranged(v, up, high)
         /\ up \in Nat /\ up > 0 /\ low < up /\ Under(up, high)
<1> DEFINE l == Len(u.keys)
           r == Len(v.keys)
<1>1. Positions(x, u, v, up, l, r)
  BY PartedPositions
<1> HIDE DEF l, r
<1>2. /\ l \in Nat /\ r \in Nat /\ Len(x.keys) = l + r + 1
      /\ Len(u.keys) = l /\ Len(v.keys) = r /\ x.keys[l + 1] = up
      /\ \A j \in 1..l : x.keys[j] = u.keys[j]
      /\ \A j \in 1..r : x.keys[l + 1 + j] = v.keys[j]
  BY <1>1, Zenon DEF Positions
<1>3. /\ Under(low, high)
      /\ \A i, j \in 1..Len(x.keys) : i < j => x.keys[i] < x.keys[j]
      /\ \A j \in 1..Len(x.keys) : low < x.keys[j] /\ Under(x.keys[j], high)
  BY Zenon DEF Ranged, Ascending
<1>4. /\ \A j \in 1..l : j \in 1..Len(x.keys) /\ j < l + 1
      /\ \A j \in 1..r : l + 1 + j \in 1..Len(x.keys) /\ l + 1 < l + 1 + j
      /\ l + 1 \in 1..Len(x.keys)
      /\ \A i, j \in 1..r : i < j => l + 1 + i < l + 1 + j
  BY <1>2
<1>5. up \in Nat /\ up > 0 /\ low < up /\ Under(up, high)
  BY <1>2, <1>3, <1>4
<1>6. Ranged(u, low, up)
  <2>1. Ascending(u.keys)
    BY <1>2, <1>3, <1>4, Zenon DEF Ascending
  <2>2. ASSUME NEW j \in 1..Len(u.keys)
        PROVE  low <= u.keys[j] /\ Under(u.keys[j], up) /\ low < u.keys[j]
    <3>1. u.keys[j] \in Nat /\ low < u.keys[j] /\ u.keys[j] < up
      BY <1>2, <1>3, <1>4, Zenon
    <3> QED BY <3>1 DEF Under
  <2>3. Under(low, up)
    BY <1>5 DEF Under
  <2> QED BY <2>1, <2>2, <2>3, Zenon DEF Ranged
<1>7. Ranged(v, up, high)
  <2>1. Ascending(v.keys)
    BY <1>2, <1>3, <1>4, Zenon DEF Ascending
  <2>2. ASSUME NEW j \in 1..Len(v.keys)
        PROVE  up <= v.keys[j] /\ Under(v.keys[j], high) /\ up < v.keys[j]
    <3>1. v.keys[j] \in Nat /\ up < v.keys[j] /\ Under(v.keys[j], high)
      BY <1>2, <1>3, <1>4, Zenon
    <3> QED BY <1>5, <3>1
  <2> QED BY <1>5, <2>1, <2>2, Zenon DEF Ranged
<1> QED BY <1>5, <1>6, <1>7

LEMMA RangedGathered ==
  ASSUME NEW x, NEW u, NEW v, NEW up \in Nat, Parted(x, u, v, up), ~x.outer, ~u.outer, ~v.outer,
         \A j \in 1..Len(u.keys) : u.keys[j] \in Nat,
         \A j \in 1..Len(v.keys) : v.keys[j] \in Nat,
         NEW low \in Nat, NEW high \in Nat, up # 0,
         Ranged(u, low, up), Ranged(v, up, high)
  PROVE  Ranged(x, low, high)
<1> DEFINE l == Len(u.keys)
           r == Len(v.keys)
<1>1. Positions(x, u, v, up, l, r)
  BY PartedPositions
<1>3. /\ low < up /\ Ascending(u.keys)
      /\ \A j \in 1..l : u.keys[j] \in Nat /\ low < u.keys[j] /\ u.keys[j] < up
  BY DEF Ranged, Under
<1>4. /\ Under(up, high) /\ Ascending(v.keys)
      /\ \A j \in 1..r : v.keys[j] \in Nat /\ up < v.keys[j] /\ Under(v.keys[j], high)
  BY DEF Ranged
<1>0. /\ \A i, j \in 1..l : i < j => u.keys[i] < u.keys[j]
      /\ \A i, j \in 1..r : i < j => v.keys[i] < v.keys[j]
  BY <1>3, <1>4 DEF Ascending
<1> HIDE DEF l, r
<1>2. /\ l \in Nat /\ r \in Nat /\ Len(x.keys) = l + r + 1
      /\ x.keys[l + 1] = up
      /\ \A j \in 1..l : x.keys[j] = u.keys[j]
      /\ \A j \in 1..r : x.keys[l + 1 + j] = v.keys[j]
  BY <1>1, Zenon DEF Positions
<1>5. ASSUME NEW j \in 1..Len(x.keys)
      PROVE  \/ j \in 1..l /\ x.keys[j] = u.keys[j]
             \/ j = l + 1 /\ x.keys[j] = up
             \/ j - (l + 1) \in 1..r /\ x.keys[j] = v.keys[j - (l + 1)]
  <2>1. j \in 1..l \/ j = l + 1 \/ (j - (l + 1) \in 1..r /\ l + 1 + (j - (l + 1)) = j)
    BY <1>2
  <2> QED BY <1>2, <2>1, Zenon
<1>6. \A e \in Nat : up < e => low < e
  BY <1>3
<1>7. \A e \in Nat : e < up => Under(e, high)
  BY <1>4 DEF Under
<1>8. ASSUME NEW j \in 1..Len(x.keys)
      PROVE  low <= x.keys[j] /\ Under(x.keys[j], high) /\ low < x.keys[j]
  <2>1. x.keys[j] \in Nat /\ low < x.keys[j] /\ Under(x.keys[j], high)
    BY <1>3, <1>4, <1>5, <1>6, <1>7, Zenon
  <2> QED BY <2>1
<1>9. ASSUME NEW i \in 1..Len(x.keys), NEW j \in 1..Len(x.keys), i < j PROVE x.keys[i] < x.keys[j]
  <2>1. \A e, f \in Nat : e < up /\ up < f => e < f
    OBVIOUS
  <2>2. CASE j \in 1..l
    <3>1. i \in 1..l
      BY <1>2, <1>9, <2>2
    <3> QED BY <1>0, <1>2, <1>9, <2>2, <3>1, Zenon
  <2>3. CASE j = l + 1
    <3>1. i \in 1..l
      BY <1>2, <1>9, <2>3
    <3> QED BY <1>2, <1>3, <2>3, <3>1, Zenon
  <2>4. CASE j - (l + 1) \in 1..r /\ x.keys[j] = v.keys[j - (l + 1)]
    <3>1. CASE i \in 1..l
      BY <1>2, <1>3, <1>4, <2>1, <2>4, <3>1, Zenon
    <3>2. CASE i = l + 1
      BY <1>2, <1>4, <2>4, <3>2, Zenon
    <3>3. CASE i - (l + 1) \in 1..r /\ x.keys[i] = v.keys[i - (l + 1)]
      <4>1. i - (l + 1) < j - (l + 1)
        BY <1>2, <1>9
      <4> QED BY <1>0, <2>4, <3>3, <4>1, Zenon
    <3> QED BY <1>5, <3>1, <3>2, <3>3, Zenon
  <2> QED BY <1>5, <2>2, <2>3, <2>4, Zenon
<1>10. Under(low, high)
  BY <1>3, <1>4 DEF Under
<1>11. Ascending(x.keys)
  BY <1>9, Zenon DEF Ascending
<1> QED BY <1>8, <1>10, <1>11, Zenon DEF Ranged

(* What the inner node a holds in h is divided between a and b in s; the   *)
(* key up between them is in neither.                                      *)
DividedInner(h, s, a, b, up) ==
  /\ h \in Heaps /\ s \in Heaps /\ a \in Inners(h) /\ b \in NodeIds /\ h[b] = Freed
  /\ s[a] \in Node /\ s[b] \in Node /\ ~s[a].outer /\ ~s[b].outer
  /\ Parted(h[a], s[a], s[b], up) /\ s[a].parent = h[a].parent
  /\ \A m \in NodeIds : IsKid(s, m, b) =>
       /\ m \in Alive(h) \ {a} /\ h[m].parent = a
       /\ s[m] \in Node /\ Body(s[m], h[m]) /\ Links(s[m], h[m]) /\ s[m].parent = b
  /\ \A m \in NodeIds \ {a, b} : ~IsKid(s, m, b) => s[m] = h[m]

LEMMA DividedInnerAlive ==
  ASSUME NEW h, NEW s, NEW a, NEW b, NEW up, DividedInner(h, s, a, b, up)
  PROVE  /\ b \notin Alive(h) /\ Alive(s) = Alive(h) \cup {b} /\ Leaves(s) = Leaves(h)
         /\ Inners(s) = Inners(h) \cup {b} /\ b \notin Inners(h) /\ a # b
         /\ \A m \in Alive(h) : s[m].outer = h[m].outer
         /\ \A m \in Alive(h) \ {a} : Body(s[m], h[m]) /\ Links(s[m], h[m])
         /\ \A m \in Alive(h) : ~IsKid(s, m, b) => s[m].parent = h[m].parent
<1>1. /\ a \in Alive(h) /\ ~h[a].outer /\ b \in NodeIds /\ h[b] = Freed /\ a # b /\ a \in NodeIds
      /\ s[a] # Freed /\ s[b] # Freed /\ ~s[a].outer /\ ~s[b].outer
      /\ s[a].parent = h[a].parent
      /\ \A m \in NodeIds \ {a, b} : ~IsKid(s, m, b) => s[m] = h[m]
  BY FreedAssumption DEF DividedInner, Inners, Alive
<1>2. ASSUME NEW m \in NodeIds, IsKid(s, m, b)
      PROVE  /\ m \in Alive(h) \ {a} /\ s[m] # Freed /\ h[m] # Freed
             /\ Body(s[m], h[m]) /\ Links(s[m], h[m])
  BY <1>2, FreedAssumption DEF DividedInner, Alive
<1>3. ASSUME NEW m \in NodeIds PROVE s[m] # Freed <=> (h[m] # Freed \/ m = b)
  <2>1. CASE m \in {a, b}
    BY <1>1, <2>1 DEF Alive
  <2>2. CASE m \notin {a, b} /\ IsKid(s, m, b)
    BY <1>2, <2>2
  <2>3. CASE m \notin {a, b} /\ ~IsKid(s, m, b)
    BY <1>1, <2>3
  <2> QED BY <2>1, <2>2, <2>3
<1>4. b \notin Alive(h) /\ Alive(s) = Alive(h) \cup {b}
  BY <1>1, <1>3 DEF Alive
<1>5. ASSUME NEW m \in Alive(h) \ {a} PROVE Body(s[m], h[m]) /\ Links(s[m], h[m])
  <2>1. m \in NodeIds /\ m # b
    BY <1>4 DEF Alive
  <2>2. CASE IsKid(s, m, b)
    BY <1>2, <2>1, <2>2
  <2>3. CASE ~IsKid(s, m, b)
    <3>1. s[m] = h[m]
      BY <1>1, <2>1, <2>3
    <3> QED BY <3>1 DEF Body, Links
  <2> QED BY <2>2, <2>3
<1>6. s[a].outer = h[a].outer
  <2>1. h[a].outer \in BOOLEAN
    <3>1. h \in Heaps
      BY DEF DividedInner
    <3> QED BY <1>1, <3>1, AliveIsNode
  <2>2. s[a].outer \in BOOLEAN
    BY DEF DividedInner, Node
  <2> QED BY <1>1, <2>1, <2>2
<1>7. \A m \in Alive(h) : s[m].outer = h[m].outer
  BY <1>5, <1>6 DEF Body
<1>8. Leaves(s) = Leaves(h) /\ Inners(s) = Inners(h) \cup {b} /\ b \notin Inners(h)
  BY <1>1, <1>4, <1>7 DEF Leaves, Inners
<1>9. ASSUME NEW m \in Alive(h), ~IsKid(s, m, b) PROVE s[m].parent = h[m].parent
  <2>1. m \in NodeIds /\ m # b
    BY <1>4 DEF Alive
  <2> QED BY <1>1, <1>9, <2>1
<1> QED BY <1>1, <1>4, <1>5, <1>7, <1>8, <1>9, Zenon

(* The kids of the whole node and those of its parts.                      *)
KidsParted(x, u, v) ==
  /\ Elements(x) = Elements(u) \cup Elements(v)
  /\ Distinct(x) <=> Distinct(u) /\ Distinct(v) /\ Elements(u) \cap Elements(v) = {}

LEMMA KidsAreParted ==
  ASSUME NEW x, NEW u, NEW v, ConcatOf(u, v, x), Len(u) \in Nat, Len(v) \in Nat
  PROVE  KidsParted(x, u, v)
<1>1. /\ \A i \in 1..Len(u) : i \in 1..Len(x) /\ x[i] = u[i]
      /\ \A i \in 1..Len(v) : Len(u) + i \in 1..Len(x) /\ x[Len(u) + i] = v[i]
      /\ \A j \in 1..Len(x) : j \in 1..Len(u) \/ (j - Len(u) \in 1..Len(v) /\ x[j] = v[j - Len(u)])
      /\ Len(x) \in Nat
  <2>1. Cuts(u, v, x)
    BY ConcatPositions
  <2> QED BY <2>1, Zenon DEF Cuts
<1>2. Elements(x) = Elements(u) \cup Elements(v)
  BY ConcatElements
<1>3. ASSUME Distinct(x)
      PROVE  Distinct(u) /\ Distinct(v) /\ Elements(u) \cap Elements(v) = {}
  <2>0. \A i, j \in 1..Len(x) : x[i] = x[j] => i = j
    BY <1>3 DEF Distinct
  <2>1. Distinct(u)
    BY <1>1, <2>0, Zenon DEF Distinct
  <2>2. ASSUME NEW i \in 1..Len(v), NEW j \in 1..Len(v), v[i] = v[j] PROVE i = j
    <3>1. Len(u) + i = Len(u) + j
      BY <1>1, <2>0, <2>2, Zenon
    <3> QED BY <3>1
  <2>3. ASSUME NEW i \in 1..Len(u), NEW j \in 1..Len(v), u[i] = v[j] PROVE FALSE
    <3>1. i = Len(u) + j
      BY <1>1, <2>0, <2>3, Zenon
    <3> QED BY <3>1
  <2> QED BY <2>1, <2>2, <2>3, Zenon DEF Distinct, Elements
<1>4. ASSUME Distinct(u), Distinct(v), Elements(u) \cap Elements(v) = {}
      PROVE  Distinct(x)
  <2>0. /\ \A i, j \in 1..Len(u) : u[i] = u[j] => i = j
        /\ \A i, j \in 1..Len(v) : v[i] = v[j] => i = j
        /\ \A i \in 1..Len(u), j \in 1..Len(v) : u[i] # v[j]
    <3>1. ASSUME NEW i \in 1..Len(u), NEW j \in 1..Len(v) PROVE u[i] # v[j]
      <4>1. u[i] \in Elements(u) /\ v[j] \in Elements(v)
        BY Zenon DEF Elements
      <4> QED BY <1>4, <4>1
    <3> QED BY <1>4, <3>1, Zenon DEF Distinct
  <2>1. ASSUME NEW i \in 1..Len(x), NEW j \in 1..Len(x), x[i] = x[j] PROVE i = j
    <3>0. ASSUME NEW l \in 1..Len(x)
          PROVE  \/ l \in 1..Len(u) /\ x[l] = u[l]
                 \/ l - Len(u) \in 1..Len(v) /\ x[l] = v[l - Len(u)]
      BY <1>1, Zenon
    <3>1. CASE i \in 1..Len(u) /\ x[i] = u[i] /\ j \in 1..Len(u) /\ x[j] = u[j]
      BY <2>0, <2>1, <3>1, Zenon
    <3>2. CASE i \in 1..Len(u) /\ x[i] = u[i] /\ j - Len(u) \in 1..Len(v) /\ x[j] = v[j - Len(u)]
      <4>1. u[i] = v[j - Len(u)]
        BY <2>1, <3>2, Zenon
      <4> QED BY <2>0, <3>2, <4>1, Zenon
    <3>3. CASE i - Len(u) \in 1..Len(v) /\ x[i] = v[i - Len(u)] /\ j \in 1..Len(u) /\ x[j] = u[j]
      <4>1. u[j] = v[i - Len(u)]
        BY <2>1, <3>3, Zenon
      <4> QED BY <2>0, <3>3, <4>1, Zenon
    <3>4. CASE /\ i - Len(u) \in 1..Len(v) /\ x[i] = v[i - Len(u)]
               /\ j - Len(u) \in 1..Len(v) /\ x[j] = v[j - Len(u)]
      <4>0. v[i - Len(u)] = v[j - Len(u)]
        BY <2>1, <3>4, Zenon
      <4>1. i - Len(u) = j - Len(u)
        BY <2>0, <3>4, <4>0, Zenon
      <4> QED BY <4>1
    <3> QED BY <3>0, <3>1, <3>2, <3>3, <3>4, Zenon
  <2> QED BY <2>1, Zenon DEF Distinct
<1> QED BY <1>2, <1>3, <1>4, Zenon DEF KidsParted

LEMMA KidIsElement ==
  ASSUME NEW h, NEW m, NEW n
  PROVE  IsKid(h, m, n) <=> m \in Elements(h[n].kids)
BY Zenon DEF IsKid, Elements

(* Family, with the kids as a set.                                         *)
LEMMA FamilyIs ==
  ASSUME NEW h, NEW r, NEW k, NEW t, NEW n
  PROVE  Family(h, r, k, t, n) <=>
           /\ Len(h[n].kids) = Len(h[n].keys) + 1 /\ Distinct(h[n].kids)
           /\ \A m : IsKid(h, m, n) =>
                m \in Alive(h) \ {r, k} /\ h[m].parent = n /\ t[m] + 1 = t[n]
BY Zenon DEF Family, IsKid

(* The kids of a and b, and the rest of the heap, before and after.        *)
KidsOf(h, s, a, b) ==
  /\ \A m : IsKid(h, m, a) <=> IsKid(s, m, a) \/ IsKid(s, m, b)
  /\ Distinct(h[a].kids) <=>
       Distinct(s[a].kids) /\ Distinct(s[b].kids) /\ \A m : ~(IsKid(s, m, a) /\ IsKid(s, m, b))
  /\ \A n \in Alive(h) \ {a} : \A m : IsKid(h, m, n) <=> IsKid(s, m, n)
  /\ Len(h[a].kids) = Len(h[a].keys) + 1 /\ Len(s[a].kids) = Len(s[a].keys) + 1
  /\ Len(s[b].kids) = Len(s[b].keys) + 1

LEMMA DividedInnerKids ==
  ASSUME NEW h, NEW s, NEW a, NEW b, NEW up, DividedInner(h, s, a, b, up)
  PROVE  KidsOf(h, s, a, b)
<1>1. Parted(h[a], s[a], s[b], up)
  BY DEF DividedInner
<1>2. /\ ConcatOf(s[a].kids, s[b].kids, h[a].kids)
      /\ Len(s[a].keys) \in Nat /\ Len(s[b].keys) \in Nat
      /\ Len(s[a].kids) = Len(s[a].keys) + 1 /\ Len(s[b].kids) = Len(s[b].keys) + 1
  BY <1>1, Zenon DEF Parted
<1>3. Len(s[a].kids) \in Nat /\ Len(s[b].kids) \in Nat
  BY <1>2
<1>4. KidsParted(h[a].kids, s[a].kids, s[b].kids)
  BY <1>2, <1>3, KidsAreParted
<1>5. Len(h[a].kids) = Len(h[a].keys) + 1
  <2>1. Positions(h[a], s[a], s[b], up, Len(s[a].keys), Len(s[b].keys))
    BY <1>1, PartedPositions
  <2> QED BY <2>1 DEF Positions
<1>6. /\ Elements(h[a].kids) = Elements(s[a].kids) \cup Elements(s[b].kids)
      /\ Distinct(h[a].kids) <=>
           /\ Distinct(s[a].kids) /\ Distinct(s[b].kids)
           /\ Elements(s[a].kids) \cap Elements(s[b].kids) = {}
  BY <1>4, Zenon DEF KidsParted
<1>7. \A g, m, n : IsKid(g, m, n) <=> m \in Elements(g[n].kids)
  BY KidIsElement
<1>8. \A m : IsKid(h, m, a) <=> IsKid(s, m, a) \/ IsKid(s, m, b)
  BY <1>6, <1>7, Zenon
<1>9. Elements(s[a].kids) \cap Elements(s[b].kids) = {} <=> \A m : ~(IsKid(s, m, a) /\ IsKid(s, m, b))
  BY <1>7
<1>10. \A n \in Alive(h) \ {a} : \A m : IsKid(h, m, n) <=> IsKid(s, m, n)
  <2>1. \A n \in Alive(h) \ {a} : Body(s[n], h[n])
    BY DividedInnerAlive
  <2> QED BY <2>1, Zenon DEF Body, IsKid
<1> QED BY <1>2, <1>5, <1>6, <1>8, <1>9, <1>10, Zenon DEF KidsOf

(* An inner node that is divided, and two that are gathered.               *)
LEMMA InnerSplitKeepsShape ==
  ASSUME NEW h, NEW s, NEW a, NEW b, NEW up, DividedInner(h, s, a, b, up),
         NEW r, NEW t, Shape(h, r, NULL, t)
  PROVE  Shape(s, r, b, [t EXCEPT ![b] = t[a]])
<1> DEFINE u == [t EXCEPT ![b] = t[a]]
<1>1. /\ b \notin Alive(h) /\ Alive(s) = Alive(h) \cup {b} /\ Leaves(s) = Leaves(h)
      /\ Inners(s) = Inners(h) \cup {b} /\ b \notin Inners(h) /\ a # b
      /\ \A m \in Alive(h) : s[m].outer = h[m].outer
      /\ \A m \in Alive(h) \ {a} : Body(s[m], h[m]) /\ Links(s[m], h[m])
      /\ \A m \in Alive(h) : ~IsKid(s, m, b) => s[m].parent = h[m].parent
  BY DividedInnerAlive
<1>2. /\ s \in Heaps /\ b \in NodeIds /\ ~s[b].outer /\ a \in Inners(h) /\ a \in Alive(h)
      /\ \A m \in NodeIds : IsKid(s, m, b) => s[m].parent = b
  BY DEF DividedInner, Inners
<1>3. /\ t \in [NodeIds -> Nat] /\ r \in Alive(h)
      /\ \A n \in Alive(h) : Placed(h, r, NULL, t, n)
      /\ \A n \in Leaves(h) : Len(h[n].values) = Len(h[n].keys)
      /\ \A n \in Inners(h) : Family(h, r, NULL, t, n)
      /\ NULL \notin Alive(h)
  BY MapAssumption DEF Shape, Alive
<1>4. /\ u \in [NodeIds -> Nat] /\ u[b] = t[a] /\ \A m \in Alive(h) : u[m] = t[m]
      /\ r \in Alive(s) /\ b \in Alive(s) \ {r}
  BY <1>1, <1>2, <1>3 DEF Alive
<1> HIDE DEF u
<1>5. /\ \A m : IsKid(h, m, a) <=> IsKid(s, m, a) \/ IsKid(s, m, b)
      /\ Distinct(h[a].kids) <=>
           Distinct(s[a].kids) /\ Distinct(s[b].kids) /\ \A m : ~(IsKid(s, m, a) /\ IsKid(s, m, b))
      /\ \A n \in Alive(h) \ {a} : \A m : IsKid(h, m, n) <=> IsKid(s, m, n)
      /\ Len(s[a].kids) = Len(s[a].keys) + 1 /\ Len(s[b].kids) = Len(s[b].keys) + 1
  <2>1. KidsOf(h, s, a, b)
    BY DividedInnerKids
  <2> QED BY <2>1, Zenon DEF KidsOf
<1>6. \A n \in Inners(h) :
        /\ Len(h[n].kids) = Len(h[n].keys) + 1 /\ Distinct(h[n].kids)
        /\ \A m : IsKid(h, m, n) =>
             m \in Alive(h) \ {r, NULL} /\ h[m].parent = n /\ t[m] + 1 = t[n]
  BY <1>3, FamilyIs, Zenon
<1>7. \A m \in Alive(h) : m \in NodeIds
  BY DEF Alive
<1>8. ASSUME NEW n \in Alive(h) PROVE Placed(s, r, b, u, n)
  <2>1. /\ h[n].outer <=> t[n] = 0
        /\ t[n] <= t[r]
        /\ n # r => h[n].parent \in Inners(h) /\ IsKid(h, n, h[n].parent)
    BY <1>3 DEF Placed
  <2>2. s[n].outer <=> u[n] = 0
    BY <1>1, <1>4, <2>1
  <2>3. u[n] <= u[r]
    BY <1>3, <1>4, <2>1
  <2>4. ASSUME n # r PROVE s[n].parent \in Inners(s) /\ IsKid(s, n, s[n].parent)
    <3>1. CASE IsKid(s, n, b)
      BY <1>1, <1>2, <1>7, <3>1
    <3>2. CASE ~IsKid(s, n, b)
      <4>1. s[n].parent = h[n].parent
        BY <1>1, <3>2
      <4>2. CASE h[n].parent = a
        BY <1>1, <1>5, <2>1, <2>4, <3>2, <4>1, <4>2
      <4>3. CASE h[n].parent # a
        <5>1. h[n].parent \in Alive(h) \ {a}
          BY <2>1, <2>4, <4>3 DEF Inners
        <5> QED BY <1>1, <1>5, <2>1, <2>4, <4>1, <5>1
      <4> QED BY <4>2, <4>3
    <3> QED BY <3>1, <3>2
  <2> QED BY <2>2, <2>3, <2>4, Zenon DEF Placed
<1>9. Placed(s, r, b, u, b)
  <2>1. (h[a].outer <=> t[a] = 0) /\ t[a] <= t[r]
    BY <1>2, <1>3 DEF Placed
  <2>2. ~h[a].outer
    BY <1>2 DEF Inners
  <2> QED BY <1>2, <1>3, <1>4, <2>1, <2>2 DEF Placed
<1>10. \A n \in Leaves(s) : Len(s[n].values) = Len(s[n].keys)
  <2>1. \A n \in Leaves(h) : n \in Alive(h) \ {a}
    BY <1>2 DEF Leaves, Inners
  <2> QED BY <1>1, <1>3, <2>1 DEF Body
<1>11. Family(s, r, b, u, a)
  <2>1. ASSUME NEW m, IsKid(s, m, a)
        PROVE  m \in Alive(s) \ {r, b} /\ s[m].parent = a /\ u[m] + 1 = u[a]
    <3>1. IsKid(h, m, a) /\ ~IsKid(s, m, b)
      BY <1>2, <1>5, <1>6, <2>1
    <3>2. m \in Alive(h) \ {r, NULL} /\ h[m].parent = a /\ t[m] + 1 = t[a]
      BY <1>2, <1>6, <3>1, Zenon
    <3> QED BY <1>1, <1>2, <1>4, <3>1, <3>2
  <2>2. Distinct(s[a].kids)
    BY <1>2, <1>5, <1>6
  <2> QED BY <1>5, <2>1, <2>2, FamilyIs, Zenon
<1>12. Family(s, r, b, u, b)
  <2>1. ASSUME NEW m, IsKid(s, m, b)
        PROVE  m \in Alive(s) \ {r, b} /\ s[m].parent = b /\ u[m] + 1 = u[b]
    <3>1. IsKid(h, m, a)
      BY <1>5, <2>1
    <3>2. m \in Alive(h) \ {r, NULL} /\ h[m].parent = a /\ t[m] + 1 = t[a]
      BY <1>2, <1>6, <3>1, Zenon
    <3> QED BY <1>1, <1>2, <1>4, <1>7, <2>1, <3>2
  <2>2. Distinct(s[b].kids)
    BY <1>2, <1>5, <1>6
  <2> QED BY <1>5, <2>1, <2>2, FamilyIs, Zenon
<1>13. ASSUME NEW n \in Inners(h), n # a PROVE Family(s, r, b, u, n)
  <2>0. n \in Alive(h) \ {a} /\ Body(s[n], h[n])
    BY <1>1, <1>13 DEF Inners
  <2>1. ASSUME NEW m, IsKid(s, m, n)
        PROVE  m \in Alive(s) \ {r, b} /\ s[m].parent = n /\ u[m] + 1 = u[n]
    <3>1. IsKid(h, m, n)
      BY <1>5, <2>0, <2>1
    <3>2. m \in Alive(h) \ {r, NULL} /\ h[m].parent = n /\ t[m] + 1 = t[n]
      BY <1>6, <3>1, Zenon
    <3>3. ~IsKid(s, m, b)
      <4>1. IsKid(s, m, b) => h[m].parent = a
        BY <1>2, <1>5, <1>6
      <4> QED BY <1>13, <3>2, <4>1
    <3> QED BY <1>1, <1>4, <2>0, <3>2, <3>3
  <2>2. Distinct(s[n].kids) /\ Len(s[n].kids) = Len(s[n].keys) + 1
    BY <1>6, <2>0 DEF Body
  <2> QED BY <2>1, <2>2, FamilyIs, Zenon
<1>14. \A n \in Alive(s) : Placed(s, r, b, u, n)
  BY <1>1, <1>8, <1>9
<1>15. \A n \in Inners(s) : Family(s, r, b, u, n)
  BY <1>1, <1>11, <1>12, <1>13
<1> QED BY <1>2, <1>4, <1>10, <1>14, <1>15, Zenon DEF Shape, u

LEMMA InnerJoinKeepsShape ==
  ASSUME NEW h, NEW s, NEW a, NEW b, NEW up, DividedInner(h, s, a, b, up),
         NEW r, NEW t, Shape(s, r, b, t), t[a] = t[b]
  PROVE  Shape(h, r, NULL, t)
<1>1. /\ b \notin Alive(h) /\ Alive(s) = Alive(h) \cup {b} /\ Leaves(s) = Leaves(h)
      /\ Inners(s) = Inners(h) \cup {b} /\ b \notin Inners(h) /\ a # b
      /\ \A m \in Alive(h) : s[m].outer = h[m].outer
      /\ \A m \in Alive(h) \ {a} : Body(s[m], h[m]) /\ Links(s[m], h[m])
      /\ \A m \in Alive(h) : ~IsKid(s, m, b) => s[m].parent = h[m].parent
  BY DividedInnerAlive
<1>2. /\ h \in Heaps /\ b \in NodeIds /\ b # NULL /\ a \in Inners(h) /\ a \in Alive(h)
      /\ \A m \in NodeIds : IsKid(s, m, b) => s[m].parent = b /\ h[m].parent = a
  BY MapAssumption DEF DividedInner, Inners
<1>3. /\ t \in [NodeIds -> Nat] /\ r \in Alive(h)
      /\ \A n \in Alive(h) : Placed(s, r, b, t, n)
      /\ \A n \in Leaves(h) : Len(s[n].values) = Len(s[n].keys)
      /\ \A n \in Inners(s) : Family(s, r, b, t, n)
      /\ NULL \notin Alive(h)
  BY <1>1, <1>2, MapAssumption DEF Shape, Alive
<1>5. /\ \A m : IsKid(h, m, a) <=> IsKid(s, m, a) \/ IsKid(s, m, b)
      /\ Distinct(h[a].kids) <=>
           Distinct(s[a].kids) /\ Distinct(s[b].kids) /\ \A m : ~(IsKid(s, m, a) /\ IsKid(s, m, b))
      /\ \A n \in Alive(h) \ {a} : \A m : IsKid(h, m, n) <=> IsKid(s, m, n)
      /\ Len(h[a].kids) = Len(h[a].keys) + 1
  <2>1. KidsOf(h, s, a, b)
    BY DividedInnerKids
  <2> QED BY <2>1, Zenon DEF KidsOf
<1>6. \A n \in Inners(s) :
        /\ Len(s[n].kids) = Len(s[n].keys) + 1 /\ Distinct(s[n].kids)
        /\ \A m : IsKid(s, m, n) =>
             m \in Alive(s) \ {r, b} /\ s[m].parent = n /\ t[m] + 1 = t[n]
  BY <1>3, FamilyIs, Zenon
<1>7. \A m \in Alive(h) : m \in NodeIds
  BY DEF Alive
<1>8. ASSUME NEW n \in Alive(h) PROVE Placed(h, r, NULL, t, n)
  <2>0. n # b
    BY <1>1
  <2>1. /\ s[n].outer <=> t[n] = 0
        /\ t[n] <= t[r]
        /\ n # r => s[n].parent \in Inners(s) /\ IsKid(s, n, s[n].parent)
    BY <1>3, <2>0 DEF Placed
  <2>4. ASSUME n # r PROVE h[n].parent \in Inners(h) /\ IsKid(h, n, h[n].parent)
    <3>1. CASE IsKid(s, n, b)
      BY <1>2, <1>5, <1>7, <3>1
    <3>2. CASE ~IsKid(s, n, b)
      <4>1. s[n].parent = h[n].parent
        BY <1>1, <3>2
      <4>0. h[n].parent \in Inners(h) /\ h[n].parent # b
        BY <1>1, <2>1, <2>4, <3>2, <4>1
      <4>2. CASE h[n].parent = a
        BY <1>2, <1>5, <2>1, <2>4, <4>1, <4>2
      <4>3. CASE h[n].parent # a
        <5>1. h[n].parent \in Alive(h) \ {a}
          BY <4>0, <4>3 DEF Inners
        <5> QED BY <1>5, <2>1, <2>4, <4>0, <4>1, <5>1
      <4> QED BY <4>2, <4>3
    <3> QED BY <3>1, <3>2
  <2> QED BY <1>1, <2>1, <2>4, Zenon DEF Placed
<1>10. \A n \in Leaves(h) : Len(h[n].values) = Len(h[n].keys)
  <2>1. \A n \in Leaves(h) : n \in Alive(h) \ {a}
    BY <1>2 DEF Leaves, Inners
  <2> QED BY <1>1, <1>3, <2>1 DEF Body
<1>11. Family(h, r, NULL, t, a)
  <2>0. a \in Inners(s) /\ b \in Inners(s)
    BY <1>1, <1>2
  <2>1. ASSUME NEW m, IsKid(h, m, a)
        PROVE  m \in Alive(h) \ {r, NULL} /\ h[m].parent = a /\ t[m] + 1 = t[a]
    <3>1. CASE IsKid(s, m, b)
      <4>1. m \in Alive(s) \ {r, b} /\ t[m] + 1 = t[b]
        BY <1>6, <2>0, <3>1, Zenon
      <4> QED BY <1>1, <1>2, <1>3, <1>7, <3>1, <4>1
    <3>2. CASE ~IsKid(s, m, b)
      <4>1. m \in Alive(s) \ {r, b} /\ s[m].parent = a /\ t[m] + 1 = t[a]
        BY <1>5, <1>6, <2>0, <2>1, <3>2, Zenon
      <4> QED BY <1>1, <1>3, <3>2, <4>1
    <3> QED BY <3>1, <3>2
  <2>2. \A m : ~(IsKid(s, m, a) /\ IsKid(s, m, b))
    BY <1>1, <1>6, <2>0
  <2>3. Distinct(h[a].kids)
    BY <1>5, <1>6, <2>0, <2>2
  <2> QED BY <1>5, <2>1, <2>3, FamilyIs, Zenon
<1>13. ASSUME NEW n \in Inners(h), n # a PROVE Family(h, r, NULL, t, n)
  <2>0. n \in Alive(h) \ {a} /\ Body(s[n], h[n]) /\ n \in Inners(s) /\ n # b
    BY <1>1, <1>13 DEF Inners
  <2>1. ASSUME NEW m, IsKid(h, m, n)
        PROVE  m \in Alive(h) \ {r, NULL} /\ h[m].parent = n /\ t[m] + 1 = t[n]
    <3>1. IsKid(s, m, n)
      BY <1>5, <2>0, <2>1
    <3>2. m \in Alive(s) \ {r, b} /\ s[m].parent = n /\ t[m] + 1 = t[n]
      BY <1>6, <2>0, <3>1, Zenon
    <3>3. ~IsKid(s, m, b)
      BY <1>1, <1>2, <1>7, <2>0, <3>2
    <3> QED BY <1>1, <1>3, <3>2, <3>3
  <2>2. Distinct(h[n].kids) /\ Len(h[n].kids) = Len(h[n].keys) + 1
    BY <1>6, <2>0 DEF Body
  <2> QED BY <2>1, <2>2, FamilyIs, Zenon
<1>15. \A n \in Inners(h) : Family(h, r, NULL, t, n)
  BY <1>11, <1>13
<1> QED BY <1>2, <1>3, <1>8, <1>10, <1>15, Zenon DEF Shape

LEMMA InnerSplitKeepsOrder ==
  ASSUME NEW h, NEW s, NEW a, NEW b, NEW up, DividedInner(h, s, a, b, up),
         NEW r, NEW t, Shape(h, r, NULL, t),
         NEW lo, NEW hi, NEW any, Ordered(h, r, NULL, any, t, lo, hi)
  PROVE  Ordered(s, r, b, a, [t EXCEPT ![b] = t[a]], [lo EXCEPT ![b] = up],
                 [hi EXCEPT ![a] = up, ![b] = hi[a]])
<1> DEFINE high == [t EXCEPT ![b] = t[a]]
           after == [lo EXCEPT ![b] = up]
           upper == [hi EXCEPT ![a] = up, ![b] = hi[a]]
           ups == Upper(upper, a, b)
<1>1. /\ b \notin Alive(h) /\ Alive(s) = Alive(h) \cup {b} /\ Leaves(s) = Leaves(h)
      /\ Inners(s) = Inners(h) \cup {b} /\ b \notin Inners(h) /\ a # b
      /\ \A m \in Alive(h) \ {a} : Body(s[m], h[m])
  BY DividedInnerAlive, Zenon
<1>2. /\ h \in Heaps /\ b \in NodeIds /\ b # NULL /\ a \in NodeIds
      /\ a \in Alive(h) /\ a \in Inners(h) /\ ~s[a].outer /\ ~s[b].outer /\ ~h[a].outer
      /\ Parted(h[a], s[a], s[b], up)
  BY MapAssumption DEF DividedInner, Inners, Alive
<1>3. /\ lo \in [NodeIds -> Nat] /\ hi \in [NodeIds -> Nat]
      /\ \A n \in Alive(h) : Ranged(h[n], lo[n], hi[n])
      /\ \A n \in Inners(h) : Fences(h[n], lo[n], hi[n], lo, Upper(hi, any, NULL))
      /\ \A m, n \in Alive(h) : m # n /\ t[m] = t[n] => Apart(lo, hi, m, n)
      /\ lo[r] = 0 /\ Upper(hi, any, NULL)[r] = 0
  BY Zenon DEF Ordered
<1>4. Upper(hi, any, NULL) = hi
  BY <1>3, UpperIs
<1>5. /\ t \in [NodeIds -> Nat] /\ r \in Alive(h) /\ Alive(h) \subseteq NodeIds
      /\ \A n \in Inners(h) : Family(h, r, NULL, t, n)
  BY DEF Shape, Alive
<1>6. lo[a] \in Nat /\ hi[a] \in Nat
  BY <1>2, <1>3
<1>7. /\ Ranged(s[a], lo[a], up) /\ Ranged(s[b], up, hi[a])
      /\ up \in Nat /\ up > 0 /\ lo[a] < up /\ Under(up, hi[a])
  <2>1. \A j \in 1..Len(h[a].keys) : h[a].keys[j] \in Nat /\ h[a].keys[j] > 0
    BY <1>2, AliveIsNode, Zenon
  <2>2. Ranged(h[a], lo[a], hi[a])
    BY <1>2, <1>3
  <2>3. Parted(h[a], s[a], s[b], up) /\ ~h[a].outer /\ ~s[a].outer /\ ~s[b].outer
    BY <1>2
  <2> QED BY <1>6, <2>1, <2>2, <2>3, RangedParted, Zenon
<1>8. Fences(s[a], lo[a], up, lo, hi) /\ Fences(s[b], up, hi[a], lo, hi)
  <2>1. Fences(h[a], lo[a], hi[a], lo, hi)
    BY <1>2, <1>3, <1>4
  <2> QED BY <1>2, <2>1, FencesParted
<1>10. /\ after \in [NodeIds -> Nat] /\ upper \in [NodeIds -> Nat]
       /\ after[b] = up /\ upper[b] = hi[a] /\ upper[a] = up
       /\ \A m \in Alive(h) : after[m] = lo[m]
       /\ \A m \in Alive(h) \ {a} : upper[m] = hi[m]
  BY <1>1, <1>2, <1>3, <1>5, <1>7
<1>12. \A m, n \in Alive(s) : m # n /\ high[m] = high[n] => Apart(after, upper, m, n)
  <2>1. \A n \in Alive(h) : Under(lo[n], hi[n])
    BY <1>3 DEF Ranged
  <2>2. Alive(h) \in SUBSET NodeIds /\ b \in NodeIds \ Alive(h)
    BY <1>1, <1>2, <1>5
  <2>3. \A m, n \in Alive(h) \cup {b} :
           m # n /\ [t EXCEPT ![b] = t[a]][m] = [t EXCEPT ![b] = t[a]][n] =>
             Apart([lo EXCEPT ![b] = up], [hi EXCEPT ![a] = up, ![b] = hi[a]], m, n)
    BY <1>2, <1>3, <1>5, <1>7, <2>1, <2>2, ApartSplit
  <2> QED BY <1>1, <2>3, Zenon
<1> HIDE DEF high, after, upper, ups
<1>13. \A m \in Alive(h) : ups[m] = hi[m]
  <2>1. b # NULL => Upper(upper, a, b)[a] = upper[b] /\ \A m \in NodeIds : m # a => Upper(upper, a, b)[m] = upper[m]
    BY <1>2, <1>10, UpperIs
  <2> QED BY <1>2, <1>5, <1>10, <2>1 DEF ups
<1>14. ASSUME NEW n \in Alive(s) PROVE Ranged(s[n], after[n], upper[n])
  <2>1. CASE n = a
    BY <1>2, <1>7, <1>10, <2>1
  <2>2. CASE n = b
    BY <1>7, <1>10, <2>2
  <2>3. CASE n # a /\ n # b
    <3>1. n \in Alive(h) /\ Ranged(h[n], lo[n], hi[n]) /\ Body(s[n], h[n])
      BY <1>1, <1>3, <2>3
    <3>2. after[n] = lo[n] /\ upper[n] = hi[n]
      BY <1>10, <2>3, <3>1
    <3> QED BY <3>1, <3>2 DEF Ranged, Body
  <2> QED BY <2>1, <2>2, <2>3
<1>9. /\ \A n \in Inners(h) : \A m : IsKid(h, m, n) => m \in Alive(h)
      /\ \A m : IsKid(h, m, a) <=> IsKid(s, m, a) \/ IsKid(s, m, b)
      /\ Len(s[a].kids) = Len(s[a].keys) + 1 /\ Len(s[b].kids) = Len(s[b].keys) + 1
      /\ Len(s[a].keys) \in Nat /\ Len(s[b].keys) \in Nat
  <2>0. \A n \in Inners(h) : \A m : IsKid(h, m, n) => m \in Alive(h) \ {r, NULL}
    BY <1>5, FamilyIs, Zenon
  <2>1. \A n \in Inners(h) : \A m : IsKid(h, m, n) => m \in Alive(h)
    BY <2>0
  <2>2. KidsOf(h, s, a, b)
    BY DividedInnerKids
  <2>3. \A m : IsKid(h, m, a) <=> IsKid(s, m, a) \/ IsKid(s, m, b)
    BY <2>2, Zenon DEF KidsOf
  <2> QED BY <1>2, <2>1, <2>3, Zenon DEF Parted
<1>11. ASSUME NEW n, \A m : IsKid(s, m, n) => m \in Alive(h)
       PROVE  \A j \in 1..Len(s[n].kids) :
                after[s[n].kids[j]] = lo[s[n].kids[j]] /\ ups[s[n].kids[j]] = hi[s[n].kids[j]]
  <2>1. \A j \in 1..Len(s[n].kids) : s[n].kids[j] \in Alive(h)
    BY <1>11, Zenon DEF IsKid
  <2> QED BY <1>10, <1>13, <2>1
<1>15. ASSUME NEW n \in Inners(s) PROVE Fences(s[n], after[n], upper[n], after, ups)
  <2>1. CASE n = a
    <3>1. \A m : IsKid(s, m, a) => m \in Alive(h)
      BY <1>2, <1>9, Zenon
    <3>2. Fences(s[a], lo[a], up, after, ups)
      BY <1>8, <1>9, <1>11, <3>1, FencesKept
    <3> QED BY <1>2, <1>10, <2>1, <3>2
  <2>2. CASE n = b
    <3>1. \A m : IsKid(s, m, b) => m \in Alive(h)
      BY <1>2, <1>9, Zenon
    <3>2. Fences(s[b], up, hi[a], after, ups)
      BY <1>8, <1>9, <1>11, <3>1, FencesKept
    <3> QED BY <1>10, <2>2, <3>2
  <2>3. CASE n # a /\ n # b
    <3>1. n \in Inners(h) /\ n \in Alive(h) \ {a} /\ Body(s[n], h[n])
      BY <1>1, <2>3 DEF Inners
    <3>2. Fences(h[n], lo[n], hi[n], lo, hi) /\ Family(h, r, NULL, t, n)
      BY <1>3, <1>4, <1>5, <3>1
    <3>3. /\ Len(h[n].keys) \in Nat /\ Len(h[n].kids) = Len(h[n].keys) + 1
          /\ \A j \in 1..Len(h[n].kids) : h[n].kids[j] \in Alive(h)
      <4>1. Len(h[n].keys) \in Nat
        BY <1>2, <3>1, AliveIsNode
      <4> QED BY <3>2, <4>1, Zenon DEF Family
    <3>4. after[n] = lo[n] /\ upper[n] = hi[n]
      BY <1>10, <3>1
    <3>5. \A j \in 1..Len(h[n].kids) :
            after[h[n].kids[j]] = lo[h[n].kids[j]] /\ ups[h[n].kids[j]] = hi[h[n].kids[j]]
      BY <1>10, <1>13, <3>3
    <3>6. s[n].keys = h[n].keys /\ s[n].kids = h[n].kids
      BY <3>1 DEF Body
    <3> QED BY <3>2, <3>3, <3>4, <3>5, <3>6, FencesKept, Zenon
  <2> QED BY <2>1, <2>2, <2>3
<1>16. after[r] = 0 /\ ups[r] = 0 /\ upper[a] = after[b]
  BY <1>3, <1>4, <1>5, <1>10, <1>13
<1> QED BY <1>10, <1>12, <1>14, <1>15, <1>16, Zenon DEF Ordered, high, after, upper, ups

LEMMA InnerJoinKeepsOrder ==
  ASSUME NEW h, NEW s, NEW a, NEW b, NEW up \in Nat, up # 0, DividedInner(h, s, a, b, up),
         NEW r, NEW t, Shape(s, r, b, t), t[a] = t[b],
         NEW lo, NEW hi, NEW any, Ordered(s, r, b, a, t, lo, hi), hi[a] = up
  PROVE  Ordered(h, r, NULL, any, t, lo, [hi EXCEPT ![a] = hi[b]])
<1> DEFINE upper == [hi EXCEPT ![a] = hi[b]]
           ups == Upper(hi, a, b)
<1>1. /\ b \notin Alive(h) /\ Alive(s) = Alive(h) \cup {b} /\ Leaves(s) = Leaves(h)
      /\ Inners(s) = Inners(h) \cup {b} /\ b \notin Inners(h) /\ a # b
      /\ \A m \in Alive(h) \ {a} : Body(s[m], h[m])
  BY DividedInnerAlive, Zenon
<1>2. /\ h \in Heaps /\ s \in Heaps /\ b \in NodeIds /\ b # NULL /\ a \in NodeIds
      /\ a \in Alive(h) /\ a \in Inners(h) /\ ~s[a].outer /\ ~s[b].outer /\ ~h[a].outer
      /\ Parted(h[a], s[a], s[b], up)
  BY MapAssumption DEF DividedInner, Inners, Alive
<1>3. /\ lo \in [NodeIds -> Nat] /\ hi \in [NodeIds -> Nat]
      /\ \A n \in Alive(s) : Ranged(s[n], lo[n], hi[n])
      /\ \A n \in Inners(s) : Fences(s[n], lo[n], hi[n], lo, ups)
      /\ \A m, n \in Alive(s) : m # n /\ t[m] = t[n] => Apart(lo, hi, m, n)
      /\ lo[r] = 0 /\ ups[r] = 0 /\ hi[a] = lo[b]
  BY <1>2, Zenon DEF Ordered
<1>5. /\ t \in [NodeIds -> Nat] /\ r \in Alive(s) /\ r # b /\ Alive(s) \subseteq NodeIds
      /\ \A n \in Inners(s) : Family(s, r, b, t, n)
  BY <1>2 DEF Shape, Alive
<1>6. /\ \A n \in Inners(s) : \A m : IsKid(s, m, n) => m \in Alive(s) \ {r, b}
      /\ \A n \in Inners(h) : \A m : IsKid(h, m, n) => m \in Alive(h)
  <2>1. \A n \in Inners(s) : \A m : IsKid(s, m, n) => m \in Alive(s) \ {r, b}
    BY <1>5, FamilyIs, Zenon
  <2>2. KidsOf(h, s, a, b)
    BY DividedInnerKids
  <2>3. /\ \A m : IsKid(h, m, a) <=> IsKid(s, m, a) \/ IsKid(s, m, b)
        /\ \A n \in Alive(h) \ {a} : \A m : IsKid(h, m, n) <=> IsKid(s, m, n)
    BY <2>2, Zenon DEF KidsOf
  <2>4. ASSUME NEW n \in Inners(h), NEW m, IsKid(h, m, n) PROVE m \in Alive(h)
    <3>1. n \in Alive(h) /\ n \in Inners(s) /\ a \in Inners(s) /\ b \in Inners(s)
      BY <1>1, <1>2 DEF Inners
    <3>2. m \in Alive(s) \ {r, b}
      BY <2>1, <2>3, <2>4, <3>1
    <3> QED BY <1>1, <3>2
  <2> QED BY <2>1, <2>4
<1>7. /\ a \in Alive(s) /\ b \in Alive(s) /\ a \in Inners(s) /\ b \in Inners(s)
      /\ lo[a] \in Nat /\ hi[b] \in Nat /\ lo[b] = up
  BY <1>1, <1>2, <1>3
<1>8. Ranged(h[a], lo[a], hi[b])
  <2>1. Ranged(s[a], lo[a], up) /\ Ranged(s[b], up, hi[b])
    BY <1>3, <1>7
  <2>2. /\ \A j \in 1..Len(s[a].keys) : s[a].keys[j] \in Nat
        /\ \A j \in 1..Len(s[b].keys) : s[b].keys[j] \in Nat
    BY <1>2, <1>7, AliveIsNode, Zenon
  <2> QED BY <1>2, <1>7, <2>1, <2>2, RangedGathered
<1>10. /\ upper \in [NodeIds -> Nat] /\ upper[a] = hi[b]
       /\ \A m \in Alive(h) \ {a} : upper[m] = hi[m]
  BY <1>1, <1>2, <1>3, <1>5
<1>12. \A m, n \in Alive(h) : m # n /\ t[m] = t[n] => Apart(lo, upper, m, n)
  <2>1. \A n \in Alive(s) : Under(lo[n], hi[n])
    BY <1>3 DEF Ranged
  <2>2. Alive(s) \in SUBSET NodeIds /\ Alive(h) = Alive(s) \ {b}
    BY <1>1, <1>5
  <2>3. \A m, n \in Alive(s) \ {b} :
              m # n /\ t[m] = t[n] => Apart(lo, [hi EXCEPT ![a] = hi[b]], m, n)
    BY <1>1, <1>3, <1>5, <1>7, <2>1, <2>2, ApartJoin
  <2> QED BY <2>2, <2>3, Zenon
<1> HIDE DEF upper, ups
<1>13. ups[a] = hi[b] /\ (\A m \in Alive(s) : m # a => ups[m] = hi[m])
       /\ \A m \in Alive(h) : ups[m] = upper[m]
  <2>1. b # NULL => ups[a] = hi[b] /\ \A m \in NodeIds : m # a => ups[m] = hi[m]
    BY <1>2, <1>3, UpperIs DEF ups
  <2> QED BY <1>1, <1>2, <1>5, <1>10, <2>1
<1>14. ASSUME NEW n \in Alive(h) PROVE Ranged(h[n], lo[n], upper[n])
  <2>1. CASE n = a
    BY <1>8, <1>10, <2>1
  <2>3. CASE n # a
    <3>1. Ranged(s[n], lo[n], hi[n]) /\ Body(s[n], h[n]) /\ upper[n] = hi[n]
      BY <1>1, <1>3, <1>10, <2>3
    <3> QED BY <3>1 DEF Ranged, Body
  <2> QED BY <2>1, <2>3
<1>15. Upper(upper, any, NULL) = upper
  BY <1>10, UpperIs
<1>16. ASSUME NEW n \in Inners(h) PROVE Fences(h[n], lo[n], upper[n], lo, upper)
  <2>0. n \in Alive(h)
    BY DEF Inners
  <2>4. Len(h[n].keys) \in Nat
    BY <1>2, <2>0, AliveIsNode
  <2>5. ASSUME Len(h[n].kids) = Len(h[n].keys) + 1, NEW low, NEW high,
               Fences(h[n], low, high, lo, ups)
        PROVE  Fences(h[n], low, high, lo, upper)
    <3>1. \A j \in 1..Len(h[n].kids) :
            lo[h[n].kids[j]] = lo[h[n].kids[j]] /\ upper[h[n].kids[j]] = ups[h[n].kids[j]]
      <4>1. \A j \in 1..Len(h[n].kids) : h[n].kids[j] \in Alive(h)
        BY <1>6, Zenon DEF IsKid
      <4> QED BY <1>13, <4>1
    <3> QED BY <2>4, <2>5, <3>1, FencesKept, Zenon
  <2>1. CASE n = a
    <3>1. Fences(s[a], lo[a], up, lo, ups) /\ Fences(s[b], up, hi[b], lo, ups)
      BY <1>1, <1>3, <1>7
    <3>2. Fences(h[a], lo[a], hi[b], lo, ups)
      BY <1>2, <3>1, FencesGathered, Zenon
    <3>3. Len(h[a].kids) = Len(h[a].keys) + 1
      <4>1. KidsOf(h, s, a, b)
        BY DividedInnerKids
      <4> QED BY <4>1, Zenon DEF KidsOf
    <3> QED BY <1>10, <2>1, <2>5, <3>2, <3>3
  <2>2. CASE n # a
    <3>1. n \in Inners(s) /\ Body(s[n], h[n]) /\ upper[n] = hi[n]
      BY <1>1, <1>10, <2>0, <2>2
    <3>2. Fences(s[n], lo[n], hi[n], lo, ups) /\ Family(s, r, b, t, n)
      BY <1>3, <1>5, <3>1
    <3>3. Fences(h[n], lo[n], hi[n], lo, ups) /\ Len(h[n].kids) = Len(h[n].keys) + 1
      <4>1. h[n].keys = s[n].keys /\ h[n].kids = s[n].kids
        BY <3>1 DEF Body
      <4> QED BY <3>2, <4>1, Zenon DEF Fences, Family
    <3> QED BY <2>5, <3>1, <3>3
  <2> QED BY <2>1, <2>2
<1>17. lo[r] = 0 /\ upper[r] = 0
  BY <1>1, <1>3, <1>5, <1>13
<1> QED BY <1>3, <1>10, <1>12, <1>14, <1>15, <1>16, <1>17, Zenon DEF Ordered, upper

(***************************************************************************)
(* A root over the two halves of the one that was split, and a root that   *)
(* gives way to its only kid.                                              *)
(***************************************************************************)
NewRoot(h, s, r, k, n, key) ==
  /\ h \in Heaps /\ s \in Heaps /\ r \in Alive(h) /\ k \in Alive(h) /\ r # k
  /\ n \in NodeIds /\ h[n] = Freed
  /\ s[n] \in Node /\ ~s[n].outer
  /\ Len(s[n].keys) = 1 /\ s[n].keys[1] = key
  /\ Len(s[n].kids) = 2 /\ s[n].kids[1] = r /\ s[n].kids[2] = k
  /\ \A m \in {r, k} : s[m] \in Node /\ Body(s[m], h[m]) /\ Links(s[m], h[m]) /\ s[m].parent = n
  /\ \A m \in NodeIds \ {n, r, k} : s[m] = h[m]

LEMMA NewRootAlive ==
  ASSUME NEW h, NEW s, NEW r, NEW k, NEW n, NEW key, NewRoot(h, s, r, k, n, key)
  PROVE  /\ n \notin Alive(h) /\ Alive(s) = Alive(h) \cup {n} /\ Leaves(s) = Leaves(h)
         /\ Inners(s) = Inners(h) \cup {n} /\ n \notin Inners(h)
         /\ \A m \in Alive(h) : Body(s[m], h[m]) /\ Links(s[m], h[m])
         /\ \A m \in Alive(h) \ {r, k} : s[m].parent = h[m].parent
<1>1. /\ n \in NodeIds /\ h[n] = Freed /\ s[n] # Freed /\ ~s[n].outer
      /\ \A m \in {r, k} : /\ m \in NodeIds /\ h[m] # Freed /\ s[m] # Freed
                           /\ Body(s[m], h[m]) /\ Links(s[m], h[m])
      /\ \A m \in NodeIds \ {n, r, k} : s[m] = h[m]
  BY FreedAssumption DEF NewRoot, Alive
<1>2. n \notin Alive(h) /\ Alive(s) = Alive(h) \cup {n}
  <2>1. ASSUME NEW m \in NodeIds PROVE s[m] # Freed <=> (h[m] # Freed \/ m = n)
    BY <1>1
  <2> QED BY <1>1, <2>1 DEF Alive
<1>3. ASSUME NEW m \in Alive(h)
      PROVE  Body(s[m], h[m]) /\ Links(s[m], h[m]) /\ (m \notin {r, k} => s[m].parent = h[m].parent)
  <2>1. m \in NodeIds /\ m # n
    BY <1>2 DEF Alive
  <2>2. CASE m \in {r, k}
    BY <1>1, <2>2
  <2>3. CASE m \notin {r, k}
    <3>1. s[m] = h[m]
      BY <1>1, <2>1, <2>3
    <3> QED BY <3>1 DEF Body, Links
  <2> QED BY <2>2, <2>3
<1>4. \A m \in Alive(h) : s[m].outer = h[m].outer
  BY <1>3 DEF Body
<1>5. Leaves(s) = Leaves(h) /\ Inners(s) = Inners(h) \cup {n} /\ n \notin Inners(h)
  BY <1>1, <1>2, <1>4 DEF Leaves, Inners
<1> QED BY <1>2, <1>3, <1>5

(* A new root above the old one and its right half.                        *)
LEMMA NewRootKeepsShape ==
  ASSUME NEW h, NEW s, NEW r, NEW k, NEW n, NEW key, NewRoot(h, s, r, k, n, key),
         NEW t, Shape(h, r, k, t), t[k] = t[r]
  PROVE  Shape(s, n, NULL, [t EXCEPT ![n] = t[r] + 1])
<1> DEFINE u == [t EXCEPT ![n] = t[r] + 1]
<1>1. /\ n \notin Alive(h) /\ Alive(s) = Alive(h) \cup {n} /\ Leaves(s) = Leaves(h)
      /\ Inners(s) = Inners(h) \cup {n} /\ n \notin Inners(h)
      /\ \A m \in Alive(h) : Body(s[m], h[m]) /\ Links(s[m], h[m])
      /\ \A m \in Alive(h) \ {r, k} : s[m].parent = h[m].parent
  BY NewRootAlive
<1>2. /\ s \in Heaps /\ n \in NodeIds /\ r \in Alive(h) /\ k \in Alive(h) /\ r # k
      /\ s[r].parent = n /\ s[k].parent = n /\ ~s[n].outer
      /\ Len(s[n].keys) = 1 /\ Len(s[n].kids) = 2 /\ s[n].kids[1] = r /\ s[n].kids[2] = k
  BY DEF NewRoot
<1>3. /\ t \in [NodeIds -> Nat] /\ NULL \notin Alive(h) /\ NULL # n
      /\ \A m \in Alive(h) : Placed(h, r, k, t, m)
      /\ \A m \in Leaves(h) : Len(h[m].values) = Len(h[m].keys)
      /\ \A m \in Inners(h) : Family(h, r, k, t, m)
  BY <1>2, MapAssumption DEF Shape, Alive
<1>4. /\ u \in [NodeIds -> Nat] /\ u[n] = t[r] + 1 /\ t[r] \in Nat
      /\ \A m \in Alive(h) : u[m] = t[m] /\ m \in NodeIds /\ t[m] \in Nat
  BY <1>1, <1>2, <1>3 DEF Alive
<1> HIDE DEF u
<1>5. /\ IsKid(s, r, n) /\ IsKid(s, k, n)
      /\ \A m : IsKid(s, m, n) => m = r \/ m = k
  <2>1. 1 \in 1..2 /\ 2 \in 1..2 /\ \A j \in 1..2 : j = 1 \/ j = 2
    OBVIOUS
  <2> QED BY <1>2, <2>1, Zenon DEF IsKid
<1>6. \A p \in Alive(h) : \A m : IsKid(h, m, p) <=> IsKid(s, m, p)
  BY <1>1, Zenon DEF IsKid, Body
<1>7. ASSUME NEW m \in Alive(h) PROVE Placed(s, n, NULL, u, m)
  <2>1. /\ h[m].outer <=> t[m] = 0
        /\ t[m] <= t[r]
        /\ m \notin {r, k} => h[m].parent \in Inners(h) /\ IsKid(h, m, h[m].parent)
    BY <1>3 DEF Placed
  <2>2. s[m].outer <=> u[m] = 0
    BY <1>1, <1>4, <2>1 DEF Body
  <2>3. u[m] <= u[n]
    BY <1>4, <2>1
  <2>4. s[m].parent \in Inners(s) /\ IsKid(s, m, s[m].parent)
    <3>1. CASE m \in {r, k}
      BY <1>1, <1>2, <1>5, <3>1
    <3>2. CASE m \notin {r, k}
      <4>1. s[m].parent = h[m].parent /\ h[m].parent \in Alive(h)
        BY <1>1, <2>1, <3>2 DEF Inners
      <4> QED BY <1>1, <1>6, <2>1, <3>2, <4>1
    <3> QED BY <3>1, <3>2
  <2> QED BY <2>2, <2>3, <2>4, Zenon DEF Placed
<1>8. Placed(s, n, NULL, u, n)
  BY <1>2, <1>4 DEF Placed
<1>9. \A m \in Leaves(s) : Len(s[m].values) = Len(s[m].keys)
  BY <1>1, <1>3 DEF Body, Leaves
<1>10. Family(s, n, NULL, u, n)
  <2>1. ASSUME NEW m, IsKid(s, m, n)
        PROVE  m \in Alive(s) \ {n, NULL} /\ s[m].parent = n /\ u[m] + 1 = u[n]
    BY <1>1, <1>2, <1>3, <1>4, <1>5, <2>1
  <2>2. Distinct(s[n].kids)
    <3>1. \A j \in 1..2 : j = 1 \/ j = 2
      OBVIOUS
    <3> QED BY <1>2, <3>1, Zenon DEF Distinct
  <2>3. Len(s[n].kids) = Len(s[n].keys) + 1
    BY <1>2
  <2> QED BY <2>1, <2>2, <2>3, FamilyIs, Zenon
<1>11. ASSUME NEW p \in Inners(h) PROVE Family(s, n, NULL, u, p)
  <2>0. p \in Alive(h) /\ Body(s[p], h[p])
    BY <1>1 DEF Inners
  <2>1. /\ Len(h[p].kids) = Len(h[p].keys) + 1 /\ Distinct(h[p].kids)
        /\ \A m : IsKid(h, m, p) =>
             m \in Alive(h) \ {r, k} /\ h[m].parent = p /\ t[m] + 1 = t[p]
    BY <1>3, FamilyIs, Zenon
  <2>2. ASSUME NEW m, IsKid(s, m, p)
        PROVE  m \in Alive(s) \ {n, NULL} /\ s[m].parent = p /\ u[m] + 1 = u[p]
    <3>1. m \in Alive(h) \ {r, k} /\ h[m].parent = p /\ t[m] + 1 = t[p]
      BY <1>6, <2>0, <2>1, <2>2
    <3> QED BY <1>1, <1>3, <1>4, <2>0, <3>1
  <2>3. Len(s[p].kids) = Len(s[p].keys) + 1 /\ Distinct(s[p].kids)
    BY <2>0, <2>1 DEF Body
  <2> QED BY <2>2, <2>3, FamilyIs, Zenon
<1>12. n \in Alive(s)
  BY <1>1
<1>13. \A m \in Alive(s) : Placed(s, n, NULL, u, m)
  BY <1>1, <1>7, <1>8
<1>14. \A m \in Inners(s) : Family(s, n, NULL, u, m)
  BY <1>1, <1>10, <1>11
<1> QED BY <1>2, <1>4, <1>9, <1>12, <1>13, <1>14, Zenon DEF Shape, u

LEMMA NewRootKeepsOrder ==
  ASSUME NEW h, NEW s, NEW r, NEW k, NEW n, NEW key \in Keys, NewRoot(h, s, r, k, n, key),
         NEW t, Shape(h, r, k, t), NEW lo, NEW hi, NEW any,
         Ordered(h, r, k, r, t, lo, hi), hi[r] = key
  PROVE  Ordered(s, n, NULL, any, [t EXCEPT ![n] = t[r] + 1],
                 [lo EXCEPT ![n] = 0], [hi EXCEPT ![n] = 0])
<1> DEFINE u == [t EXCEPT ![n] = t[r] + 1]
           after == [lo EXCEPT ![n] = 0]
           upper == [hi EXCEPT ![n] = 0]
           ups == Upper(hi, r, k)
<1>1. /\ n \notin Alive(h) /\ Alive(s) = Alive(h) \cup {n}
      /\ Inners(s) = Inners(h) \cup {n} /\ n \notin Inners(h)
      /\ \A m \in Alive(h) : Body(s[m], h[m])
  BY NewRootAlive, Zenon
<1>2. /\ h \in Heaps /\ n \in NodeIds /\ r \in Alive(h) /\ k \in Alive(h) /\ r # k /\ k # NULL
      /\ ~s[n].outer /\ r \in NodeIds /\ k \in NodeIds
      /\ Len(s[n].keys) = 1 /\ s[n].keys[1] = key
      /\ Len(s[n].kids) = 2 /\ s[n].kids[1] = r /\ s[n].kids[2] = k
  BY MapAssumption DEF NewRoot, Alive
<1>3. /\ lo \in [NodeIds -> Nat] /\ hi \in [NodeIds -> Nat]
      /\ \A m \in Alive(h) : Ranged(h[m], lo[m], hi[m])
      /\ \A m \in Inners(h) : Fences(h[m], lo[m], hi[m], lo, ups)
      /\ \A m, l \in Alive(h) : m # l /\ t[m] = t[l] => Apart(lo, hi, m, l)
      /\ lo[r] = 0 /\ ups[r] = 0 /\ hi[r] = lo[k]
  BY <1>2, Zenon DEF Ordered
<1>4. /\ t \in [NodeIds -> Nat] /\ Alive(h) \subseteq NodeIds
      /\ \A m \in Alive(h) : t[m] <= t[r]
      /\ \A m \in Inners(h) : Family(h, r, k, t, m)
  BY DEF Shape, Alive, Placed
<1>5. ups[r] = hi[k] /\ \A m \in NodeIds : m # r => ups[m] = hi[m]
  BY <1>2, <1>3, UpperIs
<1>6. /\ after \in [NodeIds -> Nat] /\ upper \in [NodeIds -> Nat]
      /\ after[n] = 0 /\ upper[n] = 0 /\ u[n] = t[r] + 1
      /\ \A m \in Alive(h) : after[m] = lo[m] /\ upper[m] = hi[m] /\ u[m] = t[m] /\ t[m] \in Nat
  BY <1>1, <1>2, <1>3, <1>4
<1> HIDE DEF u, after, upper, ups
<1>7. Upper(upper, any, NULL) = upper
  BY <1>6, UpperIs
<1>8. Ranged(s[n], 0, 0)
  <2>1. key \in Nat /\ key > 0
    BY MapAssumption
  <2>2. \A j \in 1..Len(s[n].keys) : s[n].keys[j] = key
    BY <1>2
  <2>3. Ascending(s[n].keys)
    BY <1>2 DEF Ascending
  <2>4. Under(0, 0) /\ Under(key, 0) /\ 0 <= key /\ 0 < key
    BY <2>1 DEF Under
  <2> QED BY <2>2, <2>3, <2>4, Zenon DEF Ranged
<1>9. Fences(s[n], 0, 0, after, upper)
  <2>1. after[r] = 0 /\ upper[k] = 0 /\ after[k] = key /\ upper[r] = key
    BY <1>2, <1>3, <1>5, <1>6
  <2>2. Len(s[n].keys) + 1 = 2 /\ \A j \in 1..Len(s[n].keys) : j = 1 /\ j + 1 = 2
    BY <1>2
  <2> QED BY <1>2, <2>1, <2>2, Zenon DEF Fences
<1>10. ASSUME NEW m \in Alive(s) PROVE Ranged(s[m], after[m], upper[m])
  <2>1. CASE m = n
    BY <1>6, <1>8, <2>1
  <2>2. CASE m # n
    <3>1. m \in Alive(h) /\ Ranged(h[m], lo[m], hi[m]) /\ Body(s[m], h[m])
          /\ after[m] = lo[m] /\ upper[m] = hi[m]
      BY <1>1, <1>3, <1>6, <2>2
    <3> QED BY <3>1 DEF Ranged, Body
  <2> QED BY <2>1, <2>2
<1>11. ASSUME NEW p \in Inners(s) PROVE Fences(s[p], after[p], upper[p], after, upper)
  <2>1. CASE p = n
    BY <1>6, <1>9, <2>1
  <2>2. CASE p # n
    <3>1. p \in Inners(h) /\ p \in Alive(h) /\ Body(s[p], h[p])
      BY <1>1, <2>2 DEF Inners
    <3>2. Fences(h[p], lo[p], hi[p], lo, ups) /\ Family(h, r, k, t, p)
      BY <1>3, <1>4, <3>1
    <3>3. /\ Len(h[p].keys) \in Nat /\ Len(h[p].kids) = Len(h[p].keys) + 1
          /\ \A j \in 1..Len(h[p].kids) : h[p].kids[j] \in Alive(h) \ {r, k}
      <4>1. Len(h[p].keys) \in Nat
        BY <1>2, <3>1, AliveIsNode
      <4> QED BY <3>2, <4>1, Zenon DEF Family
    <3>4. after[p] = lo[p] /\ upper[p] = hi[p]
      BY <1>6, <3>1
    <3>5. \A j \in 1..Len(h[p].kids) :
            after[h[p].kids[j]] = lo[h[p].kids[j]] /\ upper[h[p].kids[j]] = ups[h[p].kids[j]]
      BY <1>4, <1>5, <1>6, <3>3
    <3>6. s[p].keys = h[p].keys /\ s[p].kids = h[p].kids
      BY <3>1 DEF Body
    <3> QED BY <3>2, <3>3, <3>4, <3>5, <3>6, FencesKept, Zenon
  <2> QED BY <2>1, <2>2
<1>12. ASSUME NEW m \in Alive(s), NEW l \in Alive(s), m # l, u[m] = u[l] PROVE Apart(after, upper, m, l)
  <2>1. \A x \in Alive(h) : u[x] # u[n]
    <3>1. t[r] \in Nat
      BY <1>2, <1>6
    <3>2. \A x \in Alive(h) : u[x] \in Nat /\ u[x] <= t[r]
      BY <1>4, <1>6
    <3> QED BY <1>6, <3>1, <3>2
  <2>2. m \in Alive(h) /\ l \in Alive(h)
    BY <1>1, <1>12, <2>1
  <2>3. Apart(lo, hi, m, l)
    BY <1>3, <1>6, <1>12, <2>2
  <2> QED BY <1>6, <2>2, <2>3 DEF Apart, Before
<1> QED BY <1>6, <1>7, <1>10, <1>11, <1>12, Zenon DEF Ordered, u, after, upper

DropRoot(h, s, r, m) ==
  /\ h \in Heaps /\ s \in Heaps /\ r \in Inners(h) /\ h[r].keys = <<>> /\ h[r].kids[1] = m
  /\ s[r] = Freed
  /\ s[m] \in Node /\ Body(s[m], h[m]) /\ Links(s[m], h[m])
  /\ \A n \in NodeIds \ {r, m} : s[n] = h[n]

LEMMA DropRootAlive ==
  ASSUME NEW h, NEW s, NEW r, NEW m, DropRoot(h, s, r, m),
         NEW t, Shape(h, r, NULL, t)
  PROVE  /\ m \in Alive(h) \ {r} /\ Alive(s) = Alive(h) \ {r} /\ Leaves(s) = Leaves(h)
         /\ Inners(s) = Inners(h) \ {r}
         /\ \A n \in Alive(s) : Body(s[n], h[n]) /\ Links(s[n], h[n])
         /\ \A n \in Alive(s) \ {m} : s[n].parent = h[n].parent
         /\ \A n : IsKid(h, n, r) <=> n = m
<1>1. Family(h, r, NULL, t, r) /\ h \in Heaps /\ r \in Alive(h)
  BY DEF Shape, DropRoot, Inners
<1>2. /\ Len(h[r].kids) = Len(h[r].keys) + 1
      /\ \A n : IsKid(h, n, r) => n \in Alive(h) \ {r, NULL}
  BY <1>1, FamilyIs, Zenon
<1>3. h[r].kids[1] = m /\ Len(h[r].kids) = 1
  BY <1>2 DEF DropRoot
<1>4. \A n : IsKid(h, n, r) <=> n = m
  <2>1. \A j \in 1..1 : j = 1
    OBVIOUS
  <2>2. 1 \in 1..1
    OBVIOUS
  <2> QED BY <1>3, <2>1, <2>2, Zenon DEF IsKid
<1>5. m \in Alive(h) \ {r}
  BY <1>2, <1>4
<1>6. /\ s[r] = Freed /\ s[m] # Freed /\ Body(s[m], h[m]) /\ Links(s[m], h[m])
      /\ \A n \in NodeIds \ {r, m} : s[n] = h[n]
  BY FreedAssumption DEF DropRoot
<1>7. Alive(s) = Alive(h) \ {r}
  BY <1>5, <1>6 DEF Alive
<1>8. ASSUME NEW n \in Alive(s)
      PROVE  Body(s[n], h[n]) /\ Links(s[n], h[n]) /\ (n # m => s[n].parent = h[n].parent)
  <2>1. CASE n = m
    BY <1>6, <2>1
  <2>2. CASE n # m
    <3>1. s[n] = h[n]
      BY <1>6, <1>7, <2>2 DEF Alive
    <3> QED BY <3>1 DEF Body, Links
  <2> QED BY <2>1, <2>2
<1>9. \A n \in Alive(s) : s[n].outer = h[n].outer
  BY <1>8 DEF Body
<1>10. ~h[r].outer
  BY DEF DropRoot, Inners
<1>11. Leaves(s) = Leaves(h) /\ Inners(s) = Inners(h) \ {r}
  BY <1>7, <1>9, <1>10 DEF Leaves, Inners
<1> QED BY <1>4, <1>5, <1>7, <1>8, <1>11

(* A root without a key gives way to its only kid.                         *)
LEMMA DropRootKeepsShape ==
  ASSUME NEW h, NEW s, NEW r, NEW m, DropRoot(h, s, r, m),
         NEW t, Shape(h, r, NULL, t)
  PROVE  Shape(s, m, NULL, t)
<1>1. /\ m \in Alive(h) \ {r} /\ Alive(s) = Alive(h) \ {r} /\ Leaves(s) = Leaves(h)
      /\ Inners(s) = Inners(h) \ {r}
      /\ \A n \in Alive(s) : Body(s[n], h[n]) /\ Links(s[n], h[n])
      /\ \A n \in Alive(s) \ {m} : s[n].parent = h[n].parent
      /\ \A n : IsKid(h, n, r) <=> n = m
  BY DropRootAlive
<1>2. /\ t \in [NodeIds -> Nat] /\ NULL \notin Alive(h) /\ s \in Heaps /\ r \in Inners(h)
      /\ \A n \in Alive(h) : Placed(h, r, NULL, t, n)
      /\ \A n \in Leaves(h) : Len(h[n].values) = Len(h[n].keys)
      /\ \A n \in Inners(h) : Family(h, r, NULL, t, n)
  BY MapAssumption DEF Shape, Alive, DropRoot
<1>3. \A p \in Inners(h) :
        /\ Len(h[p].kids) = Len(h[p].keys) + 1 /\ Distinct(h[p].kids)
        /\ \A n : IsKid(h, n, p) =>
             n \in Alive(h) \ {r, NULL} /\ h[n].parent = p /\ t[n] + 1 = t[p]
  BY <1>2, FamilyIs, Zenon
<1>4. t[m] + 1 = t[r] /\ \A n \in Alive(h) : t[n] \in Nat
  <2>1. \A n \in Alive(h) : n \in NodeIds
    BY DEF Alive
  <2> QED BY <1>1, <1>2, <1>3, <2>1
<1>5. \A p \in Alive(s) : \A n : IsKid(h, n, p) <=> IsKid(s, n, p)
  BY <1>1, Zenon DEF IsKid, Body
<1>6. ASSUME NEW n \in Alive(s) PROVE Placed(s, m, NULL, t, n)
  <2>1. /\ h[n].outer <=> t[n] = 0
        /\ t[n] <= t[r] /\ n # r /\ n \in Alive(h)
        /\ h[n].parent \in Inners(h) /\ IsKid(h, n, h[n].parent)
    BY <1>1, <1>2 DEF Placed
  <2>2. s[n].outer <=> t[n] = 0
    BY <1>1, <2>1 DEF Body
  <2>3. t[n] <= t[m]
    <3>1. t[n] + 1 = t[h[n].parent] /\ h[n].parent \in Alive(h)
      BY <1>3, <2>1 DEF Inners
    <3>2. t[h[n].parent] <= t[r]
      BY <1>2, <3>1 DEF Placed
    <3>3. t[n] \in Nat /\ t[m] \in Nat /\ t[r] \in Nat /\ t[h[n].parent] \in Nat
      BY <1>1, <1>2, <1>4, <2>1, <3>1 DEF Inners
    <3> QED BY <1>4, <3>1, <3>2, <3>3
  <2>4. n # m => s[n].parent \in Inners(s) /\ IsKid(s, n, s[n].parent)
    <3> SUFFICES ASSUME n # m PROVE s[n].parent \in Inners(s) /\ IsKid(s, n, s[n].parent)
      OBVIOUS
    <3>1. h[n].parent # r /\ s[n].parent = h[n].parent
      BY <1>1, <2>1
    <3>2. h[n].parent \in Inners(s) /\ h[n].parent \in Alive(s)
      BY <1>1, <2>1, <3>1 DEF Inners
    <3> QED BY <1>5, <2>1, <3>1, <3>2
  <2> QED BY <2>2, <2>3, <2>4, Zenon DEF Placed
<1>7. \A n \in Leaves(s) : Len(s[n].values) = Len(s[n].keys)
  BY <1>1, <1>2 DEF Body, Leaves
<1>8. ASSUME NEW p \in Inners(s) PROVE Family(s, m, NULL, t, p)
  <2>0. p \in Alive(s) /\ Body(s[p], h[p]) /\ p \in Inners(h) /\ p # r
    BY <1>1 DEF Inners
  <2>2. ASSUME NEW n, IsKid(s, n, p)
        PROVE  n \in Alive(s) \ {m, NULL} /\ s[n].parent = p /\ t[n] + 1 = t[p]
    <3>1. n \in Alive(h) \ {r, NULL} /\ h[n].parent = p /\ t[n] + 1 = t[p] /\ IsKid(h, n, p)
      BY <1>3, <1>5, <2>0, <2>2
    <3>2. n # m
      BY <1>1, <1>2, <1>3, <2>0, <3>1
    <3> QED BY <1>1, <3>1, <3>2
  <2>3. Len(s[p].kids) = Len(s[p].keys) + 1 /\ Distinct(s[p].kids)
    BY <1>3, <2>0 DEF Body
  <2> QED BY <2>2, <2>3, FamilyIs, Zenon
<1>9. m \in Alive(s)
  BY <1>1
<1> QED BY <1>2, <1>6, <1>7, <1>8, <1>9, Zenon DEF Shape

LEMMA DropRootKeepsOrder ==
  ASSUME NEW h, NEW s, NEW r, NEW m, DropRoot(h, s, r, m),
         NEW t, Shape(h, r, NULL, t), NEW lo, NEW hi, NEW c, NEW any,
         Ordered(h, r, NULL, c, t, lo, hi)
  PROVE  Ordered(s, m, NULL, any, t, lo, hi)
<1>1. /\ m \in Alive(h) \ {r} /\ Alive(s) = Alive(h) \ {r} /\ Inners(s) = Inners(h) \ {r}
      /\ \A n \in Alive(s) : Body(s[n], h[n])
  BY DropRootAlive, Zenon
<1>2. /\ lo \in [NodeIds -> Nat] /\ hi \in [NodeIds -> Nat]
      /\ \A n \in Alive(h) : Ranged(h[n], lo[n], hi[n])
      /\ \A n \in Inners(h) : Fences(h[n], lo[n], hi[n], lo, Upper(hi, c, NULL))
      /\ \A n, l \in Alive(h) : n # l /\ t[n] = t[l] => Apart(lo, hi, n, l)
      /\ lo[r] = 0 /\ Upper(hi, c, NULL)[r] = 0
  BY Zenon DEF Ordered
<1>3. Upper(hi, c, NULL) = hi /\ Upper(hi, any, NULL) = hi
  BY <1>2, UpperIs
<1>4. lo[m] = 0 /\ hi[m] = 0
  <2>1. r \in Inners(h) /\ h[r].keys = <<>> /\ h[r].kids[1] = m
    BY DEF DropRoot
  <2>2. Fences(h[r], lo[r], hi[r], lo, hi)
    BY <1>2, <1>3, <2>1
  <2>3. lo[h[r].kids[1]] = lo[r] /\ hi[h[r].kids[Len(h[r].keys) + 1]] = hi[r]
    BY <2>2, Zenon DEF Fences
  <2>4. Len(h[r].keys) + 1 = 1
    BY <2>1
  <2>5. hi[h[r].kids[1]] = hi[r]
    BY <2>3, <2>4, Zenon
  <2> QED BY <1>2, <1>3, <2>1, <2>3, <2>5
<1>5. \A n \in Alive(s) : Ranged(s[n], lo[n], hi[n])
  <2>1. \A n \in Alive(s) : Ranged(h[n], lo[n], hi[n])
    BY <1>1, <1>2
  <2> QED BY <1>1, <2>1, Zenon DEF Ranged, Body
<1>6. ASSUME NEW n \in Inners(s) PROVE Fences(s[n], lo[n], hi[n], lo, hi)
  <2>1. Fences(h[n], lo[n], hi[n], lo, hi) /\ Body(s[n], h[n])
    BY <1>1, <1>2, <1>3 DEF Inners
  <2>2. s[n].keys = h[n].keys /\ s[n].kids = h[n].kids
    BY <2>1 DEF Body
  <2> QED BY <2>1, <2>2, Zenon DEF Fences
<1> QED BY <1>1, <1>2, <1>3, <1>4, <1>5, <1>6, Zenon DEF Ordered

(***************************************************************************)
(* What a leaf holds changes.                                              *)
(***************************************************************************)
LeafChange(h, s, n) ==
  /\ h \in Heaps /\ s \in Heaps /\ n \in Leaves(h)
  /\ s[n] \in Node /\ s[n].outer /\ Len(s[n].values) = Len(s[n].keys)
  /\ s[n].kids = h[n].kids /\ s[n].parent = h[n].parent /\ Links(s[n], h[n])
  /\ \A m \in NodeIds \ {n} : s[m] = h[m]

LEMMA LeafChangeAlive ==
  ASSUME NEW h, NEW s, NEW n, LeafChange(h, s, n)
  PROVE  /\ Alive(s) = Alive(h) /\ Leaves(s) = Leaves(h) /\ Inners(s) = Inners(h)
         /\ \A m \in Alive(h) : /\ s[m].outer = h[m].outer /\ s[m].parent = h[m].parent
                                /\ s[m].kids = h[m].kids /\ Links(s[m], h[m])
         /\ \A m \in Alive(h) \ {n} : s[m] = h[m]
<1>1. /\ n \in NodeIds /\ h[n] # Freed /\ s[n] # Freed /\ h[n].outer /\ s[n].outer /\ n \in Alive(h)
      /\ s[n].kids = h[n].kids /\ s[n].parent = h[n].parent /\ Links(s[n], h[n])
      /\ \A m \in NodeIds \ {n} : s[m] = h[m]
  BY FreedAssumption DEF LeafChange, Leaves, Alive
<1>2. h[n].outer = s[n].outer
  <2>1. h[n].outer \in BOOLEAN
    <3>1. h \in Heaps
      BY DEF LeafChange
    <3> QED BY <1>1, <3>1, AliveIsNode
  <2>2. s[n].outer \in BOOLEAN
    BY DEF LeafChange, Node
  <2> QED BY <1>1, <2>1, <2>2
<1>3. Alive(s) = Alive(h)
  BY <1>1 DEF Alive
<1>4. \A m \in Alive(h) \ {n} : s[m] = h[m]
  BY <1>1 DEF Alive
<1>5. \A m \in Alive(h) : /\ s[m].outer = h[m].outer /\ s[m].parent = h[m].parent
                          /\ s[m].kids = h[m].kids /\ Links(s[m], h[m])
  BY <1>1, <1>2, <1>4 DEF Links
<1>6. Leaves(s) = Leaves(h) /\ Inners(s) = Inners(h)
  BY <1>3, <1>5 DEF Leaves, Inners
<1> QED BY <1>3, <1>4, <1>5, <1>6

(* Only one leaf changes: a key is inserted, erased or updated.            *)
LEMMA LeafChangeKeepsShape ==
  ASSUME NEW h, NEW s, NEW n, LeafChange(h, s, n),
         NEW r, NEW k, NEW t, Shape(h, r, k, t)
  PROVE  Shape(s, r, k, t)
<1>1. /\ Alive(s) = Alive(h) /\ Leaves(s) = Leaves(h) /\ Inners(s) = Inners(h)
      /\ \A m \in Alive(h) : /\ s[m].outer = h[m].outer /\ s[m].parent = h[m].parent
                             /\ s[m].kids = h[m].kids /\ Links(s[m], h[m])
      /\ \A m \in Alive(h) \ {n} : s[m] = h[m]
  BY LeafChangeAlive
<1>2. /\ t \in [NodeIds -> Nat] /\ r \in Alive(h) /\ (k # NULL => k \in Alive(h) \ {r})
      /\ \A m \in Alive(h) : Placed(h, r, k, t, m)
      /\ \A m \in Leaves(h) : Len(h[m].values) = Len(h[m].keys)
      /\ \A m \in Inners(h) : Family(h, r, k, t, m)
  BY Zenon DEF Shape
<1>3. s \in Heaps /\ Len(s[n].values) = Len(s[n].keys) /\ n \in Leaves(h)
  BY DEF LeafChange
<1>4. /\ \A m \in Leaves(h) : m \in Alive(h)
      /\ \A m \in Inners(h) : m \in Alive(h) \ {n}
  BY <1>3 DEF Leaves, Inners
<1>5. ASSUME NEW m \in Alive(h) PROVE Placed(s, r, k, t, m)
  <2>1. /\ h[m].outer <=> t[m] = 0
        /\ t[m] <= t[r]
        /\ m \notin {r, k} => h[m].parent \in Inners(h) /\ IsKid(h, m, h[m].parent)
    BY <1>2 DEF Placed
  <2>2. \A p \in Inners(h) : IsKid(h, m, p) => IsKid(s, m, p)
    BY <1>1, <1>4, Zenon DEF IsKid
  <2>3. s[m].outer <=> t[m] = 0
    BY <1>1, <2>1
  <2>4. m \notin {r, k} => s[m].parent \in Inners(s) /\ IsKid(s, m, s[m].parent)
    BY <1>1, <2>1, <2>2
  <2> QED BY <2>1, <2>3, <2>4, Zenon DEF Placed
<1>6. \A m \in Leaves(h) : Len(s[m].values) = Len(s[m].keys)
  BY <1>1, <1>2, <1>3, <1>4
<1>7. ASSUME NEW p \in Inners(h) PROVE Family(s, r, k, t, p)
  <2>1. Family(h, r, k, t, p) /\ s[p] = h[p]
    BY <1>1, <1>2, <1>4
  <2> QED BY <1>1, <2>1 DEF Family
<1> QED BY <1>1, <1>2, <1>3, <1>5, <1>6, <1>7, Zenon DEF Shape

LEMMA LeafChangeKeepsOrder ==
  ASSUME NEW h, NEW s, NEW n, LeafChange(h, s, n),
         NEW r, NEW k, NEW t, NEW c, NEW lo, NEW hi, Ordered(h, r, k, c, t, lo, hi),
         Ranged(s[n], lo[n], hi[n])
  PROVE  Ordered(s, r, k, c, t, lo, hi)
<1>1. /\ Alive(s) = Alive(h) /\ Inners(s) = Inners(h)
      /\ \A m \in Alive(h) \ {n} : s[m] = h[m]
      /\ n \notin Inners(h) /\ Inners(h) \subseteq Alive(h)
  <2>1. n \in Leaves(h)
    BY DEF LeafChange
  <2>2. n \notin Inners(h) /\ Inners(h) \subseteq Alive(h)
    BY <2>1 DEF Leaves, Inners
  <2>3. /\ Alive(s) = Alive(h) /\ Leaves(s) = Leaves(h) /\ Inners(s) = Inners(h)
        /\ \A m \in Alive(h) : /\ s[m].outer = h[m].outer /\ s[m].parent = h[m].parent
                               /\ s[m].kids = h[m].kids /\ Links(s[m], h[m])
        /\ \A m \in Alive(h) \ {n} : s[m] = h[m]
    BY LeafChangeAlive
  <2> QED BY <2>2, <2>3, Zenon
<1>2. /\ \A m \in Alive(h) : Ranged(h[m], lo[m], hi[m])
      /\ \A m \in Inners(h) : Fences(h[m], lo[m], hi[m], lo, Upper(hi, c, k))
  BY Zenon DEF Ordered
<1>3. \A m \in Alive(s) : Ranged(s[m], lo[m], hi[m])
  BY <1>1, <1>2
<1>4. \A m \in Inners(s) : Fences(s[m], lo[m], hi[m], lo, Upper(hi, c, k))
  BY <1>1, <1>2
<1> QED BY <1>1, <1>3, <1>4, Zenon DEF Ordered

LEMMA LeafChangeKeepsChain ==
  ASSUME NEW h, NEW s, NEW n, LeafChange(h, s, n), NEW lo, NEW hi, Chained(h, lo, hi)
  PROVE  Chained(s, lo, hi)
<1>1. /\ Leaves(s) = Leaves(h)
      /\ \A m \in Leaves(h) : s[m].next = h[m].next /\ s[m].previous = h[m].previous
  <2>1. /\ Alive(s) = Alive(h) /\ Leaves(s) = Leaves(h) /\ Inners(s) = Inners(h)
        /\ \A m \in Alive(h) : /\ s[m].outer = h[m].outer /\ s[m].parent = h[m].parent
                               /\ s[m].kids = h[m].kids /\ Links(s[m], h[m])
        /\ \A m \in Alive(h) \ {n} : s[m] = h[m]
    BY LeafChangeAlive
  <2> QED BY <2>1 DEF Links, Leaves
<1> QED BY <1>1 DEF Chained

(***************************************************************************)
(* What happens above the leaves leaves them alone.                        *)
(***************************************************************************)
LeavesKept(h, s) ==
  /\ Leaves(s) = Leaves(h)
  /\ \A n \in Leaves(h) : Body(s[n], h[n]) /\ Links(s[n], h[n])

LEMMA LinkedKeepsLeaves ==
  ASSUME NEW h, NEW s, NEW p, NEW i, NEW c, NEW k, NEW key, Linked(h, s, p, i, c, k, key)
  PROVE  LeavesKept(h, s)
<1>1. Leaves(s) = Leaves(h)
  BY LinkedAlive, Zenon
<1>2. /\ p \in Inners(h) /\ Body(s[k], h[k]) /\ Links(s[k], h[k])
      /\ \A m \in NodeIds \ {p, k} : s[m] = h[m]
  BY DEF Linked
<1>3. ASSUME NEW n \in Leaves(h) PROVE Body(s[n], h[n]) /\ Links(s[n], h[n])
  <2>1. n # p /\ n \in NodeIds
    BY <1>2 DEF Leaves, Inners, Alive
  <2>2. CASE n = k
    BY <1>2, <2>2
  <2>3. CASE n # k
    <3>1. s[n] = h[n]
      BY <1>2, <2>1, <2>3
    <3> QED BY <3>1 DEF Body, Links
  <2> QED BY <2>2, <2>3
<1> QED BY <1>1, <1>3, Zenon DEF LeavesKept

LEMMA DividedInnerKeepsLeaves ==
  ASSUME NEW h, NEW s, NEW a, NEW b, NEW up, DividedInner(h, s, a, b, up)
  PROVE  LeavesKept(h, s)
<1>1. /\ Leaves(s) = Leaves(h)
      /\ \A m \in Alive(h) \ {a} : Body(s[m], h[m]) /\ Links(s[m], h[m])
  BY DividedInnerAlive, Zenon
<1>2. \A n \in Leaves(h) : n \in Alive(h) \ {a}
  BY DEF DividedInner, Leaves, Inners
<1> QED BY <1>1, <1>2, Zenon DEF LeavesKept

LEMMA NewRootKeepsLeaves ==
  ASSUME NEW h, NEW s, NEW r, NEW k, NEW n, NEW key, NewRoot(h, s, r, k, n, key)
  PROVE  LeavesKept(h, s)
<1>1. /\ Leaves(s) = Leaves(h)
      /\ \A m \in Alive(h) : Body(s[m], h[m]) /\ Links(s[m], h[m])
  BY NewRootAlive, Zenon
<1>2. \A m \in Leaves(h) : m \in Alive(h)
  BY DEF Leaves
<1> QED BY <1>1, <1>2, Zenon DEF LeavesKept

LEMMA DropRootKeepsLeaves ==
  ASSUME NEW h, NEW s, NEW r, NEW m, DropRoot(h, s, r, m), NEW t, Shape(h, r, NULL, t)
  PROVE  LeavesKept(h, s)
<1>1. /\ Leaves(s) = Leaves(h) 
      /\ \A n \in Alive(s) : Body(s[n], h[n]) /\ Links(s[n], h[n])
  BY DropRootAlive, Zenon
<1>2. \A n \in Leaves(s) : n \in Alive(s)
  BY DEF Leaves
<1> QED BY <1>1, <1>2, Zenon DEF LeavesKept

(* The chain, what it holds and its bound stay as long as the leaves stay  *)
(* what they are.                                                          *)
LEMMA ChainKept ==
  ASSUME NEW h, NEW s, LeavesKept(h, s), NEW lo, NEW hi, NEW after, NEW upper,
         \A n \in Leaves(h) : after[n] = lo[n] /\ upper[n] = hi[n]
  PROVE  /\ Chained(h, lo, hi) => Chained(s, after, upper)
         /\ Chained(s, after, upper) => Chained(h, lo, hi)
<1>1. /\ Leaves(s) = Leaves(h)
      /\ \A m \in Leaves(h) : s[m].next = h[m].next /\ s[m].previous = h[m].previous
  BY DEF LeavesKept, Links
<1>2. Chained(h, lo, hi) => Chained(s, after, upper)
  BY <1>1 DEF Chained
<1>3. Chained(s, after, upper) => Chained(h, lo, hi)
  BY <1>1 DEF Chained
<1> QED BY <1>2, <1>3

LEMMA OwnedKept ==
  ASSUME NEW h, NEW s, LeavesKept(h, s)
  PROVE  (Owned(h) <=> Owned(s)) /\ Content(s) = Content(h)
<1>1. /\ Leaves(s) = Leaves(h)
      /\ \A m \in Leaves(h) : s[m].keys = h[m].keys /\ s[m].values = h[m].values
  BY DEF LeavesKept, Body
<1>2. Owned(h) <=> Owned(s)
  BY <1>1, Zenon DEF Owned
<1>3. Held(s) = Held(h)
  BY <1>1 DEF Held
<1>4. Pairs(s) = Pairs(h)
  <2>1. \A m \in Leaves(h) : PairsOf(s[m]) = PairsOf(h[m])
    BY <1>1 DEF PairsOf
  <2> QED BY <1>1, <2>1 DEF Pairs
<1>5. Content(s) = Content(h)
  BY <1>3, <1>4 DEF Content
<1> QED BY <1>2, <1>5

LEMMA BoundedKept ==
  ASSUME NEW h, NEW s, NEW lo, NEW after, Bounded(h, lo),
         lo \in [NodeIds -> Nat], after \in [NodeIds -> Nat], NEW v \in Nat,
         \A n \in Alive(s) : after[n] = v \/ (n \in Alive(h) /\ after[n] = lo[n])
  PROVE  Bounded(s, after)
<1>1. PICK top \in Nat : \A n \in Alive(h) : lo[n] <= top
  BY DEF Bounded
<1>2. ASSUME NEW n \in Alive(s) PROVE after[n] <= top + v
  BY <1>1 DEF Alive
<1>3. top + v \in Nat
  OBVIOUS
<1> QED BY <1>2, <1>3 DEF Bounded

(***************************************************************************)
(* The tree, step by step.                                                 *)
(***************************************************************************)
LEMMA LinkKeepsTree ==
  ASSUME NEW h, NEW s, NEW p, NEW i, NEW c, NEW k, NEW key, Linked(h, s, p, i, c, k, key),
         NEW r, NEW t, NEW lo, NEW hi, NEW any, Tree(h, r, k, c, t, lo, hi),
         t[k] = t[c], k # NULL, r # k, c # r, hi[c] = key, key \in Keys
  PROVE  Tree(s, r, NULL, any, t, lo, hi) /\ Content(s) = Content(h)
<1>1. /\ Shape(h, r, k, t) /\ Ordered(h, r, k, c, t, lo, hi)
      /\ Chained(h, lo, hi) /\ Bounded(h, lo) /\ Owned(h)
  BY Zenon DEF Tree
<1>2. Shape(s, r, NULL, t)
  BY <1>1, LinkKeepsShape
<1>3. Ordered(s, r, NULL, any, t, lo, hi)
  BY <1>1, LinkKeepsOrder
<1>4. LeavesKept(h, s)
  BY LinkedKeepsLeaves
<1>5. Chained(s, lo, hi)
  BY <1>1, <1>4, ChainKept
<1>6. Owned(s) /\ Content(s) = Content(h)
  BY <1>1, <1>4, OwnedKept
<1>7. Bounded(s, lo)
  <2>1. Alive(s) = Alive(h)
    BY LinkedAlive, Zenon
  <2> QED BY <1>1, <2>1, Zenon DEF Bounded
<1> QED BY <1>2, <1>3, <1>5, <1>6, <1>7, Zenon DEF Tree

(* Shape, order, chain and content put together: the steps keep trees.     *)
LEMMA UnlinkKeepsTree ==
  ASSUME NEW h, NEW s, NEW p, NEW i, NEW c, NEW k, NEW key, Linked(h, s, p, i, c, k, key),
         NEW r, NEW t, NEW lo, NEW hi, NEW any, Tree(s, r, NULL, any, t, lo, hi),
         k # NULL, r # k, c # r
  PROVE  Tree(h, r, k, c, t, lo, hi) /\ lo[k] = key /\ hi[c] = key /\ Content(s) = Content(h)
<1>1. /\ Shape(s, r, NULL, t) /\ Ordered(s, r, NULL, any, t, lo, hi)
      /\ Chained(s, lo, hi) /\ Bounded(s, lo) /\ Owned(s)
  BY Zenon DEF Tree
<1>2. Shape(h, r, k, t)
  BY <1>1, UnlinkKeepsShape
<1>3. Ordered(h, r, k, c, t, lo, hi) /\ lo[k] = key /\ hi[c] = key
  BY <1>1, UnlinkKeepsOrder
<1>4. LeavesKept(h, s)
  BY LinkedKeepsLeaves
<1>5. Chained(h, lo, hi)
  BY <1>1, <1>4, ChainKept
<1>6. Owned(h) /\ Content(s) = Content(h)
  BY <1>1, <1>4, OwnedKept
<1>7. Bounded(h, lo)
  <2>1. Alive(s) = Alive(h)
    BY LinkedAlive, Zenon
  <2> QED BY <1>1, <2>1, Zenon DEF Bounded
<1> QED BY <1>2, <1>3, <1>5, <1>6, <1>7, Zenon DEF Tree

LEMMA LeafSplitKeepsTree ==
  ASSUME NEW h, NEW s, NEW a, NEW b, DividedLeaf(h, s, a, b),
         NEW r, NEW t, NEW lo, NEW hi, NEW any, Tree(h, r, NULL, any, t, lo, hi),
         NEW v, v = s[b].keys[1]
  PROVE  /\ Tree(s, r, b, a, [t EXCEPT ![b] = 0], [lo EXCEPT ![b] = v],
                 [hi EXCEPT ![a] = v, ![b] = hi[a]])
         /\ v \in Keys /\ Content(s) = Content(h)
<1> DEFINE high == [t EXCEPT ![b] = 0]
           after == [lo EXCEPT ![b] = v]
           upper == [hi EXCEPT ![a] = v, ![b] = hi[a]]
<1>1. /\ Shape(h, r, NULL, t) /\ Ordered(h, r, NULL, any, t, lo, hi)
      /\ Chained(h, lo, hi) /\ Bounded(h, lo) /\ Owned(h)
  BY Zenon DEF Tree
<1>2. Shape(s, r, b, high)
  BY <1>1, LeafSplitKeepsShape
<1>3. Ordered(s, r, b, a, high, after, upper)
  BY <1>1, LeafSplitKeepsOrder
<1>4. lo \in [NodeIds -> Nat] /\ hi \in [NodeIds -> Nat] /\ after \in [NodeIds -> Nat]
  BY <1>1, <1>3 DEF Ordered
<1>5. v \in Keys /\ v \in Nat \ {0}
  <2>0. Alive(s) = Alive(h) \cup {b}
    BY DividedLeafAlive
  <2>1. b \in Alive(s) /\ s \in Heaps /\ s[b].keys # <<>>
    BY <2>0 DEF DividedLeaf
  <2>2. s[b].keys \in Seq(Keys)
    BY <2>1, AliveIsNode
  <2>3. 1 \in 1..Len(s[b].keys)
    BY <2>1, <2>2
  <2>4. v \in Keys
    BY <2>2, <2>3
  <2> QED BY <2>4, MapAssumption
<1>6. Chained(s, after, upper)
  BY <1>1, <1>4, <1>5, LeafSplitKeepsChain
<1>7. Owned(s) /\ Content(s) = Content(h)
  BY <1>1, DividedLeafOwns, DividedLeafHolds
<1>8. Bounded(s, after)
  <2>0. Alive(s) = Alive(h) \cup {b} /\ b \notin Alive(h)
    BY DividedLeafAlive
  <2>1. /\ Alive(s) = Alive(h) \cup {b} /\ b \notin Alive(h) /\ b \in NodeIds
    BY <2>0 DEF DividedLeaf
  <2>2. \A n \in Alive(s) : after[n] = v \/ (n \in Alive(h) /\ after[n] = lo[n])
    BY <1>4, <2>1 DEF Alive
  <2> HIDE DEF after
  <2> QED BY <1>1, <1>4, <1>5, <2>2, BoundedKept
<1> QED BY <1>2, <1>3, <1>5, <1>6, <1>7, <1>8, Zenon DEF Tree

LEMMA LeafJoinKeepsTree ==
  ASSUME NEW h, NEW s, NEW a, NEW b, DividedLeaf(h, s, a, b),
         NEW r, NEW t, NEW lo, NEW hi, NEW any, Tree(s, r, b, a, t, lo, hi), a # r, hi[a] # 0
  PROVE  Tree(h, r, NULL, any, t, lo, [hi EXCEPT ![a] = hi[b]]) /\ Content(s) = Content(h)
<1> DEFINE upper == [hi EXCEPT ![a] = hi[b]]
<1>1. /\ Shape(s, r, b, t) /\ Ordered(s, r, b, a, t, lo, hi)
      /\ Chained(s, lo, hi) /\ Bounded(s, lo) /\ Owned(s)
  BY Zenon DEF Tree
<1>2. Shape(h, r, NULL, t)
  BY <1>1, LeafJoinKeepsShape
<1>3. Ordered(h, r, NULL, any, t, lo, upper)
  BY <1>1, LeafJoinKeepsOrder
<1>4. lo \in [NodeIds -> Nat] /\ hi \in [NodeIds -> Nat]
  BY <1>1 DEF Ordered
<1>6. Chained(h, lo, upper)
  BY <1>1, <1>4, LeafJoinKeepsChain
<1>7. Owned(h) /\ Content(s) = Content(h)
  BY <1>1, DividedLeafOwns, DividedLeafHolds
<1>8. Bounded(h, lo)
  <2>1. \A n \in Alive(h) : n \in Alive(s)
    BY DividedLeafAlive
  <2> QED BY <1>1, <2>1, Zenon DEF Bounded
<1> QED BY <1>2, <1>3, <1>6, <1>7, <1>8, Zenon DEF Tree

LEMMA InnerSplitKeepsTree ==
  ASSUME NEW h, NEW s, NEW a, NEW b, NEW up, DividedInner(h, s, a, b, up), up \in Nat,
         NEW r, NEW t, NEW lo, NEW hi, NEW any, Tree(h, r, NULL, any, t, lo, hi)
  PROVE  /\ Tree(s, r, b, a, [t EXCEPT ![b] = t[a]], [lo EXCEPT ![b] = up],
                 [hi EXCEPT ![a] = up, ![b] = hi[a]])
         /\ Content(s) = Content(h)
<1> DEFINE high == [t EXCEPT ![b] = t[a]]
           after == [lo EXCEPT ![b] = up]
           upper == [hi EXCEPT ![a] = up, ![b] = hi[a]]
<1>1. /\ Shape(h, r, NULL, t) /\ Ordered(h, r, NULL, any, t, lo, hi)
      /\ Chained(h, lo, hi) /\ Bounded(h, lo) /\ Owned(h)
  BY Zenon DEF Tree
<1>2. Shape(s, r, b, high)
  BY <1>1, InnerSplitKeepsShape
<1>3. Ordered(s, r, b, a, high, after, upper)
  BY <1>1, InnerSplitKeepsOrder
<1>4. lo \in [NodeIds -> Nat] /\ hi \in [NodeIds -> Nat] /\ after \in [NodeIds -> Nat]
  BY <1>1, <1>3 DEF Ordered
<1>5. LeavesKept(h, s)
  BY DividedInnerKeepsLeaves
<1>6. Chained(s, after, upper)
  <2>1. \A n \in Leaves(h) : n \in NodeIds /\ n # a /\ n # b
    BY DEF DividedInner, Leaves, Inners, Alive
  <2>2. \A n \in Leaves(h) : after[n] = lo[n] /\ upper[n] = hi[n]
    BY <1>4, <2>1
  <2> HIDE DEF after, upper
  <2> QED BY <1>1, <1>5, <2>2, ChainKept
<1>7. Owned(s) /\ Content(s) = Content(h)
  BY <1>1, <1>5, OwnedKept
<1>8. Bounded(s, after)
  <2>1. /\ Alive(s) = Alive(h) \cup {b} /\ b \notin Alive(h) /\ b \in NodeIds
    BY DividedInnerAlive DEF DividedInner
  <2>2. \A n \in Alive(s) : after[n] = up \/ (n \in Alive(h) /\ after[n] = lo[n])
    BY <1>4, <2>1 DEF Alive
  <2> HIDE DEF after
  <2> QED BY <1>1, <1>4, <2>2, BoundedKept
<1> QED BY <1>2, <1>3, <1>6, <1>7, <1>8, Zenon DEF Tree

LEMMA InnerJoinKeepsTree ==
  ASSUME NEW h, NEW s, NEW a, NEW b, NEW up \in Nat, up # 0, DividedInner(h, s, a, b, up),
         NEW r, NEW t, NEW lo, NEW hi, NEW any, Tree(s, r, b, a, t, lo, hi),
         t[a] = t[b], hi[a] = up
  PROVE  Tree(h, r, NULL, any, t, lo, [hi EXCEPT ![a] = hi[b]]) /\ Content(s) = Content(h)
<1> DEFINE upper == [hi EXCEPT ![a] = hi[b]]
<1>1. /\ Shape(s, r, b, t) /\ Ordered(s, r, b, a, t, lo, hi)
      /\ Chained(s, lo, hi) /\ Bounded(s, lo) /\ Owned(s)
  BY Zenon DEF Tree
<1>2. Shape(h, r, NULL, t)
  BY <1>1, InnerJoinKeepsShape
<1>3. Ordered(h, r, NULL, any, t, lo, upper)
  BY <1>1, InnerJoinKeepsOrder
<1>4. lo \in [NodeIds -> Nat] /\ hi \in [NodeIds -> Nat]
  BY <1>1 DEF Ordered
<1>5. LeavesKept(h, s)
  BY DividedInnerKeepsLeaves
<1>6. Chained(h, lo, upper)
  <2>1. \A n \in Leaves(h) : n \in NodeIds /\ n # a
    BY DEF DividedInner, Leaves, Inners, Alive
  <2>2. \A n \in Leaves(h) : lo[n] = lo[n] /\ hi[n] = upper[n]
    BY <1>4, <2>1
  <2> HIDE DEF upper
  <2> QED BY <1>1, <1>5, <2>2, ChainKept
<1>7. Owned(h) /\ Content(s) = Content(h)
  BY <1>1, <1>5, OwnedKept
<1>8. Bounded(h, lo)
  <2>1. \A n \in Alive(h) : n \in Alive(s)
    BY DividedInnerAlive
  <2> QED BY <1>1, <2>1, Zenon DEF Bounded
<1> QED BY <1>2, <1>3, <1>6, <1>7, <1>8, Zenon DEF Tree

LEMMA NewRootKeepsTree ==
  ASSUME NEW h, NEW s, NEW r, NEW k, NEW n, NEW key \in Keys, NewRoot(h, s, r, k, n, key),
         NEW t, NEW lo, NEW hi, NEW any, Tree(h, r, k, r, t, lo, hi), t[k] = t[r], hi[r] = key
  PROVE  /\ Tree(s, n, NULL, any, [t EXCEPT ![n] = t[r] + 1],
                 [lo EXCEPT ![n] = 0], [hi EXCEPT ![n] = 0])
         /\ Content(s) = Content(h)
<1> DEFINE high == [t EXCEPT ![n] = t[r] + 1]
           after == [lo EXCEPT ![n] = 0]
           upper == [hi EXCEPT ![n] = 0]
<1>1. /\ Shape(h, r, k, t) /\ Ordered(h, r, k, r, t, lo, hi)
      /\ Chained(h, lo, hi) /\ Bounded(h, lo) /\ Owned(h)
  BY Zenon DEF Tree
<1>2. Shape(s, n, NULL, high)
  BY <1>1, NewRootKeepsShape
<1>3. Ordered(s, n, NULL, any, high, after, upper)
  BY <1>1, NewRootKeepsOrder
<1>4. lo \in [NodeIds -> Nat] /\ hi \in [NodeIds -> Nat] /\ after \in [NodeIds -> Nat]
  BY <1>1, <1>3 DEF Ordered
<1>5. LeavesKept(h, s)
  BY NewRootKeepsLeaves
<1>6. Chained(s, after, upper)
  <2>1. \A m \in Leaves(h) : m \in NodeIds /\ m # n
    BY DEF NewRoot, Leaves, Alive
  <2>2. \A m \in Leaves(h) : after[m] = lo[m] /\ upper[m] = hi[m]
    BY <1>4, <2>1
  <2> HIDE DEF after, upper
  <2> QED BY <1>1, <1>5, <2>2, ChainKept
<1>7. Owned(s) /\ Content(s) = Content(h)
  BY <1>1, <1>5, OwnedKept
<1>8. Bounded(s, after)
  <2>0. Alive(s) = Alive(h) \cup {n} /\ n \notin Alive(h)
    BY NewRootAlive, Zenon
  <2>1. /\ Alive(s) = Alive(h) \cup {n} /\ n \notin Alive(h) /\ n \in NodeIds
    BY <2>0 DEF NewRoot
  <2>2. \A m \in Alive(s) : after[m] = 0 \/ (m \in Alive(h) /\ after[m] = lo[m])
    BY <1>4, <2>1 DEF Alive
  <2> HIDE DEF after
  <2> QED BY <1>1, <1>4, <2>2, BoundedKept
<1> QED BY <1>2, <1>3, <1>6, <1>7, <1>8, Zenon DEF Tree

LEMMA DropRootKeepsTree ==
  ASSUME NEW h, NEW s, NEW r, NEW m, DropRoot(h, s, r, m),
         NEW t, NEW lo, NEW hi, NEW c, NEW any, Tree(h, r, NULL, c, t, lo, hi)
  PROVE  Tree(s, m, NULL, any, t, lo, hi) /\ Content(s) = Content(h)
<1>1. /\ Shape(h, r, NULL, t) /\ Ordered(h, r, NULL, c, t, lo, hi)
      /\ Chained(h, lo, hi) /\ Bounded(h, lo) /\ Owned(h)
  BY Zenon DEF Tree
<1>2. Shape(s, m, NULL, t)
  BY <1>1, DropRootKeepsShape
<1>3. Ordered(s, m, NULL, any, t, lo, hi)
  BY <1>1, DropRootKeepsOrder
<1>5. LeavesKept(h, s)
  BY <1>1, DropRootKeepsLeaves
<1>6. Chained(s, lo, hi)
  BY <1>1, <1>5, ChainKept
<1>7. Owned(s) /\ Content(s) = Content(h)
  BY <1>1, <1>5, OwnedKept
<1>8. Bounded(s, lo)
  <2>1. \A n \in Alive(s) : n \in Alive(h)
    BY <1>1, DropRootAlive
  <2> QED BY <1>1, <2>1, Zenon DEF Bounded
<1> QED BY <1>2, <1>3, <1>6, <1>7, <1>8, Zenon DEF Tree

LEMMA LeafChangeKeepsTree ==
  ASSUME NEW h, NEW s, NEW n, LeafChange(h, s, n),
         NEW r, NEW k, NEW t, NEW c, NEW lo, NEW hi, Tree(h, r, k, c, t, lo, hi),
         Ranged(s[n], lo[n], hi[n]), Owned(s)
  PROVE  Tree(s, r, k, c, t, lo, hi)
<1>1. /\ Shape(h, r, k, t) /\ Ordered(h, r, k, c, t, lo, hi)
      /\ Chained(h, lo, hi) /\ Bounded(h, lo) /\ Owned(h)
  BY Zenon DEF Tree
<1>2. Shape(s, r, k, t)
  BY <1>1, LeafChangeKeepsShape
<1>3. Ordered(s, r, k, c, t, lo, hi)
  BY <1>1, LeafChangeKeepsOrder
<1>4. Chained(s, lo, hi)
  BY <1>1, LeafChangeKeepsChain
<1>5. Bounded(s, lo)
  <2>1. \A m \in Alive(s) : m \in Alive(h)
    BY LeafChangeAlive
  <2> QED BY <1>1, <2>1, Zenon DEF Bounded
<1> QED BY <1>2, <1>3, <1>4, <1>5, Zenon DEF Tree

(* The bound of current does not matter while nothing is beside the tree.  *)
LEMMA TreeAtRest ==
  ASSUME NEW h, NEW r, NEW t, NEW lo, NEW hi, NEW c, NEW any, Tree(h, r, NULL, c, t, lo, hi)
  PROVE  Tree(h, r, NULL, any, t, lo, hi)
<1>1. Upper(hi, c, NULL) = hi /\ Upper(hi, any, NULL) = hi
  BY DEF Upper
<1> QED BY <1>1, Zenon DEF Tree, Ordered
=============================================================================
