--------------------------- MODULE BTreeInvariant ---------------------------
(***************************************************************************)
(* The inductive invariant of BTree.  A tree is described by the height of *)
(* its nodes and the keys that may be below them: from lo on and under hi, *)
(* where 0 stands for no bound.  During PropagateUpwards the node kin is   *)
(* beside the tree: it will stand right of current, whose keys end where   *)
(* kin's begin, while in the parent current still stands for both.         *)
(***************************************************************************)
EXTENDS BTree

Heaps == [NodeIds -> Node \cup {Freed}]
Alive(h) == {n \in NodeIds : h[n] # Freed}
Leaves(h) == {n \in Alive(h) : h[n].outer}
Inners(h) == {n \in Alive(h) : ~h[n].outer}

Distinct(s) == \A i, j \in 1..Len(s) : s[i] = s[j] => i = j
Ascending(s) == \A i, j \in 1..Len(s) : i < j => s[i] < s[j]

IsKid(h, m, n) == \E i \in 1..Len(h[n].kids) : h[n].kids[i] = m

(* Every node but the root, and kin, stands with its parent; a leaf has    *)
(* height 0.                                                               *)
Placed(h, r, k, t, n) ==
  /\ h[n].outer <=> t[n] = 0
  /\ t[n] <= t[r]
  /\ n \notin {r, k} => h[n].parent \in Inners(h) /\ IsKid(h, n, h[n].parent)

(* Kids know their parent and are one less high than it.                   *)
Family(h, r, k, t, n) ==
  /\ Len(h[n].kids) = Len(h[n].keys) + 1 /\ Distinct(h[n].kids)
  /\ \A i \in 1..Len(h[n].kids) :
       LET m == h[n].kids[i]
       IN  m \in Alive(h) \ {r, k} /\ h[m].parent = n /\ t[m] + 1 = t[n]

Shape(h, r, k, t) ==
  /\ h \in Heaps /\ t \in [NodeIds -> Nat]
  /\ r \in Alive(h) /\ (k # NULL => k \in Alive(h) \ {r})
  /\ \A n \in Alive(h) : Placed(h, r, k, t, n)
  /\ \A n \in Leaves(h) : Len(h[n].values) = Len(h[n].keys)
  /\ \A n \in Inners(h) : Family(h, r, k, t, n)

Under(key, bound) == bound = 0 \/ key < bound

(* All that is below m is under all that is below n, or the other way.     *)
Before(lo, hi, m, n) == hi[m] # 0 /\ hi[m] <= lo[n]
Apart(lo, hi, m, n) == Before(lo, hi, m, n) \/ Before(lo, hi, n, m)

(* The end of what a node stands for in its parent. *)
Upper(hi, c, k) == IF k = NULL THEN hi ELSE [hi EXCEPT ![c] = hi[k]]

(* The keys of a node are ascending and within its bounds; those of an     *)
(* inner node are where its kids meet.                                     *)
Fences(x, low, high, lo, upper) ==
  /\ lo[x.kids[1]] = low /\ upper[x.kids[Len(x.keys) + 1]] = high
  /\ \A i \in 1..Len(x.keys) : lo[x.kids[i + 1]] = x.keys[i] /\ upper[x.kids[i]] = x.keys[i]

Ranged(x, low, high) ==
  /\ Under(low, high) /\ Ascending(x.keys)
  /\ \A i \in 1..Len(x.keys) :
       low <= x.keys[i] /\ Under(x.keys[i], high) /\ (x.outer \/ low < x.keys[i])

Ordered(h, r, k, c, t, lo, hi) ==
  /\ lo \in [NodeIds -> Nat] /\ hi \in [NodeIds -> Nat]
  /\ \A n \in Alive(h) : Ranged(h[n], lo[n], hi[n])
  /\ \A n \in Inners(h) : Fences(h[n], lo[n], hi[n], lo, Upper(hi, c, k))
  /\ \A m, n \in Alive(h) : m # n /\ t[m] = t[n] => Apart(lo, hi, m, n)
  /\ lo[r] = 0 /\ Upper(hi, c, k)[r] = 0
  /\ k # NULL => hi[c] = lo[k]

(* A leaf is followed by the one whose keys begin where its own end, which *)
(* knows the way back; and each key has a value of its own.                *)
Chained(h, lo, hi) ==
  \A n \in Leaves(h) :
    /\ h[n].next = NULL <=> hi[n] = 0
    /\ h[n].next # NULL =>
         /\ h[n].next \in Leaves(h)
         /\ lo[h[n].next] = hi[n] /\ h[h[n].next].previous = n

Owned(h) ==
  \A n \in Leaves(h) :
    \A i \in 1..Len(h[n].keys) : h[n].values[i] \in {h[n].keys[i], Updated}

Bounded(h, lo) == \E top \in Nat : \A n \in Alive(h) : lo[n] <= top

(* No node is too full; but for c, a leaf is no sparser than half of its   *)
(* fanout and an inner node has a key.                                     *)
Filled(h, r, c) ==
  /\ \A n \in Alive(h) : ~IsFull(h[n])
  /\ \A n \in Leaves(h) :
       /\ n = r => h[n].keys # <<>>
       /\ n # r /\ n # c => ~IsSparse(h[n])
       /\ n = c => n = r \/ Len(h[n].keys) + 1 >= OuterFanout \div 2
  /\ \A n \in Inners(h) \ {c} : h[n].keys # <<>>

Held(h) == UNION {ToSet(h[n].keys) : n \in Leaves(h)}

Tree(h, r, k, c, t, lo, hi) ==
  /\ Shape(h, r, k, t) /\ Ordered(h, r, k, c, t, lo, hi)
  /\ Chained(h, lo, hi) /\ Bounded(h, lo) /\ Owned(h)

(* A tree at rest, but for the node l that Erase looks at ...              *)
Standing(h, r, l) == (\E t, lo, hi : Tree(h, r, NULL, NULL, t, lo, hi)) /\ Filled(h, r, l)

(* ... and one that k is to be linked into, right of c and as high.        *)
Pending(h, r, c, k, key) ==
  /\ \E t, lo, hi : Tree(h, r, k, c, t, lo, hi) /\ t[k] = t[c] /\ hi[c] = key
  /\ key \in Keys /\ k # NULL /\ k # c /\ c \in Alive(h) /\ Filled(h, NULL, NULL)

Sound ==
  IF root = NULL THEN heap = [n \in NodeIds |-> Freed] /\ pc = "idle"
  ELSE \/ pc = "idle" /\ Standing(heap, root, NULL)
       \/ pc = "propagate" /\ Pending(heap, root, current, kin, upKey)
       \/ pc = "rebalance" /\ current \in Alive(heap) /\ Standing(heap, root, current)

Counted == IsFiniteSet(Held(heap)) /\ Cardinality(Held(heap)) = size

Inv ==
  /\ Sound /\ Counted
  /\ pc = "idle" => current = NULL
  /\ pc # "propagate" => kin = NULL
  /\ upKey \in Keys \cup {0} /\ erased \in Keys \cup {0}
  /\ next \in (NodeIds \cup {NULL}) \X Nat

(* The iterator Erase is to return: at the smallest held key above the     *)
(* erased one, and while Erase looks at a leaf, in it or at the start of   *)
(* the next.                                                               *)
Above(h, e) == {k \in Held(h) : k > e}

PointsTo(h, it, k) ==
  it[1] \in Leaves(h) /\ it[2] \in 1..Len(h[it[1]].keys) /\ h[it[1]].keys[it[2]] = k

Leads(h, it, e) ==
  IF Above(h, e) = {} THEN it = End
  ELSE \E k \in Above(h, e) : PointsTo(h, it, k) /\ \A l \in Above(h, e) : k <= l

Beside(h, c, it) ==
  h[c].outer => it[1] \in {NULL, c} \/ (it[1] = h[c].next /\ it[2] = 1)

IteratorInv ==
  /\ pc = "propagate" => erased = 0
  /\ pc # "propagate" /\ erased # 0 /\ root # NULL =>
       /\ Leads(heap, next, erased)
       /\ pc = "rebalance" => Beside(heap, current, next)
=============================================================================
