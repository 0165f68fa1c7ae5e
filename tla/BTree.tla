------------------------------- MODULE BTree -------------------------------
(***************************************************************************)
(* Map of include/map.h, the B+ tree that holds a database in memory.      *)
(* Nodes live on a heap and name each other: parents, kids, and the chain  *)
(* of the leaves by which a snapshot is written.  One action is one call   *)
(* of PropagateUpwards or one round of the loop in Erase.                  *)
(*                                                                         *)
(* The value inserted with a key is the key itself, and Updated once it    *)
(* was replaced: what matters is that each key keeps its own.  Positions   *)
(* count from 1 where the code's count from 0.                             *)
(***************************************************************************)
EXTENDS Naturals, SequencesExt, FiniteSetsExt

CONSTANTS Keys,          \* numbers
          Updatable,     \* bound: the keys whose value may be replaced
          NodeIds,       \* addresses; the bound on the nodes there may be
          NULL,
          Freed,
          InnerFanout,   \* INNER_FANOUT, OUTER_FANOUT
          OuterFanout

(* A leaf is not emptied by an erasure before its siblings are looked at.  *)
ASSUME MapAssumption ==
  /\ Keys \subseteq Nat \ {0} /\ Updatable \subseteq Keys /\ NodeIds \subseteq Nat /\ NULL \notin NodeIds
  /\ InnerFanout \in Nat /\ InnerFanout >= 3
  /\ OuterFanout \in Nat /\ OuterFanout >= 4

VARIABLES heap,      \* the nodes, by address
          root,      \* root_
          size,      \* size_
          pc,        \* "idle", "propagate" or "rebalance"
          current,   \* origin in PropagateUpwards, current in Erase
          kin,       \* the node to link beside it
          upKey,     \* its separator
          next,      \* the iterator Erase returns
          erased     \* history: the key last erased, 0 after an insertion

tree == <<heap, root, size>>
call == <<pc, current, kin, upKey>>
vars == <<tree, call, next, erased>>

Updated == 0
Values == Keys \cup {Updated}

Node == [outer : BOOLEAN, keys : Seq(Keys), values : Seq(Values),
         kids : Seq(NodeIds), parent : NodeIds \cup {NULL},
         next : NodeIds \cup {NULL}, previous : NodeIds \cup {NULL}]

ASSUME FreedAssumption == Freed \notin Node

(* The parent of a root is not initialised; nothing ever follows it.       *)
NewNode(outer) ==
  [outer |-> outer, keys |-> <<>>, values |-> <<>>, kids |-> <<>>,
   parent |-> NULL, next |-> NULL, previous |-> NULL]

End == <<NULL, 0>>

Fanout(x) == IF x.outer THEN OuterFanout ELSE InnerFanout
IsFull(x) == Len(x.keys) > Fanout(x)

(* Mutant: a node of half its fanout counts as sparse.                     *)
IsSparseToHalf(x) == Len(x.keys) <= Fanout(x) \div 2

IsSparse(x) == Len(x.keys) < Fanout(x) \div 2

Position(s, e) == SelectInSeq(s, LAMBDA x : x = e)
KidIndex(h, p, n) == Position(h[p].kids, n)
Allocate(h) == Min({n \in NodeIds : h[n] = Freed})

Live == {n \in NodeIds : heap[n] # Freed}
LiveLeaves == {n \in Live : heap[n].outer}

(* Bound: a node is only allocated while there is an address left.         *)
HasRoom == \E n \in NodeIds : heap[n] = Freed

(* The leaf where a key is or belongs.                                     *)
KidFor(x, k) ==
  IF k < x.keys[1] THEN 1
  ELSE IF k >= Last(x.keys) THEN Len(x.kids)
  ELSE 1 + CHOOSE i \in 1..(Len(x.keys) - 1) : x.keys[i] <= k /\ k < x.keys[i + 1]

Locate(k) ==
  LET leaf[n \in Live] ==
        IF heap[n].outer THEN n ELSE leaf[heap[n].kids[KidFor(heap[n], k)]]
  IN  leaf[root]

Contained(k) == root # NULL /\ Position(heap[Locate(k)].keys, k) # 0

(***************************************************************************)
(* OuterNode and InnerNode: what each call makes of the heap.              *)
(***************************************************************************)
OuterInsert(h, n, k) ==
  LET i == 1 + Cardinality({j \in DOMAIN h[n].keys : h[n].keys[j] < k})
  IN  [h EXCEPT ![n].keys = InsertAt(@, i, k), ![n].values = InsertAt(@, i, k)]

OuterErase(h, n, i) ==
  [h EXCEPT ![n].keys = RemoveAt(@, i), ![n].values = RemoveAt(@, i)]

KeysLeft(x) == (Len(x.keys) + 1) \div 2

After(s, i) == SubSeq(s, i + 1, Len(s))

(* Mutant: Split of a leaf drops its middle key, as that of an inner node. *)
OuterSplitDropsMiddle(h, n, new) ==
  LET x == h[n]
      left == KeysLeft(x)
      split == [h EXCEPT ![n].keys = SubSeq(@, 1, left),
                         ![n].values = SubSeq(@, 1, left),
                         ![n].next = new,
                         ![new] = [NewNode(TRUE) EXCEPT
                                     !.keys = After(x.keys, left + 1),
                                     !.values = After(x.values, left + 1),
                                     !.parent = x.parent,
                                     !.next = x.next, !.previous = n]]
  IN  IF x.next = NULL THEN split ELSE [split EXCEPT ![x.next].previous = new]

(* The upper half moves to a new node that follows in the chain.           *)
OuterSplit(h, n, new) ==
  LET x == h[n]
      left == KeysLeft(x)
      split == [h EXCEPT ![n].keys = SubSeq(@, 1, left),
                         ![n].values = SubSeq(@, 1, left),
                         ![n].next = new,
                         ![new] = [NewNode(TRUE) EXCEPT
                                     !.keys = After(x.keys, left),
                                     !.values = After(x.values, left),
                                     !.parent = x.parent,
                                     !.next = x.next, !.previous = n]]
  IN  IF x.next = NULL THEN split ELSE [split EXCEPT ![x.next].previous = new]

SetParent(h, kids, p) ==
  [m \in NodeIds |-> IF m \in kids THEN [h[m] EXCEPT !.parent = p] ELSE h[m]]

(* Mutant: the kids that move keep their old parent.                       *)
InnerSplitKeepsParent(h, n, new) ==
  LET x == h[n]
      left == KeysLeft(x)
  IN  [h EXCEPT ![n].keys = SubSeq(@, 1, left),
                ![n].kids = SubSeq(@, 1, left + 1),
                ![new] = [NewNode(FALSE) EXCEPT
                            !.keys = After(x.keys, left + 1),
                            !.kids = After(x.kids, left + 1),
                            !.parent = x.parent]]

(* The middle key moves up, what follows it to a new node.                 *)
InnerSplit(h, n, new) ==
  LET x == h[n]
      left == KeysLeft(x)
      kids == After(x.kids, left + 1)
  IN  SetParent([h EXCEPT ![n].keys = SubSeq(@, 1, left),
                          ![n].kids = SubSeq(@, 1, left + 1),
                          ![new] = [NewNode(FALSE) EXCEPT
                                      !.keys = After(x.keys, left + 1),
                                      !.kids = kids, !.parent = x.parent]],
                ToSet(kids), new)

InnerInsert(h, p, left, key, right) ==
  IF h[p].keys = <<>>
  THEN SetParent([h EXCEPT ![p].keys = <<key>>, ![p].kids = <<left, right>>],
                 {left, right}, p)
  ELSE LET i == KidIndex(h, p, left)
       IN  SetParent([h EXCEPT ![p].keys = InsertAt(@, i, key),
                               ![p].kids = InsertAt(@, i + 1, right)],
                     {right}, p)

InnerErase(h, p, key, kid) ==
  [h EXCEPT ![p].keys = RemoveAt(@, Position(@, key)),
            ![p].kids = RemoveAt(@, Position(@, kid))]

(* One element crosses from the longer to the shorter of two siblings.     *)
MayRedistribute(h, a, b) ==
  \/ Len(h[b].keys) >= Len(h[a].keys) + 2
  \/ Len(h[a].keys) >= Len(h[b].keys) + 2

SeparatorIndex(h, a, b) ==
  Min({KidIndex(h, h[a].parent, a), KidIndex(h, h[a].parent, b)})

(* Mutant: the separator stays what it was.                                *)
OuterRedistributeKeepsSeparator(h, a, b) ==
  LET x == h[a]
      y == h[b]
  IN  IF Len(y.keys) >= Len(x.keys) + 2
      THEN [h EXCEPT ![a].keys = Append(@, Head(y.keys)),
                     ![a].values = Append(@, Head(y.values)),
                     ![b].keys = Tail(@), ![b].values = Tail(@)]
      ELSE [h EXCEPT ![a].keys = Front(@), ![a].values = Front(@),
                     ![b].keys = <<Last(x.keys)>> \o @,
                     ![b].values = <<Last(x.values)>> \o @]

OuterRedistribute(h, a, b) ==
  LET x == h[a]
      y == h[b]
      moved == IF Len(y.keys) >= Len(x.keys) + 2
               THEN [h EXCEPT ![a].keys = Append(@, Head(y.keys)),
                              ![a].values = Append(@, Head(y.values)),
                              ![b].keys = Tail(@), ![b].values = Tail(@)]
               ELSE [h EXCEPT ![a].keys = Front(@), ![a].values = Front(@),
                              ![b].keys = <<Last(x.keys)>> \o @,
                              ![b].values = <<Last(x.values)>> \o @]
  IN  [moved EXCEPT ![x.parent].keys[KidIndex(h, x.parent, a)] = moved[b].keys[1]]

InnerRedistribute(h, a, b) ==
  LET x == h[a]
      y == h[b]
      i == SeparatorIndex(h, a, b)
      up == h[x.parent].keys[i]
  IN  IF Len(y.keys) >= Len(x.keys) + 2
      THEN SetParent([h EXCEPT ![a].keys = Append(@, up),
                               ![a].kids = Append(@, Head(y.kids)),
                               ![b].keys = Tail(@), ![b].kids = Tail(@),
                               ![x.parent].keys[i] = Head(y.keys)],
                     {Head(y.kids)}, a)
      ELSE SetParent([h EXCEPT ![b].keys = <<up>> \o @,
                               ![b].kids = <<Last(x.kids)>> \o @,
                               ![a].keys = Front(@), ![a].kids = Front(@),
                               ![x.parent].keys[i] = Last(x.keys)],
                     {Last(x.kids)}, b)

Redistribute(h, a, b) ==
  IF h[a].outer THEN OuterRedistribute(h, a, b) ELSE InnerRedistribute(h, a, b)

(* All that b holds moves to a, its left sibling.                          *)
MayCoalesce(h, a, b) == Len(h[a].keys) + Len(h[b].keys) <= Fanout(h[a])

(* Mutant: the next leaf still points back to the one that is freed.       *)
OuterCoalesceKeepsPrevious(h, a, b) ==
  [h EXCEPT ![a].keys = @ \o h[b].keys, ![a].values = @ \o h[b].values,
            ![a].next = h[b].next]

OuterCoalesce(h, a, b) ==
  LET y == h[b]
      joined == [h EXCEPT ![a].keys = @ \o y.keys, ![a].values = @ \o y.values,
                          ![a].next = y.next]
  IN  IF y.next = NULL THEN joined ELSE [joined EXCEPT ![y.next].previous = a]

InnerCoalesce(h, a, b) ==
  LET up == h[h[a].parent].keys[SeparatorIndex(h, a, b)]
  IN  SetParent([h EXCEPT ![a].keys = @ \o <<up>> \o h[b].keys,
                          ![a].kids = @ \o h[b].kids],
                ToSet(h[b].kids), a)

(* Coalesce, and what Erase does then: b leaves its parent and is freed.   *)
Merge(h, a, b) ==
  LET p == h[a].parent
      joined == IF h[a].outer THEN OuterCoalesce(h, a, b) ELSE InnerCoalesce(h, a, b)
      key == joined[p].keys[SeparatorIndex(joined, a, b)]
  IN  [InnerErase(joined, p, key, b) EXCEPT ![b] = Freed]

(***************************************************************************)
(* MapIterator::Increment, and the iterator an erasure starts with.        *)
(***************************************************************************)
Incremented(h, it) ==
  LET x == h[it[1]]
  IN  IF Len(x.keys) > 0 /\ it[2] >= Len(x.keys)
      THEN IF x.next = NULL THEN End ELSE <<x.next, 1>>
      ELSE <<it[1], it[2] + 1>>

AfterErase(h, n, i) ==
  IF i = Len(h[n].keys) + 1 THEN Incremented(h, <<n, i>>) ELSE <<n, i>>

(***************************************************************************)
(* Map.                                                                    *)
(***************************************************************************)
Init ==
  /\ heap = [n \in NodeIds |-> Freed]
  /\ root = NULL /\ size = 0
  /\ pc = "idle" /\ current = NULL /\ kin = NULL /\ upKey = 0
  /\ next = End /\ erased = 0

Return ==
  pc' = "idle" /\ current' = NULL /\ kin' = NULL /\ upKey' = 0

(* Mutant: the first key is not counted.                                   *)
InsertFirstUncounted(k) ==
  LET n == Allocate(heap)
  IN  /\ pc = "idle" /\ root = NULL /\ HasRoom
      /\ heap' = OuterInsert([heap EXCEPT ![n] = NewNode(TRUE)], n, k)
      /\ root' = n
      /\ next' = End /\ erased' = 0
      /\ UNCHANGED <<size, call>>

InsertFirst(k) ==
  LET n == Allocate(heap)
  IN  /\ pc = "idle" /\ root = NULL /\ HasRoom
      /\ heap' = OuterInsert([heap EXCEPT ![n] = NewNode(TRUE)], n, k)
      /\ root' = n /\ size' = size + 1
      /\ next' = End /\ erased' = 0
      /\ UNCHANGED call

(* A key that is there already is refused.                                 *)
Insert(k) ==
  LET n == Locate(k)
      inserted == OuterInsert(heap, n, k)
      new == Allocate(heap)
  IN  /\ pc = "idle" /\ root # NULL /\ ~Contained(k)
      /\ size' = size + 1
      /\ next' = End /\ erased' = 0
      /\ IF IsFull(inserted[n])
         THEN /\ HasRoom
              /\ heap' = OuterSplit(inserted, n, new)
              /\ pc' = "propagate" /\ current' = n /\ kin' = new
              /\ upKey' = heap'[new].keys[1]
         ELSE heap' = inserted /\ UNCHANGED call
      /\ UNCHANGED root

(* Update: of a key that Find has found.                                   *)
Update(k) ==
  LET n == Locate(k)
  IN  /\ pc = "idle" /\ root # NULL /\ Contained(k)
      /\ heap' = [heap EXCEPT ![n].values[Position(heap[n].keys, k)] = Updated]
      /\ next' = End /\ erased' = 0
      /\ UNCHANGED <<root, size, call>>

(* Clear: every node that can be reached from the root is deleted.         *)
Reachable ==
  LET below[n \in Live] ==
        {n} \cup (IF heap[n].outer THEN {}
                  ELSE UNION {below[m] : m \in ToSet(heap[n].kids)})
  IN  IF root = NULL THEN {} ELSE below[root]

Clear ==
  /\ pc = "idle" /\ root # NULL
  /\ LET reachable == Reachable
     IN  heap' = [n \in NodeIds |-> IF n \in reachable THEN Freed ELSE heap[n]]
  /\ root' = NULL /\ size' = 0
  /\ next' = End /\ erased' = 0
  /\ UNCHANGED call

(* PropagateUpwards: the root is split under a new one ...                 *)
PropagateToRoot ==
  LET n == Allocate(heap)
  IN  /\ pc = "propagate" /\ current = root /\ HasRoom
      /\ heap' = InnerInsert([heap EXCEPT ![n] = NewNode(FALSE)],
                             n, current, upKey, kin)
      /\ root' = n
      /\ Return
      /\ UNCHANGED <<size, next, erased>>

(* ... or the parent takes the new kid and may have to be split itself.    *)
PropagateUpwards ==
  LET p == heap[current].parent
      linked == InnerInsert(heap, p, current, upKey, kin)
      new == Allocate(linked)
  IN  /\ pc = "propagate" /\ current # root
      /\ KidIndex(heap, p, current) # 0
      /\ IF IsFull(linked[p])
         THEN /\ HasRoom
              /\ heap' = InnerSplit(linked, p, new)
              /\ current' = p /\ kin' = new
              /\ upKey' = linked[p].keys[KeysLeft(linked[p]) + 1]
              /\ UNCHANGED pc
         ELSE heap' = linked /\ Return
      /\ UNCHANGED <<root, size, next, erased>>

(* Erase up to its loop.  When the last key goes, so does the leaf the     *)
(* iterator names.                                                         *)
Erase(k) ==
  LET n == Locate(k)
      i == Position(heap[n].keys, k)
      h == OuterErase(heap, n, i)
  IN  /\ pc = "idle" /\ root # NULL /\ Contained(k)
      /\ size' = size - 1
      /\ next' = AfterErase(h, n, i) /\ erased' = k
      /\ IF n = root /\ h[n].keys = <<>>
         THEN heap' = [h EXCEPT ![n] = Freed] /\ root' = NULL /\ UNCHANGED call
         ELSE /\ heap' = h
              /\ pc' = "rebalance" /\ current' = n
              /\ UNCHANGED <<root, kin, upKey>>

LeftNode(n) == LET kids == heap[heap[n].parent].kids
                   i == Position(kids, n)
               IN  IF i <= 1 THEN NULL ELSE kids[i - 1]
RightNode(n) == LET kids == heap[heap[n].parent].kids
                    i == Position(kids, n)
                IN  IF i = 0 \/ i = Len(kids) THEN NULL ELSE kids[i + 1]

Rebalancing == pc = "rebalance" /\ current # root

EnoughKeys ==
  /\ Rebalancing /\ ~IsSparse(heap[current])
  /\ Return
  /\ UNCHANGED <<tree, next, erased>>

FromLeft == LeftNode(current) # NULL /\ MayRedistribute(heap, LeftNode(current), current)
FromRight == RightNode(current) # NULL /\ MayRedistribute(heap, current, RightNode(current))

(* Mutant: the iterator is not moved with the element it points to.        *)
RedistributeLeftKeepsIterator ==
  /\ Rebalancing /\ IsSparse(heap[current]) /\ FromLeft
  /\ heap' = Redistribute(heap, LeftNode(current), current)
  /\ Return
  /\ UNCHANGED <<root, size, next, erased>>

RedistributeLeft ==
  /\ Rebalancing /\ IsSparse(heap[current]) /\ FromLeft
  /\ heap' = Redistribute(heap, LeftNode(current), current)
  /\ next' = IF heap[current].outer /\ next[1] = current
             THEN <<current, next[2] + 1>> ELSE next
  /\ Return
  /\ UNCHANGED <<root, size, erased>>

RedistributeRight ==
  LET right == RightNode(current)
  IN  /\ Rebalancing /\ IsSparse(heap[current]) /\ ~FromLeft /\ FromRight
      /\ heap' = Redistribute(heap, current, right)
      /\ next' = IF heap[current].outer /\ next[1] = right
                 THEN <<current, Len(heap'[current].keys)>> ELSE next
      /\ Return
      /\ UNCHANGED <<root, size, erased>>

IntoLeft == LeftNode(current) # NULL /\ MayCoalesce(heap, LeftNode(current), current)
FromRightAll == RightNode(current) # NULL /\ MayCoalesce(heap, current, RightNode(current))

CoalesceLeft ==
  LET left == LeftNode(current)
  IN  /\ Rebalancing /\ IsSparse(heap[current]) /\ ~FromLeft /\ ~FromRight
      /\ IntoLeft
      /\ heap' = Merge(heap, left, current)
      /\ next' = IF heap[current].outer /\ next[1] = current
                 THEN <<left, next[2] + Len(heap[left].keys)>> ELSE next
      /\ current' = heap[left].parent
      /\ UNCHANGED <<root, size, pc, kin, upKey, erased>>

CoalesceRight ==
  LET right == RightNode(current)
  IN  /\ Rebalancing /\ IsSparse(heap[current]) /\ ~FromLeft /\ ~FromRight
      /\ ~IntoLeft /\ FromRightAll
      /\ heap' = Merge(heap, current, right)
      /\ next' = IF heap[current].outer /\ next[1] = right
                 THEN <<current, Len(heap[current].keys) + 1>> ELSE next
      /\ current' = heap[current].parent
      /\ UNCHANGED <<root, size, pc, kin, upKey, erased>>

(* The loop has reached the root; one without keys gives way to its kid.   *)
EndAtRoot ==
  /\ pc = "rebalance" /\ current = root
  /\ IF ~heap[root].outer /\ heap[root].keys = <<>>
     THEN /\ root' = heap[root].kids[1]
          /\ heap' = [heap EXCEPT ![root] = Freed, ![root'].parent = NULL]
     ELSE UNCHANGED <<heap, root>>
  /\ Return
  /\ UNCHANGED <<size, next, erased>>

Next ==
  \/ \E k \in Keys : InsertFirst(k) \/ Insert(k) \/ Erase(k)
  \/ \E k \in Updatable : Update(k)
  \/ Clear \/ PropagateToRoot \/ PropagateUpwards
  \/ EnoughKeys \/ RedistributeLeft \/ RedistributeRight
  \/ CoalesceLeft \/ CoalesceRight \/ EndAtRoot

Spec == Init /\ [][Next]_vars

(***************************************************************************)
(* Properties.                                                             *)
(***************************************************************************)
FirstLeaf ==
  LET first[n \in Live] ==
        IF heap[n].outer THEN n ELSE first[heap[n].kids[1]]
  IN  IF root = NULL THEN NULL ELSE first[root]

(* The leaves as Serialize visits them, and what it writes.                *)
Chain ==
  LET from[n \in LiveLeaves \cup {NULL}] ==
        IF n = NULL THEN <<>> ELSE <<n>> \o from[heap[n].next]
  IN  from[FirstLeaf]

Written(field) ==
  LET from[n \in LiveLeaves \cup {NULL}] ==
        IF n = NULL THEN <<>> ELSE heap[n][field] \o from[heap[n].next]
  IN  from[FirstLeaf]

Entries ==
  UNION {{<<heap[n].keys[i], heap[n].values[i]>> : i \in DOMAIN heap[n].keys} :
           n \in ToSet(Chain)}

KeysHeld == ToSet(Written("keys"))

TypeOK ==
  /\ heap \in [NodeIds -> Node \cup {Freed}]
  /\ root \in NodeIds \cup {NULL} /\ size \in Nat
  /\ pc \in {"idle", "propagate", "rebalance"}
  /\ current \in NodeIds \cup {NULL} /\ kin \in NodeIds \cup {NULL}
  /\ upKey \in Keys \cup {0} /\ erased \in Keys \cup {0}
  /\ next \in (NodeIds \cup {NULL}) \X Nat

(* What a snapshot would hold: between any two steps the chain of leaves   *)
(* holds size_ keys in ascending order, each with its own value, and the   *)
(* way back is the way forth.                                              *)
ChainHoldsTheMap ==
  LET keys == Written("keys")
      chain == Chain
  IN  /\ \A i \in 2..Len(keys) : keys[i - 1] < keys[i]
      /\ Len(Written("values")) = Len(keys)
      /\ \A e \in Entries : e[2] \in {e[1], Updated}
      /\ Len(keys) = size
      /\ \A i \in 2..Len(chain) : heap[chain[i]].previous = chain[i - 1]

Depth ==
  LET depth[n \in Live] ==
        IF n = root THEN 0 ELSE 1 + depth[heap[n].parent]
  IN  depth

(* The tree is in order when a call returns: kids know their parent, every *)
(* leaf is equally deep, no node is fuller than its fanout, no leaf        *)
(* sparser than half of it and no inner node without a key, and no node is *)
(* left behind on the heap.                                                *)
TreeIsBalanced ==
  LET reachable == Reachable
  IN  pc = "idle" =>
        /\ \A n \in reachable :
             /\ ~IsFull(heap[n])
             /\ heap[n].outer => n = root \/ ~IsSparse(heap[n])
             /\ ~heap[n].outer =>
                  /\ heap[n].keys # <<>>
                  /\ Len(heap[n].kids) = Len(heap[n].keys) + 1
                  /\ \A m \in ToSet(heap[n].kids) : heap[m].parent = n
        /\ Cardinality({Depth[n] : n \in {m \in reachable : heap[m].outer}}) <= 1
        /\ reachable = Live

(* No call gets stuck: PropagateUpwards finds the node it comes from among *)
(* the kids of its parent, or InnerNode::Insert throws "tree: inner        *)
(* insert"; and a sparse node has a sibling to take from or to be merged   *)
(* with, or the loop of Erase goes round for ever.                         *)
CallsGoOn ==
  /\ pc = "propagate" /\ current # root =>
       KidIndex(heap, heap[current].parent, current) # 0
  /\ Rebalancing /\ IsSparse(heap[current]) =>
       FromLeft \/ FromRight \/ IntoLeft \/ FromRightAll

(* Find and Contains: whatever separators earlier erasures left behind,    *)
(* the way down ends at the leaf that holds the key.                       *)
EveryKeyIsFound ==
  LET held == KeysHeld
  IN  pc = "idle" => \A k \in Keys : Contained(k) <=> k \in held

(* Erase returns an iterator at the smallest key above the erased one,     *)
(* through whatever moves the rebalancing made, and End if there is none;  *)
(* unless the map is empty then: its only leaf is gone.                    *)
IteratorIsSuccessor ==
  LET above == {k \in KeysHeld : k > erased}
  IN  IF above = {} THEN next = End
      ELSE next[1] # NULL /\ heap[next[1]].keys[next[2]] = Min(above)

EraseReturnsSuccessor ==
  [][pc' = "idle" /\ erased' # 0 /\ root' # NULL => IteratorIsSuccessor']_vars
=============================================================================
