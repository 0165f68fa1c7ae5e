------------------------------ MODULE MCBTree ------------------------------
(***************************************************************************)
(* Instances of BTree for TLC.                                             *)
(***************************************************************************)
EXTENDS BTreeRefinesMap

(***************************************************************************)
(* Two states that differ only in the addresses of the nodes are one: the  *)
(* view replaces an address by its place in the tree.  The iterator and    *)
(* the key last erased count only until the call returns.                  *)
(***************************************************************************)
Below ==
  LET below[n \in NodeIds] ==
        <<n>> \o (IF heap[n].outer THEN <<>>
                  ELSE FlattenSeq([i \in DOMAIN heap[n].kids |->
                                     below[heap[n].kids[i]]]))
  IN  below

Order ==
  IF root = NULL THEN <<>>
  ELSE Below[root] \o (IF kin = NULL THEN <<>> ELSE Below[kin])

TreeView ==
  LET order == Order
      place == [n \in NodeIds |-> Position(order, n)]
      Place(n) == IF n = NULL THEN 0 ELSE place[n]
      Placed(x) ==
        <<x.keys, x.values, [i \in DOMAIN x.kids |-> Place(x.kids[i])],
          Place(x.parent), Place(x.next), Place(x.previous)>>
  IN  <<[i \in DOMAIN order |-> Placed(heap[order[i]])], Place(root), size, pc,
        Place(current), Place(kin), upKey,
        IF pc = "rebalance" THEN <<Place(next[1]), next[2], erased>> ELSE <<>>,
        {n \in NodeIds : heap[n] # Freed} = ToSet(order)>>
=============================================================================
