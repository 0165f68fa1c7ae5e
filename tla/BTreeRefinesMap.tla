-------------------------- MODULE BTreeRefinesMap --------------------------
(***************************************************************************)
(* BTree implements OrderedMap: the entries are what the leaves hold, from *)
(* the first one along the chain.                                          *)
(***************************************************************************)
EXTENDS BTree

Map == INSTANCE OrderedMap WITH entries <- Entries

(* Every step on the tree but the change of a leaf leaves the entries be:  *)
(* no split, redistribution or merge loses, invents or moves a key away    *)
(* from the chain.                                                         *)
ImplementsMap == Map!Spec
=============================================================================
