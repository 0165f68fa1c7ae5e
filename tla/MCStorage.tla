----------------------------- MODULE MCStorage -----------------------------
(* Instances of Storage for TLC.  The documents have different sizes, so   *)
(* that a journal can outgrow a base with as many entries as it has.       *)
EXTENDS StorageRefinesStore, StorageInvariant

CONSTANTS small, big

MCDocs == {small, big}
MCDocSize == [d \in Docs |-> IF d = small THEN 1 ELSE 2]
KeySymmetry == Permutations(Keys)
=============================================================================
