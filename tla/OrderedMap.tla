----------------------------- MODULE OrderedMap -----------------------------
(***************************************************************************)
(* What Map promises to the database: keys with their values, of which one *)
(* changes at a time, or all go at once.                                   *)
(***************************************************************************)
VARIABLE entries  \* pairs of a key and its value

Init == entries = {}

Without(k) == {e \in entries : e[1] # k}

(* Insert and Update: one value for a key, and what others have stays.     *)
Put(e) == entries' = Without(e[1]) \cup {e}
Erase(k) == entries' = Without(k)
Clear == entries' = {}

Next ==
  \/ \E e \in entries' \ entries : Put(e)
  \/ \E e \in entries \ entries' : Erase(e[1])
  \/ Clear

Spec == Init /\ [][Next]_entries
=============================================================================
