------------------------------- MODULE Store -------------------------------
(***************************************************************************)
(* What the document database promises to its clients: a map from keys to  *)
(* documents that changes item by item while a request is handled, in the  *)
(* way of that request, and at no other time.  Being killed, restarted,    *)
(* rotated or rolled over may end the request and changes no document.     *)
(***************************************************************************)
EXTENDS Journal

VARIABLES documents,
          request    \* what is being handled; "written": an item just was

Init == documents = EmptyDatabase /\ request = "none"

Receive ==
  /\ request = "none"
  /\ request' \in Operations
  /\ UNCHANGED documents

Insert(k, d) ==
  /\ request = "insert"
  /\ documents[k] = NoDoc
  /\ documents' = [documents EXCEPT ![k] = d]
  /\ request' = "written"

Update(k, d) ==
  /\ request = "update"
  /\ documents[k] # NoDoc
  /\ documents' = [documents EXCEPT ![k] = d]
  /\ request' = "written"

Erase(k) ==
  /\ request = "erase"
  /\ documents[k] # NoDoc
  /\ documents' = [documents EXCEPT ![k] = NoDoc]
  /\ request' = "written"

(* The next item, if there is one. *)
Continue ==
  /\ request = "written"
  /\ request' \in Operations
  /\ UNCHANGED documents

(* The request is answered, or the process ends. *)
Finish ==
  /\ request # "none"
  /\ request' = "none"
  /\ UNCHANGED documents

Next ==
  \/ Receive \/ Continue \/ Finish
  \/ \E k \in Keys : Erase(k) \/ \E d \in Docs : Insert(k, d) \/ Update(k, d)

Spec == Init /\ [][Next]_<<documents, request>>
=============================================================================
