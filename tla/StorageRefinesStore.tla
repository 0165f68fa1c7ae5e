------------------------ MODULE StorageRefinesStore ------------------------
(***************************************************************************)
(* Storage implements Store: the documents are what the next start would   *)
(* load from the files as they are, whatever the threads are doing.        *)
(***************************************************************************)
EXTENDS Storage

Records(file) == IF file = Absent THEN <<>> ELSE file

(* What starting the server comes to: a journal that does not replay is    *)
(* set aside and the start after that goes on without it.                  *)
Merged(db, file) ==
  IF ReplayThrows(db, Records(file)) THEN db ELSE Replayed(db, Records(file))

Recovered == Merged(Merged(BaseValue, closed), journal)

(* Between the rename of the new base and the removal of the closed        *)
(* journal the files alone do not tell: the process has to get through.    *)
Documents == IF BothWaitToBeUnlinked THEN database ELSE Recovered

Requested ==
  CASE main \in Handling -> main
    [] main = "apply" -> "written"
    [] OTHER -> "none"

TheStore == INSTANCE Store WITH documents <- Documents, request <- Requested

(* Every step of the threads, the timer, a kill or a restart leaves the    *)
(* recoverable documents alone, except the append of a record, which makes *)
(* exactly its change (source/service.cc and include/journal.h).           *)
ImplementsStore == TheStore!Spec
=============================================================================
