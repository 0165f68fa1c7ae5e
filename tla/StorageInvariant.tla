-------------------------- MODULE StorageInvariant --------------------------
(***************************************************************************)
(* The inductive invariant behind Durable: how the files, the two trees in *)
(* memory and the program counters fit together at every step.             *)
(*                                                                         *)
(* promised lists the states that the journal's records lead through, one  *)
(* more than there are records; rotated does the same for closed, and ends *)
(* where promised begins.  Replaying a file over the state it began with   *)
(* walks along its list.  Replaying it over the state it ended with (after *)
(* a kill between the rename of a new base and the removal of the file)    *)
(* throws, or comes back to that state: a key a replayed record named has  *)
(* the value of the walk, any other key still has its final value.         *)
(***************************************************************************)
EXTENDS Storage

Head1 == promised[1]
Latest == promised[Len(promised)]
Target == IF cut THEN Head1 ELSE Latest

(* states[i + 1] is what record i makes of states[i], without throwing. *)
Walk(states, records) ==
  \A i \in 1..(Len(states) - 1) :
    /\ i \in 1..Len(records)
    /\ ~Throws(states[i], records[i])
    /\ states[i + 1] = Effect(states[i], records[i])

(* A database after p records have been replayed over their final state. *)
Overlay(db, states, records, p) ==
  \A k \in Keys :
    db[k] = IF \E i \in 1..p : records[i].key = k
            THEN states[p + 1][k]
            ELSE states[Len(states)][k]

AfterClosed == {"journal", "decide", "writing", "install", "unlinkclosed"}
AfterJournal == {"decide", "writing", "install", "unlinkclosed", "unlinkjournal"}
Busy == WorkerStates \ {"none", "finished"}

(* Which thread may be where, and what it relies on to be there. *)
Threads ==
  /\ FlagTellsTheWorker
  /\ worker # "none" => main \in {"serving", "apply", "joining"} \cup Handling
  /\ main \in Running \ {"rotating"} => journal # Absent
  /\ main = "apply" =>
       journal # <<>> /\ journal[Len(journal)].op \in Handling
  /\ worker \in Busy \ {"clear"} => closed # Absent

(* What the files say, whatever the process does. *)
ClosedFile ==
  closed # Absent =>
    /\ Len(rotated) = Len(closed) + 1
    /\ Walk(rotated, closed)
    /\ rotated[Len(rotated)] = Head1

JournalFile ==
  journal # Absent =>
    /\ Len(journal) = IF cut THEN Len(promised) ELSE Len(promised) - 1
    /\ Walk(promised, journal)
    /\ cut => journal[Len(journal)].op = "torn"

NoJournalFile ==
  journal = Absent =>
    \/ Target = Head1
    \/ closed = Absent /\ BaseValue = Target

BaseFile ==
  IF closed = Absent
  THEN BaseValue \in {Head1, Target}
  ELSE \/ BaseValue \in {rotated[1], Head1}
       \/ main = "unlinkclosed" /\ BaseValue = Target

(* How far Initialize is. *)
Replays ==
  /\ main \in {"down", "load"} => position = 0 /\ replayed = {}
  /\ main = "closed" =>
       /\ replayed = {}
       /\ closed = Absent => position = 0 /\ database = BaseValue
       /\ closed # Absent =>
            /\ position <= Len(closed)
            /\ \/ database = rotated[position + 1]
               \/ /\ BaseValue = Head1
                  /\ Overlay(database, rotated, closed, position)
  /\ main = "journal" =>
       /\ "journal" \notin replayed
       /\ journal = Absent => position = 0 /\ database = Target
       /\ journal # Absent =>
            /\ position < Len(promised)
            /\ \/ database = promised[position + 1]
               \/ /\ closed = Absent /\ ~cut /\ BaseValue = Target
                  /\ Overlay(database, promised, journal, position)
  /\ main \notin {"closed", "journal"} => position = 0
  /\ main \in AfterClosed => ("closed" \in replayed <=> closed # Absent)
  /\ main \in AfterJournal => ("journal" \in replayed <=> journal # Absent)

Merges ==
  /\ main \in AfterJournal \cup {"open"} => database = Target
  /\ main = "install" => snapshot = database
  /\ main \in {"unlinkclosed", "unlinkjournal", "open"} => BaseValue = Target
  /\ main \in {"unlinkjournal", "open"} => closed = Absent

(* While the server runs. *)
Serves ==
  main \in Running =>
    /\ ~cut
    /\ IF main = "apply"
       THEN Len(promised) > 1 /\ database = promised[Len(promised) - 1]
       ELSE database = Latest
    /\ cancel => main = "joining"
    /\ closed = Absent => BaseValue = Head1
    /\ main = "rotating" =>
         closed # Absent /\ BaseValue = rotated[1] /\ Len(promised) = 1
    /\ main = "launching" /\ closed # Absent => BaseValue = rotated[1]
    /\ main \in {"serving", "apply"} \cup Handling
         /\ worker \in {"none", "finished"} => closed = Absent

(* How far the worker is. *)
Works ==
  /\ worker = "load" => BaseValue = rotated[1] /\ wposition = 0
  /\ worker = "replay" =>
       wposition <= Len(closed) /\ copy = rotated[wposition + 1]
  /\ worker = "check" => cancel \/ copy = Head1
  /\ worker \in {"write", "writing", "install"} => copy = Head1
  /\ worker = "install" => snapshot = copy
  /\ worker = "unlink" => BaseValue = Head1
  /\ worker \in {"clear", "finished"} => cancel \/ closed = Absent
  /\ main \notin Running => ~cancel

IInv ==
  /\ TypeOK /\ Threads
  /\ base # Damaged
  /\ ClosedFile /\ JournalFile /\ NoJournalFile /\ BaseFile
  /\ Replays /\ Merges /\ Serves /\ Works
=============================================================================
