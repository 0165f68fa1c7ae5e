------------------------------ MODULE Storage ------------------------------
(***************************************************************************)
(* DocumentDatabase of source/service.cc: the database in memory, the four *)
(* files it keeps, the main thread that starts, serves, rotates and stops, *)
(* the worker thread of a rollover, and the process being killed.          *)
(*                                                                         *)
(* On disk: base (the snapshot file), journal (being appended to), closed  *)
(* (a rotated journal that waits to be merged into base) and snapshot (a   *)
(* new base while it is written).  Every start merges what it finds into   *)
(* a new base; while the server runs, a timer rotates a journal that has   *)
(* outgrown the base and a worker merges it in the background.             *)
(***************************************************************************)
EXTENDS Journal

CONSTANTS Absent,         \* the content of a file that does not exist
          Damaged,        \* the content of a snapshot written in part
          JournalLimit,   \* 16 MiB: rotation threshold while base is absent
          MaxJournal,     \* bound: records in one journal file
          Crashes,        \* may the process be killed at all?
          CleanupCrashes, \* also when both journals wait to be unlinked?
          TornAppends,    \* also in the middle of writing a record?
          WriteFaults     \* how writing a snapshot may fail

ASSUME StorageAssumption ==
  /\ Absent \notin Databases /\ Absent \notin Seq(Record)
  /\ Damaged \notin Databases /\ Damaged # Absent
  /\ JournalLimit \in Nat /\ MaxJournal \in Nat
  /\ {Crashes, CleanupCrashes, TornAppends} \subseteq BOOLEAN
  /\ WriteFaults \subseteq {"reported", "unnoticed"}

VARIABLES main,       \* where the main thread is
          worker,     \* where the rollover thread is; "none": not joinable
          base, closed, journal, snapshot,    \* the files
          corrupted,  \* which file was last set aside as .corrupted
          database,   \* database_, the main thread's tree
          replayed,   \* unlink_closed and unlink_journal of Initialize
          position,   \* records replayed by Initialize from this file
          copy,       \* the worker's own tree
          wposition,  \* records replayed by the worker
          inProgress, cancel,  \* the two atomic flags
          promised,   \* history: the states the journal's records lead through
          rotated,    \* history: the same for the closed journal
          cut         \* history: the journal's last record was cut short

files == <<base, closed, journal, snapshot, corrupted>>
mainLocal == <<database, replayed, position>>
workerLocal == <<worker, copy, wposition>>
flags == <<inProgress, cancel>>
history == <<promised, rotated, cut>>
vars == <<main, files, mainLocal, workerLocal, flags, history>>

Handling == {"insert", "update", "erase"}
Starting == {"load", "closed", "journal", "decide", "writing", "install",
             "unlinkclosed", "unlinkjournal", "open"}
Running == {"serving", "apply", "rotating", "launching", "joining"} \cup Handling
MainStates == {"down"} \cup Starting \cup Running
WorkerStates == {"none", "load", "replay", "check", "write", "writing",
                 "install", "unlink", "clear", "finished"}

(* The last start has been through Initialize: database is the whole tree. *)
Loaded == main \in (Running \ {"apply"})
                     \cup {"decide", "writing", "install", "unlinkclosed",
                           "unlinkjournal", "open"}

(***************************************************************************)
(* The process ends: memory and threads are gone, the files stay.          *)
(***************************************************************************)
ProcessEnds ==
  /\ main' = "down"
  /\ database' = EmptyDatabase /\ replayed' = {} /\ position' = 0
  /\ worker' = "none" /\ copy' = EmptyDatabase /\ wposition' = 0
  /\ inProgress' = FALSE /\ cancel' = FALSE

Init ==
  /\ main = "down" /\ worker = "none"
  /\ base = Absent /\ closed = Absent /\ journal = Absent /\ snapshot = Absent
  /\ corrupted = "none"
  /\ database = EmptyDatabase /\ replayed = {} /\ position = 0
  /\ copy = EmptyDatabase /\ wposition = 0
  /\ inProgress = FALSE /\ cancel = FALSE
  /\ promised = <<EmptyDatabase>> /\ rotated = <<>> /\ cut = FALSE

(* What is loaded from base; a file that does not exist is an empty tree. *)
BaseValue == IF base = Absent THEN EmptyDatabase ELSE base

(***************************************************************************)
(* Initialize: load base, replay closed, replay journal, and if there was  *)
(* anything to replay write a new base and unlink the journals.            *)
(***************************************************************************)
Start ==
  /\ main = "down"
  /\ main' = "load"
  /\ UNCHANGED <<files, mainLocal, workerLocal, flags, history>>

LoadBase ==
  /\ main = "load"
  /\ base # Damaged
  /\ database' = BaseValue
  /\ main' = "closed"
  /\ UNCHANGED <<files, replayed, position, workerLocal, flags, history>>

(* Deserialize of a truncated file reports it, and base is set aside, or   *)
(* throws out of Initialize (a length that was never read, a key repeated).*)
LoadDamagedBase ==
  /\ main = "load"
  /\ base = Damaged
  /\ \/ base' = Absent /\ corrupted' = "base"
     \/ UNCHANGED <<base, corrupted>>
  /\ ProcessEnds
  /\ UNCHANGED <<closed, journal, snapshot, history>>

(* The file that Initialize replays next, and what follows it. *)
Replaying == IF main = "closed" THEN closed ELSE journal
AfterReplay == IF main = "closed" THEN "journal" ELSE "decide"

SkipMissingJournal ==
  /\ main \in {"closed", "journal"}
  /\ Replaying = Absent
  /\ main' = AfterReplay
  /\ UNCHANGED <<files, mainLocal, workerLocal, flags, history>>

ReplayRecord ==
  /\ main \in {"closed", "journal"}
  /\ Replaying # Absent
  /\ position < Len(Replaying)
  /\ ~Throws(database, Replaying[position + 1])
  /\ database' = Effect(database, Replaying[position + 1])
  /\ position' = position + 1
  /\ UNCHANGED <<main, files, replayed, workerLocal, flags, history>>

(* A replay that throws runtime_error sets the file aside and ends the     *)
(* start; reading a torn record may also throw something else, which is    *)
(* not caught and leaves the file where it is.                             *)
ReplayFails ==
  /\ main \in {"closed", "journal"}
  /\ Replaying # Absent
  /\ position < Len(Replaying)
  /\ Throws(database, Replaying[position + 1])
  /\ \/ /\ corrupted' = main
        /\ IF main = "closed"
           THEN closed' = Absent /\ UNCHANGED journal
           ELSE journal' = Absent /\ UNCHANGED closed
     \/ /\ Replaying[position + 1].op = "torn"
        /\ UNCHANGED <<corrupted, closed, journal>>
  /\ ProcessEnds
  /\ UNCHANGED <<base, snapshot, history>>

ReplayDone ==
  /\ main \in {"closed", "journal"}
  /\ Replaying # Absent
  /\ position = Len(Replaying)
  /\ replayed' = replayed \cup {main}
  /\ position' = 0
  /\ main' = AfterReplay
  /\ UNCHANGED <<files, database, workerLocal, flags, history>>

NothingToRollOver ==
  /\ main = "decide"
  /\ replayed = {}
  /\ main' = "unlinkclosed"
  /\ UNCHANGED <<files, mainLocal, workerLocal, flags, history>>

(* db::Serialize removes the old file and starts to write the new one. *)
BeginSnapshot ==
  /\ main = "decide"
  /\ replayed # {}
  /\ snapshot' = Damaged
  /\ main' = "writing"
  /\ UNCHANGED <<base, closed, journal, corrupted, mainLocal, workerLocal,
                 flags, history>>

(* Serialize takes its result before close() flushes the rest of the       *)
(* stream's buffer: a failure of that last write is not noticed.           *)
EndSnapshot ==
  /\ main = "writing"
  /\ \/ snapshot' = database
     \/ "unnoticed" \in WriteFaults /\ UNCHANGED snapshot
  /\ main' = "install"
  /\ UNCHANGED <<base, closed, journal, corrupted, mainLocal, workerLocal,
                 flags, history>>

SnapshotFails ==
  /\ main = "writing"
  /\ "reported" \in WriteFaults
  /\ snapshot' = Absent
  /\ ProcessEnds
  /\ UNCHANGED <<base, closed, journal, corrupted, history>>

InstallSnapshot ==
  /\ main = "install"
  /\ base' = snapshot
  /\ snapshot' = Absent
  /\ main' = "unlinkclosed"
  /\ UNCHANGED <<closed, journal, corrupted, mainLocal, workerLocal, flags,
                 history>>

UnlinkClosed ==
  /\ main = "unlinkclosed"
  /\ closed' = IF "closed" \in replayed THEN Absent ELSE closed
  /\ main' = "unlinkjournal"
  /\ UNCHANGED <<base, journal, snapshot, corrupted, mainLocal, workerLocal,
                 flags, history>>

UnlinkJournal ==
  /\ main = "unlinkjournal"
  /\ journal' = IF "journal" \in replayed THEN Absent ELSE journal
  /\ main' = "open"
  /\ UNCHANGED <<base, closed, snapshot, corrupted, mainLocal, workerLocal,
                 flags, history>>

(* Opening for output truncates; from here on the history starts anew. *)
OpenJournal ==
  /\ main = "open"
  /\ journal' = <<>>
  /\ inProgress' = FALSE /\ cancel' = FALSE
  /\ replayed' = {}
  /\ main' = "serving"
  /\ promised' = <<database>> /\ rotated' = <<>> /\ cut' = FALSE
  /\ UNCHANGED <<base, closed, snapshot, corrupted, database, position,
                 workerLocal>>

Initialize ==
  \/ Start \/ LoadBase \/ LoadDamagedBase
  \/ SkipMissingJournal \/ ReplayRecord \/ ReplayFails \/ ReplayDone
  \/ NothingToRollOver \/ BeginSnapshot \/ EndSnapshot \/ SnapshotFails
  \/ InstallSnapshot \/ UnlinkClosed \/ UnlinkJournal \/ OpenJournal

(***************************************************************************)
(* Insert, Update and Erase: a request is a run of items of one kind; each *)
(* item is journaled, then applied to the tree.  An item the handler       *)
(* refuses (not an object or a string, or an unknown key) changes nothing. *)
(***************************************************************************)
Receive(op) ==
  /\ main = "serving"
  /\ main' = op
  /\ UNCHANGED <<files, mainLocal, workerLocal, flags, history>>

Answer ==
  /\ main \in Handling
  /\ main' = "serving"
  /\ UNCHANGED <<files, mainLocal, workerLocal, flags, history>>

(* Mutant: a new key is not checked against the tree. *)
MayWriteAnyKey(r) ==
  /\ r.op = main
  /\ r.op = "update" => database[r.key] # NoDoc
  /\ r.op = "erase" => database[r.key] = r.doc

(* The record the handler that is running may write for key k: a fresh key *)
(* for an insert, a key that exists for the others; an erase writes the    *)
(* document it removes.                                                    *)
MayWrite(r) ==
  /\ r.op = main
  /\ r.op = "insert" => database[r.key] = NoDoc
  /\ r.op = "update" => database[r.key] # NoDoc
  /\ r.op = "erase" => database[r.key] = r.doc

AppendRecord(r) ==
  /\ main \in Handling
  /\ MayWrite(r)
  /\ Len(journal) < MaxJournal
  /\ journal' = Append(journal, r)
  /\ promised' = Append(promised, Effect(database, r))
  /\ main' = "apply"
  /\ UNCHANGED <<base, closed, snapshot, corrupted, mainLocal, workerLocal,
                 flags, rotated, cut>>

ApplyRecord ==
  /\ main = "apply"
  /\ database' = Effect(database, journal[Len(journal)])
  /\ main' = journal[Len(journal)].op
  /\ UNCHANGED <<files, replayed, position, workerLocal, flags, history>>

Request ==
  \/ \E op \in Handling : Receive(op)
  \/ \E r \in Record : AppendRecord(r)
  \/ ApplyRecord
  \/ Answer

(***************************************************************************)
(* Tick: Rollover on the main thread.  While a rollover is in progress the *)
(* tick returns at once, which changes nothing.                            *)
(***************************************************************************)
BaseSize == IF base = Damaged THEN 0 ELSE SnapshotSize(base)

RotationDue ==
  IF base # Absent THEN JournalSize(journal) > BaseSize
                   ELSE JournalSize(journal) > JournalLimit

(* Rollover joins a finished worker and looks at the file sizes. *)
TickRotates ==
  /\ main = "serving"
  /\ ~inProgress
  /\ worker \in {"none", "finished"}
  /\ RotationDue
  /\ worker' = "none"
  /\ closed' = journal
  /\ journal' = Absent
  /\ main' = "rotating"
  /\ rotated' = promised
  /\ promised' = <<promised[Len(promised)]>>
  /\ UNCHANGED <<base, snapshot, corrupted, mainLocal, copy, wposition, flags,
                 cut>>

TickKeeps ==
  /\ main = "serving"
  /\ ~inProgress
  /\ worker \in {"none", "finished"}
  /\ ~RotationDue
  /\ worker' = "none"
  /\ main' = "launching"
  /\ UNCHANGED <<files, mainLocal, copy, wposition, flags, history>>

ReopenJournal ==
  /\ main = "rotating"
  /\ journal' = <<>>
  /\ main' = "launching"
  /\ UNCHANGED <<base, closed, snapshot, corrupted, mainLocal, workerLocal,
                 flags, history>>

LaunchWorker ==
  /\ main = "launching"
  /\ closed # Absent
  /\ worker' = "load" /\ copy' = EmptyDatabase /\ wposition' = 0
  /\ inProgress' = TRUE
  /\ main' = "serving"
  /\ UNCHANGED <<files, mainLocal, cancel, history>>

NothingToLaunch ==
  /\ main = "launching"
  /\ closed = Absent
  /\ main' = "serving"
  /\ UNCHANGED <<files, mainLocal, workerLocal, flags, history>>

Tick == TickRotates \/ TickKeeps
Rollover == ReopenJournal \/ LaunchWorker \/ NothingToLaunch

(***************************************************************************)
(* Shutdown: a thread that is joinable is told to stop and joined.         *)
(***************************************************************************)
BeginShutdown ==
  /\ main = "serving"
  /\ worker # "none"
  /\ cancel' = TRUE
  /\ main' = "joining"
  /\ UNCHANGED <<files, mainLocal, workerLocal, inProgress, history>>

FinishShutdown ==
  /\ \/ main = "joining" /\ worker = "finished"
     \/ main = "serving" /\ worker = "none"
  /\ ProcessEnds
  /\ UNCHANGED <<files, history>>

Shutdown == BeginShutdown \/ FinishShutdown

(***************************************************************************)
(* The rollover worker.                                                    *)
(***************************************************************************)
WorkerLoads ==
  /\ worker = "load"
  /\ base # Damaged
  /\ copy' = BaseValue
  /\ worker' = "replay"
  /\ UNCHANGED <<main, files, mainLocal, wposition, flags, history>>

(* Deserialize looks at cancel before each entry: never in an empty base. *)
WorkerLoadCancelled ==
  /\ worker = "load"
  /\ cancel
  /\ base \notin {Absent, EmptyDatabase}
  /\ worker' = "clear"
  /\ UNCHANGED <<main, files, mainLocal, copy, wposition, flags, history>>

(* A damaged base is set aside unless cancel is set by then. *)
WorkerFindsDamage ==
  /\ worker = "load"
  /\ base = Damaged
  /\ ~cancel
  /\ base' = Absent /\ corrupted' = "base"
  /\ worker' = "clear"
  /\ UNCHANGED <<main, closed, journal, snapshot, mainLocal, copy, wposition,
                 flags, history>>

(* Deserialize may as well throw: nothing in the thread catches it. *)
WorkerThrows ==
  /\ worker = "load"
  /\ base = Damaged
  /\ ProcessEnds
  /\ UNCHANGED <<files, history>>

WorkerReplays ==
  /\ worker = "replay"
  /\ wposition < Len(closed)
  /\ ~Throws(copy, closed[wposition + 1])
  /\ copy' = Effect(copy, closed[wposition + 1])
  /\ wposition' = wposition + 1
  /\ UNCHANGED <<main, files, mainLocal, worker, flags, history>>

WorkerReplayFails ==
  /\ worker = "replay"
  /\ wposition < Len(closed)
  /\ Throws(copy, closed[wposition + 1])
  /\ closed' = Absent /\ corrupted' = "closed" /\ rotated' = <<>>
  /\ worker' = "clear"
  /\ UNCHANGED <<main, base, journal, snapshot, mainLocal, copy, wposition,
                 flags, promised, cut>>

(* Mutants: the check after the replay is missing; it returns without      *)
(* clearing the flag.                                                      *)
WorkerIgnoresCancel ==
  /\ worker = "check"
  /\ worker' = "write"
  /\ UNCHANGED <<main, files, mainLocal, copy, wposition, flags, history>>

WorkerForgetsFlag ==
  /\ worker = "check"
  /\ worker' = IF cancel THEN "finished" ELSE "write"
  /\ UNCHANGED <<main, files, mainLocal, copy, wposition, flags, history>>

(* Mutant: a cancelled replay waits instead of returning. *)
WorkerReplayHangs ==
  /\ worker = "replay"
  /\ wposition = Len(closed) /\ ~cancel
  /\ worker' = "check"
  /\ UNCHANGED <<main, files, mainLocal, copy, wposition, flags, history>>

(* Replay returns at the end, or before a record once cancel is set. *)
WorkerReplayReturns ==
  /\ worker = "replay"
  /\ wposition = Len(closed) \/ cancel
  /\ worker' = "check"
  /\ UNCHANGED <<main, files, mainLocal, copy, wposition, flags, history>>

WorkerChecksCancel ==
  /\ worker = "check"
  /\ worker' = IF cancel THEN "clear" ELSE "write"
  /\ UNCHANGED <<main, files, mainLocal, copy, wposition, flags, history>>

WorkerBeginsSnapshot ==
  /\ worker = "write"
  /\ snapshot' = Damaged
  /\ worker' = "writing"
  /\ UNCHANGED <<main, base, closed, journal, corrupted, mainLocal, copy,
                 wposition, flags, history>>

WorkerEndsSnapshot ==
  /\ worker = "writing"
  /\ \/ snapshot' = copy
     \/ "unnoticed" \in WriteFaults /\ UNCHANGED snapshot
  /\ worker' = "install"
  /\ UNCHANGED <<main, base, closed, journal, corrupted, mainLocal, copy,
                 wposition, flags, history>>

(* Mutant: the wrong file is renamed onto base. *)
WorkerInstallsClosed ==
  /\ worker = "install"
  /\ base' = closed
  /\ snapshot' = Absent
  /\ worker' = "unlink"
  /\ UNCHANGED <<main, closed, journal, corrupted, mainLocal, copy, wposition,
                 flags, history>>

(* Mutant: no return after the snapshot is removed. *)
WorkerDropsAndUnlinks ==
  /\ worker = "writing"
  /\ cancel /\ copy # EmptyDatabase
  /\ snapshot' = Absent
  /\ worker' = "unlink"
  /\ UNCHANGED <<main, base, closed, journal, corrupted, mainLocal, copy,
                 wposition, flags, history>>

(* Serialize gives up when cancelled (it looks before each leaf, so never  *)
(* for an empty tree) or when the stream fails; the snapshot is removed.   *)
WorkerDropsSnapshot ==
  /\ worker = "writing"
  /\ \/ cancel /\ copy # EmptyDatabase
     \/ "reported" \in WriteFaults
  /\ snapshot' = Absent
  /\ worker' = "clear"
  /\ UNCHANGED <<main, base, closed, journal, corrupted, mainLocal, copy,
                 wposition, flags, history>>

(* Mutant: the closed journal is left where it is. *)
WorkerKeepsClosed ==
  /\ worker = "unlink"
  /\ worker' = "clear"
  /\ UNCHANGED <<main, files, mainLocal, copy, wposition, flags, history>>

WorkerInstalls ==
  /\ worker = "install"
  /\ base' = snapshot
  /\ snapshot' = Absent
  /\ worker' = "unlink"
  /\ UNCHANGED <<main, closed, journal, corrupted, mainLocal, copy, wposition,
                 flags, history>>

WorkerUnlinks ==
  /\ worker = "unlink"
  /\ closed' = Absent /\ rotated' = <<>>
  /\ worker' = "clear"
  /\ UNCHANGED <<main, base, journal, snapshot, corrupted, mainLocal, copy,
                 wposition, flags, promised, cut>>

(* Mutant: the flag stays set. *)
WorkerLeavesFlag ==
  /\ worker = "clear"
  /\ worker' = "finished"
  /\ copy' = EmptyDatabase /\ wposition' = 0
  /\ UNCHANGED <<main, files, mainLocal, flags, history>>

(* The thread ends, its tree with it. *)
WorkerClears ==
  /\ worker = "clear"
  /\ inProgress' = FALSE
  /\ worker' = "finished"
  /\ copy' = EmptyDatabase /\ wposition' = 0
  /\ UNCHANGED <<main, files, mainLocal, cancel, history>>

Worker ==
  \/ WorkerLoads \/ WorkerLoadCancelled \/ WorkerFindsDamage \/ WorkerThrows
  \/ WorkerReplays \/ WorkerReplayFails \/ WorkerReplayReturns
  \/ WorkerChecksCancel \/ WorkerBeginsSnapshot \/ WorkerEndsSnapshot
  \/ WorkerDropsSnapshot \/ WorkerInstalls \/ WorkerUnlinks \/ WorkerClears

(***************************************************************************)
(* The process is killed (script/kill-daemon.sh sends SIGKILL), or aborts  *)
(* on an exception nobody catches, as when Append fails.  What was flushed *)
(* to a file stays; the journal's last record may be cut short.            *)
(***************************************************************************)
BothWaitToBeUnlinked ==
  main = "unlinkclosed" /\ replayed = {"closed", "journal"}

Crash ==
  /\ Crashes
  /\ main # "down"
  /\ BothWaitToBeUnlinked => CleanupCrashes
  /\ ProcessEnds
  /\ UNCHANGED <<files, history>>

CrashInAppend(r) ==
  /\ Crashes /\ TornAppends
  /\ main \in Handling
  /\ MayWrite(r)
  /\ Len(journal) < MaxJournal
  /\ journal' = Append(journal, [r EXCEPT !.op = "torn"])
  /\ cut' = TRUE
  /\ ProcessEnds
  /\ UNCHANGED <<base, closed, snapshot, corrupted, promised, rotated>>

Next ==
  \/ Initialize \/ Request \/ Tick \/ Rollover \/ Shutdown \/ Worker
  \/ Crash \/ \E r \in Record : CrashInAppend(r)

Spec == Init /\ [][Next]_vars

(***************************************************************************)
(* Threads that can run do run.  The timer fires every ten seconds and the *)
(* loop serves it between two requests, so a tick that is possible again   *)
(* and again happens.  Nothing makes a request, a stop, a kill or the next *)
(* start happen.                                                           *)
(***************************************************************************)
Startup == main # "down" /\ Initialize
Handler == ApplyRecord \/ Answer \/ Rollover
Join == main = "joining" /\ FinishShutdown

Fairness ==
  /\ WF_vars(Startup) /\ WF_vars(Handler) /\ WF_vars(Join)
  /\ WF_vars(Worker) /\ SF_vars(Tick)

FairSpec == Spec /\ Fairness

(***************************************************************************)
(* Properties                                                              *)
(***************************************************************************)
(* The states of every variable (include/service.h, the members of         *)
(* DocumentDatabase, and the files they name).                             *)
TypeOK ==
  /\ main \in MainStates /\ worker \in WorkerStates
  /\ base \in Databases \cup {Absent, Damaged}
  /\ snapshot \in Databases \cup {Absent, Damaged}
  /\ closed \in Seq(Record) \cup {Absent}
  /\ journal \in Seq(Record) \cup {Absent}
  /\ corrupted \in {"none", "base", "closed", "journal"}
  /\ database \in Databases /\ copy \in Databases
  /\ replayed \subseteq {"closed", "journal"}
  /\ position \in Nat /\ wposition \in Nat
  /\ inProgress \in BOOLEAN /\ cancel \in BOOLEAN
  /\ promised \in Seq(Databases) /\ promised # <<>>
  /\ rotated \in Seq(Databases) /\ cut \in BOOLEAN

(* Durability: whatever was killed, rotated, merged or cancelled before, a *)
(* database that is loaded is the one the last complete journal record led *)
(* to, so every change whose handler answered is in it.  The exception is  *)
(* a journal whose last record was cut short: Replay gives up the whole    *)
(* file, and the database is the one before its first record (Initialize   *)
(* and Rollover of source/service.cc, include/journal.h).                  *)
Durable ==
  Loaded => database = IF cut THEN promised[1] ELSE promised[Len(promised)]

(* What a user expects of a store that persists to a journal (README.md,   *)
(* "Storage Persistence"): every answered change survives, also when the   *)
(* process is killed while it writes the next one.                         *)
AnswersSurvive == Loaded => database = promised[Len(promised)]

(* The closed journal is removed, set aside or overwritten only when base  *)
(* already holds what its records did (RotateJournal renames onto it, the  *)
(* worker and Initialize remove it or rename it to .corrupted).            *)
ClosedGoesOnlyOnceMerged ==
  [][closed # Absent /\ closed' # closed
       => BaseValue \in {promised[1], promised[Len(promised)]}]_vars

(* rollover_in_progress_ is true exactly while the worker may still touch  *)
(* a file: whenever a tick gets past it, the join of Rollover returns and  *)
(* the main thread has the files to itself.                                *)
FlagTellsTheWorker == inProgress <=> worker \notin {"none", "finished"}

(* Shutdown never waits for ever in join: wherever the worker is when it   *)
(* is told to stop, the process ends.                                      *)
ShutdownCompletes == main = "joining" ~> main = "down"

(* A rotated journal does not stay: the worker merges it or, when it had   *)
(* been merged before a kill, the next start gets rid of it.               *)
RolloverCompletes == closed # Absent ~> (closed = Absent \/ main = "down")

(* A journal that has outgrown the base is rotated by some later tick,     *)
(* unless the process ends or a rollover under way makes the base grow.    *)
GrownJournalIsRotated ==
  (main = "serving" /\ RotationDue)
    ~> \/ main \in {"rotating", "down"}
       \/ main = "serving" /\ ~RotationDue
=============================================================================
