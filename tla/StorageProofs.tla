--------------------------- MODULE StorageProofs ---------------------------
(***************************************************************************)
(* Proofs about Storage, for every set of keys and documents, every size   *)
(* of a document and every bound: the types, the flag of the worker, and   *)
(* that nothing is lost: if no snapshot write fails and the process is not *)
(* killed while both journals wait to be unlinked, a loaded database is    *)
(* what the journal promised, whatever else is killed or cut short.        *)
(***************************************************************************)
EXTENDS StorageInvariant, TLAPS

USE DocsAssumption, SizeAssumption, StorageAssumption

(* What a record makes of a database is a database. *)
LEMMA EffectType ==
  ASSUME NEW db \in Databases, NEW r \in Record
  PROVE  Effect(db, r) \in Databases
BY DEF Databases, Effect, Record

LEMMA EmptyType == EmptyDatabase \in Databases
BY DEF Databases, EmptyDatabase

LEMMA NewJournal == <<>> \in Seq(Record) /\ <<>> # Absent
<1>1. <<>> \in Seq(Record)
  OBVIOUS
<1> QED BY <1>1

LEMMA AppendType ==
  ASSUME NEW S, NEW s \in Seq(S), NEW e \in S
  PROVE  /\ Append(s, e) \in Seq(S) /\ Append(s, e) # <<>>
         /\ Len(Append(s, e)) = Len(s) + 1
         /\ Append(s, e)[Len(s) + 1] = e
         /\ \A i \in 1..Len(s) : Append(s, e)[i] = s[i]
OBVIOUS

LEMMA OneState ==
  ASSUME NEW db \in Databases
  PROVE  /\ <<db>> \in Seq(Databases) /\ <<db>> # <<>>
         /\ Len(<<db>>) = 1 /\ <<db>>[1] = db
OBVIOUS

(* The parts of the invariant that hold with every fault. *)
Shape == TypeOK /\ Threads

LEMMA ShapeInit == Init => Shape
<1> SUFFICES ASSUME Init PROVE Shape
  OBVIOUS
<1>1. promised \in Seq(Databases) /\ promised # <<>>
  BY EmptyType DEF Init
<1>2. rotated \in Seq(Databases)
  BY DEF Init
<1>3. TypeOK
  BY EmptyType, <1>1, <1>2 DEF Init, TypeOK, MainStates, WorkerStates, Starting
<1>4. Threads
  BY DEF Init, Threads, FlagTellsTheWorker, Busy, Running, Handling
<1> QED BY <1>3, <1>4 DEF Shape

LEMMA ShapeEnds ==
  ASSUME Shape, ProcessEnds, UNCHANGED <<promised, rotated, cut>>,
         base' \in Databases \cup {Absent, Damaged},
         snapshot' \in Databases \cup {Absent, Damaged},
         closed' \in Seq(Record) \cup {Absent},
         journal' \in Seq(Record) \cup {Absent},
         corrupted' \in {"none", "base", "closed", "journal"}
  PROVE  Shape'
BY EmptyType DEF Shape, ProcessEnds, TypeOK, Threads, FlagTellsTheWorker,
   MainStates, WorkerStates, Busy, Running, Handling, Starting

(* The steps of Initialize touch no thread but the main one. *)
LEMMA ShapeInitialize == Shape /\ Initialize => Shape'
<1> SUFFICES ASSUME Shape, Initialize PROVE Shape'
  OBVIOUS
<1> USE DEF Shape, Threads, FlagTellsTheWorker, MainStates, WorkerStates, Busy,
            Running, Handling, Starting, files, mainLocal, workerLocal, flags,
            history
<1>1. CASE Start
  BY <1>1 DEF Start, TypeOK
<1>2. CASE LoadBase
  BY <1>2, EmptyType DEF LoadBase, BaseValue, TypeOK
<1>3. CASE LoadDamagedBase
  BY <1>3, ShapeEnds DEF LoadDamagedBase, TypeOK
<1>4. CASE SkipMissingJournal
  BY <1>4 DEF SkipMissingJournal, AfterReplay, TypeOK
<1>5. CASE ReplayRecord
  <2>1. Replaying \in Seq(Record)
    BY <1>5 DEF ReplayRecord, Replaying, TypeOK
  <2>2. Replaying[position + 1] \in Record
    BY <1>5, <2>1 DEF ReplayRecord, TypeOK
  <2>3. database' \in Databases
    BY <1>5, <2>2, EffectType DEF ReplayRecord, TypeOK
  <2> QED BY <1>5, <2>3 DEF ReplayRecord, TypeOK
<1>6. CASE ReplayFails
  BY <1>6, ShapeEnds DEF ReplayFails, TypeOK
<1>7. CASE ReplayDone
  BY <1>7 DEF ReplayDone, AfterReplay, TypeOK
<1>8. CASE NothingToRollOver
  BY <1>8 DEF NothingToRollOver, TypeOK
<1>9. CASE BeginSnapshot
  BY <1>9 DEF BeginSnapshot, TypeOK
<1>10. CASE EndSnapshot
  BY <1>10 DEF EndSnapshot, TypeOK
<1>11. CASE SnapshotFails
  BY <1>11, ShapeEnds DEF SnapshotFails, TypeOK
<1>12. CASE InstallSnapshot
  BY <1>12 DEF InstallSnapshot, TypeOK
<1>13. CASE UnlinkClosed
  BY <1>13 DEF UnlinkClosed, TypeOK
<1>14. CASE UnlinkJournal
  BY <1>14 DEF UnlinkJournal, TypeOK
<1>15. CASE OpenJournal
  <2>1. /\ promised' \in Seq(Databases) /\ promised' # <<>>
        /\ rotated' \in Seq(Databases)
    <3>1. database \in Databases /\ promised' = <<database>> /\ rotated' = <<>>
      BY <1>15 DEF OpenJournal, TypeOK
    <3> QED BY <3>1, OneState
  <2> QED BY <1>15, <2>1, NewJournal DEF OpenJournal, TypeOK
<1> QED
  BY <1>1, <1>2, <1>3, <1>4, <1>5, <1>6, <1>7, <1>8, <1>9, <1>10, <1>11,
     <1>12, <1>13, <1>14, <1>15 DEF Initialize

(* Handlers, timer and shutdown on the main thread. *)
LEMMA ShapeServing == Shape /\ (Request \/ Tick \/ Rollover \/ Shutdown) => Shape'
<1> SUFFICES ASSUME Shape, Request \/ Tick \/ Rollover \/ Shutdown PROVE Shape'
  OBVIOUS
<1> USE DEF Shape, Threads, FlagTellsTheWorker, MainStates, WorkerStates, Busy,
            Running, Handling, Starting, files, mainLocal, workerLocal, flags,
            history
<1>1. ASSUME NEW op \in Handling, Receive(op) PROVE Shape'
  BY <1>1 DEF Receive, TypeOK
<1>2. ASSUME NEW r \in Record, AppendRecord(r) PROVE Shape'
  <2>1. journal \in Seq(Record)
    BY <1>2 DEF AppendRecord, TypeOK
  <2>2. /\ journal' \in Seq(Record) /\ journal' # <<>>
        /\ journal'[Len(journal')] = r
    BY <1>2, <2>1 DEF AppendRecord
  <2>3. promised' \in Seq(Databases) /\ promised' # <<>>
    <3>1. promised \in Seq(Databases) /\ Effect(database, r) \in Databases
      BY EffectType DEF TypeOK
    <3>2. promised' = Append(promised, Effect(database, r))
      BY <1>2 DEF AppendRecord
    <3> QED BY <3>1, <3>2, AppendType
  <2>4. r.op \in Handling
    BY <1>2 DEF AppendRecord, MayWrite
  <2>5. journal' # Absent
    BY <2>2
  <2> QED BY <1>2, <2>2, <2>3, <2>4, <2>5 DEF AppendRecord, TypeOK
<1>3. CASE ApplyRecord
  <2>1. journal \in Seq(Record) /\ journal[Len(journal)] \in Record
    BY <1>3 DEF ApplyRecord, TypeOK
  <2>2. database' \in Databases
    BY <1>3, <2>1, EffectType DEF ApplyRecord, TypeOK
  <2> QED BY <1>3, <2>2 DEF ApplyRecord, TypeOK
<1>4. CASE Answer
  BY <1>4 DEF Answer, TypeOK
<1>5. CASE TickRotates
  <2>1. promised[Len(promised)] \in Databases
    BY DEF TypeOK
  <2>2. promised' \in Seq(Databases) /\ promised' # <<>>
    BY <1>5, <2>1, OneState DEF TickRotates
  <2> QED BY <1>5, <2>2 DEF TickRotates, TypeOK
<1>6. CASE TickKeeps
  BY <1>6 DEF TickKeeps, TypeOK
<1>7. CASE ReopenJournal
  <2> QED BY <1>7, NewJournal DEF ReopenJournal, TypeOK
<1>8. CASE LaunchWorker
  BY <1>8, EmptyType DEF LaunchWorker, TypeOK
<1>9. CASE NothingToLaunch
  BY <1>9 DEF NothingToLaunch, TypeOK
<1>10. CASE BeginShutdown
  BY <1>10 DEF BeginShutdown, TypeOK
<1>11. CASE FinishShutdown
  BY <1>11, ShapeEnds DEF FinishShutdown, TypeOK
<1> QED
  BY <1>1, <1>2, <1>3, <1>4, <1>5, <1>6, <1>7, <1>8, <1>9, <1>10, <1>11
  DEF Request, Tick, Rollover, Shutdown

(* The steps of the worker. *)
LEMMA ShapeWorker == Shape /\ Worker => Shape'
<1> SUFFICES ASSUME Shape, Worker PROVE Shape'
  OBVIOUS
<1> USE DEF Shape, Threads, FlagTellsTheWorker, MainStates, WorkerStates, Busy,
            Running, Handling, Starting, files, mainLocal, workerLocal, flags,
            history
<1>1. CASE WorkerLoads
  BY <1>1, EmptyType DEF WorkerLoads, BaseValue, TypeOK
<1>2. CASE WorkerLoadCancelled
  BY <1>2 DEF WorkerLoadCancelled, TypeOK
<1>3. CASE WorkerFindsDamage
  BY <1>3 DEF WorkerFindsDamage, TypeOK
<1>4. CASE WorkerThrows
  BY <1>4, ShapeEnds DEF WorkerThrows, TypeOK
<1>5. CASE WorkerReplays
  <2>1. closed \in Seq(Record) /\ closed[wposition + 1] \in Record
    BY <1>5 DEF WorkerReplays, TypeOK
  <2>2. copy' \in Databases
    BY <1>5, <2>1, EffectType DEF WorkerReplays, TypeOK
  <2> QED BY <1>5, <2>2 DEF WorkerReplays, TypeOK
<1>6. CASE WorkerReplayFails
  BY <1>6 DEF WorkerReplayFails, TypeOK
<1>7. CASE WorkerReplayReturns
  BY <1>7 DEF WorkerReplayReturns, TypeOK
<1>8. CASE WorkerChecksCancel
  BY <1>8 DEF WorkerChecksCancel, TypeOK
<1>9. CASE WorkerBeginsSnapshot
  BY <1>9 DEF WorkerBeginsSnapshot, TypeOK
<1>10. CASE WorkerEndsSnapshot
  BY <1>10 DEF WorkerEndsSnapshot, TypeOK
<1>11. CASE WorkerDropsSnapshot
  BY <1>11 DEF WorkerDropsSnapshot, TypeOK
<1>12. CASE WorkerInstalls
  BY <1>12 DEF WorkerInstalls, TypeOK
<1>13. CASE WorkerUnlinks
  BY <1>13 DEF WorkerUnlinks, TypeOK
<1>14. CASE WorkerClears
  <2>1. TypeOK'
    <3>1. /\ worker' = "finished" /\ copy' = EmptyDatabase /\ wposition' = 0
          /\ main' = main /\ cancel' = cancel
      BY <1>14 DEF WorkerClears
    <3>2. inProgress' \in BOOLEAN
      BY <1>14 DEF WorkerClears
    <3>3. /\ base' = base /\ closed' = closed /\ journal' = journal
          /\ snapshot' = snapshot /\ corrupted' = corrupted
          /\ database' = database /\ replayed' = replayed /\ position' = position
          /\ promised' = promised /\ rotated' = rotated /\ cut' = cut
      BY <1>14 DEF WorkerClears
    <3>4. worker' \in WorkerStates /\ copy' \in Databases /\ wposition' \in Nat
      BY <3>1, EmptyType
    <3>5. TypeOK
      OBVIOUS
    <3> HIDE DEF Shape, FlagTellsTheWorker, Threads, WorkerClears, Busy
    <3> QED BY <3>1, <3>2, <3>3, <3>4, <3>5 DEF TypeOK
  <2>2. Threads'
    BY <1>14 DEF WorkerClears
  <2> QED BY <2>1, <2>2
<1> QED
  BY <1>1, <1>2, <1>3, <1>4, <1>5, <1>6, <1>7, <1>8, <1>9, <1>10, <1>11,
     <1>12, <1>13, <1>14 DEF Worker

(* Being killed. *)
LEMMA ShapeKill ==
  Shape /\ (Crash \/ \E r \in Record : CrashInAppend(r)) => Shape'
<1>1. ASSUME Shape, Crash PROVE Shape'
  BY <1>1, ShapeEnds DEF Shape, Crash, TypeOK, files, history
<1>2. ASSUME Shape, NEW r \in Record, CrashInAppend(r) PROVE Shape'
  <2>1. journal \in Seq(Record)
    BY <1>2 DEF Shape, TypeOK, Threads, CrashInAppend, Running, Handling
  <2>2. [r EXCEPT !.op = "torn"] \in Record
    BY DEF Record
  <2>3. journal' \in Seq(Record)
    BY <1>2, <2>1, <2>2 DEF CrashInAppend
  <2> QED
    BY <1>2, <2>3, EmptyType DEF Shape, CrashInAppend, ProcessEnds, TypeOK,
       Threads, FlagTellsTheWorker, MainStates, WorkerStates, Busy, Running,
       Handling, Starting
<1> QED BY <1>1, <1>2

LEMMA ShapeNext == Shape /\ [Next]_vars => Shape'
<1>1. Shape /\ UNCHANGED vars => Shape'
  BY DEF Shape, TypeOK, Threads, FlagTellsTheWorker, vars, files, mainLocal,
     workerLocal, flags, history
<1> QED
  BY <1>1, ShapeInitialize, ShapeServing, ShapeWorker, ShapeKill DEF Next

(* Every variable keeps its type, whatever is killed or fails (the members *)
(* and files of DocumentDatabase, source/service.cc).                      *)
THEOREM TypeCorrect == Spec => []TypeOK
<1>1. Shape => TypeOK
  BY DEF Shape
<1> QED BY <1>1, ShapeInit, ShapeNext, PTL DEF Spec

(* The flag rollover_in_progress_ tells where the worker is, on every path *)
(* out of it (the lambda of Rollover, source/service.cc).                  *)
THEOREM FlagCorrect == Spec => []FlagTellsTheWorker
<1>1. Shape => FlagTellsTheWorker
  BY DEF Shape, Threads
<1> QED BY <1>1, ShapeInit, ShapeNext, PTL DEF Spec

(***************************************************************************)
(* What the journal promised is what is loaded.                            *)
(***************************************************************************)
HIDE SizeAssumption

NoLoss == ~CleanupCrashes /\ WriteFaults = {}

(***************************************************************************)
(* Lists of states that records lead through.                              *)
(***************************************************************************)
(* One replayed record is one step along the list. *)
LEMMA WalkStep ==
  ASSUME NEW states \in Seq(Databases), NEW records, NEW p \in Nat,
         Walk(states, records), p + 1 < Len(states)
  PROVE  /\ p + 1 \in 1..Len(records)
         /\ ~Throws(states[p + 1], records[p + 1])
         /\ states[p + 2] = Effect(states[p + 1], records[p + 1])
<1>1. p + 1 \in 1..(Len(states) - 1)
  OBVIOUS
<1> QED BY <1>1 DEF Walk

(* A record appended to the file takes the list one state further. *)
LEMMA WalkAppend ==
  ASSUME NEW states \in Seq(Databases), NEW records \in Seq(Record),
         NEW r \in Record, Walk(states, records),
         Len(states) = Len(records) + 1, ~Throws(states[Len(states)], r)
  PROVE  Walk(Append(states, Effect(states[Len(states)], r)), Append(records, r))
<1> DEFINE last == states[Len(states)]
           next == Append(states, Effect(last, r))
           longer == Append(records, r)
<1>1. last \in Databases /\ Effect(last, r) \in Databases
  BY EffectType
<1>2. /\ Len(next) = Len(states) + 1 /\ next[Len(states) + 1] = Effect(last, r)
      /\ \A i \in 1..Len(states) : next[i] = states[i]
  BY <1>1, AppendType
<1>3. /\ Len(longer) = Len(records) + 1 /\ longer[Len(records) + 1] = r
      /\ \A i \in 1..Len(records) : longer[i] = records[i]
  BY AppendType
<1>4. ASSUME NEW i \in 1..(Len(next) - 1)
      PROVE  /\ i \in 1..Len(longer)
             /\ ~Throws(next[i], longer[i])
             /\ next[i + 1] = Effect(next[i], longer[i])
  <2>1. CASE i = Len(states)
    BY <1>2, <1>3, <2>1
  <2>2. CASE i # Len(states)
    <3>1. i \in 1..(Len(states) - 1) /\ i \in 1..Len(records) /\ i \in 1..Len(states)
          /\ i + 1 \in 1..Len(states) /\ i \in 1..Len(longer)
      BY <1>2, <1>3, <2>2
    <3>2. ~Throws(states[i], records[i]) /\ states[i + 1] = Effect(states[i], records[i])
      BY <3>1 DEF Walk
    <3> QED BY <1>2, <1>3, <3>1, <3>2
  <2> QED BY <2>1, <2>2
<1> QED BY <1>4 DEF Walk

(* A record that was cut short leaves the list as it is. *)
LEMMA WalkCut ==
  ASSUME NEW states \in Seq(Databases), NEW records \in Seq(Record),
         NEW r \in Record, Walk(states, records)
  PROVE  Walk(states, Append(records, r))
<1>1. /\ Len(Append(records, r)) = Len(records) + 1
      /\ \A i \in 1..Len(records) : Append(records, r)[i] = records[i]
  BY AppendType
<1> QED BY <1>1 DEF Walk

LEMMA WalkOne ==
  ASSUME NEW db \in Databases, NEW records
  PROVE  Walk(<<db>>, records)
BY OneState DEF Walk

(***************************************************************************)
(* Replaying a file over the state its records end in.                     *)
(***************************************************************************)
LEMMA OverlayStart ==
  ASSUME NEW states, NEW records
  PROVE  Overlay(states[Len(states)], states, records, 0)
BY DEF Overlay

LEMMA OverlayStep ==
  ASSUME NEW db \in Databases, NEW states \in Seq(Databases),
         NEW records \in Seq(Record), NEW p \in Nat,
         Walk(states, records), p + 1 < Len(states),
         Overlay(db, states, records, p)
  PROVE  Overlay(Effect(db, records[p + 1]), states, records, p + 1)
<1> DEFINE r == records[p + 1]
<1>1. /\ p + 1 \in 1..Len(records) /\ r \in Record
      /\ states[p + 1] \in Databases
      /\ states[p + 2] = Effect(states[p + 1], r)
  BY WalkStep
<1> SUFFICES ASSUME NEW k \in Keys
             PROVE  Effect(db, r)[k]
                      = IF \E i \in 1..(p + 1) : records[i].key = k
                        THEN states[p + 2][k] ELSE states[Len(states)][k]
  BY DEF Overlay
<1>2. CASE k = r.key
  <2>1. \E i \in 1..(p + 1) : records[i].key = k
    BY <1>2
  <2>2. Effect(db, r)[k] = Effect(states[p + 1], r)[k]
    BY <1>1, <1>2 DEF Effect, Databases
  <2> QED BY <1>1, <2>1, <2>2
<1>3. CASE k # r.key
  <2>1. Effect(db, r)[k] = db[k] /\ states[p + 2][k] = states[p + 1][k]
    BY <1>1, <1>3 DEF Effect, Databases
  <2>2. (\E i \in 1..(p + 1) : records[i].key = k)
          <=> (\E i \in 1..p : records[i].key = k)
    BY <1>3
  <2> QED BY <2>1, <2>2 DEF Overlay
<1> QED BY <1>2, <1>3

LEMMA OverlayEnd ==
  ASSUME NEW db \in Databases, NEW states \in Seq(Databases), NEW records,
         states # <<>>, Overlay(db, states, records, Len(states) - 1)
  PROVE  db = states[Len(states)]
<1>1. states[Len(states)] \in Databases
  OBVIOUS
<1>2. \A k \in Keys : db[k] = states[Len(states)][k]
  BY DEF Overlay
<1> QED BY <1>1, <1>2 DEF Databases

(***************************************************************************)
(* The inductive step, by thread.                                          *)
(***************************************************************************)
Disk == base # Damaged /\ ClosedFile /\ JournalFile /\ NoJournalFile /\ BaseFile
Progress == Replays /\ Merges /\ Serves /\ Works

LEMMA IInvParts == /\ IInv <=> Shape /\ Disk /\ Progress
                   /\ IInv' <=> Shape' /\ Disk' /\ Progress'
BY DEF IInv, Shape, Disk, Progress

LEMMA InvInit == Init => IInv
<1> SUFFICES ASSUME Init PROVE IInv
  OBVIOUS
<1>1. Shape
  BY ShapeInit
<1>2. base = Absent /\ closed = Absent /\ journal = Absent /\ cut = FALSE
  BY DEF Init
<1>3. promised[1] = EmptyDatabase /\ promised[Len(promised)] = EmptyDatabase
  BY OneState, EmptyType DEF Init
<1>4. Disk
  BY <1>2, <1>3
  DEF Disk, ClosedFile, JournalFile, NoJournalFile, BaseFile, BaseValue, Target,
      Head1, Latest
<1>5. Progress
  BY DEF Init, Progress, Replays, Merges, Serves, Works, AfterClosed,
         AfterJournal, Running, Handling
<1> QED BY <1>1, <1>4, <1>5, IInvParts

(* When the process ends, only what the files say has to hold. *)
LEMMA ProgressEnds == ProcessEnds => Progress'
BY DEF ProcessEnds, Progress, Replays, Merges, Serves, Works, AfterClosed,
       AfterJournal, Running, Handling

(* Loading base. *)
LEMMA InvLoad == IInv /\ (Start \/ LoadBase) => (Disk /\ Progress)'
<1> SUFFICES ASSUME IInv, Start \/ LoadBase PROVE (Disk /\ Progress)'
  OBVIOUS
<1> USE DEF files, mainLocal, workerLocal, flags, history
<1>1. Disk'
  BY DEF IInv, Start, LoadBase, Disk, ClosedFile, JournalFile, NoJournalFile,
         BaseFile, BaseValue, Target, Head1, Latest
<1>2. Replays'
  <2>1. CASE Start
    BY <2>1 DEF IInv, Start, Replays, AfterClosed, AfterJournal
  <2>2. CASE LoadBase
    <3>1. database' = BaseValue'
      BY <2>2 DEF LoadBase, BaseValue
    <3>2. closed # Absent =>
            \/ database' = rotated[1]
            \/ BaseValue' = Head1' /\ Overlay(database', rotated, closed, 0)
      BY <2>2, <3>1, OverlayStart
      DEF IInv, LoadBase, BaseFile, ClosedFile, BaseValue, Head1
    <3> QED
      BY <2>2, <3>1, <3>2
      DEF IInv, LoadBase, Replays, AfterClosed, AfterJournal, TypeOK, Head1
  <2> QED BY <2>1, <2>2
<1>3. Merges' /\ Serves' /\ Works'
  BY DEF IInv, Start, LoadBase, Merges, Serves, Works, AfterJournal, Running,
         Handling, Threads
<1> QED BY <1>1, <1>2, <1>3 DEF Disk, Progress

(* From one journal to the next: a file that does not exist is skipped. *)
LEMMA InvSkip == IInv /\ SkipMissingJournal => (Disk /\ Progress)'
<1> SUFFICES ASSUME IInv, SkipMissingJournal PROVE (Disk /\ Progress)'
  OBVIOUS
<1> USE DEF files, mainLocal, workerLocal, flags, history
<1>1. Disk'
  BY DEF IInv, SkipMissingJournal, AfterReplay, Disk, ClosedFile, JournalFile,
         NoJournalFile, BaseFile, BaseValue, Target, Head1, Latest
<1>2. CASE main = "closed"
  <2>1. closed = Absent /\ database = BaseValue /\ position = 0 /\ replayed = {}
    BY <1>2 DEF IInv, SkipMissingJournal, Replaying, Replays
  <2>2. database \in {Head1, Target}
    BY <2>1 DEF IInv, BaseFile
  <2>3. journal = Absent => database = Target
    BY <2>1, <2>2 DEF IInv, NoJournalFile
  <2>4. journal # Absent =>
          \/ database = promised[1]
          \/ ~cut /\ Overlay(database, promised, journal, 0)
    BY <2>2, OverlayStart DEF Target, Head1, Latest
  <2>5. 0 < Len(promised)
    BY DEF IInv, TypeOK
  <2>6. Replays'
    BY <1>2, <2>1, <2>2, <2>3, <2>4, <2>5
    DEF SkipMissingJournal, AfterReplay, Replays, AfterClosed, AfterJournal,
        BaseValue, Target, Head1, Latest
  <2>7. Merges' /\ Serves' /\ Works'
    BY <1>2 DEF IInv, SkipMissingJournal, AfterReplay, Merges, Serves, Works,
                AfterJournal, Running, Handling, Threads
  <2> QED BY <1>1, <2>6, <2>7 DEF Disk, Progress
<1>3. CASE main = "journal"
  <2>1. /\ journal = Absent /\ database = Target /\ position = 0
        /\ "journal" \notin replayed /\ ("closed" \in replayed <=> closed # Absent)
    BY <1>3 DEF IInv, SkipMissingJournal, Replaying, Replays, AfterClosed
  <2>2. Replays'
    BY <1>3, <2>1
    DEF SkipMissingJournal, AfterReplay, Replays, AfterClosed, AfterJournal
  <2>3. Merges' /\ Serves' /\ Works'
    BY <1>3, <2>1
    DEF IInv, SkipMissingJournal, AfterReplay, Merges, Serves, Works,
        AfterJournal, Running, Handling, Threads, Target, Head1, Latest
  <2> QED BY <1>1, <2>2, <2>3 DEF Disk, Progress
<1> QED BY <1>2, <1>3 DEF SkipMissingJournal

(* One replayed record: along the list, or through the overlay. *)
LEMMA InvReplayRecord == IInv /\ ReplayRecord => (Disk /\ Progress)'
<1> SUFFICES ASSUME IInv, ReplayRecord PROVE (Disk /\ Progress)'
  OBVIOUS
<1> USE DEF files, mainLocal, workerLocal, flags, history
<1>1. Disk'
  BY DEF IInv, ReplayRecord, Disk, ClosedFile, JournalFile, NoJournalFile,
         BaseFile, BaseValue, Target, Head1, Latest
<1>2. Merges' /\ Serves' /\ Works'
  BY DEF IInv, ReplayRecord, Merges, Serves, Works, AfterJournal, Running,
         Handling, Threads
<1>3. database \in Databases /\ position \in Nat
      /\ promised \in Seq(Databases) /\ rotated \in Seq(Databases)
  BY DEF IInv, TypeOK
<1>4. CASE main = "closed"
  <2>1. /\ closed # Absent /\ closed \in Seq(Record) /\ position < Len(closed)
        /\ database' = Effect(database, closed[position + 1])
        /\ Walk(rotated, closed) /\ Len(rotated) = Len(closed) + 1
    BY <1>4 DEF IInv, TypeOK, ReplayRecord, Replaying, ClosedFile
  <2>2. CASE database = rotated[position + 1]
    <3>1. database' = rotated[position + 2]
      <4>1. position + 1 < Len(rotated)
        BY <1>3, <2>1
      <4> QED BY <1>3, <2>1, <2>2, <4>1, WalkStep
    <3> QED
      BY <1>1, <1>2, <1>3, <1>4, <2>1, <3>1
      DEF IInv, ReplayRecord, Disk, Progress, Replays, AfterClosed, AfterJournal
  <2>3. CASE BaseValue = Head1 /\ Overlay(database, rotated, closed, position)
    <3>1. Overlay(database', rotated, closed, position + 1)
      BY <1>3, <2>1, <2>3, OverlayStep
    <3>2. BaseValue' = Head1'
      BY <2>3 DEF ReplayRecord, BaseValue, Head1
    <3> QED
      BY <1>1, <1>2, <1>3, <1>4, <2>1, <3>1, <3>2
      DEF IInv, ReplayRecord, Disk, Progress, Replays, AfterClosed, AfterJournal
  <2> QED BY <1>4, <2>1, <2>2, <2>3 DEF IInv, Replays
<1>5. CASE main = "journal"
  <2>1. /\ journal # Absent /\ journal \in Seq(Record) /\ position < Len(journal)
        /\ database' = Effect(database, journal[position + 1])
        /\ ~Throws(database, journal[position + 1])
        /\ Walk(promised, journal) /\ position < Len(promised)
        /\ Len(journal) = IF cut THEN Len(promised) ELSE Len(promised) - 1
        /\ cut => journal[Len(journal)].op = "torn"
    BY <1>5 DEF IInv, TypeOK, ReplayRecord, Replaying, JournalFile, Replays
  <2>2. position + 1 < Len(promised)
    <3>1. CASE cut /\ position + 1 = Len(promised)
      BY <1>3, <2>1, <3>1 DEF Throws
    <3> QED BY <1>3, <2>1, <3>1
  <2>3. CASE database = promised[position + 1]
    <3>1. database' = promised[position + 2]
      BY <1>3, <2>1, <2>2, <2>3, WalkStep
    <3> QED
      BY <1>1, <1>2, <1>3, <1>5, <2>1, <2>2, <3>1
      DEF IInv, ReplayRecord, Disk, Progress, Replays, AfterClosed, AfterJournal
  <2>4. CASE /\ closed = Absent /\ ~cut /\ BaseValue = Target
             /\ Overlay(database, promised, journal, position)
    <3>1. Overlay(database', promised, journal, position + 1)
      BY <1>3, <2>1, <2>2, <2>4, OverlayStep
    <3>2. BaseValue' = Target'
      BY <2>4 DEF ReplayRecord, BaseValue, Target, Head1, Latest
    <3> QED
      BY <1>1, <1>2, <1>3, <1>5, <2>1, <2>2, <2>4, <3>1, <3>2
      DEF IInv, ReplayRecord, Disk, Progress, Replays, AfterClosed, AfterJournal
  <2> QED BY <1>5, <2>1, <2>3, <2>4 DEF IInv, Replays
<1> QED BY <1>4, <1>5 DEF ReplayRecord

(* The end of a file: the database is where the file's list ends. *)
LEMMA InvReplayDone == IInv /\ ReplayDone => (Disk /\ Progress)'
<1> SUFFICES ASSUME IInv, ReplayDone PROVE (Disk /\ Progress)'
  OBVIOUS
<1> USE DEF files, mainLocal, workerLocal, flags, history
<1>1. Disk'
  BY DEF IInv, ReplayDone, AfterReplay, Disk, ClosedFile, JournalFile,
         NoJournalFile, BaseFile, BaseValue, Target, Head1, Latest
<1>2. database \in Databases /\ position \in Nat
      /\ promised \in Seq(Databases) /\ promised # <<>>
      /\ rotated \in Seq(Databases)
  BY DEF IInv, TypeOK
<1>3. CASE main = "closed"
  <2>1. /\ closed # Absent /\ position = Len(closed)
        /\ Len(rotated) = Len(closed) + 1 /\ rotated[Len(rotated)] = Head1
        /\ closed \in Seq(Record)
    BY <1>3 DEF IInv, TypeOK, ReplayDone, Replaying, ClosedFile
  <2>2. database = Head1
    <3>1. CASE database = rotated[position + 1]
      BY <2>1, <3>1
    <3>2. CASE Overlay(database, rotated, closed, position)
      BY <1>2, <2>1, <3>2, OverlayEnd
    <3> QED BY <1>3, <2>1, <3>1, <3>2 DEF IInv, Replays
  <2>3. journal = Absent => Target = Head1
    BY <2>1 DEF IInv, NoJournalFile
  <2>4. Replays'
    BY <1>2, <1>3, <2>1, <2>2, <2>3
    DEF IInv, ReplayDone, AfterReplay, Replays, AfterClosed, AfterJournal, Target,
        Head1, Latest
  <2>5. Merges' /\ Serves' /\ Works'
    BY <1>3 DEF IInv, ReplayDone, AfterReplay, Merges, Serves, Works,
                AfterJournal, Running, Handling, Threads
  <2> QED BY <1>1, <2>4, <2>5 DEF Disk, Progress
<1>4. CASE main = "journal"
  <2>1. /\ journal # Absent /\ position = Len(journal)
        /\ position < Len(promised)
        /\ Len(journal) = IF cut THEN Len(promised) ELSE Len(promised) - 1
        /\ journal \in Seq(Record)
    BY <1>4 DEF IInv, TypeOK, ReplayDone, Replaying, JournalFile, Replays
  <2>2. ~cut /\ position = Len(promised) - 1
    BY <1>2, <2>1
  <2>3. database = Target
    <3>1. CASE database = promised[position + 1]
      BY <1>2, <2>2, <3>1 DEF Target, Latest
    <3>2. CASE Overlay(database, promised, journal, position)
      BY <1>2, <2>2, <3>2, OverlayEnd DEF Target, Latest
    <3> QED BY <1>4, <2>1, <3>1, <3>2 DEF IInv, Replays
  <2>4. Replays'
    BY <1>2, <1>4, <2>1
    DEF IInv, ReplayDone, AfterReplay, Replays, AfterClosed, AfterJournal
  <2>5. Merges' /\ Serves' /\ Works'
    BY <1>4, <2>3 DEF IInv, ReplayDone, AfterReplay, Merges, Serves, Works,
                AfterJournal, Running, Handling, Threads, Target, Head1, Latest
  <2> QED BY <1>1, <2>4, <2>5 DEF Disk, Progress
<1> QED BY <1>3, <1>4 DEF ReplayDone

(* Only records that are in base already throw when closed is replayed. *)
LEMMA ReplayFailsMerged ==
  IInv /\ ReplayFails /\ main = "closed" => BaseValue = Head1
<1> SUFFICES ASSUME IInv, ReplayFails, main = "closed" PROVE BaseValue = Head1
  OBVIOUS
<1>1. /\ closed # Absent /\ closed \in Seq(Record) /\ position < Len(closed)
      /\ Throws(database, closed[position + 1])
      /\ Walk(rotated, closed) /\ Len(rotated) = Len(closed) + 1
      /\ rotated \in Seq(Databases) /\ position \in Nat
  BY DEF IInv, TypeOK, ReplayFails, Replaying, ClosedFile
<1>2. ~Throws(rotated[position + 1], closed[position + 1])
  BY <1>1, WalkStep
<1> QED BY <1>1, <1>2 DEF IInv, Replays

(* A replay that throws: the file was cut short, or its records are in base *)
(* already; without the file the rest still leads to the same state.        *)
LEMMA InvReplayFails == IInv /\ ReplayFails => IInv'
<1> SUFFICES ASSUME IInv, ReplayFails PROVE IInv'
  OBVIOUS
<1> USE DEF history
<1>1. Shape' /\ Progress'
  BY IInvParts, ShapeNext, ProgressEnds DEF ReplayFails, Next, Initialize
<1>2. database \in Databases /\ position \in Nat
      /\ promised \in Seq(Databases) /\ promised # <<>>
      /\ rotated \in Seq(Databases)
  BY DEF IInv, TypeOK
<1>3. main' = "down" /\ base' = base /\ base # Damaged
      /\ promised' = promised /\ rotated' = rotated /\ cut' = cut
  BY DEF IInv, ReplayFails, ProcessEnds
<1>4. CASE main = "closed"
  <2>1. /\ closed # Absent /\ closed \in Seq(Record) /\ position < Len(closed)
        /\ Throws(database, closed[position + 1])
        /\ Walk(rotated, closed) /\ Len(rotated) = Len(closed) + 1
        /\ journal' = journal
    BY <1>4 DEF IInv, TypeOK, ReplayFails, Replaying, ClosedFile
  <2>2. ~Throws(rotated[position + 1], closed[position + 1])
    BY <1>2, <2>1, WalkStep
  <2>3. BaseValue = Head1
    BY <1>4, ReplayFailsMerged
  <2>4. closed[position + 1].op # "torn"
    BY <2>2 DEF Throws
  <2>5. closed' = Absent
    BY <1>4, <2>4 DEF ReplayFails, Replaying
  <2>6. Target = Head1 \/ journal # Absent
    BY <2>1 DEF IInv, NoJournalFile
  <2>7. Disk'
    BY <1>3, <2>1, <2>3, <2>5, <2>6
    DEF IInv, Disk, ClosedFile, JournalFile, NoJournalFile, BaseFile, BaseValue,
        Target, Head1, Latest
  <2> QED BY <1>1, <2>7, IInvParts
<1>5. CASE main = "journal"
  <2>1. /\ journal # Absent /\ journal \in Seq(Record) /\ position < Len(journal)
        /\ Throws(database, journal[position + 1])
        /\ Walk(promised, journal) /\ position < Len(promised)
        /\ Len(journal) = IF cut THEN Len(promised) ELSE Len(promised) - 1
        /\ closed' = closed /\ journal' \in {journal, Absent}
    BY <1>5 DEF IInv, TypeOK, ReplayFails, Replaying, JournalFile, Replays
  <2>2. cut \/ (closed = Absent /\ BaseValue = Target)
    <3>1. \/ database = promised[position + 1]
          \/ closed = Absent /\ BaseValue = Target
      BY <1>5, <2>1 DEF IInv, Replays
    <3>2. ~cut => ~Throws(promised[position + 1], journal[position + 1])
      BY <1>2, <2>1, WalkStep
    <3>3. ~cut => database # promised[position + 1]
      BY <2>1, <3>2
    <3> QED BY <3>1, <3>3
  <2>3. NoJournalFile'
    BY <1>3, <2>1, <2>2
    DEF IInv, NoJournalFile, BaseValue, Target, Head1, Latest
  <2>4. JournalFile'
    BY <1>3, <2>1 DEF IInv, JournalFile
  <2>5. ClosedFile' /\ BaseFile'
    BY <1>3, <1>5, <2>1
    DEF IInv, ClosedFile, BaseFile, BaseValue, Target, Head1, Latest
  <2> QED BY <1>1, <1>3, <2>3, <2>4, <2>5, IInvParts DEF Disk
<1> QED BY <1>4, <1>5 DEF ReplayFails

(* The new base: what was loaded, written in full, then renamed. *)
LEMMA InvSnapshot ==
  ASSUME NoLoss
  PROVE  IInv /\ (NothingToRollOver \/ BeginSnapshot \/ EndSnapshot) => (Disk /\ Progress)'
<1> SUFFICES ASSUME IInv, NothingToRollOver \/ BeginSnapshot \/ EndSnapshot
             PROVE  (Disk /\ Progress)'
  OBVIOUS
<1> USE DEF files, mainLocal, workerLocal, flags, history
<1>1. Disk'
  BY DEF IInv, NothingToRollOver, BeginSnapshot, EndSnapshot, Disk, ClosedFile,
         JournalFile, NoJournalFile, BaseFile, BaseValue, Target, Head1, Latest
<1>2. CASE NothingToRollOver
  <2>1. closed = Absent /\ journal = Absent
    BY <1>2 DEF IInv, NothingToRollOver, Replays, AfterClosed, AfterJournal
  <2>2. BaseValue = Target
    BY <2>1 DEF IInv, NoJournalFile, BaseFile
  <2> QED
    BY <1>1, <1>2, <2>1, <2>2
    DEF IInv, NothingToRollOver, Progress, Replays, Merges, Serves, Works,
        AfterClosed, AfterJournal, Running, Handling, Threads, BaseValue, Target,
        Head1, Latest
<1>3. CASE BeginSnapshot
  BY <1>1, <1>3
  DEF IInv, BeginSnapshot, Progress, Replays, Merges, Serves, Works,
      AfterClosed, AfterJournal, Running, Handling, Threads, BaseValue, Target,
      Head1, Latest
<1>4. CASE EndSnapshot
  BY <1>1, <1>4
  DEF IInv, NoLoss, EndSnapshot, Progress, Replays, Merges, Serves, Works,
      AfterClosed, AfterJournal, Running, Handling, Threads, BaseValue, Target,
      Head1, Latest
<1> QED BY <1>2, <1>3, <1>4

LEMMA InvInstall ==
  IInv /\ (InstallSnapshot \/ UnlinkClosed \/ UnlinkJournal) => (Disk /\ Progress)'
<1> SUFFICES ASSUME IInv, InstallSnapshot \/ UnlinkClosed \/ UnlinkJournal
             PROVE  (Disk /\ Progress)'
  OBVIOUS
<1> USE DEF files, mainLocal, workerLocal, flags, history
<1>1. database \in Databases /\ database # Absent /\ database # Damaged
  BY DEF IInv, TypeOK
<1>2. CASE InstallSnapshot
  <2>1. base' = Target /\ BaseValue' = Target' /\ base' # Damaged
    BY <1>1, <1>2
    DEF IInv, InstallSnapshot, Merges, AfterJournal, BaseValue, Target, Head1, Latest
  <2>2. Disk'
    BY <1>2, <2>1
    DEF IInv, InstallSnapshot, Disk, ClosedFile, JournalFile, NoJournalFile,
        BaseFile, Target, Head1, Latest
  <2>3. Progress'
    BY <1>2, <2>1
    DEF IInv, InstallSnapshot, Progress, Replays, Merges, Serves, Works,
        AfterClosed, AfterJournal, Running, Handling, Threads, Target, Head1, Latest
  <2> QED BY <2>2, <2>3
<1>3. CASE UnlinkClosed
  <2>1. closed' = Absent /\ BaseValue = Target
    BY <1>3 DEF IInv, UnlinkClosed, Replays, Merges, AfterClosed
  <2>2. Disk'
    BY <1>3, <2>1
    DEF IInv, UnlinkClosed, Disk, ClosedFile, JournalFile, NoJournalFile,
        BaseFile, BaseValue, Target, Head1, Latest
  <2>3. Progress'
    BY <1>3, <2>1
    DEF IInv, UnlinkClosed, Progress, Replays, Merges, Serves, Works,
        AfterClosed, AfterJournal, Running, Handling, Threads, BaseValue, Target,
        Head1, Latest
  <2> QED BY <2>2, <2>3
<1>4. CASE UnlinkJournal
  <2>1. closed = Absent /\ BaseValue = Target /\ journal' \in {journal, Absent}
    BY <1>4 DEF IInv, UnlinkJournal, Merges
  <2>2. Disk'
    BY <1>4, <2>1
    DEF IInv, UnlinkJournal, Disk, ClosedFile, JournalFile, NoJournalFile,
        BaseFile, BaseValue, Target, Head1, Latest
  <2>3. Progress'
    BY <1>4, <2>1
    DEF IInv, UnlinkJournal, Progress, Replays, Merges, Serves, Works,
        AfterClosed, AfterJournal, Running, Handling, Threads, BaseValue, Target,
        Head1, Latest
  <2> QED BY <2>2, <2>3
<1> QED BY <1>2, <1>3, <1>4

(* The journal is opened anew: a single promised state, and it is in base. *)
LEMMA InvOpen == IInv /\ OpenJournal => (Disk /\ Progress)'
<1> SUFFICES ASSUME IInv, OpenJournal PROVE (Disk /\ Progress)'
  OBVIOUS
<1> USE DEF files, mainLocal, workerLocal, flags, history
<1>1. database \in Databases /\ BaseValue = database /\ closed = Absent
  BY DEF IInv, TypeOK, OpenJournal, Merges, AfterJournal
<1>2. /\ promised' = <<database>> /\ Len(promised') = 1 /\ promised'[1] = database
      /\ journal' = <<>> /\ Len(journal') = 0 /\ journal' # Absent
      /\ ~cut' /\ Walk(promised', journal')
  BY <1>1, OneState, WalkOne, NewJournal DEF OpenJournal
<1>3. Head1' = database /\ Target' = database /\ Latest' = database
      /\ BaseValue' = database
  BY <1>1, <1>2 DEF OpenJournal, Head1, Target, Latest, BaseValue
<1>4. Disk'
  BY <1>1, <1>2, <1>3
  DEF IInv, OpenJournal, Disk, ClosedFile, JournalFile, NoJournalFile, BaseFile
<1>5. worker = "none" /\ position = 0
  BY DEF IInv, OpenJournal, Threads, Handling, Replays
<1>6. Progress'
  BY <1>1, <1>2, <1>3, <1>5
  DEF OpenJournal, Progress, Replays, Merges, Serves, Works, AfterClosed,
      AfterJournal, Running, Handling
<1> QED BY <1>4, <1>6

(***************************************************************************)
(* Serving.                                                                *)
(***************************************************************************)
(* Moves between requests, answers and a worker that is launched or not. *)
LEMMA InvMoves ==
  ASSUME NEW op \in Handling
  PROVE  IInv /\ (Receive(op) \/ Answer \/ TickKeeps \/ NothingToLaunch
                    \/ LaunchWorker \/ BeginShutdown) => (Disk /\ Progress)'
<1> SUFFICES ASSUME IInv, Receive(op) \/ Answer \/ TickKeeps \/ NothingToLaunch
                            \/ LaunchWorker \/ BeginShutdown
             PROVE  (Disk /\ Progress)'
  OBVIOUS
<1> USE DEF files, mainLocal, workerLocal, flags, history
<1>1. Disk'
  BY DEF IInv, Receive, Answer, TickKeeps, NothingToLaunch, LaunchWorker,
         BeginShutdown, Disk, ClosedFile, JournalFile, NoJournalFile, BaseFile,
         BaseValue, Target, Head1, Latest, Handling
<1> USE DEF IInv, Progress, Replays, Merges, Serves, Works, AfterClosed,
            AfterJournal, Running, Handling, Threads, BaseValue, Target, Head1,
            Latest
<1>2. CASE Receive(op)
  BY <1>1, <1>2 DEF Receive
<1>3. CASE Answer
  BY <1>1, <1>3 DEF Answer
<1>4. CASE TickKeeps
  BY <1>1, <1>4 DEF TickKeeps
<1>5. CASE NothingToLaunch
  BY <1>1, <1>5 DEF NothingToLaunch
<1>6. CASE LaunchWorker
  BY <1>1, <1>6 DEF LaunchWorker
<1>7. CASE BeginShutdown
  BY <1>1, <1>7 DEF BeginShutdown
<1> QED BY <1>2, <1>3, <1>4, <1>5, <1>6, <1>7

(* A record goes to the journal first, and its effect to the list. *)
LEMMA InvAppend ==
  ASSUME NEW r \in Record
  PROVE  IInv /\ AppendRecord(r) => (Disk /\ Progress)'
<1> SUFFICES ASSUME IInv, AppendRecord(r) PROVE (Disk /\ Progress)'
  OBVIOUS
<1> USE DEF files, mainLocal, workerLocal, flags, history
<1> DEFINE next == Effect(database, r)
<1>1. /\ main \in Handling /\ MayWrite(r) /\ journal' = Append(journal, r)
      /\ promised' = Append(promised, next) /\ main' = "apply"
      /\ UNCHANGED <<base, closed, snapshot, database, replayed, position,
                     worker, copy, wposition, inProgress, cancel, rotated, cut>>
  BY DEF AppendRecord
<1>2. /\ database \in Databases /\ next \in Databases
      /\ promised \in Seq(Databases) /\ promised # <<>>
      /\ journal \in Seq(Record) /\ journal # Absent
  BY <1>1, EffectType DEF IInv, TypeOK, Threads, Running, Handling
<1>3. /\ ~cut /\ database = promised[Len(promised)]
      /\ Len(promised) = Len(journal) + 1 /\ Walk(promised, journal)
  BY <1>1, <1>2 DEF IInv, Serves, Running, Handling, Latest, JournalFile
<1>4. ~Throws(database, r)
  BY <1>1, <1>2 DEF MayWrite, Throws, Handling, Record
<1>5. Walk(promised', journal')
  BY <1>1, <1>2, <1>3, <1>4, WalkAppend
<1>6. /\ Len(promised') = Len(promised) + 1 /\ promised'[Len(promised')] = next
      /\ promised'[Len(promised)] = database /\ promised'[1] = promised[1]
      /\ Len(journal') = Len(journal) + 1 /\ journal' # Absent
  <2>1. /\ Len(promised') = Len(promised) + 1 /\ promised'[Len(promised) + 1] = next
        /\ \A i \in 1..Len(promised) : promised'[i] = promised[i]
    BY <1>1, <1>2, AppendType
  <2>2. journal' \in Seq(Record) /\ Len(journal') = Len(journal) + 1
    BY <1>1, <1>2, AppendType
  <2>3. Len(promised) \in 1..Len(promised) /\ 1 \in 1..Len(promised)
    BY <1>2
  <2> QED BY <1>3, <2>1, <2>2, <2>3
<1>7. BaseValue' = BaseValue /\ Head1' = Head1
  BY <1>1, <1>6 DEF BaseValue, Head1
<1>8. Disk'
  BY <1>1, <1>2, <1>3, <1>5, <1>6, <1>7
  DEF IInv, Disk, ClosedFile, JournalFile, NoJournalFile, BaseFile, Serves,
      Running, Handling
<1>9. Progress'
  BY <1>1, <1>2, <1>3, <1>6, <1>7
  DEF IInv, Progress, Replays, Merges, Serves, Works, AfterClosed, AfterJournal,
      Running, Handling, Threads
<1> QED BY <1>8, <1>9

(* The tree follows the journal. *)
LEMMA InvApply == IInv /\ ApplyRecord => (Disk /\ Progress)'
<1> SUFFICES ASSUME IInv, ApplyRecord PROVE (Disk /\ Progress)'
  OBVIOUS
<1> USE DEF files, mainLocal, workerLocal, flags, history
<1>1. Disk'
  BY DEF IInv, ApplyRecord, Disk, ClosedFile, JournalFile, NoJournalFile,
         BaseFile, BaseValue, Target, Head1, Latest, Threads, Handling
<1>2. /\ promised \in Seq(Databases) /\ journal \in Seq(Record)
      /\ main = "apply" /\ ~cut /\ Len(promised) > 1
      /\ database = promised[Len(promised) - 1]
      /\ Len(journal) = Len(promised) - 1 /\ Walk(promised, journal)
      /\ main' \in Handling
  BY DEF IInv, TypeOK, ApplyRecord, Serves, Threads, Running, Handling, JournalFile
<1>3. Len(promised) - 1 \in 1..(Len(promised) - 1)
  BY <1>2
<1>4. promised[Len(promised)] = Effect(promised[Len(promised) - 1], journal[Len(promised) - 1])
  BY <1>2, <1>3 DEF Walk
<1>5. database' = promised[Len(promised)]
  BY <1>2, <1>4 DEF ApplyRecord
<1>6. Progress'
  BY <1>2, <1>5
  DEF IInv, ApplyRecord, Progress, Replays, Merges, Serves, Works, AfterClosed,
      AfterJournal, Running, Handling, Threads, BaseValue, Target, Head1, Latest
<1> QED BY <1>1, <1>6

(* The journal becomes the closed one, its list the rotated one. *)
LEMMA InvRotate == IInv /\ (TickRotates \/ ReopenJournal) => (Disk /\ Progress)'
<1> SUFFICES ASSUME IInv, TickRotates \/ ReopenJournal PROVE (Disk /\ Progress)'
  OBVIOUS
<1> USE DEF files, mainLocal, workerLocal, flags, history
<1>1. promised \in Seq(Databases) /\ promised # <<>>
      /\ promised[Len(promised)] \in Databases
  BY DEF IInv, TypeOK
<1>2. CASE TickRotates
  <2>1. /\ ~cut /\ closed = Absent /\ BaseValue = Head1 /\ database = Latest
        /\ journal # Absent /\ Len(promised) = Len(journal) + 1
        /\ Walk(promised, journal) /\ journal \in Seq(Record)
    BY <1>1, <1>2
    DEF IInv, TypeOK, TickRotates, Serves, Running, Threads, JournalFile, Handling
  <2>2. /\ promised' = <<promised[Len(promised)]>> /\ Len(promised') = 1
        /\ promised'[1] = Latest /\ rotated' = promised /\ closed' = journal
        /\ journal' = Absent /\ main' = "rotating" /\ worker' = "none"
        /\ UNCHANGED <<base, snapshot, database, replayed, position, copy,
                       wposition, inProgress, cancel, cut>>
    BY <1>1, <1>2, OneState DEF TickRotates, Latest
  <2>3. Head1' = Latest /\ Latest' = Latest /\ Target' = Latest /\ BaseValue' = BaseValue
    BY <2>1, <2>2 DEF Head1, Latest, Target, BaseValue
  <2>4. Disk'
    BY <2>1, <2>2, <2>3
    DEF IInv, Disk, ClosedFile, JournalFile, NoJournalFile, BaseFile, Head1, Latest
  <2>5. Progress'
    BY <1>2, <2>1, <2>2, <2>3
    DEF IInv, TickRotates, Progress, Replays, Merges, Serves, Works, AfterClosed,
        AfterJournal, Running, Handling, Head1
  <2> QED BY <2>4, <2>5
<1>3. CASE ReopenJournal
  <2>1. Len(promised) = 1 /\ ~cut /\ closed # Absent
    BY <1>3 DEF IInv, ReopenJournal, Serves, Running
  <2>2. journal' = <<>> /\ Len(journal') = 0 /\ Walk(promised, journal')
    BY <1>3, <2>1 DEF ReopenJournal, Walk
  <2>3. Disk'
    BY <1>3, <2>1, <2>2, NewJournal
    DEF IInv, ReopenJournal, Disk, ClosedFile, JournalFile, NoJournalFile,
        BaseFile, BaseValue, Target, Head1, Latest
  <2>4. Progress'
    BY <1>3, <2>1
    DEF IInv, ReopenJournal, Progress, Replays, Merges, Serves, Works,
        AfterClosed, AfterJournal, Running, Handling, Threads, BaseValue, Head1,
        Latest
  <2> QED BY <2>3, <2>4
<1> QED BY <1>2, <1>3

(***************************************************************************)
(* The worker.                                                             *)
(***************************************************************************)
(* A file that a start or the worker cannot load never comes to be. *)
LEMMA NoDamage ==
  IInv => ~LoadDamagedBase /\ ~WorkerFindsDamage /\ ~WorkerThrows
BY DEF IInv, LoadDamagedBase, WorkerFindsDamage, WorkerThrows

(* The worker's tree walks along the rotated list. *)
LEMMA InvWorkerReplays ==
  IInv /\ (WorkerLoads \/ WorkerReplays \/ WorkerReplayReturns) => (Disk /\ Progress)'
<1> SUFFICES ASSUME IInv, WorkerLoads \/ WorkerReplays \/ WorkerReplayReturns
             PROVE  (Disk /\ Progress)'
  OBVIOUS
<1> USE DEF files, mainLocal, workerLocal, flags, history
<1>1. Disk'
  BY DEF IInv, WorkerLoads, WorkerReplays, WorkerReplayReturns, Disk, ClosedFile,
         JournalFile, NoJournalFile, BaseFile, BaseValue, Target, Head1, Latest
<1>2. Replays' /\ Merges' /\ Serves'
  BY DEF IInv, WorkerLoads, WorkerReplays, WorkerReplayReturns, Replays, Merges,
         Serves, AfterClosed, AfterJournal, Running, Handling, BaseValue, Target,
         Head1, Latest
<1>3. /\ worker \in {"load", "replay"} /\ closed # Absent /\ closed \in Seq(Record)
      /\ Walk(rotated, closed) /\ Len(rotated) = Len(closed) + 1
      /\ rotated[Len(rotated)] = Head1 /\ rotated \in Seq(Databases)
      /\ wposition \in Nat
  BY DEF IInv, TypeOK, Threads, Busy, WorkerStates, ClosedFile, WorkerLoads,
         WorkerReplays, WorkerReplayReturns
<1>4. CASE WorkerLoads
  <2>1. copy' = rotated[wposition' + 1] /\ wposition' = 0
    BY <1>4 DEF IInv, WorkerLoads, Works, BaseValue
  <2>2. wposition' <= Len(closed)
    BY <1>3, <2>1
  <2>3. Works'
    BY <1>4, <2>1, <2>2 DEF IInv, WorkerLoads, Works
  <2> QED BY <1>1, <1>2, <2>3 DEF Disk, Progress
<1>5. CASE WorkerReplays
  <2>1. /\ wposition < Len(closed) /\ copy = rotated[wposition + 1]
        /\ copy' = Effect(copy, closed[wposition + 1])
    BY <1>5 DEF IInv, WorkerReplays, Works
  <2>2. wposition + 1 < Len(rotated)
    BY <1>3, <2>1
  <2>3. copy' = rotated[wposition + 2]
    BY <1>3, <2>1, <2>2, WalkStep
  <2>4. copy' = rotated[wposition' + 1] /\ wposition' <= Len(closed)
    BY <1>3, <1>5, <2>1, <2>3 DEF WorkerReplays
  <2>5. Works'
    BY <1>5, <2>4 DEF IInv, WorkerReplays, Works
  <2> QED BY <1>1, <1>2, <2>5 DEF Disk, Progress
<1>6. CASE WorkerReplayReturns
  <2>1. cancel \/ copy = Head1
    BY <1>3, <1>6 DEF IInv, WorkerReplayReturns, Works
  <2>2. Works'
    BY <1>6, <2>1 DEF IInv, WorkerReplayReturns, Works, Head1
  <2> QED BY <1>1, <1>2, <2>2 DEF Disk, Progress
<1> QED BY <1>4, <1>5, <1>6

(* It began where base is, so no record of closed throws. *)
LEMMA NoWorkerReplayFails == IInv => ~WorkerReplayFails
<1> SUFFICES ASSUME IInv, WorkerReplayFails PROVE FALSE
  OBVIOUS
<1>1. /\ closed # Absent /\ closed \in Seq(Record) /\ wposition < Len(closed)
      /\ Walk(rotated, closed) /\ Len(rotated) = Len(closed) + 1
      /\ rotated \in Seq(Databases) /\ wposition \in Nat
      /\ copy = rotated[wposition + 1] /\ Throws(copy, closed[wposition + 1])
  BY DEF IInv, TypeOK, Threads, Busy, WorkerStates, ClosedFile, Works,
         WorkerReplayFails
<1>2. wposition + 1 < Len(rotated)
  BY <1>1
<1>3. ~Throws(rotated[wposition + 1], closed[wposition + 1])
  BY <1>1, <1>2, WalkStep
<1> QED BY <1>1, <1>3

(* Cancelled on the way, or a snapshot of the whole tree. *)
LEMMA InvWorkerWrites ==
  ASSUME NoLoss
  PROVE  IInv /\ (WorkerLoadCancelled \/ WorkerChecksCancel \/ WorkerBeginsSnapshot
                    \/ WorkerEndsSnapshot \/ WorkerDropsSnapshot) => (Disk /\ Progress)'
<1> SUFFICES ASSUME IInv,
                    \/ WorkerLoadCancelled \/ WorkerChecksCancel
                    \/ WorkerBeginsSnapshot \/ WorkerEndsSnapshot
                    \/ WorkerDropsSnapshot
             PROVE  (Disk /\ Progress)'
  OBVIOUS
<1> USE DEF files, mainLocal, workerLocal, flags, history
<1>1. /\ UNCHANGED <<main, base, closed, journal, database, replayed, position,
                     copy, wposition, inProgress, cancel, promised, rotated, cut>>
      /\ main \in Running /\ worker \notin {"none", "finished", "clear"}
      /\ worker' \notin {"none", "finished"}
  BY DEF IInv, Threads, Running, WorkerLoadCancelled, WorkerChecksCancel,
         WorkerBeginsSnapshot, WorkerEndsSnapshot, WorkerDropsSnapshot
<1>2. Disk'
  BY <1>1 DEF IInv, Disk, ClosedFile, JournalFile, NoJournalFile, BaseFile,
              BaseValue, Target, Head1, Latest, Running, Handling
<1>3. Replays' /\ Merges' /\ Serves'
  BY <1>1 DEF IInv, Replays, Merges, Serves, AfterClosed, AfterJournal, Running,
              Handling, BaseValue, Target, Head1, Latest
<1>4. Works'
  BY <1>1 DEF IInv, NoLoss, Works, WorkerLoadCancelled, WorkerChecksCancel,
              WorkerBeginsSnapshot, WorkerEndsSnapshot, WorkerDropsSnapshot,
              BaseValue, Head1
<1> QED BY <1>2, <1>3, <1>4 DEF Disk, Progress

(* The new base, then the closed journal, then the flag. *)
LEMMA InvWorkerInstalls ==
  IInv /\ (WorkerInstalls \/ WorkerUnlinks \/ WorkerClears) => (Disk /\ Progress)'
<1> SUFFICES ASSUME IInv, WorkerInstalls \/ WorkerUnlinks \/ WorkerClears
             PROVE  (Disk /\ Progress)'
  OBVIOUS
<1> USE DEF files, mainLocal, workerLocal, flags, history
<1>1. main \in {"serving", "apply", "joining"} \cup Handling
      /\ copy \in Databases /\ copy # Absent /\ copy # Damaged
  BY DEF IInv, TypeOK, Threads, WorkerInstalls, WorkerUnlinks, WorkerClears
<1>2. CASE WorkerInstalls
  <2>1. base' = Head1 /\ BaseValue' = Head1 /\ Head1' = Head1 /\ base' # Damaged
        /\ closed # Absent
    BY <1>1, <1>2
    DEF IInv, Threads, Busy, WorkerStates, Works, WorkerInstalls, BaseValue, Head1
  <2>2. Disk'
    BY <1>1, <1>2, <2>1
    DEF IInv, WorkerInstalls, Disk, ClosedFile, JournalFile, NoJournalFile,
        BaseFile, Target, Head1, Latest, Threads, Running, Handling
  <2>3. Progress'
    BY <1>1, <1>2, <2>1
    DEF IInv, WorkerInstalls, Progress, Replays, Merges, Serves, Works,
        AfterClosed, AfterJournal, Running, Handling, Head1, Latest
  <2> QED BY <2>2, <2>3
<1>3. CASE WorkerUnlinks
  <2>1. closed' = Absent /\ base' = base /\ BaseValue = Head1 /\ BaseValue' = Head1
        /\ Head1' = Head1
    BY <1>3 DEF IInv, Works, WorkerUnlinks, BaseValue, Head1
  <2>2. Disk'
    BY <1>1, <1>3, <2>1
    DEF IInv, WorkerUnlinks, Disk, ClosedFile, JournalFile, NoJournalFile,
        BaseFile, Target, Head1, Latest, Threads, Running, Handling
  <2>3. Progress'
    BY <1>1, <1>3, <2>1
    DEF IInv, WorkerUnlinks, Progress, Replays, Merges, Serves, Works,
        AfterClosed, AfterJournal, Running, Handling, Head1, Latest
  <2> QED BY <2>2, <2>3
<1>4. CASE WorkerClears
  <2>1. Disk'
    BY <1>1, <1>4
    DEF IInv, WorkerClears, Disk, ClosedFile, JournalFile, NoJournalFile,
        BaseFile, BaseValue, Target, Head1, Latest
  <2>2. Progress'
    BY <1>1, <1>4
    DEF IInv, WorkerClears, Progress, Replays, Merges, Serves, Works,
        AfterClosed, AfterJournal, Running, Handling, BaseValue, Head1, Latest
  <2> QED BY <2>1, <2>2
<1> QED BY <1>2, <1>3, <1>4

(***************************************************************************)
(* The process ends.                                                       *)
(***************************************************************************)
(* Told to stop, or killed between two steps: at "unlinkclosed" with a     *)
(* closed journal, nothing was promised beyond what that one held.         *)
LEMMA InvEnds ==
  ASSUME NoLoss
  PROVE  IInv /\ (Crash \/ FinishShutdown) => (Disk /\ Progress)'
<1> SUFFICES ASSUME IInv, Crash \/ FinishShutdown PROVE (Disk /\ Progress)'
  OBVIOUS
<1> USE DEF files, history
<1>1. /\ ProcessEnds /\ main' = "down"
      /\ UNCHANGED <<base, closed, journal, promised, rotated, cut>>
  BY DEF Crash, FinishShutdown, ProcessEnds
<1>2. main = "unlinkclosed" /\ closed # Absent => BaseValue = Head1
  <2> SUFFICES ASSUME main = "unlinkclosed", closed # Absent
               PROVE  BaseValue = Head1
    OBVIOUS
  <2>1. BaseValue = Target /\ "closed" \in replayed
        /\ ("journal" \in replayed <=> journal # Absent)
        /\ replayed \subseteq {"closed", "journal"}
    BY DEF IInv, TypeOK, Replays, Merges, AfterClosed, AfterJournal
  <2>2. replayed # {"closed", "journal"}
    BY DEF NoLoss, Crash, FinishShutdown, BothWaitToBeUnlinked
  <2>3. journal = Absent
    BY <2>1, <2>2
  <2>4. Target = Head1
    BY <2>3 DEF IInv, NoJournalFile
  <2> QED BY <2>1, <2>4
<1>3. Disk'
  BY <1>1, <1>2 DEF IInv, Disk, ClosedFile, JournalFile, NoJournalFile, BaseFile,
                    BaseValue, Target, Head1, Latest
<1> QED BY <1>1, <1>3, ProgressEnds

(* Killed while it appends: the whole journal is worth its first state. *)
LEMMA InvCrashInAppend ==
  ASSUME NEW r \in Record
  PROVE  IInv /\ CrashInAppend(r) => (Disk /\ Progress)'
<1> SUFFICES ASSUME IInv, CrashInAppend(r) PROVE (Disk /\ Progress)'
  OBVIOUS
<1> DEFINE torn == [r EXCEPT !.op = "torn"]
<1>1. /\ ProcessEnds /\ main \in Handling /\ main' = "down" /\ cut' = TRUE
      /\ journal' = Append(journal, torn)
      /\ UNCHANGED <<base, closed, promised, rotated>>
  BY DEF CrashInAppend, ProcessEnds
<1>2. /\ torn \in Record /\ torn.op = "torn"
      /\ journal \in Seq(Record) /\ journal # Absent /\ ~cut
      /\ Len(promised) = Len(journal) + 1 /\ Walk(promised, journal)
      /\ promised \in Seq(Databases)
  BY <1>1 DEF IInv, TypeOK, Threads, Running, Handling, Serves, JournalFile, Record
<1>3. /\ journal' \in Seq(Record) /\ Len(journal') = Len(journal) + 1
      /\ journal'[Len(journal')] = torn
  BY <1>1, <1>2, AppendType
<1>4. Walk(promised', journal')
  BY <1>1, <1>2, WalkCut
<1>5. JournalFile'
  BY <1>1, <1>2, <1>3, <1>4 DEF JournalFile
<1>6. NoJournalFile'
  BY <1>3 DEF NoJournalFile
<1>7. closed = Absent => BaseValue = Head1
  BY <1>1 DEF IInv, Serves, Running, Handling
<1>8. base' # Damaged /\ ClosedFile' /\ BaseFile'
  BY <1>1, <1>7 DEF IInv, ClosedFile, BaseFile, BaseValue, Target, Head1, Handling
<1> QED BY <1>1, <1>5, <1>6, <1>8, ProgressEnds DEF Disk

(***************************************************************************)
(* The theorem.                                                            *)
(***************************************************************************)
LEMMA InvNext ==
  ASSUME NoLoss
  PROVE  IInv /\ [Next]_vars => IInv'
<1> SUFFICES ASSUME IInv, [Next]_vars PROVE IInv'
  OBVIOUS
<1>1. Shape'
  BY IInvParts, ShapeNext
<1>2. ~SnapshotFails
  BY DEF NoLoss, SnapshotFails
<1>3. CASE Initialize
  BY <1>1, <1>2, <1>3, IInvParts, NoDamage, InvLoad, InvSkip, InvReplayRecord,
     InvReplayFails, InvReplayDone, InvSnapshot, InvInstall, InvOpen
  DEF Initialize
<1>4. CASE Request
  <2>1. ASSUME NEW op \in Handling, Receive(op) PROVE IInv'
    BY <1>1, <2>1, IInvParts, InvMoves
  <2>2. ASSUME NEW r \in Record, AppendRecord(r) PROVE IInv'
    BY <1>1, <2>2, IInvParts, InvAppend
  <2>3. CASE Answer
    BY <1>1, <2>3, IInvParts, InvMoves DEF Handling
  <2> QED BY <1>1, <1>4, <2>1, <2>2, <2>3, IInvParts, InvApply DEF Request
<1>5. CASE Tick \/ Rollover
  BY <1>1, <1>5, IInvParts, InvMoves, InvRotate DEF Tick, Rollover, Handling
<1>6. CASE Shutdown
  BY <1>1, <1>6, IInvParts, InvMoves, InvEnds DEF Shutdown, Handling
<1>7. CASE Worker
  BY <1>1, <1>7, IInvParts, NoDamage, NoWorkerReplayFails, InvWorkerReplays,
     InvWorkerWrites, InvWorkerInstalls DEF Worker
<1>8. CASE Crash
  BY <1>1, <1>8, IInvParts, InvEnds
<1>9. ASSUME NEW r \in Record, CrashInAppend(r) PROVE IInv'
  BY <1>1, <1>9, IInvParts, InvCrashInAppend
<1>10. CASE UNCHANGED vars
  BY <1>10
  DEF IInv, TypeOK, Threads, FlagTellsTheWorker, ClosedFile, JournalFile,
      NoJournalFile, BaseFile, Replays, Merges, Serves, Works, BaseValue, Target,
      Head1, Latest, vars, files, mainLocal, workerLocal, flags, history
<1> QED
  BY <1>3, <1>4, <1>5, <1>6, <1>7, <1>8, <1>9, <1>10 DEF Next

LEMMA InvDurable == IInv => Durable
BY DEF IInv, Merges, Serves, Durable, Loaded, Running, Handling, AfterJournal,
       Target, Head1, Latest

(* Whatever is killed, rotated, merged or cancelled, a database that is    *)
(* loaded is the one its journals promised (Initialize and Rollover of     *)
(* source/service.cc), if snapshots can be written and a kill does not     *)
(* fall between the rename of base and the removal of both journals.       *)
THEOREM Durability == ASSUME NoLoss PROVE Spec => []Durable
<1>1. IInv /\ [Next]_vars => IInv'
  BY InvNext
<1> QED BY <1>1, InvInit, InvDurable, PTL DEF Spec

(* The closed journal is only removed, set aside or overwritten when base  *)
(* holds what its records did (RotateJournal, Initialize and the worker of *)
(* source/service.cc).                                                     *)
THEOREM ClosedIsMerged == ASSUME NoLoss PROVE Spec => ClosedGoesOnlyOnceMerged
<1> DEFINE MergedOnly == closed # Absent /\ closed' # closed
                           => BaseValue \in {promised[1], promised[Len(promised)]}
<1>1. IInv /\ [Next]_vars => IInv'
  BY InvNext
<1>2. IInv /\ [Next]_vars => [MergedOnly]_vars
  <2> SUFFICES ASSUME IInv, Next, closed # Absent, closed' # closed
               PROVE  BaseValue \in {Head1, Latest}
    BY DEF Head1, Latest
  <2> USE DEF files, mainLocal, workerLocal, flags, history
  <2>1. CASE UnlinkClosed
    BY <2>1 DEF IInv, UnlinkClosed, Merges, Target
  <2>2. CASE ReplayFails
    BY <2>2, ReplayFailsMerged DEF ReplayFails
  <2>3. CASE WorkerUnlinks
    BY <2>3 DEF IInv, WorkerUnlinks, Works
  <2>4. ~TickRotates
    BY DEF IInv, TickRotates, Serves, Running, Handling
  <2>5. CASE Initialize
    BY <2>1, <2>2, <2>5, NoDamage
    DEF Initialize, Start, LoadBase, SkipMissingJournal, ReplayRecord, ReplayDone,
        NothingToRollOver, BeginSnapshot, EndSnapshot, SnapshotFails,
        InstallSnapshot, UnlinkJournal, OpenJournal
  <2>6. CASE Request \/ Tick \/ Rollover \/ Shutdown
    BY <2>4, <2>6
    DEF Request, Tick, Rollover, Shutdown, Receive, AppendRecord, ApplyRecord,
        Answer, TickKeeps, ReopenJournal, LaunchWorker, NothingToLaunch,
        BeginShutdown, FinishShutdown
  <2>7. CASE Worker
    BY <2>3, <2>7, NoDamage, NoWorkerReplayFails
    DEF Worker, WorkerLoads, WorkerLoadCancelled, WorkerReplays,
        WorkerReplayReturns, WorkerChecksCancel, WorkerBeginsSnapshot,
        WorkerEndsSnapshot, WorkerDropsSnapshot, WorkerInstalls, WorkerClears
  <2>8. CASE Crash \/ \E r \in Record : CrashInAppend(r)
    BY <2>8 DEF Crash, CrashInAppend
  <2> QED BY <2>5, <2>6, <2>7, <2>8 DEF Next
<1> QED BY <1>1, <1>2, InvInit, PTL DEF Spec, ClosedGoesOnlyOnceMerged
=============================================================================
