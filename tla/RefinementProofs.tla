-------------------------- MODULE RefinementProofs --------------------------
(***************************************************************************)
(* Storage implements Store: what the files hold, if one replayed them     *)
(* now, is always the state the journals promised, and only appending a    *)
(* record changes it.                                                      *)
(*                                                                         *)
(* Journal defines a replay without recursion: of the records that name a  *)
(* key the last one decides.  The first part shows that this is the walk   *)
(* of StorageInvariant, record by record; the second that every start from *)
(* the files, as they are at any step, would come to the same documents.   *)
(***************************************************************************)
EXTENDS StorageProofs, StorageRefinesStore, WellFoundedInduction

(***************************************************************************)
(* Replaying, as a function of the file.                                   *)
(***************************************************************************)
(* A set that contains 0 and with n also n + 1. *)
LEMMA Climb ==
  ASSUME NEW S, 0 \in S, \A n \in Nat : n \in S => n + 1 \in S
  PROVE  \A n \in Nat : n \in S
<1> DEFINE Missing == {n \in Nat : n \notin S}
<1> SUFFICES ASSUME Missing # {} PROVE FALSE
  OBVIOUS
<1>1. PICK m \in Missing : \A y \in Missing : <<y, m>> \notin OpToRel(<, Nat)
  <2>1. Missing \subseteq Nat
    OBVIOUS
  <2> HIDE DEF Missing
  <2> QED BY <2>1, NatLessThanWellFounded, WFMin, Zenon
<1>2. m \in Nat /\ m # 0
  OBVIOUS
<1>3. m - 1 \in Nat /\ m - 1 < m /\ (m - 1) + 1 = m
  BY <1>2
<1>4. m - 1 \in Missing
  BY <1>3
<1>5. <<m - 1, m>> \in OpToRel(<, Nat)
  BY <1>2, <1>3, Zenon DEF OpToRel
<1> QED BY <1>1, <1>4, <1>5

LEMMA MaxIsLast ==
  ASSUME NEW n \in Nat, NEW S \in SUBSET (1..n), S # {}
  PROVE  Max(S) \in S /\ \A y \in S : y <= Max(S)
<1>1. \E x \in S : \A y \in S : x >= y
  <2> SUFFICES ASSUME \A y \in S : \E x \in S : y < x PROVE FALSE
    OBVIOUS
  <2> DEFINE Room == {m \in Nat : \A y \in S : y + m <= n}
  <2>1. 0 \in Room
    OBVIOUS
  <2>2. \A m \in Nat : m \in Room => m + 1 \in Room
    <3> SUFFICES ASSUME NEW m \in Nat, \A y \in S : y + m <= n, NEW y \in S
                 PROVE  y + (m + 1) <= n
      OBVIOUS
    <3>1. PICK x \in S : y < x
      OBVIOUS
    <3>2. x \in Nat /\ y \in Nat /\ x + m <= n
      OBVIOUS
    <3> QED BY <3>1, <3>2
  <2>3. n \in Room
    <3> HIDE DEF Room
    <3> QED BY <2>1, <2>2, Climb
  <2>4. PICK y \in S : TRUE
    OBVIOUS
  <2>5. y + n <= n /\ y \in Nat /\ 1 <= y
    BY <2>3
  <2> QED BY <2>5
<1>2. PICK last \in S : \A y \in S : last >= y
  BY <1>1
<1> DEFINE max == Max(S)
<1>3. max \in S /\ \A y \in S : max >= y
  BY <1>2, Zenon DEF Max
<1> HIDE DEF max
<1>4. max \in Nat /\ \A y \in S : y \in Nat
  BY <1>3
<1>5. max \in S /\ \A y \in S : y <= max
  BY <1>3, <1>4
<1> QED BY <1>5 DEF max

(* Records that do not name a key leave its value along the walk.          *)
LEMMA Unnamed ==
  ASSUME NEW states \in Seq(Databases), NEW records \in Seq(Record),
         Walk(states, records), NEW k \in Keys,
         NEW p \in Nat, NEW n \in Nat, p <= n, n < Len(states),
         \A i \in (p + 1)..n : records[i].key # k
  PROVE  states[n + 1][k] = states[p + 1][k]
<1> DEFINE Same == {m \in Nat : p <= m /\ m <= n => states[m + 1][k] = states[p + 1][k]}
<1>1. 0 \in Same
  OBVIOUS
<1>2. ASSUME NEW m \in Nat, m \in Same PROVE m + 1 \in Same
  <2> SUFFICES ASSUME p <= m + 1, m + 1 <= n
               PROVE  states[m + 2][k] = states[p + 1][k]
    OBVIOUS
  <2>1. CASE p = m + 1
    BY <2>1
  <2>2. CASE p <= m
    <3>1. states[m + 1][k] = states[p + 1][k]
      BY <1>2, <2>2
    <3>2. /\ m + 1 \in 1..Len(records)
          /\ states[m + 2] = Effect(states[m + 1], records[m + 1])
      BY WalkStep
    <3>3. records[m + 1].key # k /\ states[m + 1] \in Databases
      BY <2>2
    <3>4. states[m + 2][k] = states[m + 1][k]
      BY <3>2, <3>3 DEF Effect, Databases
    <3> QED BY <3>1, <3>4
  <2> QED BY <2>1, <2>2
<1>3. n \in Same
  <2> HIDE DEF Same
  <2> QED BY <1>1, <1>2, Climb
<1> QED BY <1>3

(* What a replay of the first n records over any database leaves: where    *)
(* they name the key, the walk's value; elsewhere what was there before.   *)
LEMMA Replaced ==
  ASSUME NEW states \in Seq(Databases), NEW records \in Seq(Record),
         Walk(states, records), NEW k \in Keys, NEW db \in Databases,
         NEW n \in Nat, n < Len(states)
  PROVE  ValueAfter(db, records, n, k)
           = IF \E i \in 1..n : records[i].key = k THEN states[n + 1][k] ELSE db[k]
<1> DEFINE naming == {i \in 1..n : records[i].key = k}
<1>1. CASE naming = {}
  BY <1>1 DEF ValueAfter
<1>2. CASE naming # {}
  <2> DEFINE m == Max(naming)
  <2>1. m \in naming /\ \A y \in naming : y <= m
    <3>1. naming \in SUBSET (1..n)
      OBVIOUS
    <3> HIDE DEF naming
    <3> QED BY <1>2, <3>1, MaxIsLast
  <2>2. ValueAfter(db, records, n, k) = Effect(db, records[m])[k]
    BY <1>2 DEF ValueAfter
  <2> HIDE DEF m
  <2>3. m \in 1..n /\ records[m].key = k /\ m \in Nat /\ m - 1 \in Nat
    BY <2>1
  <2>4. \A i \in (m + 1)..n : records[i].key # k
    BY <2>1, <2>3
  <2>5. states[n + 1][k] = states[m + 1][k]
    BY <2>3, <2>4, Unnamed
  <2>6. /\ m \in 1..Len(records) /\ states[m] \in Databases
        /\ states[m + 1] = Effect(states[m], records[m])
    BY <2>3 DEF Walk
  <2>7. Effect(states[m], records[m])[k] = Effect(db, records[m])[k]
    BY <2>3, <2>6 DEF Effect, Databases
  <2> QED BY <2>2, <2>3, <2>5, <2>6, <2>7
<1> QED BY <1>1, <1>2

(* Replaying the file over the state it began with walks along its list    *)
(* and never throws.                                                       *)
LEMMA ReplayWalks ==
  ASSUME NEW states \in Seq(Databases), NEW records \in Seq(Record),
         Walk(states, records), Len(states) = Len(records) + 1
  PROVE  /\ ~ReplayThrows(states[1], records)
         /\ Replayed(states[1], records) = states[Len(states)]
<1>1. ASSUME NEW n \in Nat, n < Len(states)
      PROVE  [k \in Keys |-> ValueAfter(states[1], records, n, k)] = states[n + 1]
  <2>1. states[1] \in Databases /\ states[n + 1] \in Databases
    BY <1>1
  <2>2. ASSUME NEW k \in Keys
        PROVE  ValueAfter(states[1], records, n, k) = states[n + 1][k]
    <3>1. CASE \E i \in 1..n : records[i].key = k
      BY <1>1, <2>1, <3>1, Replaced
    <3>2. CASE \A i \in 1..n : records[i].key # k
      <4>1. states[n + 1][k] = states[1][k]
        <5>1. /\ 0 \in Nat /\ 0 <= n /\ 0 + 1 = 1
              /\ \A i \in (0 + 1)..n : records[i].key # k
          BY <1>1, <3>2
        <5>2. states[n + 1][k] = states[0 + 1][k]
          BY <1>1, <5>1, Unnamed
        <5> QED BY <5>1, <5>2
      <4> QED BY <1>1, <2>1, <3>2, <4>1, Replaced
    <3> QED BY <3>1, <3>2
  <2> QED BY <2>1, <2>2 DEF Databases
<1>2. ~ReplayThrows(states[1], records)
  <2> SUFFICES ASSUME NEW i \in 1..Len(records)
               PROVE  ~Throws([k \in Keys |-> ValueAfter(states[1], records, i - 1, k)],
                              records[i])
    <3>1. DOMAIN records = 1..Len(records)
      OBVIOUS
    <3> QED BY <3>1, Zenon DEF ReplayThrows
  <2>1. i - 1 \in Nat /\ i - 1 < Len(states) /\ (i - 1) + 1 = i
    OBVIOUS
  <2>2. [k \in Keys |-> ValueAfter(states[1], records, i - 1, k)] = states[i]
    BY <1>1, <2>1
  <2>3. ~Throws(states[i], records[i])
    BY DEF Walk
  <2> QED BY <2>2, <2>3
<1>3. Replayed(states[1], records) = states[Len(states)]
  BY <1>1 DEF Replayed
<1> QED BY <1>2, <1>3

(* Replaying it over the state it ended in throws or changes nothing.      *)
LEMMA ReplayAgain ==
  ASSUME NEW states \in Seq(Databases), NEW records \in Seq(Record),
         Walk(states, records), Len(states) = Len(records) + 1
  PROVE  Replayed(states[Len(states)], records) = states[Len(states)]
<1> DEFINE end == states[Len(states)]
<1>1. end \in Databases /\ Len(records) \in Nat
  OBVIOUS
<1>2. ASSUME NEW k \in Keys PROVE ValueAfter(end, records, Len(records), k) = end[k]
  BY <1>1, Replaced
<1> QED BY <1>1, <1>2 DEF Replayed, Databases

(* A file that does not exist, or that a kill cut short, adds nothing.     *)
LEMMA MergedAbsent ==
  ASSUME NEW db \in Databases
  PROVE  Merged(db, Absent) = db
<1>1. Records(Absent) = <<>>
  BY DEF Records
<1>2. \A k \in Keys : ValueAfter(db, <<>>, 0, k) = db[k]
  BY DEF ValueAfter
<1>3. Replayed(db, <<>>) = db
  BY <1>2 DEF Replayed, Databases
<1> QED BY <1>1, <1>3 DEF Merged

LEMMA MergedTorn ==
  ASSUME NEW db \in Databases, NEW file \in Seq(Record), file # Absent,
         file # <<>>, file[Len(file)].op = "torn"
  PROVE  Merged(db, file) = db
<1>1. Len(file) \in DOMAIN file
  OBVIOUS
<1>2. ReplayThrows(db, file)
  BY <1>1 DEF ReplayThrows, Throws
<1> QED BY <1>2 DEF Merged, Records

LEMMA MergedWalk ==
  ASSUME NEW states \in Seq(Databases), NEW file \in Seq(Record), file # Absent,
         Walk(states, file), Len(states) = Len(file) + 1,
         NEW db \in {states[1], states[Len(states)]}
  PROVE  Merged(db, file) = states[Len(states)]
<1>1. CASE db = states[1]
  BY <1>1, ReplayWalks DEF Merged, Records
<1>2. CASE db = states[Len(states)]
  BY <1>2, ReplayAgain DEF Merged, Records
<1> QED BY <1>1, <1>2

(***************************************************************************)
(* The recoverable documents.                                              *)
(***************************************************************************)
Recoverable == Documents = Target

(* Whatever the threads are doing, the files hold what was promised.       *)
LEMMA DocumentsAreTarget == IInv => Recoverable
<1> SUFFICES ASSUME IInv PROVE Documents = Target
  BY DEF Recoverable
<1>1. /\ promised \in Seq(Databases) /\ Len(promised) >= 1
      /\ rotated \in Seq(Databases)
      /\ Head1 \in Databases /\ Latest \in Databases /\ Target \in {Head1, Latest}
      /\ closed \in Seq(Record) \cup {Absent}
      /\ journal \in Seq(Record) \cup {Absent}
  BY DEF IInv, TypeOK, Head1, Latest, Target
<1>2. CASE BothWaitToBeUnlinked
  BY <1>2 DEF IInv, BothWaitToBeUnlinked, Documents, Merges, AfterJournal
<1>3. CASE ~BothWaitToBeUnlinked
  <2> DEFINE first == Merged(BaseValue, closed)
  <2>1. closed = Absent => BaseValue \in {Head1, Target} /\ first = BaseValue
    BY <1>1, MergedAbsent DEF IInv, BaseFile
  <2>2. ASSUME closed # Absent PROVE first = Head1
    <3>1. /\ Len(rotated) = Len(closed) + 1 /\ Walk(rotated, closed)
          /\ rotated[Len(rotated)] = Head1
      BY <2>2 DEF IInv, ClosedFile
    <3>2. BaseValue \in {rotated[1], rotated[Len(rotated)]}
      <4>1. ASSUME main = "unlinkclosed", BaseValue = Target PROVE Target = Head1
        <5>1. "closed" \in replayed
          BY <2>2, <4>1 DEF IInv, Replays, AfterClosed
        <5>2. "journal" \notin replayed
          BY <1>3, <4>1, <5>1 DEF IInv, TypeOK, BothWaitToBeUnlinked
        <5>3. journal = Absent
          BY <4>1, <5>2 DEF IInv, Replays, AfterJournal
        <5> QED BY <2>2, <5>3 DEF IInv, NoJournalFile
      <4> QED BY <2>2, <3>1, <4>1 DEF IInv, BaseFile
    <3> QED BY <1>1, <2>2, <3>1, <3>2, MergedWalk
  <2>3. first \in {Head1, Target} /\ first \in Databases
    BY <1>1, <2>1, <2>2
  <2>4. Documents = Merged(first, journal)
    BY <1>3 DEF Documents, Recovered
  <2> HIDE DEF first
  <2>5. CASE journal = Absent
    <3>1. first = Target
      BY <2>1, <2>2, <2>3, <2>5 DEF IInv, NoJournalFile
    <3> QED BY <2>3, <2>4, <2>5, <3>1, MergedAbsent
  <2>6. CASE journal # Absent /\ cut
    <3>1. /\ Len(journal) = Len(promised) /\ journal[Len(journal)].op = "torn"
          /\ journal \in Seq(Record) /\ journal # <<>>
      BY <1>1, <2>6 DEF IInv, JournalFile
    <3>2. Merged(first, journal) = first
      BY <2>3, <2>6, <3>1, MergedTorn
    <3> QED BY <2>3, <2>4, <2>6, <3>2 DEF Target
  <2>7. CASE journal # Absent /\ ~cut
    <3>1. /\ Len(promised) = Len(journal) + 1 /\ Walk(promised, journal)
          /\ journal \in Seq(Record)
      BY <1>1, <2>7 DEF IInv, JournalFile
    <3>2. first \in {promised[1], promised[Len(promised)]}
      BY <2>3, <2>7 DEF Target, Head1, Latest
    <3>3. Merged(first, journal) = Latest
      BY <1>1, <2>7, <3>1, <3>2, MergedWalk DEF Latest
    <3> QED BY <2>4, <2>7, <3>3 DEF Target
  <2> QED BY <2>5, <2>6, <2>7
<1> QED BY <1>2, <1>3

(***************************************************************************)
(* The steps.                                                              *)
(***************************************************************************)
Appends == \E r \in Record : AppendRecord(r)

(* Only an append changes what the journals promise.                       *)
LEMMA TargetKept ==
  ASSUME NoLoss, ~TornAppends
  PROVE  IInv /\ Next /\ ~Appends => Target' = Target
<1> SUFFICES ASSUME IInv, Next, ~Appends PROVE Target' = Target
  OBVIOUS
<1> USE DEF Target, Head1, Latest, history
<1>1. CASE Initialize
  <2>1. CASE OpenJournal
    <3>1. database = Target
      BY <2>1 DEF IInv, OpenJournal, Merges
    <3>2. promised' = <<database>> /\ cut' = FALSE
      BY <2>1 DEF OpenJournal
    <3> QED BY <3>1, <3>2
  <2>2. CASE ~OpenJournal
    BY <1>1, <2>2
    DEF Initialize, Start, LoadBase, LoadDamagedBase, SkipMissingJournal,
        ReplayRecord, ReplayFails, ReplayDone, NothingToRollOver, BeginSnapshot,
        EndSnapshot, SnapshotFails, InstallSnapshot, UnlinkClosed, UnlinkJournal
  <2> QED BY <2>1, <2>2
<1>2. CASE Request
  BY <1>2 DEF Request, Appends, Receive, ApplyRecord, Answer
<1>3. CASE Tick
  <2>1. CASE TickRotates
    <3>1. promised' = <<promised[Len(promised)]>> /\ cut' = cut
      BY <2>1 DEF TickRotates
    <3>2. ~cut
      BY <2>1 DEF IInv, TickRotates, Serves, Running
    <3> QED BY <3>1, <3>2
  <2>2. CASE TickKeeps
    BY <2>2 DEF TickKeeps
  <2> QED BY <1>3, <2>1, <2>2 DEF Tick
<1>4. CASE Rollover \/ Shutdown \/ Crash
  BY <1>4
  DEF Rollover, ReopenJournal, LaunchWorker, NothingToLaunch, Shutdown,
      BeginShutdown, FinishShutdown, Crash
<1>5. CASE Worker
  BY <1>5
  DEF Worker, WorkerLoads, WorkerLoadCancelled, WorkerFindsDamage, WorkerThrows,
      WorkerReplays, WorkerReplayFails, WorkerReplayReturns, WorkerChecksCancel,
      WorkerBeginsSnapshot, WorkerEndsSnapshot, WorkerDropsSnapshot,
      WorkerInstalls, WorkerUnlinks, WorkerClears
<1>6. ~ \E r \in Record : CrashInAppend(r)
  BY DEF CrashInAppend
<1> QED BY <1>1, <1>2, <1>3, <1>4, <1>5, <1>6 DEF Next

(* What a client sees of the main thread moves as Store allows: a request  *)
(* begins, goes on to its next item, or ends.                              *)
RequestMoves ==
  \/ Requested' = Requested
  \/ Requested \in {"none", "written"} /\ Requested' \in Operations
  \/ Requested # "none" /\ Requested' = "none"

LEMMA RequestKept == IInv /\ Next /\ ~Appends => RequestMoves
<1> SUFFICES ASSUME IInv, Next, ~Appends PROVE RequestMoves
  OBVIOUS
<1> USE DEF RequestMoves, Requested, Handling
<1>1. ASSUME main' = "down" PROVE RequestMoves
  BY <1>1
<1>2. CASE Initialize
  BY <1>1, <1>2
  DEF Initialize, Start, LoadBase, LoadDamagedBase, SkipMissingJournal,
      ReplayRecord, ReplayFails, ReplayDone, NothingToRollOver, BeginSnapshot,
      EndSnapshot, SnapshotFails, InstallSnapshot, UnlinkClosed, UnlinkJournal,
      OpenJournal, AfterReplay, ProcessEnds
<1>3. CASE Request
  <2>1. CASE ApplyRecord
    BY <2>1 DEF IInv, ApplyRecord, Threads, Operations
  <2>2. ASSUME NEW op \in Handling, Receive(op) PROVE RequestMoves
    BY <2>2 DEF Receive, Operations
  <2>3. CASE Answer
    BY <2>3 DEF Answer
  <2> QED BY <1>3, <2>1, <2>2, <2>3 DEF Request, Appends
<1>4. CASE Tick \/ Rollover \/ Shutdown \/ Crash
  BY <1>1, <1>4
  DEF Tick, TickRotates, TickKeeps, Rollover, ReopenJournal, LaunchWorker,
      NothingToLaunch, Shutdown, BeginShutdown, FinishShutdown, Crash, ProcessEnds
<1>5. CASE Worker
  BY <1>1, <1>5
  DEF Worker, WorkerLoads, WorkerLoadCancelled, WorkerFindsDamage, WorkerThrows,
      WorkerReplays, WorkerReplayFails, WorkerReplayReturns, WorkerChecksCancel,
      WorkerBeginsSnapshot, WorkerEndsSnapshot, WorkerDropsSnapshot,
      WorkerInstalls, WorkerUnlinks, WorkerClears, ProcessEnds
<1>6. CASE \E r \in Record : CrashInAppend(r)
  BY <1>1, <1>6 DEF CrashInAppend, ProcessEnds
<1> QED BY <1>2, <1>3, <1>4, <1>5, <1>6 DEF Next

(* An append is the write its request asked for.                           *)
LEMMA AppendIsAWrite ==
  ASSUME NEW r \in Record
  PROVE  IInv /\ AppendRecord(r) /\ Recoverable /\ Recoverable' => TheStore!Next
<1> SUFFICES ASSUME IInv, AppendRecord(r), Documents = Target, Documents' = Target'
             PROVE  TheStore!Next
  BY DEF Recoverable
<1>1. /\ main \in Handling /\ MayWrite(r) /\ r.op = main
      /\ r.key \in Keys /\ r.doc \in Docs /\ main' = "apply"
      /\ promised' = Append(promised, Effect(database, r)) /\ cut' = cut
  BY DEF AppendRecord, MayWrite, Record
<1>2. ~cut /\ database = Latest /\ database \in Databases
  BY <1>1 DEF IInv, TypeOK, Serves, Running, Handling
<1>3. Documents = database
  BY <1>2 DEF Target
<1>4. Documents' = Effect(database, r)
  <2>1. promised \in Seq(Databases) /\ Effect(database, r) \in Databases
    BY <1>2, EffectType DEF IInv, TypeOK
  <2>2. promised'[Len(promised')] = Effect(database, r)
    BY <1>1, <2>1, AppendType
  <2> QED BY <1>1, <1>2, <2>2 DEF Target, Latest
<1>5. Requested = r.op /\ Requested' = "written"
  BY <1>1 DEF Requested, Handling
<1>6. CASE r.op = "insert"
  <2>1. TheStore!Insert(r.key, r.doc)
    BY <1>1, <1>3, <1>4, <1>5, <1>6 DEF TheStore!Insert, MayWrite, Effect
  <2> QED BY <1>1, <2>1 DEF TheStore!Next
<1>7. CASE r.op = "update"
  <2>1. TheStore!Update(r.key, r.doc)
    BY <1>1, <1>3, <1>4, <1>5, <1>7 DEF TheStore!Update, MayWrite, Effect
  <2> QED BY <1>1, <2>1 DEF TheStore!Next
<1>8. CASE r.op = "erase"
  <2>1. database[r.key] # NoDoc
    BY <1>1, <1>8, DocsAssumption DEF MayWrite
  <2>2. TheStore!Erase(r.key)
    BY <1>1, <1>3, <1>4, <1>5, <1>8, <2>1 DEF TheStore!Erase, Effect
  <2> QED BY <1>1, <2>2 DEF TheStore!Next
<1> QED BY <1>1, <1>6, <1>7, <1>8 DEF Handling

(* The documents a start would recover change exactly as Store says: item  *)
(* by item, as the request being handled asks, and through no rotation,    *)
(* merge, kill or restart (source/service.cc, include/journal.h), if       *)
(* snapshots can be written, no kill falls between the rename of base and  *)
(* the removal of both journals, and none cuts a record short.             *)
THEOREM StoreIsImplemented ==
  ASSUME NoLoss, ~TornAppends
  PROVE  Spec => ImplementsStore
<1>1. IInv /\ [Next]_vars => IInv'
  BY InvNext
<1>2. IInv => Recoverable
  BY DocumentsAreTarget
<1>3. Init => TheStore!Init
  <2> SUFFICES ASSUME Init PROVE TheStore!Init
    OBVIOUS
  <2>1. Documents = Target
    BY InvInit, DocumentsAreTarget DEF Recoverable
  <2>2. Target = EmptyDatabase
    BY DEF Init, Target, Head1, Latest
  <2>3. Requested = "none"
    BY DEF Init, Requested, Handling
  <2> QED BY <2>1, <2>2, <2>3 DEF TheStore!Init, TheStore!EmptyDatabase, EmptyDatabase
<1>4. IInv /\ Recoverable /\ Recoverable' /\ [Next]_vars
        => [TheStore!Next]_<<Documents, Requested>>
  <2> SUFFICES ASSUME IInv, Recoverable, Recoverable', [Next]_vars
               PROVE  [TheStore!Next]_<<Documents, Requested>>
    OBVIOUS
  <2>1. CASE Next /\ ~Appends
    <3>1. Documents' = Documents /\ RequestMoves
      BY <2>1, TargetKept, RequestKept DEF Recoverable
    <3> QED
      BY <3>1
      DEF RequestMoves, Operations, TheStore!Next, TheStore!Receive,
          TheStore!Continue, TheStore!Finish, TheStore!Operations
  <2>2. ASSUME NEW r \in Record, AppendRecord(r) PROVE TheStore!Next
    BY <2>2, AppendIsAWrite
  <2>3. CASE UNCHANGED vars
    <3>1. Documents' = Documents /\ Requested' = Requested
      BY <2>3 DEF Recoverable, vars, history, Target, Head1, Latest, Requested
    <3> QED BY <3>1
  <2> QED BY <2>1, <2>2, <2>3 DEF Appends
<1> QED BY <1>1, <1>2, <1>3, <1>4, InvInit, PTL DEF Spec, ImplementsStore, TheStore!Spec
=============================================================================
