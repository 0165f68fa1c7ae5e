SPECIFICATION FairSpec
CONSTANTS
  small = small
  big = big
  NoDoc = NoDoc
  Absent = Absent
  Damaged = Damaged
  Keys = {k1}
  Docs <- MCDocs
  DocSize <- MCDocSize
  JournalLimit = 1
  MaxJournal = 2
  Crashes = TRUE
  CleanupCrashes = TRUE
  TornAppends = TRUE
  WriteFaults = {"reported", "unnoticed"}
INVARIANT FlagTellsTheWorker
PROPERTY ShutdownCompletes
