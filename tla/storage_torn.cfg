SPECIFICATION Spec
CONSTANTS
  small = small
  big = big
  NoDoc = NoDoc
  Absent = Absent
  Damaged = Damaged
  Keys = {k1, k2}
  Docs <- MCDocs
  DocSize <- MCDocSize
  JournalLimit = 1
  MaxJournal = 2
  Crashes = TRUE
  CleanupCrashes = FALSE
  TornAppends = TRUE
  WriteFaults = {}
INVARIANT AnswersSurvive
