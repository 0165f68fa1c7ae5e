SPECIFICATION FairSpec
CONSTANTS
  Numbers <- MCNumbers
  IntBits = 10
  SizeBits = 16
  MaxHeaders = 4
  Methods <- MCMethods
  Reasons <- MCReasons
  LowerCase <- MCLowerCase
  TrueByte = 64
  FalseByte = 96
  Threads = {c1, c2}
  Strangers = {s}
  Draws <- MCDraws
  InsertLists <- MCInsertLists
  Documents <- MCDocuments
  Letters <- MCLetters
  Users <- MCUsers
  Hash <- MCHash
  Base64 <- MCBase64
  Account <- MCAccount
  MaxPayload = 59
  MaxEvents = 3
CHECK_DEADLOCK FALSE
INVARIANTS TypeOK CutsDoNotMatter MirrorsAgree ExecutedOnce RestartKeepsDocuments
PROPERTIES ResultsMatchMirror OnlyCallsChangeDocuments EveryCallEnds
