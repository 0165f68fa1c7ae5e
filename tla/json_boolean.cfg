SPECIFICATION Spec
CONSTANTS
  Numbers <- MCNumbers
  IntBits = 10
  SizeBits = 16
  MaxHeaders = 4
  Methods <- MCMethods
  Reasons <- MCReasons
  LowerCase <- MCLowerCase
  TrueByte = 64
  FalseByte = 96
  Threads = {c1}
  Strangers = {}
  Draws <- MCDraws
  InsertLists <- BooleanLists
  Documents <- MCDocuments
  Letters <- MCLetters
  Users <- MCUsers
  Hash <- MCHash
  Base64 <- MCBase64
  Account <- MCAccount
  MaxPayload = 59
  MaxEvents = 2
CHECK_DEADLOCK FALSE
INVARIANT RestartKeepsDocuments
