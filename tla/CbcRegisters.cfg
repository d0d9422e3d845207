SPECIFICATION FairSpec
CONSTANTS
  c1 = c1
  c2 = c2
  Cbc <- MCCbc
  CbcOrder <- MCCbcOrder
  Reg <- MCReg
  RegOrder <- MCRegOrder
  Fuses <- MCFuses
  Val <- MCVal
  DefaultVal = 0
  Requests <- MCRequests
  Readings <- MCReadings
  cMaxWriteAttempts = 1
  cMaxErrors = 2
  Board = "CBC3FC7"
  Lossy = TRUE
CHECK_DEADLOCK FALSE
INVARIANTS VerifiedWrite CopyTrusted
PROPERTIES CallReturns
