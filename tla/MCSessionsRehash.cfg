CONSTANTS
  Requests = {r1, r2, r3}
  First = s0
  Account = account
  old = old
  new = new
  Words = {old, new}
  Legacy = legacy
  FirstHashes <- OldHash
  Asks <- AllAsks
  NoAsk = NoAsk
  NoAnswer = NoAnswer
SPECIFICATION FairSpec
PROPERTY ReplacedOnPurpose
CHECK_DEADLOCK FALSE
