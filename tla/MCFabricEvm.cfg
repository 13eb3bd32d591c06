SPECIFICATION FairSpec
CONSTANTS
  a = a
  b = b
  n1 = n1
  n2 = n2
  n3 = n3
  s = s
  t = t
  Contract = {a, b, n1, n2, n3}
  Slot = {s, t}
  Word = {1, 2}
  Zero = 0
  Id = {1, 2, 3}
  MaxTx = 3
  NewContract <- MCNewContract
  Request <- MCRequest
  Stored <- MCStored
  Reverts <- MCReverts
  Genesis <- MCGenesis
  ZeroAddress = ZeroAddress
  NoHeir = NoHeir
  NoRequest = NoRequest
  NoKey = NoKey
  Record = Record
  Absent = Absent
  NoVersion = NoVersion
  Unset = Unset
  MaxBlock = 2
  MaxCopies <- MCMaxCopies
  Asks <- MCAsks
  Lag = 1
INVARIANTS
  TypeOK
  ToldTruth
  OneUpdatePerVersion
  ConflictsExplained
PROPERTIES
  ImplementsSerialEvm
  SendAnswered
