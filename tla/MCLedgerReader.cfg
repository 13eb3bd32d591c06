SPECIFICATION Spec
CONSTANTS
  t1 = t1
  t2 = t2
  a1 = a1
  a2 = a2
  x1 = x1
  x2 = x2
  Blocks <- MCBlocks
  Queries <- MCQueries
  TxId = {t1, t2}
  HexValue = {a1, a2, x1, x2}
  MaxHeight = 4
  MaxLag = 1
  None = None
  Bad = Bad
  Wildcard = Wildcard
INVARIANTS
  TypeOK
  LogsExact
  LatestIsFresh
  SameNameNoInversion
  ReceiptTruthful
  ListedHaveReceipts
