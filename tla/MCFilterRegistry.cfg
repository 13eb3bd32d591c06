SPECIFICATION FairSpec
CONSTANTS
  h1 = h1
  h2 = h2
  h3 = h3
  f1 = f1
  f2 = f2
  Handler = {h1, h2}
  Args = {f1, f2}
  MaxSeq = 2
  MaxId = 2
  Free = Free
  None = None
  Bad = Bad
INVARIANTS
  TypeOK
  DistinctIds
  RemovedOnce
  GrantedStaysInstalled
PROPERTIES
  ImplementsFilterStore
  EveryRequestAnswered
