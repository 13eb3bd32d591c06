SPECIFICATION Spec
CONSTANTS
  a1 = a1
  a2 = a2
  k1 = k1
  k2 = k2
  w1 = w1
  w2 = w2
  c1 = c1
  Address = {a1}
  Key = {k1, k2}
  Word = {w1, w2}
  Acct = {c1}
  Zero = Zero
  NoKey = NoKey
  Absent = Absent
  Unset = Unset
INVARIANTS
  TypeOK
  CacheFromOwnWrites
  WordsAreCached
  ReadsExplained
  Canonical
PROPERTY
  ImplementsContractStore
