SPECIFICATION Spec
CONSTANTS
  c1 = c1
  c2 = c2
  c3 = c3
  k1 = k1
  w1 = w1
  code1 = code1
  AddrOrder <- MCAddrOrder
  KeyOrder <- MCKeyOrder
  Create2Addr <- MCCreate2Addr
  Word = {w1}
  Code = {code1}
  NewAddr = {c1, c2}
  Limits <- OnlyShort
  Zero = Zero
  NoKey = NoKey
  Absent = Absent
  Unset = Unset
  NoCode = NoCode
INVARIANT
  EventWithoutReverted
