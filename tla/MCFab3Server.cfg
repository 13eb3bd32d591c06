SPECIFICATION FairSpec
CONSTANTS
  Conn = {c1, c2, c3}
  MaxSignals = 2
INVARIANTS
  TypeOK
  SdkOutlivesRequests
  CleanExit
PROPERTIES
  SignalEnds
  FailureEnds
