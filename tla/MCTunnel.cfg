SPECIFICATION FairSpec
CONSTANTS
  Conns = {t1}
  Streams = {s1, s2}
  Nobody = Nobody
INVARIANTS
  TypeOK
  OwnCapture
  PendingIsHeld
  InnerIsNotReplayable
PROPERTIES
  TunnelsEnd
  RequestsSettle
  StopEndsAll
  KeepsCaptures
CHECK_DEADLOCK FALSE
