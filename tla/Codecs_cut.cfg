SPECIFICATION Spec
CONSTANTS
  Base = 2
  IdLength = 2
  Infos <- SmallInfos
  Heartbeats <- SmallHeartbeats
INVARIANTS TypeOK RoundTrip TruncationIsNoticed CutHeartbeatIsForeign
CHECK_DEADLOCK FALSE
