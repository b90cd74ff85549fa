SPECIFICATION FairSpec
CONSTANTS
  r1 = r1
  r2 = r2
  r3 = r3
  s1 = s1
  Requests = {r1, r2, r3}
  Names = {s1}
  Service <- Named
  Inner <- Nested
  Malformed = {r2}
  Stuck = {r2}
  MayEnd <- Ends
  MaxWorkers = 1
  None = None
INVARIANTS TypeOK RefusedOnlyWhileRegistering
PROPERTIES RemoteCallSpec EveryRequestIsReceived EveryRequestIsAnswered StoppedServerEnds
CHECK_DEADLOCK FALSE
