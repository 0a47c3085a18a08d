CONSTANTS
  r1 = r1
  r2 = r2
  n1 = n1
  Requests = {r1, r2}
  Notifies = {n1}
  ConnMax = 1
  EnableReconnect = FALSE
  Apis = {"connect", "connect2", "connect3"}
  Handshakes = {"beat", "quiet", "bad"}
  NetworkFails = TRUE
SPECIFICATION FairSpec
INVARIANTS TypeOK ClosedForGood HeartbeatWatched ConnectToldOnce MapHoldsWaiting WrittenIsAnswered AnsweredOnce
PROPERTIES SilenceDetected DestroyReturns
CHECK_DEADLOCK FALSE
