CONSTANTS
  r1 = r1
  r2 = r2
  n1 = n1
  Requests = {r1}
  Notifies = {}
  ConnMax = 3
  EnableReconnect = TRUE
  Apis = {"connect3"}
  Handshakes = {"beat", "quiet", "bad"}
  NetworkFails = TRUE
SPECIFICATION Spec
INVARIANTS OneConnection ConnectToldOnce MapHoldsWaiting
CHECK_DEADLOCK FALSE
