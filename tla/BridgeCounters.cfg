CONSTANTS
  c1 = c1
  c2 = c2
  r1 = r1
  r2 = r2
  n1 = n1
  e1 = e1
  disconnect = disconnect
  main = main
  none = none
  Clients = {c1, c2}
  Requests = {r1}
  Notifies = {}
  Events = {disconnect}
  DisconnectEvent = disconnect
  Main = main
  None = none
  ListenerContexts = {"connect", "request", "event"}
  DisconnectContexts = {"request", "event"}
  Signals = {"term", "wake"}
  ServerMayClose = TRUE
  QuietDisconnect = FALSE
  QueueMax = 1
  PipeMax = 2
  RecvMax = 1
SYMMETRY Symm
SPECIFICATION Spec
INVARIANTS TypeOK TaskCountAccurate NoLostWakeup CallbackKept
CHECK_DEADLOCK FALSE
