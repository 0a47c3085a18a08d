CONSTANTS
  c1 = c1
  c2 = c2
  r1 = r1
  r2 = r2
  n1 = n1
  e1 = e1
  disconnect = disconnect
  main = main
  none = none
  Clients = {c1}
  Requests = {r1}
  Notifies = {}
  Events = {disconnect, e1}
  DisconnectEvent = disconnect
  Main = main
  None = none
  ListenerContexts = {"connect", "request"}
  DisconnectContexts = {"request"}
  Signals = {}
  ServerMayClose = TRUE
  QuietDisconnect = TRUE
  QueueMax = 1
  PipeMax = 6
  RecvMax = 2
SPECIFICATION FairSpec
PROPERTIES ImplementsMailbox LuaCallsReturn ConnectAnswered
CHECK_DEADLOCK FALSE
