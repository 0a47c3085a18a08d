CONSTANTS
  r1 = r1
  r2 = r2
  n1 = n1
  p1 = p1
  p2 = p2
  Half = 4
  Requests = {r1, r2}
  Notifies = {n1}
  Pushes = {p1, p2}
  RouteOf <- MCRouteOf
  BodyOf <- MCBodyOf
  Dicts <- MCDicts
  FirstIds = {0, 2, 14}
SPECIFICATION FairSpec
INVARIANTS TypeOK ServerReadsCalls RightAnswer RightEvent NeverStopped
PROPERTIES AnswersArrive
CHECK_DEADLOCK FALSE
