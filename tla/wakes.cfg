CONSTANTS
  t1 = t1
  t2 = t2
  t3 = t3
  Capacity = 2
  Messages = {m1, m2, m3}
  None = None
  Empty = Empty
  Vacant = Vacant
  Threads = {t1, t2, t3}
  Slots = {1, 2}
  Senders = {s1}
  Receivers = {r1, r2}
  TxAtStart = {s1}
  RxAtStart = {r1, r2}
  Calls <- PollCalls
  SharedRecv = FALSE
SPECIFICATION Spec
SYMMETRY Symmetry
INVARIANT SleeperIsReachable
INVARIANT WakeIsOwed
INVARIANT HangupReachesSleepers
CHECK_DEADLOCK FALSE
