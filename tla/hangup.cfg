CONSTANTS
  t1 = t1
  t2 = t2
  t3 = t3
  Capacity = 1
  Messages = {m1}
  None = None
  Empty = Empty
  Vacant = Vacant
  Threads = {t1, t2, t3}
  Slots = {1, 2}
  Senders = {s1}
  Receivers = {r1, r2}
  TxAtStart = {s1}
  RxAtStart = {r1, r2}
  Calls <- HangupCalls
  SharedRecv = FALSE
SPECIFICATION FairSpec
PROPERTY HangupEndsRecv
PROPERTY CallsEnd
CHECK_DEADLOCK FALSE
