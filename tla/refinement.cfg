CONSTANTS
  Capacity = 2
  Messages = {m1, m2, m3}
  None = None
  Empty = Empty
  Vacant = Vacant
  Threads = {t1, t2}
  Slots = {1, 2}
  Senders = {s1, s2}
  Receivers = {r1, r2}
  TxAtStart = {s1}
  RxAtStart = {r1}
  Calls <- EveryCall
  SharedRecv = FALSE
SPECIFICATION SSpec
SYMMETRY Symmetry
PROPERTY ImplementsChannel
CHECK_DEADLOCK FALSE
