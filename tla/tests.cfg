CONSTANTS
  p1 = p1
  p2 = p2
  c1 = c1
  c2 = c2
  tx0 = tx0
  tx1 = tx1
  tx2 = tx2
  tx3 = tx3
  rx0 = rx0
  rx1 = rx1
  rx2 = rx2
  m1 = m1
  m2 = m2
  m3 = m3
  Capacity = 1
  Messages = {m1, m2, m3}
  None = None
  Empty = Empty
  Vacant = Vacant
  Threads = {main, p1, p2, c1, c2}
  Slots = {1, 2, 3}
  Senders = {tx0, tx1, tx2, tx3}
  Receivers = {rx0, rx1, rx2}
  TxAtStart = {tx0}
  RxAtStart = {rx0}
  Calls <- AnyCall
  SharedRecv = FALSE
  N = 2
  Main = main
  TxTask <- TxTasks
  RxTask <- RxTasks
  TxName <- TxNames
  RxName <- RxNames
  Data <- ThreeMessages
  Suite <- SmallBuffer
SPECIFICATION PFairSpec
INVARIANT AssertionsHold
INVARIANT OneOverwritePerYield
PROPERTY ProgramsEnd
