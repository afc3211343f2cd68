CONSTANTS
  t1 = t1
  t2 = t2
  t3 = t3
  Capacity = 1
  Messages = {m1, m2}
  None = None
  Empty = Empty
  Vacant = Vacant
  Threads = {t1, t2}
  Slots = {1, 2}
  Senders = {s1, s2}
  Receivers = {r1, r2}
  TxAtStart = {s1}
  RxAtStart = {r1}
  Calls <- AllCalls
  SharedRecv = FALSE
SPECIFICATION Spec
SYMMETRY Symmetry
INVARIANT TypeOK
INVARIANT LifetimeInv
INVARIANT NoUseAfterFree
INVARIANT FreeAssertions
INVARIANT NoLeak
INVARIANT SlotsAreOwned
INVARIANT EachMessageInOnePlace
INVARIANT HangupIsFinal
CHECK_DEADLOCK FALSE
