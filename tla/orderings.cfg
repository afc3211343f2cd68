CONSTANTS
  s1 = s1
  s2 = s2
  r1 = r1
  r2 = r2
  Tx = {s1, s2}
  Rx = {r1, r2}
  Starts <- SmallStarts
  Senders = Senders
  Receivers = Receivers
  Connected = Connected
  Buffer = Buffer
SPECIFICATION Spec
INVARIANT SleepersMissNothing
INVARIANT EndIsEmpty
INVARIANT FreedAfterEveryAccess
CHECK_DEADLOCK FALSE
