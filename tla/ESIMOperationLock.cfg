SPECIFICATION Spec
CONSTANTS
  Reader = {r1}
  Locker = {l1}
  Writer = {w1}
  Nobody = Nobody
  MaxChannels = 3
INVARIANTS
  WaitersAwaitWrite
CHECK_DEADLOCK FALSE
