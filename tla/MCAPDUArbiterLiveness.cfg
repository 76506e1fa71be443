SPECIFICATION FairSpec
CONSTANTS
  s1 = s1
  s2 = s2
  o1 = o1
  aka = aka
  exc = exc
  qa = qa
  qb = qb
  qc = qc
  b1 = b1
  w1 = w1
  Client = {s1, s2, o1, qb, b1}
  IdleWaiter = {}
  RawRequest <- MCRawRequest
  Hung = {qb}
  MaxSessions = 1
  MaxQMITransports = 2
INVARIANTS
  WithinLimits
PROPERTIES
  RequestsServed
  BarrierEnters
