SPECIFICATION FairSpec
CONSTANTS
  s1 = s1
  s2 = s2
  o1 = o1
  aka = aka
  exc = exc
  qa = qa
  qb = qb
  qc = qc
  b1 = b1
  w1 = w1
  Client = {aka, exc, qa}
  IdleWaiter = {}
  RawRequest <- MCRawRequest
  Hung = {}
  MaxSessions = 1
  MaxQMITransports = 2
PROPERTIES
  AgedServed
