SPECIFICATION Spec
CONSTANTS
  n1 = n1
  n2 = n2
  opener = opener
  b1 = b1
  b2 = b2
  Request = {r1, r2, r3}
  Absent = Absent
  Normal = {n1, n2}
  High = {}
  Sender = {s1}
  NoCaller = NoCaller
  CmdChanLen = 1
  RxLen = 1
  Threshold = 2
  MaxATFlaws = 1
  Call = {k1, k2}
  Proxied = TRUE
  MaxFrags = 2
  QueueLen = 1
  MaxIndications = 2
  MaxInbox = 3
  MaxFlaws = 1
  Texts <- MCTexts
  Slots = 2
  NoPart = NoPart
  MaxMishaps = 1
  User = {b1, b2}
  Requested <- MCRequested
  Index = {0, 1}
  MaxMessages = 2
  MaxFailedCommands = 1
  Nothing = Nothing
  Network <- MCNetwork
  MaxChanges = 2
  MaxTime = 2
  MaxFailures = 2
  NoReading = NoReading
SYMMETRY Callers
INVARIANTS
  CommandsServed
  SilenceNoticed
  EndpointKept
  QuietOwnAnswer
  SMSWhole
  
  
CHECK_DEADLOCK FALSE
