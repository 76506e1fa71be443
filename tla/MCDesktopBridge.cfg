SPECIFICATION Spec
CONSTANTS
  Number <- MCNumber
  Allowed = {"friend"}
  Settings <- MCSettings
  MaxEvents = 2
  Worker = {"poller"}
  Profile = {"p1", "p2"}
  MaxConn = 2
  MaxSwitches = 1
  MaxBusFaults = 1
  Client = {"c1", "c2"}
  Logger = {"l1", "l2"}
  maxSize = 1
  MaxLines = 1
  File = {"automation", "notes"}
  MaxVersion = 2
  MaxFailures = 2
  Writer = {"w1", "w2"}
  Id = {"a", "b"}
  None = None
  MaxCalls = 2
  MaxFaults = 1
  SMSFaults = 0
  SIMMessage = {s1}
  MEMessage = {m1}
  MaxSequences = 3
  ICCID = {"p1", "p2"}
  Entries = 2
  Handler = {h1, h2}
  MaxRequests = 3
  MaxNoteFaults = 1
  Preparer = {g1, g2}
  MaxPrompts = 3
  MaxPromptFaults = 2
  MaxCommands = 2
  MaxLate = 1
  Recipient <- MCRecipient
  Chat <- MCChat
  MaxUnanswered = 2
  Recorded <- MCRecorded
  Speech <- MCSpeech
  SpeechRate = {8000, 16000, 22050}
  Parts = {"calls"}
INVARIANTS
  BridgeStopped
CHECK_DEADLOCK FALSE
