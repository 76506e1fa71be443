SPECIFICATION FairSpec
CONSTANTS
  Caller = {c1, c2, c3}
  MaxGeneration = 2
INVARIANTS
  OneProber
PROPERTIES
  NilMeansProbed
  ParkedWake
