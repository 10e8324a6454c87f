SPECIFICATION Spec
CONSTANTS
  e1 = e1
  e2 = e2
  e3 = e3
  bad = bad
  undated = undated
  c1 = c1
  c2 = c2
  NoEvent = NoEvent
  NoCandidate = NoCandidate
  Event = {e1, e2, e3, bad, undated}
  CandidateId = {c1, c2}
  KeyOf <- Keys
  Rejected = {bad}
  Undated = {undated}
  Page <- Pages
  CommanderFiles <- FilesOfCommander
  Tear = {"nothing", "part", "unterminated"}
  MaxPerMinute = 1
  MaxCalls = 3
  MaxFaults = 2
INVARIANTS
  TypeOK
  DedupInv
  AtMostOneAfterStop
PROPERTIES
  NoSilentLoss
CHECK_DEADLOCK FALSE
