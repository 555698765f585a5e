SPECIFICATION RaftSpec
CONSTANTS
  RaftNodes = {1, 2, 3}
  SipNodes = {1}
  Candidates = {1, 2}
  RaftDialogs = {}
  WriteQueueDepth = 1
  MaxTerm = 2
  MaxRaftWrites = 2
  MaxRestarts = 1
INVARIANTS AppliedAgree
CHECK_DEADLOCK FALSE
