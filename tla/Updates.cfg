SPECIFICATION FairSpec
CONSTANTS
  BtcDs = 2
  Notify <- Second
  Zmq <- First
  Retries = 1
  SubmitTries = 2
  MaxHeight = 1
  MaxEvents = 2
INVARIANTS OneUpdate SolvedAccepted
PROPERTIES WorkFollows FailsBack
CHECK_DEADLOCK FALSE
