SPECIFICATION Spec
CONSTANTS
  m1 = m1
  Structs = {1, 2}  Parents = {1}  Miners = {m1}
  MaxShares = 2  MaxConns = 3  MaxFds = 2  MaxPings = 1  MaxJobs = 3
  Txns = {1, 2, 3, 4}  Templates <- Singles
  Pool = "pool"  Nodes = {"node"}  Remotes = {"remote"}
  RefRemote = 2  RefLocal = 1  RefReturned = 0
  MaxWorks = 5  MaxUnread = 1  MaxBlocks = 1
  Modes = {"pool", "proxy", "remote"}
  Diffs = {1, 3}  PoolMin = 1  PoolMax = 2  Start = 2  HighDiff = 3  Rental = 3
  Overrides = {1}  WorkerMins = {0}
  ShareThreads = {"share"}  RecvThreads = {"recv"}  MaxFlight = 2
  Lengths = {0, 2}  MaxLines = 3  MaxOpens = 2
  Names = {"addr", "adr", "rig"}  Kind <- Kinds  ScriptLen <- LengthsOf
  Rewards = {1091, 27299, 27300, 312500}  Fees = {0, 20, 500}  HeadLens = {15}
  SigLens = {0, 7}  Enonce1Len = 4  Enonce2Len = 8  MaxTemplates = 2
INVARIANT PartsTogether
CHECK_DEADLOCK FALSE
