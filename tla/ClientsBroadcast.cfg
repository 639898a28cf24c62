SPECIFICATION ServingSpec
CONSTANTS
  k1 = k1  k2 = k2  k3 = k3  s1 = s1  s2 = s2  s3 = s3  u1 = u1  u2 = u2
  Ids = {k1, k2, k3}
  Insts = {s1, s2, s3}
  Users = {u1, u2}
  GoodUsers = {u1}
  NoId = NoId  NoInst = NoInst  NoUser = NoUser
  BtcSolo = TRUE
  Walkers = {"bcast"}
  AdminCmds = {}
  MaxMsgs = 0
  MaxQueue = 4
  MaxAdmin = 0
INVARIANT BroadcastComplete
