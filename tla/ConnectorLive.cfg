SPECIFICATION FairSpec
CONSTANTS
  c1 = c1  c2 = c2
  MaxId = 2
  Structs = {c1, c2}
  Fds = {4, 5}
  NoStruct = NoStruct  NoFd = NoFd
  MaxClients = 2
  MaxSends = 2
  Passthrough = TRUE
  Commands = {"accept"}
PROPERTY SendsDrain
CHECK_DEADLOCK FALSE
