SPECIFICATION Spec
CONSTANTS
  c1 = c1  c2 = c2
  MaxId = 3
  Structs = {c1, c2}
  Fds = {4, 5}
  NoStruct = NoStruct  NoFd = NoFd
  MaxClients = 2
  MaxSends = 2
  Passthrough = FALSE
  Commands = {"dropclient", "testclient", "accept"}
INVARIANTS RefsCounted FdsOwned OldestFirst DropsTold
PROPERTY ReclaimsLazily
CHECK_DEADLOCK FALSE
