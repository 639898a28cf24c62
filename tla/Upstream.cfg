SPECIFICATION Spec
CONSTANTS
  c1 = c1  c2 = c2
  Proxies <- MCProxies
  Configured <- MCProxies
  Owners <- MCOwners
  MaxSub <- MCMaxSub
   PerProxy = 1  MaxQueue = 1  MaxEvents = 2
  Clients = {c1}
  User <- MCUser
  MaxClients = 1
  NoProxy = NoProxy
INVARIANTS  BoundCounted BestAlive
CHECK_DEADLOCK FALSE
