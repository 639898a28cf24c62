------------------------ MODULE MCStratifierClients ------------------------
(* Instances of StratifierClients for TLC.                                   *)
EXTENDS StratifierClients, TLC

CONSTANTS k1, k2, k3, s1, s2, s3, u1, u2   \* model values

MCSymmetry == Permutations(Ids) \union Permutations(Insts)

\* The structs of up are the instances of open connections, in the order s1,
\* s2, s3; each has subscribed, and those of auth have authorised as u1.  The
\* other connections in live are open too, the rest are over.  m messages were
\* sent.  Spec reaches such a state from Init with two messages a client.
IdOf == (s1 :> k1) @@ (s2 :> k2) @@ (s3 :> k3)
Rank == (s1 :> 1) @@ (s2 :> 2) @@ (s3 :> 3)

Start(live, up, auth, m) ==
    /\ conn = [id \in Ids |-> IF id \in live THEN "open" ELSE "closed"]
    /\ evt = NoId /\ msgs = m
    /\ connq = <<>> /\ sends = {}
    /\ recvq = <<>> /\ authq = <<>> /\ shareq = <<>> /\ loopq = <<>>
    /\ inst = [s \in Insts |->
                 IF s \in up
                 THEN [Cleared EXCEPT !.id = IdOf[s], !.enonce = Rank[s], !.useragent = TRUE,
                                      !.subscribed = TRUE, !.authorised = s \in auth,
                                      !.user = IF s \in auth THEN u1 ELSE NoUser]
                 ELSE Cleared]
    /\ table = up /\ before = {p \in up \X up : Rank[p[1]] < Rank[p[2]]}
    /\ sessions = {} /\ enonce1 = Cardinality(up) /\ failed = {}
    /\ workers = [u \in Users |-> IF u = u1 THEN Cardinality(auth) ELSE 0]
    /\ nworkers = Cardinality(auth) /\ nusers = IF auth = {} THEN 0 ELSE 1
    /\ pc = [t \in Threads |-> "idle"] /\ hold = [t \in Threads |-> NoInst]
    /\ adding = NoInst /\ took = 0 /\ tmp = NoInst /\ admin = 0
    /\ todo = [w \in {"stats", "bcast"} |-> {}]

\* Every struct is in service.
Serving(m) == \E auth \in SUBSET Insts : Start(Ids, Insts, auth, m)

ServingSpec == Serving(0) /\ [][Next]_vars

\* A pool in service whose miners are silent; or a first connection.
ServingOrNewSpec == (Serving(MaxMsgs) \/ Start({k1}, {}, {}, 0)) /\ [][Next]_vars
=============================================================================
