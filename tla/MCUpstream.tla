----------------------------- MODULE MCUpstream -----------------------------
EXTENDS StratifierProxies
CONSTANTS c1, c2
MCProxies == 0..1
MCOwners == {[p \in MCProxies |-> 0], [p \in MCProxies |-> p]}
MCMaxSub == [p \in MCProxies |-> 1 - p]
MCUser == [c \in Clients |-> 1]
Spec == ProxyInit /\ [][ProxyNext]_vars
=============================================================================
