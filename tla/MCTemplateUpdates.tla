------------------------- MODULE MCTemplateUpdates -------------------------
(* Instances of TemplateUpdates for TLC.                                      *)
EXTENDS TemplateUpdates

\* The polled bitcoind is the best, the other has a zmq endpoint, or the other
\* way round.
First == {1}
Second == {2}
=============================================================================
