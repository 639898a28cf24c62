------------------------- MODULE MCWorkbasesShares -------------------------
(* Instances of WorkbasesShares for TLC.                                      *)
EXTENDS WorkbasesShares

CONSTANTS u1, u2    \* model values

\* The network difficulty rises with each block.
MCNetDiff == [h \in 0..MaxHeight |-> h + 2]
=============================================================================
