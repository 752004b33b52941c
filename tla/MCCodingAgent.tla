--------------------------- MODULE MCCodingAgent ----------------------------
EXTENDS CodingAgent, TLC

CONSTANTS a1, w1, k1, k2

MCRoot == [a \in Agent |-> w1]
=============================================================================
