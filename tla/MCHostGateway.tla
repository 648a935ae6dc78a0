--------------------------- MODULE MCHostGateway ----------------------------
(* A small instance of HostGateway for TLC.                                *)
EXTENDS HostGateway, TLC

CONSTANTS h1, h2, w1, w2

MCHost == {h1, h2}
MCWorker == {w1, w2}

Symmetry == Permutations(MCHost) \cup Permutations(MCWorker)
=============================================================================
