------------------------------ MODULE MCIndex -------------------------------
(* A small instance of Index for TLC: a PDF of two pages.                  *)
EXTENDS Index, TLC

CONSTANTS d1, x1, k1, k2

OneDoc == {d1}
OneExtractor == {x1}
TwoPackers == {k1, k2}

TwoPages == [d \in Doc |-> 2]
=============================================================================
