------------------------------ MODULE MCEntree ------------------------------
(* Small instances of Entree for TLC.                                      *)
EXTENDS Entree, TLC

CONSTANTS h1, h2, j1, j2, j3

MCJob2 == {j1, j2}
MCJob3 == {j1, j2, j3}

OneHost == {h1}
TwoHosts == {h1, h2}

MCRoot == "/"
OnePath == {MCRoot}

MCPeriod == [h \in Host |-> 1]

Req(h, p, f, hp) == [host |-> h, path |-> p, full |-> f, pass |-> hp]

\* Every kind of job for the root of one host (a blank path is cleaned to it), and
\* the two kinds that have no check: a path of length zero and an unknown host.
EveryKind ==
  {Req(h1, MCRoot, FALSE, FALSE), Req(h1, " ", FALSE, TRUE),
   Req(h1, MCRoot, TRUE, FALSE), Req(h1, MCRoot, TRUE, TRUE),
   Req(h1, "", FALSE, FALSE), Req(h2, MCRoot, FALSE, TRUE)}

\* Three links to one page, and a full pass on its host.
LinksAndFullPass ==
  {Req(h1, MCRoot, FALSE, FALSE), Req(h1, MCRoot, TRUE, TRUE)}

Symmetry == Permutations(Job)
=============================================================================
