------------------------------- MODULE MCFetch ------------------------------
(* Small instances of Fetch for TLC.                                         *)
EXTENDS Fetch, TLC

CONSTANTS h1, p1, p2, p3, w1, w2

OneHost == {h1}
TwoPages == {p1, p2}
ThreePages == {p1, p2, p3}
OneWorker == {w1}
TwoWorkers == {w1, w2}

\* The third page is one that IsReject turns away.
ThirdPage == {p3}

\* The pages of one host compete for the gateway.
SameHost == [p \in Page |-> h1]

\* Two pages that are treated alike.
Alike == Permutations(TwoPages)

Letters == [h \in Host |-> h]
=============================================================================
