------------------------------ MODULE MCCrawl ------------------------------
(* A small host for TLC: the root links to a page that links to itself and   *)
(* back to the root, by its path and by "/", and that fetch may find too     *)
(* small.                                                                    *)
EXTENDS Crawl, TLC

CONSTANTS root, below, slash, w1, w2

SomePages == {root, below, slash}
OnlySlash == {slash}
TwoWalkers == {w1, w2}
TooSmall == {below}

Circle ==
  [p \in SomePages |->
     IF p = root THEN {below} ELSE IF p = below THEN {root, slash} ELSE {}]
=============================================================================
