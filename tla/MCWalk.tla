------------------------------- MODULE MCWalk -------------------------------
(* A small instance of Walk for TLC: two jobs for one page, one for another. *)
EXTENDS Walk, TLC

CONSTANTS j1, j2, j3

ThreeJobs == {j1, j2, j3}

Page(host, path) == [host |-> host, path |-> path]
H(kind, host, path, slash) == [kind |-> kind, host |-> host, path |-> path, slash |-> slash]

Top == Page("here", <<"a">>)
Other == Page("there", <<"b">>)

Pages == [j \in ThreeJobs |-> IF j = j3 THEN Other ELSE Top]

\* The page of one host links to a page below it, relatively, to the page of the
\* other host, without naming a scheme, and to a site by its full address.  The
\* other page links to itself and, with a slash, to the page below the first.
Links ==
  [j \in ThreeJobs |->
     IF j = j3 THEN {H("root", "", <<"b">>, FALSE), H("network", "here", <<"a", "c">>, TRUE)}
               ELSE {H("relative", "", <<"c">>, FALSE), H("network", "there", <<"b">>, FALSE),
                     H("absolute", "far", <<"c">>, FALSE), H("root", "", <<"x">>, FALSE)}]

\* One of the links is turned away by the filter.
Filtered == {H("root", "", <<"x">>, FALSE)}

\* The two jobs of one page.
Symmetry == Permutations({j1, j2})
=============================================================================
