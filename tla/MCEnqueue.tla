----------------------------- MODULE MCEnqueue -----------------------------
(* Small instances of Enqueue for TLC.                                     *)
EXTENDS Enqueue, TLC

\* A request to admin, which sends two messages (those of its other handlers have
\* the same shapes), a job of fetch that comes too soon, and a queue of this system
\* that the switch has no case for.  Enqueue does not tell its senders apart, so
\* those of two services may meet in one process here.
MCScript ==
  [s \in Sender |->
     CASE s = "page" -> FetchRequestHandler
       [] s = "link" -> EntreeRequestHandler
       [] s = "pack" -> PackRequestHandler
       [] s = "soon" -> RequeueSends("fetch-agov")
       [] s = "stray" -> <<"validate">>]

MCHostQueue == {"fetch-agov"}
=============================================================================
