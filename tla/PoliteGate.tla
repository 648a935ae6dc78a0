----------------------------- MODULE PoliteGate -----------------------------
(***************************************************************************)
(* What the host gateway of `fetch` promises to the rest of the crawler,   *)
(* with its lock, its map and its callers left out: a host is granted to   *)
(* one caller at a time, and two grants of one host are always more than   *)
(* PoliteSleep apart.  HostGateway is the detailed module that implements  *)
(* this one; Fetch uses a gateway that is known to behave like it.         *)
(***************************************************************************)
EXTENDS Integers, Sequences

CONSTANTS
  Host,         \* the hosts callers ask for
  PoliteSleep   \* the polite_sleep parameter, in clock ticks

VARIABLES
  now,          \* the wall clock, in ticks
  grants        \* grants[h]: the times at which h was granted, oldest first

gateVars == <<now, grants>>

GateInit ==
  /\ now = 0
  /\ grants = [h \in Host |-> << >>]

\* A host may be granted if it never was, or if its last grant is far enough.
Free(h) ==
  \/ grants[h] = << >>
  \/ now - grants[h][Len(grants[h])] > PoliteSleep

Grant(h) ==
  /\ Free(h)
  /\ grants' = [grants EXCEPT ![h] = Append(@, now)]
  /\ UNCHANGED now

Elapse ==
  /\ now' \in Nat
  /\ now' > now
  /\ UNCHANGED grants

GateNext ==
  \/ Elapse
  \/ \E h \in Host : Grant(h)

GateSpec == GateInit /\ [][GateNext]_gateVars

=============================================================================
