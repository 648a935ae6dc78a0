------------------------------- MODULE Outbox -------------------------------
(***************************************************************************)
(* What the Enqueue goroutine of a process promises to those who send to   *)
(* its channel, with its transactions and connections left out: a message  *)
(* that was taken is committed once, before the next one is taken; it is   *)
(* lost if the process dies first, and otherwise only if it is one of the  *)
(* Lossy.  Enqueue is the detailed module that implements this one; the    *)
(* slot of Entree, Fetch, Index and Walk is such an outbox (SlotIsOutbox). *)
(***************************************************************************)
EXTENDS Naturals, Sequences

CONSTANTS
  Message,      \* what is sent
  Lossy         \* messages that may be lost although the process lives

VARIABLES
  inbox,        \* the message that was taken, or nothing: a set
  outbox,       \* the messages committed, in their order
  deaths        \* how often the process died

outVars == <<inbox, outbox, deaths>>

OutInit ==
  /\ inbox = {}
  /\ outbox = << >>
  /\ deaths = 0

TakeOne(m) ==
  /\ inbox = {}
  /\ inbox' = {m}
  /\ UNCHANGED <<outbox, deaths>>

CommitIt(m) ==
  /\ inbox = {m}
  /\ inbox' = {}
  /\ outbox' = Append(outbox, m)
  /\ UNCHANGED deaths

Lose(m) ==
  /\ inbox = {m}
  /\ m \in Lossy
  /\ inbox' = {}
  /\ UNCHANGED <<outbox, deaths>>

Die ==
  /\ inbox' = {}
  /\ deaths' = deaths + 1
  /\ UNCHANGED outbox

OutNext ==
  \/ \E m \in Message : TakeOne(m) \/ CommitIt(m) \/ Lose(m)
  \/ Die

OutSpec == OutInit /\ [][OutNext]_outVars

=============================================================================
