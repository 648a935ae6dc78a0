------------------------------ MODULE Enqueue ------------------------------
(***************************************************************************)
(* The Enqueue goroutine (internal/queueing) of one process, and those who *)
(* send to its channel: the handlers of the admin service, or the workers  *)
(* of fetch.  Every message is inserted by a transaction of its own, on a  *)
(* connection of a pool of bounded size.  A message with a queue name that *)
(* the switch does not know gets a transaction as well, which nobody ends: *)
(* its connection never comes back to the pool.                            *)
(*                                                                         *)
(* The contents of a message are left out, but for the queue it names.     *)
(* Postgres, River's insert and the connection pool are modelled from      *)
(* their use.  What a handler's client does is not in the code: it may ask *)
(* again when the connection breaks, and River does so for a worker.       *)
(***************************************************************************)
EXTENDS Integers, Sequences, FiniteSets

CONSTANTS
  Sender,       \* requests to admin, or jobs of a worker
  Script,       \* Script[s]: the queues s sends to, in its order
  HostQueue,    \* queue names that begin with "fetch-"
  MaxConns,     \* connections in the goroutine's pool
  Refusable,    \* queues whose insert may fail without aborting its transaction
  MaxTrouble,   \* crashes and aborted transactions TLC may inject
  NoMessage     \* a value that is no message

\* The handlers of admin: what is asked for is recorded first.
FetchRequestHandler == <<"collect", "fetch">>
EntreeRequestHandler == <<"collect", "entree">>
PackRequestHandler == <<"pack">>

\* A job of fetch that comes too soon goes to the queue of its host.
RequeueSends(q) == <<q>>

\* Seeded fault: a queue of one host is looked up by its whole name.
NoPrefix(q) == q

\* The case of the switch a queue name selects.
QueueToMatch(q) == IF q \in HostQueue THEN "fetch" ELSE q

Case == {"entree", "extract", "fetch", "collect", "pack", "serve", "walk"}

KnownQueue(q) == QueueToMatch(q) \in Case

EnqueueAssumption ==
  /\ Script \in [Sender -> Seq(STRING)]
  /\ MaxConns \in Nat \ {0}
  /\ MaxTrouble \in Nat

ASSUME EnqueueAssumptions == EnqueueAssumption

\* The n-th message of a sender.
Message == UNION {[from : {s}, nth : 1..Len(Script[s])] : s \in Sender}
QueueOf(m) == Script[m.from][m.nth]

ASSUME NoMessageAssumption == NoMessage \notin Message

VARIABLES
  up,           \* the goroutine and the senders run
  state,        \* state[s]: "idle", "sending", "answered"
  pos,          \* pos[s]: how many messages of s have been received
  step,         \* what the goroutine does next
  held,         \* the message it has received, or NoMessage
  tx,           \* its transaction: "none", "empty", "row", "aborted"
  open,         \* connections of the pool that are in a transaction
  jobs,         \* the messages committed as jobs, in their order
  trouble,      \* crashes and aborted transactions so far
  deaths,       \* how often the process died
  leaked        \* history: unknown queue names received in this life

goroutine == <<step, held, tx, open>>
senders == <<state, pos>>
vars == <<up, senders, goroutine, jobs, trouble, deaths, leaked>>

Init ==
  /\ up = TRUE
  /\ state = [s \in Sender |-> "idle"]
  /\ pos = [s \in Sender |-> 0]
  /\ step = "receive"
  /\ held = NoMessage
  /\ tx = "none"
  /\ open = 0
  /\ jobs = << >>
  /\ trouble = 0
  /\ deaths = 0
  /\ leaked = 0

-----------------------------------------------------------------------------
(* The senders.                                                            *)

\* A request comes in; or one whose connection broke comes again.
Ask(s) ==
  /\ up
  /\ state[s] = "idle"
  /\ state' = [state EXCEPT ![s] = "sending"]
  /\ UNCHANGED <<up, pos, goroutine, jobs, trouble, deaths, leaked>>

\* Seeded fault: a send does not wait for the receiver, and takes the place of
\* the message it has.
ReceivedAnyTime == TRUE

Received == step = "receive"

\* ChQSHP <- message, and qshp := <-chQSHP: the channel is unbuffered.
Send(s) ==
  /\ up
  /\ state[s] = "sending"
  /\ pos[s] < Len(Script[s])
  /\ Received
  /\ held' = [from |-> s, nth |-> pos[s] + 1]
  /\ step' = "begin"
  /\ pos' = [pos EXCEPT ![s] = @ + 1]
  /\ UNCHANGED <<up, state, tx, open, jobs, trouble, deaths, leaked>>

\* c.IndentedJSON(http.StatusOK, ...): the last message was received.
Answer(s) ==
  /\ up
  /\ state[s] = "sending"
  /\ pos[s] = Len(Script[s])
  /\ state' = [state EXCEPT ![s] = "answered"]
  /\ UNCHANGED <<up, pos, goroutine, jobs, trouble, deaths, leaked>>

-----------------------------------------------------------------------------
(* The goroutine.                                                          *)

\* common.CtxTx: pool.Begin waits for a connection, for ever if need be.
CtxTx ==
  /\ step = "begin"
  /\ open < MaxConns
  /\ open' = open + 1
  /\ tx' = "empty"
  /\ step' = "insert"
  /\ UNCHANGED <<up, senders, held, jobs, trouble, deaths, leaked>>

\* client.InsertTx of a known case.  An error is only logged: if Postgres
\* refused the row the transaction is aborted, otherwise it is just empty.
InsertTx ==
  /\ step = "insert"
  /\ KnownQueue(QueueOf(held))
  /\ step' = "commit"
  /\ \/ tx' = "row" /\ UNCHANGED trouble
     \/ QueueOf(held) \in Refusable /\ UNCHANGED <<tx, trouble>>
     \/ /\ trouble < MaxTrouble
        /\ tx' = "aborted"
        /\ trouble' = trouble + 1
  /\ UNCHANGED <<up, senders, held, open, jobs, deaths, leaked>>

\* The default case: the name is logged, the transaction stays as it is.
UnknownQueue ==
  /\ step = "insert"
  /\ ~KnownQueue(QueueOf(held))
  /\ step' = "receive"
  /\ held' = NoMessage
  /\ tx' = "none"
  /\ leaked' = leaked + 1
  /\ UNCHANGED <<up, senders, open, jobs, trouble, deaths>>

\* Seeded fault: a finished transaction keeps its connection.
NotReleased == open

\* Seeded fault: a connection is given back by the commit and by a deferred call.
ReleasedTwice == open - 2

Released == open - 1

\* Seeded fault: the commit is retried after it succeeded.
CommittedTwice == jobs \o <<held, held>>

Committed == IF tx = "row" THEN Append(jobs, held) ELSE jobs

\* commonCommit: tx.Commit succeeds, of an empty transaction too.
CommonCommit ==
  /\ step = "commit"
  /\ tx # "aborted"
  /\ jobs' = Committed
  /\ open' = Released
  /\ tx' = "none"
  /\ held' = NoMessage
  /\ step' = "receive"
  /\ UNCHANGED <<up, senders, trouble, deaths, leaked>>

\* Seeded fault: a sender goes on after its last message that was received.
NotRewound == pos

\* Who had not sent all starts again with its first message.
Rewound == [s \in Sender |-> IF state[s] = "sending" THEN 0 ELSE pos[s]]

\* The process is gone: its transactions are rolled back, its handlers' clients
\* see the connection break, its jobs are run again by River.
Dies ==
  /\ up' = FALSE
  /\ step' = "receive"
  /\ held' = NoMessage
  /\ tx' = "none"
  /\ open' = 0
  /\ leaked' = 0
  /\ state' = [s \in Sender |-> IF state[s] = "sending" THEN "idle" ELSE state[s]]
  /\ pos' = Rewound
  /\ deaths' = deaths + 1
  /\ UNCHANGED jobs

\* commonCommit: the commit of an aborted transaction fails, and whatever
\* tx.Rollback returns, the process ends.
CannotCommit ==
  /\ step = "commit"
  /\ tx = "aborted"
  /\ Dies
  /\ UNCHANGED trouble

\* A failed Begin or Commit, or whatever else ends the process.
Crash ==
  /\ up
  /\ trouble < MaxTrouble
  /\ trouble' = trouble + 1
  /\ Dies

Restart ==
  /\ ~up
  /\ up' = TRUE
  /\ UNCHANGED <<senders, goroutine, jobs, trouble, deaths, leaked>>

Work == CtxTx \/ InsertTx \/ UnknownQueue \/ CommonCommit \/ CannotCommit

Next ==
  \/ \E s \in Sender : Ask(s) \/ Send(s) \/ Answer(s)
  \/ Work
  \/ Crash
  \/ Restart

Spec == Init /\ [][Next]_vars

\* The goroutine goes on and the process is restarted; a handler that has sent
\* all answers; Go serves the senders of a channel in their order, so one that
\* waits is received in the end if the goroutine receives again and again.
Fairness ==
  /\ WF_vars(Work)
  /\ WF_vars(Restart)
  /\ \A s \in Sender : WF_vars(Answer(s)) /\ SF_vars(Send(s))

FairSpec == Spec /\ Fairness

-----------------------------------------------------------------------------
(* Properties.                                                             *)

TypeOK ==
  /\ up \in BOOLEAN
  /\ state \in [Sender -> {"idle", "sending", "answered"}]
  /\ pos \in [Sender -> Nat]
  /\ \A s \in Sender : pos[s] <= Len(Script[s])
  /\ step \in {"receive", "begin", "insert", "commit"}
  /\ held \in Message \cup {NoMessage}
  /\ tx \in {"none", "empty", "row", "aborted"}
  /\ open \in Nat
  /\ jobs \in Seq(Message)
  /\ trouble \in Nat
  /\ deaths \in Nat
  /\ leaked \in Nat

IsCommitted(m) == \E k \in 1..Len(jobs) : jobs[k] = m

\* No insert is refused and the switch knows the name: the goroutine has no
\* reason to lose the message.
Sound(m) == QueueOf(m) \notin Refusable /\ KnownQueue(QueueOf(m))

\* Once a message of a handler is received, those before it are committed jobs,
\* whatever crashes later; the message itself is one too, or the goroutine has
\* it, or a crash took it after the handler had answered (admin answers "ok"
\* when its last message is received, not when it is committed).
ReceivedIsCommitted ==
  \A s \in Sender : \A n \in 1..pos[s] :
    LET m == [from |-> s, nth |-> n] IN
    Sound(m) =>
      \/ IsCommitted(m)
      \/ n = pos[s] /\ held = m
      \/ n = pos[s] /\ state[s] = "answered" /\ deaths > 0

\* The last message that was received of a sender.
Last(s) == [from |-> s, nth |-> pos[s]]

\* Who was answered, and what it sent last is nowhere.
Lost ==
  {s \in Sender :
     /\ state[s] = "answered" /\ pos[s] > 0
     /\ Sound(Last(s)) /\ ~IsCommitted(Last(s)) /\ held # Last(s)}

\* A death of the process takes the last message of one sender at most, however
\* many it had answered: the channel holds no more.
DeathLosesOne == Cardinality(Lost) <= deaths

\* Admin records what it is asked (collect) before it acts on it (fetch, entree),
\* and fetch tells extract before walk: in the table of jobs, no message comes
\* before the first copy of the one its sender sent earlier, over any crashes.
CommittedInOrder ==
  \A k \in 1..Len(jobs) :
    LET m == jobs[k]
        before == [m EXCEPT !.nth = @ - 1]
    IN  (m.nth > 1 /\ Sound(before)) => \E i \in 1..(k - 1) : jobs[i] = before

\* The goroutine waits for a connection only if it received as many unknown queue
\* names, in this life of the process, as the pool has connections; until then no
\* finished transaction, empty, aborted or committed, holds one.
StallsOnlyByLeaks ==
  step = "begin" /\ open >= MaxConns => leaked >= MaxConns

\* The goroutine, seen through what it took and what it committed, is an outbox
\* that loses only unknown names and refused inserts: a message is committed at
\* most once for each time it is received, and in the order of receipt.
Out == INSTANCE Outbox WITH
  Lossy <- {m \in Message : ~Sound(m)},
  inbox <- IF held = NoMessage THEN {} ELSE {held},
  outbox <- jobs

ImplementsOutbox == Out!OutSpec

\* Whoever sends is answered, or sees the process die: one message with an unknown
\* name does not stop the others, as long as the pool has another connection.
SendersServed ==
  \A s \in Sender : state[s] = "sending" ~> state[s] # "sending"

-----------------------------------------------------------------------------
(* The inductive invariant behind the safety properties.                   *)

\* The goroutine's message, transaction and step belong together.
StepInv ==
  /\ held = NoMessage <=> step = "receive"
  /\ held # NoMessage => /\ held.nth = pos[held.from]
                         /\ held.nth >= 1
                         /\ state[held.from] # "idle"
  /\ step \in {"receive", "begin"} => tx = "none"
  /\ step = "insert" => tx = "empty"
  /\ step = "commit" => /\ KnownQueue(QueueOf(held))
                        /\ tx \in {"row", "empty", "aborted"}
                        /\ Sound(held) => tx # "empty"
  /\ \A s \in Sender : state[s] = "idle" => pos[s] = 0
  /\ ~up => step = "receive"

\* Every open transaction is a leaked one, or the goroutine's own.
OpenInv ==
  open = leaked + (IF step \in {"insert", "commit"} THEN 1 ELSE 0)

\* Only what the goroutine held is lost in a death.
LossInv == IsFiniteSet(Lost) /\ DeathLosesOne

IInv ==
  /\ TypeOK
  /\ StepInv
  /\ OpenInv
  /\ ReceivedIsCommitted
  /\ CommittedInOrder
  /\ StallsOnlyByLeaks
  /\ LossInv

=============================================================================
