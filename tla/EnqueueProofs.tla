--------------------------- MODULE EnqueueProofs ---------------------------
(***************************************************************************)
(* What a sender may rely on, and that Enqueue implements Outbox: for any  *)
(* senders and scripts, any queue names, any size of the pool and any      *)
(* number of crashes. IInv, defined beside the properties in Enqueue, is   *)
(* inductive.                                                              *)
(***************************************************************************)
EXTENDS Enqueue, FiniteSetTheorems, TLAPS

-----------------------------------------------------------------------------
(* Messages.                                                               *)

LEMMA ScriptLength == ASSUME NEW s \in Sender PROVE Len(Script[s]) \in Nat
<1>1. Script[s] \in Seq(STRING)
  BY EnqueueAssumptions DEF EnqueueAssumption
<1> QED
  BY <1>1

LEMMA MessageMade ==
  ASSUME NEW s \in Sender, NEW n \in 1..Len(Script[s])
  PROVE  [from |-> s, nth |-> n] \in Message
<1>1. [from |-> s, nth |-> n] \in [from : {s}, nth : 1..Len(Script[s])]
  OBVIOUS
<1> QED
  BY <1>1 DEF Message

LEMMA MessageParts ==
  ASSUME NEW m \in Message
  PROVE  /\ m.from \in Sender
         /\ m.nth \in 1..Len(Script[m.from])
         /\ m = [from |-> m.from, nth |-> m.nth]
         /\ m # NoMessage
<1>1. PICK s \in Sender : m \in [from : {s}, nth : 1..Len(Script[s])]
  BY DEF Message
<1> QED
  BY <1>1, NoMessageAssumption

-----------------------------------------------------------------------------
(* Types.                                                                  *)

LEMMA InitTypeOK == Init => TypeOK
  BY ScriptLength DEF Init, TypeOK

LEMMA DiesTypeOK == ASSUME TypeOK, StepInv, Dies, trouble' \in Nat PROVE TypeOK'
<1>1. pos' \in [Sender -> Nat] /\ \A s \in Sender : pos'[s] <= Len(Script[s])
  <2>1. \A s \in Sender : Len(Script[s]) \in Nat
    BY ScriptLength
  <2> QED
    BY <2>1 DEF Dies, Rewound, TypeOK
<1>2. state' \in [Sender -> {"idle", "sending", "answered"}]
  BY DEF Dies, TypeOK
<1>3. up' \in BOOLEAN /\ step' = "receive" /\ held' = NoMessage /\ tx' = "none"
  BY DEF Dies
<1>4. open' \in Nat /\ jobs' \in Seq(Message) /\ deaths' \in Nat /\ leaked' \in Nat
  BY DEF Dies, TypeOK
<1> QED
  BY <1>1, <1>2, <1>3, <1>4 DEF TypeOK

LEMMA SendTypeOK == ASSUME TypeOK, NEW s \in Sender, Send(s) PROVE TypeOK'
<1>1. Len(Script[s]) \in Nat /\ pos[s] \in Nat
  BY ScriptLength DEF TypeOK
<1>2. [from |-> s, nth |-> pos[s] + 1] \in Message
  BY <1>1, MessageMade DEF Send
<1>3. pos' \in [Sender -> Nat] /\ \A t \in Sender : pos'[t] <= Len(Script[t])
  BY <1>1 DEF Send, TypeOK
<1> QED
  BY <1>2, <1>3 DEF Send, TypeOK

LEMMA TypeStep == TypeOK /\ StepInv /\ OpenInv /\ [Next]_vars => TypeOK'
<1> SUFFICES ASSUME TypeOK, StepInv, OpenInv, [Next]_vars PROVE TypeOK'
  OBVIOUS
<1> USE DEF goroutine, senders
<1>1. ASSUME NEW s \in Sender, Ask(s) \/ Answer(s) PROVE TypeOK'
  BY <1>1 DEF Ask, Answer, TypeOK
<1>2. ASSUME NEW s \in Sender, Send(s) PROVE TypeOK'
  BY <1>2, SendTypeOK
<1>3. CASE CtxTx \/ InsertTx \/ UnknownQueue
  BY <1>3 DEF CtxTx, InsertTx, UnknownQueue, TypeOK
<1>4. CASE CommonCommit
  <2>1. held \in Message
    BY <1>4 DEF CommonCommit, StepInv, TypeOK
  <2>2. jobs' \in Seq(Message)
    BY <1>4, <2>1 DEF CommonCommit, Committed, TypeOK
  <2>3. open' \in Nat
    BY <1>4 DEF CommonCommit, Released, OpenInv, TypeOK
  <2> QED
    BY <1>4, <2>2, <2>3 DEF CommonCommit, TypeOK
<1>5. CASE CannotCommit \/ Crash
  BY <1>5, DiesTypeOK DEF CannotCommit, Crash, TypeOK
<1>6. CASE Restart \/ UNCHANGED vars
  BY <1>6 DEF Restart, vars, TypeOK
<1> QED
  BY <1>1, <1>2, <1>3, <1>4, <1>5, <1>6 DEF Next, Work

-----------------------------------------------------------------------------
(* The goroutine's step, and the connections.                              *)

LEMMA StepStep == TypeOK /\ StepInv /\ [Next]_vars => StepInv'
<1> SUFFICES ASSUME TypeOK, StepInv, [Next]_vars PROVE StepInv'
  OBVIOUS
<1> USE DEF goroutine, senders
<1>h. held # NoMessage => held.from \in Sender
  BY MessageParts DEF TypeOK
<1>1. ASSUME NEW s \in Sender, Ask(s) \/ Answer(s) PROVE StepInv'
  BY <1>1, <1>h DEF Ask, Answer, TypeOK, StepInv
<1>2. ASSUME NEW s \in Sender, Send(s) PROVE StepInv'
  <2>1. held' # NoMessage
    BY <1>2, MessageMade, MessageParts, ScriptLength DEF Send, TypeOK
  <2>2. held'.from = s /\ held'.nth = pos'[s] /\ held'.nth >= 1 /\ state'[s] # "idle"
    BY <1>2 DEF Send, TypeOK
  <2>3. \A t \in Sender : state'[t] = "idle" => pos'[t] = 0
    BY <1>2 DEF Send, TypeOK, StepInv
  <2> QED
    BY <1>2, <2>1, <2>2, <2>3 DEF Send, Received, StepInv
<1>3. CASE CtxTx \/ UnknownQueue
  BY <1>3, <1>h DEF CtxTx, UnknownQueue, TypeOK, StepInv
<1>4. CASE InsertTx
  BY <1>4, <1>h DEF InsertTx, Sound, TypeOK, StepInv
<1>5. CASE CommonCommit
  BY <1>5 DEF CommonCommit, TypeOK, StepInv
<1>6. CASE CannotCommit \/ Crash
  <2>1. \A t \in Sender : state'[t] = "idle" => pos'[t] = 0
    BY <1>6 DEF CannotCommit, Crash, Dies, Rewound, TypeOK, StepInv
  <2> QED
    BY <1>6, <2>1 DEF CannotCommit, Crash, Dies, StepInv
<1>7. CASE Restart \/ UNCHANGED vars
  BY <1>7 DEF Restart, vars, StepInv
<1> QED
  BY <1>1, <1>2, <1>3, <1>4, <1>5, <1>6, <1>7 DEF Next, Work

LEMMA OpenStep == TypeOK /\ StepInv /\ OpenInv /\ [Next]_vars => OpenInv'
<1> SUFFICES ASSUME TypeOK, StepInv, OpenInv, [Next]_vars PROVE OpenInv'
  OBVIOUS
<1> USE DEF goroutine, senders, TypeOK, OpenInv
<1>1. ASSUME NEW s \in Sender, Ask(s) \/ Answer(s) \/ Send(s) PROVE OpenInv'
  BY <1>1 DEF Ask, Answer, Send, Received
<1>2. CASE Work
  BY <1>2 DEF Work, CtxTx, InsertTx, UnknownQueue, CommonCommit, Released, CannotCommit, Dies
<1>3. CASE Crash \/ Restart \/ UNCHANGED vars
  BY <1>3 DEF Crash, Dies, Restart, vars
<1> QED
  BY <1>1, <1>2, <1>3 DEF Next

LEMMA NoStall == OpenInv /\ TypeOK => StallsOnlyByLeaks
  BY EnqueueAssumptions DEF EnqueueAssumption, OpenInv, StallsOnlyByLeaks, TypeOK

-----------------------------------------------------------------------------
(* The table of jobs only grows.                                           *)

\* What any step does to the jobs: nothing, or it appends the message held.
LEMMA JobsStep ==
  ASSUME TypeOK, StepInv, [Next]_vars
  PROVE  \/ jobs' = jobs
         \/ CommonCommit /\ tx = "row" /\ held \in Message /\ jobs' = Append(jobs, held)
<1> USE DEF goroutine, senders
<1>1. ASSUME NEW s \in Sender, Ask(s) \/ Answer(s) \/ Send(s) PROVE jobs' = jobs
  BY <1>1 DEF Ask, Answer, Send
<1>2. CASE CommonCommit
  BY <1>2 DEF CommonCommit, Committed, StepInv, TypeOK
<1>3. CASE CtxTx \/ InsertTx \/ UnknownQueue \/ CannotCommit \/ Crash \/ Restart \/ UNCHANGED vars
  BY <1>3 DEF CtxTx, InsertTx, UnknownQueue, CannotCommit, Crash, Dies, Restart, vars
<1> QED
  BY <1>1, <1>2, <1>3 DEF Next, Work

LEMMA CommittedStays ==
  ASSUME TypeOK, StepInv, [Next]_vars, NEW m, IsCommitted(m)
  PROVE  IsCommitted(m)'
<1>1. jobs \in Seq(Message)
  BY DEF TypeOK
<1>2. PICK k \in 1..Len(jobs) : jobs[k] = m
  BY DEF IsCommitted
<1>3. k \in 1..Len(jobs') /\ jobs'[k] = m
  BY <1>1, <1>2, JobsStep
<1> QED
  BY <1>3 DEF IsCommitted

LEMMA CommitCommits ==
  ASSUME TypeOK, NEW m \in Message, jobs' = Append(jobs, m)
  PROVE  IsCommitted(m)'
<1>1. jobs \in Seq(Message)
  BY DEF TypeOK
<1>2. Len(jobs) + 1 \in 1..Len(jobs') /\ jobs'[Len(jobs) + 1] = m
  BY <1>1
<1> QED
  BY <1>2 DEF IsCommitted

-----------------------------------------------------------------------------
(* What was received is committed.                                         *)

\* The same, of one message: a part of ReceivedIsCommitted.
Safe(s, n) ==
  LET m == [from |-> s, nth |-> n] IN
  n \in 1..pos[s] /\ Sound(m) =>
    \/ IsCommitted(m)
    \/ n = pos[s] /\ held = m
    \/ n = pos[s] /\ state[s] = "answered" /\ deaths > 0

LEMMA ReceivedStep ==
  TypeOK /\ StepInv /\ ReceivedIsCommitted /\ [Next]_vars => ReceivedIsCommitted'
<1> SUFFICES ASSUME TypeOK, StepInv, ReceivedIsCommitted, [Next]_vars,
                    NEW s \in Sender, NEW n \in Nat \ {0}
             PROVE  Safe(s, n)'
  <2>1. \A t \in Sender : 1..pos'[t] \subseteq Nat \ {0}
    OBVIOUS
  <2> QED
    BY <2>1 DEF ReceivedIsCommitted, Safe
<1> DEFINE m == [from |-> s, nth |-> n]
<1>a. Safe(s, n)
  BY DEF ReceivedIsCommitted, Safe
<1>b. IsCommitted(m) => IsCommitted(m)'
  BY CommittedStays
<1>c. Sound(m)' = Sound(m)
  BY DEF Sound
<1> HIDE DEF m
<1>d. n \in 1..pos[s] /\ Sound(m) =>
        \/ IsCommitted(m)
        \/ n = pos[s] /\ held = m
        \/ n = pos[s] /\ state[s] = "answered" /\ deaths > 0
  BY <1>a DEF Safe, m
<1> DEFINE Good == n \in 1..pos'[s] /\ Sound(m) =>
                     \/ IsCommitted(m)'
                     \/ n = pos'[s] /\ held' = m
                     \/ n = pos'[s] /\ state'[s] = "answered" /\ deaths' > 0
<1> SUFFICES Good
  BY <1>c DEF Safe, m
<1> USE DEF goroutine, senders
<1>1. ASSUME NEW t \in Sender, Ask(t) \/ Answer(t) PROVE Good
  BY <1>1, <1>b, <1>d DEF Ask, Answer, TypeOK
<1>2. ASSUME NEW t \in Sender, Send(t) PROVE Good
  <2>1. CASE t # s
    <3>1. pos'[s] = pos[s] /\ state'[s] = state[s] /\ deaths' = deaths /\ held = NoMessage
      BY <1>2, <2>1 DEF Send, Received, StepInv, TypeOK
    <3>2. n \in 1..pos[s] => m # NoMessage
      <4>1. pos[s] <= Len(Script[s]) /\ Len(Script[s]) \in Nat /\ pos[s] \in Nat
        BY ScriptLength DEF TypeOK
      <4>2. n \in 1..pos[s] => m \in Message
        BY <4>1, MessageMade DEF m
      <4> QED
        BY <4>2, NoMessageAssumption
    <3> QED
      BY <3>1, <3>2, <1>b, <1>d
  <2>2. CASE t = s
    <3>1. pos[s] \in Nat /\ pos'[s] = pos[s] + 1 /\ state[s] = "sending" /\ held = NoMessage
      BY <1>2, <2>2 DEF Send, Received, StepInv, TypeOK
    <3>2. CASE n = pos'[s]
      BY <3>1, <3>2, <1>2, <2>2 DEF Send, m
    <3>3. CASE n \in 1..pos[s]
      <4>1. m # NoMessage
        <5>1. pos[s] <= Len(Script[s]) /\ Len(Script[s]) \in Nat
          BY ScriptLength DEF TypeOK
        <5>2. m \in Message
          BY <3>1, <3>3, <5>1, MessageMade DEF m
        <5> QED
          BY <5>2, NoMessageAssumption
      <4> QED
        BY <3>1, <3>3, <4>1, <1>b, <1>d
    <3> QED
      BY <3>1, <3>2, <3>3
  <2> QED
    BY <2>1, <2>2
<1>3. CASE CtxTx \/ InsertTx \/ Restart \/ UNCHANGED vars
  BY <1>3, <1>b, <1>d DEF CtxTx, InsertTx, Restart, vars
<1>4. CASE UnknownQueue
  BY <1>4, <1>b, <1>d DEF UnknownQueue, Sound
<1>5. CASE CommonCommit
  <2>1. /\ pos' = pos /\ state' = state /\ deaths' = deaths
        /\ held \in Message /\ tx # "aborted"
        /\ Sound(held) => tx = "row"
    BY <1>5 DEF CommonCommit, StepInv, TypeOK
  <2>2. held = m /\ Sound(m) => IsCommitted(m)'
    BY <1>5, <2>1, CommitCommits DEF CommonCommit, Committed
  <2> QED
    BY <2>1, <2>2, <1>b, <1>d
<1>6. CASE CannotCommit \/ Crash
  <2>1. /\ deaths \in Nat /\ deaths' = deaths + 1
        /\ state[s] = "sending" => pos'[s] = 0
        /\ state[s] # "sending" => pos'[s] = pos[s] /\ state'[s] = state[s]
    BY <1>6 DEF CannotCommit, Crash, Dies, Rewound, TypeOK
  <2>2. state[s] = "idle" => pos[s] = 0
    BY DEF StepInv
  <2>3. state[s] \in {"idle", "sending", "answered"}
    BY DEF TypeOK
  <2> QED
    BY <2>1, <2>2, <2>3, <1>b, <1>d
<1> QED
  BY <1>1, <1>2, <1>3, <1>4, <1>5, <1>6 DEF Next, Work

-----------------------------------------------------------------------------
(* The order of the table.                                                 *)

\* The message before the one the goroutine holds is committed.
LEMMA BeforeHeld ==
  ASSUME TypeOK, StepInv, ReceivedIsCommitted, held \in Message, held.nth > 1,
         Sound([held EXCEPT !.nth = @ - 1])
  PROVE  IsCommitted([held EXCEPT !.nth = @ - 1])
<1>1. /\ held.from \in Sender /\ held.nth \in 1..Len(Script[held.from])
      /\ held = [from |-> held.from, nth |-> held.nth] /\ held # NoMessage
  BY MessageParts
<1>2. held.nth = pos[held.from] /\ pos[held.from] \in Nat
  BY <1>1 DEF StepInv, TypeOK
<1>3. [held EXCEPT !.nth = @ - 1] = [from |-> held.from, nth |-> held.nth - 1]
  BY <1>1
<1>4. held.nth - 1 \in 1..pos[held.from] /\ held.nth - 1 # pos[held.from]
  BY <1>2
<1> QED
  BY <1>1, <1>3, <1>4 DEF ReceivedIsCommitted

LEMMA OrderStep ==
  TypeOK /\ StepInv /\ ReceivedIsCommitted /\ CommittedInOrder /\ [Next]_vars
    => CommittedInOrder'
<1> SUFFICES ASSUME TypeOK, StepInv, ReceivedIsCommitted, CommittedInOrder, [Next]_vars
             PROVE  CommittedInOrder'
  OBVIOUS
<1>1. CASE jobs' = jobs
  BY <1>1 DEF CommittedInOrder, Sound
<1>2. CASE held \in Message /\ jobs' = Append(jobs, held)
  <2> SUFFICES ASSUME NEW k \in 1..Len(jobs'), jobs'[k].nth > 1,
                      Sound([jobs'[k] EXCEPT !.nth = @ - 1])
               PROVE  \E i \in 1..(k - 1) : jobs'[i] = [jobs'[k] EXCEPT !.nth = @ - 1]
    BY DEF CommittedInOrder, Sound
  <2>1. /\ jobs \in Seq(Message) /\ Len(jobs) \in Nat /\ Len(jobs') = Len(jobs) + 1
        /\ \A i \in 1..Len(jobs) : jobs'[i] = jobs[i]
        /\ jobs'[Len(jobs) + 1] = held
    BY <1>2 DEF TypeOK
  <2>2. CASE k = Len(jobs) + 1
    <3>1. IsCommitted([held EXCEPT !.nth = @ - 1])
      BY <1>2, <2>1, <2>2, BeforeHeld
    <3>2. PICK i \in 1..Len(jobs) : jobs[i] = [held EXCEPT !.nth = @ - 1]
      BY <3>1 DEF IsCommitted
    <3> QED
      BY <2>1, <2>2, <3>2
  <2>3. CASE k \in 1..Len(jobs)
    <3>1. jobs'[k] = jobs[k]
      BY <2>1, <2>3
    <3>2. PICK i \in 1..(k - 1) : jobs[i] = [jobs[k] EXCEPT !.nth = @ - 1]
      BY <2>3, <3>1 DEF CommittedInOrder
    <3>3. i \in 1..Len(jobs)
      BY <2>1, <2>3
    <3> QED
      BY <2>1, <3>1, <3>2, <3>3
  <2>4. k = Len(jobs) + 1 \/ k \in 1..Len(jobs)
    BY <2>1
  <2> QED
    BY <2>2, <2>3, <2>4
<1> QED
  BY <1>1, <1>2, JobsStep

-----------------------------------------------------------------------------
(* What a death loses.                                                     *)

\* The last message of a sender is a message.
LEMMA LastMade ==
  ASSUME TypeOK, NEW s \in Sender, pos[s] > 0
  PROVE  Last(s) \in Message /\ Last(s) # NoMessage
<1>1. pos[s] \in 1..Len(Script[s])
  BY ScriptLength DEF TypeOK
<1>2. Last(s) \in Message
  BY <1>1, MessageMade DEF Last
<1> QED
  BY <1>2, NoMessageAssumption

\* Only a death loses a message, and only the one the goroutine holds.
LEMMA LostComes ==
  ASSUME TypeOK, StepInv, ReceivedIsCommitted, [Next]_vars, NEW s \in Lost', s \notin Lost
  PROVE  (CannotCommit \/ Crash) /\ s = held.from
<1> USE DEF goroutine, senders
<1>0. /\ s \in Sender /\ state'[s] = "answered" /\ pos'[s] > 0
      /\ Sound(Last(s))' /\ ~IsCommitted(Last(s))' /\ held' # Last(s)'
  BY DEF Lost
<1>1. ASSUME NEW t \in Sender, Answer(t), t = s PROVE FALSE
  <2>1. /\ pos' = pos /\ held' = held /\ jobs' = jobs /\ state[s] = "sending"
    BY <1>1 DEF Answer
  <2>2. Sound(Last(s)) /\ ~IsCommitted(Last(s)) /\ held # Last(s)
    BY <1>0, <2>1 DEF Last, Sound, IsCommitted
  <2>3. pos[s] \in 1..pos[s]
    BY <1>0, <2>1 DEF TypeOK
  <2> QED
    BY <1>0, <2>1, <2>2, <2>3 DEF ReceivedIsCommitted, Last
<1>2. CASE ~ \E t \in Sender : Answer(t) /\ t = s
  <2>1. state[s] = "answered" /\ pos'[s] = pos[s]
    <3>1. ASSUME NEW t \in Sender, Ask(t) \/ Send(t)
          PROVE  t # s /\ state'[s] = state[s] /\ pos'[s] = pos[s]
      BY <1>0, <3>1 DEF Ask, Send, TypeOK
    <3>2. ASSUME NEW t \in Sender, Answer(t)
          PROVE  state'[s] = state[s] /\ pos'[s] = pos[s]
      BY <1>2, <3>2, <1>0 DEF Answer, TypeOK
    <3>3. CASE CannotCommit \/ Crash
      BY <1>0, <3>3 DEF CannotCommit, Crash, Dies, Rewound, TypeOK
    <3>4. CASE CtxTx \/ InsertTx \/ UnknownQueue \/ CommonCommit \/ Restart \/ UNCHANGED vars
      BY <1>0, <3>4 DEF CtxTx, InsertTx, UnknownQueue, CommonCommit, Restart, vars
    <3> QED
      BY <1>0, <3>1, <3>2, <3>3, <3>4 DEF Next, Work
  <2>2. Last(s)' = Last(s)
    BY <2>1 DEF Last
  <2>3. Sound(Last(s))
    BY <1>0, <2>1 DEF Sound, Last
  <2>4. ~IsCommitted(Last(s))
    <3>1. ASSUME IsCommitted(Last(s)) PROVE FALSE
      <4> DEFINE m == Last(s)
      <4>1. m' = m
        BY <2>2
      <4>2. IsCommitted(m)'
        BY <3>1, <4>1, CommittedStays DEF IsCommitted
      <4> QED
        BY <1>0, <4>2
    <3> QED
      BY <3>1
  <2>5. held = Last(s)
    BY <1>0, <2>1, <2>3, <2>4 DEF Lost
  <2>6. held \in Message /\ held # NoMessage /\ held.from = s
    BY <1>0, <2>1, <2>5, LastMade DEF Last
  <2>7. held' # held
    BY <1>0, <2>2, <2>5
  <2>8. ~ CommonCommit
    <3>1. ASSUME CommonCommit PROVE FALSE
      <4>1. tx = "row"
        BY <2>3, <2>5, <2>6, <3>1 DEF CommonCommit, StepInv
      <4>2. PICK m \in Message : m = held
        BY <2>6
      <4>3. jobs' = Append(jobs, m)
        BY <3>1, <4>1, <4>2 DEF CommonCommit, Committed
      <4>4. IsCommitted(m)'
        BY <4>3, CommitCommits
      <4> QED
        BY <1>0, <2>2, <2>5, <4>2, <4>4 DEF IsCommitted
    <3> QED
      BY <3>1
  <2>9. ~ UnknownQueue
    BY <2>3, <2>5 DEF UnknownQueue, Sound
  <2>10. ASSUME NEW t \in Sender, Send(t) PROVE FALSE
    BY <2>6, <2>10 DEF Send, Received, StepInv
  <2>11. CannotCommit \/ Crash
    BY <2>7, <2>8, <2>9, <2>10
       DEF Next, Work, Ask, Answer, CtxTx, InsertTx, Restart, vars
  <2> QED
    BY <2>6, <2>11
<1> QED
  BY <1>1, <1>2

\* Deaths are counted.
LEMMA DeathsCount ==
  ASSUME [Next]_vars
  PROVE  IF CannotCommit \/ Crash THEN deaths' = deaths + 1 ELSE deaths' = deaths
  BY DEF Next, Work, Ask, Send, Answer, CtxTx, InsertTx, UnknownQueue, CommonCommit,
         CannotCommit, Crash, Dies, Restart, vars

LEMMA LossStep ==
  TypeOK /\ StepInv /\ ReceivedIsCommitted /\ LossInv /\ [Next]_vars => LossInv'
<1> SUFFICES ASSUME TypeOK, StepInv, ReceivedIsCommitted, LossInv, [Next]_vars
             PROVE  LossInv'
  OBVIOUS
<1>0. /\ IsFiniteSet(Lost) /\ Cardinality(Lost) \in Nat /\ Cardinality(Lost) <= deaths
      /\ deaths \in Nat
  BY FS_CardinalityType DEF LossInv, DeathLosesOne, TypeOK
<1>1. CASE ~ (CannotCommit \/ Crash)
  <2>1. Lost' \in SUBSET Lost
    BY <1>1, LostComes
  <2>2. deaths' = deaths
    BY <1>1, DeathsCount
  <2>3. /\ IsFiniteSet(Lost') /\ Cardinality(Lost') \in Nat
        /\ Cardinality(Lost') <= Cardinality(Lost)
    BY <1>0, <2>1, FS_Subset, FS_CardinalityType
  <2> QED
    BY <1>0, <2>2, <2>3 DEF LossInv, DeathLosesOne
<1>2. CASE CannotCommit \/ Crash
  <2> DEFINE x == held.from
  <2>1. Lost' \in SUBSET (Lost \cup {x})
    BY LostComes
  <2> HIDE DEF x
  <2>2. /\ IsFiniteSet(Lost \cup {x}) /\ Cardinality(Lost \cup {x}) \in Nat
        /\ Cardinality(Lost \cup {x}) <= Cardinality(Lost) + 1
    <3>1. /\ IsFiniteSet(Lost \cup {x})
          /\ Cardinality(Lost \cup {x}) = IF x \in Lost THEN Cardinality(Lost)
                                                       ELSE Cardinality(Lost) + 1
      BY <1>0, FS_AddElement
    <3> QED
      BY <1>0, <3>1
  <2>3. /\ IsFiniteSet(Lost') /\ Cardinality(Lost') \in Nat
        /\ Cardinality(Lost') <= Cardinality(Lost \cup {x})
    BY <2>1, <2>2, FS_Subset, FS_CardinalityType
  <2>4. deaths' = deaths + 1
    BY <1>2, DeathsCount
  <2> QED
    BY <1>0, <2>2, <2>3, <2>4 DEF LossInv, DeathLosesOne
<1> QED
  BY <1>1, <1>2

-----------------------------------------------------------------------------
(* IInv is inductive.                                                      *)

LEMMA Initially == Init => IInv
<1> SUFFICES ASSUME Init PROVE IInv
  OBVIOUS
<1>1. TypeOK
  BY InitTypeOK
<1>2. StepInv /\ OpenInv
  BY DEF Init, StepInv, OpenInv
<1>3. ReceivedIsCommitted
  <2>1. ASSUME NEW s \in Sender, NEW n \in 1..pos[s] PROVE FALSE
    <3>1. pos[s] = 0
      BY DEF Init
    <3> QED
      BY <3>1
  <2> QED
    BY <2>1 DEF ReceivedIsCommitted
<1>4. CommittedInOrder
  BY DEF Init, CommittedInOrder
<1>5. LossInv
  <2>1. Lost = {} /\ deaths = 0
    BY DEF Init, Lost
  <2> QED
    BY <2>1, FS_EmptySet DEF LossInv, DeathLosesOne
<1> QED
  BY <1>1, <1>2, <1>3, <1>4, <1>5, NoStall DEF IInv

LEMMA Inductive == IInv /\ [Next]_vars => IInv'
<1> SUFFICES ASSUME IInv, [Next]_vars PROVE IInv'
  OBVIOUS
<1>1. TypeOK' /\ StepInv' /\ OpenInv'
  BY TypeStep, StepStep, OpenStep DEF IInv
<1>2. ReceivedIsCommitted' /\ CommittedInOrder' /\ LossInv'
  BY ReceivedStep, OrderStep, LossStep DEF IInv
<1>3. StallsOnlyByLeaks'
  BY <1>1, NoStall, PTL
<1> QED
  BY <1>1, <1>2, <1>3 DEF IInv

LEMMA Invariance == Spec => []IInv
  BY Initially, Inductive, PTL DEF Spec

\* Type correctness of Enqueue.
THEOREM TypeCorrect == Spec => []TypeOK
<1>1. IInv => TypeOK
  BY DEF IInv
<1> QED
  BY <1>1, Invariance, PTL

\* A handler that is at its n-th message has the n - 1 before it in the table of jobs,
\* over any crashes; only the last of one that has answered can be lost.
THEOREM ReceivedCommitted == Spec => []ReceivedIsCommitted
<1>1. IInv => ReceivedIsCommitted
  BY DEF IInv
<1> QED
  BY <1>1, Invariance, PTL

\* A death of the process (queueing/river.go:26) loses the last message of one sender
\* at most, for any number of senders, scripts, connections and deaths.
THEOREM DeathLoss == Spec => []DeathLosesOne
<1>1. IInv => DeathLosesOne
  BY DEF IInv, LossInv
<1> QED
  BY <1>1, Invariance, PTL

\* The table of jobs keeps the order of each sender: admin never acts on what it has
\* not recorded.
THEOREM InOrder == Spec => []CommittedInOrder
<1>1. IInv => CommittedInOrder
  BY DEF IInv
<1> QED
  BY <1>1, Invariance, PTL

\* Only unknown queue names can use the pool up.
THEOREM StallNeedsLeaks == Spec => []StallsOnlyByLeaks
<1>1. IInv => StallsOnlyByLeaks
  BY DEF IInv
<1> QED
  BY <1>1, Invariance, PTL

-----------------------------------------------------------------------------
(* Enqueue implements Outbox.                                              *)

LEMMA OutInitially == Init => Out!OutInit
  BY DEF Init, Out!OutInit

LEMMA OutStep == IInv /\ [Next]_vars => [Out!OutNext]_(Out!outVars)
<1> SUFFICES ASSUME IInv, [Next]_vars PROVE [Out!OutNext]_(Out!outVars)
  OBVIOUS
<1> USE DEF Out!outVars, goroutine, senders
<1>h. held \in Message \cup {NoMessage} /\ (held = NoMessage <=> step = "receive")
  BY DEF IInv, TypeOK, StepInv
<1>1. ASSUME NEW s \in Sender, Ask(s) \/ Answer(s) PROVE [Out!OutNext]_(Out!outVars)
  BY <1>1 DEF Ask, Answer
<1>2. ASSUME NEW s \in Sender, Send(s) PROVE Out!OutNext
  <2>1. held = NoMessage /\ held' \in Message
    <3>1. held' \in Message \cup {NoMessage} /\ StepInv'
      BY Inductive DEF IInv, TypeOK
    <3> QED
      BY <1>2, <1>h, <3>1 DEF Send, Received, StepInv
  <2>2. held' # NoMessage
    BY <2>1, NoMessageAssumption
  <2> QED
    BY <1>2, <2>1, <2>2 DEF Send, Out!OutNext, Out!TakeOne
<1>3. CASE CtxTx \/ InsertTx
  BY <1>3 DEF CtxTx, InsertTx
<1>4. CASE UnknownQueue
  <2>1. held \in Message /\ ~Sound(held)
    BY <1>4, <1>h DEF UnknownQueue, Sound
  <2> QED
    BY <1>4, <1>h, <2>1 DEF UnknownQueue, Out!OutNext, Out!Lose
<1>5. CASE CommonCommit
  <2>1. held \in Message /\ (tx = "row" \/ (tx = "empty" /\ ~Sound(held)))
    <3>1. StepInv /\ step = "commit" /\ tx # "aborted"
      BY <1>5 DEF CommonCommit, IInv
    <3>2. /\ held # NoMessage /\ tx \in {"row", "empty", "aborted"}
          /\ tx = "empty" => ~Sound(held)
      BY <3>1, <1>h DEF StepInv
    <3>3. held \in Message
      BY <1>h, <3>2
    <3>4. tx = "row" \/ (tx = "empty" /\ ~Sound(held))
      BY <3>1, <3>2
    <3> QED
      BY <3>3, <3>4
  <2>2. CASE tx = "row"
    BY <1>5, <1>h, <2>1, <2>2 DEF CommonCommit, Committed, Out!OutNext, Out!CommitIt
  <2>3. CASE tx = "empty" /\ ~Sound(held)
    BY <1>5, <1>h, <2>1, <2>3 DEF CommonCommit, Committed, Out!OutNext, Out!Lose
  <2> QED
    BY <2>1, <2>2, <2>3
<1>6. CASE CannotCommit \/ Crash
  BY <1>6 DEF CannotCommit, Crash, Dies, Out!OutNext, Out!Die
<1>7. CASE Restart \/ UNCHANGED vars
  BY <1>7 DEF Restart, vars
<1> QED
  BY <1>1, <1>2, <1>3, <1>4, <1>5, <1>6, <1>7 DEF Next, Work

\* Whatever the senders do, what was taken from the channel is committed at most once
\* and in its order, and is lost only to a death, an unknown name or a refused insert.
THEOREM Implements == Spec => ImplementsOutbox
<1>1. Spec => []IInv
  BY Invariance
<1> QED
  BY <1>1, OutInitially, OutStep, PTL DEF Spec, ImplementsOutbox, Out!OutSpec

=============================================================================
