---------------------------- MODULE FetchProofs ----------------------------
(***************************************************************************)
(* Fetch keeps its promises for every number of hosts, pages and workers,  *)
(* every queueing model, any polite sleep and any number of jobs, errors   *)
(* and crashes. IInv, defined beside the properties in Fetch, is           *)
(* inductive; each of its conjuncts has a lemma that says how a step keeps *)
(* it. The last two sections add history variables: what was committed,    *)
(* and when a host was granted and visited.                                *)
(***************************************************************************)
EXTENDS Fetch, Sequences, FiniteSetTheorems, TLAPS

-----------------------------------------------------------------------------
(* Types.                                                                  *)

\* What the proofs need of the constants.
LEMMA Constants ==
  /\ \A p \in Page : HostOf[p] \in Host
  /\ NoPage \notin Page /\ NoMessage \notin Message
  /\ PoliteSleep \in Nat /\ Old \in Nat /\ Old > PoliteSleep
  /\ MaxAsked \in Nat /\ MaxErrors \in Nat /\ MaxCrashes \in Nat
  /\ IsFiniteSet(Worker) /\ Worker # {}
<1>1. /\ HostOf \in [Page -> Host] /\ NoPage \notin Page /\ PoliteSleep \in Nat
      /\ MaxAsked \in Nat /\ MaxErrors \in Nat /\ MaxCrashes \in Nat
      /\ IsFiniteSet(Worker) /\ Worker # {}
  BY FetchAssumption, Zenon DEF FetchAssumption
<1>2. Old \in Nat /\ Old > PoliteSleep
  BY <1>1 DEF Old
<1> QED
  BY <1>1, <1>2, MessageAssumption DEF MessageAssumption

\* A requeued job goes to a queue.
LEMMA RequeueQueue == RequeueTo \in Queue
  BY DEF RequeueTo, Queue

\* Whatever is sent is a message.
LEMMA SendTypes ==
  ASSUME TypeOK, NEW w \in Worker, pc[w] # "idle",
         NEW to \in Queue \cup {"extract", "walk", "collect"}
  PROVE  [to |-> to, page |-> page[w]] \in Message
  BY DEF TypeOK, Message

\* Ages stay ages.
LEMMA AgedTypes ==
  ASSUME NEW a \in {NotSeen} \cup 0..Old
  PROVE  Aged(a) \in {NotSeen} \cup 0..Old /\ (Aged(a) = NotSeen <=> a = NotSeen)
  BY Constants DEF Aged, NotSeen

\* A stamp is an age.
LEMMA StampedTypes ==
  ASSUME TypeOK, NEW h \in Host
  PROVE  Stamped(h) \in [Host -> {NotSeen} \cup 0..Old]
  BY Constants DEF Stamped, TypeOK

\* A queue of a page that grows or shrinks keeps a natural number of jobs.
LEMMA CountTypes ==
  ASSUME NEW f \in [Page -> [Queue -> Nat]], NEW p \in Page, NEW q \in Queue
  PROVE  /\ [f EXCEPT ![p][q] = @ + 1] \in [Page -> [Queue -> Nat]]
         /\ f[p][q] > 0 => [f EXCEPT ![p][q] = @ - 1] \in [Page -> [Queue -> Nat]]
<1>1. ASSUME NEW n \in Nat PROVE [f EXCEPT ![p][q] = n] \in [Page -> [Queue -> Nat]]
  OBVIOUS
<1>2. f[p][q] + 1 \in Nat /\ (f[p][q] > 0 => f[p][q] - 1 \in Nat)
  OBVIOUS
<1> QED
  BY <1>1, <1>2

LEMMA InitTypeOK == Init => TypeOK
  BY Constants DEF Init, TypeOK, Location, Queue

LEMMA TypeStep == TypeOK /\ [Next]_vars => TypeOK'
<1> SUFFICES ASSUME TypeOK, [Next]_vars PROVE TypeOK'
  OBVIOUS
<1> USE DEF Goto, store, jobs, history
<1>1. ASSUME NEW p \in Page, Ask(p) PROVE TypeOK'
  BY <1>1, Constants DEF Ask, TypeOK, Queue
<1>2. ASSUME NEW w \in Worker, NEW p \in Page, NEW q \in Queue, Take(w, p, q)
      PROVE TypeOK'
  <2>1. available' \in [Page -> [Queue -> Nat]]
    BY <1>2, CountTypes DEF Take, TypeOK
  <2>2. dropped' \subseteq Page /\ pc' \in [Worker -> Location]
    BY <1>2 DEF Take, TypeOK, Location
  <2> QED
    BY <1>2, <2>1, <2>2 DEF Take, TypeOK
<1>3. ASSUME NEW p \in Page, NEW q \in Queue, Rescue(p, q) PROVE TypeOK'
  <2>1. stuck' \in [Page -> [Queue -> Nat]]
    BY <1>3, CountTypes DEF Rescue, TypeOK
  <2>2. available' \in [Page -> [Queue -> Nat]] /\ dropped' \subseteq Page
    <3>1. CASE available' = [available EXCEPT ![p][q] = @ + 1] /\ UNCHANGED dropped
      BY <3>1, CountTypes DEF TypeOK
    <3>2. CASE dropped' = dropped \cup {p} /\ UNCHANGED available
      BY <3>2 DEF TypeOK
    <3> QED
      BY <1>3, <3>1, <3>2 DEF Rescue
  <2> QED
    BY <1>3, <2>1, <2>2 DEF Rescue, TypeOK
<1>4. ASSUME NEW w \in Worker, HostExists(w) PROVE TypeOK'
  BY <1>4 DEF HostExists, TypeOK, Location
<1>5. ASSUME NEW w \in Worker, GoodToGo(w) PROVE TypeOK'
  <2>1. HostOf[page[w]] \in Host
    BY <1>5, Constants DEF GoodToGo, TypeOK
  <2>2. age' \in [Host -> {NotSeen} \cup 0..Old]
    BY <1>5, <2>1, StampedTypes DEF GoodToGo
  <2> QED
    BY <1>5, <2>2 DEF GoodToGo, TypeOK, Location
<1>6. ASSUME NEW w \in Worker, GoodToGoUnchecked(w) PROVE TypeOK'
  <2>1. HostOf[page[w]] \in Host
    BY <1>6, Constants DEF GoodToGoUnchecked, TypeOK
  <2>2. age' \in [Host -> {NotSeen} \cup 0..Old]
    BY <1>6, <2>1, StampedTypes DEF GoodToGoUnchecked
  <2>3. gatecrash' \in [Host -> Nat]
    <3> DEFINE h == HostOf[page[w]]  n == IF Free(h) THEN gatecrash[h] ELSE gatecrash[h] + 1
    <3>1. gatecrash' = [gatecrash EXCEPT ![h] = n]
      BY <1>6, Zenon DEF GoodToGoUnchecked
    <3>2. n \in Nat
      BY <2>1 DEF TypeOK
    <3> HIDE DEF n
    <3> QED
      BY <2>1, <3>1, <3>2 DEF TypeOK
  <2> QED
    BY <1>6, <2>2, <2>3 DEF GoodToGoUnchecked, TypeOK, Location
<1>7. ASSUME NEW w \in Worker, Requeue(w) PROVE TypeOK'
  <2>1. slot' \in Message
    BY <1>7, SendTypes, RequeueQueue DEF Requeue, Requeued, SendTo
  <2> QED
    BY <1>7, <2>1 DEF Requeue, TypeOK, Location
<1>8. ASSUME NEW w \in Worker, Introduce(w) PROVE TypeOK'
  <2>1. slot' \in Message
    BY <1>8, SendTypes, RequeueQueue DEF Introduce, SendTo
  <2> QED
    BY <1>8, <2>1 DEF Introduce, TypeOK, Location
<1>9. ASSUME NEW w \in Worker, FetchPageContent(w) PROVE TypeOK'
  BY <1>9 DEF FetchPageContent, StoreRaw, TypeOK, Location
<1>10. ASSUME NEW w \in Worker, FetchCommonError(w) PROVE TypeOK'
  BY <1>10 DEF FetchCommonError, TypeOK, Location
<1>11. ASSUME NEW w \in Worker, FetchError(w) PROVE TypeOK'
  BY <1>11, Constants DEF FetchError, TypeOK, Location
<1>12. ASSUME NEW w \in Worker, UpdateGuestbook(w) PROVE TypeOK'
  BY <1>12 DEF UpdateGuestbook, Record, TypeOK, Location
<1>13. ASSUME NEW w \in Worker, Save(w) PROVE TypeOK'
  BY <1>13 DEF Save, SaveJSON, TypeOK, Location
<1>14. ASSUME NEW w \in Worker, SendExtract(w) PROVE TypeOK'
  <2>1. slot' \in Message
    BY <1>14, SendTypes DEF SendExtract, SendTo
  <2> QED
    BY <1>14, <2>1 DEF SendExtract, TypeOK, Location
<1>15. ASSUME NEW w \in Worker, SendWalk(w) PROVE TypeOK'
  <2>1. slot' \in Message
    BY <1>15, SendTypes DEF SendWalk, SendTo
  <2> QED
    BY <1>15, <2>1 DEF SendWalk, TypeOK, Location
<1>16. ASSUME NEW w \in Worker, FetchAgain(w) PROVE TypeOK'
  BY <1>16 DEF FetchAgain, StoreRaw, TypeOK, Location
<1>17. ASSUME NEW w \in Worker, SendCollect(w) PROVE TypeOK'
  <2>1. slot' \in Message
    BY <1>17, SendTypes DEF SendCollect, SendTo
  <2> QED
    BY <1>17, <2>1 DEF SendCollect, TypeOK, Location
<1>18. ASSUME NEW w \in Worker, Complete(w) PROVE TypeOK'
  BY <1>18 DEF Complete, TypeOK, Location
<1>19. ASSUME NEW w \in Worker, Retry(w) PROVE TypeOK'
  <2>1. available' \in [Page -> [Queue -> Nat]]
    BY <1>19 DEF Retry, TypeOK
  <2> QED
    BY <1>19, <2>1 DEF Retry, TypeOK, Location
<1>25. ASSUME NEW w \in Worker, Discard(w) PROVE TypeOK'
  BY <1>25 DEF Discard, TypeOK, Location
<1>20. CASE Commit
  <2>1. available' \in [Page -> [Queue -> Nat]]
    <3>1. slot.page \in Page
      BY <1>20 DEF Commit, TypeOK, Message
    <3>2. CASE slot.to \in Queue
      <4>1. available' = [available EXCEPT ![slot.page][slot.to] = @ + 1]
        BY <1>20, <3>2 DEF Commit
      <4> QED
        BY <3>1, <3>2, <4>1, CountTypes DEF TypeOK
    <3>3. CASE slot.to \notin Queue
      BY <1>20, <3>3 DEF Commit, TypeOK
    <3> QED
      BY <3>2, <3>3
  <2>2. sent' \subseteq Message
    BY <1>20 DEF Commit, TypeOK
  <2> QED
    BY <1>20, <2>1, <2>2 DEF Commit, TypeOK
<1>21. CASE Crash
  <2>1. ASSUME NEW p \in Page, NEW q \in Queue
        PROVE Cardinality(HeldIn(p, q)) \in Nat
    <3>1. HeldIn(p, q) \subseteq Worker
      BY DEF HeldIn
    <3> QED
      BY <3>1, Constants, FS_Subset, FS_CardinalityType
  <2>2. stuck' \in [Page -> [Queue -> Nat]]
    <3> DEFINE n(p, q) == Cardinality(HeldIn(p, q))
    <3>1. \A p \in Page, q \in Queue : n(p, q) \in Nat
      BY <2>1
    <3>2. stuck' = [p \in Page |-> [q \in Queue |-> stuck[p][q] + n(p, q)]]
      BY <1>21 DEF Crash
    <3> HIDE DEF n
    <3> QED
      BY <3>1, <3>2 DEF TypeOK
  <2> QED
    BY <1>21, <2>2, Constants DEF Crash, TypeOK, Location
<1>22. CASE Startup
  BY <1>22 DEF Startup, Boot, NewHostGateway, StartEnqueue, TypeOK
<1>23. CASE Tick
  <2>1. age' \in [Host -> {NotSeen} \cup 0..Old]
    BY <1>23, AgedTypes DEF Tick, TypeOK
  <2> QED
    BY <1>23, <2>1 DEF Tick, TypeOK
<1>24. CASE UNCHANGED vars
  BY <1>24 DEF vars, TypeOK
<1> QED
  BY <1>1, <1>2, <1>3, <1>4, <1>5, <1>6, <1>7, <1>8, <1>9, <1>10, <1>11, <1>12, <1>13,
     <1>14, <1>15, <1>16, <1>17, <1>18, <1>19, <1>20, <1>21, <1>22, <1>23, <1>24,
     <1>25
     DEF Next, Step, Done

-----------------------------------------------------------------------------
(* The stages of a job.                                                    *)

\* A message on its way stays on its way while nobody replaces it.
LEMMA MessageKept ==
  ASSUME TypeOK, [Next]_vars, ~Crash, NEW p \in Page, NEW to \in {"extract", "walk"},
         OnItsWay(to, p)
  PROVE  OnItsWay(to, p)'
<1> DEFINE m == [to |-> to, page |-> p]
<1>1. m # NoMessage
  BY MessageAssumption DEF MessageAssumption, Message
<1>2. CASE Commit
  <2>1. m.to \notin Queue
    BY DEF Queue
  <2> QED
    BY <1>1, <1>2, <2>1 DEF Commit, OnItsWay
<1>3. CASE slot' = slot /\ sent' = sent
  BY <1>3 DEF OnItsWay
<1>4. CASE slot = NoMessage /\ sent' = sent
  BY <1>1, <1>4 DEF OnItsWay
<1> QED
  BY <1>2, <1>3, <1>4
     DEF Next, Step, Done, Ask, Take, Rescue, HostExists, GoodToGo, GoodToGoUnchecked,
         Requeue, Requeued, Introduce, SendTo, FetchPageContent, FetchCommonError,
         FetchError, UpdateGuestbook, Save, SendExtract, SendWalk, FetchAgain,
         SendCollect, Complete, Retry, Discard, Startup, Boot, NewHostGateway, StartEnqueue,
         Tick, vars

\* Nothing that is saved, committed or delivered is forgotten.
LEMMA StoresGrow ==
  ASSUME TypeOK, [Next]_vars
  PROVE  json \subseteq json' /\ sent \subseteq sent'
  BY DEF Next, Step, Done, Ask, Take, Rescue, HostExists, GoodToGo, GoodToGoUnchecked,
         Requeue, Requeued, Introduce, SendTo, FetchPageContent, FetchCommonError,
         FetchError, UpdateGuestbook, Save, SaveJSON, SendExtract, SendWalk, FetchAgain,
         SendCollect, Complete, Retry, Discard, Commit, Crash, Startup, Boot, NewHostGateway,
         StartEnqueue, Tick, vars, store

\* What is written stays, and what a failed statement left out is known to be
\* missing until a later one writes it.
LEMMA WrittenOrMissing ==
  ASSUME TypeOK, [Next]_vars, NEW p \in Page
  PROVE  /\ IsStored(p) => IsStored(p)'
         /\ IsRecorded(p) => IsRecorded(p)'
<1>1. CASE \E w \in Worker : FetchPageContent(w) \/ FetchAgain(w)
  <2>1. recorded' = recorded
    BY <1>1 DEF FetchPageContent, FetchAgain
  <2>2. PICK r : StoreRaw(r)
    BY <1>1 DEF FetchPageContent, FetchAgain
  <2> QED
    BY <2>1, <2>2 DEF StoreRaw, IsStored, IsRecorded
<1>2. CASE \E w \in Worker : UpdateGuestbook(w)
  <2>1. raw' = raw
    BY <1>2 DEF UpdateGuestbook
  <2>2. PICK r : Record(r)
    BY <1>2 DEF UpdateGuestbook
  <2> QED
    BY <2>1, <2>2 DEF Record, IsStored, IsRecorded
<1>3. CASE UNCHANGED <<raw, recorded, missing>>
  BY <1>3 DEF IsStored, IsRecorded
<1> QED
  BY <1>1, <1>2, <1>3
     DEF Next, Step, Done, Ask, Take, Rescue, HostExists, GoodToGo, GoodToGoUnchecked,
         Requeue, Introduce, FetchCommonError, FetchError, Save, SendExtract, SendWalk,
         SendCollect, Complete, Retry, Discard, Commit, Crash, Startup, Boot,
         NewHostGateway, StartEnqueue, Tick, vars, store, history

\* A worker at a late step was there before, or took the step that leads to it.
LEMMA StageOrder ==
  ASSUME TypeOK, [Next]_vars, NEW w \in Worker
  PROVE  /\ pc'[w] \in {"guestbook", "save", "extract", "walk", "again", "collect"}
              => page'[w] = page[w]
         /\ pc'[w] = "guestbook" => pc[w] = "guestbook" \/ FetchPageContent(w)
         /\ pc'[w] = "save" => pc[w] = "save" \/ UpdateGuestbook(w)
         /\ pc'[w] = "extract" => pc[w] = "extract" \/ Save(w)
         /\ pc'[w] = "walk" => pc[w] = "walk" \/ SendExtract(w)
         /\ pc'[w] = "again" => pc[w] = "again" \/ SendWalk(w)
         /\ pc'[w] = "collect" => pc[w] \in {"again", "collect"}
<1> USE DEF Goto
<1>1. CASE \E v \in Worker, p \in Page, q \in Queue : Take(v, p, q)
  BY <1>1 DEF Take, TypeOK
<1>2. CASE \E v \in Worker : Step(v)
  <2> PICK v \in Worker : Step(v)
    BY <1>2
  <2>1. CASE w # v
    BY <2>1 DEF Step, HostExists, GoodToGo, GoodToGoUnchecked,
         Requeue, Introduce, FetchPageContent, FetchCommonError,
         FetchError, UpdateGuestbook, Save, SendExtract, SendWalk, FetchAgain,
         SendCollect, Complete, Retry, Discard, TypeOK
  <2>2. CASE w = v
    BY <2>2 DEF Step, HostExists, GoodToGo, GoodToGoUnchecked,
         Requeue, Introduce, FetchPageContent, FetchCommonError,
         FetchError, UpdateGuestbook, Save, SendExtract, SendWalk, FetchAgain,
         SendCollect, Complete, Retry, Discard, TypeOK
  <2> QED
    BY <2>1, <2>2
<1>3. CASE Crash
  BY <1>3 DEF Crash
<1>4. CASE UNCHANGED <<pc, page>>
  BY <1>4
<1> QED
  BY <1>1, <1>2, <1>3, <1>4
     DEF Next, Ask, Rescue, Commit, Startup, Boot, NewHostGateway, StartEnqueue, Tick, Done, vars

\* What a worker has done by the time it is at a step stays done.
LEMMA StageStep == TypeOK /\ StageInv /\ [Next]_vars => StageInv'
<1> SUFFICES ASSUME TypeOK, StageInv, [Next]_vars, NEW w \in Worker
             PROVE  /\ pc'[w] \in {"guestbook", "save", "extract", "walk", "again", "collect"}
                         => IsStored(page[w])'
                    /\ pc'[w] \in {"save", "extract", "walk", "again", "collect"}
                         => IsRecorded(page[w])'
                    /\ pc'[w] \in {"extract", "walk", "again", "collect"}
                         => page'[w] \in json'
                    /\ pc'[w] \in {"walk", "again", "collect"}
                         => OnItsWay("extract", page[w])'
                    /\ pc'[w] \in {"again", "collect"}
                         => OnItsWay("walk", page[w])'
  BY DEF StageInv
<1>1. CASE Crash
  BY <1>1 DEF Crash
<1>2. ASSUME ~Crash, pc'[w] \in {"extract", "walk", "again", "collect"}
      PROVE  page[w] \in Page /\ page'[w] = page[w] /\ page[w] \in json'
  BY <1>2, StageOrder, StoresGrow
     DEF StageInv, TypeOK, Save, SaveJSON, SendExtract, SendWalk
<1>3. ASSUME ~Crash, pc'[w] \in {"walk", "again", "collect"}
      PROVE  OnItsWay("extract", page[w])'
  <2>1. CASE SendExtract(w)
    BY <2>1 DEF SendExtract, SendTo, OnItsWay
  <2>2. CASE pc[w] \in {"walk", "again", "collect"}
    <3>1. OnItsWay("extract", page[w])
      BY <2>2 DEF StageInv
    <3> QED
      BY <1>2, <1>3, <3>1, MessageKept
  <2> QED
    BY <1>3, <2>1, <2>2, StageOrder DEF SendWalk
<1>4. ASSUME ~Crash, pc'[w] \in {"again", "collect"}
      PROVE  OnItsWay("walk", page[w])'
  <2>1. CASE SendWalk(w)
    BY <2>1 DEF SendWalk, SendTo, OnItsWay
  <2>2. CASE pc[w] \in {"again", "collect"}
    <3>1. OnItsWay("walk", page[w])
      BY <2>2 DEF StageInv
    <3> QED
      BY <1>2, <1>4, <3>1, MessageKept
  <2> QED
    BY <1>4, <2>1, <2>2, StageOrder
<1>5. ASSUME ~Crash,
             pc'[w] \in {"guestbook", "save", "extract", "walk", "again", "collect"}
      PROVE  IsStored(page[w])'
  <2>1. page'[w] = page[w]
    BY <1>5, StageOrder
  <2>2. CASE FetchPageContent(w)
    <3>1. StoreRaw(page[w])
      BY <2>2 DEF FetchPageContent
    <3> QED
      BY <2>1, <3>1 DEF StoreRaw, IsStored
  <2>3. CASE pc[w] \in {"guestbook", "save", "extract", "walk", "again", "collect"}
    <3>1. page[w] \in Page /\ IsStored(page[w])
      BY <2>3 DEF StageInv, TypeOK
    <3> QED
      BY <2>1, <3>1, WrittenOrMissing DEF IsStored
  <2>4. \/ FetchPageContent(w)
        \/ pc[w] \in {"guestbook", "save", "extract", "walk", "again", "collect"}
    BY <1>5, StageOrder DEF UpdateGuestbook, Save, SendExtract, SendWalk
  <2> QED
    BY <2>2, <2>3, <2>4
<1>6. ASSUME ~Crash,
             pc'[w] \in {"save", "extract", "walk", "again", "collect"}
      PROVE  IsRecorded(page[w])'
  <2>1. page'[w] = page[w]
    BY <1>6, StageOrder
  <2>2. CASE UpdateGuestbook(w)
    <3>1. Record(page[w])
      BY <2>2 DEF UpdateGuestbook
    <3> QED
      BY <2>1, <3>1 DEF Record, IsRecorded
  <2>3. CASE pc[w] \in {"save", "extract", "walk", "again", "collect"}
    <3>1. page[w] \in Page /\ IsRecorded(page[w])
      BY <2>3 DEF StageInv, TypeOK
    <3> QED
      BY <2>1, <3>1, WrittenOrMissing DEF IsRecorded
  <2>4. \/ UpdateGuestbook(w)
        \/ pc[w] \in {"save", "extract", "walk", "again", "collect"}
    BY <1>6, StageOrder DEF Save, SendExtract, SendWalk
  <2> QED
    BY <2>2, <2>3, <2>4
<1> QED
  BY <1>1, <1>2, <1>3, <1>4, <1>5, <1>6

\* The collect message is received only after the walk message is committed.
LEMMA DeliveredStep ==
  TypeOK /\ StageInv /\ DeliveredIsCommitted /\ [Next]_vars => DeliveredIsCommitted'
<1> SUFFICES ASSUME TypeOK, StageInv, DeliveredIsCommitted, [Next]_vars
             PROVE  DeliveredIsCommitted'
  OBVIOUS
<1>1. CASE \E w \in Worker : SendCollect(w)
  <2> PICK w \in Worker : SendCollect(w)
    BY <1>1
  <2>1. slot = NoMessage /\ pc[w] = "collect" /\ page[w] \in Page
    BY DEF SendCollect, SendTo, TypeOK
  <2>2. \A to \in {"extract", "walk"} : OnItsWay(to, page[w])
    BY <2>1 DEF StageInv
  <2>3. \A to \in {"extract", "walk"} : [to |-> to, page |-> page[w]] # NoMessage
    BY <2>1, MessageAssumption DEF MessageAssumption, Message
  <2>4. \A to \in {"extract", "walk"} : [to |-> to, page |-> page[w]] \in sent
    BY <2>1, <2>2, <2>3 DEF OnItsWay
  <2>5. delivered' = delivered \cup {page[w]} /\ sent' = sent
    BY DEF SendCollect
  <2> QED
    BY <2>4, <2>5 DEF DeliveredIsCommitted
<1>2. CASE delivered' = delivered
  BY <1>2, StoresGrow DEF DeliveredIsCommitted
<1> QED
  BY <1>1, <1>2
     DEF Next, Step, Done, Ask, Take, Rescue, HostExists, GoodToGo, GoodToGoUnchecked,
         Requeue, Introduce, FetchPageContent, FetchCommonError, FetchError,
         UpdateGuestbook, Save, SendExtract, SendWalk, FetchAgain, Complete, Retry, Discard,
         Commit, Crash, Startup, Boot, NewHostGateway, StartEnqueue, Tick, vars, history

\* Every extract and walk message is new, or was there and its document too.
LEMMA DocumentStep ==
  TypeOK /\ StageInv /\ NextServiceFindsPage /\ [Next]_vars => NextServiceFindsPage'
<1> DEFINE There == sent \cup ({slot} \ {NoMessage})
           Found(p) == p \in json /\ IsStored(p) /\ IsRecorded(p)
<1> SUFFICES ASSUME TypeOK, StageInv, NextServiceFindsPage, [Next]_vars
             PROVE  \A m \in There' : m.to \in {"extract", "walk"} => Found(m.page)'
  BY DEF NextServiceFindsPage
<1>0. \A p \in Page : Found(p) => Found(p)'
  <2> SUFFICES ASSUME NEW p \in Page, Found(p) PROVE Found(p)'
    OBVIOUS
  <2>1. p \in json'
    BY StoresGrow
  <2>2. IsStored(p)' /\ IsRecorded(p)'
    BY WrittenOrMissing
  <2> QED
    BY <2>1, <2>2
<1>1. \A m \in There : m.to \in {"extract", "walk"} => Found(m.page)'
  <2> SUFFICES ASSUME NEW m \in There, m.to \in {"extract", "walk"} PROVE Found(m.page)'
    OBVIOUS
  <2>1. m.page \in Page
    BY DEF TypeOK, Message
  <2>2. Found(m.page)
    BY DEF NextServiceFindsPage
  <2> QED
    BY <1>0, <2>1, <2>2
<1>2. CASE There' \subseteq There
  BY <1>1, <1>2
<1>3. CASE \E w \in Worker : SendExtract(w) \/ SendWalk(w)
  <2> PICK w \in Worker : SendExtract(w) \/ SendWalk(w)
    BY <1>3
  <2>1. PICK p \in Page : page[w] = p
    BY DEF SendExtract, SendWalk, TypeOK
  <2>2. Found(p)
    BY <2>1 DEF SendExtract, SendWalk, StageInv
  <2>3. Found(p)'
    BY <1>0, <2>2
  <2>4. sent' = sent /\ slot'.page = p
    BY <2>1 DEF SendExtract, SendWalk, SendTo
  <2> HIDE DEF Found
  <2> QED
    BY <1>1, <2>3, <2>4
<1>4. CASE sent' = sent /\ slot'.to \notin {"extract", "walk"}
  BY <1>1, <1>4
<1>5. ASSUME NEW w \in Worker, Requeue(w) \/ Introduce(w) \/ SendCollect(w)
      PROVE  sent' = sent /\ slot'.to \notin {"extract", "walk"}
  BY <1>5, RequeueQueue DEF Requeue, Requeued, Introduce, SendCollect, SendTo, Queue
<1>6. Commit \/ Crash => There' \subseteq There
  BY DEF Commit, Crash
<1>7. UNCHANGED <<sent, slot>> => There' \subseteq There
  OBVIOUS
<1> QED
  BY <1>2, <1>3, <1>4, <1>5, <1>6, <1>7
     DEF Next, Step, Done, Ask, Take, Rescue, HostExists, GoodToGo, GoodToGoUnchecked,
         FetchPageContent, FetchCommonError, FetchError, UpdateGuestbook, Save,
         FetchAgain, Complete, Retry, Discard, Startup, Boot, NewHostGateway, StartEnqueue,
         Tick, vars

-----------------------------------------------------------------------------
(* The gateway.                                                            *)

\* The strangers of a host are workers, and fewer than all if one is not.
LEMMA StrangersCount ==
  ASSUME NEW h \in Host
  PROVE  /\ IsFiniteSet(Strangers(h)) /\ Cardinality(Strangers(h)) \in Nat
         /\ Cardinality(Worker) \in Nat
         /\ Cardinality(Strangers(h)) <= Cardinality(Worker)
<1>1. Strangers(h) \subseteq Worker
  BY DEF Strangers
<1> QED
  BY <1>1, Constants, FS_Subset, FS_CardinalityType

\* A step after which a worker is no stranger of a host leaves fewer than all.
LEMMA FewerStrangers ==
  ASSUME NEW h \in Host, NEW w \in Worker, w \notin Strangers(h)'
  PROVE  Cardinality(Strangers(h)') < Cardinality(Worker)
<1>1. Strangers(h)' \subseteq Worker \ {w}
  BY DEF Strangers
<1>2. /\ IsFiniteSet(Worker \ {w})
      /\ Cardinality(Worker \ {w}) = Cardinality(Worker) - 1
  BY Constants, FS_RemoveElement
<1>3. Cardinality(Worker) \in Nat
  BY Constants, FS_CardinalityType
<1>4. /\ Cardinality(Strangers(h)') <= Cardinality(Worker \ {w})
      /\ Cardinality(Strangers(h)') \in Nat
  BY <1>1, <1>2, FS_Subset, FS_CardinalityType
<1> QED
  BY <1>2, <1>3, <1>4

\* A step that makes no new stranger of a host leaves no more of them.
LEMMA NoMoreStrangers ==
  ASSUME NEW h \in Host, Strangers(h)' \subseteq Strangers(h)
  PROVE  /\ Cardinality(Strangers(h)') <= Cardinality(Strangers(h))
         /\ Cardinality(Strangers(h)') \in Nat
  BY StrangersCount, FS_Subset, FS_CardinalityType

\* Only HostExists makes strangers, and only of a host that has no stamp.
LEMMA NewStranger ==
  ASSUME TypeOK, [Next]_vars, NEW h \in Host, Known(h)
  PROVE  Strangers(h)' \subseteq Strangers(h)
<1> USE DEF Goto
<1>1. CASE \E v \in Worker, p \in Page, q \in Queue : Take(v, p, q)
  BY <1>1 DEF Take, TypeOK, Strangers
<1>2. CASE \E v \in Worker : Step(v)
  <2> SUFFICES ASSUME NEW w \in Strangers(h)'
               PROVE  w \in Strangers(h)
    OBVIOUS
  <2>1. w \in Worker /\ pc'[w] = "stranger" /\ HostOf[page'[w]] = h
    BY DEF Strangers
  <2>2. PICK v \in Worker : Step(v)
    BY <1>2
  <2>3. CASE HostExists(v)
    BY <2>1, <2>3 DEF HostExists, TypeOK, Strangers
  <2>4. CASE ~HostExists(v)
    BY <2>1, <2>2, <2>4 DEF Step, GoodToGo, GoodToGoUnchecked,
         Requeue, Introduce, FetchPageContent, FetchCommonError,
         FetchError, UpdateGuestbook, Save, SendExtract, SendWalk, FetchAgain,
         SendCollect, Complete, Retry, Discard, TypeOK, Strangers
  <2> QED
    BY <2>3, <2>4
<1>3. CASE Crash
  BY <1>3 DEF Crash, Strangers
<1>4. CASE UNCHANGED <<pc, page>>
  BY <1>4 DEF Strangers
<1> QED
  BY <1>1, <1>2, <1>3, <1>4
     DEF Next, Ask, Rescue, Commit, Startup, Boot, NewHostGateway, StartEnqueue, Tick, Done, vars

\* The gateway's answer to a worker, and what it leaves in the map.
LEMMA GateStep ==
  TypeOK /\ GateInv /\ GatecrashBounded /\ [Next]_vars => GateInv' /\ GatecrashBounded'
<1> SUFFICES ASSUME TypeOK, GateInv, [Next]_vars, NEW h \in Host
             PROVE  /\ ~Known(h)' => gatecrash'[h] = 0
                    /\ Known(h)'
                         => gatecrash'[h] + Cardinality(Strangers(h)') < Cardinality(Worker)
                    /\ gatecrash'[h] < Cardinality(Worker)
  BY DEF GateInv, GatecrashBounded
<1> DEFINE Good == /\ ~Known(h)' => gatecrash'[h] = 0
                   /\ Known(h)'
                        => gatecrash'[h] + Cardinality(Strangers(h)') < Cardinality(Worker)
<1>a. /\ ~Known(h) => gatecrash[h] = 0
      /\ Known(h) => gatecrash[h] + Cardinality(Strangers(h)) < Cardinality(Worker)
      /\ gatecrash[h] \in Nat /\ age \in [Host -> {NotSeen} \cup 0..Old]
      /\ gatecrash \in [Host -> Nat]
  BY DEF GateInv, TypeOK
<1>b. Cardinality(Worker) \in Nat /\ Cardinality(Worker) > 0
  BY Constants, FS_CardinalityType, FS_EmptySet
<1>c. gatecrash'[h] \in Nat
  BY TypeStep DEF TypeOK
<1>d. /\ Cardinality(Strangers(h)) \in Nat
      /\ Known(h) => /\ Cardinality(Strangers(h)') <= Cardinality(Strangers(h))
                     /\ Cardinality(Strangers(h)') \in Nat
  BY StrangersCount, NewStranger, NoMoreStrangers
<1>e. Cardinality(Strangers(h)') \in Nat
  <2>1. Strangers(h)' \subseteq Worker
    BY DEF Strangers
  <2> QED
    BY <2>1, Constants, FS_Subset, FS_CardinalityType
<1>1. CASE Known(h)' = Known(h) /\ gatecrash'[h] = gatecrash[h]
  BY <1>1, <1>a, <1>b, <1>c, <1>d
<1>2. ASSUME NEW w \in Worker, GoodToGo(w) \/ GoodToGoUnchecked(w), HostOf[page[w]] = h
      PROVE  Good
  <2>1. w \notin Strangers(h)'
    BY <1>2 DEF GoodToGo, GoodToGoUnchecked, Goto, TypeOK, Strangers
  <2>2. Known(h)'
    BY <1>2, <1>a, Constants DEF GoodToGo, GoodToGoUnchecked, Stamped, Free, Known, NotSeen
  <2>3. CASE ~Known(h)
    <3>1. gatecrash'[h] = 0
      BY <1>2, <1>a, <2>3 DEF GoodToGo, GoodToGoUnchecked, Free, Known
    <3>2. Cardinality(Strangers(h)') < Cardinality(Worker)
      BY <2>1, FewerStrangers
    <3> QED
      BY <2>2, <3>1, <3>2, <1>e
  <2>4. CASE Known(h) /\ gatecrash'[h] = gatecrash[h]
    BY <2>2, <2>4, <1>1
  <2>5. CASE Known(h) /\ GoodToGoUnchecked(w) /\ gatecrash'[h] = gatecrash[h] + 1
    <3>1. w \in Strangers(h)
      BY <1>2, <2>5 DEF GoodToGoUnchecked, Strangers
    <3>2. Strangers(h)' \subseteq Strangers(h) \ {w}
      BY <2>1, <2>5, NewStranger
    <3>3. /\ IsFiniteSet(Strangers(h) \ {w})
          /\ Cardinality(Strangers(h) \ {w}) = Cardinality(Strangers(h)) - 1
      BY <3>1, StrangersCount, FS_RemoveElement
    <3>4. Cardinality(Strangers(h)') <= Cardinality(Strangers(h) \ {w})
      BY <3>2, <3>3, FS_Subset
    <3> QED
      BY <2>2, <2>5, <3>3, <3>4, <1>a, <1>b, <1>c, <1>d
  <2>6. gatecrash'[h] = gatecrash[h] \/ (GoodToGoUnchecked(w) /\ gatecrash'[h] = gatecrash[h] + 1)
    BY <1>2, <1>a DEF GoodToGo, GoodToGoUnchecked
  <2> QED
    BY <2>3, <2>4, <2>5, <2>6
<1>3. ASSUME NEW w \in Worker, GoodToGo(w) \/ GoodToGoUnchecked(w), HostOf[page[w]] # h
      PROVE  Known(h)' = Known(h) /\ gatecrash'[h] = gatecrash[h]
  BY <1>3, <1>a DEF GoodToGo, GoodToGoUnchecked, Stamped, Known
<1>4. Crash => Good
  BY DEF Crash, Known, NotSeen
<1>5. CASE Tick
  BY <1>1, <1>5, <1>a, AgedTypes DEF Tick, Known, history
<1>6. UNCHANGED <<age, gatecrash>> => Known(h)' = Known(h) /\ gatecrash'[h] = gatecrash[h]
  BY DEF Known
<1>7. Good
  BY <1>1, <1>2, <1>3, <1>4, <1>5, <1>6
     DEF Next, Step, Done, Ask, Take, Rescue, HostExists, Requeue, Introduce,
         FetchPageContent, FetchCommonError, FetchError, UpdateGuestbook, Save,
         SendExtract, SendWalk, FetchAgain, SendCollect, Complete, Retry, Discard, Commit,
         Startup, Boot, NewHostGateway, StartEnqueue, vars, history
<1> QED
  BY <1>7, <1>b, <1>c, <1>e

-----------------------------------------------------------------------------
(* No job gets lost while the process lives.                               *)

\* What is in a queue stays there, unless a worker takes it.
LEMMA WaitingKept ==
  ASSUME TypeOK, [Next]_vars, NEW p \in Page, NEW q \in Queue
  PROVE  /\ available[p][q] > 0
              => available'[p][q] > 0 \/ \E w \in Worker : Take(w, p, q)
         /\ stuck[p][q] > 0 /\ ~Crash
              => stuck'[p][q] > 0 \/ available'[p][q] > 0 \/ p \in dropped'
<1> USE DEF jobs
<1>a. /\ available \in [Page -> [Queue -> Nat]] /\ stuck \in [Page -> [Queue -> Nat]]
      /\ available' \in [Page -> [Queue -> Nat]]
  BY TypeStep DEF TypeOK
<1>1. CASE UNCHANGED stuck /\ \E r \in Page, t \in Queue :
             available' = [available EXCEPT ![r][t] = @ + 1]
  BY <1>1, <1>a
<1>2. CASE UNCHANGED <<available, stuck>>
  BY <1>2, <1>a
<1>3. CASE \E w \in Worker, r \in Page, t \in Queue : Take(w, r, t)
  <2> PICK w \in Worker, r \in Page, t \in Queue : Take(w, r, t)
    BY <1>3
  <2> QED
    BY <1>a DEF Take
<1>4. CASE \E r \in Page, t \in Queue : Rescue(r, t)
  <2> PICK r \in Page, t \in Queue : Rescue(r, t)
    BY <1>4
  <2>1. \/ available' = [available EXCEPT ![r][t] = @ + 1]
        \/ available' = available /\ r \in dropped'
    BY DEF Rescue
  <2>2. stuck' = [stuck EXCEPT ![r][t] = @ - 1]
    BY DEF Rescue
  <2> QED
    BY <1>a, <2>1, <2>2
<1>5. CASE \E w \in Worker : Retry(w)
  BY <1>1, <1>5 DEF Retry, TypeOK
<1>6. CASE Commit
  <2>1. slot.page \in Page
    BY <1>6 DEF Commit, TypeOK, Message
  <2>2. CASE slot.to \in Queue
    BY <1>1, <1>6, <2>1, <2>2 DEF Commit
  <2>3. CASE slot.to \notin Queue
    BY <1>2, <1>6, <2>3 DEF Commit
  <2> QED
    BY <2>2, <2>3
<1>7. CASE Crash
  BY <1>7 DEF Crash
<1>8. CASE \E r \in Page : Ask(r)
  BY <1>1, <1>8 DEF Ask, Queue
<1> QED
  BY <1>2, <1>3, <1>4, <1>5, <1>6, <1>7, <1>8
     DEF Next, Step, Done, HostExists, GoodToGo, GoodToGoUnchecked, Requeue, Introduce,
         FetchPageContent, FetchCommonError, FetchError, UpdateGuestbook, Save,
         SendExtract, SendWalk, FetchAgain, SendCollect, Complete, Discard, Startup, Boot,
         NewHostGateway, StartEnqueue, Tick, vars

\* A worker that has a page keeps it, answers, hands it over or gives it back.
LEMMA WorkingKept ==
  ASSUME TypeOK, [Next]_vars, ~Crash, NEW w \in Worker, NEW p \in Page,
         page[w] = p, pc[w] \notin {"idle", "return"}
  PROVE  p \in dropped' \/ p \in delivered' \/ InFlight(p)'
<1> USE DEF Goto, jobs, store, history
<1>a. /\ pc \in [Worker -> Location]
      /\ page \in [Worker -> Page \cup {NoPage}] /\ queue \in [Worker -> Queue]
      /\ available \in [Page -> [Queue -> Nat]]
  BY DEF TypeOK
<1>1. CASE pc'[w] \notin {"idle", "return"} /\ page'[w] = p
  BY <1>1 DEF InFlight
<1>2. CASE FetchCommonError(w)
  BY <1>2 DEF FetchCommonError
<1>3. CASE SendCollect(w)
  BY <1>3 DEF SendCollect
<1>4. CASE Requeue(w)
  <2>1. slot' = [to |-> RequeueTo, page |-> p] /\ slot' # NoMessage
    BY <1>4, <1>a, SendTypes, RequeueQueue, MessageAssumption
       DEF Requeue, Requeued, SendTo, MessageAssumption
  <2> QED
    BY <2>1, RequeueQueue DEF InFlight
<1>5. CASE Retry(w)
  <2>1. \E q \in Queue : available'[p][q] > 0
    BY <1>5, <1>a DEF Retry
  <2> QED
    BY <2>1 DEF InFlight
<1>10. CASE Discard(w)
  BY <1>10 DEF Discard
<1>6. CASE \E v \in Worker, r \in Page, q \in Queue : Take(v, r, q)
  BY <1>1, <1>6, <1>a DEF Take
<1>7. CASE \E v \in Worker : v # w /\ Step(v)
  BY <1>1, <1>7, <1>a
     DEF Step, HostExists, GoodToGo, GoodToGoUnchecked, Requeue, Introduce,
         FetchPageContent, FetchCommonError, FetchError, UpdateGuestbook, Save,
         SendExtract, SendWalk, FetchAgain, SendCollect, Complete, Retry, Discard
<1>8. CASE /\ Step(w)
           /\ ~(FetchCommonError(w) \/ SendCollect(w) \/ Requeue(w) \/ Retry(w) \/ Discard(w))
  BY <1>1, <1>8, <1>a
     DEF Step, HostExists, GoodToGo, GoodToGoUnchecked, Introduce,
         FetchPageContent, FetchError, UpdateGuestbook, Save,
         SendExtract, SendWalk, FetchAgain, Complete
<1>9. CASE UNCHANGED <<pc, page>>
  BY <1>1, <1>9
<1> QED
  BY <1>2, <1>3, <1>4, <1>5, <1>6, <1>7, <1>8, <1>9, <1>10
     DEF Next, Ask, Rescue, Commit, Startup, Boot, NewHostGateway, StartEnqueue, Tick, Done, vars

\* What the Enqueue goroutine holds for a queue it holds on to, or puts there.
LEMMA EnqueuedKept ==
  ASSUME TypeOK, [Next]_vars, ~Crash, NEW p \in Page,
         slot # NoMessage, slot.page = p, slot.to \in Queue
  PROVE  InFlight(p)'
<1>a. available \in [Page -> [Queue -> Nat]]
  BY DEF TypeOK
<1>1. CASE UNCHANGED slot
  BY <1>1 DEF InFlight
<1>2. CASE Commit
  <2>1. \E q \in Queue : available'[p][q] > 0
    BY <1>2, <1>a DEF Commit
  <2> QED
    BY <2>1 DEF InFlight
<1> QED
  BY <1>1, <1>2
     DEF Next, Step, Done, Ask, Take, Rescue, HostExists, GoodToGo, GoodToGoUnchecked,
         Requeue, Requeued, Introduce, SendTo, FetchPageContent, FetchCommonError,
         FetchError, UpdateGuestbook, Save, SendExtract, SendWalk, FetchAgain,
         SendCollect, Complete, Retry, Discard, Startup, Boot, NewHostGateway, StartEnqueue,
         Tick, vars

\* Answers are not taken back.
LEMMA AnswersKept ==
  ASSUME TypeOK, [Next]_vars
  PROVE  dropped \subseteq dropped' /\ delivered \subseteq delivered'
  BY DEF Next, Step, Done, Ask, Take, Rescue, HostExists, GoodToGo, GoodToGoUnchecked,
         Requeue, Introduce, FetchPageContent, FetchCommonError, FetchError,
         UpdateGuestbook, Save, SendExtract, SendWalk, FetchAgain, SendCollect,
         Complete, Retry, Discard, Commit, Crash, Startup, Boot, NewHostGateway, StartEnqueue,
         Tick, vars, history

\* While the process lives no page is lost.
LEMMA AccountedKept ==
  ASSUME TypeOK, [Next]_vars, ~Crash, NEW p \in Page, Accounted(p)
  PROVE  Accounted(p)'
<1> SUFFICES ASSUME asked'[p] > 0
             PROVE  p \in dropped' \/ p \in delivered' \/ InFlight(p)'
  BY DEF Accounted
<1>2. CASE \E r \in Page : Ask(r)
  <2> PICK r \in Page : Ask(r)
    BY <1>2
  <2>1. CASE r = p
    <3>1. available'[p]["fetch"] > 0
      BY <2>1 DEF Ask, TypeOK, Queue
    <3> QED
      BY <3>1 DEF InFlight, Queue
  <2>2. CASE r # p
    <3>1. p \in dropped \/ p \in delivered \/ InFlight(p)
      BY <2>2 DEF Ask, Accounted, TypeOK
    <3>2. InFlight(p) => InFlight(p)'
      BY <2>2 DEF Ask, InFlight, TypeOK
    <3> QED
      BY <3>1, <3>2, AnswersKept
  <2> QED
    BY <2>1, <2>2
<1>3. CASE UNCHANGED asked
  <2>1. p \in dropped \/ p \in delivered \/ InFlight(p)
    BY <1>3 DEF Accounted
  <2>2. ASSUME NEW q \in Queue, available[p][q] > 0 \/ stuck[p][q] > 0
        PROVE  p \in dropped' \/ InFlight(p)'
    <3>1. CASE available'[p][q] > 0 \/ stuck'[p][q] > 0 \/ p \in dropped'
      BY <3>1 DEF InFlight
    <3>2. CASE \E w \in Worker : Take(w, p, q)
      BY <3>2 DEF Take, Goto, InFlight, TypeOK
    <3> QED
      BY <2>2, <3>1, <3>2, WaitingKept
  <2>3. ASSUME NEW w \in Worker, page[w] = p, pc[w] \notin {"idle", "return"}
        PROVE  p \in dropped' \/ p \in delivered' \/ InFlight(p)'
    BY <2>3, WorkingKept
  <2>4. ASSUME slot # NoMessage, slot.page = p, slot.to \in Queue
        PROVE  InFlight(p)'
    BY <2>4, EnqueuedKept
  <2> QED
    BY <2>1, <2>2, <2>3, <2>4, AnswersKept DEF InFlight
<1> QED
  BY <1>2, <1>3
     DEF Next, Step, Done, Take, Rescue, HostExists, GoodToGo, GoodToGoUnchecked,
         Requeue, Introduce, FetchPageContent, FetchCommonError, FetchError,
         UpdateGuestbook, Save, SendExtract, SendWalk, FetchAgain, SendCollect,
         Complete, Retry, Discard, Commit, Crash, Startup, Boot, NewHostGateway, StartEnqueue,
         Tick, vars, history

\* The jobs of a dead process are stuck, and rescued later.
LEMMA CrashKeepsJobs ==
  ASSUME TypeOK, Crash, NEW p \in Page, Accounted(p),
         ~(slot # NoMessage /\ slot.page = p)
  PROVE  Accounted(p)'
<1> SUFFICES ASSUME InFlight(p) PROVE InFlight(p)'
  BY DEF Accounted, Crash
<1>1. ASSUME NEW q \in Queue
      PROVE  /\ stuck[p][q] \in Nat
             /\ IsFiniteSet(HeldIn(p, q)) /\ Cardinality(HeldIn(p, q)) \in Nat
             /\ stuck'[p][q] = stuck[p][q] + Cardinality(HeldIn(p, q))
  <2>1. HeldIn(p, q) \in SUBSET Worker
    BY DEF HeldIn
  <2>2. IsFiniteSet(HeldIn(p, q)) /\ Cardinality(HeldIn(p, q)) \in Nat
    BY <2>1, Constants, FS_Subset, FS_CardinalityType
  <2> QED
    BY <2>2 DEF Crash, TypeOK
<1>2. ASSUME NEW q \in Queue, available[p][q] > 0 \/ stuck[p][q] > 0
      PROVE  InFlight(p)'
  BY <1>1, <1>2 DEF Crash, InFlight
<1>3. ASSUME NEW w \in Worker, page[w] = p, pc[w] \notin {"idle", "return"}
      PROVE  InFlight(p)'
  <2>1. queue[w] \in Queue /\ w \in HeldIn(p, queue[w])
    BY <1>3 DEF HeldIn, TypeOK
  <2>3. Cardinality(HeldIn(p, queue[w])) # 0
    BY <1>1, <2>1, FS_EmptySet
  <2>4. stuck'[p][queue[w]] > 0
    BY <1>1, <2>1, <2>3
  <2> QED
    BY <2>1, <2>4 DEF InFlight
<1> QED
  BY <1>2, <1>3 DEF InFlight

\* A crash loses the page of the message the Enqueue goroutine holds, or none.
LEMMA LossStep == TypeOK /\ LossInv /\ [Next]_vars => LossInv'
<1> SUFFICES ASSUME TypeOK, LossInv, [Next]_vars PROVE LossInv'
  OBVIOUS
<1>0. /\ IsFiniteSet(Lost) /\ Cardinality(Lost) \in Nat /\ Cardinality(Lost) <= crashes
      /\ crashes \in Nat
  BY FS_CardinalityType DEF LossInv, CrashLosesOne, TypeOK
<1>1. CASE ~Crash
  <2>1. Lost' \in SUBSET Lost
    BY <1>1, AccountedKept DEF Lost
  <2>2. crashes' = crashes
    BY <1>1 DEF Next, Step, Done, Ask, Take, Rescue, HostExists, GoodToGo, GoodToGoUnchecked,
         Requeue, Introduce, FetchPageContent, FetchCommonError, FetchError,
         UpdateGuestbook, Save, SendExtract, SendWalk, FetchAgain, SendCollect,
         Complete, Retry, Discard, Commit, Startup, Boot, NewHostGateway, StartEnqueue,
         Tick, vars
  <2>3. IsFiniteSet(Lost') /\ Cardinality(Lost') \in Nat /\ Cardinality(Lost') <= Cardinality(Lost)
    BY <1>0, <2>1, FS_Subset, FS_CardinalityType
  <2> QED
    BY <1>0, <2>2, <2>3 DEF LossInv, CrashLosesOne
<1>2. CASE Crash
  <2>1. PICK x : Lost' \in SUBSET (Lost \cup {x})
    <3>1. CASE slot = NoMessage
      <4>1. Lost' \subseteq Lost
        BY <1>2, <3>1, CrashKeepsJobs DEF Lost
      <4> QED
        BY <4>1
    <3>2. CASE slot # NoMessage
      <4>1. Lost' \subseteq Lost \cup {slot.page}
        BY <1>2, <3>2, CrashKeepsJobs DEF Lost
      <4> QED
        BY <4>1
    <3> QED
      BY <3>1, <3>2
  <2>2. /\ IsFiniteSet(Lost \cup {x}) /\ Cardinality(Lost \cup {x}) \in Nat
        /\ Cardinality(Lost \cup {x}) <= Cardinality(Lost) + 1
    <3>1. /\ IsFiniteSet(Lost \cup {x})
          /\ Cardinality(Lost \cup {x}) = IF x \in Lost THEN Cardinality(Lost)
                                                       ELSE Cardinality(Lost) + 1
      BY <1>0, FS_AddElement
    <3> QED
      BY <1>0, <3>1
  <2>3. IsFiniteSet(Lost') /\ Cardinality(Lost') \in Nat
        /\ Cardinality(Lost') <= Cardinality(Lost \cup {x})
    BY <2>1, <2>2, FS_Subset, FS_CardinalityType
  <2>4. crashes' = crashes + 1
    BY <1>2 DEF Crash
  <2> QED
    BY <1>0, <2>2, <2>3, <2>4 DEF LossInv, CrashLosesOne
<1> QED
  BY <1>1, <1>2

-----------------------------------------------------------------------------
(* The theorems.                                                           *)

LEMMA InitIInv == Init => IInv
<1> SUFFICES ASSUME Init PROVE IInv
  OBVIOUS
<1>1. TypeOK /\ DeliveredIsCommitted /\ NextServiceFindsPage /\ StageInv
  BY InitTypeOK, MessageAssumption
     DEF Init, DeliveredIsCommitted, NextServiceFindsPage, StageInv
<1>2. Cardinality(Worker) \in Nat /\ Cardinality(Worker) > 0
  BY Constants, FS_CardinalityType, FS_EmptySet
<1>3. GateInv /\ GatecrashBounded
  BY <1>2 DEF Init, GateInv, GatecrashBounded, Known
<1>4. LossInv
  <2>1. Lost = {}
    BY DEF Init, Lost, Accounted
  <2> QED
    BY <2>1, FS_EmptySet DEF Init, LossInv, CrashLosesOne
<1> QED
  BY <1>1, <1>3, <1>4 DEF IInv

LEMMA IInvStep == IInv /\ [Next]_vars => IInv'
<1> SUFFICES ASSUME IInv, [Next]_vars PROVE IInv'
  OBVIOUS
<1>1. TypeOK' /\ StageInv'
  BY TypeStep, StageStep DEF IInv
<1>2. DeliveredIsCommitted' /\ NextServiceFindsPage'
  BY DeliveredStep, DocumentStep DEF IInv
<1>3. GateInv' /\ GatecrashBounded' /\ LossInv'
  BY GateStep, LossStep DEF IInv
<1> QED
  BY <1>1, <1>2, <1>3 DEF IInv

\* The inductive invariant of fetch holds in every reachable state.
THEOREM Invariance == Spec => []IInv
  BY InitIInv, IInvStep, PTL DEF Spec

\* Type correctness of fetch.
THEOREM TypeCorrect == Spec => []TypeOK
<1>1. IInv => TypeOK
  BY DEF IInv
<1> QED
  BY <1>1, Invariance, PTL

\* When a job is worked to its end its extract and walk jobs are committed, so
\* no crash after it loses them, however many workers share the channel.
THEOREM DeliveredCommitted == Spec => []DeliveredIsCommitted
<1>1. IInv => DeliveredIsCommitted
  BY DEF IInv
<1> QED
  BY <1>1, Invariance, PTL

\* No extract or walk job exists for a page whose JSON document was not saved,
\* whatever failed, crashed or was retried; nor for one without raw content or
\* without its row in the guestbook, unless the statement that writes it failed,
\* the error was only logged, and no later attempt has written it.
THEOREM NextFindsPage == Spec => []NextServiceFindsPage
<1>1. IInv => NextServiceFindsPage
  BY DEF IInv
<1> QED
  BY <1>1, Invariance, PTL

\* However many jobs of a host arrive, in one life of the process fewer of them
\* than there are workers are fetched against the gateway's answer.
THEOREM GatecrashBound == Spec => []GatecrashBounded
<1>1. IInv => GatecrashBounded
  BY DEF IInv
<1> QED
  BY <1>1, Invariance, PTL

\* However many jobs are worked, requeued, introduced and retried, a crash loses at
\* most one page that was asked for.
THEOREM CrashLoss == Spec => []CrashLosesOne
<1>1. IInv => CrashLosesOne
  BY DEF IInv, LossInv
<1> QED
  BY <1>1, Invariance, PTL

\* In particular none is lost as long as the process lives.
THEOREM NoJobLost == Spec => [](crashes = 0 => \A p \in Page : Accounted(p))
<1>1. ASSUME IInv, crashes = 0, NEW p \in Page PROVE Accounted(p)
  <2>1. IsFiniteSet(Lost) /\ Cardinality(Lost) \in Nat /\ Cardinality(Lost) <= 0
    BY <1>1, FS_CardinalityType DEF IInv, LossInv, CrashLosesOne
  <2>2. Lost = {}
    BY <2>1, FS_EmptySet
  <2> QED
    BY <2>2 DEF Lost
<1>2. IInv => (crashes = 0 => \A p \in Page : Accounted(p))
  BY <1>1
<1> QED
  BY <1>2, Invariance, PTL

-----------------------------------------------------------------------------
(* The channel and the goroutine behind it are an outbox.                  *)

\* History: what the Enqueue goroutine has committed, in its order.
VARIABLE outbox

Committing == outbox' = IF Commit THEN Append(outbox, slot) ELSE outbox

Out == INSTANCE Outbox WITH
  Lossy <- {},
  inbox <- IF slot = NoMessage THEN {} ELSE {slot},
  deaths <- crashes

\* Who touches the channel.
LEMMA SlotMoves ==
  ASSUME TypeOK, [Next]_vars
  PROVE  \/ UNCHANGED <<slot, crashes>>
         \/ slot = NoMessage /\ slot' \in Message /\ crashes' = crashes
         \/ Commit \/ Crash
<1> USE DEF store, jobs, history
<1>1. ASSUME NEW w \in Worker,
             Requeue(w) \/ Introduce(w) \/ SendExtract(w) \/ SendWalk(w) \/ SendCollect(w)
      PROVE  slot = NoMessage /\ slot' \in Message /\ crashes' = crashes
  <2>1. page[w] \in Page
    BY <1>1 DEF Requeue, Introduce, SendExtract, SendWalk, SendCollect, TypeOK
  <2> QED
    BY <1>1, <2>1, SendTypes, RequeueQueue
       DEF Requeue, Requeued, Introduce, SendExtract, SendWalk, SendCollect, SendTo, Message
<1>2. ASSUME NEW w \in Worker,
             \/ HostExists(w) \/ GoodToGo(w) \/ GoodToGoUnchecked(w)
             \/ FetchPageContent(w) \/ FetchCommonError(w) \/ FetchError(w)
             \/ UpdateGuestbook(w) \/ Save(w) \/ FetchAgain(w) \/ Complete(w) \/ Retry(w)
             \/ Discard(w)
      PROVE  UNCHANGED <<slot, crashes>>
  BY <1>2 DEF HostExists, GoodToGo, GoodToGoUnchecked, FetchPageContent, FetchCommonError,
              FetchError, UpdateGuestbook, Save, FetchAgain, Complete, Retry, Discard
<1>3. CASE \/ \E p \in Page : Ask(p)
           \/ \E p \in Page, q \in Queue : Rescue(p, q) \/ \E w \in Worker : Take(w, p, q)
           \/ Startup \/ Tick \/ Done \/ UNCHANGED vars
  BY <1>3 DEF Ask, Rescue, Take, Startup, Boot, NewHostGateway, StartEnqueue, Tick, Done, vars
<1> QED
  BY <1>1, <1>2, <1>3 DEF Next, Step

LEMMA OutboxStep ==
  TypeOK /\ [Next]_vars /\ [Committing]_<<vars, outbox>> => [Out!OutNext]_(Out!outVars)
<1> SUFFICES ASSUME TypeOK, [Next]_vars, [Committing]_<<vars, outbox>>
             PROVE  [Out!OutNext]_(Out!outVars)
  OBVIOUS
<1> USE DEF Out!outVars
<1>0. /\ outbox' = IF Commit THEN Append(outbox, slot) ELSE outbox
      /\ slot \in Message \cup {NoMessage} /\ NoMessage \notin Message
  BY MessageAssumption DEF Committing, Commit, vars, TypeOK
<1>1. CASE Commit
  <2>1. slot \in Message /\ slot # NoMessage /\ slot' = NoMessage /\ crashes' = crashes
    BY <1>0, <1>1 DEF Commit
  <2> QED
    BY <1>0, <1>1, <2>1 DEF Out!OutNext, Out!CommitIt
<1>2. CASE Crash
  <2>1. ~Commit /\ slot' = NoMessage /\ crashes' = crashes + 1
    BY <1>2 DEF Crash, Commit
  <2> QED
    BY <1>0, <2>1 DEF Out!OutNext, Out!Die
<1>3. CASE ~Commit /\ UNCHANGED <<slot, crashes>>
  BY <1>0, <1>3
<1>4. CASE ~Commit /\ slot = NoMessage /\ slot' \in Message /\ crashes' = crashes
  BY <1>0, <1>4 DEF Out!OutNext, Out!TakeOne
<1> QED
  BY <1>1, <1>2, <1>3, <1>4, SlotMoves

\* The channel of fetch (fetch/work.go:302) with its goroutine, as this module
\* has them, is the outbox that Enqueue implements, and a sound one: a message that was
\* received is committed once, before the next is received, or lost in a crash.
THEOREM SlotIsOutbox ==
  Spec /\ outbox = << >> /\ [][Committing]_<<vars, outbox>> => Out!OutSpec
<1>1. Init /\ outbox = << >> => Out!OutInit
  BY DEF Init, Out!OutInit
<1> QED
  BY <1>1, OutboxStep, TypeCorrect, PTL DEF Spec, Out!OutSpec

-----------------------------------------------------------------------------
(* How often a host is visited.                                            *)

\* History, of one life of the process: the ticks since its start, when each
\* host was granted, and how many of its jobs were let through to the host.
VARIABLES clock, grants, visits

histVars == <<clock, grants, visits>>

HistoryInit ==
  /\ clock = 0
  /\ grants = [h \in Host |-> << >>]
  /\ visits = [h \in Host |-> 0]

Asks(w) == GoodToGo(w) \/ GoodToGoUnchecked(w)

AsksFor(h) == \E w \in Worker : Asks(w) /\ HostOf[page[w]] = h

LetThrough(h) ==
  \E w \in Worker : Asks(w) /\ HostOf[page[w]] = h /\ pc'[w] # "requeue"

Watching ==
  IF Crash THEN HistoryInit'
  ELSE /\ clock' = IF Tick THEN clock + 1 ELSE clock
       /\ grants' = [h \in Host |-> IF AsksFor(h) /\ Free(h) THEN Append(grants[h], clock)
                                                             ELSE grants[h]]
       /\ visits' = [h \in Host |-> IF LetThrough(h) THEN visits[h] + 1 ELSE visits[h]]

Gate == INSTANCE PoliteGate WITH now <- clock

\* The gate after a restart has forgotten its grants.
GateRestarts == Crash /\ Gate!GateInit'

HistorySpec == Spec /\ HistoryInit /\ [][Watching]_<<vars, histVars>>

\* The age of a host is the age of its last grant, the grants are spread out, and
\* whoever was let through was granted the host or overruled the gateway.
Recorded(a, g, c, v, k) ==
  /\ g = << >> <=> a = NotSeen
  /\ g # << >> =>
       /\ g[Len(g)] <= c
       /\ a = c - g[Len(g)] \/ (a = Old /\ c - g[Len(g)] >= Old)
       /\ (Len(g) - 1) * (PoliteSleep + 1) <= g[Len(g)]
  /\ v = Len(g) + k

HistoryInv ==
  /\ clock \in Nat
  /\ grants \in [Host -> Seq(Nat)]
  /\ visits \in [Host -> Nat]
  /\ \A h \in Host : Recorded(age[h], grants[h], clock, visits[h], gatecrash[h])

\* The workers whose step it is not do not ask.
LEMMA OnlyOneAsks ==
  ASSUME TypeOK, NEW w \in Worker, NEW x, pc' = [pc EXCEPT ![w] = x],
         NEW v \in Worker, v # w
  PROVE  ~Asks(v)
<1>1. pc'[v] = pc[v]
  BY DEF TypeOK
<1> QED
  BY <1>1 DEF Asks, GoodToGo, GoodToGoUnchecked, Goto, TypeOK

LEMMA NobodyAsks ==
  ASSUME TypeOK, [Next]_vars, \A w \in Worker : ~Asks(w), ~Crash
  PROVE  /\ gatecrash' = gatecrash
         /\ age' = age \/ Tick
<1>1. ASSUME NEW w \in Worker, Step(w)
      PROVE  UNCHANGED <<age, gatecrash>>
  <2> USE DEF history
  <2>1. CASE HostExists(w) \/ Requeue(w) \/ Introduce(w) \/ FetchPageContent(w)
               \/ FetchCommonError(w) \/ FetchError(w) \/ UpdateGuestbook(w) \/ Save(w)
    BY <2>1 DEF HostExists, Requeue, Introduce, FetchPageContent, FetchCommonError,
                FetchError, UpdateGuestbook, Save
  <2>2. CASE SendExtract(w) \/ SendWalk(w) \/ FetchAgain(w) \/ SendCollect(w) \/ Complete(w)
               \/ Retry(w) \/ Discard(w)
    BY <2>2 DEF SendExtract, SendWalk, FetchAgain, SendCollect, Complete, Retry, Discard
  <2> QED
    BY <1>1, <2>1, <2>2 DEF Step, Asks
<1>2. CASE \/ \E p \in Page : Ask(p)
           \/ \E p \in Page, q \in Queue : Rescue(p, q) \/ \E w \in Worker : Take(w, p, q)
           \/ Commit \/ Startup \/ Done \/ UNCHANGED vars
  BY <1>2 DEF Ask, Rescue, Take, Commit, Startup, Boot, NewHostGateway, StartEnqueue, Done,
              vars, history
<1>3. CASE Tick
  BY <1>3 DEF Tick, history
<1> QED
  BY <1>1, <1>2, <1>3 DEF Next

\* A worker that asks stamps a free host, or is turned away, or overrules.
LEMMA AskMoves ==
  ASSUME TypeOK, NEW w \in Worker, Asks(w)
  PROVE  /\ ~Crash /\ ~Tick
         /\ HostOf[page[w]] \in Host
         /\ age' = Stamped(HostOf[page[w]])
         /\ \A v \in Worker : Asks(v) => v = w
         /\ gatecrash' = [gatecrash EXCEPT ![HostOf[page[w]]] =
                            IF LetThrough(HostOf[page[w]]) /\ ~Free(HostOf[page[w]])
                              THEN @ + 1 ELSE @]
         /\ Free(HostOf[page[w]]) => LetThrough(HostOf[page[w]])
<1> DEFINE h == HostOf[page[w]]
<1>1. page[w] \in Page /\ h \in Host
  BY Constants DEF Asks, GoodToGo, GoodToGoUnchecked, TypeOK
<1>2. /\ pc' = [pc EXCEPT ![w] = pc'[w]] /\ pc[w] \in {"good", "stranger"}
      /\ pc'[w] \in {"fetch", "requeue", "introduce"}
  BY DEF Asks, GoodToGo, GoodToGoUnchecked, Goto, TypeOK
<1>3. \A v \in Worker : Asks(v) => v = w
  BY <1>2, OnlyOneAsks
<1>4. age' = Stamped(h)
  BY DEF Asks, GoodToGo, GoodToGoUnchecked
<1>5. pc'[w] # pc[w] /\ pc'[w] # "idle"
  BY <1>2
<1>6. ~Crash
  BY <1>5 DEF Crash
<1>7. ~Tick
  BY <1>5 DEF Tick
<1>8. LetThrough(h) <=> pc'[w] # "requeue"
  BY <1>3 DEF LetThrough
<1>9. CASE GoodToGo(w)
  <2>1. pc'[w] = IF Free(h) THEN "fetch" ELSE "requeue"
    BY <1>9 DEF GoodToGo, Goto, TypeOK
  <2>2. gatecrash' = gatecrash
    BY <1>9 DEF GoodToGo
  <2> QED
    BY <1>1, <1>3, <1>4, <1>6, <1>7, <1>8, <2>1, <2>2 DEF TypeOK
<1>10. CASE GoodToGoUnchecked(w)
  <2>1. pc'[w] = "introduce"
    BY <1>10 DEF GoodToGoUnchecked, Goto, TypeOK
  <2>2. gatecrash' = [gatecrash EXCEPT ![h] = IF Free(h) THEN @ ELSE @ + 1]
    BY <1>10 DEF GoodToGoUnchecked
  <2> QED
    BY <1>1, <1>3, <1>4, <1>6, <1>7, <1>8, <2>1, <2>2 DEF TypeOK
<1> QED
  BY <1>9, <1>10 DEF Asks

\* What the history records of a step that asks, and of one that does not.
LEMMA WatchAsk ==
  ASSUME TypeOK, Watching, NEW w \in Worker, Asks(w), NEW h \in Host
  PROVE  LET mine == h = HostOf[page[w]] IN
         /\ clock' = clock
         /\ grants'[h] = IF mine /\ Free(h) THEN Append(grants[h], clock) ELSE grants[h]
         /\ visits'[h] = IF mine /\ LetThrough(h) THEN visits[h] + 1 ELSE visits[h]
<1>1. /\ AsksFor(h) <=> h = HostOf[page[w]]
      /\ LetThrough(h) => h = HostOf[page[w]]
  BY AskMoves DEF AsksFor, LetThrough
<1> QED
  BY <1>1, AskMoves DEF Watching

LEMMA WatchOther ==
  ASSUME Watching, ~Crash, \A w \in Worker : ~Asks(w), NEW h \in Host
  PROVE  /\ clock' = IF Tick THEN clock + 1 ELSE clock
         /\ grants'[h] = grants[h]
         /\ visits'[h] = visits[h]
  BY DEF Watching, AsksFor, LetThrough

LEMMA HistoryTypes ==
  ASSUME clock \in Nat, grants \in [Host -> Seq(Nat)], visits \in [Host -> Nat],
         [Watching]_<<vars, histVars>>
  PROVE  clock' \in Nat /\ grants' \in [Host -> Seq(Nat)] /\ visits' \in [Host -> Nat]
<1>1. CASE UNCHANGED <<vars, histVars>>
  BY <1>1 DEF histVars
<1>2. CASE Watching /\ Crash
  <2>1. /\ clock' = 0 /\ grants' = [h \in Host |-> << >>]
        /\ visits' = [h \in Host |-> 0]
    BY <1>2 DEF Watching, HistoryInit
  <2> QED
    BY <2>1
<1>3. CASE Watching /\ ~Crash
  <2>1. ASSUME NEW h \in Host
        PROVE  grants[h] \in Seq(Nat) /\ Append(grants[h], clock) \in Seq(Nat)
    OBVIOUS
  <2>2. ASSUME NEW h \in Host
        PROVE  visits[h] \in Nat /\ visits[h] + 1 \in Nat
    OBVIOUS
  <2>3. /\ clock' = IF Tick THEN clock + 1 ELSE clock
        /\ grants' = [h \in Host |-> IF AsksFor(h) /\ Free(h) THEN Append(grants[h], clock)
                                                              ELSE grants[h]]
        /\ visits' = [h \in Host |-> IF LetThrough(h) THEN visits[h] + 1 ELSE visits[h]]
    BY <1>3 DEF Watching
  <2>4. grants' \in [Host -> Seq(Nat)]
    BY <2>1, <2>3, Zenon
  <2>5. visits' \in [Host -> Nat]
    BY <2>2, <2>3, Zenon
  <2> QED
    BY <2>3, <2>4, <2>5
<1> QED
  BY <1>1, <1>2, <1>3

\* One tick later the grants are as they were, and one tick older.
LEMMA RecordedTick ==
  ASSUME NEW a \in {NotSeen} \cup 0..Old, NEW g \in Seq(Nat), NEW c \in Nat, NEW v, NEW k,
         Recorded(a, g, c, v, k)
  PROVE  Recorded(Aged(a), g, c + 1, v, k)
<1>1. CASE g = << >>
  BY <1>1, AgedTypes DEF Recorded
<1>2. CASE g # << >>
  <2> DEFINE last == g[Len(g)]
  <2>1. last \in Nat /\ a # NotSeen /\ a \in 0..Old /\ Old \in Nat /\ NotSeen = -1
    BY <1>2, Constants DEF Recorded, NotSeen
  <2>2. last <= c /\ (a = c - last \/ (a = Old /\ c - last >= Old))
    BY <1>2 DEF Recorded
  <2>3. Aged(a) = IF a = Old THEN a ELSE a + 1
    BY <2>1 DEF Aged
  <2> HIDE DEF last
  <2>4. /\ last <= c + 1
        /\ Aged(a) = (c + 1) - last \/ (Aged(a) = Old /\ (c + 1) - last >= Old)
        /\ Aged(a) # NotSeen
    BY <2>1, <2>2, <2>3
  <2> QED
    BY <1>2, <2>1, <2>4 DEF Recorded, last
<1> QED
  BY <1>1, <1>2

\* A free host that is granted has waited since its last grant.
LEMMA RecordedGrant ==
  ASSUME NEW a \in {NotSeen} \cup 0..Old, NEW g \in Seq(Nat), NEW c \in Nat, NEW v \in Nat,
         NEW k \in Nat, Recorded(a, g, c, v, k), a = NotSeen \/ a > PoliteSleep
  PROVE  Recorded(0, Append(g, c), c, v + 1, k)
<1> DEFINE n == Len(g)
           s == PoliteSleep + 1
<1>1. n \in Nat /\ s \in Nat /\ Old = s /\ NotSeen = -1
  BY Constants DEF Old, NotSeen
<1>2. n * s <= c
  <2>1. CASE g = << >>
    BY <1>1, <2>1
  <2>2. CASE g # << >>
    <3> DEFINE last == g[n]
               m == (n - 1) * s
    <3>1. last \in Nat /\ n >= 1
      BY <2>2
    <3>2. a # NotSeen /\ a >= s
      BY <2>2, <1>1, Constants DEF Recorded
    <3>3. /\ a = c - last \/ (a = Old /\ c - last >= Old)
          /\ m <= last
      BY <2>2 DEF Recorded
    <3> HIDE DEF n, s, last
    <3>4. m = n * s - s /\ n * s \in Int /\ m \in Int
      BY <1>1
    <3> HIDE DEF m
    <3> QED
      BY <1>1, <3>1, <3>2, <3>3, <3>4
  <2> QED
    BY <2>1, <2>2
<1>3. /\ Append(g, c) # << >> /\ Len(Append(g, c)) = n + 1
      /\ Append(g, c)[Len(Append(g, c))] = c
  OBVIOUS
<1>4. v + 1 = n + 1 + k
  BY <1>1 DEF Recorded
<1>5. 0 # NotSeen /\ 0 = c - c /\ c <= c /\ (n + 1) - 1 = n
  BY <1>1
<1> HIDE DEF n
<1> QED
  BY <1>2, <1>3, <1>4, <1>5 DEF Recorded

LEMMA HistoryStep ==
  TypeOK /\ HistoryInv /\ [Next]_vars /\ [Watching]_<<vars, histVars>> => HistoryInv'
<1> SUFFICES ASSUME TypeOK, HistoryInv, [Next]_vars, [Watching]_<<vars, histVars>>,
                    NEW h \in Host
             PROVE  Recorded(age'[h], grants'[h], clock', visits'[h], gatecrash'[h])
  BY HistoryTypes DEF HistoryInv
<1>a. /\ clock \in Nat /\ grants[h] \in Seq(Nat) /\ visits[h] \in Nat
      /\ age[h] \in {NotSeen} \cup 0..Old /\ gatecrash[h] \in Nat
      /\ Recorded(age[h], grants[h], clock, visits[h], gatecrash[h])
  BY DEF HistoryInv, TypeOK
<1>1. CASE UNCHANGED <<vars, histVars>>
  BY <1>1, <1>a DEF vars, histVars, history
<1>2. CASE Watching /\ Crash
  <2>1. /\ grants'[h] = << >> /\ visits'[h] = 0
        /\ age'[h] = NotSeen /\ gatecrash'[h] = 0
    BY <1>2 DEF Watching, HistoryInit, Crash
  <2> QED
    BY <2>1 DEF Recorded
<1>3. ASSUME Watching, NEW w \in Worker, Asks(w), h = HostOf[page[w]]
      PROVE  Recorded(age'[h], grants'[h], clock', visits'[h], gatecrash'[h])
  <2>1. /\ age' = Stamped(h) /\ clock' = clock
        /\ gatecrash'[h] = IF LetThrough(h) /\ ~Free(h) THEN gatecrash[h] + 1 ELSE gatecrash[h]
        /\ Free(h) => LetThrough(h)
        /\ grants'[h] = IF Free(h) THEN Append(grants[h], clock) ELSE grants[h]
        /\ visits'[h] = IF LetThrough(h) THEN visits[h] + 1 ELSE visits[h]
    BY <1>3, AskMoves, WatchAsk DEF TypeOK
  <2>2. CASE ~Free(h)
    <3>1. age' = age /\ grants'[h] = grants[h]
      BY <2>1, <2>2 DEF Stamped
    <3>2. visits'[h] = Len(grants[h]) + gatecrash'[h]
      BY <1>a, <2>1, <2>2 DEF Recorded
    <3> QED
      BY <1>a, <2>1, <3>1, <3>2 DEF Recorded
  <2>3. CASE Free(h)
    <3>1. age'[h] = 0 /\ gatecrash'[h] = gatecrash[h] /\ visits'[h] = visits[h] + 1
          /\ grants'[h] = Append(grants[h], clock)
      BY <2>1, <2>3 DEF Stamped, TypeOK
    <3> QED
      BY <1>a, <2>1, <2>3, <3>1, RecordedGrant DEF Free
  <2> QED
    BY <2>2, <2>3
<1>4. ASSUME Watching, NEW w \in Worker, Asks(w), h # HostOf[page[w]]
      PROVE  /\ age'[h] = age[h] /\ clock' = clock /\ gatecrash'[h] = gatecrash[h]
             /\ grants'[h] = grants[h] /\ visits'[h] = visits[h]
  <2>1. age'[h] = age[h] /\ gatecrash'[h] = gatecrash[h]
    BY <1>4, AskMoves DEF Stamped, TypeOK
  <2>2. clock' = clock /\ grants'[h] = grants[h] /\ visits'[h] = visits[h]
    BY <1>4, WatchAsk
  <2> QED
    BY <2>1, <2>2
<1>5. ASSUME Watching, ~Crash, \A w \in Worker : ~Asks(w)
      PROVE  /\ gatecrash'[h] = gatecrash[h]
             /\ grants'[h] = grants[h] /\ visits'[h] = visits[h]
             /\ \/ age'[h] = age[h] /\ clock' = clock
                \/ age'[h] = Aged(age[h]) /\ clock' = clock + 1
  <2>1. /\ clock' = IF Tick THEN clock + 1 ELSE clock
        /\ grants'[h] = grants[h] /\ visits'[h] = visits[h]
    BY <1>5, WatchOther
  <2>2. gatecrash' = gatecrash /\ (age' = age \/ Tick)
    BY <1>5, NobodyAsks
  <2>3. Tick => age'[h] = Aged(age[h])
    BY DEF Tick
  <2> QED
    BY <2>1, <2>2, <2>3
<1>6. CASE Watching /\ ~Crash /\ \A w \in Worker : ~Asks(w)
  <2>1. CASE age'[h] = age[h] /\ clock' = clock
    BY <2>1, <1>5, <1>6, <1>a
  <2>2. CASE age'[h] = Aged(age[h]) /\ clock' = clock + 1
    BY <2>2, <1>5, <1>6, <1>a, RecordedTick
  <2> QED
    BY <2>1, <2>2, <1>5, <1>6
<1> QED
  BY <1>1, <1>2, <1>3, <1>4, <1>6, <1>a

LEMMA HistoryInvariance == HistorySpec => []HistoryInv
<1>1. Init /\ HistoryInit => HistoryInv
  BY Constants DEF Init, HistoryInit, HistoryInv, Recorded, NotSeen
<1> QED
  BY <1>1, HistoryStep, TypeCorrect, PTL DEF HistorySpec, Spec

LEMMA GateMoves ==
  /\ TypeOK /\ HistoryInv /\ HistoryInv' /\ [Next]_vars /\ [Watching]_<<vars, histVars>>
  => [Gate!GateNext \/ GateRestarts]_(Gate!gateVars)
<1> SUFFICES ASSUME TypeOK, HistoryInv, HistoryInv', [Next]_vars,
                    [Watching]_<<vars, histVars>>
             PROVE  Gate!GateNext \/ GateRestarts \/ UNCHANGED <<clock, grants>>
  BY DEF Gate!gateVars
<1>t. /\ clock \in Nat /\ grants \in [Host -> Seq(Nat)]
      /\ grants' \in [Host -> Seq(Nat)]
  BY DEF HistoryInv
<1>1. CASE UNCHANGED <<vars, histVars>>
  BY <1>1 DEF histVars
<1>2. CASE Watching /\ Crash
  BY <1>2 DEF Watching, HistoryInit, GateRestarts, Gate!GateInit
<1>3. ASSUME Watching, NEW w \in Worker, Asks(w)
      PROVE  Gate!GateNext \/ UNCHANGED <<clock, grants>>
  <2> DEFINE h == HostOf[page[w]]
  <2>1. h \in Host /\ clock' = clock
    BY <1>3, AskMoves, WatchAsk
  <2>2. \A i \in Host : grants'[i] = IF i = h /\ Free(h) THEN Append(grants[i], clock)
                                                         ELSE grants[i]
    BY <1>3, WatchAsk
  <2>3. CASE ~Free(h)
    BY <1>t, <2>1, <2>2, <2>3
  <2>4. CASE Free(h)
    <3>1. grants' = [grants EXCEPT ![h] = Append(@, clock)]
      BY <1>t, <2>1, <2>2, <2>4
    <3>2. Recorded(age[h], grants[h], clock, visits[h], gatecrash[h])
      BY <2>1 DEF HistoryInv
    <3>3. grants[h] = << >> \/ clock - grants[h][Len(grants[h])] > PoliteSleep
      <4>1. CASE age[h] = NotSeen
        BY <3>2, <4>1 DEF Recorded
      <4>2. CASE age[h] > PoliteSleep /\ grants[h] # << >>
        <5>1. /\ age[h] \in Int /\ Old \in Nat /\ PoliteSleep \in Nat
              /\ Old > PoliteSleep /\ clock \in Nat
              /\ grants[h][Len(grants[h])] \in Nat
          BY <1>t, <2>1, <4>2, Constants DEF TypeOK, NotSeen
        <5>2. \/ age[h] = clock - grants[h][Len(grants[h])]
              \/ age[h] = Old /\ clock - grants[h][Len(grants[h])] >= Old
          BY <3>2, <4>2 DEF Recorded
        <5> QED
          BY <4>2, <5>1, <5>2
      <4> QED
        BY <2>4, <4>1, <4>2 DEF Free
    <3>4. Gate!Grant(h)
      BY <2>1, <3>1, <3>3 DEF Gate!Grant, Gate!Free
    <3> QED
      BY <2>1, <3>4 DEF Gate!GateNext
  <2> QED
    BY <2>3, <2>4
<1>4. CASE Watching /\ ~Crash /\ \A w \in Worker : ~Asks(w)
  <2>1. /\ clock' = IF Tick THEN clock + 1 ELSE clock
        /\ grants' = grants
    BY <1>4, <1>t DEF Watching, AsksFor
  <2>2. clock' = clock \/ Gate!Elapse
    BY <1>t, <2>1 DEF Gate!Elapse
  <2> QED
    BY <2>1, <2>2 DEF Gate!GateNext
<1> QED
  BY <1>1, <1>2, <1>3, <1>4

\* The gateway inside fetch (fetch/work.go:89), of which this model keeps only the
\* ages of the stamps, is between two restarts the abstract gate that HostGateway
\* implements: a host is granted only when the polite sleep since its last grant
\* is over, although some of the workers that ask do not heed the answer.
THEOREM GateIsPolite ==
  HistorySpec => Gate!GateInit /\ [][Gate!GateNext \/ GateRestarts]_(Gate!gateVars)
<1>1. HistoryInit => Gate!GateInit
  BY DEF HistoryInit, Gate!GateInit
<1> QED
  BY <1>1, GateMoves, HistoryInvariance, TypeCorrect, PTL DEF HistorySpec, Spec

LEMMA TimesMonotone ==
  ASSUME NEW a \in Int, NEW b \in Int, NEW s \in Nat, a <= b
  PROVE  a * s <= b * s
<1>1. b - a \in Nat
  OBVIOUS
<1>2. (b - a) * s \in Nat
  BY <1>1
<1>3. (b - a) * s = b * s - a * s /\ a * s \in Int /\ b * s \in Int
  OBVIOUS
<1> QED
  BY <1>2, <1>3

\* In a life of the process of any length, the jobs of one host that reach the
\* host (fetch/work.go:112-136) are as many as the polite sleep allows in that
\* time, and one for each worker on top: those who overrule the gateway are few.
HostIsSpared ==
  \A h \in Host : (visits[h] - Cardinality(Worker)) * (PoliteSleep + 1) <= clock

LEMMA FewVisits ==
  ASSUME TypeOK, HistoryInv, GatecrashBounded
  PROVE  HostIsSpared
<1> SUFFICES ASSUME NEW h \in Host
             PROVE  (visits[h] - Cardinality(Worker)) * (PoliteSleep + 1) <= clock
  BY DEF HostIsSpared
<1> DEFINE n == Len(grants[h])
           s == PoliteSleep + 1
           d == visits[h] - Cardinality(Worker)
<1>1. /\ n \in Nat /\ clock \in Nat /\ visits[h] \in Nat /\ gatecrash[h] \in Nat
      /\ Cardinality(Worker) \in Nat
      /\ s \in Nat /\ s >= 1
      /\ visits[h] = n + gatecrash[h]
      /\ gatecrash[h] < Cardinality(Worker)
  BY Constants, FS_CardinalityType DEF HistoryInv, Recorded, GatecrashBounded, TypeOK
<1>2. d \in Int /\ d <= n - 1
  BY <1>1
<1>3. n >= 1 => (n - 1) * s <= clock
  <2>1. CASE n >= 1
    <3>1. /\ grants[h] # << >> /\ grants[h][n] \in Nat
          /\ grants[h][n] <= clock /\ (n - 1) * s <= grants[h][n]
      BY <2>1 DEF HistoryInv, Recorded
    <3>2. (n - 1) * s \in Int
      BY <1>1
    <3> HIDE DEF n, s
    <3> QED
      BY <1>1, <3>1, <3>2
  <2> QED
    BY <2>1
<1> HIDE DEF n, s, d
<1>4. d * s \in Int /\ (n - 1) * s \in Int
  BY <1>1, <1>2
<1>5. ASSUME n = 0 PROVE d * s <= clock
  <2>1. d * s <= 0 * s
    BY <1>1, <1>2, <1>5, TimesMonotone
  <2> QED
    BY <1>1, <1>4, <2>1
<1>6. ASSUME n >= 1 PROVE d * s <= clock
  <2>1. d * s <= (n - 1) * s
    BY <1>1, <1>2, TimesMonotone
  <2> QED
    BY <1>1, <1>3, <1>4, <1>6, <2>1
<1>7. d * s <= clock
  BY <1>1, <1>5, <1>6
<1> QED
  BY <1>7 DEF d, s

THEOREM HostsAreSpared == HistorySpec => []HostIsSpared
  BY HistoryInvariance, FewVisits, TypeCorrect, GatecrashBound, PTL DEF HistorySpec

=============================================================================
