---------------------------- MODULE EntreeProofs ----------------------------
(***************************************************************************)
(* The door keeps its promises for every number of hosts, pages, jobs and  *)
(* workers, any periods, any number of days and of crashes. IInv, defined  *)
(* beside the properties in Entree, is inductive. Each of its conjuncts    *)
(* has a lemma that says how a step keeps it.                              *)
(***************************************************************************)
EXTENDS Entree, Sequences, FiniteSetTheorems, TLAPS

-----------------------------------------------------------------------------
(* Types.                                                                  *)

\* What the proofs need of the numbers among the constants.
LEMMA Numbers ==
  /\ MaxDay \in Nat /\ MaxCrashes \in Nat
  /\ MaxWorkers \in Nat /\ MaxWorkers >= 1
  /\ StartupDays \in Nat
  /\ \A h \in Host : Period[h] \in Nat /\ Period[h] >= 1
<1>1. /\ MaxDay \in Nat /\ MaxCrashes \in Nat
      /\ MaxWorkers \in Nat \ {0} /\ StartupDays \in Nat \ {0}
      /\ Period \in [Host -> Nat \ {0}]
  BY Zenon, EntreeAssumption DEF EntreeAssumption
<1> QED
  BY <1>1

LEMMA NoJobIsNone == NoJob \notin Job
  BY Zenon, EntreeAssumption DEF EntreeAssumption

LEMMA AllowedHost == Allowed \subseteq Host
  BY EntreeAssumption

\* The rows the statements write are rows.
LEMMA RowTypes ==
  ASSUME NEW h \in Host, NEW d \in Int
  PROVE  /\ NoRow \in Row
         /\ FetchedRow(h, d) \in Row
         /\ \A row \in Row : [row EXCEPT !.next = d] \in Row
  <1>1. d + Period[h] \in Int
    BY Numbers
  <1> QED
    BY <1>1 DEF Row, NoRow, FetchedRow

LEMMA InitTypeOK == Init => TypeOK
<1> SUFFICES ASSUME Init PROVE TypeOK
  OBVIOUS
<1>1. \A h \in Host : StartRow(h) \subseteq Row
  <2> SUFFICES ASSUME NEW h \in Host PROVE StartRow(h) \subseteq Row
    OBVIOUS
  <2>1. 0 \in Int /\ -1 - Period[h] \in Int
    BY Numbers
  <2> QED
    BY <2>1, RowTypes DEF StartRow
<1>2. guest \in [Host -> [Path -> Row]]
  <2>1. UNION {StartRow(h) : h \in Host} \subseteq Row
    BY <1>1
  <2> QED
    BY <2>1 DEF Init
<1>3. arg \in [Job -> Request]
  <2>1. (CHOOSE r \in Request : TRUE) \in Request
    BY EntreeAssumption
  <2> QED
    BY <2>1 DEF Init
<1> QED
  BY <1>2, <1>3, Numbers DEF Init, TypeOK, JobState, Step, Pass

\* The rows an upsert and a reset leave are rows.
LEMMA UpsertedTypes ==
  ASSUME TypeOK, NEW h \in Host, NEW row \in Row
  PROVE  Upserted(h, row) \in Row /\ ResetToYesterday(row) \in Row
<1>1. day \in Int /\ day - 1 \in Int /\ day + Period[h] \in Int
  BY Numbers DEF TypeOK
<1>2. ResetToYesterday(row) \in Row
  BY <1>1, RowTypes DEF ResetToYesterday
<1>3. Upserted(h, row) \in Row
  BY <1>1 DEF Upserted, Row
<1> QED
  BY <1>2, <1>3

\* The first statement of a job is one of its steps.
LEMMA FirstStepType == \A j \in Job : FirstStep(j) \in Step \ {"idle"}
  BY DEF FirstStep, Step

\* Where a job's page lies in the tables.
LEMMA PageTypes ==
  ASSUME TypeOK, NEW j \in Job
  PROVE  HostOf(j) \in Host /\ (HasCheck(j) => PathOf(j) \in Path)
<1>1. arg[j] \in [host: Host, path: RawPath, full: BOOLEAN, pass: BOOLEAN]
  BY EntreeAssumption DEF TypeOK
<1>2. Root \in Path
  BY EntreeAssumption
<1> QED
  BY <1>1, <1>2 DEF HostOf, PathOf, HasCheck, RawPath, Clean

LEMMA TypeStep == TypeOK /\ [Next]_vars => TypeOK'
<1> SUFFICES ASSUME TypeOK, [Next]_vars PROVE TypeOK'
  OBVIOUS
<1> USE DEF Goto, process, tables, fetchVars, history, TakenUp, Pass
<1>1. ASSUME NEW j \in Job, Submit(j) PROVE TypeOK'
  BY <1>1 DEF Submit, TypeOK, JobState
<1>2. ASSUME NEW j \in Job, Start(j) PROVE TypeOK'
  BY <1>2, FirstStepType DEF Start, TypeOK, JobState
<1>3. ASSUME NEW j \in Job, Panic(j) PROVE TypeOK'
  BY <1>3 DEF Panic, TypeOK, JobState, Step
<1>4. ASSUME NEW j \in Job, CheckEntryExists(j) PROVE TypeOK'
  BY <1>4 DEF CheckEntryExists, TypeOK, Step
<1>5. ASSUME NEW j \in Job, GetGuestbookEntry(j) PROVE TypeOK'
  BY <1>5 DEF GetGuestbookEntry, TypeOK, Step
<1>6. ASSUME NEW j \in Job, GetHostNextFetch(j) PROVE TypeOK'
  BY <1>6 DEF GetHostNextFetch, TypeOK, Step
<1>7. ASSUME NEW j \in Job, SetHostNextFetchToYesterday(j) PROVE TypeOK'
  BY <1>7 DEF SetHostNextFetchToYesterday, TypeOK, Step
<1>8. ASSUME NEW j \in Job, SetGuestbookFetchToYesterdayForHost(j) PROVE TypeOK'
  <2> DEFINE g == HostOf(j)
  <2>1. guest' \in [Host -> [Path -> Row]]
    <3>1. \A p \in Path : ResetToYesterday(guest[g][p]) \in Row
      BY PageTypes, UpsertedTypes DEF TypeOK
    <3> HIDE DEF g
    <3> QED
      BY <1>8, <3>1 DEF SetGuestbookFetchToYesterdayForHost, TypeOK, g
  <2>2. due' \in [Host -> [Path -> Pass]]
    BY <1>8 DEF SetGuestbookFetchToYesterdayForHost, TypeOK
  <2>3. burst' \in [Host -> [Path -> Nat]]
    BY <1>8 DEF SetGuestbookFetchToYesterdayForHost, TypeOK
  <2>4. fetching' \in [Job -> {"no", "read", "stale"}]
    BY <1>8 DEF SetGuestbookFetchToYesterdayForHost, TypeOK
  <2> QED
    BY <1>8, <2>1, <2>2, <2>3, <2>4
       DEF SetGuestbookFetchToYesterdayForHost, TypeOK, Step
<1>9. ASSUME NEW j \in Job, UpdateGuestbookNextFetch(j) PROVE TypeOK'
  <2> DEFINE g == HostOf(j)  q == PathOf(j)
  <2>1. guest' \in [Host -> [Path -> Row]]
    <3>1. q \in Path => Upserted(g, guest[g][q]) \in Row
      BY PageTypes, UpsertedTypes DEF TypeOK
    <3> HIDE DEF g, q
    <3> QED
      BY <1>9, <3>1 DEF UpdateGuestbookNextFetch, TypeOK, g, q
  <2>2. burst' \in [Host -> [Path -> Nat]]
    <3> DEFINE v == IF ~Fresh(g, q) THEN (IF IsSingleNoPass(j) THEN 1 ELSE 0)
                    ELSE IF IsSingleNoPass(j) THEN burst[g][q] + 1 ELSE burst[g][q]
    <3>1. burst' = [burst EXCEPT ![g][q] = v]
      BY <1>9, Zenon DEF UpdateGuestbookNextFetch
    <3>2. q \in Path => burst[g][q] \in Nat
      BY PageTypes DEF TypeOK
    <3>3. v \in Nat \/ q \notin Path
      BY <3>2
    <3> HIDE DEF v
    <3> HIDE DEF g, q
    <3>4. burst \in [Host -> [Path -> Nat]]
      BY DEF TypeOK
    <3>5. ASSUME NEW h \in Host, NEW p \in Path PROVE burst'[h][p] \in Nat
      <4>1. CASE h = g
        BY <4>1, <3>1, <3>3, <3>4
      <4>2. CASE h # g
        BY <4>2, <3>1, <3>4
      <4> QED
        BY <4>1, <4>2
    <3>6. burst' \in [Host -> [Path -> Nat]]
      BY <3>1, <3>4, <3>5
    <3> QED
      BY <3>6
  <2> QED
    BY <1>9, <2>1, <2>2 DEF UpdateGuestbookNextFetch, TypeOK, Step
<1>10. ASSUME NEW j \in Job, UpdateGuestbookFails(j) PROVE TypeOK'
  BY <1>10 DEF UpdateGuestbookFails, TypeOK, Step
<1>11. ASSUME NEW j \in Job, Send(j) PROVE TypeOK'
  BY <1>11 DEF Send, TypeOK, Step
<1>12. ASSUME NEW j \in Job, Return(j) PROVE TypeOK'
  BY <1>12 DEF Return, TypeOK, Step, JobState
<1>13. ASSUME NEW j \in Job, Rescue(j) PROVE TypeOK'
  BY <1>13 DEF Rescue, TypeOK, JobState
<1>14. ASSUME NEW j \in Job, FetchRead(j) PROVE TypeOK'
  <2>1. queued' \in [Job -> Nat]
    BY <1>14 DEF FetchRead, TypeOK
  <2>2. awaiting' \in [Host -> [Path -> BOOLEAN]]
    BY <1>14 DEF FetchRead, TypeOK
  <2> QED
    BY <1>14, <2>1, <2>2 DEF FetchRead, TypeOK
<1>15. ASSUME NEW j \in Job, FetchDrop(j) PROVE TypeOK'
  <2>1. queued' \in [Job -> Nat]
    BY <1>15 DEF FetchDrop, TypeOK
  <2>2. awaiting' \in [Host -> [Path -> BOOLEAN]]
    BY <1>15 DEF FetchDrop, TypeOK
  <2> QED
    BY <1>15, <2>1, <2>2 DEF FetchDrop, TypeOK
<1>16. ASSUME NEW j \in Job, FetchRecord(j) PROVE TypeOK'
  <2>1. FetchedRow(HostOf(j), day) \in Row
    <3>1. day \in Int
      BY Numbers DEF TypeOK
    <3> QED
      BY <3>1, PageTypes, RowTypes
  <2>2. burst' \in [Host -> [Path -> Nat]]
    BY <1>16 DEF FetchRecord, TypeOK
  <2> QED
    BY <1>16, <2>1, <2>2 DEF FetchRecord, TypeOK
<1>17. CASE Commit
  BY <1>17 DEF Commit, TypeOK
<1>18. CASE Crash
  BY <1>18, Numbers DEF Crash, TypeOK, Step, JobState
<1>19. CASE Startup
  <2>1. ASSUME NEW h \in Allowed, UpsertUniqueHost(h) PROVE TypeOK'
    BY <2>1, Numbers DEF UpsertUniqueHost, TypeOK
  <2>2. CASE Boot \/ ConnectDB \/ StartEnqueue
    BY <2>2 DEF Boot, ConnectDB, StartEnqueue, TypeOK
  <2> QED
    BY <1>19, <2>1, <2>2 DEF Startup
<1>20. CASE Tick
  BY <1>20, Numbers DEF Tick, TypeOK
<1>21. CASE UNCHANGED vars
  BY <1>21 DEF vars, TypeOK
<1> QED
  BY <1>1, <1>2, <1>3, <1>4, <1>5, <1>6, <1>7, <1>8, <1>9, <1>10, <1>11, <1>12,
     <1>13, <1>14, <1>15, <1>16, <1>17, <1>18, <1>19, <1>20, <1>21
     DEF Next, Work, Fetch, Done

-----------------------------------------------------------------------------
(* Jobs: who is at which statement.                                        *)

LEMMA IdleStep == TypeOK /\ IdleInv /\ [Next]_vars => IdleInv'
<1> SUFFICES ASSUME TypeOK, IdleInv, [Next]_vars, NEW k \in Job
             PROVE  /\ state'[k] # "running" => pc'[k] = "idle"
                    /\ state'[k] = "unused" => slot' # k /\ queued'[k] = 0 /\ fetching'[k] = "no"
                    /\ pc'[k] \notin {"idle", "return", "panic"} => HasCheck(k)'
  BY DEF IdleInv
<1> DEFINE Good == /\ state'[k] # "running" => pc'[k] = "idle"
                   /\ state'[k] = "unused" => slot' # k /\ queued'[k] = 0 /\ fetching'[k] = "no"
                   /\ pc'[k] \notin {"idle", "return", "panic"} => HasCheck(k)'
<1>a. /\ state[k] # "running" => pc[k] = "idle"
      /\ state[k] = "unused" => slot # k /\ queued[k] = 0 /\ fetching[k] = "no"
      /\ pc[k] \notin {"idle", "return", "panic"} => HasCheck(k)
  BY DEF IdleInv
<1>b. /\ pc \in [Job -> Step] /\ state \in [Job -> JobState]
      /\ queued \in [Job -> Nat] /\ slot \in Job \cup {NoJob} /\ NoJob \notin Job
      /\ fetching \in [Job -> {"no", "read", "stale"}]
  BY EntreeAssumption DEF TypeOK
<1>c. arg'[k] = arg[k] => HasCheck(k)' = HasCheck(k)
  BY DEF HasCheck, HostOf
<1> USE <1>a, <1>b, <1>c DEF Goto, process, tables, fetchVars, history
<1>1. ASSUME NEW j \in Job, Submit(j) PROVE Good
  <2>1. arg \in [Job -> Request]
    BY DEF TypeOK
  <2> QED
    BY <1>1, <2>1 DEF Submit
<1>2. ASSUME NEW j \in Job, Start(j) PROVE Good
  BY <1>2 DEF Start, FirstStep
<1>3. ASSUME NEW j \in Job, Panic(j) PROVE Good
  BY <1>3 DEF Panic
<1>4. ASSUME NEW j \in Job, CheckEntryExists(j) PROVE Good
  BY <1>4 DEF CheckEntryExists
<1>5. ASSUME NEW j \in Job, GetGuestbookEntry(j) PROVE Good
  BY <1>5 DEF GetGuestbookEntry
<1>6. ASSUME NEW j \in Job, GetHostNextFetch(j) PROVE Good
  BY <1>6 DEF GetHostNextFetch
<1>7. ASSUME NEW j \in Job, SetHostNextFetchToYesterday(j) PROVE Good
  BY <1>7 DEF SetHostNextFetchToYesterday
<1>8. ASSUME NEW j \in Job, SetGuestbookFetchToYesterdayForHost(j) PROVE Good
  BY <1>8 DEF SetGuestbookFetchToYesterdayForHost
<1>9. ASSUME NEW j \in Job, UpdateGuestbookNextFetch(j) PROVE Good
  BY <1>9 DEF UpdateGuestbookNextFetch
<1>10. ASSUME NEW j \in Job, UpdateGuestbookFails(j) PROVE Good
  BY <1>10 DEF UpdateGuestbookFails
<1>11. ASSUME NEW j \in Job, Send(j) PROVE Good
  BY <1>11 DEF Send
<1>12. ASSUME NEW j \in Job, Return(j) PROVE Good
  BY <1>12 DEF Return
<1>13. ASSUME NEW j \in Job, Rescue(j) PROVE Good
  BY <1>13 DEF Rescue
<1>14. ASSUME NEW j \in Job, FetchRead(j) PROVE Good
  BY <1>14 DEF FetchRead
<1>15. ASSUME NEW j \in Job, FetchDrop(j) PROVE Good
  BY <1>15 DEF FetchDrop
<1>16. ASSUME NEW j \in Job, FetchRecord(j) PROVE Good
  BY <1>16 DEF FetchRecord
<1>17. CASE Commit
  BY <1>17 DEF Commit, IdleInv
<1>18. CASE Crash
  BY <1>18 DEF Crash
<1>19. CASE Startup
  BY <1>19 DEF Startup, Boot, ConnectDB, UpsertUniqueHost, StartEnqueue
<1>20. CASE Tick \/ UNCHANGED vars
  BY <1>20 DEF Tick, vars
<1> QED
  BY <1>1, <1>2, <1>3, <1>4, <1>5, <1>6, <1>7, <1>8, <1>9, <1>10, <1>11, <1>12, <1>13, <1>14, <1>15, <1>16, <1>17, <1>18, <1>19, <1>20
     DEF Next, Work, Fetch, Done

LEMMA HallPassStep ==
  TypeOK /\ IdleInv /\ HallPassInv /\ HallPassIsHandedOver /\ [Next]_vars
    => HallPassInv' /\ HallPassIsHandedOver'
<1> DEFINE Good(k) ==
      HasCheck(k) /\ arg[k].pass =>
        /\ pc[k] \notin {"guestbook", "page", "host"}
        /\ pc[k] = "return" => k \in handed
        /\ state[k] = "completed" => k \in handed
<1> SUFFICES ASSUME TypeOK, IdleInv, HallPassInv, HallPassIsHandedOver, [Next]_vars,
                    NEW k \in Job
             PROVE  Good(k)'
  BY DEF HallPassInv, HallPassIsHandedOver
<1>a. /\ state[k] # "running" => pc[k] = "idle"
      /\ Good(k)
  BY DEF IdleInv, HallPassInv, HallPassIsHandedOver
<1>b. /\ pc \in [Job -> Step] /\ state \in [Job -> JobState]
      /\ arg \in [Job -> Request]
  BY DEF TypeOK
<1>c. arg'[k] = arg[k] => HasCheck(k)' = HasCheck(k)
  BY DEF HasCheck, HostOf
<1> USE <1>a, <1>b, <1>c DEF Goto, process, tables, fetchVars, history
<1>1. ASSUME NEW j \in Job, Submit(j) PROVE Good(k)'
  BY <1>1 DEF Submit
<1>2. ASSUME NEW j \in Job, Start(j) PROVE Good(k)'
  BY <1>2 DEF Start, FirstStep, IsSingleNoPass, IsFullWithPass
<1>3. ASSUME NEW j \in Job, Panic(j) PROVE Good(k)'
  BY <1>3 DEF Panic
<1>4. ASSUME NEW j \in Job, CheckEntryExists(j) PROVE Good(k)'
  BY <1>4 DEF CheckEntryExists
<1>5. ASSUME NEW j \in Job, GetGuestbookEntry(j) PROVE Good(k)'
  BY <1>5 DEF GetGuestbookEntry
<1>6. ASSUME NEW j \in Job, GetHostNextFetch(j) PROVE Good(k)'
  BY <1>6 DEF GetHostNextFetch
<1>7. ASSUME NEW j \in Job, SetHostNextFetchToYesterday(j) PROVE Good(k)'
  BY <1>7 DEF SetHostNextFetchToYesterday
<1>8. ASSUME NEW j \in Job, SetGuestbookFetchToYesterdayForHost(j) PROVE Good(k)'
  BY <1>8 DEF SetGuestbookFetchToYesterdayForHost
<1>9. ASSUME NEW j \in Job, UpdateGuestbookNextFetch(j) PROVE Good(k)'
  BY <1>9 DEF UpdateGuestbookNextFetch
<1>10. ASSUME NEW j \in Job, UpdateGuestbookFails(j) PROVE Good(k)'
  BY <1>10 DEF UpdateGuestbookFails
<1>11. ASSUME NEW j \in Job, Send(j) PROVE Good(k)'
  BY <1>11 DEF Send
<1>12. ASSUME NEW j \in Job, Return(j) PROVE Good(k)'
  BY <1>12 DEF Return, MayReturn
<1>13. ASSUME NEW j \in Job, Rescue(j) PROVE Good(k)'
  BY <1>13 DEF Rescue
<1>14. ASSUME NEW j \in Job, FetchRead(j) PROVE Good(k)'
  BY <1>14 DEF FetchRead
<1>15. ASSUME NEW j \in Job, FetchDrop(j) PROVE Good(k)'
  BY <1>15 DEF FetchDrop
<1>16. ASSUME NEW j \in Job, FetchRecord(j) PROVE Good(k)'
  BY <1>16 DEF FetchRecord
<1>17. CASE Commit
  BY <1>17 DEF Commit
<1>18. CASE Crash
  BY <1>18 DEF Crash
<1>19. CASE Startup
  BY <1>19 DEF Startup, Boot, ConnectDB, UpsertUniqueHost, StartEnqueue
<1>20. CASE Tick \/ UNCHANGED vars
  BY <1>20 DEF Tick, vars
<1> QED
  BY <1>1, <1>2, <1>3, <1>4, <1>5, <1>6, <1>7, <1>8, <1>9, <1>10, <1>11, <1>12, <1>13, <1>14, <1>15, <1>16, <1>17, <1>18, <1>19, <1>20
     DEF Next, Work, Fetch, Done

-----------------------------------------------------------------------------
(* The pool of workers.                                                    *)

\* Only Start brings a job to a worker.
LEMMA WorkingShrinks ==
  ASSUME TypeOK, [Next]_vars, ~\E j \in Job : Start(j)
  PROVE  Working' \subseteq Working
<1> SUFFICES ASSUME NEW k \in Job, pc[k] = "idle" PROVE pc'[k] = "idle"
  BY DEF Working
<1>1. pc \in [Job -> Step]
  BY DEF TypeOK
<1>2. ASSUME NEW j \in Job,
             \/ Submit(j) \/ Panic(j) \/ CheckEntryExists(j) \/ GetGuestbookEntry(j)
             \/ GetHostNextFetch(j) \/ SetHostNextFetchToYesterday(j)
             \/ SetGuestbookFetchToYesterdayForHost(j) \/ UpdateGuestbookNextFetch(j)
             \/ UpdateGuestbookFails(j) \/ Send(j) \/ Return(j) \/ Rescue(j)
             \/ FetchRead(j) \/ FetchDrop(j) \/ FetchRecord(j)
      PROVE  pc'[k] = "idle"
  BY <1>1, <1>2 DEF Submit, Panic, CheckEntryExists, GetGuestbookEntry,
     GetHostNextFetch, SetHostNextFetchToYesterday, SetGuestbookFetchToYesterdayForHost,
     UpdateGuestbookNextFetch, UpdateGuestbookFails, Send, Return, MayReturn, Rescue,
     FetchRead, FetchDrop, FetchRecord, Goto
<1>3. CASE Commit \/ Crash \/ Startup \/ Tick \/ UNCHANGED vars
  BY <1>3 DEF Commit, Crash, Startup, Boot, ConnectDB, UpsertUniqueHost,
     StartEnqueue, Tick, vars
<1> QED
  BY <1>2, <1>3 DEF Next, Work, Fetch, Done

LEMMA PoolStep == TypeOK /\ PoolInv /\ [Next]_vars => PoolInv'
<1> SUFFICES ASSUME TypeOK, PoolInv, [Next]_vars
             PROVE  IsFiniteSet(Working') /\ Cardinality(Working') <= MaxWorkers
  BY DEF PoolInv
<1>1. IsFiniteSet(Working) /\ Cardinality(Working) \in Nat /\ MaxWorkers \in Nat
  BY FS_CardinalityType, Numbers DEF PoolInv
<1>2. CASE \E j \in Job : Start(j)
  <2>1. PICK j \in Job : Start(j)
    BY <1>2
  <2>2. Working' \subseteq Working \cup {j}
    BY <2>1 DEF Start, Goto, Working, TypeOK
  <2>3. Cardinality(Working) < MaxWorkers
    BY <2>1 DEF Start, WorkerFree
  <2>4. /\ IsFiniteSet(Working \cup {j})
        /\ \/ Cardinality(Working \cup {j}) = Cardinality(Working)
           \/ Cardinality(Working \cup {j}) = Cardinality(Working) + 1
    BY <1>1, FS_AddElement
  <2>5. IsFiniteSet(Working') /\ Cardinality(Working') <= Cardinality(Working \cup {j})
    BY <2>2, <2>4, FS_Subset
  <2>6. Cardinality(Working') \in Nat /\ Cardinality(Working \cup {j}) \in Nat
    BY <2>4, <2>5, FS_CardinalityType
  <2> QED
    BY <1>1, <2>3, <2>4, <2>5, <2>6
<1>3. CASE ~\E j \in Job : Start(j)
  <2>1. IsFiniteSet(Working') /\ Cardinality(Working') <= Cardinality(Working)
    BY <1>1, <1>3, WorkingShrinks, FS_Subset
  <2>2. Cardinality(Working') \in Nat
    BY <2>1, FS_CardinalityType
  <2> QED
    BY <1>1, <2>1, <2>2 DEF PoolInv
<1> QED
  BY <1>2, <1>3

-----------------------------------------------------------------------------
(* What was accepted is in flight, while the process lives.                *)

\* A worker that has accepted a page is about to send it.
LEMMA AcceptFlies ==
  ASSUME TypeOK, IdleInv, NEW j \in Job, UpdateGuestbookNextFetch(j),
         NEW h \in Host, NEW p \in Path, h = HostOf(j) /\ p = PathOf(j)
  PROVE  InFlight(h, p)'
<1>1. arg' = arg /\ HasCheck(j) /\ pc'[j] = "send"
  BY DEF UpdateGuestbookNextFetch, Goto, IdleInv, TypeOK
<1>2. HasCheck(j)' /\ HostOf(j)' = h /\ PathOf(j)' = p
  BY <1>1 DEF HasCheck, HostOf, PathOf
<1> QED
  BY <1>1, <1>2 DEF InFlight

\* A page in flight that no fetch takes up in a step is still in flight after it,
\* unless the process died.
LEMMA FlightKept ==
  ASSUME TypeOK, IdleInv, [Next]_vars, ~Crash, NEW h \in Host, NEW p \in Path,
         InFlight(h, p),
         ~\E j \in Job : /\ FetchRead(j) \/ FetchDrop(j)
                         /\ h = HostOf(j) /\ p = PathOf(j)
  PROVE  InFlight(h, p)'
<1> DEFINE Carries(k) == /\ HasCheck(k) /\ HostOf(k) = h /\ PathOf(k) = p
                         /\ pc[k] = "send" \/ slot = k \/ queued[k] > 0
<1>a. PICK k \in Job : Carries(k)
  BY DEF InFlight
<1>b. /\ pc \in [Job -> Step] /\ queued \in [Job -> Nat]
      /\ slot \in Job \cup {NoJob} /\ NoJob \notin Job
  BY EntreeAssumption DEF TypeOK
<1>c. \A i \in Job : state[i] = "unused" => pc[i] = "idle" /\ slot # i /\ queued[i] = 0
  BY DEF IdleInv
<1>d. arg'[k] = arg[k] =>
        HasCheck(k)' = HasCheck(k) /\ HostOf(k)' = HostOf(k) /\ PathOf(k)' = PathOf(k)
  BY DEF HasCheck, HostOf, PathOf
<1>e. SUFFICES Carries(k)'
  BY DEF InFlight
<1> USE DEF Goto, process, tables, fetchVars, history
<1>1. ASSUME NEW j \in Job, UpdateGuestbookNextFetch(j) PROVE Carries(k)'
  BY <1>1, <1>a, <1>b, <1>d DEF UpdateGuestbookNextFetch
<1>2. ASSUME NEW j \in Job, FetchRead(j) \/ FetchDrop(j) PROVE Carries(k)'
  <2>1. k # j
    BY <1>2, <1>a
  <2> QED
    BY <1>2, <1>a, <1>b, <1>d, <2>1 DEF FetchRead, FetchDrop, TakenUp
<1>3. ASSUME NEW j \in Job, Send(j) PROVE Carries(k)'
  BY <1>3, <1>a, <1>b, <1>d DEF Send, SlotFree
<1>4. CASE Commit
  BY <1>4, <1>a, <1>b, <1>d DEF Commit
<1>5. ASSUME NEW j \in Job, Submit(j) PROVE Carries(k)'
  <2>1. k # j
    BY <1>5, <1>a, <1>c DEF Submit
  <2>2. arg'[k] = arg[k]
    BY <1>5, <2>1 DEF Submit, TypeOK
  <2> QED
    BY <1>5, <1>a, <1>d, <2>2 DEF Submit
<1>6. ASSUME NEW j \in Job,
             \/ Start(j) \/ Panic(j) \/ CheckEntryExists(j) \/ GetGuestbookEntry(j)
             \/ GetHostNextFetch(j) \/ SetHostNextFetchToYesterday(j)
             \/ SetGuestbookFetchToYesterdayForHost(j) \/ UpdateGuestbookFails(j)
             \/ Return(j) \/ Rescue(j) \/ FetchRecord(j)
      PROVE  Carries(k)'
  <2>1. UNCHANGED <<arg, slot, queued>>
    BY <1>6 DEF Start, Panic, CheckEntryExists, GetGuestbookEntry, GetHostNextFetch,
       SetHostNextFetchToYesterday, SetGuestbookFetchToYesterdayForHost,
       UpdateGuestbookFails, Return, Rescue, FetchRecord
  <2>2. pc[k] = "send" => pc'[k] = "send"
    BY <1>6, <1>b, <1>c DEF Start, Panic, CheckEntryExists, GetGuestbookEntry,
       GetHostNextFetch, SetHostNextFetchToYesterday,
       SetGuestbookFetchToYesterdayForHost, UpdateGuestbookFails, Return, MayReturn,
       Rescue, FetchRecord, IdleInv
  <2> QED
    BY <1>a, <1>d, <2>1, <2>2
<1>7. CASE Startup \/ Tick \/ UNCHANGED vars
  <2>1. UNCHANGED <<arg, pc, slot, queued>>
    BY <1>7 DEF Startup, Boot, ConnectDB, UpsertUniqueHost, StartEnqueue, Tick, vars
  <2> QED
    BY <1>a, <1>d, <2>1
<1> QED
  BY <1>1, <1>2, <1>3, <1>4, <1>5, <1>6, <1>7 DEF Next, Work, Fetch, Done

\* So a page whose deadline was moved stays in flight until a fetch takes it up.
LEMMA AwaitingKept ==
  ASSUME TypeOK, IdleInv, [Next]_vars, ~Crash, NEW h \in Host, NEW p \in Path,
         awaiting[h][p] => InFlight(h, p), awaiting'[h][p]
  PROVE  InFlight(h, p)'
<1> USE DEF process, tables, fetchVars, history
<1>a. awaiting \in [Host -> [Path -> BOOLEAN]]
  BY DEF TypeOK
<1>1. CASE \E j \in Job : UpdateGuestbookNextFetch(j) /\ h = HostOf(j) /\ p = PathOf(j)
  BY <1>1, AcceptFlies
<1>2. CASE ~\E j \in Job : UpdateGuestbookNextFetch(j) /\ h = HostOf(j) /\ p = PathOf(j)
  <2>1. ASSUME NEW j \in Job, FetchRead(j) \/ FetchDrop(j)
        PROVE  awaiting[h][p] /\ ~(h = HostOf(j) /\ p = PathOf(j))
    BY <1>a, <2>1 DEF FetchRead, FetchDrop, TakenUp
  <2>2. ASSUME NEW j \in Job, UpdateGuestbookNextFetch(j) PROVE awaiting[h][p]
    BY <1>a, <1>2, <2>2 DEF UpdateGuestbookNextFetch
  <2>3. ASSUME NEW j \in Job,
               \/ Submit(j) \/ Start(j) \/ Panic(j) \/ CheckEntryExists(j)
               \/ GetGuestbookEntry(j) \/ GetHostNextFetch(j)
               \/ SetHostNextFetchToYesterday(j)
               \/ SetGuestbookFetchToYesterdayForHost(j) \/ UpdateGuestbookFails(j)
               \/ Send(j) \/ Return(j) \/ Rescue(j) \/ FetchRecord(j)
        PROVE  awaiting[h][p]
    BY <2>3 DEF Submit, Start, Panic, CheckEntryExists, GetGuestbookEntry,
       GetHostNextFetch, SetHostNextFetchToYesterday,
       SetGuestbookFetchToYesterdayForHost, UpdateGuestbookFails, Send, Return, Rescue,
       FetchRecord
  <2>4. ASSUME Commit \/ Startup \/ Tick \/ UNCHANGED vars PROVE awaiting[h][p]
    BY <2>4 DEF Commit, Startup, Boot, ConnectDB, UpsertUniqueHost, StartEnqueue, Tick, vars
  <2>5. awaiting[h][p]
    BY <2>1, <2>2, <2>3, <2>4 DEF Next, Work, Fetch, Done
  <2> QED
    BY <2>1, <2>5, FlightKept
<1> QED
  BY <1>1, <1>2

-----------------------------------------------------------------------------
(* A full pass is answered.                                                *)

\* Where the pages of the jobs lie, and what the tables hold.
LEMMA PassTypes ==
  TypeOK => /\ day \in Int
            /\ due \in [Host -> [Path -> Pass]]
            /\ guest \in [Host -> [Path -> Row]]
            /\ fetching \in [Job -> {"no", "read", "stale"}]
            /\ \A h \in Host, p \in Path : guest[h][p].next \in Int
  BY DEF TypeOK, Row

\* Only a late fetch finds a page reset when it writes the row: a pass marks the
\* fetches under way as late, and the others have taken the page up since.
LEMMA ReadStep ==
  ASSUME TypeOK, IdleInv, PassInv, [Next]_vars,
         NEW k \in Job, NEW h \in Host, NEW p \in Path,
         fetching'[k] = "read", HostOf(k)' = h, PathOf(k)' = p
  PROVE  due'[h][p] # "reset"
<1>a. /\ due \in [Host -> [Path -> Pass]]
      /\ fetching \in [Job -> {"no", "read", "stale"}]
      /\ arg \in [Job -> Request]
      /\ HostOf(k) \in Host
  BY PassTypes, PageTypes DEF TypeOK
<1>b. fetching[k] = "read" /\ HostOf(k) = h /\ PathOf(k) = p => due[h][p] # "reset"
  BY DEF PassInv
<1>c. arg'[k] = arg[k] => HostOf(k)' = HostOf(k) /\ PathOf(k)' = PathOf(k)
  BY DEF HostOf, PathOf
<1>d. fetching'[k] = fetching[k] /\ due'[h][p] = due[h][p] /\ arg'[k] = arg[k]
        => due'[h][p] # "reset"
  BY <1>b, <1>c
<1> USE DEF process, tables, fetchVars, history
<1>1. ASSUME NEW j \in Job, SetGuestbookFetchToYesterdayForHost(j)
      PROVE  due'[h][p] # "reset"
  <2>1. arg'[k] = arg[k]
    BY <1>1 DEF SetGuestbookFetchToYesterdayForHost
  <2>2. HostOf(k) = h /\ PathOf(k) = p
    BY <1>c, <2>1
  <2>3. fetching[k] = "read" /\ HostOf(k) # HostOf(j)
    BY <1>1, <1>a DEF SetGuestbookFetchToYesterdayForHost
  <2>4. due'[h][p] = due[h][p]
    BY <1>1, <1>a, <2>2, <2>3 DEF SetGuestbookFetchToYesterdayForHost
  <2> QED
    BY <1>b, <2>2, <2>3, <2>4
<1>2. ASSUME NEW j \in Job, FetchRead(j) PROVE due'[h][p] # "reset"
  <2>1. arg'[k] = arg[k]
    BY <1>2 DEF FetchRead
  <2>2. HostOf(k) = h /\ PathOf(k) = p
    BY <1>c, <2>1
  <2>3. due' = [due EXCEPT ![HostOf(j)][PathOf(j)] = "none"]
    BY <1>2 DEF FetchRead, TakenUp
  <2>4. CASE j = k
    BY <1>a, <2>2, <2>3, <2>4
  <2>5. CASE j # k
    <3>1. fetching'[k] = fetching[k]
      BY <1>2, <1>a, <2>5 DEF FetchRead
    <3>2. due[h][p] # "reset"
      BY <1>b, <2>2, <3>1
    <3> QED
      BY <1>a, <2>3, <3>2
  <2> QED
    BY <2>4, <2>5
<1>3. ASSUME NEW j \in Job, FetchDrop(j) PROVE due'[h][p] # "reset"
  <2>1. arg'[k] = arg[k] /\ fetching'[k] = fetching[k]
    BY <1>3 DEF FetchDrop
  <2>2. due[h][p] # "reset"
    BY <1>b, <1>c, <2>1
  <2>3. due' = [due EXCEPT ![HostOf(j)][PathOf(j)] = "none"]
    BY <1>3 DEF FetchDrop, TakenUp
  <2> QED
    BY <1>a, <2>2, <2>3
<1>4. ASSUME NEW j \in Job, FetchRecord(j) PROVE due'[h][p] # "reset"
  <2>1. arg'[k] = arg[k] /\ fetching[k] = "read"
    BY <1>4, <1>a DEF FetchRecord
  <2>2. due[h][p] # "reset"
    BY <1>b, <1>c, <2>1
  <2>3. \/ due'[h][p] = due[h][p]
        \/ due'[h][p] = "overwritten"
    BY <1>4, <1>a, <2>2 DEF FetchRecord
  <2> QED
    BY <2>2, <2>3
<1>5. ASSUME NEW j \in Job, Submit(j) PROVE due'[h][p] # "reset"
  <2>1. j # k
    BY <1>5 DEF Submit, IdleInv
  <2>2. arg'[k] = arg[k]
    BY <1>5, <1>a, <2>1 DEF Submit
  <2> QED
    BY <1>5, <1>d, <2>2 DEF Submit
<1>6. ASSUME NEW j \in Job,
             \/ Start(j) \/ Panic(j) \/ CheckEntryExists(j) \/ GetGuestbookEntry(j)
             \/ GetHostNextFetch(j) \/ SetHostNextFetchToYesterday(j)
             \/ UpdateGuestbookNextFetch(j) \/ UpdateGuestbookFails(j)
             \/ Send(j) \/ Return(j) \/ Rescue(j)
      PROVE  due'[h][p] # "reset"
  BY <1>6, <1>d DEF Start, Panic, CheckEntryExists, GetGuestbookEntry, GetHostNextFetch,
     SetHostNextFetchToYesterday, UpdateGuestbookNextFetch, UpdateGuestbookFails, Send,
     Return, Rescue
<1>7. CASE Crash
  <2>1. arg'[k] = arg[k] /\ fetching'[k] = fetching[k]
    BY <1>7 DEF Crash
  <2>2. due'[h][p] = "reset" => due[h][p] = "reset"
    BY <1>7 DEF Crash
  <2> QED
    BY <1>b, <1>c, <2>1, <2>2
<1>8. CASE Commit \/ Startup \/ Tick \/ UNCHANGED vars
  BY <1>8, <1>d DEF Commit, Startup, Boot, ConnectDB, UpsertUniqueHost, StartEnqueue,
     Tick, vars
<1> QED
  BY <1>1, <1>2, <1>3, <1>4, <1>5, <1>6, <1>7, <1>8 DEF Next, Work, Fetch, Done

\* A crash leaves of a page in flight what the fetch queue holds of it.
LEMMA OrphansAreNamed ==
  ASSUME TypeOK, Crash, NEW h \in Host, NEW p \in Path,
         due[h][p] = "reset" => ~Fresh(h, p) \/ InFlight(h, p),
         due'[h][p] = "reset"
  PROVE  ~Fresh(h, p)' \/ InFlight(h, p)'
<1>1. due[h][p] = "reset" /\ ~InHands(h, p)
  BY DEF Crash
<1>2. CASE ~Fresh(h, p)
  BY <1>2 DEF Crash, tables, Fresh
<1>3. CASE InFlight(h, p)
  <2>1. PICK k \in Job : HasCheck(k) /\ HostOf(k) = h /\ PathOf(k) = p /\ queued[k] > 0
    BY <1>1, <1>3 DEF InFlight, InHands
  <2>2. HasCheck(k)' = HasCheck(k) /\ HostOf(k)' = HostOf(k) /\ PathOf(k)' = PathOf(k)
    BY DEF Crash, HasCheck, HostOf, PathOf
  <2>3. queued' = queued
    BY DEF Crash, fetchVars
  <2> QED
    BY <2>1, <2>2, <2>3 DEF InFlight
<1> QED
  BY <1>1, <1>2, <1>3

\* The steps that write a row or read the clock, for a page that was and stays reset
\* and is not in flight: none of them makes it fresh.
LEMMA StaysDue ==
  ASSUME TypeOK, PassInv, [Next]_vars, NEW h \in Host, NEW p \in Path,
         due[h][p] = "reset", due'[h][p] = "reset", ~Fresh(h, p),
         ~\E j \in Job : UpdateGuestbookNextFetch(j) /\ h = HostOf(j) /\ p = PathOf(j)
  PROVE  ~Fresh(h, p)'
<1>a. /\ day \in Int
      /\ due \in [Host -> [Path -> Pass]]
      /\ guest \in [Host -> [Path -> Row]]
      /\ fetching \in [Job -> {"no", "read", "stale"}]
      /\ guest[h][p].next \in Int
  BY PassTypes
<1>b. day' = day /\ guest'[h][p] = guest[h][p] => ~Fresh(h, p)'
  BY DEF Fresh
<1> USE DEF process, tables, fetchVars, history
<1>1. ASSUME NEW j \in Job, SetGuestbookFetchToYesterdayForHost(j) PROVE ~Fresh(h, p)'
  <2>1. CASE h = HostOf(j)
    <3>1. /\ guest'[h][p] = ResetToYesterday(guest[h][p])
          /\ day' = day
      BY <1>1, <1>a, <2>1 DEF SetGuestbookFetchToYesterdayForHost
    <3>2. guest[h][p].in => guest'[h][p].next = day - 1
      BY <3>1, <1>a DEF ResetToYesterday, Row
    <3>3. guest'[h][p].in => guest[h][p].in
      BY <3>1 DEF ResetToYesterday
    <3> QED
      BY <3>1, <3>2, <3>3, <1>a DEF Fresh
  <2>2. CASE h # HostOf(j)
    BY <1>1, <1>a, <1>b, <2>2 DEF SetGuestbookFetchToYesterdayForHost
  <2> QED
    BY <2>1, <2>2
<1>2. ASSUME NEW j \in Job, UpdateGuestbookNextFetch(j) PROVE ~Fresh(h, p)'
  <2>1. guest'[h][p] = guest[h][p] /\ day' = day
    BY <1>2, <1>a DEF UpdateGuestbookNextFetch
  <2> QED
    BY <1>b, <2>1
<1>3. ASSUME NEW j \in Job, FetchRecord(j) PROVE ~Fresh(h, p)'
  <2>1. ~(h = HostOf(j) /\ p = PathOf(j))
    <3> SUFFICES ASSUME h = HostOf(j), p = PathOf(j) PROVE FALSE
      OBVIOUS
    <3>1. fetching[j] = "stale"
      BY <1>3, <1>a DEF FetchRecord, PassInv
    <3>2. due'[h][p] = "overwritten"
      BY <1>3, <1>a, <3>1 DEF FetchRecord
    <3> QED
      BY <3>2
  <2>2. guest'[h][p] = guest[h][p] /\ day' = day
    BY <1>3, <1>a, <2>1 DEF FetchRecord
  <2> QED
    BY <1>b, <2>2
<1>4. CASE Tick
  BY <1>4, <1>a DEF Tick, Fresh
<1>5. ASSUME NEW j \in Job,
             \/ Submit(j) \/ Start(j) \/ Panic(j) \/ CheckEntryExists(j)
             \/ GetGuestbookEntry(j) \/ GetHostNextFetch(j)
             \/ SetHostNextFetchToYesterday(j) \/ UpdateGuestbookFails(j)
             \/ Send(j) \/ Return(j) \/ Rescue(j) \/ FetchRead(j) \/ FetchDrop(j)
      PROVE  ~Fresh(h, p)'
  BY <1>5, <1>b DEF Submit, Start, Panic, CheckEntryExists, GetGuestbookEntry,
     GetHostNextFetch, SetHostNextFetchToYesterday, UpdateGuestbookFails, Send,
     Return, Rescue, FetchRead, FetchDrop
<1>6. CASE Commit \/ Crash \/ Startup \/ UNCHANGED vars
  BY <1>6, <1>b DEF Commit, Crash, Startup, Boot, ConnectDB, UpsertUniqueHost,
     StartEnqueue, vars
<1> QED
  BY <1>1, <1>2, <1>3, <1>4, <1>5, <1>6 DEF Next, Work, Fetch, Done

\* A full pass leaves every row of its host due, and no other step calls a page reset.
LEMMA OnlyAPassResets ==
  ASSUME TypeOK, [Next]_vars, NEW h \in Host, NEW p \in Path,
         due[h][p] # "reset", due'[h][p] = "reset"
  PROVE  ~Fresh(h, p)'
<1>a. /\ day \in Int
      /\ due \in [Host -> [Path -> Pass]]
      /\ guest \in [Host -> [Path -> Row]]
  BY PassTypes
<1> USE DEF process, tables, fetchVars, history
<1>1. ASSUME NEW j \in Job, SetGuestbookFetchToYesterdayForHost(j) PROVE ~Fresh(h, p)'
  <2>1. h = HostOf(j)
    BY <1>1, <1>a DEF SetGuestbookFetchToYesterdayForHost
  <2>2. /\ guest'[h][p] = ResetToYesterday(guest[h][p]) /\ day' = day
        /\ guest[h][p].in /\ guest[h][p] \in Row
    BY <1>1, <1>a, <2>1 DEF SetGuestbookFetchToYesterdayForHost
  <2>3. guest'[h][p].next = day - 1
    BY <2>2 DEF ResetToYesterday, Row
  <2> QED
    BY <2>2, <2>3, <1>a DEF Fresh
<1>2. ASSUME NEW j \in Job, FetchRead(j) \/ FetchDrop(j) \/ FetchRecord(j) PROVE FALSE
  <2> DEFINE i == HostOf(j)  q == PathOf(j)
  <2>1. CASE FetchRead(j) \/ FetchDrop(j)
    <3>1. due' = [due EXCEPT ![i][q] = "none"]
      BY <2>1 DEF FetchRead, FetchDrop, TakenUp
    <3> HIDE DEF i, q
    <3> QED
      BY <1>a, <3>1
  <2>2. CASE FetchRecord(j)
    <3> DEFINE v == IF due[i][q] = "reset" /\ fetching[j] = "stale" THEN "overwritten"
                                                                  ELSE due[i][q]
    <3>1. due' = [due EXCEPT ![i][q] = v]
      BY <2>2, Zenon DEF FetchRecord
    <3>2. i = h /\ q = p => v = due[h][p] \/ v = "overwritten"
      OBVIOUS
    <3> HIDE DEF i, q, v
    <3>3. due'[h][p] \in {due[h][p], "overwritten"}
      BY <1>a, <3>1, <3>2
    <3> QED
      BY <3>3
  <2> QED
    BY <1>2, <2>1, <2>2
<1>3. ASSUME NEW j \in Job,
             \/ Submit(j) \/ Start(j) \/ Panic(j) \/ CheckEntryExists(j)
             \/ GetGuestbookEntry(j) \/ GetHostNextFetch(j)
             \/ SetHostNextFetchToYesterday(j) \/ UpdateGuestbookNextFetch(j)
             \/ UpdateGuestbookFails(j) \/ Send(j) \/ Return(j) \/ Rescue(j)
      PROVE  FALSE
  BY <1>3 DEF Submit, Start, Panic, CheckEntryExists, GetGuestbookEntry,
     GetHostNextFetch, SetHostNextFetchToYesterday, UpdateGuestbookNextFetch,
     UpdateGuestbookFails, Send, Return, Rescue
<1>4. CASE Commit \/ Crash \/ Startup \/ Tick \/ UNCHANGED vars
  BY <1>4 DEF Commit, Crash, Startup, Boot, ConnectDB, UpsertUniqueHost,
     StartEnqueue, Tick, vars
<1> QED
  BY <1>1, <1>2, <1>3, <1>4 DEF Next, Work, Fetch, Done

LEMMA PassStep ==
  TypeOK /\ IdleInv /\ PassInv /\ [Next]_vars => PassInv'
<1> SUFFICES ASSUME TypeOK, IdleInv, PassInv, [Next]_vars PROVE PassInv'
  OBVIOUS
<1>1. ASSUME NEW h \in Host, NEW p \in Path, due'[h][p] = "reset"
      PROVE  ~Fresh(h, p)' \/ InFlight(h, p)'
  <2>1. CASE due[h][p] # "reset"
    BY <1>1, <2>1, OnlyAPassResets
  <2>2. CASE Crash
    <3>1. due[h][p] = "reset" => ~Fresh(h, p) \/ InFlight(h, p)
      BY DEF PassInv, FullPassIsAnswered
    <3> QED
      BY <1>1, <2>2, <3>1, OrphansAreNamed
  <2>3. CASE \E j \in Job : UpdateGuestbookNextFetch(j) /\ h = HostOf(j) /\ p = PathOf(j)
    BY <2>3, AcceptFlies
  <2>4. ASSUME due[h][p] = "reset", ~Fresh(h, p),
               ~\E j \in Job : UpdateGuestbookNextFetch(j) /\ h = HostOf(j) /\ p = PathOf(j)
        PROVE  ~Fresh(h, p)'
    BY <1>1, <2>4, StaysDue
  <2>5. ASSUME InFlight(h, p), ~Crash PROVE InFlight(h, p)'
    <3>1. ASSUME NEW j \in Job, FetchRead(j) \/ FetchDrop(j), h = HostOf(j), p = PathOf(j)
          PROVE  FALSE
      <4>1. due' = [due EXCEPT ![h][p] = "none"]
        BY <3>1 DEF FetchRead, FetchDrop, TakenUp
      <4> QED
        BY <1>1, <4>1, PassTypes
    <3> QED
      BY <2>5, <3>1, FlightKept
  <2>6. due[h][p] = "reset" => ~Fresh(h, p) \/ InFlight(h, p)
    BY DEF PassInv, FullPassIsAnswered
  <2> QED
    BY <2>1, <2>2, <2>3, <2>4, <2>5, <2>6
<1>2. ASSUME NEW k \in Job, NEW h \in Host, NEW p \in Path,
             fetching'[k] = "read", HostOf(k)' = h, PathOf(k)' = p
      PROVE  due'[h][p] # "reset"
  BY <1>2, ReadStep
<1>3. FullPassIsAnswered'
  BY <1>1 DEF FullPassIsAnswered
<1> QED
  BY <1>2, <1>3 DEF PassInv

\* The jobs that are lost in a crash: those at work, and the message in the channel.
InHand == Working \cup ({slot} \ {NoJob})

LEMMA InHandAreFew ==
  ASSUME PoolInv
  PROVE  /\ IsFiniteSet(InHand) /\ Cardinality(InHand) \in Nat
         /\ Cardinality(InHand) <= MaxWorkers + 1
<1>1. IsFiniteSet(Working) /\ Cardinality(Working) \in Nat /\ Cardinality(Working) <= MaxWorkers
  BY FS_CardinalityType DEF PoolInv
<1>2. IsFiniteSet(Working \cup {slot}) /\ Cardinality(Working \cup {slot}) <= MaxWorkers + 1
  <2>1. /\ IsFiniteSet(Working \cup {slot})
        /\ Cardinality(Working \cup {slot}) = IF slot \in Working THEN Cardinality(Working)
                                                    ELSE Cardinality(Working) + 1
    BY <1>1, FS_AddElement
  <2> QED
    BY <1>1, <2>1, Numbers
<1>3. InHand \in SUBSET (Working \cup {slot})
  BY DEF InHand
<1>4. /\ IsFiniteSet(InHand) /\ Cardinality(InHand) <= Cardinality(Working \cup {slot})
      /\ Cardinality(InHand) \in Nat /\ Cardinality(Working \cup {slot}) \in Nat
  BY <1>2, <1>3, FS_Subset, FS_CardinalityType
<1> QED
  BY <1>2, <1>4, Numbers

\* A crash loses only the pages of those jobs.
LEMMA CrashLoss ==
  ASSUME TypeOK, IdleInv, Crash, NEW h \in Host, NEW p \in Path,
         awaiting[h][p] => InFlight(h, p), awaiting'[h][p], ~InFlight(h, p)'
  PROVE  \E j \in InHand : <<h, p>> = <<HostOf(j), PathOf(j)>>
<1>1. awaiting[h][p]
  BY DEF Crash, history
<1>2. PICK j \in Job : /\ HasCheck(j) /\ HostOf(j) = h /\ PathOf(j) = p
                       /\ pc[j] = "send" \/ slot = j \/ queued[j] > 0
  BY <1>1 DEF InFlight
<1>3. ~(queued[j] > 0)
  <2>1. HasCheck(j)' = HasCheck(j) /\ HostOf(j)' = HostOf(j) /\ PathOf(j)' = PathOf(j)
    BY DEF Crash, HasCheck, HostOf, PathOf
  <2>2. queued' = queued
    BY DEF Crash, fetchVars
  <2> QED
    BY <1>2, <2>1, <2>2 DEF InFlight
<1>4. j \in InHand
  BY <1>2, <1>3, EntreeAssumption DEF InHand, Working
<1>5. <<h, p>> = <<HostOf(j), PathOf(j)>>
  BY <1>2
<1> QED
  BY <1>4, <1>5

LEMMA LossStep ==
  TypeOK /\ IdleInv /\ PoolInv /\ LossInv /\ [Next]_vars => LossInv'
<1> SUFFICES ASSUME TypeOK, IdleInv, PoolInv, LossInv, [Next]_vars PROVE LossInv'
  OBVIOUS
<1>0. /\ IsFiniteSet(Lost) /\ Cardinality(Lost) \in Nat
      /\ Cardinality(Lost) <= crashes * (MaxWorkers + 1) /\ crashes \in Nat
  BY FS_CardinalityType, Numbers DEF LossInv, CrashLosesFew, TypeOK
<1>1. ASSUME NEW h \in Host, NEW p \in Path, <<h, p>> \notin Lost
      PROVE  awaiting[h][p] => InFlight(h, p)
  BY <1>1 DEF Lost
<1>2. CASE ~Crash
  <2>1. Lost' \in SUBSET Lost
    BY <1>1, <1>2, AwaitingKept DEF Lost
  <2>2. crashes' = crashes
    BY <1>2 DEF Next, Work, Fetch, Startup, Submit, Start, Panic, CheckEntryExists,
       GetGuestbookEntry, GetHostNextFetch, SetHostNextFetchToYesterday,
       SetGuestbookFetchToYesterdayForHost, UpdateGuestbookNextFetch, UpdateGuestbookFails,
       Send, Return, Rescue, FetchRead, FetchDrop, FetchRecord, Commit, Boot, ConnectDB,
       UpsertUniqueHost, StartEnqueue, Tick, Done, vars, process
  <2>3. /\ IsFiniteSet(Lost') /\ Cardinality(Lost') \in Nat
        /\ Cardinality(Lost') <= Cardinality(Lost)
    BY <1>0, <2>1, FS_Subset, FS_CardinalityType
  <2>4. Cardinality(Lost') <= crashes' * (MaxWorkers + 1)
    BY <1>0, <2>2, <2>3, Numbers
  <2> QED
    BY <2>3, <2>4 DEF LossInv, CrashLosesFew
<1>3. CASE Crash
  <2> DEFINE At == [j \in InHand |-> <<HostOf(j), PathOf(j)>>]
             Caught == {At[j] : j \in InHand}
  <2>1. Lost' \subseteq Lost \cup Caught
    <3>1. ASSUME NEW h \in Host, NEW p \in Path, <<h, p>> \in Lost', <<h, p>> \notin Lost
          PROVE  <<h, p>> \in Caught
      <4>1. awaiting'[h][p] /\ ~InFlight(h, p)'
        BY <3>1 DEF Lost
      <4> QED
        BY <1>1, <1>3, <3>1, <4>1, CrashLoss
    <3>2. Lost' \subseteq Host \X Path
      BY DEF Lost
    <3> QED
      BY <3>1, <3>2
  <2>2. /\ IsFiniteSet(Caught) /\ Cardinality(Caught) \in Nat
        /\ Cardinality(Caught) <= MaxWorkers + 1
    <3>1. At \in Surjection(InHand, Caught)
      BY DEF Surjection
    <3> HIDE DEF At, Caught
    <3>2. IsFiniteSet(Caught) /\ Cardinality(Caught) <= Cardinality(InHand)
      BY <3>1, InHandAreFew, FS_Surjection
    <3> QED
      BY <3>2, InHandAreFew, FS_CardinalityType, Numbers
  <2> HIDE DEF Caught
  <2>3. /\ IsFiniteSet(Lost \cup Caught) /\ Cardinality(Lost \cup Caught) \in Nat
        /\ Cardinality(Lost \cup Caught) <= Cardinality(Lost) + Cardinality(Caught)
    <3>1. /\ IsFiniteSet(Lost \cup Caught)
          /\ Cardinality(Lost \cup Caught)
               = Cardinality(Lost) + Cardinality(Caught) - Cardinality(Lost \cap Caught)
      BY <1>0, <2>2, FS_Union
    <3>2. Cardinality(Lost \cap Caught) \in Nat
      BY <1>0, FS_Subset, FS_CardinalityType
    <3> QED
      BY <1>0, <2>2, <3>1, <3>2, FS_CardinalityType
  <2>4. /\ IsFiniteSet(Lost') /\ Cardinality(Lost') \in Nat
        /\ Cardinality(Lost') <= Cardinality(Lost \cup Caught)
    BY <2>1, <2>3, FS_Subset, FS_CardinalityType
  <2>5. (crashes + 1) * (MaxWorkers + 1) = crashes * (MaxWorkers + 1) + (MaxWorkers + 1)
    BY <1>0, Numbers
  <2>6. crashes' = crashes + 1
    BY <1>3 DEF Crash
  <2>7. crashes * (MaxWorkers + 1) \in Nat
    BY <1>0, Numbers
  <2>8. Cardinality(Lost') <= crashes' * (MaxWorkers + 1)
    BY <1>0, <2>2, <2>3, <2>4, <2>5, <2>6, <2>7, Numbers
  <2> QED
    BY <2>4, <2>8 DEF LossInv, CrashLosesFew
<1> QED
  BY <1>2, <1>3

-----------------------------------------------------------------------------
(* The burst of a page.                                                    *)

\* Those who have passed are at work, so they are finitely many and no more
\* than there are workers.
LEMMA PassedAreFew ==
  ASSUME TypeOK, PoolInv, NEW h \in Host, NEW p \in Path
  PROVE  /\ IsFiniteSet(Passed(h, p))
         /\ Cardinality(Passed(h, p)) \in Nat
         /\ Cardinality(Passed(h, p)) <= MaxWorkers
         /\ \A j \in Working \ Passed(h, p) : Cardinality(Passed(h, p)) < MaxWorkers
<1>1. /\ IsFiniteSet(Working) /\ Cardinality(Working) \in Nat
      /\ Cardinality(Working) <= MaxWorkers /\ MaxWorkers \in Nat
  BY FS_CardinalityType, Numbers DEF PoolInv
<1>2. Passed(h, p) \subseteq Working
  BY DEF Passed, Working
<1>3. /\ IsFiniteSet(Passed(h, p))
      /\ Cardinality(Passed(h, p)) <= Cardinality(Working)
      /\ Cardinality(Working) = Cardinality(Passed(h, p)) => Working = Passed(h, p)
  BY <1>1, <1>2, FS_Subset
<1>4. Cardinality(Passed(h, p)) \in Nat
  BY <1>3, FS_CardinalityType
<1> QED
  BY <1>1, <1>3, <1>4

\* A step that gives the page no new deadline, counts no acceptance and lets
\* nobody pass a fresh row keeps the bound.
LEMMA BurstKept ==
  ASSUME TypeOK, PoolInv, BurstInv, ~DBFaults, NEW h \in Host, NEW p \in Path,
         burst'[h][p] = burst[h][p],
         Fresh(h, p)' => Fresh(h, p) /\ Passed(h, p)' \subseteq Passed(h, p)
  PROVE  /\ burst'[h][p] <= MaxWorkers
         /\ Fresh(h, p)' => burst'[h][p] + Cardinality(Passed(h, p)') <= MaxWorkers
<1>1. /\ burst[h][p] \in Nat /\ MaxWorkers \in Nat
      /\ burst[h][p] <= MaxWorkers
      /\ Fresh(h, p) => burst[h][p] + Cardinality(Passed(h, p)) <= MaxWorkers
  BY Numbers DEF TypeOK, BurstInv
<1>2. CASE Fresh(h, p)'
  <2>1. IsFiniteSet(Passed(h, p)) /\ Cardinality(Passed(h, p)) \in Nat
    BY PassedAreFew
  <2>2. /\ IsFiniteSet(Passed(h, p)')
        /\ Cardinality(Passed(h, p)') <= Cardinality(Passed(h, p))
    BY <1>2, <2>1, FS_Subset
  <2>3. Cardinality(Passed(h, p)') \in Nat
    BY <2>2, FS_CardinalityType
  <2> QED
    BY <1>1, <1>2, <2>1, <2>2, <2>3
<1>3. CASE ~Fresh(h, p)'
  BY <1>1, <1>3
<1> QED
  BY <1>2, <1>3

\* An acceptance of a page leaves one fewer of those who had passed, and counts
\* one more if it was by one of them; if the page was due, the count restarts.
LEMMA BurstAccept ==
  ASSUME TypeOK, PoolInv, BurstInv, ~DBFaults, NEW h \in Host, NEW p \in Path,
         NEW j \in Job, UpdateGuestbookNextFetch(j), HostOf(j) = h, PathOf(j) = p
  PROVE  /\ burst'[h][p] <= MaxWorkers
         /\ burst'[h][p] + Cardinality(Passed(h, p)') <= MaxWorkers
<1>1. /\ burst[h][p] \in Nat /\ MaxWorkers \in Nat /\ MaxWorkers >= 1
      /\ Fresh(h, p) => burst[h][p] + Cardinality(Passed(h, p)) <= MaxWorkers
  BY Numbers DEF TypeOK, BurstInv
<1>2. /\ IsFiniteSet(Passed(h, p)) /\ Cardinality(Passed(h, p)) \in Nat
      /\ Cardinality(Passed(h, p)) <= MaxWorkers
      /\ \A k \in Working \ Passed(h, p) : Cardinality(Passed(h, p)) < MaxWorkers
  BY PassedAreFew
<1>3. j \in Working /\ (j \in Passed(h, p) <=> IsSingleNoPass(j))
  BY DEF UpdateGuestbookNextFetch, Working, Passed
<1>4. Passed(h, p)' = Passed(h, p) \ {j}
  BY DEF UpdateGuestbookNextFetch, Passed, Goto, TypeOK, HostOf, PathOf, IsSingleNoPass
<1>5. Cardinality(Passed(h, p)') =
        IF j \in Passed(h, p) THEN Cardinality(Passed(h, p)) - 1
                              ELSE Cardinality(Passed(h, p))
  <2>1. Cardinality(Passed(h, p) \ {j}) =
          IF j \in Passed(h, p) THEN Cardinality(Passed(h, p)) - 1
                                ELSE Cardinality(Passed(h, p))
    BY <1>2, FS_RemoveElement
  <2> QED
    BY <1>4, <2>1
<1>6. burst'[h][p] = IF ~Fresh(h, p) THEN (IF IsSingleNoPass(j) THEN 1 ELSE 0)
                     ELSE IF IsSingleNoPass(j) THEN burst[h][p] + 1 ELSE burst[h][p]
  BY DEF UpdateGuestbookNextFetch, TypeOK
<1>7. j \in Passed(h, p) => Cardinality(Passed(h, p)) >= 1
  BY <1>2, FS_EmptySet
<1> QED
  BY <1>1, <1>2, <1>3, <1>5, <1>6, <1>7

\* While the row of a page is fresh, no step lets a job of the page pass: the
\* checks refuse it, and where the host has a row nobody asks the hosts table.
LEMMA NobodyPasses ==
  ASSUME TypeOK, IdleInv, ~DBFaults, NEW h \in Host, NEW p \in Path, Fresh(h, p),
         NEW j \in Job, NEW k \in Job,
         \/ Submit(j) \/ Start(j) \/ Panic(j) \/ CheckEntryExists(j)
         \/ GetGuestbookEntry(j) \/ GetHostNextFetch(j)
         \/ SetHostNextFetchToYesterday(j) \/ UpdateGuestbookNextFetch(j)
         \/ Send(j) \/ Return(j) \/ Rescue(j)
         \/ FetchRead(j) \/ FetchDrop(j) \/ FetchRecord(j),
         k \in Passed(h, p)'
  PROVE  k \in Passed(h, p)
<1>1. /\ pc \in [Job -> Step] /\ arg \in [Job -> Request]
      /\ state[k] = "unused" => pc[k] = "idle"
  BY DEF TypeOK, IdleInv
<1>2. /\ pc'[k] \in {"host", "accept"}
      /\ Clean(arg'[k].path) = p /\ arg'[k].host = h /\ ~arg'[k].full /\ ~arg'[k].pass
  BY DEF Passed, HostOf, PathOf, IsSingleNoPass
<1>3. SUFFICES pc[k] \in {"host", "accept"} /\ arg'[k] = arg[k]
  BY <1>2 DEF Passed, HostOf, PathOf, IsSingleNoPass
<1> USE <1>1, <1>2 DEF Goto
<1>4. CASE Submit(j)
  BY <1>4 DEF Submit
<1>5. CASE Start(j)
  BY <1>5 DEF Start, FirstStep, IsSingleNoPass, IsFullWithPass
<1>6. CASE CheckEntryExists(j)
  BY <1>6 DEF CheckEntryExists, Fresh, HostOf
<1>7. CASE GetGuestbookEntry(j)
  BY <1>7 DEF GetGuestbookEntry, AfterGuestbookNextFetch, HostOf, PathOf
<1>8. CASE GetHostNextFetch(j)
  BY <1>8 DEF GetHostNextFetch
<1>9. CASE \/ Panic(j) \/ SetHostNextFetchToYesterday(j) \/ UpdateGuestbookNextFetch(j)
           \/ Send(j) \/ Return(j) \/ Rescue(j)
           \/ FetchRead(j) \/ FetchDrop(j) \/ FetchRecord(j)
  BY <1>9 DEF Panic, SetHostNextFetchToYesterday, UpdateGuestbookNextFetch, Send,
     Return, MayReturn, Rescue, FetchRead, FetchDrop, FetchRecord
<1> QED
  BY <1>4, <1>5, <1>6, <1>7, <1>8, <1>9

LEMMA BurstStep ==
  TypeOK /\ IdleInv /\ PoolInv /\ BurstInv /\ [Next]_vars => BurstInv'
<1> DEFINE Good(h, p) ==
      /\ burst'[h][p] <= MaxWorkers
      /\ Fresh(h, p)' => burst'[h][p] + Cardinality(Passed(h, p)') <= MaxWorkers
<1> SUFFICES ASSUME TypeOK, IdleInv, PoolInv, BurstInv, [Next]_vars, ~DBFaults,
                    NEW h \in Host, NEW p \in Path
             PROVE  Good(h, p)
  BY DEF BurstInv
<1>a. /\ burst \in [Host -> [Path -> Nat]]
      /\ guest \in [Host -> [Path -> Row]]
      /\ pc \in [Job -> Step]
      /\ day \in Nat
      /\ guest[h][p].next \in Int
  BY Numbers DEF TypeOK, Row
<1>1. ASSUME NEW j \in Job,
             \/ Submit(j) \/ Start(j) \/ Panic(j) \/ CheckEntryExists(j)
             \/ GetGuestbookEntry(j) \/ GetHostNextFetch(j)
             \/ SetHostNextFetchToYesterday(j)
             \/ Send(j) \/ Return(j) \/ Rescue(j) \/ FetchRead(j) \/ FetchDrop(j)
      PROVE  Good(h, p)
  <2>1. UNCHANGED <<day, guest, burst>>
    BY <1>1 DEF Submit, Start, Panic, CheckEntryExists, GetGuestbookEntry,
       GetHostNextFetch, SetHostNextFetchToYesterday, Send, Return, Rescue, FetchRead,
       FetchDrop, process, tables, history
  <2>2. Fresh(h, p)' => Fresh(h, p)
    BY <2>1 DEF Fresh
  <2>3. Fresh(h, p)' => Passed(h, p)' \subseteq Passed(h, p)
    <3> SUFFICES ASSUME Fresh(h, p)', NEW k \in Passed(h, p)' PROVE k \in Passed(h, p)
      OBVIOUS
    <3>1. k \in Job
      BY DEF Passed
    <3> QED
      BY <1>1, <2>2, <3>1, NobodyPasses
  <2> QED
    BY <2>1, <2>2, <2>3, BurstKept
<1>2. ASSUME NEW j \in Job, UpdateGuestbookNextFetch(j) PROVE Good(h, p)
  <2>1. CASE HostOf(j) = h /\ PathOf(j) = p
    BY <1>2, <2>1, BurstAccept
  <2>2. CASE ~(HostOf(j) = h /\ PathOf(j) = p)
    <3>1. burst'[h][p] = burst[h][p] /\ guest'[h][p] = guest[h][p] /\ day' = day
      BY <1>2, <1>a, <2>2 DEF UpdateGuestbookNextFetch
    <3>2. Fresh(h, p)' => Fresh(h, p)
      BY <3>1 DEF Fresh
    <3>3. Fresh(h, p)' => Passed(h, p)' \subseteq Passed(h, p)
      <4> SUFFICES ASSUME Fresh(h, p)', NEW k \in Passed(h, p)' PROVE k \in Passed(h, p)
        OBVIOUS
      <4>1. k \in Job
        BY DEF Passed
      <4> QED
        BY <1>2, <3>2, <4>1, NobodyPasses
    <3> QED
      BY <3>1, <3>2, <3>3, BurstKept
  <2> QED
    BY <2>1, <2>2
<1>3. ASSUME NEW j \in Job, FetchRecord(j) PROVE Good(h, p)
  <2>0. Passed(h, p)' = Passed(h, p)
    BY <1>3 DEF FetchRecord, Passed, HostOf, PathOf, IsSingleNoPass
  <2>1. CASE HostOf(j) = h /\ PathOf(j) = p /\ ~Fresh(h, p)
    <3>1. burst'[h][p] = 0
      BY <1>3, <1>a, <2>1 DEF FetchRecord
    <3>2. /\ Cardinality(Passed(h, p)) \in Nat /\ MaxWorkers \in Nat
          /\ Cardinality(Passed(h, p)) <= MaxWorkers
      BY PassedAreFew, Numbers
    <3> QED
      BY <2>0, <3>1, <3>2
  <2>2. CASE HostOf(j) = h /\ PathOf(j) = p /\ Fresh(h, p)
    <3>1. burst'[h][p] = burst[h][p]
      BY <1>3, <1>a, <2>2 DEF FetchRecord
    <3> QED
      BY <2>0, <2>2, <3>1, BurstKept
  <2>3. CASE ~(HostOf(j) = h /\ PathOf(j) = p)
    <3>1. burst'[h][p] = burst[h][p] /\ guest'[h][p] = guest[h][p] /\ day' = day
      BY <1>3, <1>a, <2>3 DEF FetchRecord
    <3>2. Fresh(h, p)' => Fresh(h, p)
      BY <3>1 DEF Fresh
    <3> QED
      BY <2>0, <3>1, <3>2, BurstKept
  <2> QED
    BY <2>1, <2>2, <2>3
<1>4. ASSUME NEW j \in Job, SetGuestbookFetchToYesterdayForHost(j) PROVE Good(h, p)
  <2>1. CASE HostOf(j) = h
    <3>1. burst'[h][p] = 0
      BY <1>4, <1>a, <2>1 DEF SetGuestbookFetchToYesterdayForHost
    <3>2. ~Fresh(h, p)'
      <4>1. guest'[h][p] = ResetToYesterday(guest[h][p]) /\ day' = day
        BY <1>4, <1>a, <2>1 DEF SetGuestbookFetchToYesterdayForHost
      <4>2. guest'[h][p].in => guest'[h][p].next = day - 1
        BY <4>1, <1>a DEF ResetToYesterday, Row
      <4> QED
        BY <4>1, <4>2, <1>a DEF Fresh
    <3> QED
      BY <3>1, <3>2, Numbers
  <2>2. CASE HostOf(j) # h
    <3>1. burst'[h][p] = burst[h][p] /\ guest'[h][p] = guest[h][p] /\ day' = day
      BY <1>4, <1>a, <2>2 DEF SetGuestbookFetchToYesterdayForHost
    <3>2. Fresh(h, p)' => Fresh(h, p)
      BY <3>1 DEF Fresh
    <3>3. Passed(h, p)' \subseteq Passed(h, p)
      BY <1>4, <1>a, <2>2 DEF SetGuestbookFetchToYesterdayForHost, Passed, HostOf,
         PathOf, IsSingleNoPass, Goto
    <3> QED
      BY <3>1, <3>2, <3>3, BurstKept
  <2> QED
    BY <2>1, <2>2
<1>5. CASE Commit \/ Crash \/ Startup \/ Tick \/ UNCHANGED vars
  <2>1. burst'[h][p] = burst[h][p]
    BY <1>5 DEF Commit, Crash, Startup, Boot, ConnectDB, UpsertUniqueHost,
       StartEnqueue, Tick, vars, history
  <2>2. Fresh(h, p)' => Fresh(h, p)
    BY <1>5, <1>a DEF Commit, Crash, Startup, Boot, ConnectDB, UpsertUniqueHost,
       StartEnqueue, Tick, vars, tables, Fresh
  <2>3. Passed(h, p)' \subseteq Passed(h, p)
    BY <1>5 DEF Commit, Crash, Startup, Boot, ConnectDB, UpsertUniqueHost,
       StartEnqueue, Tick, vars, Passed, HostOf, PathOf, IsSingleNoPass
  <2> QED
    BY <2>1, <2>2, <2>3, BurstKept
<1>6. \A j \in Job : ~UpdateGuestbookFails(j)
  BY DEF UpdateGuestbookFails
<1> QED
  BY <1>1, <1>2, <1>3, <1>4, <1>5, <1>6 DEF Next, Work, Fetch, Done

-----------------------------------------------------------------------------
(* The theorems.                                                           *)

LEMMA InitIInv == Init => IInv
<1> SUFFICES ASSUME Init PROVE IInv
  OBVIOUS
<1>1. TypeOK
  BY InitTypeOK
<1>2. IdleInv /\ HallPassInv /\ HallPassIsHandedOver
  BY EntreeAssumption DEF Init, IdleInv, HallPassInv, HallPassIsHandedOver
<1>3. PassInv /\ LossInv
  <2>1. Lost = {}
    BY DEF Init, Lost
  <2>2. crashes * (MaxWorkers + 1) = 0
    BY Numbers DEF Init
  <2> QED
    BY <2>1, <2>2, FS_EmptySet 
       DEF Init, PassInv, FullPassIsAnswered, LossInv, CrashLosesFew
<1>4. Working = {} /\ \A h \in Host, p \in Path : Passed(h, p) = {}
  BY DEF Init, Working, Passed
<1>5. PoolInv
  BY <1>4, FS_EmptySet, Numbers DEF PoolInv
<1>6. BurstInv
  <2> SUFFICES ASSUME NEW h \in Host, NEW p \in Path
               PROVE  burst[h][p] = 0 /\ Cardinality(Passed(h, p)) = 0
    BY Numbers DEF BurstInv
  <2>1. Passed(h, p) = {}
    BY <1>4
  <2> QED
    BY <2>1, FS_EmptySet DEF Init
<1> QED
  BY <1>1, <1>2, <1>3, <1>5, <1>6 DEF IInv

LEMMA IInvStep == IInv /\ [Next]_vars => IInv'
<1> SUFFICES ASSUME IInv, [Next]_vars PROVE IInv'
  OBVIOUS
<1>1. TypeOK' /\ IdleInv'
  BY TypeStep, IdleStep DEF IInv
<1>2. HallPassInv' /\ HallPassIsHandedOver' /\ PassInv'
  BY HallPassStep, PassStep DEF IInv
<1>3. PoolInv' /\ BurstInv' /\ LossInv'
  BY PoolStep, BurstStep, LossStep DEF IInv
<1> QED
  BY <1>1, <1>2, <1>3 DEF IInv

\* The inductive invariant of entree holds in every reachable state.
THEOREM Invariance == Spec => []IInv
  BY InitIInv, IInvStep, PTL DEF Spec

\* Type correctness of entree.
THEOREM TypeCorrect == Spec => []TypeOK
<1>1. IInv => TypeOK
  BY DEF IInv
<1> QED
  BY <1>1, Invariance, PTL

\* However many links to a page arrive, and however often the process dies, no
\* more single no-pass jobs are accepted for it between two moments at which it
\* is due than the queue has workers, if no database statement fails.
THEOREM BurstBounded == ~DBFaults /\ Spec => []SingleBurstBounded
<1> SUFFICES ASSUME ~DBFaults PROVE Spec => []SingleBurstBounded
  OBVIOUS
<1>1. IInv => SingleBurstBounded
  BY DEF IInv, BurstInv, SingleBurstBounded
<1> QED
  BY <1>1, Invariance, PTL

\* Whatever jobs, fetches, crashes and restarts do after a full pass, a page it
\* reset looks fresh again before a fetch has taken it up only while one is on its
\* way, or because a fetch was late or its message died with the process.
THEOREM FullPassAnswered == Spec => []FullPassIsAnswered
<1>1. IInv => FullPassIsAnswered
  BY DEF IInv, PassInv
<1> QED
  BY <1>1, Invariance, PTL

\* A completed job with a hall pass has handed over its fetch, across any number
\* of crashes, panics and rescues.
THEOREM HallPassHandedOver == Spec => []HallPassIsHandedOver
<1>1. IInv => HallPassIsHandedOver
  BY DEF IInv
<1> QED
  BY <1>1, Invariance, PTL

\* A crash loses at most one accepted page for each worker, and the one in the
\* channel, however many jobs there are and however often the process dies.
THEOREM CrashLossBounded == Spec => []CrashLosesFew
<1>1. IInv => CrashLosesFew
  BY DEF IInv, LossInv
<1> QED
  BY <1>1, Invariance, PTL

\* Until the process dies, a page whose deadline was moved has its fetch under way:
\* at a worker, in the Enqueue goroutine or in the fetch queue.
THEOREM AcceptedInFlight == Spec => [](crashes = 0 => AcceptedIsInFlight)
<1>1. ASSUME IInv, crashes = 0 PROVE AcceptedIsInFlight
  <2>1. IsFiniteSet(Lost) /\ Cardinality(Lost) \in Nat
        /\ Cardinality(Lost) <= crashes * (MaxWorkers + 1)
    BY <1>1, FS_CardinalityType DEF IInv, LossInv, CrashLosesFew
  <2>2. crashes * (MaxWorkers + 1) = 0
    BY <1>1, Numbers
  <2>3. Lost = {}
    BY <2>1, <2>2, FS_EmptySet
  <2>4. ASSUME NEW h \in Host, NEW p \in Path, awaiting[h][p] PROVE InFlight(h, p)
    <3>1. <<h, p>> \in Host \X Path /\ <<h, p>> \notin Lost
      BY <2>3
    <3> QED
      BY <2>4, <3>1 DEF Lost
  <2> QED
    BY <2>4 DEF AcceptedIsInFlight
<1>2. IInv => (crashes = 0 => AcceptedIsInFlight)
  BY <1>1
<1> QED
  BY <1>2, Invariance, PTL

-----------------------------------------------------------------------------
(* The channel and the goroutine behind it are an outbox.                  *)

\* History: what the Enqueue goroutine has committed, in its order.
VARIABLE outbox

Committing == outbox' = IF Commit THEN Append(outbox, slot) ELSE outbox

Out == INSTANCE Outbox WITH
  Message <- Job,
  Lossy <- {},
  inbox <- IF slot = NoJob THEN {} ELSE {slot},
  deaths <- crashes

\* Who touches the channel.
LEMMA SlotMoves ==
  ASSUME TypeOK, [Next]_vars
  PROVE  \/ UNCHANGED <<slot, crashes>>
         \/ slot = NoJob /\ slot' \in Job /\ crashes' = crashes
         \/ Commit \/ Crash
<1> USE DEF process, fetchVars, history
<1>1. ASSUME NEW j \in Job, Send(j)
      PROVE  slot = NoJob /\ slot' \in Job /\ crashes' = crashes
  BY <1>1 DEF Send, SlotFree
<1>2. ASSUME NEW j \in Job, Work(j), ~Send(j)
      PROVE  UNCHANGED <<slot, crashes>>
  BY <1>2 DEF Work, Start, Panic, CheckEntryExists, GetGuestbookEntry, GetHostNextFetch,
              SetHostNextFetchToYesterday, SetGuestbookFetchToYesterdayForHost,
              UpdateGuestbookNextFetch, UpdateGuestbookFails, Return
<1>3. ASSUME NEW j \in Job, Submit(j) \/ Rescue(j) \/ Fetch(j)
      PROVE  UNCHANGED <<slot, crashes>>
  BY <1>3 DEF Submit, Rescue, Fetch, FetchRead, FetchDrop, FetchRecord
<1>4. CASE Startup \/ Tick \/ Done \/ UNCHANGED vars
  BY <1>4 DEF Startup, Boot, ConnectDB, UpsertUniqueHost, StartEnqueue, Tick, Done, vars
<1> QED
  BY <1>1, <1>2, <1>3, <1>4 DEF Next

LEMMA OutboxStep ==
  TypeOK /\ [Next]_vars /\ [Committing]_<<vars, outbox>> => [Out!OutNext]_(Out!outVars)
<1> SUFFICES ASSUME TypeOK, [Next]_vars, [Committing]_<<vars, outbox>>
             PROVE  [Out!OutNext]_(Out!outVars)
  OBVIOUS
<1> USE DEF Out!outVars
<1>0. /\ outbox' = IF Commit THEN Append(outbox, slot) ELSE outbox
      /\ slot \in Job \cup {NoJob} /\ NoJob \notin Job
  BY NoJobIsNone DEF Committing, Commit, vars, TypeOK
<1>1. CASE Commit
  <2>1. slot \in Job /\ slot # NoJob /\ slot' = NoJob /\ crashes' = crashes
    BY <1>0, <1>1 DEF Commit, process
  <2> QED
    BY <1>0, <1>1, <2>1 DEF Out!OutNext, Out!CommitIt
<1>2. CASE Crash
  <2>1. ~Commit /\ slot' = NoJob /\ crashes' = crashes + 1
    BY <1>2 DEF Crash, Commit, process
  <2> QED
    BY <1>0, <2>1 DEF Out!OutNext, Out!Die
<1>3. CASE ~Commit /\ UNCHANGED <<slot, crashes>>
  BY <1>0, <1>3
<1>4. CASE ~Commit /\ slot = NoJob /\ slot' \in Job /\ crashes' = crashes
  BY <1>0, <1>4 DEF Out!OutNext, Out!TakeOne
<1> QED
  BY <1>1, <1>2, <1>3, <1>4, SlotMoves

\* The channel of entree (accept_logic.go:114) with its goroutine, as this module
\* has them, is the outbox that Enqueue implements, and a sound one: a message that was
\* received is committed once, before the next is received, or lost in a crash.
THEOREM SlotIsOutbox ==
  Spec /\ outbox = << >> /\ [][Committing]_<<vars, outbox>> => Out!OutSpec
<1>1. Init /\ outbox = << >> => Out!OutInit
  BY DEF Init, Out!OutInit
<1> QED
  BY <1>1, OutboxStep, TypeCorrect, PTL DEF Spec, Out!OutSpec

=============================================================================
