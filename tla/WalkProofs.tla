----------------------------- MODULE WalkProofs -----------------------------
(***************************************************************************)
(* The cache of links neither multiplies offers nor swallows links, for    *)
(* every finite set of jobs, any pages, any number of workers, any time to *)
(* live and any number of failures. IInv, defined beside the properties in *)
(* Walk, is inductive.                                                     *)
(***************************************************************************)
EXTENDS Walk, FiniteSetTheorems, TLAPS

-----------------------------------------------------------------------------
(* Types.                                                                  *)

\* What the proofs need of the constants.
LEMMA Constants ==
  /\ IsFiniteSet(Job)
  /\ MaxWorkers \in Nat /\ MaxWorkers >= 1
  /\ TTL \in Nat /\ TTL >= 1
  /\ \A u \in Url : Target(u) # NoPath
  /\ \A j \in Job : Found(j) \subseteq Url
<1>1. IsFiniteSet(Job) /\ MaxWorkers \in Nat \ {0} /\ TTL \in Nat \ {0}
  BY WalkAssumption
<1>2. \A u \in Url : Target(u) # NoPath
  BY WalkAssumption
<1>3. \A j \in Job : Found(j) \subseteq Url
  BY DEF Url
<1> QED
  BY <1>1, <1>2, <1>3

LEMMA InitTypeOK == Init => TypeOK
  BY Constants DEF Init, TypeOK

LEMMA TypeStep == TypeOK /\ [Next]_vars => TypeOK'
<1> SUFFICES ASSUME TypeOK, [Next]_vars PROVE TypeOK'
  OBVIOUS
<1> USE DEF Goto, GiveUp, job, worker, history, trouble
<1>1. ASSUME NEW j \in Job, Take(j) PROVE TypeOK'
  BY <1>1 DEF Take, TypeOK
<1>2. ASSUME NEW j \in Job, Load(j) PROVE TypeOK'
  BY <1>2 DEF Load, Fault, TypeOK
<1>3. ASSUME NEW j \in Job, Panic(j) PROVE TypeOK'
  BY <1>3 DEF Panic, TypeOK
<1>4. ASSUME NEW j \in Job, CopyRaw(j) PROVE TypeOK'
  BY <1>4, Constants DEF CopyRaw, Fault, TypeOK
<1>5. ASSUME NEW j \in Job, LookUp(j) PROVE TypeOK'
  BY <1>5 DEF LookUp, TypeOK
<1>6. ASSUME NEW j \in Job, Enter(j) PROVE TypeOK'
  BY <1>6, Constants DEF Enter, Collected, TypeOK
<1>7. ASSUME NEW j \in Job, SendLink(j) PROVE TypeOK'
  BY <1>7 DEF SendLink, TypeOK
<1>8. ASSUME NEW j \in Job, Return(j) PROVE TypeOK'
  BY <1>8 DEF Return, TypeOK
<1>9. ASSUME NEW j \in Job, Rescue(j) PROVE TypeOK'
  BY <1>9 DEF Rescue, TypeOK
<1>10. CASE Commit
  BY <1>10 DEF Commit, TypeOK
<1>11. CASE Tick
  BY <1>11, Constants DEF Tick, TypeOK
<1>12. CASE Crash
  BY <1>12, Constants DEF Crash, EmptyCache, TypeOK
<1>13. CASE Startup
  BY <1>13 DEF Startup, Boot, NewCache, StartEnqueue, TypeOK
<1>14. CASE UNCHANGED vars
  BY <1>14 DEF vars, TypeOK
<1> QED
  BY <1>1, <1>2, <1>3, <1>4, <1>5, <1>6, <1>7, <1>8, <1>9, <1>10, <1>11, <1>12,
     <1>13, <1>14 DEF Next, Work, Done

-----------------------------------------------------------------------------
(* Where the workers are.                                                  *)

LEMMA ControlStep == TypeOK /\ ControlInv /\ [Next]_vars => ControlInv'
<1> SUFFICES ASSUME TypeOK, ControlInv, [Next]_vars, NEW k \in Job
             PROVE  /\ pc'[k] = "send" => todo'[k] = {}
                    /\ pc'[k] = "return" => k \in gaveUp'
  BY DEF ControlInv
<1> DEFINE Good == /\ pc'[k] = "send" => todo'[k] = {}
                   /\ pc'[k] = "return" => k \in gaveUp'
<1>a. /\ pc[k] = "send" => todo[k] = {}
      /\ pc[k] = "return" => k \in gaveUp
  BY DEF ControlInv
<1> USE <1>a DEF Goto, GiveUp, job, worker, history, trouble
<1>1. ASSUME NEW j \in Job, Take(j) PROVE Good
  BY <1>1 DEF Take, TypeOK
<1>2. ASSUME NEW j \in Job, Load(j) \/ Panic(j) PROVE Good
  BY <1>2 DEF Load, Panic, Fault, TypeOK
<1>3. ASSUME NEW j \in Job, CopyRaw(j) PROVE Good
  BY <1>3 DEF CopyRaw, Fault, TypeOK
<1>4. ASSUME NEW j \in Job, LookUp(j) PROVE Good
  BY <1>4 DEF LookUp, TypeOK
<1>5. ASSUME NEW j \in Job, Enter(j) PROVE Good
  BY <1>5 DEF Enter, TypeOK
<1>6. ASSUME NEW j \in Job, SendLink(j) PROVE Good
  BY <1>6 DEF SendLink, TypeOK
<1>7. ASSUME NEW j \in Job, Return(j) \/ Rescue(j) PROVE Good
  BY <1>7 DEF Return, Rescue, TypeOK
<1>8. CASE Commit \/ Tick \/ Crash \/ Startup \/ UNCHANGED vars
  BY <1>8 DEF Commit, Tick, Crash, Startup, Boot, NewCache, StartEnqueue, vars
<1> QED
  BY <1>1, <1>2, <1>3, <1>4, <1>5, <1>6, <1>7, <1>8 DEF Next, Work, Done

\* Only the start of a job adds to those at work.
LEMMA WorkingShrinks ==
  ASSUME TypeOK, [Next]_vars, \A j \in Job : ~Take(j)
  PROVE  Working' \subseteq Working
<1> SUFFICES ASSUME NEW k \in Job, pc[k] = "idle" PROVE pc'[k] = "idle"
  BY DEF Working
<1>1. ASSUME NEW j \in Job,
             \/ Load(j) \/ Panic(j) \/ CopyRaw(j) \/ LookUp(j) \/ Enter(j)
             \/ SendLink(j) \/ Return(j) \/ Rescue(j)
      PROVE  pc'[k] = "idle"
  BY <1>1 DEF Load, Panic, CopyRaw, LookUp, Enter, SendLink, Return, Rescue, Goto,
     GiveUp, Fault, worker, TypeOK
<1>2. CASE Commit \/ Tick \/ Crash \/ Startup \/ UNCHANGED vars
  BY <1>2 DEF Commit, Tick, Crash, Startup, Boot, NewCache, StartEnqueue, vars, worker
<1> QED
  BY <1>1, <1>2 DEF Next, Work, Done

LEMMA PoolStep == TypeOK /\ PoolInv /\ [Next]_vars => PoolInv'
<1> SUFFICES ASSUME TypeOK, PoolInv, [Next]_vars
             PROVE  IsFiniteSet(Working') /\ Cardinality(Working') <= MaxWorkers
  BY DEF PoolInv
<1>1. /\ IsFiniteSet(Working) /\ Cardinality(Working) \in Nat
      /\ Cardinality(Working) <= MaxWorkers /\ MaxWorkers \in Nat
  BY FS_CardinalityType, Constants DEF PoolInv
<1>2. ASSUME NEW j \in Job, Take(j)
      PROVE  IsFiniteSet(Working') /\ Cardinality(Working') <= MaxWorkers
  <2>1. Working' \subseteq Working \cup {j}
    BY <1>2 DEF Take, Goto, GiveUp, Working, TypeOK
  <2>2. Cardinality(Working) < MaxWorkers
    BY <1>2 DEF Take
  <2>3. /\ IsFiniteSet(Working \cup {j})
        /\ \/ Cardinality(Working \cup {j}) = Cardinality(Working)
           \/ Cardinality(Working \cup {j}) = Cardinality(Working) + 1
    BY <1>1, FS_AddElement
  <2>4. IsFiniteSet(Working') /\ Cardinality(Working') <= Cardinality(Working \cup {j})
    BY <2>1, <2>3, FS_Subset
  <2>5. Cardinality(Working') \in Nat /\ Cardinality(Working \cup {j}) \in Nat
    BY <2>3, <2>4, FS_CardinalityType
  <2> QED
    BY <1>1, <2>2, <2>3, <2>4, <2>5
<1>3. CASE \A j \in Job : ~Take(j)
  <2>1. IsFiniteSet(Working') /\ Cardinality(Working') <= Cardinality(Working)
    BY <1>1, <1>3, WorkingShrinks, FS_Subset
  <2>2. Cardinality(Working') \in Nat
    BY <2>1, FS_CardinalityType
  <2> QED
    BY <1>1, <2>1, <2>2
<1> QED
  BY <1>2, <1>3

-----------------------------------------------------------------------------
(* How often a link is entered.                                            *)

\* Those who have passed are at work, so there are no more than workers.
LEMMA PassedAreFew ==
  ASSUME TypeOK, PoolInv, NEW u \in Url
  PROVE  /\ IsFiniteSet(Passed(u))
         /\ Cardinality(Passed(u)) \in Nat
         /\ Cardinality(Passed(u)) <= MaxWorkers
<1>1. /\ IsFiniteSet(Working) /\ Cardinality(Working) \in Nat
      /\ Cardinality(Working) <= MaxWorkers /\ MaxWorkers \in Nat
  BY FS_CardinalityType, Constants DEF PoolInv
<1>2. Passed(u) \subseteq Working
  BY DEF Passed, Working
<1>3. IsFiniteSet(Passed(u)) /\ Cardinality(Passed(u)) <= Cardinality(Working)
  BY <1>1, <1>2, FS_Subset
<1>4. Cardinality(Passed(u)) \in Nat
  BY <1>3, FS_CardinalityType
<1> QED
  BY <1>1, <1>3, <1>4

\* While a link is cached, no step lets a worker pass.
LEMMA NobodyPasses ==
  ASSUME TypeOK, [Next]_vars, NEW u \in Url, ttl[u] > 0
  PROVE  Passed(u)' \subseteq Passed(u)
<1> SUFFICES ASSUME NEW k \in Job, pc'[k] = "enter", link'[k] = u
             PROVE  pc[k] = "enter" /\ link[k] = u
  BY DEF Passed
<1> USE DEF Goto, GiveUp, Fault, worker
<1>1. ASSUME NEW j \in Job, Take(j) PROVE pc[k] = "enter" /\ link[k] = u
  BY <1>1 DEF Take, TypeOK
<1>2. ASSUME NEW j \in Job, Load(j) \/ Panic(j) \/ CopyRaw(j)
      PROVE  pc[k] = "enter" /\ link[k] = u
  BY <1>2 DEF Load, Panic, CopyRaw, TypeOK
<1>3. ASSUME NEW j \in Job, LookUp(j) PROVE pc[k] = "enter" /\ link[k] = u
  BY <1>3 DEF LookUp, Cached, TypeOK
<1>4. ASSUME NEW j \in Job, Enter(j) PROVE pc[k] = "enter" /\ link[k] = u
  BY <1>4 DEF Enter, TypeOK
<1>5. ASSUME NEW j \in Job, SendLink(j) \/ Return(j) \/ Rescue(j)
      PROVE  pc[k] = "enter" /\ link[k] = u
  BY <1>5 DEF SendLink, Return, Rescue, TypeOK
<1>6. CASE Commit \/ Tick \/ Crash \/ Startup \/ UNCHANGED vars
  BY <1>6 DEF Commit, Tick, Crash, Startup, Boot, NewCache, StartEnqueue, vars
<1> QED
  BY <1>1, <1>2, <1>3, <1>4, <1>5, <1>6 DEF Next, Work, Done

\* A step that enters u for nobody keeps the bound.
LEMMA EnteredKept ==
  ASSUME TypeOK, PoolInv, EnteredInv, [Next]_vars, NEW u \in Url,
         entered'[u] = entered[u], ttl'[u] > 0 => ttl[u] > 0
  PROVE  ttl'[u] > 0 => entered'[u] + Cardinality(Passed(u)') <= MaxWorkers
<1> SUFFICES ASSUME ttl'[u] > 0
             PROVE  entered'[u] + Cardinality(Passed(u)') <= MaxWorkers
  OBVIOUS
<1>1. /\ entered[u] \in Nat /\ MaxWorkers \in Nat /\ ttl[u] > 0
      /\ entered[u] + Cardinality(Passed(u)) <= MaxWorkers
  BY Constants DEF TypeOK, EnteredInv
<1>2. IsFiniteSet(Passed(u)) /\ Cardinality(Passed(u)) \in Nat
  BY PassedAreFew
<1>3. Passed(u)' \subseteq Passed(u)
  BY <1>1, NobodyPasses
<1>4. IsFiniteSet(Passed(u)') /\ Cardinality(Passed(u)') <= Cardinality(Passed(u))
  BY <1>2, <1>3, FS_Subset
<1>5. Cardinality(Passed(u)') \in Nat
  BY <1>4, FS_CardinalityType
<1> QED
  BY <1>1, <1>2, <1>4, <1>5

\* Whoever enters u is one fewer of those who have passed.
LEMMA EnteredByOneMore ==
  ASSUME TypeOK, PoolInv, EnteredInv, NEW j \in Job, Enter(j), NEW u \in Url,
         link[j] = u
  PROVE  entered'[u] + Cardinality(Passed(u)') <= MaxWorkers
<1>1. /\ entered[u] \in Nat /\ MaxWorkers \in Nat /\ ttl[u] \in Nat
      /\ ttl[u] = 0 => entered[u] = 0
      /\ ttl[u] > 0 => entered[u] + Cardinality(Passed(u)) <= MaxWorkers
  BY Constants DEF TypeOK, EnteredInv
<1>2. /\ IsFiniteSet(Passed(u)) /\ Cardinality(Passed(u)) \in Nat
      /\ Cardinality(Passed(u)) <= MaxWorkers
  BY PassedAreFew
<1>3. j \in Passed(u)
  BY DEF Enter, Passed
<1>4. Passed(u)' = Passed(u) \ {j}
  BY DEF Enter, Passed, Goto, TypeOK
<1>5. Cardinality(Passed(u) \ {j}) = Cardinality(Passed(u)) - 1
  BY <1>2, <1>3, FS_RemoveElement
<1>6. Cardinality(Passed(u)') = Cardinality(Passed(u)) - 1
  BY <1>4, <1>5
<1>7. entered'[u] = entered[u] + 1
  BY DEF Enter, TypeOK
<1> QED
  BY <1>1, <1>2, <1>6, <1>7

LEMMA EnteredStep == TypeOK /\ PoolInv /\ EnteredInv /\ [Next]_vars => EnteredInv'
<1> DEFINE Good(u) ==
      /\ ttl'[u] = 0 => entered'[u] = 0
      /\ ttl'[u] > 0 => entered'[u] + Cardinality(Passed(u)') <= MaxWorkers
<1> SUFFICES ASSUME TypeOK, PoolInv, EnteredInv, [Next]_vars, NEW u \in Url
             PROVE  Good(u)
  BY DEF EnteredInv
<1>a. /\ ttl[u] \in Nat /\ entered[u] \in Nat
      /\ ttl[u] = 0 => entered[u] = 0
  BY Constants DEF TypeOK, EnteredInv
<1>b. UNCHANGED <<ttl, entered>> => Good(u)
  BY <1>a, EnteredKept
<1> USE DEF job, worker, history, trouble
<1>1. ASSUME NEW j \in Job,
             \/ Take(j) \/ Load(j) \/ Panic(j) \/ CopyRaw(j) \/ LookUp(j)
             \/ SendLink(j) \/ Return(j) \/ Rescue(j)
      PROVE  Good(u)
  <2>1. UNCHANGED <<ttl, entered>>
    BY <1>1 DEF Take, Load, Panic, CopyRaw, LookUp, SendLink, Return, Rescue
  <2> QED
    BY <2>1, <1>b
<1>2. ASSUME NEW j \in Job, Enter(j) PROVE Good(u)
  <2>1. CASE link[j] = u
    <3>1. ttl'[u] = TTL
      BY <1>2, <2>1 DEF Enter, TypeOK
    <3> QED
      BY <1>2, <2>1, <3>1, EnteredByOneMore, Constants
  <2>2. CASE link[j] # u
    <3>1. ttl'[u] = ttl[u] /\ entered'[u] = entered[u]
      BY <1>2, <2>2 DEF Enter, TypeOK
    <3> QED
      BY <3>1, <1>a, EnteredKept
  <2> QED
    BY <2>1, <2>2
<1>3. CASE Tick
  <2>1. ttl'[u] = IF ttl[u] > 0 THEN ttl[u] - 1 ELSE 0
    BY <1>3 DEF Tick
  <2>2. entered'[u] = IF ttl[u] > 1 THEN entered[u] ELSE 0
    BY <1>3 DEF Tick
  <2>3. CASE ttl[u] > 1
    <3>1. entered'[u] = entered[u] /\ ttl'[u] > 0
      BY <2>1, <2>2, <2>3, <1>a
    <3>2. ttl'[u] > 0 => entered'[u] + Cardinality(Passed(u)') <= MaxWorkers
      BY <3>1, <2>3, <1>a, EnteredKept
    <3> QED
      BY <3>1, <3>2
  <2>4. CASE ~(ttl[u] > 1)
    BY <2>1, <2>2, <2>4, <1>a
  <2> QED
    BY <2>3, <2>4
<1>4. CASE Crash
  BY <1>4 DEF Crash, EmptyCache
<1>5. CASE Commit \/ Startup \/ UNCHANGED vars
  BY <1>5, <1>b DEF Commit, Startup, Boot, NewCache, StartEnqueue, vars
<1> QED
  BY <1>1, <1>2, <1>3, <1>4, <1>5 DEF Next, Work, Done

-----------------------------------------------------------------------------
(* What the cache swallows is on its way.                                  *)

\* While the process lives, what is on its way arrives or stays on its way.
LEMMA StaysOnItsWay ==
  ASSUME TypeOK, [Next]_vars, ~Crash, NEW u \in Url, OnItsWay(u)
  PROVE  OnItsWay(u)'
<1> USE DEF Goto, GiveUp, Fault, job, worker, history, trouble
<1>1. ASSUME NEW j \in Job,
             \/ Take(j) \/ Load(j) \/ Panic(j) \/ CopyRaw(j) \/ LookUp(j)
             \/ Rescue(j)
      PROVE  OnItsWay(u)'
  <2>1. UNCHANGED <<links, slot, offered>>
    BY <1>1 DEF Take, Load, Panic, CopyRaw, LookUp, Rescue
  <2> QED
    BY <2>1 DEF OnItsWay
<1>2. ASSUME NEW j \in Job, Enter(j) PROVE OnItsWay(u)'
  <2>1. /\ UNCHANGED <<slot, offered>>
        /\ \A k \in Job : links[k] \subseteq links'[k]
    BY <1>2 DEF Enter, Collected, TypeOK
  <2> QED
    BY <2>1 DEF OnItsWay
<1>3. ASSUME NEW j \in Job, SendLink(j) PROVE OnItsWay(u)'
  <2>1. PICK v \in links[j] : slot' = Target(v) /\ links' = [links EXCEPT ![j] = @ \ {v}]
    BY <1>3 DEF SendLink
  <2>2. offered' = offered /\ slot = NoPath
    BY <1>3 DEF SendLink
  <2>3. CASE u = v
    BY <2>1, <2>3 DEF OnItsWay
  <2>4. CASE u # v
    <3>1. \A k \in Job : u \in links[k] => u \in links'[k]
      BY <2>1, <2>4 DEF TypeOK
    <3>2. slot # Target(u)
      BY <2>2, Constants
    <3> QED
      BY <2>2, <3>1, <3>2 DEF OnItsWay
  <2> QED
    BY <2>3, <2>4
<1>4. ASSUME NEW j \in Job, Return(j) PROVE OnItsWay(u)'
  <2>1. links[j] = {}
    BY <1>4 DEF Return, AllSent, TypeOK
  <2>2. UNCHANGED <<slot, offered>> /\ \A k \in Job : links'[k] = links[k]
    BY <1>4, <2>1 DEF Return, TypeOK
  <2> QED
    BY <2>2 DEF OnItsWay
<1>5. CASE Commit
  BY <1>5 DEF Commit, OnItsWay
<1>6. CASE Tick \/ Startup \/ UNCHANGED vars
  <2>1. UNCHANGED <<links, slot, offered>>
    BY <1>6 DEF Tick, Startup, Boot, NewCache, StartEnqueue, vars
  <2> QED
    BY <2>1 DEF OnItsWay
<1> QED
  BY <1>1, <1>2, <1>3, <1>4, <1>5, <1>6 DEF Next, Work, Done

\* A process that has not died now had not died before.
LEMMA NoCrashYet == TypeOK /\ [Next]_vars /\ crashes' = 0 => crashes = 0 /\ ~Crash
  BY DEF TypeOK, Next, Work, Done, Startup, Boot, NewCache, StartEnqueue, Take, Load,
     Panic, CopyRaw, LookUp, Enter, SendLink, Return, Rescue, Commit, Tick, Crash,
     GiveUp, Fault, Goto, vars, job, worker, history, trouble

LEMMA CachedStep ==
  TypeOK /\ CachedIsOffered /\ [Next]_vars => CachedIsOffered'
<1> SUFFICES ASSUME TypeOK, CachedIsOffered, [Next]_vars, NEW u \in Url, ttl'[u] > 0
             PROVE  OnItsWay(u)'
  BY DEF CachedIsOffered, Cached
<1>0. ~Crash
  BY DEF Crash, EmptyCache
<1>1. CASE ttl[u] > 0
  <2>1. OnItsWay(u)
    BY <1>1 DEF CachedIsOffered, Cached
  <2> QED
    BY <1>0, <2>1, StaysOnItsWay
<1>2. CASE ~(ttl[u] > 0)
  <2>1. PICK j \in Job : Enter(j)
    BY <1>0, <1>2 DEF TypeOK, Next, Work, Done, Startup, Boot, NewCache, StartEnqueue, Take,
       Load, Panic, CopyRaw, LookUp, SendLink, Return, Rescue, Commit, Tick, vars
  <2>2. link[j] = u
    BY <1>2, <2>1 DEF Enter, TypeOK
  <2>3. u \in links'[j]
    BY <2>1, <2>2 DEF Enter, Collected, TypeOK
  <2> QED
    BY <2>3 DEF OnItsWay
<1> QED
  BY <1>1, <1>2

LEMMA ScannedStep ==
  TypeOK /\ CachedIsOffered /\ ScannedInv /\ [Next]_vars => ScannedInv'
<1> SUFFICES ASSUME TypeOK, CachedIsOffered, ScannedInv, [Next]_vars,
                    NEW k \in Job, NEW u \in Url,
                    u \in Found(k), k \notin gaveUp', pc'[k] \in {"scan", "enter", "send"}
             PROVE  u \in todo'[k] \/ (pc'[k] = "enter" /\ link'[k] = u) \/ OnItsWay(u)'
  BY DEF ScannedInv
<1> DEFINE Ahead == u \in todo[k] \/ (pc[k] = "enter" /\ link[k] = u)
           AheadNext == u \in todo'[k] \/ (pc'[k] = "enter" /\ link'[k] = u)
<1>0. ~Crash
  BY DEF Crash
<1>a. k \notin gaveUp /\ pc[k] \in {"scan", "enter", "send"} => Ahead \/ OnItsWay(u)
  BY DEF ScannedInv
<1>b. OnItsWay(u) => OnItsWay(u)'
  BY <1>0, StaysOnItsWay
<1>c. ASSUME k \notin gaveUp, pc[k] \in {"scan", "enter", "send"}, Ahead => AheadNext
      PROVE  AheadNext \/ OnItsWay(u)'
  BY <1>a, <1>b, <1>c
<1> SUFFICES AheadNext \/ OnItsWay(u)'
  OBVIOUS
<1> HIDE DEF Ahead, AheadNext
<1> USE DEF Goto, GiveUp, Fault, job, worker, history, trouble
<1>1. ASSUME NEW j \in Job, Take(j) PROVE AheadNext \/ OnItsWay(u)'
  BY <1>1, <1>c DEF Take, TypeOK, Ahead, AheadNext
<1>2. ASSUME NEW j \in Job, Load(j) \/ Panic(j) PROVE AheadNext \/ OnItsWay(u)'
  BY <1>2, <1>c DEF Load, Panic, TypeOK, Ahead, AheadNext
<1>3. ASSUME NEW j \in Job, CopyRaw(j) PROVE AheadNext \/ OnItsWay(u)'
  <2>1. CASE j = k
    BY <1>3, <2>1 DEF CopyRaw, TypeOK, AheadNext
  <2>2. CASE j # k
    BY <1>3, <1>c, <2>2 DEF CopyRaw, TypeOK, Ahead, AheadNext
  <2> QED
    BY <2>1, <2>2
<1>4. ASSUME NEW j \in Job, LookUp(j) PROVE AheadNext \/ OnItsWay(u)'
  <2>1. PICK v \in todo[j] :
          /\ todo' = [todo EXCEPT ![j] = @ \ {v}]
          /\ IF Cached(v) THEN UNCHANGED <<pc, link>>
                          ELSE Goto(j, "enter") /\ link' = [link EXCEPT ![j] = v]
    BY <1>4 DEF LookUp
  <2>2. gaveUp' = gaveUp /\ pc[j] = "scan"
    BY <1>4 DEF LookUp
  <2>3. CASE j = k /\ u = v /\ Cached(v)
    <3>1. OnItsWay(u)
      BY <2>3 DEF CachedIsOffered
    <3> QED
      BY <3>1, <1>b
  <2>4. CASE j = k /\ u = v /\ ~Cached(v)
    BY <2>1, <2>4 DEF TypeOK, AheadNext
  <2>5. CASE ~(j = k /\ u = v)
    <3>1. pc[k] \in {"scan", "enter", "send"}
      BY <2>1, <2>2 DEF TypeOK
    <3>2. Ahead => AheadNext
      <4>1. CASE j = k
        BY <2>1, <2>2, <2>5, <4>1 DEF TypeOK, Ahead, AheadNext
      <4>2. CASE j # k
        BY <2>1, <4>2 DEF TypeOK, Ahead, AheadNext
      <4> QED
        BY <4>1, <4>2
    <3> QED
      BY <2>2, <3>1, <3>2, <1>c
  <2> QED
    BY <2>3, <2>4, <2>5
<1>5. ASSUME NEW j \in Job, Enter(j) PROVE AheadNext \/ OnItsWay(u)'
  <2>1. CASE link[j] = u
    <3>1. u \in links'[j]
      BY <1>5, <2>1 DEF Enter, Collected, TypeOK
    <3> QED
      BY <3>1 DEF OnItsWay
  <2>2. CASE link[j] # u
    <3>1. pc[k] \in {"scan", "enter", "send"} /\ k \notin gaveUp
      BY <1>5 DEF Enter, TypeOK
    <3>2. Ahead => AheadNext
      BY <1>5, <2>2 DEF Enter, TypeOK, Ahead, AheadNext
    <3> QED
      BY <3>1, <3>2, <1>c
  <2> QED
    BY <2>1, <2>2
<1>6. ASSUME NEW j \in Job, SendLink(j) PROVE AheadNext \/ OnItsWay(u)'
  BY <1>6, <1>c DEF SendLink, TypeOK, Ahead, AheadNext
<1>7. ASSUME NEW j \in Job, Return(j) \/ Rescue(j) PROVE AheadNext \/ OnItsWay(u)'
  BY <1>7, <1>c DEF Return, Rescue, TypeOK, Ahead, AheadNext
<1>8. CASE Commit \/ Tick \/ Startup \/ UNCHANGED vars
  BY <1>8, <1>c DEF Commit, Tick, Startup, Boot, NewCache, StartEnqueue, vars, Ahead,
     AheadNext
<1> QED
  BY <1>0, <1>1, <1>2, <1>3, <1>4, <1>5, <1>6, <1>7, <1>8 DEF Next, Work, Done

\* Whoever was completed without giving up has left nothing behind.
LEMMA CompletedWalked ==
  ASSUME TypeOK, ControlInv, ScannedInv, [Next]_vars, NEW k \in Job,
         state'[k] = "completed", k \notin gaveUp', NEW u \in Found(k)
  PROVE  (state[k] = "completed" \/ OnItsWay(u)) /\ k \notin gaveUp
<1>1. u \in Url
  BY Constants
<1>2. k \notin gaveUp
  BY DEF Next, Work, Done, Startup, Boot, NewCache, StartEnqueue, Take, Load, Panic,
     CopyRaw, LookUp, Enter, SendLink, Return, Rescue, Commit, Tick, Crash, GiveUp,
     Fault, Goto, vars, job, worker, history, trouble
<1>3. CASE state[k] # "completed"
  <2>1. Return(k)
    BY <1>3 DEF TypeOK, Next, Work, Done, Startup, Boot, NewCache, StartEnqueue, Take,
       Load, Panic, CopyRaw, LookUp, Enter, SendLink, Return, Rescue, Commit, Tick,
       Crash, vars, job
  <2>2. pc[k] \in {"scan", "send"} /\ todo[k] = {}
    BY <1>2, <2>1 DEF Return, ControlInv
  <2> QED
    BY <1>1, <1>2, <2>2 DEF ScannedInv
<1> QED
  BY <1>2, <1>3

LEMMA WalkedStep ==
  TypeOK /\ ControlInv /\ ScannedInv /\ WalkedIsOffered /\ [Next]_vars
    => WalkedIsOffered'
<1> SUFFICES ASSUME TypeOK, ControlInv, ScannedInv, WalkedIsOffered, [Next]_vars,
                    crashes' = 0, NEW k \in Job, state'[k] = "completed",
                    k \notin gaveUp', NEW u \in Found(k)
             PROVE  OnItsWay(u)'
  BY DEF WalkedIsOffered
<1>1. u \in Url /\ crashes = 0 /\ ~Crash
  BY Constants, NoCrashYet
<1>2. (state[k] = "completed" \/ OnItsWay(u)) /\ k \notin gaveUp
  BY CompletedWalked
<1>3. OnItsWay(u)
  BY <1>1, <1>2 DEF WalkedIsOffered
<1> QED
  BY <1>1, <1>3, StaysOnItsWay

-----------------------------------------------------------------------------
(* What a crash loses.                                                     *)

\* What a worker has in hand comes from its page.
LEMMA FoundStep == TypeOK /\ FoundInv /\ [Next]_vars => FoundInv'
<1> SUFFICES ASSUME TypeOK, FoundInv, [Next]_vars, NEW k \in Job
             PROVE  /\ todo'[k] \subseteq Found(k) /\ links'[k] \subseteq Found(k)
                    /\ pc'[k] = "enter" => link'[k] \in Found(k)
  BY DEF FoundInv
<1> DEFINE Good == /\ todo'[k] \subseteq Found(k) /\ links'[k] \subseteq Found(k)
                   /\ pc'[k] = "enter" => link'[k] \in Found(k)
<1>a. /\ todo[k] \subseteq Found(k) /\ links[k] \subseteq Found(k)
      /\ pc[k] = "enter" => link[k] \in Found(k)
  BY DEF FoundInv
<1> USE <1>a DEF Goto, GiveUp, job, worker, history, trouble
<1>1. ASSUME NEW j \in Job, Take(j) \/ Load(j) \/ Panic(j) \/ Return(j) \/ Rescue(j)
      PROVE  Good
  BY <1>1 DEF Take, Load, Panic, Return, Rescue, Fault, TypeOK
<1>2. ASSUME NEW j \in Job, CopyRaw(j) PROVE Good
  BY <1>2 DEF CopyRaw, Fault, TypeOK
<1>3. ASSUME NEW j \in Job, LookUp(j) PROVE Good
  BY <1>3 DEF LookUp, TypeOK
<1>4. ASSUME NEW j \in Job, Enter(j) PROVE Good
  BY <1>4 DEF Enter, Collected, TypeOK
<1>5. ASSUME NEW j \in Job, SendLink(j) PROVE Good
  BY <1>5 DEF SendLink, TypeOK
<1>6. CASE Commit \/ Tick \/ Crash \/ Startup \/ UNCHANGED vars
  BY <1>6 DEF Commit, Tick, Crash, Startup, Boot, NewCache, StartEnqueue, vars
<1> QED
  BY <1>1, <1>2, <1>3, <1>4, <1>5, <1>6 DEF Next, Work, Done

\* A link is left behind only by a crash, and only by the one in the channel.
LEMMA LostComes ==
  ASSUME TypeOK, ControlInv, ScannedInv, FoundInv, [Next]_vars, NEW u \in Url,
         Walked(u)', ~OnItsWay(u)', ~ (Walked(u) /\ ~OnItsWay(u))
  PROVE  Crash /\ slot = Target(u)
<1>1. ASSUME NEW j \in Job, u \in Found(j)
      PROVE  /\ state'[j] = "completed" /\ j \notin gaveUp' /\ j \notin gaveUp
             /\ state[j] = "completed" \/ OnItsWay(u)
  BY <1>1, CompletedWalked DEF Walked
<1>2. OnItsWay(u)
  BY <1>1 DEF Walked
<1>3. Crash
  BY <1>2, StaysOnItsWay
<1>4. Target(u) \notin offered
  BY <1>3 DEF Crash, OnItsWay
<1>5. ASSUME NEW j \in Job, u \in links[j] PROVE FALSE
  <2>1. u \in Found(j) /\ pc[j] # "idle"
    BY <1>5 DEF FoundInv, TypeOK
  <2>2. state[j] = "running"
    BY <2>1 DEF TypeOK
  <2>3. state'[j] = "stuck"
    BY <1>3, <2>2 DEF Crash
  <2> QED
    BY <1>1, <2>1, <2>3
<1> QED
  BY <1>2, <1>3, <1>4, <1>5 DEF OnItsWay

\* Every crash is counted.
LEMMA CrashesCount ==
  ASSUME [Next]_vars, ~Crash
  PROVE  crashes' = crashes
BY DEF Next, Work, Done, Startup, Boot, NewCache, StartEnqueue, Take, Load, Panic, CopyRaw,
       LookUp, Enter, SendLink, Return, Rescue, Commit, Tick, Fault, vars, trouble

LEMMA LossStep ==
  TypeOK /\ ControlInv /\ ScannedInv /\ FoundInv /\ LossInv /\ [Next]_vars => LossInv'
<1> SUFFICES ASSUME TypeOK, ControlInv, ScannedInv, FoundInv, LossInv, [Next]_vars
             PROVE  LossInv'
  OBVIOUS
<1>0. /\ IsFiniteSet(Lost) /\ Cardinality(Lost) \in Nat /\ Cardinality(Lost) <= crashes
      /\ crashes \in Nat
  BY FS_CardinalityType DEF LossInv, CrashLosesOne, TypeOK
<1>1. ASSUME NEW t \in Lost', t \notin Lost
      PROVE  Crash /\ t = slot
  <2>1. PICK u \in Url : Walked(u)' /\ ~OnItsWay(u)' /\ t = Target(u)
    BY <1>1 DEF Lost
  <2>2. ~ (Walked(u) /\ ~OnItsWay(u))
    BY <1>1, <2>1 DEF Lost
  <2> QED
    BY <2>1, <2>2, LostComes
<1>2. CASE ~Crash
  <2>1. Lost' \in SUBSET Lost
    BY <1>1, <1>2
  <2>2. crashes' = crashes
    BY <1>2, CrashesCount
  <2>3. /\ IsFiniteSet(Lost') /\ Cardinality(Lost') \in Nat
        /\ Cardinality(Lost') <= Cardinality(Lost)
    BY <1>0, <2>1, FS_Subset, FS_CardinalityType
  <2> QED
    BY <1>0, <2>2, <2>3 DEF LossInv, CrashLosesOne
<1>3. CASE Crash
  <2>1. Lost' \in SUBSET (Lost \cup {slot})
    BY <1>1
  <2>2. /\ IsFiniteSet(Lost \cup {slot}) /\ Cardinality(Lost \cup {slot}) \in Nat
        /\ Cardinality(Lost \cup {slot}) <= Cardinality(Lost) + 1
    <3>1. /\ IsFiniteSet(Lost \cup {slot})
          /\ Cardinality(Lost \cup {slot}) = IF slot \in Lost THEN Cardinality(Lost)
                                                             ELSE Cardinality(Lost) + 1
      BY <1>0, FS_AddElement
    <3> QED
      BY <1>0, <3>1
  <2>3. /\ IsFiniteSet(Lost') /\ Cardinality(Lost') \in Nat
        /\ Cardinality(Lost') <= Cardinality(Lost \cup {slot})
    BY <2>1, <2>2, FS_Subset, FS_CardinalityType
  <2>4. crashes' = crashes + 1
    BY <1>3 DEF Crash
  <2> QED
    BY <1>0, <2>2, <2>3, <2>4 DEF LossInv, CrashLosesOne
<1> QED
  BY <1>2, <1>3

-----------------------------------------------------------------------------
(* The theorems.                                                           *)

LEMMA InitIInv == Init => IInv
<1> SUFFICES ASSUME Init PROVE IInv
  OBVIOUS
<1>1. TypeOK /\ ControlInv
  BY InitTypeOK DEF Init, ControlInv
<1>2. PoolInv
  <2>1. Working = {}
    BY DEF Init, Working
  <2> QED
    BY <2>1, FS_EmptySet, Constants DEF PoolInv
<1>3. EnteredInv
  BY DEF Init, EnteredInv
<1>4. ScannedInv /\ CachedIsOffered /\ WalkedIsOffered
  BY DEF Init, ScannedInv, CachedIsOffered, Cached, WalkedIsOffered
<1>5. FoundInv
  BY DEF Init, FoundInv
<1>6. LossInv
  <2>1. Lost = {} /\ crashes = 0
    BY DEF Init, Lost, Walked
  <2> QED
    BY <2>1, FS_EmptySet DEF LossInv, CrashLosesOne
<1> QED
  BY <1>1, <1>2, <1>3, <1>4, <1>5, <1>6 DEF IInv

LEMMA IInvStep == IInv /\ [Next]_vars => IInv'
<1> SUFFICES ASSUME IInv, [Next]_vars PROVE IInv'
  OBVIOUS
<1>1. TypeOK' /\ ControlInv'
  BY TypeStep, ControlStep DEF IInv
<1>2. PoolInv' /\ EnteredInv'
  BY PoolStep, EnteredStep DEF IInv
<1>3. ScannedInv' /\ CachedIsOffered' /\ WalkedIsOffered'
  BY ScannedStep, CachedStep, WalkedStep DEF IInv
<1>4. FoundInv' /\ LossInv'
  BY FoundStep, LossStep DEF IInv
<1> QED
  BY <1>1, <1>2, <1>3, <1>4 DEF IInv

\* The inductive invariant of walk holds in every reachable state.
THEOREM Invariance == Spec => []IInv
  BY InitIInv, IInvStep, PTL DEF Spec

\* Type correctness of walk.
THEOREM TypeCorrect == Spec => []TypeOK
<1>1. IInv => TypeOK
  BY DEF IInv
<1> QED
  BY <1>1, Invariance, PTL

\* Although the look into the cache and the entry are two steps, a link is entered
\* no more often than there are workers until it expires.
THEOREM OffersAreBounded == Spec => []OffersBounded
<1>1. IInv => OffersBounded
  <2> SUFFICES ASSUME IInv, NEW u \in Url PROVE entered[u] <= MaxWorkers
    BY DEF OffersBounded
  <2>1. /\ entered[u] \in Nat /\ ttl[u] \in Nat /\ MaxWorkers \in Nat
        /\ ttl[u] = 0 => entered[u] = 0
        /\ ttl[u] > 0 => entered[u] + Cardinality(Passed(u)) <= MaxWorkers
    BY Constants DEF IInv, TypeOK, EnteredInv
  <2>2. Cardinality(Passed(u)) \in Nat
    BY PassedAreFew DEF IInv
  <2> QED
    BY <2>1, <2>2
<1> QED
  BY <1>1, Invariance, PTL

\* The cache swallows no link: what it holds (walk/work.go:109) was offered to entree,
\* or is in the hands of a worker that will, however often the process has died.
THEOREM CachedOffered == Spec => []CachedIsOffered
<1>1. IInv => CachedIsOffered
  BY DEF IInv
<1> QED
  BY <1>1, Invariance, PTL

\* While the process lives, every link of a page whose job was completed and not
\* given up is offered or on its way, those left to other workers included.
THEOREM WalkedOffered == Spec => []WalkedIsOffered
<1>1. IInv => WalkedIsOffered
  BY DEF IInv
<1> QED
  BY <1>1, Invariance, PTL

\* A crash of walk loses one page at most of those that jobs found which were not given
\* up, for any number of jobs, links, workers and crashes: what the dead workers had
\* collected for others (walk/work.go:143) is found again.
THEOREM CrashLoss == Spec => []CrashLosesOne
<1>1. IInv => CrashLosesOne
  BY DEF IInv, LossInv
<1> QED
  BY <1>1, Invariance, PTL

-----------------------------------------------------------------------------
(* The channel and the goroutine behind it are an outbox.                  *)

\* History: what the Enqueue goroutine has committed, in its order.
VARIABLE outbox

Committing == outbox' = IF Commit THEN Append(outbox, slot) ELSE outbox

Out == INSTANCE Outbox WITH
  Message <- {Target(u) : u \in Url},
  Lossy <- {},
  inbox <- IF slot = NoPath THEN {} ELSE {slot},
  deaths <- crashes

\* Who touches the channel.
LEMMA SlotMoves ==
  ASSUME TypeOK, [Next]_vars
  PROVE  \/ UNCHANGED <<slot, crashes>>
         \/ slot = NoPath /\ slot' \in {Target(u) : u \in Url} /\ crashes' = crashes
         \/ Commit \/ Crash
<1> USE DEF GiveUp, Fault, job, worker, history, trouble
<1>1. ASSUME NEW j \in Job,
             Take(j) \/ Load(j) \/ Panic(j) \/ CopyRaw(j) \/ LookUp(j) \/ Enter(j) \/ Return(j)
               \/ Rescue(j)
      PROVE  UNCHANGED <<slot, crashes>>
  BY <1>1 DEF Take, Load, Panic, CopyRaw, LookUp, Enter, Return, Rescue
<1>2. ASSUME NEW j \in Job, SendLink(j)
      PROVE  slot = NoPath /\ slot' \in {Target(u) : u \in Url} /\ crashes' = crashes
  BY <1>2 DEF SendLink, TypeOK
<1>3. CASE Tick \/ Startup \/ Done \/ UNCHANGED vars
  BY <1>3 DEF Tick, Startup, Boot, NewCache, StartEnqueue, Done, vars
<1> QED
  BY <1>1, <1>2, <1>3 DEF Next, Work

LEMMA OutboxStep ==
  TypeOK /\ [Next]_vars /\ [Committing]_<<vars, outbox>> => [Out!OutNext]_(Out!outVars)
<1> SUFFICES ASSUME TypeOK, [Next]_vars, [Committing]_<<vars, outbox>>
             PROVE  [Out!OutNext]_(Out!outVars)
  OBVIOUS
<1> USE DEF Out!outVars
<1>0. /\ outbox' = IF Commit THEN Append(outbox, slot) ELSE outbox
      /\ slot \in {Target(u) : u \in Url} \cup {NoPath} /\ NoPath \notin {Target(u) : u \in Url}
  BY WalkAssumption DEF Committing, Commit, vars, TypeOK
<1>1. CASE Commit
  <2>1. slot \in {Target(u) : u \in Url} /\ slot # NoPath /\ slot' = NoPath /\ crashes' = crashes
    BY <1>0, <1>1 DEF Commit, trouble
  <2> QED
    BY <1>0, <1>1, <2>1 DEF Out!OutNext, Out!CommitIt
<1>2. CASE Crash
  <2>1. ~Commit /\ slot' = NoPath /\ crashes' = crashes + 1
    BY <1>2 DEF Crash, Commit
  <2> QED
    BY <1>0, <2>1 DEF Out!OutNext, Out!Die
<1>3. CASE ~Commit /\ UNCHANGED <<slot, crashes>>
  BY <1>0, <1>3
<1>4. CASE ~Commit /\ slot = NoPath /\ slot' \in {Target(u) : u \in Url} /\ crashes' = crashes
  BY <1>0, <1>4 DEF Out!OutNext, Out!TakeOne
<1> QED
  BY <1>1, <1>2, <1>3, <1>4, SlotMoves

\* The channel of walk (walk/work.go:143) with its goroutine, as this module
\* has them, is the outbox that Enqueue implements, and a sound one: a message that was
\* received is committed once, before the next is received, or lost in a crash.
THEOREM SlotIsOutbox ==
  Spec /\ outbox = << >> /\ [][Committing]_<<vars, outbox>> => Out!OutSpec
<1>1. Init /\ outbox = << >> => Out!OutInit
  BY DEF Init, Out!OutInit
<1> QED
  BY <1>1, OutboxStep, TypeCorrect, PTL DEF Spec, Out!OutSpec

=============================================================================
