------------------------- MODULE HostGatewayProofs --------------------------
(***************************************************************************)
(* The gateway keeps its promises for every set of hosts and workers, and  *)
(* every polite_sleep. IInv, defined beside the properties in HostGateway, *)
(* is inductive; the properties follow from it.                            *)
(***************************************************************************)
EXTENDS HostGateway, TLAPS

\* A stamp appended to a sequence of times: its length and its elements.
LEMMA AppendStamp ==
  ASSUME NEW s \in Seq(Nat), NEW t \in Nat
  PROVE  /\ Append(s, t) \in Seq(Nat)
         /\ Append(s, t) # << >>
         /\ Len(Append(s, t)) = Len(s) + 1
         /\ Append(s, t)[Len(s) + 1] = t
         /\ \A i \in 1..Len(s) : Append(s, t)[i] = s[i]
  OBVIOUS

\* A sequence of times is empty exactly when it has no last element.
LEMMA StampRange ==
  ASSUME NEW s \in Seq(Nat)
  PROVE  /\ Len(s) \in Nat
         /\ s = << >> <=> Len(s) = 0
         /\ \A i \in 1..Len(s) : s[i] \in Nat
  OBVIOUS

LEMMA InitIInv == Init => IInv
<1> SUFFICES ASSUME Init PROVE IInv
  OBVIOUS
<1> USE GatewayAssumption
<1>1. TypeOK
  BY DEF Init, TypeOK, Location, NotSeen
<1>2. MutexInv
  BY DEF Init, MutexInv, Writing, Reading
<1>3. LastIsGrant
  BY DEF Init, LastIsGrant, NotSeen
<1>4. StampReady /\ PoliteSpacing /\ PromiseBound
  BY DEF Init, StampReady, PoliteSpacing, PromiseBound, NotSeen
<1> QED
  BY <1>1, <1>2, <1>3, <1>4 DEF IInv

\* Every action keeps the types.
LEMMA TypeStep == TypeOK /\ [Next]_vars => TypeOK'
<1> SUFFICES ASSUME TypeOK, [Next]_vars PROVE TypeOK'
  OBVIOUS
<1> USE GatewayAssumption DEF TypeOK, Location, NotSeen
<1>1. CASE Tick
  BY <1>1 DEF Tick
<1>2. ASSUME NEW w \in Worker, GoodToGoLock(w) PROVE TypeOK'
  BY <1>2 DEF GoodToGoLock, Lock
<1>3. ASSUME NEW w \in Worker, GoodToGoRefuse(w) PROVE TypeOK'
  BY <1>3 DEF GoodToGoRefuse, Unlock
<1>4. ASSUME NEW w \in Worker, GoodToGoPass(w) PROVE TypeOK'
  BY <1>4 DEF GoodToGoPass
<1>5. ASSUME NEW w \in Worker, GoodToGoStamp(w) PROVE TypeOK'
  BY <1>5, AppendStamp DEF GoodToGoStamp, StampHost, Unlock
<1>6. ASSUME NEW w \in Worker, NEW to \in {"exists", "remaining"}, ReadLock(w, to)
      PROVE  TypeOK'
  BY <1>6 DEF ReadLock, RLock
<1>7. ASSUME NEW w \in Worker, HostExists(w) PROVE TypeOK'
  BY <1>7 DEF HostExists, RUnlock
<1>8. ASSUME NEW w \in Worker, TimeRemaining(w) PROVE TypeOK'
  BY <1>8 DEF TimeRemaining, RUnlock, Until
<1>9. CASE UNCHANGED vars
  BY <1>9 DEF vars
<1> QED
  BY <1>1, <1>2, <1>3, <1>4, <1>5, <1>6, <1>7, <1>8, <1>9 DEF Next, Call

\* Every action keeps the lock exclusive.
LEMMA MutexStep == TypeOK /\ MutexInv /\ [Next]_vars => MutexInv'
<1> SUFFICES ASSUME TypeOK, MutexInv, [Next]_vars PROVE MutexInv'
  OBVIOUS
<1> USE GatewayAssumption DEF TypeOK, Location, MutexInv, Writing, Reading
<1>1. CASE Tick
  BY <1>1 DEF Tick
<1>2. ASSUME NEW w \in Worker, GoodToGoLock(w) PROVE MutexInv'
  BY <1>2 DEF GoodToGoLock, Lock
<1>3. ASSUME NEW w \in Worker, GoodToGoRefuse(w) PROVE MutexInv'
  BY <1>3 DEF GoodToGoRefuse, Unlock
<1>4. ASSUME NEW w \in Worker, GoodToGoPass(w) PROVE MutexInv'
  BY <1>4 DEF GoodToGoPass
<1>5. ASSUME NEW w \in Worker, GoodToGoStamp(w) PROVE MutexInv'
  BY <1>5 DEF GoodToGoStamp, Unlock
<1>6. ASSUME NEW w \in Worker, NEW to \in {"exists", "remaining"}, ReadLock(w, to)
      PROVE  MutexInv'
  BY <1>6 DEF ReadLock, RLock
<1>7. ASSUME NEW w \in Worker, HostExists(w) PROVE MutexInv'
  BY <1>7 DEF HostExists, RUnlock
<1>8. ASSUME NEW w \in Worker, TimeRemaining(w) PROVE MutexInv'
  BY <1>8 DEF TimeRemaining, RUnlock
<1>9. CASE UNCHANGED vars
  BY <1>9 DEF vars
<1> QED
  BY <1>1, <1>2, <1>3, <1>4, <1>5, <1>6, <1>7, <1>8, <1>9 DEF Next, Call

\* The steps that leave the map and the grants alone keep what is said of them:
\* the clock only moves forward.
LEMMA QuietStep ==
  ASSUME TypeOK, LastIsGrant, PoliteSpacing,
         now' \in Nat, now' >= now, UNCHANGED <<last, grants>>
  PROVE  LastIsGrant' /\ PoliteSpacing'
<1>1. LastIsGrant'
  <2> SUFFICES ASSUME NEW h \in Host
               PROVE  /\ last[h] = NotSeen <=> grants[h] = << >>
                      /\ grants[h] # << >> => last[h] = grants[h][Len(grants[h])]
                      /\ last[h] <= now'
                      /\ \A i \in 1..Len(grants[h]) : grants[h][i] <= last[h]
    BY DEF LastIsGrant
  <2> last[h] \in Int /\ now \in Int
    BY GatewayAssumption DEF TypeOK, NotSeen
  <2> QED
    BY DEF LastIsGrant
<1>2. PoliteSpacing'
  BY DEF PoliteSpacing
<1> QED
  BY <1>1, <1>2

\* What a stamp does to the grants: only the host of the call gets a new one,
\* and it comes more than PoliteSleep after all that host had.
LEMMA StampStep ==
  ASSUME IInv, NEW w \in Worker, GoodToGoStamp(w)
  PROVE  LastIsGrant' /\ PoliteSpacing'
<1> DEFINE g == host[w]
<1> USE GatewayAssumption
<1>1. /\ TypeOK /\ LastIsGrant /\ PoliteSpacing /\ now \in Nat
      /\ g \in Host /\ now' = now
      /\ last' = [last EXCEPT ![g] = now]
      /\ grants' = [grants EXCEPT ![g] = Append(grants[g], now)]
  BY DEF IInv, TypeOK, GoodToGoStamp, StampHost
<1>2. last[g] = NotSeen \/ now - last[g] > PoliteSleep
  BY DEF IInv, StampReady, Rested, GoodToGoStamp
<1>3. /\ last'[g] = now
      /\ grants'[g] = Append(grants[g], now)
      /\ \A h \in Host : h # g => last'[h] = last[h] /\ grants'[h] = grants[h]
  BY <1>1 DEF TypeOK
<1>4. /\ grants[g] \in Seq(Nat)
      /\ grants'[g] # << >>
      /\ Len(grants'[g]) = Len(grants[g]) + 1
      /\ grants'[g][Len(grants[g]) + 1] = now
      /\ \A i \in 1..Len(grants[g]) : grants'[g][i] = grants[g][i]
  <2>1. grants[g] \in Seq(Nat)
    BY <1>1 DEF TypeOK
  <2> HIDE DEF g
  <2> QED
    BY <1>1, <1>3, <2>1, AppendStamp
<1>5. /\ Len(grants[g]) \in Nat
      /\ grants[g] = << >> <=> Len(grants[g]) = 0
      /\ \A i \in 1..Len(grants[g]) : grants[g][i] \in Nat
  BY <1>4, StampRange
<1>6. /\ last[g] = NotSeen <=> grants[g] = << >>
      /\ last[g] <= now
      /\ last[g] \in Int
      /\ \A i \in 1..Len(grants[g]) : grants[g][i] <= last[g]
  BY <1>1 DEF LastIsGrant, TypeOK, NotSeen
<1>7. \A i \in 1..Len(grants[g]) : now - grants[g][i] > PoliteSleep
  BY <1>1, <1>2, <1>5, <1>6
<1>8. LastIsGrant'
  <2> SUFFICES ASSUME NEW h \in Host
               PROVE  /\ last'[h] = NotSeen <=> grants'[h] = << >>
                      /\ grants'[h] # << >> => last'[h] = grants'[h][Len(grants'[h])]
                      /\ last'[h] <= now'
                      /\ \A i \in 1..Len(grants'[h]) : grants'[h][i] <= last'[h]
    BY DEF LastIsGrant
  <2>1. CASE h = g
    BY <2>1, <1>1, <1>3, <1>4, <1>5, <1>6 DEF NotSeen
  <2>2. CASE h # g
    BY <2>2, <1>1, <1>3 DEF LastIsGrant
  <2> QED
    BY <2>1, <2>2
<1>9. PoliteSpacing'
  <2> SUFFICES ASSUME NEW h \in Host,
                      NEW i \in 1..Len(grants'[h]), NEW j \in 1..Len(grants'[h]), i < j
               PROVE  grants'[h][j] - grants'[h][i] > PoliteSleep
    BY DEF PoliteSpacing
  <2>1. CASE h # g
    BY <2>1, <1>1, <1>3 DEF PoliteSpacing
  <2>2. CASE h = g /\ j = Len(grants[g]) + 1
    <3>1. i \in 1..Len(grants[g])
      BY <2>2, <1>4, <1>5
    <3>2. grants'[h][j] = now /\ grants'[h][i] = grants[g][i]
      BY <2>2, <3>1, <1>4
    <3> QED
      BY <3>1, <3>2, <1>7
  <2>3. CASE h = g /\ j # Len(grants[g]) + 1
    BY <2>3, <1>1, <1>4, <1>5 DEF PoliteSpacing
  <2> QED
    BY <2>1, <2>2, <2>3
<1> QED
  BY <1>8, <1>9

LEMMA GrantsStep == IInv /\ [Next]_vars => LastIsGrant' /\ PoliteSpacing'
<1> SUFFICES ASSUME IInv, [Next]_vars PROVE LastIsGrant' /\ PoliteSpacing'
  OBVIOUS
<1>1. TypeOK /\ LastIsGrant /\ PoliteSpacing /\ now \in Nat
  BY GatewayAssumption DEF IInv, TypeOK
<1>2. CASE \E w \in Worker : GoodToGoStamp(w)
  BY <1>2, StampStep
<1>3. CASE ~\E w \in Worker : GoodToGoStamp(w)
  <2>1. now' \in Nat /\ now' >= now /\ UNCHANGED <<last, grants>>
    BY <1>1, <1>3 DEF Next, Call, vars, Tick, GoodToGoLock, GoodToGoRefuse,
       GoodToGoPass, ReadLock, HostExists, TimeRemaining
  <2> QED
    BY <1>1, <2>1, QuietStep
<1> QED
  BY <1>2, <1>3

\* Between the check and the stamp nobody else can stamp the host.
LEMMA StampReadyStep == IInv /\ [Next]_vars => StampReady'
<1> SUFFICES ASSUME IInv, [Next]_vars, NEW v \in Worker, pc'[v] = "stamp"
             PROVE  last'[host'[v]] = NotSeen \/ Rested(host[v])'
  BY DEF StampReady
<1> USE GatewayAssumption DEF IInv, TypeOK, Location, NotSeen
<1>1. CASE Tick
  BY <1>1 DEF Tick, StampReady, Rested
<1>2. ASSUME NEW w \in Worker, GoodToGoLock(w)
      PROVE  last'[host'[v]] = NotSeen \/ Rested(host[v])'
  BY <1>2 DEF GoodToGoLock, StampReady, Rested
<1>3. ASSUME NEW w \in Worker, GoodToGoRefuse(w)
      PROVE  last'[host'[v]] = NotSeen \/ Rested(host[v])'
  BY <1>3 DEF GoodToGoRefuse, StampReady, Rested
<1>4. ASSUME NEW w \in Worker, GoodToGoPass(w)
      PROVE  last'[host'[v]] = NotSeen \/ Rested(host[v])'
  BY <1>4 DEF GoodToGoPass, StampReady, Rested
<1>5. ASSUME NEW w \in Worker, GoodToGoStamp(w)
      PROVE  last'[host'[v]] = NotSeen \/ Rested(host[v])'
  <2>1. writer = w
    BY <1>5 DEF GoodToGoStamp, MutexInv, Writing
  <2>2. v # w => pc[v] = "stamp"
    BY <1>5 DEF GoodToGoStamp
  <2>3. pc'[w] = "idle"
    BY <1>5 DEF GoodToGoStamp
  <2> QED
    BY <2>1, <2>2, <2>3 DEF MutexInv, Writing
<1>6. ASSUME NEW w \in Worker, NEW to \in {"exists", "remaining"}, ReadLock(w, to)
      PROVE  last'[host'[v]] = NotSeen \/ Rested(host[v])'
  BY <1>6 DEF ReadLock, StampReady, Rested
<1>7. ASSUME NEW w \in Worker, HostExists(w)
      PROVE  last'[host'[v]] = NotSeen \/ Rested(host[v])'
  BY <1>7 DEF HostExists, StampReady, Rested
<1>8. ASSUME NEW w \in Worker, TimeRemaining(w)
      PROVE  last'[host'[v]] = NotSeen \/ Rested(host[v])'
  BY <1>8 DEF TimeRemaining, StampReady, Rested
<1>9. CASE UNCHANGED vars
  BY <1>9 DEF vars, StampReady, Rested
<1> QED
  BY <1>1, <1>2, <1>3, <1>4, <1>5, <1>6, <1>7, <1>8, <1>9 DEF Next, Call

\* A stamp comes when every promise about its host has run out, so that the new
\* polite window again covers all promises.
LEMMA StampAfterPromise ==
  ASSUME IInv, NEW w \in Worker, GoodToGoStamp(w)
  PROVE  promise[host[w]] <= now
<1> USE GatewayAssumption DEF IInv, TypeOK, NotSeen
<1>1. last[host[w]] = NotSeen \/ now - last[host[w]] > PoliteSleep
  BY DEF StampReady, Rested, GoodToGoStamp
<1> QED
  BY <1>1 DEF PromiseBound

LEMMA PromiseStep == IInv /\ [Next]_vars => PromiseBound'
<1> SUFFICES ASSUME IInv, [Next]_vars, NEW h \in Host
             PROVE  /\ last'[h] = NotSeen => promise'[h] <= now'
                    /\ last'[h] # NotSeen =>
                         promise'[h] <= now' \/ promise'[h] <= last'[h] + PoliteSleep
  BY DEF PromiseBound
<1> USE GatewayAssumption DEF IInv, TypeOK, NotSeen
<1>1. /\ last[h] = NotSeen => promise[h] <= now
      /\ last[h] # NotSeen =>
           promise[h] <= now \/ promise[h] <= last[h] + PoliteSleep
  BY DEF PromiseBound
<1>2. ASSUME NEW w \in Worker, GoodToGoStamp(w)
      PROVE  promise'[h] <= now' \/ (last'[h] = last[h] /\ promise'[h] = promise[h] /\ now' = now)
  BY <1>2, StampAfterPromise DEF GoodToGoStamp, StampHost
<1>3. ASSUME NEW w \in Worker, TimeRemaining(w)
      PROVE  /\ last'[h] = NotSeen => promise'[h] <= now'
             /\ last'[h] # NotSeen =>
                  promise'[h] <= now' \/ promise'[h] <= last'[h] + PoliteSleep
  BY <1>1, <1>3 DEF TimeRemaining, Until
<1>4. CASE /\ ~\E w \in Worker : GoodToGoStamp(w)
           /\ ~\E w \in Worker : TimeRemaining(w)
  <2>1. now' \in Nat /\ now' >= now /\ UNCHANGED <<last, promise>>
    BY <1>4 DEF Next, Call, vars, Tick, GoodToGoLock, GoodToGoRefuse,
       GoodToGoPass, ReadLock, HostExists
  <2> QED
    BY <1>1, <2>1
<1> QED
  BY <1>1, <1>2, <1>3, <1>4

LEMMA IInvStep == IInv /\ [Next]_vars => IInv'
<1> SUFFICES ASSUME IInv, [Next]_vars PROVE IInv'
  OBVIOUS
<1>1. TypeOK' /\ MutexInv'
  BY TypeStep, MutexStep DEF IInv
<1>2. LastIsGrant' /\ PoliteSpacing'
  BY GrantsStep
<1>3. StampReady' /\ PromiseBound'
  BY StampReadyStep, PromiseStep
<1> QED
  BY <1>1, <1>2, <1>3 DEF IInv

\* The inductive invariant holds in every reachable state.
THEOREM Invariance == Spec => []IInv
  BY InitIInv, IInvStep, PTL DEF Spec

\* Type correctness of the gateway, for every host and worker set.
THEOREM TypeCorrect == Spec => []TypeOK
<1>1. IInv => TypeOK
  BY DEF IInv
<1> QED
  BY <1>1, Invariance, PTL

\* GoodToGo never returns true twice for a host within politeSleep, however its
\* callers interleave and whenever the clock moves inside a call.
THEOREM Polite == Spec => []PoliteSpacing
<1>1. IInv => PoliteSpacing
  BY DEF IInv
<1> QED
  BY <1>1, Invariance, PTL

\* A caller that was told how long to wait is never overtaken by a grant.
THEOREM WaitHonoured == Spec => WaitIsHonoured
<1>1. IInv /\ [Next]_vars =>
        [\A h \in Host : grants'[h] # grants[h] => now >= promise[h]]_vars
  <2> SUFFICES ASSUME IInv, [Next]_vars, NEW h \in Host, grants'[h] # grants[h]
               PROVE  now >= promise[h]
    OBVIOUS
  <2>1. PICK w \in Worker : GoodToGoStamp(w)
    BY DEF Next, Call, vars, Tick, GoodToGoLock, GoodToGoRefuse,
       GoodToGoPass, ReadLock, HostExists, TimeRemaining
  <2>2. h = host[w]
    BY <2>1 DEF GoodToGoStamp, IInv, TypeOK
  <2> QED
    BY <2>1, <2>2, StampAfterPromise, GatewayAssumption DEF IInv, TypeOK
<1> QED
  BY <1>1, Invariance, PTL DEF Spec, WaitIsHonoured

-----------------------------------------------------------------------------
(* HostGateway implements PoliteGate.                                      *)

LEMMA GateInitially == Init => Gate!GateInit
  BY DEF Init, Gate!GateInit

LEMMA GateStep == IInv /\ [Next]_vars => [Gate!GateNext]_(Gate!gateVars)
<1> SUFFICES ASSUME IInv, [Next]_vars PROVE [Gate!GateNext]_(Gate!gateVars)
  OBVIOUS
<1> USE GatewayAssumption DEF Gate!gateVars
<1>1. ASSUME NEW w \in Worker, GoodToGoStamp(w) PROVE Gate!GateNext
  <2>1. host[w] \in Host
    BY DEF IInv, TypeOK
  <2>2. last[host[w]] = NotSeen \/ now - last[host[w]] > PoliteSleep
    BY <1>1 DEF IInv, StampReady, Rested, GoodToGoStamp
  <2>3. Gate!Free(host[w])
    BY <2>1, <2>2 DEF Gate!Free, IInv, LastIsGrant
  <2> QED
    BY <1>1, <2>1, <2>3 DEF GoodToGoStamp, Gate!GateNext, Gate!Grant
<1>2. CASE Tick
  BY <1>2 DEF Tick, Gate!GateNext, Gate!Elapse, IInv, TypeOK
<1>3. CASE ~Tick /\ ~\E w \in Worker : GoodToGoStamp(w)
  BY <1>3 DEF Next, Call, vars, GoodToGoLock, GoodToGoRefuse,
     GoodToGoPass, ReadLock, HostExists, TimeRemaining
<1> QED
  BY <1>1, <1>2, <1>3

\* The gateway with its lock and its two clock readings implements the abstract
\* gate, in which a grant is one indivisible step.
THEOREM Implements == Spec => ImplementsPoliteGate
  BY GateInitially, GateStep, Invariance, PTL
     DEF Spec, ImplementsPoliteGate, Gate!GateSpec
=============================================================================
