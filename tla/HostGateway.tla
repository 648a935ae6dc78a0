---------------------------- MODULE HostGateway -----------------------------
(***************************************************************************)
(* cmd/fetch/host_gateway.go: the map from a host to the time of its last  *)
(* fetch, behind one RWMutex, that all fetch workers of a process share.   *)
(*                                                                         *)
(* A call of GoodToGo is three steps here, because other goroutines and    *)
(* the clock move between them: it takes the write lock, it reads the map  *)
(* and the clock (time.Since), and it reads the clock a second time        *)
(* (time.Now) to stamp the map.  HostExists and TimeRemaining are two      *)
(* steps: take the read lock, read and return.                             *)
(***************************************************************************)
EXTENDS Integers, Sequences, FiniteSets

CONSTANTS
  Host,         \* hosts
  Worker,       \* goroutines that call the gateway
  NoWorker,     \* "nobody holds the write lock"
  PoliteSleep,  \* politeSleep, in clock ticks
  MaxTime       \* bound on the clock

ASSUME GatewayAssumption ==
  /\ PoliteSleep \in Nat
  /\ MaxTime \in Nat
  /\ NoWorker \notin Worker

VARIABLES
  now,          \* the clock time.Now() reads
  last,         \* last[h]: the map; NotSeen when h is not a key of it
  writer,       \* the worker inside m.Lock(), or NoWorker
  readers,      \* the workers inside m.RLock()
  pc,           \* pc[w]: where worker w is in its call
  host,         \* host[w]: the argument of w's call
  grants,       \* history: grants[h], the stamps of the calls that returned true
  promise       \* history: promise[h], the latest time an answer of
                \*          TimeRemaining told a caller to wait for

vars == <<now, last, writer, readers, pc, host, grants, promise>>

NotSeen == -1

Location == {"idle", "check", "stamp", "exists", "remaining"}

Init ==
  /\ now = 0
  /\ last = [h \in Host |-> NotSeen]
  /\ writer = NoWorker
  /\ readers = {}
  /\ pc = [w \in Worker |-> "idle"]
  /\ host \in [Worker -> Host]
  /\ grants = [h \in Host |-> << >>]
  /\ promise = [h \in Host |-> 0]

-----------------------------------------------------------------------------
(* The mutex.                                                              *)

\* Seeded fault: the write lock is taken without waiting for its holder.
LockIgnoringWriter(w) ==
  /\ readers = {}
  /\ writer' = w

Lock(w) ==
  /\ writer = NoWorker
  /\ readers = {}
  /\ writer' = w

Unlock ==
  writer' = NoWorker

RLock(w) ==
  /\ writer = NoWorker
  /\ readers' = readers \cup {w}

RUnlock(w) ==
  readers' = readers \ {w}

-----------------------------------------------------------------------------
(* GoodToGo.                                                               *)

\* GoodToGo(h) is called and m.Lock() returns.
GoodToGoLock(w) ==
  /\ pc[w] = "idle"
  /\ Lock(w)
  /\ \E h \in Host : host' = [host EXCEPT ![w] = h]
  /\ pc' = [pc EXCEPT ![w] = "check"]
  /\ UNCHANGED <<now, last, readers, grants, promise>>

\* Seeded fault: the host is good to go once politeSleep has almost passed.
RestedOneTickEarly(h) ==
  last[h] # NotSeen /\ now - last[h] >= PoliteSleep

\* timeSinceLastHit > politeSleep, for a host that is in the map.
Rested(h) ==
  last[h] # NotSeen /\ now - last[h] > PoliteSleep

\* The host is in the map and it is too soon: return false.
GoodToGoRefuse(w) ==
  /\ pc[w] = "check"
  /\ last[host[w]] # NotSeen
  /\ ~Rested(host[w])
  /\ Unlock
  /\ pc' = [pc EXCEPT ![w] = "idle"]
  /\ UNCHANGED <<now, last, readers, host, grants, promise>>

\* The host is not in the map, or it has rested: go on to stamp it.
GoodToGoPass(w) ==
  /\ pc[w] = "check"
  /\ last[host[w]] = NotSeen \/ Rested(host[w])
  /\ pc' = [pc EXCEPT ![w] = "stamp"]
  /\ UNCHANGED <<now, last, writer, readers, host, grants, promise>>

\* Seeded fault: the stamp of a first call lies before the epoch of the clock.
StampBackdated(h) ==
  last' = [last EXCEPT ![h] = now - PoliteSleep - 1]

StampHost(h) ==
  last' = [last EXCEPT ![h] = now]

\* hsm.last[host] = time.Now(), return true, and the deferred unlock.
GoodToGoStamp(w) ==
  /\ pc[w] = "stamp"
  /\ StampHost(host[w])
  /\ grants' = [grants EXCEPT ![host[w]] = Append(@, now)]
  /\ Unlock
  /\ pc' = [pc EXCEPT ![w] = "idle"]
  /\ UNCHANGED <<now, readers, host, promise>>

-----------------------------------------------------------------------------
(* HostExists and TimeRemaining.                                           *)

ReadLock(w, to) ==
  /\ pc[w] = "idle"
  /\ RLock(w)
  /\ \E h \in Host : host' = [host EXCEPT ![w] = h]
  /\ pc' = [pc EXCEPT ![w] = to]
  /\ UNCHANGED <<now, last, writer, grants, promise>>

\* HostExists answers whether the host is in the map; it changes nothing.
HostExists(w) ==
  /\ pc[w] = "exists"
  /\ RUnlock(w)
  /\ pc' = [pc EXCEPT ![w] = "idle"]
  /\ UNCHANGED <<now, last, writer, host, grants, promise>>

\* Seeded fault: the wait is counted from now and not from the last hit.
UntilFromNow(h) ==
  IF last[h] = NotSeen THEN 0 ELSE PoliteSleep

\* time.Until(lastHit.Add(politeSleep)), never negative, 0 for an unknown host.
Until(h) ==
  IF last[h] # NotSeen /\ last[h] + PoliteSleep > now
    THEN last[h] + PoliteSleep - now
    ELSE 0

TimeRemaining(w) ==
  /\ pc[w] = "remaining"
  /\ RUnlock(w)
  /\ promise' = [promise EXCEPT ![host[w]] =
                   IF now + Until(host[w]) > @ THEN now + Until(host[w]) ELSE @]
  /\ pc' = [pc EXCEPT ![w] = "idle"]
  /\ UNCHANGED <<now, last, writer, host, grants>>

-----------------------------------------------------------------------------
Tick ==
  /\ now < MaxTime
  /\ now' = now + 1
  /\ UNCHANGED <<last, writer, readers, pc, host, grants, promise>>

Call(w) ==
  \/ GoodToGoLock(w)
  \/ GoodToGoRefuse(w)
  \/ GoodToGoPass(w)
  \/ GoodToGoStamp(w)
  \/ ReadLock(w, "exists")
  \/ HostExists(w)
  \/ ReadLock(w, "remaining")
  \/ TimeRemaining(w)

Next ==
  \/ Tick
  \/ \E w \in Worker : Call(w)

Spec == Init /\ [][Next]_vars

-----------------------------------------------------------------------------
(* What the gateway promises.                                              *)

TypeOK ==
  /\ now \in 0..MaxTime
  /\ last \in [Host -> Nat \cup {NotSeen}]
  /\ writer \in Worker \cup {NoWorker}
  /\ readers \subseteq Worker
  /\ pc \in [Worker -> Location]
  /\ host \in [Worker -> Host]
  /\ grants \in [Host -> Seq(Nat)]
  /\ promise \in [Host -> Nat]

\* Any two calls of GoodToGo that returned true for one host stamped it more
\* than politeSleep apart, whatever the other workers did in between.
PoliteSpacing ==
  \A h \in Host : \A i, j \in 1..Len(grants[h]) :
    i < j => grants[h][j] - grants[h][i] > PoliteSleep

\* What TimeRemaining answered is kept: after a caller was told that a host is
\* not ready before some time, no caller is granted the host before that time.
WaitIsHonoured ==
  [][\A h \in Host : grants'[h] # grants[h] => now >= promise[h]]_vars

\* The abstract gate, over this module's clock and grants.
Gate == INSTANCE PoliteGate WITH now <- now, grants <- grants

\* The gateway implements the abstract gate: under the map, the lock and the
\* two readings of the clock, every step is a grant, a tick, or invisible.
ImplementsPoliteGate == Gate!GateSpec

-----------------------------------------------------------------------------
(* The inductive invariant behind the three properties.                    *)

Writing(w) == pc[w] \in {"check", "stamp"}

Reading(w) == pc[w] \in {"exists", "remaining"}

\* At most one worker is inside the write lock, and no reader with it.
MutexInv ==
  /\ \A w \in Worker : Writing(w) <=> writer = w
  /\ \A w \in Worker : Reading(w) <=> w \in readers
  /\ writer # NoWorker => readers = {}

\* The map holds the stamp of the last grant, and no stamp is in the future.
LastIsGrant ==
  \A h \in Host :
    /\ last[h] = NotSeen <=> grants[h] = << >>
    /\ grants[h] # << >> => last[h] = grants[h][Len(grants[h])]
    /\ last[h] <= now
    /\ \A i \in 1..Len(grants[h]) : grants[h][i] <= last[h]

\* Between the two readings of the clock what the first one found stays true.
StampReady ==
  \A w \in Worker :
    pc[w] = "stamp" => last[host[w]] = NotSeen \/ Rested(host[w])

\* A promise never reaches beyond the end of the current polite window.
PromiseBound ==
  \A h \in Host :
    /\ last[h] = NotSeen => promise[h] <= now
    /\ last[h] # NotSeen =>
         promise[h] <= now \/ promise[h] <= last[h] + PoliteSleep

IInv ==
  /\ TypeOK
  /\ MutexInv
  /\ LastIsGrant
  /\ StampReady
  /\ PoliteSpacing
  /\ PromiseBound

=============================================================================
