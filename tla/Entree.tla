------------------------------- MODULE Entree -------------------------------
(***************************************************************************)
(* cmd/entree: the service that decides which URLs come in the door.       *)
(*                                                                         *)
(* A job of the `entree` queue names a host, a path, whether it is a full  *)
(* crawl and whether it has a hall pass.  A worker decides, against the    *)
(* hosts and guestbook tables, whether the page is due; if it is, the      *)
(* worker writes a new deadline into the guestbook and hands a fetch job   *)
(* to the Enqueue goroutine of the process.                                *)
(*                                                                         *)
(* Each database statement is a step of its own: nothing in the code puts  *)
(* two of them into one transaction, and many workers run at once.  The    *)
(* process may die between any two steps; River then rescues the job and   *)
(* runs it again from the start.  Time is counted in days.                 *)
(***************************************************************************)
EXTENDS Integers, FiniteSets

CONSTANTS
  Host,         \* hosts that jobs name
  Known,        \* the hosts FQDNToDomain64 can translate
  Allowed,      \* the hosts of allowed_hosts: they have a row in table hosts
  Path,         \* clean, non-empty paths
  Root,         \* the path "/"
  Job,          \* job ids of the entree queue
  NoJob,        \* "the Enqueue goroutine holds no message"
  Never,        \* a null last_fetched
  Request,      \* the arguments a job may have
  Period,       \* Period[h]: GetNextFetch, in days from now
  StartupDays,  \* the 30 days main() adds for every allowed host
  MaxWorkers,   \* MaxWorkers of the entree queue
  DBFaults,     \* TRUE: single database statements may fail
  MaxDay,       \* bound on the clock
  MaxCrashes    \* bound on the number of crashes

RawPath == Path \cup {"", " "}

ASSUME EntreeAssumption ==
  /\ Allowed \subseteq Known
  /\ Known \subseteq Host
  /\ Root \in Path
  /\ "" \notin Path /\ " " \notin Path
  /\ NoJob \notin Job
  /\ Never \notin Int
  /\ Request # {}
  /\ Request \subseteq [host: Host, path: RawPath, full: BOOLEAN, pass: BOOLEAN]
  /\ Period \in [Host -> Nat \ {0}]
  /\ StartupDays \in Nat \ {0}
  /\ MaxWorkers \in Nat \ {0}
  /\ DBFaults \in BOOLEAN
  /\ MaxDay \in Nat
  /\ MaxCrashes \in Nat

VARIABLES
  day,        \* the clock
  phase,      \* the process: "down", "nodb", "hosts" or "up"
  pending,    \* allowed hosts main() has still to upsert
  hostNext,   \* hosts.next_fetch
  guest,      \* guest[h][p]: the row of the guestbook
  state,      \* state[j]: the job in River's table
  arg,        \* arg[j]: its arguments
  pc,         \* pc[j]: the statement the worker of j runs next
  slot,       \* the job whose message the Enqueue goroutine holds, or NoJob
  queued,     \* queued[j]: fetch jobs committed for j and not yet taken up
  fetching,   \* fetching[j]: a fetch worker has the content of j's page
  crashes     \* number of crashes so far

(* History: what has happened, for the properties.                         *)
VARIABLES
  burst,      \* burst[h][p]: single no-pass jobs accepted since p was last due
  awaiting,   \* awaiting[h][p]: accepted, and nobody has fetched it since
  due,        \* due[h][p]: what became of p since a full pass on h reset it
  accepted,   \* jobs that moved the deadline of their page, in some attempt
  handed      \* jobs whose message reached the Enqueue goroutine

tables == <<hostNext, guest>>
process == <<phase, pending, crashes>>
fetchVars == <<queued, fetching>>
history == <<burst, awaiting, due, accepted, handed>>
vars == <<day, process, tables, state, arg, pc, slot, fetchVars, history>>

NoRow == [in |-> FALSE, next |-> 0, last |-> Never, modified |-> FALSE]

\* A row as a fetch on day d leaves it.
FetchedRow(h, d) ==
  [in |-> TRUE, next |-> d + Period[h], last |-> d, modified |-> TRUE]

Row == [in: BOOLEAN, next: Int, last: Int \cup {Never}, modified: BOOLEAN]

JobState == {"unused", "available", "running", "stuck", "completed"}

\* A page no pass has reset, or that was taken up since; one that waits for its
\* fetch; one whose row a fetch with content from before the pass has written;
\* one whose message died with the process.
Pass == {"none", "reset", "overwritten", "orphaned"}

Step == {"idle", "guestbook", "page", "host", "resetHost", "resetPages",
         "accept", "send", "return", "panic"}

-----------------------------------------------------------------------------
(* The job's arguments.                                                    *)

\* strings.TrimSpace, and "/" for a path that was only blanks.
Clean(path) == IF path = " " THEN Root ELSE path

HostOf(j) == arg[j].host
PathOf(j) == Clean(arg[j].path)

IsSingleNoPass(j) == ~arg[j].full /\ ~arg[j].pass
IsFullWithPass(j) == arg[j].full /\ arg[j].pass

\* The job has a page to decide about: NewEntreeCheck succeeds.
HasCheck(j) == arg[j].path # "" /\ HostOf(j) \in Known

Working == {j \in Job : pc[j] # "idle"}

\* time.Now().After(next_fetch) is false: the deadline has not passed.
Fresh(h, p) == guest[h][p].in /\ guest[h][p].next >= day

-----------------------------------------------------------------------------
\* What an earlier life of the system can have left of a page: nothing, a fetch
\* of today, or a fetch whose deadline was yesterday.
StartRow(h) ==
  {NoRow, FetchedRow(h, 0), FetchedRow(h, -1 - Period[h])}

Init ==
  /\ day = 0
  /\ phase = "up"
  /\ pending = {}
  /\ hostNext = [h \in Allowed |-> StartupDays]
  /\ guest \in [Host -> [Path -> UNION {StartRow(h) : h \in Host}]]
  /\ \A h \in Host, p \in Path :
       guest[h][p] \in (IF h \in Allowed THEN StartRow(h) ELSE {NoRow})
  /\ state = [j \in Job |-> "unused"]
  /\ arg = [j \in Job |-> CHOOSE r \in Request : TRUE]
  /\ pc = [j \in Job |-> "idle"]
  /\ slot = NoJob
  /\ queued = [j \in Job |-> 0]
  /\ fetching = [j \in Job |-> "no"]
  /\ crashes = 0
  /\ burst = [h \in Host |-> [p \in Path |-> 0]]
  /\ awaiting = [h \in Host |-> [p \in Path |-> FALSE]]
  /\ due = [h \in Host |-> [p \in Path |-> "none"]]
  /\ accepted = {}
  /\ handed = {}

Goto(j, step) == pc' = [pc EXCEPT ![j] = step]

\* admin, walk or a schedule inserts a job.
Submit(j) ==
  /\ state[j] = "unused"
  /\ \E r \in Request : arg' = [arg EXCEPT ![j] = r]
  /\ state' = [state EXCEPT ![j] = "available"]
  /\ UNCHANGED <<day, process, tables, pc, slot, fetchVars, history>>

-----------------------------------------------------------------------------
(* Work and EvaluateEntree.                                                *)

\* The first statement of EvaluateEntree for the kind of job.
FirstStep(j) ==
  IF ~HasCheck(j) THEN "return"
  ELSE IF phase = "nodb" THEN "panic"
  ELSE IF IsFullWithPass(j) THEN "resetHost"
  ELSE IF IsSingleNoPass(j) THEN "guestbook"
  ELSE IF arg[j].full THEN "host"
  ELSE "accept"

WorkerFree == Cardinality(Working) < MaxWorkers

\* A worker picks the job up.  The queues are started before the database
\* connection is: until then every job that has a check panics.
Start(j) ==
  /\ phase # "down"
  /\ state[j] = "available"
  /\ WorkerFree
  /\ state' = [state EXCEPT ![j] = "running"]
  /\ Goto(j, FirstStep(j))
  /\ UNCHANGED <<day, process, tables, arg, slot, fetchVars, history>>

\* River recovers the panic of a worker and schedules a retry.
Panic(j) ==
  /\ pc[j] = "panic"
  /\ Goto(j, "idle")
  /\ state' = [state EXCEPT ![j] = "available"]
  /\ UNCHANGED <<day, process, tables, arg, slot, fetchVars, history>>

\* isInGuestbook: is there any row of the host?  (The path is not asked for.)
CheckEntryExists(j) ==
  /\ pc[j] = "guestbook"
  /\ Goto(j, IF \E p \in Path : guest[HostOf(j)][p].in THEN "page" ELSE "host")
  /\ UNCHANGED <<day, process, tables, state, arg, slot, fetchVars, history>>

\* Seeded fault: a row is taken as due whatever its next_fetch says.
AlwaysAfterGuestbook(h, p) == TRUE

\* No row, or the row's deadline has passed.
AfterGuestbookNextFetch(h, p) == ~Fresh(h, p)

\* CheckIfAfterGuestbookNextFetch; an error of any kind counts as "no row".
GetGuestbookEntry(j) ==
  /\ pc[j] = "page"
  /\ \/ Goto(j, IF AfterGuestbookNextFetch(HostOf(j), PathOf(j))
                  THEN "accept" ELSE "return")
     \/ DBFaults /\ Goto(j, "accept")
  /\ UNCHANGED <<day, process, tables, state, arg, slot, fetchVars, history>>

\* The host has a row and its deadline has passed.
AfterHostNextFetch(h) == h \in Allowed /\ day > hostNext[h]

\* CheckIfAfterHostNextFetch; an error of any kind counts as "not due".
GetHostNextFetch(j) ==
  /\ pc[j] = "host"
  /\ \/ Goto(j, IF AfterHostNextFetch(HostOf(j)) THEN "accept" ELSE "return")
     \/ DBFaults /\ Goto(j, "return")
  /\ UNCHANGED <<day, process, tables, state, arg, slot, fetchVars, history>>

\* SetHostNextFetchToYesterday; an error is only logged.
SetHostNextFetchToYesterday(j) ==
  /\ pc[j] = "resetHost"
  /\ \/ hostNext' = [h \in Allowed |->
                       IF h = HostOf(j) THEN day - 1 ELSE hostNext[h]]
     \/ DBFaults /\ UNCHANGED hostNext
  /\ Goto(j, "resetPages")
  /\ UNCHANGED <<day, process, guest, state, arg, slot, fetchVars, history>>

\* Seeded fault: the deadlines are set to today, which is not yet past.
ResetToToday(row) == IF row.in THEN [row EXCEPT !.next = day] ELSE row

ResetToYesterday(row) == IF row.in THEN [row EXCEPT !.next = day - 1] ELSE row

\* SetGuestbookFetchToYesterdayForHost: every row of the host.  Fetches that
\* already hold a page of the host now hold content from before the pass.
SetGuestbookFetchToYesterdayForHost(j) ==
  LET h == HostOf(j) IN
  /\ pc[j] = "resetPages"
  /\ guest' = [guest EXCEPT ![h] = [p \in Path |-> ResetToYesterday(@[p])]]
  /\ Goto(j, "accept")
  /\ due' = [due EXCEPT ![h] =
               [p \in Path |-> IF guest[h][p].in THEN "reset" ELSE @[p]]]
  /\ burst' = [burst EXCEPT ![h] = [p \in Path |-> 0]]
  /\ fetching' = [k \in Job |->
                    IF fetching[k] # "no" /\ HostOf(k) = h THEN "stale" ELSE fetching[k]]
  /\ UNCHANGED <<day, process, hostNext, state, arg, slot, queued, awaiting, accepted, handed>>

\* Seeded fault: the statement leaves next_fetch null.
UpsertedWithoutDeadline(h, row) ==
  [in |-> TRUE, next |-> Never, last |-> row.last, modified |-> FALSE]

\* UpdateGuestbookNextFetch.  An insert leaves last_fetched and last_modified
\* null; an update of a row sets last_fetched to now, and overwrites what the
\* last fetch found with the defaults of the columns.
Upserted(h, row) ==
  [in |-> TRUE, next |-> day + Period[h],
   last |-> IF row.in THEN day ELSE Never, modified |-> FALSE]

UpdateGuestbookNextFetch(j) ==
  LET h == HostOf(j)
      p == PathOf(j)
  IN
  /\ pc[j] = "accept"
  /\ guest' = [guest EXCEPT ![h][p] = Upserted(h, @)]
  /\ Goto(j, "send")
  /\ awaiting' = [awaiting EXCEPT ![h][p] = TRUE]
  /\ burst' = [burst EXCEPT ![h][p] =
                 IF ~Fresh(h, p) THEN (IF IsSingleNoPass(j) THEN 1 ELSE 0)
                 ELSE IF IsSingleNoPass(j) THEN @ + 1 ELSE @]
  /\ accepted' = accepted \cup {j}
  /\ UNCHANGED <<day, process, hostNext, state, arg, slot, fetchVars, due, handed>>

\* The same statement fails: the error is logged and the fetch is sent anyway.
UpdateGuestbookFails(j) ==
  /\ DBFaults
  /\ pc[j] = "accept"
  /\ Goto(j, "send")
  /\ UNCHANGED <<day, process, tables, state, arg, slot, fetchVars, history>>

SlotFree == phase = "up" /\ slot = NoJob

\* ChQSHP <- fetch: the channel is unbuffered, so the send completes when the
\* Enqueue goroutine, once it is started, has no other message in its hands.
Send(j) ==
  /\ pc[j] = "send"
  /\ SlotFree
  /\ slot' = j
  /\ handed' = handed \cup {j}
  /\ Goto(j, "return")
  /\ UNCHANGED <<day, process, tables, state, arg, fetchVars, burst, awaiting, due, accepted>>

\* Seeded fault: a worker reports its job before it has sent the fetch on.
ReturnBeforeSend(j) == pc[j] \in {"send", "return"}

MayReturn(j) == pc[j] = "return"

\* Work returns nil and River marks the job as completed.
Return(j) ==
  /\ MayReturn(j)
  /\ Goto(j, "idle")
  /\ state' = [state EXCEPT ![j] = "completed"]
  /\ UNCHANGED <<day, process, tables, arg, slot, fetchVars, history>>

\* The Enqueue goroutine commits the fetch job it was handed.
Commit ==
  /\ phase = "up"
  /\ slot # NoJob
  /\ queued' = [queued EXCEPT ![slot] = @ + 1]
  /\ slot' = NoJob
  /\ UNCHANGED <<day, process, tables, state, arg, pc, fetching, history>>

-----------------------------------------------------------------------------
(* The process dies (a Fatal on a failed statement or a failed commit, a   *)
(* panic outside a worker, a redeploy) and starts again.                   *)

\* The process holds the message of a fetch of the page: a worker that has
\* accepted it is about to send, or the Enqueue goroutine is about to commit.
InHands(h, p) ==
  \E j \in Job :
    /\ HasCheck(j) /\ HostOf(j) = h /\ PathOf(j) = p
    /\ pc[j] = "send" \/ slot = j

\* What dies with the process is what its workers and its goroutine held.
Crash ==
  /\ phase # "down"
  /\ crashes < MaxCrashes
  /\ phase' = "down"
  /\ pending' = {}
  /\ crashes' = crashes + 1
  /\ state' = [j \in Job |-> IF state[j] = "running" THEN "stuck" ELSE state[j]]
  /\ pc' = [j \in Job |-> "idle"]
  /\ slot' = NoJob
  /\ due' = [h \in Host |-> [p \in Path |->
               IF due[h][p] = "reset" /\ InHands(h, p) THEN "orphaned" ELSE due[h][p]]]
  /\ UNCHANGED <<day, tables, arg, fetchVars, burst, awaiting, accepted, handed>>

\* InitializeQueues: workers run from here on, without a database connection.
Boot ==
  /\ phase = "down"
  /\ phase' = "nodb"
  /\ UNCHANGED <<day, pending, crashes, tables, state, arg, pc, slot, fetchVars, history>>

ConnectDB ==
  /\ phase = "nodb"
  /\ phase' = "hosts"
  /\ pending' = Allowed
  /\ UNCHANGED <<day, crashes, tables, state, arg, pc, slot, fetchVars, history>>

\* main() gives every allowed host a new deadline, whatever its old one was; an
\* error is only logged.
UpsertUniqueHost(h) ==
  /\ phase = "hosts"
  /\ h \in pending
  /\ \/ hostNext' = [hostNext EXCEPT ![h] = day + StartupDays]
     \/ DBFaults /\ UNCHANGED hostNext
  /\ pending' = pending \ {h}
  /\ UNCHANGED <<day, phase, crashes, guest, state, arg, pc, slot, fetchVars, history>>

\* Seeded fault: the goroutine that empties the channel is not started.
EnqueueForgotten == FALSE /\ UNCHANGED vars

\* go queueing.Enqueue(ChQSHP), once the hosts are loaded.
StartEnqueue ==
  /\ phase = "hosts"
  /\ pending = {}
  /\ phase' = "up"
  /\ UNCHANGED <<day, pending, crashes, tables, state, arg, pc, slot, fetchVars, history>>

\* River's rescuer makes a job available again whose worker is gone.
Rescue(j) ==
  /\ phase # "down"
  /\ state[j] = "stuck"
  /\ state' = [state EXCEPT ![j] = "available"]
  /\ UNCHANGED <<day, process, tables, arg, pc, slot, fetchVars, history>>

-----------------------------------------------------------------------------
(* The part of the fetch service that entree sees: it works the fetch jobs *)
(* and writes the guestbook after it got the content.  (Module Fetch has   *)
(* the whole handler.)                                                     *)

\* Somebody looks at the page now: whoever accepted it has had an answer, and
\* so has the last full pass.
TakenUp(h, p) ==
  /\ awaiting' = [awaiting EXCEPT ![h][p] = FALSE]
  /\ due' = [due EXCEPT ![h][p] = "none"]

FetchRead(j) ==
  /\ queued[j] > 0
  /\ fetching[j] = "no"
  /\ queued' = [queued EXCEPT ![j] = @ - 1]
  /\ fetching' = [fetching EXCEPT ![j] = "read"]
  /\ TakenUp(HostOf(j), PathOf(j))
  /\ UNCHANGED <<day, process, tables, state, arg, pc, slot, burst, accepted, handed>>

\* The page is rejected, not indexable, too large or too small: job consumed.
FetchDrop(j) ==
  /\ queued[j] > 0
  /\ queued' = [queued EXCEPT ![j] = @ - 1]
  /\ TakenUp(HostOf(j), PathOf(j))
  /\ UNCHANGED <<day, process, tables, state, arg, pc, slot, fetching, burst, accepted, handed>>

\* UpdateGuestbookFetch, after the content of the page was read.
FetchRecord(j) ==
  LET h == HostOf(j)
      p == PathOf(j)
  IN
  /\ fetching[j] # "no"
  /\ guest' = [guest EXCEPT ![h][p] = FetchedRow(h, day)]
  /\ fetching' = [fetching EXCEPT ![j] = "no"]
  /\ due' = [due EXCEPT ![h][p] =
               IF @ = "reset" /\ fetching[j] = "stale" THEN "overwritten" ELSE @]
  /\ burst' = [burst EXCEPT ![h][p] = IF Fresh(h, p) THEN @ ELSE 0]
  /\ UNCHANGED <<day, process, hostNext, state, arg, pc, slot, queued, awaiting, accepted, handed>>

-----------------------------------------------------------------------------
Tick ==
  /\ day < MaxDay
  /\ day' = day + 1
  /\ UNCHANGED <<process, tables, state, arg, pc, slot, fetchVars, history>>

\* Every job is completed and every fetch recorded: the system may rest.
Done ==
  /\ day = MaxDay
  /\ \A j \in Job : state[j] = "completed" /\ queued[j] = 0 /\ fetching[j] = "no"
  /\ UNCHANGED vars

Work(j) ==
  \/ Start(j)
  \/ Panic(j)
  \/ CheckEntryExists(j)
  \/ GetGuestbookEntry(j)
  \/ GetHostNextFetch(j)
  \/ SetHostNextFetchToYesterday(j)
  \/ SetGuestbookFetchToYesterdayForHost(j)
  \/ UpdateGuestbookNextFetch(j)
  \/ UpdateGuestbookFails(j)
  \/ Send(j)
  \/ Return(j)

Startup ==
  \/ Boot
  \/ ConnectDB
  \/ \E h \in Allowed : UpsertUniqueHost(h)
  \/ StartEnqueue

Fetch(j) == FetchRead(j) \/ FetchDrop(j) \/ FetchRecord(j)

Next ==
  \/ \E j \in Job : Submit(j) \/ Work(j) \/ Rescue(j) \/ Fetch(j)
  \/ Commit
  \/ Crash
  \/ Startup
  \/ Tick
  \/ Done

Spec == Init /\ [][Next]_vars

\* River keeps handing out jobs and rescuing them, running goroutines make
\* progress, a process that died is started again.  Start and Send are strongly
\* fair: River fetches the oldest available job first, and a Go channel serves
\* its blocked senders in order.  Nothing forces a crash, a submission or the
\* clock.
Fairness ==
  /\ \A j \in Job : WF_vars(Work(j)) /\ SF_vars(Start(j)) /\ SF_vars(Send(j))
  /\ \A j \in Job : WF_vars(Rescue(j)) /\ WF_vars(Fetch(j))
  /\ WF_vars(Commit)
  /\ WF_vars(Startup)

FairSpec == Spec /\ Fairness

-----------------------------------------------------------------------------
(* Properties that hold.                                                   *)

TypeOK ==
  /\ day \in 0..MaxDay
  /\ phase \in {"down", "nodb", "hosts", "up"}
  /\ pending \subseteq Allowed
  /\ hostNext \in [Allowed -> Int]
  /\ guest \in [Host -> [Path -> Row]]
  /\ state \in [Job -> JobState]
  /\ arg \in [Job -> Request]
  /\ pc \in [Job -> Step]
  /\ slot \in Job \cup {NoJob}
  /\ queued \in [Job -> Nat]
  /\ fetching \in [Job -> {"no", "read", "stale"}]
  /\ crashes \in 0..MaxCrashes
  /\ burst \in [Host -> [Path -> Nat]]
  /\ awaiting \in [Host -> [Path -> BOOLEAN]]
  /\ due \in [Host -> [Path -> Pass]]
  /\ accepted \subseteq Job
  /\ handed \subseteq Job

\* Between two moments at which a page is due, no more single no-pass jobs for
\* it are accepted than there are workers, however many jobs (walk sends one
\* for every link to the page) arrive: the early update of the guestbook stops
\* all but those that had already looked, and a crash does not let more in.
SingleBurstBounded ==
  \A h \in Host, p \in Path : burst[h][p] <= MaxWorkers

\* A job with a hall pass that River counts as completed has handed a fetch to
\* the Enqueue goroutine, even if the process died in the middle of an earlier
\* attempt: running it again passes again.
HallPassIsHandedOver ==
  \A j \in Job :
    state[j] = "completed" /\ HasCheck(j) /\ arg[j].pass => j \in handed

\* Something is under way that will fetch the page.
InFlight(h, p) ==
  \E j \in Job :
    /\ HasCheck(j) /\ HostOf(j) = h /\ PathOf(j) = p
    /\ pc[j] = "send" \/ slot = j \/ queued[j] > 0

\* A full pass is answered. A page it reset stays due, or a fetch of it is on its
\* way, until some fetch takes it up after the pass: whoever makes the row fresh
\* again is about to send, whatever other jobs, fetches and restarts do between.
\* Two things alone undo a pass: a fetch that had read the page before it writes
\* the row (late), or the process dies with the message in its hands.
FullPassIsAnswered ==
  \A h \in Host, p \in Path :
    due[h][p] = "reset" => ~Fresh(h, p) \/ InFlight(h, p)

\* Until the process dies for the first time, a page whose deadline entree moved has
\* a fetch on its way until one takes it up.
AcceptedIsInFlight ==
  \A h \in Host, p \in Path : awaiting[h][p] => InFlight(h, p)

\* Pages whose deadline was moved and that nothing will fetch.
Lost == {at \in Host \X Path : awaiting[at[1]][at[2]] /\ ~InFlight(at[1], at[2])}

\* A crash loses no more of them than workers were sending, and the one whose
\* message the Enqueue goroutine held.
CrashLosesFew == Cardinality(Lost) <= crashes * (MaxWorkers + 1)

\* Every job is completed in the end: crashes are rescued, panics of the
\* startup are retried, and no worker waits for the channel for ever.
JobsComplete ==
  \A j \in Job : state[j] = "available" ~> state[j] = "completed"

-----------------------------------------------------------------------------
(* The inductive invariant behind the safety properties.                   *)

\* A job that no worker runs is at no statement, and a job that was never
\* submitted has left no trace.
IdleInv ==
  \A j \in Job :
    /\ state[j] # "running" => pc[j] = "idle"
    /\ state[j] = "unused" => slot # j /\ queued[j] = 0 /\ fetching[j] = "no"
    /\ pc[j] \notin {"idle", "return", "panic"} => HasCheck(j)

\* A job with a hall pass asks no table, and returns only after its send.
HallPassInv ==
  \A j \in Job :
    HasCheck(j) /\ arg[j].pass =>
      /\ pc[j] \notin {"guestbook", "page", "host"}
      /\ pc[j] = "return" => j \in handed

\* No more jobs run than the queue has workers.
PoolInv == IsFiniteSet(Working) /\ Cardinality(Working) <= MaxWorkers

\* The single no-pass jobs that may still accept p however fresh it is: they
\* have passed the check of the row, or have seen that there was none.
Passed(h, p) ==
  {j \in Job : /\ pc[j] \in {"host", "accept"}
               /\ HostOf(j) = h /\ PathOf(j) = p
               /\ IsSingleNoPass(j)}

\* While a page is fresh nobody joins those who have passed, and they were at
\* most as many as there are workers.
BurstInv ==
  ~DBFaults =>
    \A h \in Host, p \in Path :
      /\ burst[h][p] <= MaxWorkers
      /\ Fresh(h, p) => burst[h][p] + Cardinality(Passed(h, p)) <= MaxWorkers

\* A fetch that read a page after the pass has answered it: only a late one finds
\* the page still reset when it writes the row.
PassInv ==
  /\ FullPassIsAnswered
  /\ \A j \in Job, h \in Host, p \in Path :
       fetching[j] = "read" /\ HostOf(j) = h /\ PathOf(j) = p => due[h][p] # "reset"

LossInv == IsFiniteSet(Lost) /\ CrashLosesFew

IInv ==
  /\ TypeOK
  /\ IdleInv
  /\ HallPassInv
  /\ HallPassIsHandedOver
  /\ PassInv
  /\ PoolInv
  /\ BurstInv
  /\ LossInv

-----------------------------------------------------------------------------
(* What the documentation and the comments say, and the code does not do.  *)

\* docs/adr/0002-queues.md:21: a job "can be done again without consequence" if
\* its worker crashes.  So a job that was accepted in one of its attempts has
\* sent its fetch when it is completed.
RedoneJobKeepsItsFetch ==
  \A j \in Job : state[j] = "completed" /\ j \in accepted => j \in handed

=============================================================================
