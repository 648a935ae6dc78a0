------------------------------- MODULE Fetch --------------------------------
(***************************************************************************)
(* cmd/fetch: the workers that fetch pages, politely.                      *)
(*                                                                         *)
(* A worker asks the host gateway whether the host may be hit; a job that  *)
(* comes too soon is sent back to the queue as a new job.  A worker that   *)
(* goes on fetches the page, records it in the guestbook, saves it to S3,  *)
(* sends an extract and a walk job, fetches the page a second time, and    *)
(* sends a collect job.  All messages of the process go through one        *)
(* unbuffered channel to one Enqueue goroutine, which commits them.        *)
(*                                                                         *)
(* The gateway is here what HostGateway is proved to implement: GoodToGo   *)
(* is one step, and of a host only the age of its last stamp is kept.      *)
(* The process may die between any two steps; the gateway's map dies with  *)
(* it, and River rescues the jobs that were at its workers.                *)
(***************************************************************************)
EXTENDS Integers, FiniteSets

CONSTANTS
  Host,         \* hosts
  Page,         \* pages; a job names one
  HostOf,       \* HostOf[p]: the host of page p
  Reject,       \* the pages IsReject turns away
  Worker,       \* the goroutines of the queues
  NoPage,       \* "this worker has no job"
  NoMessage,    \* "the Enqueue goroutine holds no message"
  QueueModel,   \* "simple", "round_robin" or "one_per_domain"
  Ascii,        \* Ascii[h]: the letters of h, which name its own queue
  Allowed,      \* allowed_hosts: the hosts that get a queue of their own
  PoliteSleep,  \* polite_sleep, in ticks
  Faults,       \* TRUE: storing raw content or writing the guestbook may fail
  MaxAsked,     \* bound on the fetch jobs entree asks of one page
  MaxErrors,    \* bound on the number of fetches the web answers with an error
  MaxCrashes,   \* bound on the number of crashes
  MaxTrouble    \* bound on failed fetches and crashes together

ASSUME FetchAssumption ==
  /\ HostOf \in [Page -> Host]
  /\ Reject \subseteq Page
  /\ Allowed \subseteq Host
  /\ IsFiniteSet(Worker) /\ Worker # {}
  /\ NoPage \notin Page
  /\ QueueModel \in {"simple", "round_robin", "one_per_domain"}
  /\ DOMAIN Ascii = Host
  /\ PoliteSleep \in Nat
  /\ Faults \in BOOLEAN
  /\ MaxAsked \in Nat /\ MaxErrors \in Nat /\ MaxCrashes \in Nat
  /\ MaxTrouble \in Nat

\* The main queue, and the host's own queue "fetch-<letters of the host>".
Queue == {"fetch", "own"}

Message == [to: Queue \cup {"extract", "walk", "collect"}, page: Page]

ASSUME MessageAssumption == NoMessage \notin Message

VARIABLES
  phase,        \* the process: "down", "boot", "gate" or "up"
  age,          \* age[h]: ticks since the gateway's stamp of h, or NotSeen
  available,    \* available[p][q]: jobs for p in queue q that wait for a worker
  stuck,        \* stuck[p][q]: jobs whose worker died
  pc,           \* pc[w]: what worker w does next
  page,         \* page[w]: the page of w's job
  queue,        \* queue[w]: the queue w's job came from
  slot,         \* the message the Enqueue goroutine holds, or NoMessage
  sent,         \* committed jobs for the other services
  raw,          \* pages whose raw content is in S3
  json,         \* pages whose JSON document is in S3
  recorded,     \* pages the guestbook counts as fetched
  errors,       \* fetches that failed so far
  crashes       \* crashes so far

(* History, for the properties.                                            *)
VARIABLES
  asked,        \* asked[p]: fetch jobs entree has asked for
  dropped,      \* pages of which a job was consumed without a result
  delivered,    \* pages of which a job was worked to its end
  gatecrash,    \* gatecrash[h]: jobs that went on to fetch though the gateway
                \*   said "too soon", in this life of the process
  missing       \* what is not there because the statement that writes it failed
                \*   and the error was only logged: <<"raw" or "guestbook", page>>

store == <<raw, json, recorded>>
jobs == <<available, stuck>>
history == <<asked, dropped, delivered, gatecrash, missing>>
vars == <<phase, age, jobs, pc, page, queue, slot, sent, store, errors, crashes, history>>

NotSeen == -1

\* Long enough ago: ages are not told apart beyond it.
Old == PoliteSleep + 1

Location ==
  {"idle", "panic", "exists", "good", "stranger", "requeue", "introduce", "fetch",
   "guestbook", "save", "extract", "walk", "again", "collect", "error", "return"}

Init ==
  /\ phase = "up"
  /\ age = [h \in Host |-> NotSeen]
  /\ available = [p \in Page |-> [q \in Queue |-> 0]]
  /\ stuck = [p \in Page |-> [q \in Queue |-> 0]]
  /\ pc = [w \in Worker |-> "idle"]
  /\ page = [w \in Worker |-> NoPage]
  /\ queue = [w \in Worker |-> "fetch"]
  /\ slot = NoMessage
  /\ sent = {}
  /\ raw = {} /\ json = {} /\ recorded = {}
  /\ errors = 0
  /\ crashes = 0
  /\ asked = [p \in Page |-> 0]
  /\ dropped = {} /\ delivered = {}
  /\ gatecrash = [h \in Host |-> 0]
  /\ missing = {}

Goto(w, step) == pc' = [pc EXCEPT ![w] = step]

\* Entree commits a fetch job for the page.
Ask(p) ==
  /\ asked[p] < MaxAsked
  /\ asked' = [asked EXCEPT ![p] = @ + 1]
  /\ available' = [available EXCEPT ![p]["fetch"] = @ + 1]
  /\ UNCHANGED <<phase, age, stuck, pc, page, queue, slot, sent, store, errors, crashes,
                 dropped, delivered, gatecrash, missing>>

-----------------------------------------------------------------------------
(* Work.                                                                   *)

\* Somebody works the queue: the main one always, a host's own queue if some
\* allowed host has the same letters.  Under the other models a host has none.
Worked(p, q) ==
  \/ q = "fetch"
  \/ /\ QueueModel = "one_per_domain"
     /\ \E h \in Allowed : Ascii[h] = Ascii[HostOf[p]]

\* A worker picks a job up.  Until the gateway is made, a job that is not
\* rejected panics on its nil pointer.
Take(w, p, q) ==
  /\ phase # "down"
  /\ pc[w] = "idle"
  /\ Worked(p, q)
  /\ available[p][q] > 0
  /\ available' = [available EXCEPT ![p][q] = @ - 1]
  /\ page' = [page EXCEPT ![w] = p]
  /\ queue' = [queue EXCEPT ![w] = q]
  /\ IF p \in Reject
       THEN Goto(w, "return") /\ dropped' = dropped \cup {p}
       ELSE Goto(w, IF phase = "boot" THEN "panic" ELSE "exists") /\ UNCHANGED dropped
  /\ UNCHANGED <<phase, age, stuck, slot, sent, store, errors, crashes,
                 asked, delivered, gatecrash, missing>>

\* Seeded fault: the map forgets its hosts.
NeverKnown(h) == FALSE

Known(h) == age[h] # NotSeen

\* Gateway.HostExists.
HostExists(w) ==
  /\ pc[w] = "exists"
  /\ Goto(w, IF Known(HostOf[page[w]]) THEN "good" ELSE "stranger")
  /\ UNCHANGED <<phase, age, jobs, page, queue, slot, sent, store, errors, crashes, history>>

\* The gateway grants the host and stamps it.
Free(h) == age[h] = NotSeen \/ age[h] > PoliteSleep

\* Seeded fault: a refusal stamps the host as well.
StampedAlways(h) == [age EXCEPT ![h] = 0]

Stamped(h) == IF Free(h) THEN [age EXCEPT ![h] = 0] ELSE age

\* Gateway.GoodToGo for a host that exists: its answer decides.
GoodToGo(w) ==
  LET h == HostOf[page[w]] IN
  /\ pc[w] = "good"
  /\ Goto(w, IF Free(h) THEN "fetch" ELSE "requeue")
  /\ age' = Stamped(h)
  /\ UNCHANGED <<phase, jobs, page, queue, slot, sent, store, errors, crashes,
                 asked, dropped, delivered, gatecrash, missing>>

\* Gateway.GoodToGo for a host that did not exist: its answer is ignored.  By
\* now another worker may have stamped the host.
GoodToGoUnchecked(w) ==
  LET h == HostOf[page[w]] IN
  /\ pc[w] = "stranger"
  /\ Goto(w, "introduce")
  /\ age' = Stamped(h)
  /\ gatecrash' = [gatecrash EXCEPT ![h] = IF Free(h) THEN @ ELSE @ + 1]
  /\ UNCHANGED <<phase, jobs, page, queue, slot, sent, store, errors, crashes,
                 asked, dropped, delivered, missing>>

\* Seeded fault: the name of the host's queue lacks its prefix.
RequeueToUnprefixed == IF QueueModel = "one_per_domain" THEN "letters" ELSE "Fetch"

\* Where a job is requeued, by the queueing model.
RequeueTo == IF QueueModel = "one_per_domain" THEN "own" ELSE "fetch"

\* Seeded fault: a send does not wait until the Enqueue goroutine receives, and
\* takes the place of the message it still holds.
SendWithoutWaiting(w, to) ==
  /\ phase = "up"
  /\ slot' = [to |-> to, page |-> page[w]]

\* ChQSHP <- message: completes when the Enqueue goroutine receives.
SendTo(w, to) ==
  /\ phase = "up"
  /\ slot = NoMessage
  /\ slot' = [to |-> to, page |-> page[w]]

\* Seeded fault: a job that comes too soon is consumed without a new one.
RequeueNothing(w) == UNCHANGED slot

Requeued(w) == SendTo(w, RequeueTo)

\* Too soon: "we queued them elsewhere, so this job is done and done right".
Requeue(w) ==
  /\ pc[w] = "requeue"
  /\ Requeued(w)
  /\ Goto(w, "return")
  /\ UNCHANGED <<phase, age, jobs, page, queue, sent, store, errors, crashes, history>>

\* A host nobody had seen is requeued, and the job goes on to fetch as well.
Introduce(w) ==
  /\ pc[w] = "introduce"
  /\ SendTo(w, RequeueTo)
  /\ Goto(w, "fetch")
  /\ UNCHANGED <<phase, age, jobs, page, queue, sent, store, errors, crashes, history>>

\* fetchPageContent stores the raw content; an error of S3 is only logged.
StoreRaw(p) ==
  \/ raw' = raw \cup {p} /\ missing' = missing \ {<<"raw", p>>}
  \/ /\ Faults
     /\ missing' = missing \cup {<<"raw", q>> : q \in {p} \ raw}
     /\ UNCHANGED raw

\* The first fetch.
FetchPageContent(w) ==
  /\ pc[w] = "fetch"
  /\ StoreRaw(page[w])
  /\ Goto(w, "guestbook")
  /\ UNCHANGED <<phase, age, jobs, page, queue, slot, sent, json, recorded, errors, crashes,
                 asked, dropped, delivered, gatecrash>>

\* Not indexable, too large or too small: the job is consumed.
FetchCommonError(w) ==
  /\ pc[w] = "fetch"
  /\ Goto(w, "return")
  /\ dropped' = dropped \cup {page[w]}
  /\ UNCHANGED <<phase, age, jobs, page, queue, slot, sent, store, errors, crashes,
                 asked, delivered, gatecrash, missing>>

\* Any other error of the first fetch, and every error of the second, a common
\* one included: the job fails and River will retry it.
FetchError(w) ==
  /\ pc[w] \in {"fetch", "again"}
  /\ errors < MaxErrors /\ errors + crashes < MaxTrouble
  /\ errors' = errors + 1
  /\ Goto(w, "error")
  /\ UNCHANGED <<phase, age, jobs, page, queue, slot, sent, store, crashes, history>>

\* Seeded fault: the row is not written and nobody notices.
RecordNothing(p) == UNCHANGED <<recorded, missing>>

\* UpdateGuestbookFetch; an error is only logged.
Record(p) ==
  \/ recorded' = recorded \cup {p} /\ missing' = missing \ {<<"guestbook", p>>}
  \/ /\ Faults
     /\ missing' = missing \cup {<<"guestbook", q>> : q \in {p} \ recorded}
     /\ UNCHANGED recorded

UpdateGuestbook(w) ==
  /\ pc[w] = "guestbook"
  /\ Record(page[w])
  /\ Goto(w, "save")
  /\ UNCHANGED <<phase, age, jobs, page, queue, slot, sent, raw, json, errors, crashes,
                 asked, dropped, delivered, gatecrash>>

SaveJSON(w) == json' = json \cup {page[w]}

\* cloudmap.Save(): if it fails the process dies (Crash).
Save(w) ==
  /\ pc[w] = "save"
  /\ SaveJSON(w)
  /\ Goto(w, "extract")
  /\ UNCHANGED <<phase, age, jobs, page, queue, slot, sent, raw, recorded, errors, crashes,
                 history>>

SendExtract(w) ==
  /\ pc[w] = "extract"
  /\ SendTo(w, "extract")
  /\ Goto(w, "walk")
  /\ UNCHANGED <<phase, age, jobs, page, queue, sent, store, errors, crashes, history>>

SendWalk(w) ==
  /\ pc[w] = "walk"
  /\ SendTo(w, "walk")
  /\ Goto(w, "again")
  /\ UNCHANGED <<phase, age, jobs, page, queue, sent, store, errors, crashes, history>>

\* The second fetch, for the collect job; the gateway is not asked.
FetchAgain(w) ==
  /\ pc[w] = "again"
  /\ StoreRaw(page[w])
  /\ Goto(w, "collect")
  /\ UNCHANGED <<phase, age, jobs, page, queue, slot, sent, json, recorded, errors, crashes,
                 asked, dropped, delivered, gatecrash>>

SendCollect(w) ==
  /\ pc[w] = "collect"
  /\ SendTo(w, "collect")
  /\ Goto(w, "return")
  /\ delivered' = delivered \cup {page[w]}
  /\ UNCHANGED <<phase, age, jobs, page, queue, sent, store, errors, crashes,
                 asked, dropped, gatecrash, missing>>

-----------------------------------------------------------------------------
(* River and the Enqueue goroutine.                                        *)

\* The worker returns nil: the job is completed.
Complete(w) ==
  /\ pc[w] = "return"
  /\ Goto(w, "idle")
  /\ page' = [page EXCEPT ![w] = NoPage]
  /\ UNCHANGED <<phase, age, jobs, queue, slot, sent, store, errors, crashes, history>>

\* The worker returned an error or panicked: the job is retried in its queue.
Retry(w) ==
  /\ pc[w] \in {"error", "panic"}
  /\ Goto(w, "idle")
  /\ available' = [available EXCEPT ![page[w]][queue[w]] = @ + 1]
  /\ page' = [page EXCEPT ![w] = NoPage]
  /\ UNCHANGED <<phase, age, stuck, queue, slot, sent, store, errors, crashes, history>>

\* It was the last attempt River allows: the job is discarded.  (How many there
\* were is not counted; any may have been the last.)
Discard(w) ==
  /\ pc[w] \in {"error", "panic"}
  /\ Goto(w, "idle")
  /\ dropped' = dropped \cup {page[w]}
  /\ page' = [page EXCEPT ![w] = NoPage]
  /\ UNCHANGED <<phase, age, jobs, queue, slot, sent, store, errors, crashes,
                 asked, delivered, gatecrash, missing>>

Commit ==
  /\ phase = "up"
  /\ slot # NoMessage
  /\ IF slot.to \in Queue
       THEN /\ available' = [available EXCEPT ![slot.page][slot.to] = @ + 1]
            /\ UNCHANGED sent
       ELSE /\ sent' = sent \cup {slot}
            /\ UNCHANGED available
  /\ slot' = NoMessage
  /\ UNCHANGED <<phase, age, stuck, pc, page, queue, store, errors, crashes, history>>

HeldIn(p, q) == {w \in Worker : pc[w] # "idle" /\ page[w] = p /\ queue[w] = q}

\* The process dies: a failed commit, a failed Save, a redeploy.
Crash ==
  /\ phase # "down"
  /\ crashes < MaxCrashes /\ errors + crashes < MaxTrouble
  /\ crashes' = crashes + 1
  /\ phase' = "down"
  /\ age' = [h \in Host |-> NotSeen]
  /\ stuck' = [p \in Page |-> [q \in Queue |->
                 stuck[p][q] + Cardinality(HeldIn(p, q))]]
  /\ pc' = [w \in Worker |-> "idle"]
  /\ page' = [w \in Worker |-> NoPage]
  /\ slot' = NoMessage
  /\ gatecrash' = [h \in Host |-> 0]
  /\ UNCHANGED <<available, queue, sent, store, errors, asked, dropped, delivered,
                 missing>>

\* InitializeQueues: the workers run before anything else is made.
Boot ==
  /\ phase = "down"
  /\ phase' = "boot"
  /\ UNCHANGED <<age, jobs, pc, page, queue, slot, sent, store, errors, crashes, history>>

\* The database, the HTTP client and the gateway are there.
NewHostGateway ==
  /\ phase = "boot"
  /\ phase' = "gate"
  /\ UNCHANGED <<age, jobs, pc, page, queue, slot, sent, store, errors, crashes, history>>

\* go queueing.Enqueue(ChQSHP).
StartEnqueue ==
  /\ phase = "gate"
  /\ phase' = "up"
  /\ UNCHANGED <<age, jobs, pc, page, queue, slot, sent, store, errors, crashes, history>>

\* River's rescuer makes the job of a worker that is gone available again, or
\* discards it after its last attempt.
Rescue(p, q) ==
  /\ stuck[p][q] > 0
  /\ stuck' = [stuck EXCEPT ![p][q] = @ - 1]
  /\ \/ available' = [available EXCEPT ![p][q] = @ + 1] /\ UNCHANGED dropped
     \/ dropped' = dropped \cup {p} /\ UNCHANGED available
  /\ UNCHANGED <<phase, age, pc, page, queue, slot, sent, store, errors, crashes,
                 asked, delivered, gatecrash, missing>>

Aged(a) == IF a = NotSeen \/ a = Old THEN a ELSE a + 1

Tick ==
  /\ \E h \in Host : Aged(age[h]) # age[h]
  /\ age' = [h \in Host |-> Aged(age[h])]
  /\ UNCHANGED <<phase, jobs, pc, page, queue, slot, sent, store, errors, crashes, history>>

Done ==
  /\ \A w \in Worker : pc[w] = "idle"
  /\ \A p \in Page : \A q \in Queue : Worked(p, q) => available[p][q] = 0
  /\ UNCHANGED vars

Step(w) ==
  \/ HostExists(w) \/ GoodToGo(w) \/ GoodToGoUnchecked(w)
  \/ Requeue(w) \/ Introduce(w)
  \/ FetchPageContent(w) \/ FetchCommonError(w) \/ FetchError(w)
  \/ UpdateGuestbook(w) \/ Save(w)
  \/ SendExtract(w) \/ SendWalk(w)
  \/ FetchAgain(w) \/ SendCollect(w)
  \/ Complete(w) \/ Retry(w) \/ Discard(w)

Startup == Boot \/ NewHostGateway \/ StartEnqueue

Next ==
  \/ \E p \in Page : Ask(p)
  \/ \E p \in Page, q \in Queue : Rescue(p, q) \/ \E w \in Worker : Take(w, p, q)
  \/ \E w \in Worker : Step(w)
  \/ Commit
  \/ Crash
  \/ Startup
  \/ Tick
  \/ Done

Spec == Init /\ [][Next]_vars

\* River takes the oldest available job first and a channel serves its senders
\* in order (strong fairness of Take and of a worker's step); the Enqueue
\* goroutine, the rescuer, the startup and the clock go on.
Fairness ==
  /\ \A p \in Page : \A q \in {r \in Queue : Worked(p, r)} :
       SF_vars(\E w \in Worker : Take(w, p, q))
  /\ \A w \in Worker : SF_vars(Step(w))
  /\ WF_vars(\E p \in Page, q \in Queue : Rescue(p, q))
  /\ WF_vars(Commit) /\ WF_vars(Startup) /\ WF_vars(Tick)

FairSpec == Spec /\ Fairness

-----------------------------------------------------------------------------
(* Properties that hold.                                                   *)

TypeOK ==
  /\ phase \in {"down", "boot", "gate", "up"}
  /\ age \in [Host -> {NotSeen} \cup 0..Old]
  /\ available \in [Page -> [Queue -> Nat]]
  /\ stuck \in [Page -> [Queue -> Nat]]
  /\ pc \in [Worker -> Location]
  /\ page \in [Worker -> Page \cup {NoPage}]
  /\ queue \in [Worker -> Queue]
  /\ \A w \in Worker : pc[w] # "idle" => page[w] \in Page
  /\ slot \in Message \cup {NoMessage}
  /\ sent \subseteq Message
  /\ raw \subseteq Page /\ json \subseteq Page /\ recorded \subseteq Page
  /\ errors \in 0..MaxErrors
  /\ crashes \in 0..MaxCrashes
  /\ asked \in [Page -> 0..MaxAsked]
  /\ dropped \subseteq Page /\ delivered \subseteq Page
  /\ gatecrash \in [Host -> Nat]
  /\ missing \subseteq {"raw", "guestbook"} \X Page

\* Some job for the page waits, is stuck, is worked, or is in the hands of the
\* Enqueue goroutine.
InFlight(p) ==
  \/ \E q \in Queue : available[p][q] > 0 \/ stuck[p][q] > 0
  \/ \E w \in Worker : page[w] = p /\ pc[w] \notin {"idle", "return"}
  \/ slot # NoMessage /\ slot.page = p /\ slot.to \in Queue

Accounted(p) ==
  asked[p] > 0 => p \in dropped \/ p \in delivered \/ InFlight(p)

Lost == {p \in Page : ~Accounted(p)}

\* No page that was asked for falls between the jobs that are requeued, retried
\* and introduced, and a crash loses at most one, however many are worked: the one
\* whose requeued job the Enqueue goroutine held.
CrashLosesOne == Cardinality(Lost) <= crashes

\* A page whose job was worked to its end has its extract and its walk job in
\* their queues, even if the process dies at once: the channel is unbuffered and
\* the collect message comes last, so both were committed before it was received.
DeliveredIsCommitted ==
  \A p \in delivered : \A to \in {"extract", "walk"} : [to |-> to, page |-> p] \in sent

\* The raw content, the guestbook row of the page is there, or is known to be
\* missing because of an error that was only logged.
IsStored(p) == p \in raw \/ <<"raw", p>> \in missing
IsRecorded(p) == p \in recorded \/ <<"guestbook", p>> \in missing

\* Whoever works an extract or a walk job finds the JSON document of the page,
\* whatever crashed, failed or was retried before; and its raw content and its
\* guestbook row, unless the statement that writes the one or the other failed for
\* this page, the error was only logged, and no later attempt has written it.
NextServiceFindsPage ==
  \A m \in sent \cup ({slot} \ {NoMessage}) :
    m.to \in {"extract", "walk"} =>
      m.page \in json /\ IsStored(m.page) /\ IsRecorded(m.page)

\* In one life of the process the gateway is overruled for a host fewer times
\* than there are workers: only by those who looked before the first stamp.
GatecrashBounded ==
  \A h \in Host : gatecrash[h] < Cardinality(Worker)

\* Every page that is asked for is dropped or delivered in the end, although the
\* jobs of its host send each other back to the queue.
AskedIsAnswered ==
  \A p \in Page : asked[p] > 0 ~> p \in dropped \cup delivered

-----------------------------------------------------------------------------
(* The inductive invariant behind the safety properties.                   *)

\* The message is committed, or the Enqueue goroutine holds it.
OnItsWay(to, p) ==
  \/ [to |-> to, page |-> p] \in sent
  \/ slot = [to |-> to, page |-> p]

\* What a worker has done by the time it is at a step: the document is saved
\* before extract hears of it, and each send waits for the one before it.
StageInv ==
  \A w \in Worker :
    /\ pc[w] \in {"guestbook", "save", "extract", "walk", "again", "collect"}
         => IsStored(page[w])
    /\ pc[w] \in {"save", "extract", "walk", "again", "collect"}
         => IsRecorded(page[w])
    /\ pc[w] \in {"extract", "walk", "again", "collect"} => page[w] \in json
    /\ pc[w] \in {"walk", "again", "collect"} => OnItsWay("extract", page[w])
    /\ pc[w] \in {"again", "collect"} => OnItsWay("walk", page[w])

\* The workers that were told the host does not exist, and have not asked yet.
Strangers(h) == {w \in Worker : pc[w] = "stranger" /\ HostOf[page[w]] = h}

\* Once the host is stamped nobody joins the strangers, and one of the workers
\* was granted.
GateInv ==
  \A h \in Host :
    /\ ~Known(h) => gatecrash[h] = 0
    /\ Known(h) => gatecrash[h] + Cardinality(Strangers(h)) < Cardinality(Worker)

\* A worker that returns has answered, or sent its job back: only what the Enqueue
\* goroutine holds is lost in a crash.
LossInv == IsFiniteSet(Lost) /\ CrashLosesOne

IInv ==
  /\ TypeOK
  /\ StageInv
  /\ DeliveredIsCommitted
  /\ NextServiceFindsPage
  /\ GateInv
  /\ GatecrashBounded
  /\ LossInv

=============================================================================
