# Jemison, specified

Jemison is a search engine in Go. It crawls the web sites of an allowed list of
hosts and serves full-text search over them. This directory holds TLA+ modules
that are translated from the source in `src/`, TLC models of them, and proofs
that TLAPS checks. Paths below are relative to the repository; `name:line`
refers to its source.

## 1. The system

Ten services, each a process of its own, work on one Postgres server, on S3
buckets (minio in development) and on each other's job queues. The queues are
River's (a job queue inside Postgres). No service calls another: each takes a
job, does its part, and sends messages to its process's one `Enqueue` goroutine,
which commits them as jobs of other queues.

    admin ──> entree ──> fetch ──> extract ──> pack ──> search db ──> serve
                ^          │ └────> collect              resultsapi
                └── walk <─┘

| component | source | state it keeps | operations | talks to |
|---|---|---|---|---|
| host gateway | `cmd/fetch/host_gateway.go` | map host → time of last hit, RWMutex | `GoodToGo`, `HostExists`, `TimeRemaining` | called by all fetch workers |
| entree | `cmd/entree` | tables `hosts`, `guestbook` | `Work`/`EvaluateEntree`, startup | jobs in from admin and walk; fetch jobs out |
| fetch | `cmd/fetch` | gateway, retry client, temp files, S3 `fetch`, `guestbook` | `Work`, queue models | jobs in from entree; extract, walk, collect, fetch jobs out |
| Enqueue | `internal/queueing` | one unbuffered channel, one transaction at a time | `Enqueue`, `commonCommit`, `ClearCompleted` | every service's way to the queues |
| walk | `cmd/walk` | expirable cache of links (120 min) | `Work`, `extractLinks`, `isCrawlable` | S3 `fetch` in; entree jobs out |
| extract | `cmd/extract` | S3 `extract` | `Work`, html, pdf | S3 `fetch` in; pack jobs out |
| pack | `cmd/pack` | tables of the search db | `Work`, html, pdf, per-host lock (unused) | S3 `extract` in |
| collect | `cmd/collect` | S3 `data` | `Work`, schema choice | jobs in from fetch and admin |
| serve, resultsapi | `cmd/serve`, `cmd/resultsapi` | serve: one map of page parameters for all requests | page and search handlers | work db, search db |
| admin | `cmd/admin` | none | HTTP handlers that insert jobs | entree, fetch, pack queues |
| domain64, schedules | `config`, `internal/postgres` | embedded tables | FQDN ↔ number, next fetch | entree, fetch, pack, serve |
| filtering | `internal/filtering` | rule tables | `IsReject` | fetch, walk |
| S3 and key-value | `internal/kv` | buckets | `Save`, `Load`, streams | fetch, extract, walk, pack, collect |
| validate, migrate, env, vcap | `cmd/validate`, `cmd/migrate`, `internal/env`, `internal/vcap` | none | one-shot or configuration | – |

River, Postgres, S3 and the web are not in `src/`. They are modelled from how
the code uses them and marked external in the map: a job is available, running,
stuck or completed; a worker's error or panic makes it available again; a job
whose process died is rescued; a single statement is atomic. A job that has used up its
attempts (River's default of 25) is discarded: where jobs fail again and again without a bound
(a fetch that fails, a pack job whose key stays empty) the models let every attempt be the
last one (`Discard`, `DiscardPack`, `FetchLost`); elsewhere a job fails by one of the few
bounded crashes, faults and startups of the instance, and no job is assumed to meet 25 of them.

### What is hard here

* **Interleaving.** Many workers per queue; the decision of `entree` and the
  whole of `fetch` are sequences of separate statements on shared tables.
* **Crash and redo.** River runs a job again from its start. Every service must
  therefore be safe to stop between any two statements.
* **One channel.** Every message of a process goes through one unbuffered
  channel and one goroutine. A message in that goroutine's hands is in no table.
* **Politeness.** The gateway must space the hits on a host, without a queue per
  host.
* **Shared parameters.** The page handlers of `serve` run concurrently and write
  into one map without a lock.
* **The loop.** entree, fetch and walk feed one another and none of them sees a crawl. That it
  reaches every page and ends rests on the guestbook, which two of them write, and on
  a cache that forgets by itself and is lost in a crash.
* **Startup.** `InitializeQueues` starts the workers before the database
  connection, the gateway and the `Enqueue` goroutine exist.

### What makes each part correct

* **host gateway** – hits on one host are more than `polite_sleep` apart; a wait
  that was announced is kept; both under any interleaving of its callers.
* **entree** – a page is accepted when it is due and only about once; what was
  accepted is fetched; a full pass makes every known page due again; every job
  ends; a job that is run again does what it would have done.
* **fetch** – no page is lost among requeues, retries and crashes; whoever is
  told of a page finds it; the gateway is obeyed; every request is answered.
* **Enqueue** – a message that was taken is committed; the channel never stops.
* **walk** – every crawlable link is offered; the same link not again and again.
* **entree, fetch, walk together** – a full pass reaches every page that can be reached, and the
  crawl comes to an end although pages link in circles.
* **extract, pack** – every page of a document is searchable, once, with the
  title and path that belong to it.
* **collect** – no object overwrites another; the schema fits the object.
* **admin** – what is asked is recorded before it is acted on, and an answered
  request has its jobs.
* **serve, resultsapi** – a request is answered with its own parameters, and with
  another's only if the two overlap; the range of a name contains the names
  below it and no others.
* **domain64, schedules** – the number of a name is unique and ordered by
  containment; a host is crawled as often as its schedule says.

## 2. The modules

| module | stands for | built on |
|---|---|---|
| `PoliteGate` | what a gateway promises: a grant is atomic, and only for a rested host | – |
| `HostGateway` | `host_gateway.go`, lock by lock and clock reading by clock reading | implements `PoliteGate` |
| `HostGatewayProofs` | its theorems | `HostGateway` |
| `Entree` | `cmd/entree`: decisions on the tables, startup, crash, with the fetches that write the same tables | – |
| `EntreeProofs` | its theorems, and that its channel is an `Outbox` | `Entree`, `Outbox` |
| `Fetch` | `cmd/fetch/work.go` and the queues, gateway and Enqueue goroutine it works with | the gateway as `PoliteGate` describes it |
| `FetchProofs` | its theorems, and that its gateway is a `PoliteGate` and its channel an `Outbox` | `Fetch`, `PoliteGate`, `Outbox` |
| `Index` | `cmd/extract` and `cmd/pack`: two processes that meet at the keys of one bucket | – |
| `IndexProofs` | its theorems, and that its channel is an `Outbox` | `Index`, `Outbox` |
| `Walk` | `cmd/walk`: the workers of a process and the cache of links they share | – |
| `WalkProofs` | its theorems, and that its channel is an `Outbox` | `Walk`, `Outbox` |
| `Crawl` | crawls of one host: entree, fetch and walk, each in coarser steps, feeding one another | – |
| `CrawlProofs` | its theorems | `Crawl` |
| `Outbox` | what the Enqueue goroutine promises to those who send: one message at a time, committed in the order of receipt | – |
| `Enqueue` | `internal/queueing`, with the handlers of `cmd/admin` (or a requeuing fetch) as its senders | implements `Outbox` |
| `EnqueueProofs` | its theorems | `Enqueue` |
| `Domain64` | numbers of names and the ranges over them, as pure functions | – |
| `Serve` | the page handlers of `cmd/serve` on their shared map, and the search from a page | `Domain64` |
| `ServeProofs` | the theorems of both | `Serve` |
| `MCHostGateway`, `MCEntree`, `MCFetch`, `MCIndex`, `MCWalk`, `MCCrawl`, `MCEnqueue`, `MCServe` | the constants of the instances TLC checks | |

`PROJECT.json` gives for every definition the lines it stands for. In short:

**HostGateway.** `last` is the map of `NewHostGateway`; `writer` and `readers`
are the RWMutex. `GoodToGo` is three steps (`GoodToGoLock`, then
`GoodToGoRefuse` or `GoodToGoPass`, then `GoodToGoStamp`), because the code reads
the clock twice, once for the test and once for the stamp, and time may pass in
between. `HostExists` and `TimeRemaining` hold the read lock. `grants` and
`promise` are history variables: the stamps that were given, and the latest time
a caller was told to wait for. No caller of `TimeRemaining` exists in `src/`; it
is an exported operation and modelled as one.

**Entree.** `hostNext` and `guest` are the tables `hosts` and `guestbook`.
`state`, `arg` and `pc` are a job, its arguments, and the statement its worker
executes next: `CheckEntryExists`, `GetGuestbookEntry`, `GetHostNextFetch`, the
two resets of a full pass, `UpdateGuestbookNextFetch`, `Send`, `Return` have the
names of the queries and functions they stand for. `slot` is what the Enqueue goroutine holds.
`Boot`, `ConnectDB`, `UpsertUniqueHost`, `StartEnqueue` are `main` in its
order; a job that starts before the database is there panics. `FetchRead`,
`FetchDrop` and `FetchRecord` are the part of the fetch service that writes the
guestbook. `DBFaults` lets single statements fail the way the code handles it:
log and go on; so can the startup's `UpsertUniqueHost`. `burst`, `awaiting`, `due`,
`accepted`, `handed` are history; `due` follows each page that a full pass reset until a fetch
takes it up (`TakenUp`), a late fetch overwrites the reset, or the process dies with the
message (`InHands`).

**Fetch.** A worker `w` has the job of page `page[w]` from queue `queue[w]` and
is at `pc[w]`. `HostExists`, then `GoodToGo` (host known) or `GoodToGoUnchecked`
(host unknown, the answer is not used), then `Requeue` or `Introduce`, which send
the job back; `FetchPageContent`, `UpdateGuestbook`, `Save`, `SendExtract`,
`SendWalk`, `FetchAgain` (the second fetch, for collect), `SendCollect`,
`Complete`, or `Retry` and `Discard` after an error. `age` is the gateway's map: of a stamp only its age matters, and
only up to the polite sleep. `raw`, `json`, `recorded` are S3's two objects and the
guestbook row of a page; `missing` is history: what was not written because the statement
failed, which the code only logs, and has not been written since. `available` and `stuck` count jobs in River's table by
page and queue; `QueueModel` selects which queues have workers.

**Index.** An extract worker `x` (`LoadJSON`, `CopyRaw`, then `SavePage` and
`SendPage` for each page, `ReturnExtract`) copies version `xcopy[x]` of the raw
content of document `xdoc[x]` and is at page `xpage[x]`. `objects[d]` is what lies
in bucket `extract` under the key of `d`; there is one key for all its pages.
A pack worker `p` (`LoadObject`, `InsertPath`, `InsertTitle`, `InsertBody`,
`ReturnPack`) loads what is there by then into `loaded[p]`. The text of a page is
abstracted to the number of the page and the version it was copied from, which
is what the properties tell apart; `rows` are the rows of `raw_content`, which a
trigger copies to `searchable_content`. `PackPanic` is the error path of a failed
load, which uses the object it did not get, and the use of the database connection
before `main` has made it. `StoreRaw` and `AskExtract` are what fetch does to
extract's inputs: new raw content at any time, and jobs. `OrderPack` is what admin's
`PackRequestHandler` does to pack's: a job for any document, extracted or not. If the key is
empty it panics at every attempt, until River discards it (`DiscardPack`). Whether a document
is a PDF or HTML is chosen at the start and never changes.

**Walk.** `Load`, `CopyRaw`, then `LookUp` and `Enter` for each link, `SendLink`
for each that was entered, `Return`: a look into the cache and the entry are two
calls of a library that locks for each, so two steps here. `ttl[u]` is what the
cache holds for link `u` (0: nothing), `links[j]` is the `linkSet` of the worker
of job `j`, `slot` what the Enqueue goroutine holds, `offered` the pages
for which an entree job exists. An href is a record of its kind (root, relative, network for
`//host/path`, absolute), its host, its path as a sequence of names, and whether it ends in a
slash:
`IsCrawlable`, `Resolved` and `Target` do with it what `isCrawlable` and
`trimSuffix` do. `Found(j)` is the set of links that result for the page of `j`.
A page that is not HTML is one with no links. `Boot`, `NewCache`, `StartEnqueue` are
`main`; before the cache exists a job panics. `entered` and `gaveUp` are history.

**Crawl.** What no component knows by itself: whether a crawl reaches every page and
whether it ends. `AskPass` is admin's request for a full pass of the host (with a hall
pass; one without a pass does the same once the host's deadline has passed),
`ResetGuestbook`, `AcceptRoot` and `SendRoot` are entree's work on it. A link goes from
`SendLink` and `CommitLink` to `LookAtRow`, `Accept`, `SendFetch`, from there to
`FetchPage`, `Record`, `SendWalk`, and as a walk job to `TakeWalk`, `LookUp`, `Enter`,
which collect the next links. `asked`, `passed`, `sending`, `toFetch`, `fetching`, `saved`,
`toWalk` count the jobs of a page at each of these places. `guest[p]` is the row of
`p`: there is none, it is due, or it is fresh. The module keeps the order of every write
to the guestbook, of every look into the cache and entry, and of every commit relative to
them, and leaves out what the modules of the components have and no property here tells apart: River's
states, links to other hosts, the startup, the gateway's waits (a job that waits is one that is not taken),
statements that fail and are only logged. What happens from outside or goes wrong is
`Event`s: passes, deadlines that pass (`Age`), crashes of entree and walk, repeated
(`FetchRetry`), doubled (`FetchTwice`) and lost (`FetchLost`) fetch jobs, walk jobs that
are given up (`DropWalk`). `Expire` may come at any time and as often as there is
something in the cache. `Gone` are pages that fetch may refuse; `Blank` is the page of a link
like `/`, of which `trimSuffix` leaves an empty path, so that entree drops the job. `recrawled` is history: the
pages recorded since the last full pass; `exempt` collects what the code itself gives up (see
`PassReachesAll`).

**Enqueue.** `Script[s]` is the list of queues a sender sends to; those of admin's
three handlers are `FetchRequestHandler`, `EntreeRequestHandler` and
`PackRequestHandler`. `Send` is both ends of the unbuffered channel: the handler's
send and the goroutine's receive. The goroutine then takes a connection
(`CtxTx`, which waits when the pool has none), inserts (`InsertTx`) and commits
(`CommonCommit`), or finds no case for the queue name (`UnknownQueue`) and goes
back to receiving: nobody ends that transaction, so `open` keeps its connection.
An insert that Postgres refused leaves an aborted transaction, whose commit fails
and ends the process (`CannotCommit`); one that River refused before it reached
Postgres (a queue name it does not accept, `Refusable`) leaves an empty one, and the
message is gone. `Dies` is the end of the process: the senders that were not
answered start again with their first message, as a client that asks again and
River's repeated jobs do. `leaked` and `deaths` are history.

**Domain64, Serve.** A name is the triple of its field values, and `Number`
puts them together as `domain64.jsonnet` does. `D64Start` and `D64End` are what the
three handlers compute, with what comes out if the lookup finds nothing: an
empty hex string before the zeros, or zero. `InRange` is the `where` of the
queries. `Unlisted` is what pack makes of a host without a number. In `Serve`, a
handler is at key `at[v]` of the list of its phase: it writes or deletes six keys,
reads two bounds and leaves a count, twice, and the template reads eight keys. A
value in the map is abstracted to the request that left it, because every key is a
function of the name that was asked for; a key that is deleted is "as that
request left it", too. The two reads of an `{{if}}` and its body are one. `span`
remembers for each count whose bounds it was made of. `FatalRace` is Go's detection
of overlapping map operations, which ends the process. `met` is history.

In `Entree`, `Fetch`, `Index` and `Walk`, a crash may come between any two steps. It empties the
workers, the channel and the gateway, and leaves tables, S3 and River's jobs.
What was running is rescued later and runs from the start.

## 3. The runs

| run | question | instance | distinct states |
|---|---|---|---|
| `gateway` | is the gateway polite, are waits kept, does it implement `PoliteGate`? | 2 workers, 2 hosts, polite sleep 1, clock to 4 | 85,676 |
| `entree_burst` | how many jobs of one page are accepted while it is due, and is what is accepted fetched? | 3 jobs (links and full passes), 2 workers, 2 days | 113,967 |
| `entree_faults` | hall passes and full passes under failing statements, a crash and a restart | 2 jobs of all kinds, known and unknown host, empty and blank path | 1,004,922 |
| `entree_live` | does every job end? | 2 jobs, 2 workers, a crash, fairness | 122,319 |
| `fetch_alive` | is what is delivered committed, how often is the gateway overruled, is every request answered? | 2 pages of one host, 2 workers, fairness | 91,024 |
| `fetch_crash` | how many pages does a crash lose, and does the next service still find its page? | 3 pages, one rejected, 1 worker, own queue, logged-only errors, a failing fetch or a crash | 3.3 million |
| `index` | is the last page packed, with its own title, and who sends the pack jobs that find no object? | HTML or a PDF of 2 pages, 2 versions, 2 pack workers, a request to admin, a fault or a crash, fairness | 164,019 |
| `walk` | how often is a link entered, is every link of a page offered, by its own worker or by another, and how many does a crash lose? | 3 jobs on 2 pages of 2 hosts, 3 links crawlable, 2 workers, time to live 1, a failed read or crash | 958,877 |
| `crawl` | does a full pass reach every page, does every step bring the crawl nearer to its end, and does it end? | 2 pages in a circle, one of them refusable, and a link `/`, 2 walkers, 2 events, fairness | 535,512 |
| `enqueue` | is what is received committed, in order? what can stop the goroutine? does it implement `Outbox`? is every sender served? | a request of two messages, a requeued job, an unknown name; 2 connections, 2 crashes or aborted transactions, fairness | 71,618 |
| `serve` | whose parameters can a page show, and what does its search find? | 2 requests, 4 pairs of names, 6 names in 2 top-level domains, a fatal race | 1.1 million |
| `entree_lost` | see section 6 | the smallest that shows it | |

**Why the bounds are enough to see the hard cases.** Two workers are enough to
interleave every pair of statements; three jobs are one more than there are
workers, so that a third can come after the first two and the bound of
`SingleBurstBounded` is met with equality (a bound one lower is violated). Two
days are one period and a day, so a deadline passes, is moved, and passes again.
One crash puts a restart between any two steps. Two pages of one host are what it
takes to be refused by the gateway. In `fetch_crash` two pages that are not rejected, each
with a job, are what it takes to lose more than one in a crash: one in the channel, one at
the worker. The proofs then remove the bounds for safety: their constants are arbitrary. In the liveness runs the clock of `Entree` stands
still, because nothing there waits for it; in `Fetch` ages saturate one tick
after the polite sleep, so the clock needs no bound.

In `entree_faults` the clock stands still, because a full pass makes a page due
without it. In `index` two pages are what it takes for one to replace the other,
the second version comes between the first attempt of an extraction and its
repetition, and two pack workers read the key between the saves. The request to admin can
come before the first save, between the saves, and after them. One fault *or*
crash there; with two, and no request to admin (762,724 states), the same properties hold, but
the search takes four minutes. Several extract workers at once, which can save
an older version over a newer one, are left to the proofs.

In `walk` three jobs are one more than there are workers, and two of them meet at
the same links, one spelled in two ways. The bound of `OffersBounded` is met with
equality. The cache may expire at any step. Two failures, or a longer time to live,
have too many states to wait for and are left to the proofs.

In `crawl` the root links to a page that links back, by the root's path and by `/`: the
smallest graph with a circle through the root, a page that is reached only by a link, and a
page that offers two links, of which entree drops one.
Two walkers can meet at a link between the look and the entry, and two jobs of one page can pass
entree's check together. The first event is the pass; the second is one of everything
else, or a second pass over the first. The guestbook and the cache start as any earlier
crawl can have left them, so a single pass already meets stale rows and cached links. With
a link of the page to itself instead of `/`, two events and three (13 million states without a
violation, the search stopped there), the properties held; any graph and any number of events are left to the proof.

In `enqueue` two connections are the least pool that survives one leak, so that
`SendersServed` is about a goroutine that goes on after it; the unknown name is sent
again by a crash, which empties the pool too. With several unknown names, or one
connection, the goroutine really stops: `StallsOnlyByLeaks`, which is about that, is
proved for all sizes. Two troubles put an aborted transaction and a crash into one run.
In `serve` the pairs of names are chosen so that both requests select the same names, one
deletes a key the other writes, and one asks for what nobody has, at each of the three
levels; fields of two and three values have a first, a last and a middle number.

The inductive invariants of all modules were checked on instances of these sizes and hold
there; they are proved, so the runs do not repeat them. So do three bounds on what crashes lose,
which are stated in the modules but take larger instances to be about anything:
`CrashLosesOne` of `Index` (two documents, no request to admin; 5.8 million states without a violation), `DeathLosesOne`
of `Enqueue` (four senders), `CrashLosesFew` of `Entree`.

`MaxDay`, `MaxTime`, `MaxAsked`, `MaxOrdered`, `MaxVersion`, `MaxErrors`, `MaxCrashes`,
`MaxTrouble`, `MaxEvents`, `MaxRaces` bound the clocks, the jobs asked of a page, the pack jobs asked of admin, the versions of raw
content, the failing fetches, the crashes, in `Fetch` those two together, in `Index`,
`Walk` and `Enqueue` failing calls and crashes together, in `Crawl` all events, and in
`Serve` the fatal races. `MaxConns` is no bound of
the search but the size of the pool. `Done` is a stuttering
step where the service is idle, so deadlock is checked in every run but two: the
gateway's, whose workers can always call again, and `enqueue`, where requests end and a
process whose pool has leaked away really stops. In `Index` it also covers a
worker that has no step but `Crash` when the bound is used up. Workers and jobs are symmetric
in the safety runs (in `walk`, the two jobs of one page; in `fetch_crash`, the two pages that
are not rejected); liveness runs use no
symmetry.

## 4. Fairness

* Running goroutines go on: weak fairness of a worker's step (`Entree`, the pack
  workers of `Index`), strong fairness in `Fetch` and of the extract workers, where
  a step can be a send on the channel.
* A send on the unbuffered channel: strong fairness, because Go's channels serve
  blocked senders first come, first served; weak fairness of `Commit`, the
  receiver.
* Taking a job: strong fairness, because River fetches the oldest available job
  first. Only for queues that have workers (`Worked`).
* River's rescuer and the restart of a process: weak fairness; `docker-compose`
  and Cloud Foundry restart what exits.
* `Enqueue`: weak fairness of the goroutine's step, of a restart and of a handler's
  answer, and, as above, strong fairness of a send. Nothing makes the goroutine find a
  connection when there is none.
* `Crawl`: weak fairness of `Work` as a whole, which says only that if some worker can go
  on, one does. No worker is promised its turn; that the crawl ends does not depend on it.
* The clock of `Fetch` goes on. Nothing forces a crash, an error or a request.

## 5. What is proved

All theorems are for arbitrary hosts, pages, jobs, workers and bounds, from the
assumptions that the modules state on their constants (`GatewayAssumption`,
`EntreeAssumption`, `FetchAssumption`, `MessageAssumption`, `IndexAssumption`,
`WalkAssumption`, `CrawlAssumption`, `EnqueueAssumption`, `Domain64Assumption`, `ServeAssumption`), which TLC evaluates in every run.

**HostGateway.** `Polite`, `WaitHonoured`, `Implements`. The invariant says that
the lock excludes (`MutexInv`), that the map holds the last grant and none is in
the future (`LastIsGrant`), and, the heart, that what the test found is still true
at the second reading of the clock (`StampReady`): the write lock is held between
them and the clock only grows. A promised wait never reaches beyond the current
window (`PromiseBound`), so a grant, which comes after the window, keeps it.

**Entree.** `BurstBounded`: single jobs without a hall pass accepted for a page
while it is due are at most `MaxWorkers`. The property alone is not inductive;
`BurstInv` adds that while the page is fresh, those accepted and those *still on
their way past the check* (`Passed`) together are at most `MaxWorkers`. The check of a
fresh row admits nobody, and those already past it are workers (`PoolInv`).
Needs statements that do not fail. `HallPassHandedOver`: for any
faults and crashes. `FullPassAnswered`: a page that a full pass reset is due, or a fetch of it is
on its way (in the hands of a worker or the goroutine, or committed), until one takes it up. The
row is made fresh by accepts, each of which is about to send, and by fetches: one that read the
page after the pass has answered it (`PassInv`), one that read it before is late. So of
everything that may come between a pass and its fetch only two things undo it, a late fetch
and a crash with the message in the process's hands, and both are what the code does
(section 6). `AcceptedInFlight`: until the process first dies. What comes after is
`CrashLossBounded`: a crash adds to the pages whose deadline was moved and that no fetch will
come for (`Lost`) only those that a worker was about to send, or that the channel held. The
proof counts: what a crash adds is the image of the running jobs and of the one in the channel,
of which there are `MaxWorkers + 1` at most; no other step adds any (`LossInv`).

**Fetch.** `DeliveredCommitted` and `NextFindsPage` rest on `StageInv`, which
says for each step what has been stored and sent when a worker is there, the statements
that failed and were only logged being kept in `missing`; sends
are kept by `MessageKept` (a message only moves from the channel to the table).
`GatecrashBound` rests on `GateInv`: once a host is stamped nobody joins the
workers that were told it did not exist (`Strangers`), and one worker of the pool
was granted. `CrashLoss` follows each job through queue, worker and channel over any number of
crashes: a worker that dies leaves its job stuck, to be rescued, unless it was about to
return, and then it had answered the page or handed its job to the goroutine. So a crash loses
the page of the one message that the goroutine held, and no other step loses any. `NoJobLost`
is the case without a crash.

Two theorems are about `Fetch` with history variables that watch it and hinder no step
(`Watching` determines them). `GateIsPolite`: the gateway inside `Fetch`, of which only the ages of
stamps are kept, makes the steps of `PoliteGate`, or starts it anew in a crash. So `Fetch` works
with the gateway that `HostGateway` implements, although it takes each call for one step.
`HostsAreSpared` puts the gate, the workers that overrule it and the clock together:
in one life of the process, the number of jobs that were let through to a host is at most the
number of workers plus the full polite sleeps that have passed. Its invariant (`Recorded`) says
that a host's age is that of its last grant, that n grants took n - 1 sleeps, and that whoever was
let through was granted the host or is one of the few of `GatecrashBounded`. The
bound is tight: TLC finds two workers let through four jobs in two polite sleeps.

**Index.** `LastPagePacked`: for an extract process that does not die and calls
that do not fail, the last content under a key is packed or still on its way.
It is inductive together with what each pack worker has inserted so far
(`InsertedInv`) because of the order of save and send: a save changes what is to
be packed, but leaves its worker before a send, which counts as on its way. The
lemma `ToldGoes` follows the job from there: it only moves between channel, table and worker, and the worker that takes it loads what lies under the
key *then*. If the key is overwritten afterwards, the overwriting worker is the
one before a send. `BodyTitled`: a worker inserts what it loaded once, so rows of one
body belong together however the key changes; needs inserts that do not fail.
`PackFinds` is for any faults and crashes, and for jobs that admin sends for whatever document:
the save comes before the message (`SavedInv`), so while a key is empty the channel has no
message for it, and its pack jobs, wherever they wait or are at work, are no more than those
that admin was asked for (`PackJobsCome` counts them through every step). `CrashLoss` says what is left of `LastPagePacked` when extract dies: a document
whose last content is neither packed nor on its way is to be extracted again (`Redone`), but for
one document for each crash, that of the message in the channel.

**Walk.** `OffersAreBounded` has the shape of `BurstBounded`: while a link is
cached, the entries and the workers that looked before the first of them (`Passed`)
are together at most `MaxWorkers` (`EnteredInv`). `CachedOffered` holds over crashes, because
the cache dies with those who are to send what it has. `WalkedOffered` rests on `ScannedInv`:
while a worker has a job, each link of its page is still to be looked up, in its hand, or on its
way to entree. When the cache says it has a link, it is on its way by
`CachedIsOffered`; from there the lemma `StaysOnItsWay` follows it through `linkSet`, channel and
table. `CrashLoss`: a job that left a link to another worker may be completed when that worker
dies, and will not look again, but the job of the worker who had entered the link is
not completed and finds it again. Only the message in the channel may belong to a job that is
completed, so each crash loses one page at most (`FoundInv`: what a worker has in hand are
links of its own page).

**Crawl.** `EveryPageReached` speaks of the end of a crawl, so its invariant has to say where a
page is before that. A page is `Carried` from the moment a walker has it in its `linkSet`
until its fetch is recorded. Three things keep a link from being followed, and
each must be a sign that somebody else follows it: a fresh row (`FreshInv`: its page was
recrawled or a fetch of it is under way), the cache (`CacheInv`: the link is carried),
and that a page has been walked (`EdgeInv`: each of its links is carried, or is
still to be scanned, `ToScan`, or its page will be walked by a job that is still there,
`ToWalk`). Each holds only together with the others: a link that entree turns away is
safe by `FreshInv`, one that walk leaves out by `CacheInv`. The lemmas say once that a page stops being on
its way only by being recrawled or becoming an exception, and the proof of each step
cites them. At rest nothing is on its way, and what is left is the property.

That a crawl ends is liveness, but what it rests on is not. `Stages` is what a page goes through,
from the events that are left, the rows that are due and the jobs that found them due, to the
links a walker has to send and the entries that may expire. `WorkIsUsedUp`: every step that
changes the state lowers the first stage that it changes (`CrawlDescends`), whatever the links
are; the one step that sends a page around the circle again, an accept, spends a row that was
due or a job that had found it so. `WorkRunsOut`: on finitely many pages this order has no
infinite descent (the library's theorem on lexicographic orders, over the order of the counts,
whose well-foundedness is proved by a least counterexample). `CrawlGoesOn`: while anything
is under way some service can go on (`Ready`), so a crawl does not stop half-way either. With the weak
fairness of `Work` the three are the argument for `CrawlEnds`; that last step needs
ENABLED and is left to TLC.

**Enqueue.** `ReceivedCommitted` and `InOrder` need to know which message the
goroutine holds: it is the last its sender sent (`StepInv`), so when the next one is
received the one before is committed. A crash sets back only senders that were not
answered, and the jobs of what they had sent stay: a copy that is committed later has its
predecessor's first copy before it. `StallNeedsLeaks` rests on `OpenInv`: open
transactions are those that were leaked and the goroutine's own. `Implements` maps
each step to one of `Outbox` or a stutter; a message is lost without a crash only if its
name is unknown or its insert refused. `DeathLoss`: of the senders that were answered, a death of the
process leaves one without its last message, however many were waiting for the commit: the channel
holds one.

**The channel in the other modules.** `Entree`, `Fetch`, `Index` and `Walk` have the channel and its
goroutine as one variable, `slot`, with two steps, a send and `Commit`. `SlotIsOutbox`, one theorem in
each of their proof modules, justifies that: with a history of what is committed (`Committing`)
each implements `Outbox`, the module that `Enqueue` implements, with no lossy messages, since none
of them sends a queue name that the switch does not know or River refuses.

**Domain64, Serve.** `RangeIsBelow`: for every table and size of fields, a
range selects the names below the one it is made for, without the number at its
end, and, if the table has nothing below that name, the number zero. Numbers are
ordered as their fields are, field by field (`NumberOrder`, from `Digits`, the same for
two digits to any base), which is what decides each comparison; no step multiplies out.
`Overlapping`: any two requests at work have met, so that whatever lies under a key that `v`
has written is `v`'s or of one that came while `v` was at work (`LeftByNear`). A
count carries the bounds it was made of, which are near to the request that made it
(`BoundsAreNear`), and the page what it read (`ShownIsNear`). `SearchFinds` puts the
two together.

**Only model-checked.** Liveness (`JobsComplete`, `AskedIsAnswered`,
`EventuallyPacked`, `CrawlEnds`, `SendersServed`): TLAPS does
not reason about fairness and ENABLED here; of `CrawlEnds` all but that is proved (above). Induction
over data is out of the provers' reach as well, so no theorem says what a recursive definition
computes; the modules with theorems have none. Every invariant and action property of a run
that passes is a theorem. The disagreements of section 6 are
counterexamples, not theorems.

## 6. Where the code and its documents disagree

`entree_lost` is a run in which TLC finds the behaviour: the deadline is moved before
the fetch is sent; a crash in between, and the job that is run again finds the page
fresh (`accept_logic.go:97`, `docs/adr/0002-queues.md:21`).

Further disagreements met while modelling. The models contain those that are about
what is modelled, but no standing run shows them:

* a fetch under way during a full pass moves the deadline that the pass had reset
  (`cmd/fetch/work.go:242`, `README.md:54`); that and a crash are the only
  two ways to lose a page of a pass, as `FullPassIsAnswered` states;
* all pages of a PDF are saved under one key, and pages replaced before they are
  packed never are (`cmd/extract/pdf.go:88`, `docs/architecture/extract.md:26` and
  `:28`); what does hold is `LastPageIsPacked`;
* schedules have no effect: the lookup is of `.Schedule.` (`config/domain64.go:144`)
  in a table that has `Schedules` (`domain64.jsonnet:86`), so every host is crawled
  monthly (`README.md:56`); the names `Quarterly`, `BiAnnually`, `Annually` are spelled
  with a capital there, the others without (`domain64.go:151-164`);
* the range of a page excludes its end (`search_db-query.sql:58`) and is computed as if it
  included it (`cmd/serve/main.go:109` and `:128`): a name numbered FFFFFF is found only by
  its own page (`AtTheEnd`);
* the pages of a host without a number are stored under zero (`cmd/pack/html.go:14`), and a
  search for a name nobody has begins at zero: it finds all of them (`AtZero`). entree
  refuses such hosts, a fetch that admin is asked for does not pass entree;
* concurrent page requests of serve can be rendered with each other's parameters, or end
  the process (`cmd/serve/main.go:110`); the exact extent is `AnswersFromOverlapping`;
* admin answers "ok" when its last message is received, before it is committed
  (`cmd/admin/main.go:79`): a crash then loses it, while the record of the request, its
  first message, is there (`ReceivedIsCommitted` has this case);
* a message with an unknown queue name keeps a connection for ever
  (`generic_insert.go:168`). No sender in `src/` uses such a name now; `validate` is a
  service whose queue has no case;
* resultsapi formats the top-level domain's name as if it were its number
  (`cmd/resultsapi/main.go:175`); what is left of an affiliate with three or more
  labels is such a search, which finds nothing;
* collect makes keys of seconds (`cmd/collect/work.go:180`) where the documentation has
  nanoseconds (`docs/architecture/collect.md:46`): two objects of a source within a
  second are one;
* with one queue per host, a job of a host outside `allowed_hosts` that comes too
  soon is sent to a queue that has no workers (`cmd/fetch/work.go:112`; the comment
  at 128 says it is "done and done right"); the shipped queue model is `simple`;
* admin sends a pack job for any host and path (`cmd/admin/main.go:147`); without an object the
  error path of pack uses what it did not get (`cmd/pack/work.go:21`), so the worker panics
  where the code means to log and return (`PackFindsObject` says that no job of extract does);
* of a link to `/` `trimSuffix` leaves an empty path (`cmd/walk/work.go:119`), and entree skips
  the job (`cmd/entree/work.go:48`): a site's front page is not reached by its links;
* a link that starts with two slashes leads to the host it names, before the test of the
  top-level domain is reached (`cmd/walk/work.go:180`, comment at 209);
* a page that links to itself offers itself: it enters its storage key in the
  cache, and links are looked up by URL (`cmd/walk/work.go:258`, comment at 256);
* links that walk's cache has from before a full pass are not followed in that pass
  (`cmd/walk/work.go:103`, `README.md:54`): a page that is reached only by such links is
  not crawled again, though its row is due (`PassReachesAll` has this exception and no wider);
* absolute links are never followed, also within the site: the last line of
  `isCrawlable` cannot decide (`cmd/walk/work.go:214`); a relative link is appended
  to the path of the page also when that is a file (`:193`);
* a walk job that fails to load its page is completed (`:253`), and after two
  panics or crashes it is dropped (`:230`);
* after one single pass for a foreign host, links of that host to pages without a row
  are accepted (`accept_logic.go:200`; `README.md:64` says allowed_hosts limits
  what can be crawled);
* the first job of a host is requeued and also fetched (`cmd/fetch/work.go:134`,
  comments at 128 and 135-136);
* a pack job that is run again, or a document that is fetched again, inserts its
  rows again, as nothing makes them unique (`cmd/pack/html.go:23`;
  `docs/architecture/pipeline.md:22` says uniqueness is handled at this point);
* two links to one due page are both accepted, though the comment at
  `accept_logic.go:91-93` says the early update prevents it (the exact bound is
  `SingleBurstBounded`);
* the gateway's answer for a new host is ignored (`cmd/fetch/work.go:139`,
  comment at 160-161; the exact bound is `GatecrashBounded`);
* `last_fetched` is also written when a page is only accepted
  (`work_db-query.sql:39`, `docs/architecture/databases/work.md:42`);
* a host's deadline is not reset when its full pass is accepted
  (`accept_logic.go:164`), and a restart of entree moves it 30 days ahead
  (`cmd/entree/main.go:53`, `docs/architecture/entree.md:60`);
* a message in the Enqueue goroutine's hands is lost when the process dies
  (`generic_insert.go:54`, `docs/adr/0002-queues.md:21`);
* an error while storing raw content is only logged (`work_support.go:210-215`,
  `docs/architecture/fetch.md:26`), and the guestbook is updated before the
  document is saved (`cmd/fetch/work.go:244` and `:284`,
  `docs/architecture/fetch.md:7-8`).

## 7. What is not modelled

* Schedules: a host has one period (see section 6: in effect it has). HTTP: a fetch
  succeeds, is rejected, or fails.
* Fetch: the chunked download, its hash, and temporary files.
* Contents of pages: what links, text and titles are found. Search: stemming, ranking
  and snippets; the counts of a page when their query fails.
* `crontab.go` of entree and `perhostlock.go` of pack: nothing calls them.
* `ClearCompletedPeriodically`: it deletes jobs that are finished, which no one reads.
* collect: a job validates its data with a library and uploads it; it shares nothing
  with other jobs but the key (section 6).
* resultsapi: it keeps nothing between requests. Its ranges for affiliates of one and two
  labels are those of serve's pages, which `Domain64` has.
* validate, which does nothing with its jobs; migrate, env, vcap, logging.
* River's own tables and SQL: a job's states as listed in section 1.
* `cmd/serve/static/assets/js/uswds.js` and `uswds-init.js`, the compiled bundle of the
  U.S. Web Design System. It is third-party code for menus and form controls in a browser,
  has no part in the crawl or the search, and none of the modules maps its lines.

## 8. What could come next

1. **Collect**: keys by the second against several workers and repeated jobs.
2. **Schedule**: what a schedule string becomes, once the lookup finds one.
