-------------------------------- MODULE Walk --------------------------------
(***************************************************************************)
(* cmd/walk: from the links of a page to jobs of entree.                   *)
(*                                                                         *)
(* The walk workers share a cache of links.  For each link of its page a   *)
(* worker looks whether the cache has it, and if not, enters it there and  *)
(* in a set of its own, which it sends when the page is done.  Between the *)
(* look and the entry any other worker may do the same, the entries        *)
(* expire, and a link that is in the cache may not have been sent yet.     *)
(***************************************************************************)
EXTENDS Integers, FiniteSets, Sequences

CONSTANTS
  Job,            \* the walk jobs
  PageOf,         \* PageOf[j]: the page that j walks
  Content,        \* Content[j]: the hrefs in the raw content of that page
  Rejected,       \* the hrefs that do not parse or that IsReject turns away
  NoPath,         \* "no message"
  NoLink,         \* "no link"
  MaxWorkers,     \* workers of the walk queue
  TTL,            \* cache-ttl, in ticks
  MaxTrouble      \* bound on failed reads and crashes together

MaxFailedAttempts == 2

\* A page as entree knows it: a path is a sequence of names.
Location == [host: STRING, path: Seq(STRING)]

\* An href, with a trailing slash or not: "/path", "path", "//host/path" or
\* "http://host/path".
Href == [kind: {"root", "relative", "network", "absolute"},
         host: STRING, path: Seq(STRING), slash: BOOLEAN]

\* isCrawlable decides for hrefs that start with a slash and for relative ones;
\* for any other its last line is "could not decide".
IsCrawlable(href) == href \notin Rejected /\ href.kind # "absolute"

\* A root reference replaces the path of the page; a relative one is appended to
\* it, also when the page is a file.  One that starts with two slashes leads to the
\* host it names, whatever the top-level domain: the test for that comes later.
Resolved(page, href) ==
  [host |-> IF href.kind = "network" THEN href.host ELSE page.host,
   path |-> IF href.kind = "relative" THEN page.path \o href.path ELSE href.path,
   slash |-> href.slash]

\* The links of a job's page.
Found(j) == {Resolved(PageOf[j], href) : href \in {x \in Content[j] : IsCrawlable(x)}}

Url == UNION {Found(j) : j \in Job}

\* trimSuffix: links that differ in the last slash are one page to entree, but
\* two to the cache.  (Of "/" nothing is left, and entree drops the job: Crawl.)
Target(u) == [host |-> u.host, path |-> u.path]

ASSUME WalkAssumption ==
  /\ IsFiniteSet(Job)
  /\ \A j \in Job : PageOf[j] \in Location /\ Content[j] \subseteq Href
  /\ NoPath \notin {Target(u) : u \in Url}
  /\ MaxWorkers \in Nat \ {0} /\ TTL \in Nat \ {0} /\ MaxTrouble \in Nat

VARIABLES
  phase,      \* the process: "down", "boot", "cache" or "up"
  state,      \* state[j]: what River knows of j
  attempt,    \* attempt[j]: how often j was taken
  pc,         \* pc[j]: what the worker of j does next
  todo,       \* todo[j]: links of the page not looked up yet
  link,       \* link[j]: the link that was not in the cache
  links,      \* links[j]: the linkSet, from which the worker sends
  ttl,        \* ttl[u]: ticks until u expires from the cache, 0 if not there
  slot,       \* the page of the message the Enqueue goroutine holds
  offered,    \* the pages for which an entree job was committed
  faults,     \* reads of S3 that failed so far
  crashes     \* crashes so far

(* History, for the properties.                                            *)
VARIABLES
  entered,    \* entered[u]: how often u was entered since it was last not cached
  gaveUp      \* jobs that were dropped, or whose content could not be read

job == <<state, attempt>>
worker == <<pc, todo, link, links>>
history == <<entered, gaveUp>>
trouble == <<faults, crashes>>
vars == <<phase, job, worker, ttl, slot, offered, trouble, history>>

Init ==
  /\ phase = "down"
  /\ state = [j \in Job |-> "available"]
  /\ attempt = [j \in Job |-> 0]
  /\ pc = [j \in Job |-> "idle"]
  /\ todo = [j \in Job |-> {}]
  /\ link = [j \in Job |-> NoLink]
  /\ links = [j \in Job |-> {}]
  /\ ttl = [u \in Url |-> 0]
  /\ slot = NoPath
  /\ offered = {}
  /\ faults = 0 /\ crashes = 0
  /\ entered = [u \in Url |-> 0]
  /\ gaveUp = {}

Working == {j \in Job : pc[j] # "idle"}

Goto(j, step) == pc' = [pc EXCEPT ![j] = step]

GiveUp(j) == Goto(j, "return") /\ gaveUp' = gaveUp \cup {j}

-----------------------------------------------------------------------------
(* Work.                                                                   *)

\* A read of S3 fails: an error is logged at most, and the job done.
Fault(j) ==
  /\ faults + crashes < MaxTrouble
  /\ faults' = faults + 1 /\ UNCHANGED crashes
  /\ GiveUp(j)

\* A worker takes the job; at its third attempt it is dropped as a zombie.
Take(j) ==
  /\ phase # "down"
  /\ state[j] = "available" /\ Cardinality(Working) < MaxWorkers
  /\ state' = [state EXCEPT ![j] = "running"]
  /\ attempt' = [attempt EXCEPT ![j] = @ + 1]
  /\ IF attempt[j] + 1 > MaxFailedAttempts
       THEN GiveUp(j) ELSE Goto(j, "load") /\ UNCHANGED gaveUp
  /\ UNCHANGED <<phase, todo, link, links, ttl, slot, offered, trouble, entered>>

\* s3json.Load(): if it fails the job is skipped quietly.  Then the page enters its
\* storage key in the cache.  No link is spelled like that, so the entry is never
\* hit: a page that links to itself offers itself.
Load(j) ==
  /\ pc[j] = "load"
  /\ \/ phase # "boot" /\ Goto(j, "copy") /\ UNCHANGED <<trouble, gaveUp>>
     \/ Fault(j)
  /\ UNCHANGED <<phase, job, todo, link, links, ttl, slot, offered, entered>>

\* Before main() has made the cache, entering the key panics, and River retries
\* the job.
Panic(j) ==
  /\ pc[j] = "load" /\ phase = "boot"
  /\ Goto(j, "idle")
  /\ state' = [state EXCEPT ![j] = "available"]
  /\ UNCHANGED <<phase, attempt, todo, link, links, ttl, slot, offered, trouble, history>>

\* extractLinks copies the raw content; on an error the page has no links.
CopyRaw(j) ==
  /\ pc[j] = "copy"
  /\ \/ /\ Goto(j, "scan") /\ todo' = [todo EXCEPT ![j] = Found(j)]
        /\ UNCHANGED <<trouble, gaveUp>>
     \/ Fault(j) /\ UNCHANGED todo
  /\ UNCHANGED <<phase, job, link, links, ttl, slot, offered, entered>>

\* Seeded fault: links are entered under another key than they are looked up by.
NeverCached(u) == FALSE

Cached(u) == ttl[u] > 0

\* expirableCache.Get.
LookUp(j) ==
  /\ pc[j] = "scan"
  /\ \E u \in todo[j] :
       /\ todo' = [todo EXCEPT ![j] = @ \ {u}]
       /\ IF Cached(u) THEN UNCHANGED <<pc, link>>
                       ELSE Goto(j, "enter") /\ link' = [link EXCEPT ![j] = u]
  /\ UNCHANGED <<phase, job, links, ttl, slot, offered, trouble, history>>

\* Seeded fault: the worker forgets what it has collected.
LinkOnly(j) == {link[j]}

Collected(j) == links[j] \cup {link[j]}

\* expirableCache.Set, and linkSet.
Enter(j) ==
  /\ pc[j] = "enter"
  /\ ttl' = [ttl EXCEPT ![link[j]] = TTL]
  /\ entered' = [entered EXCEPT ![link[j]] = @ + 1]
  /\ links' = [links EXCEPT ![j] = Collected(j)]
  /\ link' = [link EXCEPT ![j] = NoLink]
  /\ Goto(j, "scan")
  /\ UNCHANGED <<phase, job, todo, slot, offered, trouble, gaveUp>>

\* walkHTML: ChQSHP <- a message for entree, for each of the set.
SendLink(j) ==
  /\ pc[j] \in {"scan", "send"} /\ todo[j] = {}
  /\ phase = "up" /\ slot = NoPath
  /\ \E u \in links[j] :
       /\ slot' = Target(u)
       /\ links' = [links EXCEPT ![j] = @ \ {u}]
  /\ Goto(j, "send")
  /\ UNCHANGED <<phase, job, todo, link, ttl, offered, trouble, history>>

\* Seeded fault: the loop over the links ends early.
SentSome(j) == Cardinality(links[j]) <= 1

AllSent(j) == links[j] = {}

\* Work returns: after the last send, or where it gave up.
Return(j) ==
  /\ pc[j] = "return" \/ (pc[j] \in {"scan", "send"} /\ todo[j] = {} /\ AllSent(j))
  /\ Goto(j, "idle")
  /\ state' = [state EXCEPT ![j] = "completed"]
  /\ links' = [links EXCEPT ![j] = {}]
  /\ UNCHANGED <<phase, attempt, todo, link, ttl, slot, offered, trouble, history>>

-----------------------------------------------------------------------------
(* The process around the workers.                                         *)

\* The Enqueue goroutine commits the entree job.
Commit ==
  /\ phase = "up" /\ slot # NoPath
  /\ offered' = offered \cup {slot}
  /\ slot' = NoPath
  /\ UNCHANGED <<phase, job, worker, ttl, trouble, history>>

\* The cache expires by itself.
Tick ==
  /\ \E u \in Url : ttl[u] > 0
  /\ ttl' = [u \in Url |-> IF ttl[u] > 0 THEN ttl[u] - 1 ELSE 0]
  /\ entered' = [u \in Url |-> IF ttl[u] > 1 THEN entered[u] ELSE 0]
  /\ UNCHANGED <<phase, job, worker, slot, offered, trouble, gaveUp>>

\* Seeded fault: the cache outlives the process.
CacheKept == ttl

EmptyCache == [u \in Url |-> 0]

\* The process dies, and the cache with it.
Crash ==
  /\ phase # "down" /\ faults + crashes < MaxTrouble
  /\ crashes' = crashes + 1
  /\ phase' = "down"
  /\ state' = [j \in Job |-> IF state[j] = "running" THEN "stuck" ELSE state[j]]
  /\ pc' = [j \in Job |-> "idle"]
  /\ todo' = [j \in Job |-> {}] /\ link' = [j \in Job |-> NoLink]
  /\ links' = [j \in Job |-> {}]
  /\ ttl' = EmptyCache /\ entered' = [u \in Url |-> 0]
  /\ slot' = NoPath
  /\ UNCHANGED <<attempt, offered, faults, gaveUp>>

\* InitializeQueues: the workers run.
Boot ==
  /\ phase = "down" /\ phase' = "boot"
  /\ UNCHANGED <<job, worker, ttl, slot, offered, trouble, history>>

NewCache ==
  /\ phase = "boot" /\ phase' = "cache"
  /\ UNCHANGED <<job, worker, ttl, slot, offered, trouble, history>>

StartEnqueue ==
  /\ phase = "cache" /\ phase' = "up"
  /\ UNCHANGED <<job, worker, ttl, slot, offered, trouble, history>>

\* Seeded fault: River gives up on a worker that still runs.
RescueRunning(j) ==
  /\ state[j] \in {"stuck", "running"}
  /\ state' = [state EXCEPT ![j] = "available"]
  /\ UNCHANGED <<phase, attempt, worker, ttl, slot, offered, trouble, history>>

\* River makes the jobs of a dead process available again.
Rescue(j) ==
  /\ state[j] = "stuck"
  /\ state' = [state EXCEPT ![j] = "available"]
  /\ UNCHANGED <<phase, attempt, worker, ttl, slot, offered, trouble, history>>

Done ==
  /\ \A j \in Job : state[j] = "completed"
  /\ UNCHANGED vars

-----------------------------------------------------------------------------
Work(j) ==
  \/ Load(j) \/ Panic(j) \/ CopyRaw(j)
  \/ LookUp(j) \/ Enter(j) \/ SendLink(j) \/ Return(j)

Startup == Boot \/ NewCache \/ StartEnqueue

Next ==
  \/ \E j \in Job : Take(j) \/ Work(j) \/ Rescue(j)
  \/ Commit \/ Tick \/ Crash \/ Startup \/ Done

Spec == Init /\ [][Next]_vars

-----------------------------------------------------------------------------
(* Properties that hold.                                                   *)

TypeOK ==
  /\ phase \in {"down", "boot", "cache", "up"}
  /\ state \in [Job -> {"available", "running", "stuck", "completed"}]
  /\ attempt \in [Job -> Nat]
  /\ pc \in [Job -> {"idle", "load", "copy", "scan", "enter", "send", "return"}]
  /\ \A j \in Job : pc[j] # "idle" <=> state[j] = "running"
  /\ todo \in [Job -> SUBSET Url]
  /\ link \in [Job -> Url \cup {NoLink}]
  /\ links \in [Job -> SUBSET Url]
  /\ \A j \in Job : pc[j] = "enter" => link[j] \in Url
  /\ \A j \in Job : links[j] # {} => pc[j] \in {"scan", "enter", "send"}
  /\ ttl \in [Url -> 0..TTL]
  /\ slot \in {Target(u) : u \in Url} \cup {NoPath}
  /\ offered \subseteq {Target(u) : u \in Url}
  /\ faults \in Nat /\ crashes \in Nat
  /\ entered \in [Url -> Nat]
  /\ gaveUp \subseteq Job

\* The page of u was offered to entree, or will be by the workers of this process.
OnItsWay(u) ==
  \/ Target(u) \in offered
  \/ slot = Target(u)
  \/ \E j \in Job : u \in links[j]

\* The look and the entry are two steps, and still a link is offered at most once
\* per worker while the cache has it: whoever looks after the first entry finds it.
OffersBounded == \A u \in Url : entered[u] <= MaxWorkers

\* The cache does not swallow links: what a worker passes over because it is cached
\* was offered, or is in the hands of a worker that will; also when the process
\* has died before.
CachedIsOffered == \A u \in Url : Cached(u) => OnItsWay(u)

\* When a job is completed, and was not given up, all the links of its page
\* are offered or on their way, its own and those it left to other workers.
WalkedIsOffered ==
  crashes = 0 =>
    \A j \in Job :
      state[j] = "completed" /\ j \notin gaveUp => \A u \in Found(j) : OnItsWay(u)

\* All who found the link have done their job, and none of them gave up.
Walked(u) ==
  /\ \E j \in Job : u \in Found(j)
  /\ \A j \in Job : u \in Found(j) => state[j] = "completed" /\ j \notin gaveUp

Lost == {Target(u) : u \in {v \in Url : Walked(v) /\ ~OnItsWay(v)}}

\* A crash loses one page at most, the one of the message in the channel: a link
\* that a job left to the worker who had entered it is found again when the job of
\* that worker is.
CrashLosesOne == Cardinality(Lost) <= crashes

-----------------------------------------------------------------------------
(* The inductive invariant behind the safety properties.                   *)

PoolInv == IsFiniteSet(Working) /\ Cardinality(Working) <= MaxWorkers

\* The workers that have looked u up in vain and have not entered it yet.
Passed(u) == {j \in Job : pc[j] = "enter" /\ link[j] = u}

\* While u is cached nobody joins those who have passed.
EnteredInv ==
  \A u \in Url :
    /\ ttl[u] = 0 => entered[u] = 0
    /\ ttl[u] > 0 => entered[u] + Cardinality(Passed(u)) <= MaxWorkers

\* What a worker has behind it is on its way.
ScannedInv ==
  \A j \in Job, u \in Url :
    u \in Found(j) /\ j \notin gaveUp /\ pc[j] \in {"scan", "enter", "send"} =>
      u \in todo[j] \/ (pc[j] = "enter" /\ link[j] = u) \/ OnItsWay(u)

\* A worker has only links of its own page in hand.
FoundInv ==
  \A j \in Job :
    /\ todo[j] \subseteq Found(j) /\ links[j] \subseteq Found(j)
    /\ pc[j] = "enter" => link[j] \in Found(j)

LossInv == IsFiniteSet(Lost) /\ CrashLosesOne

\* Nothing is left to look up when the sends begin, and who returns early gave up.
ControlInv ==
  \A j \in Job :
    /\ pc[j] = "send" => todo[j] = {}
    /\ pc[j] = "return" => j \in gaveUp

IInv ==
  /\ TypeOK
  /\ PoolInv
  /\ EnteredInv
  /\ ControlInv
  /\ ScannedInv
  /\ CachedIsOffered
  /\ WalkedIsOffered
  /\ FoundInv
  /\ LossInv

=============================================================================
