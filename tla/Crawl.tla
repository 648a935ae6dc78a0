-------------------------------- MODULE Crawl --------------------------------
(***************************************************************************)
(* A crawl of one host: entree, fetch and walk feed one another.           *)
(*                                                                         *)
(* A full pass makes every row of the guestbook due and lets the root in.  *)
(* A page that entree lets in is fetched; a page that was fetched is       *)
(* walked; walk offers its links to entree (those to other hosts, which    *)
(* only an href like //host/path gives, are left out).  Nobody knows the   *)
(* whole: that the crawl reaches every page, and that it ends although     *)
(* pages link in circles, rests on the guestbook, which entree and fetch   *)
(* both write, and on walk's cache, which forgets by itself.               *)
(*                                                                         *)
(* Each service takes coarser steps here than in its own module: River's   *)
(* states, the start of a process, the gateway's waits and the channel of  *)
(* a process are left to Entree, Fetch and Walk, save where a crash loses  *)
(* what the channel holds; so are statements that fail and are only        *)
(* logged.  Jobs are told apart by their page only.                        *)
(***************************************************************************)
EXTENDS Integers, FiniteSets

CONSTANTS
  Page,         \* the pages of the host
  Root,         \* the page a full pass starts from
  Links,        \* Links[p]: the pages p links to, as walk resolves and trims them
  Blank,        \* the page of a link like "/", whose path is empty when trimmed
  Gone,         \* pages that fetch may drop: not indexable, too large, too small
  Walker,       \* workers of the walk queue
  NoPage,       \* "no page"
  MaxEvents     \* bound on full passes, crashes, retries, failed reads and
                \*   passing deadlines together

ASSUME CrawlAssumption ==
  /\ Root \in Page
  /\ Links \in [Page -> SUBSET Page]
  /\ Blank \subseteq Page \ {Root}
  /\ Gone \subseteq Page
  /\ NoPage \notin Page
  /\ IsFiniteSet(Walker)
  /\ MaxEvents \in Nat

VARIABLES
  guest,      \* guest[p]: the row of p: "none", "due" or "fresh"
  pass,       \* the job of a full pass: "no", "asked", "root" or "send"
  asked,      \* asked[p]: single no-pass jobs for p in the entree queue
  passed,     \* passed[p]: those that found p due and have not written its row
  sending,    \* sending[p]: those that have, and whose fetch job is not committed
  toFetch,    \* toFetch[p]: fetch jobs for p
  fetching,   \* fetching[p]: workers that have the content of p
  saved,      \* saved[p]: those that have written the row and saved the page
  toWalk,     \* toWalk[p]: walk jobs for p
  at,         \* at[w]: the page walker w walks, or NoPage
  todo,       \* todo[w]: its links not looked up yet
  link,       \* link[w]: the link that was not in the cache, or NoPage
  links,      \* links[w]: the linkSet
  cached,     \* walk's cache
  slot,       \* the page of the message walk's Enqueue goroutine holds, or NoPage
  events      \* full passes, crashes, retries, failed reads and passed deadlines

(* History, for the properties.                                            *)
VARIABLES
  active,     \* a full pass has reset the guestbook
  recrawled,  \* pages recorded as fetched since then
  exempt      \* pages this crawl need not reach, see PassReachesAll

entree == <<pass, asked, passed, sending>>
fetch == <<toFetch, fetching, saved>>
walker == <<at, todo, link, links>>
walk == <<toWalk, walker, cached, slot>>
history == <<active, recrawled, exempt>>
vars == <<guest, entree, fetch, walk, events, history>>

More(count, p) == [count EXCEPT ![p] = @ + 1]
Less(count, p) == [count EXCEPT ![p] = @ - 1]

None == [p \in Page |-> 0]

\* Nothing is under way; the guestbook and the cache are what earlier crawls and
\* passing time left of them.
Init ==
  /\ guest \in [Page -> {"none", "due", "fresh"}]
  /\ \A p \in Blank : guest[p] = "none"
  /\ cached \in SUBSET Page
  /\ pass = "no" /\ asked = None /\ passed = None /\ sending = None
  /\ toFetch = None /\ fetching = None /\ saved = None
  /\ toWalk = None
  /\ at = [w \in Walker |-> NoPage]
  /\ todo = [w \in Walker |-> {}]
  /\ link = [w \in Walker |-> NoPage]
  /\ links = [w \in Walker |-> {}]
  /\ slot = NoPage
  /\ events = 0
  /\ active = FALSE /\ recrawled = {} /\ exempt = {}

\* Something happens that no service brings about by itself.
Event == events < MaxEvents /\ events' = events + 1

\* A fetch of p is on its way, from the moment entree has written its row.
InFetch(p) ==
  \/ sending[p] > 0 \/ toFetch[p] > 0 \/ fetching[p] > 0
  \/ p = Root /\ pass # "no"

\* p is on its way to entree, or behind it.
Carried(p) ==
  \/ InFetch(p)
  \/ asked[p] > 0 \/ passed[p] > 0
  \/ slot = p
  \/ \E w \in Walker : p \in links[w]

-----------------------------------------------------------------------------
(* entree.                                                                 *)

\* admin asks for a full pass, one at a time.
AskPass ==
  /\ pass = "no"
  /\ Event
  /\ pass' = "asked"
  /\ UNCHANGED <<guest, asked, passed, sending, fetch, walk, history>>

ResetToYesterday(row) == IF row = "none" THEN "none" ELSE "due"

\* IsFullWithPass: every row of the host is due.
ResetGuestbook ==
  /\ pass = "asked"
  /\ guest' = [p \in Page |-> ResetToYesterday(guest[p])]
  /\ pass' = "root"
  /\ active' = TRUE
  /\ recrawled' = {}
  /\ exempt' = {p \in cached : ~Carried(p)}
  /\ UNCHANGED <<asked, passed, sending, fetch, walk, events>>

\* UpdateGuestbookNextFetch for the root.
AcceptRoot ==
  /\ pass = "root"
  /\ guest' = [guest EXCEPT ![Root] = "fresh"]
  /\ pass' = "send"
  /\ UNCHANGED <<asked, passed, sending, fetch, walk, events, history>>

SendRoot ==
  /\ pass = "send"
  /\ toFetch' = More(toFetch, Root)
  /\ pass' = "no"
  /\ UNCHANGED <<guest, asked, passed, sending, fetching, saved, walk, events, history>>

\* Seeded fault: a row is taken as due whatever its next_fetch says.
AlwaysAfterGuestbook(p) == TRUE

\* No row, or the row's deadline has passed.
AfterGuestbookNextFetch(p) == guest[p] # "fresh"

\* IsSingleNoPass, for a link that walk offers: entree lets it in if it is due.
\* (The host has a row since its first full pass: its own deadline is not asked.)
\* A job with an empty path is dropped before anything is asked.
LookAtRow(p) ==
  /\ asked[p] > 0
  /\ asked' = Less(asked, p)
  /\ passed' = IF p \notin Blank /\ AfterGuestbookNextFetch(p) THEN More(passed, p) ELSE passed
  /\ exempt' = exempt \cup ({p} \cap Blank)
  /\ UNCHANGED <<guest, pass, sending, fetch, walk, events, active, recrawled>>

\* UpdateGuestbookNextFetch.
Accept(p) ==
  /\ passed[p] > 0
  /\ passed' = Less(passed, p)
  /\ guest' = [guest EXCEPT ![p] = "fresh"]
  /\ sending' = More(sending, p)
  /\ UNCHANGED <<pass, asked, fetch, walk, events, history>>

\* Seeded fault: the fetch is sent for a page that was turned away, too.
AcceptedOrNot(p) == TRUE

Accepted(p) == sending[p] > 0

SendFetch(p) ==
  /\ Accepted(p)
  /\ sending' = Less(sending, p)
  /\ toFetch' = More(toFetch, p)
  /\ UNCHANGED <<guest, pass, asked, passed, fetching, saved, walk, events, history>>

\* The process dies.  Its jobs are run again from the start, save one that is
\* done and whose message the Enqueue goroutine still held.  A job that has made
\* the row fresh will find it fresh: its page is lost to this crawl.
EntreeCrash ==
  /\ Event
  /\ \E held \in {None} \cup {More(None, p) : p \in {q \in Page : sending[q] > 0}} :
       asked' = [p \in Page |-> asked[p] + passed[p] + sending[p] - held[p]]
  /\ passed' = None /\ sending' = None
  /\ \/ /\ pass' = IF pass = "no" THEN "no" ELSE "asked"
        /\ exempt' = exempt \cup {p \in Page : sending[p] > 0}
     \/ /\ pass = "send" /\ pass' = "no"
        /\ exempt' = exempt \cup {p \in Page : sending[p] > 0} \cup {Root}
  /\ UNCHANGED <<guest, fetch, walk, active, recrawled>>

\* The deadline of a page passes.
Age(p) ==
  /\ guest[p] = "fresh"
  /\ Event
  /\ guest' = [guest EXCEPT ![p] = "due"]
  /\ UNCHANGED <<entree, fetch, walk, history>>

-----------------------------------------------------------------------------
(* fetch.                                                                  *)

FetchPage(p) ==
  /\ toFetch[p] > 0
  /\ toFetch' = Less(toFetch, p)
  /\ fetching' = More(fetching, p)
  /\ UNCHANGED <<guest, entree, saved, walk, events, history>>

\* The job for p is gone.  If it had recorded p, in an earlier attempt, nobody
\* will walk p on its behalf.
Forgotten(p) == {p} \cup {q \in Links[p] : p \in recrawled}

\* The page is dropped; its row stays as fresh as entree has made it.
DropPage(p) ==
  /\ toFetch[p] > 0 /\ p \in Gone
  /\ toFetch' = Less(toFetch, p)
  /\ exempt' = exempt \cup Forgotten(p)
  /\ UNCHANGED <<guest, entree, fetching, saved, walk, events, active, recrawled>>

\* UpdateGuestbookFetch, then Save.
Record(p) ==
  /\ fetching[p] > 0
  /\ fetching' = Less(fetching, p)
  /\ guest' = [guest EXCEPT ![p] = "fresh"]
  /\ saved' = More(saved, p)
  /\ recrawled' = recrawled \cup {p}
  /\ UNCHANGED <<entree, toFetch, walk, events, active, exempt>>

SendWalk(p) ==
  /\ saved[p] > 0
  /\ saved' = Less(saved, p)
  /\ toWalk' = More(toWalk, p)
  /\ UNCHANGED <<guest, entree, toFetch, fetching, walker, cached, slot, events, history>>

\* The job fails or its process dies, and it is run again.
FetchRetry(p) ==
  /\ Event
  /\ \/ fetching[p] > 0 /\ fetching' = Less(fetching, p) /\ UNCHANGED saved
     \/ saved[p] > 0 /\ saved' = Less(saved, p) /\ UNCHANGED fetching
  /\ toFetch' = More(toFetch, p)
  /\ UNCHANGED <<guest, entree, walk, history>>

\* The job goes on, and is there again all the same: its host was new to the
\* gateway, or the second fetch will fail.
FetchTwice(p) ==
  /\ fetching[p] > 0 \/ saved[p] > 0
  /\ Event
  /\ toFetch' = More(toFetch, p)
  /\ UNCHANGED <<guest, entree, fetching, saved, walk, history>>

\* A job that was requeued as too soon is lost with the channel, or River gives
\* up on one that keeps failing.
FetchLost(p) ==
  /\ toFetch[p] > 0
  /\ Event
  /\ toFetch' = Less(toFetch, p)
  /\ exempt' = exempt \cup Forgotten(p)
  /\ UNCHANGED <<guest, entree, fetching, saved, walk, active, recrawled>>

-----------------------------------------------------------------------------
(* walk.                                                                   *)

Idle(w) == at[w] = NoPage

TakeWalk(w, p) ==
  /\ Idle(w) /\ toWalk[p] > 0
  /\ toWalk' = Less(toWalk, p)
  /\ at' = [at EXCEPT ![w] = p]
  /\ todo' = [todo EXCEPT ![w] = Links[p]]
  /\ UNCHANGED <<guest, entree, fetch, link, links, cached, slot, events, history>>

\* A zombie, or its page cannot be read: the job is done, its links never seen.
DropWalk(p) ==
  /\ toWalk[p] > 0
  /\ Event
  /\ toWalk' = Less(toWalk, p)
  /\ exempt' = exempt \cup Links[p]
  /\ UNCHANGED <<guest, entree, fetch, walker, cached, slot, active, recrawled>>

\* expirableCache.Get.
LookUp(w) ==
  /\ link[w] = NoPage
  /\ \E p \in todo[w] :
       /\ todo' = [todo EXCEPT ![w] = @ \ {p}]
       /\ link' = IF p \in cached THEN link ELSE [link EXCEPT ![w] = p]
  /\ UNCHANGED <<guest, entree, fetch, toWalk, at, links, cached, slot, events, history>>

\* Seeded fault: the worker forgets what it has collected.
LinkOnly(w) == {link[w]}

Collected(w) == links[w] \cup {link[w]}

\* expirableCache.Set, and linkSet.
Enter(w) ==
  /\ link[w] # NoPage
  /\ cached' = cached \cup {link[w]}
  /\ links' = [links EXCEPT ![w] = Collected(w)]
  /\ link' = [link EXCEPT ![w] = NoPage]
  /\ UNCHANGED <<guest, entree, fetch, toWalk, at, todo, slot, events, history>>

Scanned(w) == ~Idle(w) /\ todo[w] = {} /\ link[w] = NoPage

SendLink(w) ==
  /\ Scanned(w) /\ slot = NoPage
  /\ \E p \in links[w] :
       /\ slot' = p
       /\ links' = [links EXCEPT ![w] = @ \ {p}]
  /\ UNCHANGED <<guest, entree, fetch, toWalk, at, todo, link, cached, events, history>>

Return(w) ==
  /\ Scanned(w) /\ links[w] = {}
  /\ at' = [at EXCEPT ![w] = NoPage]
  /\ UNCHANGED <<guest, entree, fetch, toWalk, todo, link, links, cached, slot, events, history>>

\* The Enqueue goroutine commits the entree job.
CommitLink ==
  /\ slot # NoPage
  /\ asked' = More(asked, slot)
  /\ slot' = NoPage
  /\ UNCHANGED <<guest, pass, passed, sending, fetch, toWalk, walker, cached, events, history>>

Expire(p) ==
  /\ p \in cached
  /\ cached' = cached \ {p}
  /\ UNCHANGED <<guest, entree, fetch, toWalk, walker, slot, events, history>>

\* The process dies, and the cache with it.  Its jobs are run again; the message
\* in the channel may be of a job that is done, and is lost.
WalkCrash ==
  /\ Event
  /\ toWalk' = [p \in Page |-> toWalk[p] + Cardinality({w \in Walker : at[w] = p})]
  /\ at' = [w \in Walker |-> NoPage] /\ todo' = [w \in Walker |-> {}]
  /\ link' = [w \in Walker |-> NoPage] /\ links' = [w \in Walker |-> {}]
  /\ cached' = {}
  /\ slot' = NoPage
  /\ exempt' = exempt \cup ({slot} \ {NoPage})
  /\ UNCHANGED <<guest, entree, fetch, active, recrawled>>

-----------------------------------------------------------------------------
\* Nothing is under way.
Quiet ==
  /\ pass = "no"
  /\ \A p \in Page :
       /\ asked[p] = 0 /\ passed[p] = 0 /\ sending[p] = 0
       /\ toFetch[p] = 0 /\ fetching[p] = 0 /\ saved[p] = 0 /\ toWalk[p] = 0
  /\ \A w \in Walker : Idle(w)
  /\ slot = NoPage

Done == Quiet /\ UNCHANGED vars

Work ==
  \/ ResetGuestbook \/ AcceptRoot \/ SendRoot
  \/ \E p \in Page :
       \/ LookAtRow(p) \/ Accept(p) \/ SendFetch(p)
       \/ FetchPage(p) \/ DropPage(p) \/ Record(p) \/ SendWalk(p)
       \/ \E w \in Walker : TakeWalk(w, p)
  \/ \E w \in Walker : LookUp(w) \/ Enter(w) \/ SendLink(w) \/ Return(w)
  \/ CommitLink

Misfortune ==
  \/ EntreeCrash \/ WalkCrash
  \/ \E p \in Page :
       Age(p) \/ FetchRetry(p) \/ FetchTwice(p) \/ FetchLost(p)
       \/ DropWalk(p) \/ Expire(p)

Next == AskPass \/ Work \/ Misfortune \/ Done

Spec == Init /\ [][Next]_vars

\* If some worker can go on, one does.
FairSpec == Spec /\ WF_vars(Work)

-----------------------------------------------------------------------------
(* Properties.                                                             *)

TypeOK ==
  /\ guest \in [Page -> {"none", "due", "fresh"}]
  /\ pass \in {"no", "asked", "root", "send"}
  /\ asked \in [Page -> Nat] /\ passed \in [Page -> Nat] /\ sending \in [Page -> Nat]
  /\ toFetch \in [Page -> Nat] /\ fetching \in [Page -> Nat] /\ saved \in [Page -> Nat]
  /\ toWalk \in [Page -> Nat]
  /\ at \in [Walker -> Page \cup {NoPage}]
  /\ todo \in [Walker -> SUBSET Page]
  /\ link \in [Walker -> Page \cup {NoPage}]
  /\ links \in [Walker -> SUBSET Page]
  /\ cached \subseteq Page
  /\ slot \in Page \cup {NoPage}
  /\ events \in 0..MaxEvents
  /\ active \in BOOLEAN /\ recrawled \subseteq Page /\ exempt \subseteq Page

\* When the crawl has come to rest after a full pass, the root and every page
\* that a recrawled page links to has been recrawled.  The exceptions are those
\* the code makes: links that only walk's cache had when the pass began, the link
\* "/" that entree drops, pages whose fetch was dropped or lost, links of a walk
\* job that was given up, and what a crash caught between the fresh row, or the
\* cache, and the commit.
PassReachesAll ==
  active /\ Quiet =>
    /\ Root \in recrawled \cup exempt
    /\ \A q \in recrawled : Links[q] \subseteq recrawled \cup exempt

\* Every crawl comes to rest, although pages link in circles, the cache forgets
\* links at any time, and several workers may let the same page in: each page
\* that is fetched makes its row fresh, and a fresh row turns the links away.
CrawlEnds == []<>Quiet

\* How many walkers have p to look up, to enter in the cache, to send; or walk p.
ToLookUp == [p \in Page |-> Cardinality({w \in Walker : p \in todo[w]})]
ToEnter == [p \in Page |-> Cardinality({w \in Walker : link[w] = p})]
ToSend == [p \in Page |-> Cardinality({w \in Walker : p \in links[w]})]
Walking == [p \in Page |-> Cardinality({w \in Walker : at[w] = p})]

Indicator(S) == [p \in Page |-> IF p \in S THEN 1 ELSE 0]

PassLeft == [p \in Page |->
  CASE pass = "asked" -> 3 [] pass = "root" -> 2 [] pass = "send" -> 1 [] pass = "no" -> 0]

\* The jobs that will be let in although the row is fresh: they found it due.
LateAccepts == [p \in Page |-> IF guest[p] = "fresh" THEN passed[p] ELSE 0]

EventsLeft == [p \in Page |-> MaxEvents - events]
RowsDue == Indicator({p \in Page : guest[p] # "fresh"})
InSlot == Indicator({slot})
InCache == Indicator(cached)

\* What a page goes through: how much of each is left to do.  A job for a page
\* whose row is due counts only in the queue: when it is let in, the row is spent.
Stages == <<
  EventsLeft, PassLeft, RowsDue, LateAccepts, sending, toFetch, fetching, saved,
  toWalk, ToLookUp, ToEnter, ToSend, Walking, InSlot, asked, InCache >>

Fewer(now, before) == now # before /\ \A p \in Page : now[p] <= before[p]

\* "now" lies below "before": the first stage in which they differ has less to do.
Below(now, before) ==
  \E i \in DOMAIN before :
    /\ Fewer(now[i], before[i])
    /\ \A j \in 1..(i - 1) : now[j] = before[j]

\* Why every crawl comes to rest: whatever a service does takes work from a stage
\* and adds at most to later ones.  Only what no service brings about by itself (a
\* deadline that passes, a crash, a retry, a new pass) adds to an earlier one.
Descends == \E now \in {Stages'}, before \in {Stages} : Below(now, before)
CrawlDescends == [][Descends]_vars

-----------------------------------------------------------------------------
(* The inductive invariant behind PassReachesAll.                          *)

\* A walker has links only of the page it walks.
WalkerInv ==
  \A w \in Walker :
    /\ Idle(w) => todo[w] = {} /\ link[w] = NoPage /\ links[w] = {}
    /\ ~Idle(w) => todo[w] \cup ({link[w]} \ {NoPage}) \cup links[w] \subseteq Links[at[w]]

\* p is a link of a page that is being walked, or waits to be.
ToScan(p) ==
  \/ \E q \in Page : p \in Links[q] /\ toWalk[q] > 0
  \/ \E w \in Walker : p \in todo[w] \/ link[w] = p

\* A fetch job for q will send it to walk.
ToWalk(q) == toFetch[q] > 0 \/ fetching[q] > 0 \/ saved[q] > 0

\* A row looks fresh only if its page was, or will be, fetched.
FreshInv ==
  active => \A p \in Page :
    guest[p] = "fresh" => p \in recrawled \cup exempt \/ InFetch(p)

\* A link is in the cache only if it was, or will be, offered.
CacheInv ==
  active => \A p \in cached : p \in recrawled \cup exempt \/ Carried(p)

\* No link of a recrawled page is forgotten.
EdgeInv ==
  active => \A q \in recrawled : \A p \in Links[q] :
    p \in recrawled \cup exempt \/ Carried(p) \/ ToScan(p) \/ ToWalk(q)

RootInv == active => Root \in recrawled \cup exempt \/ InFetch(Root)

IInv ==
  /\ TypeOK
  /\ WalkerInv
  /\ FreshInv
  /\ CacheInv
  /\ EdgeInv
  /\ RootInv

=============================================================================
