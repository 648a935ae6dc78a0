---------------------------- MODULE CrawlProofs ----------------------------
(***************************************************************************)
(* A full pass reaches every page, for every host, however its pages link, *)
(* any number of walkers, passes, crashes and other misfortunes.  IInv,    *)
(* defined beside the property in Crawl, is inductive.  Its argument: a    *)
(* page stops being on its way only by being recrawled, or by becoming an  *)
(* exception.                                                              *)
(***************************************************************************)
EXTENDS Crawl, FiniteSetTheorems, WellFoundedInduction, TLAPS

-----------------------------------------------------------------------------
(* Types.                                                                  *)

\* A count that grows is positive; one that shrinks was, and the others stay.
LEMMA Counts ==
  ASSUME NEW f \in [Page -> Nat], NEW p \in Page
  PROVE  /\ More(f, p) \in [Page -> Nat] /\ More(f, p)[p] > 0
         /\ \A q \in Page : f[q] > 0 => More(f, p)[q] > 0
         /\ f[p] > 0 => Less(f, p) \in [Page -> Nat]
         /\ \A q \in Page : q # p /\ f[q] > 0 => Less(f, p)[q] > 0
<1>1. f[p] + 1 \in Nat /\ f[p] + 1 > 0 /\ (f[p] > 0 => f[p] - 1 \in Nat)
  OBVIOUS
<1>2. /\ More(f, p) \in [Page -> Nat] /\ More(f, p)[p] > 0
      /\ \A q \in Page : f[q] > 0 => More(f, p)[q] > 0
  BY <1>1 DEF More
<1>3. /\ f[p] > 0 => Less(f, p) \in [Page -> Nat]
      /\ \A q \in Page : q # p /\ f[q] > 0 => Less(f, p)[q] > 0
  BY <1>1 DEF Less
<1> QED
  BY <1>2, <1>3

\* The walkers of one page can be counted.
LEMMA WalkersOf ==
  ASSUME NEW p \in Page
  PROVE  LET n == Cardinality({w \in Walker : at[w] = p}) IN
         /\ n \in Nat
         /\ \A w \in Walker : at[w] = p => n > 0
<1> DEFINE S == {w \in Walker : at[w] = p}
<1>1. IsFiniteSet(S)
  BY CrawlAssumption, FS_Subset DEF CrawlAssumption
<1>2. Cardinality(S) \in Nat
  BY <1>1, FS_CardinalityType
<1>3. ASSUME NEW w \in Walker, at[w] = p PROVE Cardinality(S) > 0
  <2>1. S # {}
    BY <1>3
  <2>2. Cardinality(S) # 0
    BY <1>1, <2>1, FS_EmptySet
  <2> QED
    BY <1>2, <2>2
<1> QED
  BY <1>2, <1>3

\* A crash of entree leaves natural numbers of jobs.
LEMMA EntreeCrashTypes ==
  ASSUME TypeOK, EntreeCrash
  PROVE  /\ asked' \in [Page -> Nat]
         /\ \A p \in Page : asked[p] > 0 \/ passed[p] > 0 => asked'[p] > 0
<1>1. PICK held \in {None} \cup {More(None, p) : p \in {q \in Page : sending[q] > 0}} :
        asked' = [p \in Page |-> asked[p] + passed[p] + sending[p] - held[p]]
  BY DEF EntreeCrash
<1>2. ASSUME NEW p \in Page PROVE held[p] \in Nat /\ held[p] <= sending[p]
  <2>1. CASE held = None
    BY <2>1 DEF None, TypeOK
  <2>2. CASE \E q \in Page : sending[q] > 0 /\ held = More(None, q)
    BY <2>2 DEF None, More, TypeOK
  <2> QED
    BY <1>1, <2>1, <2>2
<1>3. ASSUME NEW p \in Page
      PROVE  /\ asked[p] + passed[p] + sending[p] - held[p] \in Nat
             /\ asked[p] > 0 \/ passed[p] > 0
                  => asked[p] + passed[p] + sending[p] - held[p] > 0
  <2>1. asked[p] \in Nat /\ passed[p] \in Nat /\ sending[p] \in Nat
    BY DEF TypeOK
  <2> QED
    BY <1>2, <2>1
<1> QED
  BY <1>1, <1>3

\* Every step keeps the types.
LEMMA TypeStep ==
  ASSUME TypeOK, [Next]_vars
  PROVE  TypeOK'
<1> USE DEF TypeOK, vars, entree, fetch, walk, walker, history
<1>0. Root \in Page /\ Links \in [Page -> SUBSET Page] /\ MaxEvents \in Nat
  BY CrawlAssumption DEF CrawlAssumption
<1>1. CASE AskPass
  BY <1>0, <1>1 DEF AskPass, Event
<1>2. CASE ResetGuestbook
  BY <1>2 DEF ResetGuestbook, ResetToYesterday
<1>3. CASE AcceptRoot
  BY <1>0, <1>3 DEF AcceptRoot
<1>4. CASE SendRoot
  BY <1>0, <1>4, Counts DEF SendRoot
<1>5. ASSUME NEW p \in Page, LookAtRow(p) PROVE TypeOK'
  BY <1>5, Counts DEF LookAtRow
<1>6. ASSUME NEW p \in Page, Accept(p) PROVE TypeOK'
  BY <1>6, Counts DEF Accept
<1>7. ASSUME NEW p \in Page, SendFetch(p) PROVE TypeOK'
  BY <1>7, Counts DEF SendFetch, Accepted
<1>8. CASE EntreeCrash
  <2>1. asked' \in [Page -> Nat]
    BY <1>8, EntreeCrashTypes
  <2>2. passed' \in [Page -> Nat] /\ sending' \in [Page -> Nat]
    BY <1>8 DEF EntreeCrash, None
  <2> QED
    BY <1>0, <1>8, <2>1, <2>2 DEF EntreeCrash, Event
<1>9. ASSUME NEW p \in Page, Age(p) PROVE TypeOK'
  BY <1>0, <1>9 DEF Age, Event
<1>10. ASSUME NEW p \in Page, FetchPage(p) PROVE TypeOK'
  BY <1>10, Counts DEF FetchPage
<1>11. ASSUME NEW p \in Page, DropPage(p) PROVE TypeOK'
  BY <1>0, <1>11, Counts DEF DropPage, Forgotten
<1>12. ASSUME NEW p \in Page, Record(p) PROVE TypeOK'
  BY <1>12, Counts DEF Record
<1>13. ASSUME NEW p \in Page, SendWalk(p) PROVE TypeOK'
  BY <1>13, Counts DEF SendWalk
<1>14. ASSUME NEW p \in Page, FetchRetry(p) PROVE TypeOK'
  <2>1. events' \in 0..MaxEvents
    BY <1>0, <1>14 DEF FetchRetry, Event
  <2>2. toFetch' \in [Page -> Nat]
    BY <1>14, Counts DEF FetchRetry
  <2>3. CASE fetching[p] > 0 /\ fetching' = Less(fetching, p) /\ UNCHANGED saved
    BY <1>14, <2>1, <2>2, <2>3, Counts DEF FetchRetry
  <2>4. CASE saved[p] > 0 /\ saved' = Less(saved, p) /\ UNCHANGED fetching
    BY <1>14, <2>1, <2>2, <2>4, Counts DEF FetchRetry
  <2> QED
    BY <1>14, <2>3, <2>4 DEF FetchRetry
<1>15. ASSUME NEW p \in Page, FetchTwice(p) PROVE TypeOK'
  <2>1. events' \in 0..MaxEvents
    BY <1>0, <1>15 DEF FetchTwice, Event
  <2>2. toFetch' \in [Page -> Nat]
    BY <1>15, Counts DEF FetchTwice
  <2> QED
    BY <1>15, <2>1, <2>2 DEF FetchTwice
<1>16. ASSUME NEW p \in Page, FetchLost(p) PROVE TypeOK'
  <2>1. events' \in 0..MaxEvents
    BY <1>0, <1>16 DEF FetchLost, Event
  <2>2. toFetch' \in [Page -> Nat]
    BY <1>16, Counts DEF FetchLost
  <2> QED
    BY <1>0, <1>16, <2>1, <2>2 DEF FetchLost, Forgotten
<1>17. ASSUME NEW w \in Walker, NEW p \in Page, TakeWalk(w, p) PROVE TypeOK'
  BY <1>0, <1>17, Counts DEF TakeWalk
<1>18. ASSUME NEW p \in Page, DropWalk(p) PROVE TypeOK'
  BY <1>0, <1>18, Counts DEF DropWalk, Event
<1>19. ASSUME NEW w \in Walker, LookUp(w) PROVE TypeOK'
  BY <1>19 DEF LookUp
<1>20. ASSUME NEW w \in Walker, Enter(w) PROVE TypeOK'
  BY <1>20 DEF Enter, Collected
<1>21. ASSUME NEW w \in Walker, SendLink(w) PROVE TypeOK'
  BY <1>21 DEF SendLink
<1>22. ASSUME NEW w \in Walker, Return(w) PROVE TypeOK'
  BY <1>22 DEF Return
<1>23. CASE CommitLink
  BY <1>23, Counts DEF CommitLink
<1>24. ASSUME NEW p \in Page, Expire(p) PROVE TypeOK'
  BY <1>24 DEF Expire
<1>25. CASE WalkCrash
  <2>1. toWalk' \in [Page -> Nat]
    BY <1>25, WalkersOf DEF WalkCrash
  <2> QED
    BY <1>0, <1>25, <2>1 DEF WalkCrash, Event
<1>26. CASE Done \/ UNCHANGED vars
  BY <1>26 DEF Done
<1> QED
  BY <1>1, <1>2, <1>3, <1>4, <1>5, <1>6, <1>7, <1>8, <1>9, <1>10, <1>11, <1>12, <1>13,
     <1>14, <1>15, <1>16, <1>17, <1>18, <1>19, <1>20, <1>21, <1>22, <1>23, <1>24, <1>25,
     <1>26 DEF Next, Work, Misfortune

-----------------------------------------------------------------------------
(* The conjuncts of the invariant.                                         *)

\* A walker keeps to the links of its page.
LEMMA WalkerStep ==
  ASSUME TypeOK, WalkerInv, [Next]_vars
  PROVE  WalkerInv'
<1> USE DEF TypeOK, WalkerInv, Idle
<1>0. NoPage \notin Page
  BY CrawlAssumption DEF CrawlAssumption
<1>1. CASE UNCHANGED walker
  BY <1>1 DEF walker
<1>2. ASSUME NEW w \in Walker, NEW p \in Page, TakeWalk(w, p) PROVE WalkerInv'
  BY <1>0, <1>2 DEF TakeWalk
<1>3. ASSUME NEW w \in Walker, LookUp(w) PROVE WalkerInv'
  BY <1>0, <1>3 DEF LookUp
<1>4. ASSUME NEW w \in Walker, Enter(w) PROVE WalkerInv'
  BY <1>0, <1>4 DEF Enter, Collected
<1>5. ASSUME NEW w \in Walker, SendLink(w) PROVE WalkerInv'
  BY <1>0, <1>5 DEF SendLink, Scanned
<1>6. ASSUME NEW w \in Walker, Return(w) PROVE WalkerInv'
  BY <1>0, <1>6 DEF Return, Scanned
<1>7. CASE WalkCrash
  BY <1>7 DEF WalkCrash
<1>8. \/ UNCHANGED walker \/ WalkCrash
      \/ \E w \in Walker : \/ \E p \in Page : TakeWalk(w, p)
                           \/ LookUp(w) \/ Enter(w) \/ SendLink(w) \/ Return(w)
  BY DEF Next, Work, Misfortune, AskPass, ResetGuestbook, AcceptRoot, SendRoot, LookAtRow,
         Accept, SendFetch, EntreeCrash, Age, FetchPage, DropPage, Record, SendWalk,
         FetchRetry, FetchTwice, FetchLost, DropWalk, CommitLink, Expire, Done,
         vars, walk, walker
<1> QED
  BY <1>1, <1>2, <1>3, <1>4, <1>5, <1>6, <1>7, <1>8

\* The claim about p is settled.
Settled(p) == p \in recrawled \cup exempt

\* What is settled stays so until the next full pass.
LEMMA SettledStep ==
  ASSUME NEW p \in Page, Settled(p), [Next]_vars
  PROVE  Settled(p)' \/ ResetGuestbook
  BY DEF Settled, Next, Work, Misfortune, AskPass, AcceptRoot, SendRoot, LookAtRow,
         Accept, SendFetch, EntreeCrash, Age, FetchPage, DropPage, Record, SendWalk,
         FetchRetry, FetchTwice, FetchLost, TakeWalk, DropWalk, LookUp, Enter, SendLink,
         Return, CommitLink, Expire, WalkCrash, Done, vars, history

\* Only a full pass makes a claim.
LEMMA ActiveStep ==
  ASSUME [Next]_vars, ~ResetGuestbook
  PROVE  active' = active
  BY DEF Next, Work, Misfortune, AskPass, AcceptRoot, SendRoot, LookAtRow,
         Accept, SendFetch, EntreeCrash, Age, FetchPage, DropPage, Record, SendWalk,
         FetchRetry, FetchTwice, FetchLost, TakeWalk, DropWalk, LookUp, Enter, SendLink,
         Return, CommitLink, Expire, WalkCrash, Done, vars, history

\* The variables InFetch reads.
inFetchVars == <<pass, sending, toFetch, fetching>>

\* A fetch on its way stays so, until it records its page or is lost.
LEMMA InFetchStep ==
  ASSUME TypeOK, NEW p \in Page, InFetch(p), [Next]_vars
  PROVE  InFetch(p)' \/ Settled(p)'
<1> USE DEF TypeOK, InFetch, Settled, entree, fetch, history
<1>0. Root \in Page
  BY CrawlAssumption DEF CrawlAssumption
<1>1. CASE UNCHANGED inFetchVars
  BY <1>1 DEF inFetchVars
<1>2. CASE AskPass \/ ResetGuestbook \/ AcceptRoot
  BY <1>2 DEF AskPass, ResetGuestbook, AcceptRoot
<1>3. CASE SendRoot
  BY <1>0, <1>3, Counts DEF SendRoot
<1>4. ASSUME NEW q \in Page, Accept(q) PROVE InFetch(p)'
  BY <1>4, Counts DEF Accept
<1>5. ASSUME NEW q \in Page, SendFetch(q) PROVE InFetch(p)'
  BY <1>5, Counts DEF SendFetch, Accepted
<1>6. CASE EntreeCrash
  BY <1>6 DEF EntreeCrash
<1>7. ASSUME NEW q \in Page, FetchPage(q) PROVE InFetch(p)'
  BY <1>7, Counts DEF FetchPage
<1>8. ASSUME NEW q \in Page, DropPage(q) \/ FetchLost(q)
      PROVE  InFetch(p)' \/ Settled(p)'
  BY <1>8, Counts DEF DropPage, FetchLost, Forgotten
<1>9. ASSUME NEW q \in Page, Record(q) PROVE InFetch(p)' \/ Settled(p)'
  BY <1>9, Counts DEF Record
<1>10. ASSUME NEW q \in Page, FetchRetry(q) PROVE InFetch(p)'
  BY <1>10, Counts DEF FetchRetry
<1>11. ASSUME NEW q \in Page, FetchTwice(q) PROVE InFetch(p)'
  BY <1>11, Counts DEF FetchTwice
<1>12. \/ UNCHANGED inFetchVars
       \/ AskPass \/ ResetGuestbook \/ AcceptRoot \/ SendRoot \/ EntreeCrash
       \/ \E q \in Page :
            \/ Accept(q) \/ SendFetch(q) \/ FetchPage(q) \/ DropPage(q) \/ FetchLost(q)
            \/ Record(q) \/ FetchRetry(q) \/ FetchTwice(q)
  BY DEF inFetchVars, Next, Work, Misfortune, LookAtRow, Age, SendWalk, TakeWalk, DropWalk,
         LookUp, Enter, SendLink, Return, CommitLink, Expire, WalkCrash, Done,
         vars, entree, fetch
<1> QED
  BY <1>1, <1>2, <1>3, <1>4, <1>5, <1>6, <1>7, <1>8, <1>9, <1>10, <1>11, <1>12

\* A row becomes fresh when its page is let in or recorded.
LEMMA FreshStep ==
  ASSUME TypeOK, FreshInv, [Next]_vars
  PROVE  FreshInv'
<1> SUFFICES ASSUME active', NEW p \in Page, guest'[p] = "fresh"
             PROVE  Settled(p)' \/ InFetch(p)'
  BY DEF FreshInv, Settled
<1>0. Root \in Page
  BY CrawlAssumption DEF CrawlAssumption
<1>1. CASE ResetGuestbook
  BY <1>1 DEF ResetGuestbook, ResetToYesterday, TypeOK
<1>2. CASE AcceptRoot /\ p = Root
  BY <1>2 DEF AcceptRoot, InFetch
<1>3. CASE Accept(p)
  BY <1>3, Counts DEF Accept, InFetch, TypeOK
<1>4. CASE Record(p)
  BY <1>4 DEF Record, Settled
<1>5. CASE ~ResetGuestbook /\ guest[p] = "fresh"
  <2>1. active
    BY <1>5, ActiveStep
  <2>2. Settled(p) \/ InFetch(p)
    BY <1>5, <2>1 DEF FreshInv, Settled
  <2> QED
    BY <1>5, <2>2, SettledStep, InFetchStep
<1>6. \/ ResetGuestbook \/ (AcceptRoot /\ p = Root) \/ Accept(p) \/ Record(p)
      \/ guest[p] = "fresh"
  <2>1. \/ UNCHANGED guest \/ ResetGuestbook \/ AcceptRoot
        \/ \E q \in Page : Accept(q) \/ Age(q) \/ Record(q)
    BY DEF Next, Work, Misfortune, AskPass, SendRoot, LookAtRow, SendFetch, EntreeCrash,
           FetchPage, DropPage, SendWalk, FetchRetry, FetchTwice, FetchLost, TakeWalk,
           DropWalk, LookUp, Enter, SendLink, Return, CommitLink, Expire, WalkCrash, Done, vars
  <2> QED
    BY <2>1 DEF AcceptRoot, Accept, Age, Record, TypeOK
<1> QED
  BY <1>1, <1>2, <1>3, <1>4, <1>5, <1>6

\* The root is let in by the pass itself.
LEMMA RootStep ==
  ASSUME TypeOK, RootInv, [Next]_vars
  PROVE  RootInv'
<1>0. Root \in Page
  BY CrawlAssumption DEF CrawlAssumption
<1>1. CASE ResetGuestbook
  BY <1>1 DEF ResetGuestbook, RootInv, InFetch
<1>2. CASE ~ResetGuestbook
  <2>1. active' => active
    BY <1>2, ActiveStep
  <2>2. active => Settled(Root) \/ InFetch(Root)
    BY DEF RootInv, Settled
  <2>3. active' => Settled(Root)' \/ InFetch(Root)'
    BY <1>0, <1>2, <2>1, <2>2, SettledStep, InFetchStep
  <2> QED
    BY <2>3 DEF RootInv, Settled
<1> QED
  BY <1>1, <1>2

\* The variables of Carried that InFetch does not read.
offerVars == <<asked, passed, slot, links>>

\* p waits for entree, in one of its jobs or on the way to them.
Offered(p) ==
  asked[p] > 0 \/ passed[p] > 0 \/ slot = p \/ \E w \in Walker : p \in links[w]

LEMMA CarriedIs ==
  ASSUME NEW p
  PROVE  Carried(p) <=> InFetch(p) \/ Offered(p)
  BY DEF Carried, Offered

\* A walker that dies leaves its job, and the job its links.
LEMMA CrashLeavesJobs ==
  ASSUME TypeOK, WalkerInv, WalkCrash, NEW p \in Page,
         \/ \E w \in Walker : p \in todo[w] \/ link[w] = p \/ p \in links[w]
         \/ \E q \in Page : p \in Links[q] /\ toWalk[q] > 0
  PROVE  ToScan(p)'
<1>0. NoPage \notin Page
  BY CrawlAssumption DEF CrawlAssumption
<1>1. PICK q \in Page : p \in Links[q] /\ (toWalk[q] > 0 \/ \E w \in Walker : at[w] = q)
  <2>1. ASSUME NEW w \in Walker, p \in todo[w] \/ link[w] = p \/ p \in links[w]
        PROVE  at[w] \in Page /\ p \in Links[at[w]]
    BY <1>0, <2>1 DEF TypeOK, WalkerInv, Idle
  <2> QED
    BY <2>1
<1> DEFINE n == Cardinality({w \in Walker : at[w] = q})
<1>2. n \in Nat /\ (\A w \in Walker : at[w] = q => n > 0) /\ toWalk[q] \in Nat
  BY WalkersOf DEF TypeOK
<1>3. toWalk'[q] = toWalk[q] + n
  BY DEF WalkCrash
<1>4. toWalk'[q] > 0
  <2> HIDE DEF n
  <2> QED
    BY <1>1, <1>2, <1>3
<1> QED
  BY <1>1, <1>4 DEF ToScan

\* What is offered comes to entree, and is turned away only if its row is fresh
\* or its path empty.
LEMMA OfferedStep ==
  ASSUME TypeOK, WalkerInv, FreshInv, active, [Next]_vars, ~ResetGuestbook,
         NEW p \in Page, Offered(p)
  PROVE  Carried(p)' \/ Settled(p)' \/ (WalkCrash /\ ToScan(p)')
<1> USE DEF TypeOK, Offered, entree, fetch, walk, walker, history
<1>0. NoPage \notin Page
  BY CrawlAssumption DEF CrawlAssumption
<1>1. CASE UNCHANGED offerVars
  BY <1>1, CarriedIs DEF offerVars, Carried
<1>2. ASSUME NEW q \in Page, LookAtRow(q) PROVE Carried(p)' \/ Settled(p)'
  <2>1. CASE q = p /\ guest[p] = "fresh"
    <3>1. Settled(p) \/ InFetch(p)
      BY <2>1 DEF FreshInv, Settled
    <3>2. Settled(p)' \/ InFetch(p)'
      BY <3>1, SettledStep, InFetchStep
    <3> QED
      BY <3>2 DEF Carried
  <2>2. CASE q = p /\ p \notin Blank /\ guest[p] # "fresh"
    BY <1>2, <2>2, Counts DEF LookAtRow, AfterGuestbookNextFetch, Carried
  <2>3. CASE q # p
    BY <1>2, <2>3, Counts DEF LookAtRow, Carried
  <2>4. CASE q = p /\ p \in Blank
    BY <1>2, <2>4 DEF LookAtRow, Settled
  <2> QED
    BY <2>1, <2>2, <2>3, <2>4
<1>3. ASSUME NEW q \in Page, Accept(q) PROVE Carried(p)'
  <2>1. CASE q = p
    BY <1>3, <2>1, Counts DEF Accept, Carried, InFetch
  <2>2. CASE q # p
    BY <1>3, <2>2, Counts DEF Accept, Carried
  <2> QED
    BY <2>1, <2>2
<1>4. CASE EntreeCrash
  <2>1. asked[p] > 0 \/ passed[p] > 0 => asked'[p] > 0
    BY <1>4, EntreeCrashTypes
  <2> QED
    BY <1>4, <2>1 DEF EntreeCrash, Carried
<1>5. ASSUME NEW w \in Walker, Enter(w) PROVE Carried(p)'
  BY <1>5 DEF Enter, Collected, Carried
<1>6. ASSUME NEW w \in Walker, SendLink(w) PROVE Carried(p)'
  BY <1>0, <1>6 DEF SendLink, Carried
<1>7. CASE CommitLink
  BY <1>7, Counts DEF CommitLink, Carried
<1>8. CASE WalkCrash
  <2>1. CASE slot = p
    BY <1>0, <1>8, <2>1 DEF WalkCrash, Settled
  <2>2. CASE asked[p] > 0 \/ passed[p] > 0
    BY <1>8, <2>2 DEF WalkCrash, Carried
  <2>3. CASE \E w \in Walker : p \in links[w]
    BY <1>8, <2>3, CrashLeavesJobs
  <2> QED
    BY <2>1, <2>2, <2>3
<1>9. \/ UNCHANGED offerVars \/ EntreeCrash \/ CommitLink \/ WalkCrash
      \/ \E q \in Page : LookAtRow(q) \/ Accept(q)
      \/ \E w \in Walker : Enter(w) \/ SendLink(w)
  BY DEF offerVars, Next, Work, Misfortune, AskPass, ResetGuestbook, AcceptRoot, SendRoot,
         SendFetch, Age, FetchPage, DropPage, Record, SendWalk, FetchRetry, FetchTwice,
         FetchLost, TakeWalk, DropWalk, LookUp, Return, Expire, Done, vars
<1> QED
  BY <1>1, <1>2, <1>3, <1>4, <1>5, <1>6, <1>7, <1>8, <1>9

\* A page that is carried is recrawled, or an exception, before it is dropped.
LEMMA CarriedStep ==
  ASSUME TypeOK, WalkerInv, FreshInv, active, [Next]_vars, ~ResetGuestbook,
         NEW p \in Page, Carried(p)
  PROVE  Carried(p)' \/ Settled(p)' \/ (WalkCrash /\ ToScan(p)')
<1>1. CASE InFetch(p)
  BY <1>1, InFetchStep DEF Carried
<1>2. CASE Offered(p)
  BY <1>2, OfferedStep
<1> QED
  BY <1>1, <1>2, CarriedIs

\* What the cache holds was offered.
LEMMA CacheStep ==
  ASSUME TypeOK, WalkerInv, FreshInv, CacheInv, [Next]_vars
  PROVE  CacheInv'
<1> USE DEF walk, walker
<1> SUFFICES ASSUME active', NEW p \in cached' PROVE Settled(p)' \/ Carried(p)'
  BY DEF CacheInv, Settled
<1>0. p \in Page
  BY TypeStep DEF TypeOK
<1>1. CASE ResetGuestbook
  <2>1. Carried(p) => Carried(p)'
    BY <1>1 DEF ResetGuestbook, Carried, InFetch, fetch
  <2> QED
    BY <1>1, <2>1 DEF ResetGuestbook, Settled
<1>2. CASE ~ResetGuestbook /\ p \in cached /\ ~WalkCrash
  <2>1. active
    BY <1>2, ActiveStep
  <2>2. Settled(p) \/ Carried(p)
    BY <1>2, <2>1 DEF CacheInv, Settled
  <2> QED
    BY <1>0, <1>2, <2>1, <2>2, SettledStep, CarriedStep
<1>3. ASSUME NEW w \in Walker, Enter(w), link[w] = p PROVE Carried(p)'
  BY <1>3 DEF Enter, Collected, Carried, TypeOK
<1>4. CASE WalkCrash
  BY <1>4 DEF WalkCrash
<1>5. p \in cached \/ WalkCrash \/ \E w \in Walker : Enter(w) /\ link[w] = p
  <2>1. \/ cached' \subseteq cached \/ WalkCrash \/ \E w \in Walker : Enter(w)
    BY DEF Next, Work, Misfortune, AskPass, ResetGuestbook, AcceptRoot, SendRoot, LookAtRow,
         Accept, SendFetch, EntreeCrash, Age, FetchPage, DropPage, Record, SendWalk,
         FetchRetry, FetchTwice, FetchLost, TakeWalk, DropWalk, LookUp, SendLink,
         Return, CommitLink, Expire, Done, vars
  <2> QED
    BY <2>1 DEF Enter
<1> QED
  BY <1>1, <1>2, <1>3, <1>4, <1>5

\* A link that waits to be looked up is entered, or is in the cache already.
LEMMA ToScanStep ==
  ASSUME TypeOK, WalkerInv, FreshInv, CacheInv, active, [Next]_vars, ~ResetGuestbook,
         NEW p \in Page, ToScan(p)
  PROVE  ToScan(p)' \/ Carried(p)' \/ Settled(p)'
<1> USE DEF TypeOK, walk, walker
<1>0. NoPage \notin Page /\ Links \in [Page -> SUBSET Page]
  BY CrawlAssumption DEF CrawlAssumption
<1>1. CASE UNCHANGED <<toWalk, todo, link>>
  BY <1>1 DEF ToScan
<1>2. ASSUME NEW q \in Page, SendWalk(q) PROVE ToScan(p)'
  BY <1>2, Counts DEF SendWalk, ToScan
<1>3. ASSUME NEW w \in Walker, NEW q \in Page, TakeWalk(w, q) PROVE ToScan(p)'
  <2>1. CASE \E v \in Walker : p \in todo[v] \/ link[v] = p
    BY <1>3, <2>1 DEF TakeWalk, ToScan, WalkerInv
  <2>2. CASE p \in Links[q]
    BY <1>3, <2>2 DEF TakeWalk, ToScan
  <2>3. CASE \E r \in Page : p \in Links[r] /\ toWalk[r] > 0 /\ r # q
    BY <1>3, <2>3, Counts DEF TakeWalk, ToScan
  <2> QED
    BY <2>1, <2>2, <2>3 DEF ToScan
<1>4. ASSUME NEW q \in Page, DropWalk(q) PROVE ToScan(p)' \/ Settled(p)'
  BY <1>4, Counts DEF DropWalk, ToScan, Settled
<1>5. ASSUME NEW w \in Walker, LookUp(w) PROVE ToScan(p)' \/ Carried(p)' \/ Settled(p)'
  <2>1. CASE p \in cached /\ ~WalkCrash
    <3>1. Settled(p) \/ Carried(p)
      BY <2>1 DEF CacheInv, Settled
    <3> QED
      BY <2>1, <3>1, SettledStep, CarriedStep
  <2>2. CASE p \notin cached
    <3>1. CASE \E q \in Page : p \in Links[q] /\ toWalk[q] > 0
      BY <1>5, <3>1 DEF LookUp, ToScan
    <3>2. ASSUME NEW v \in Walker, p \in todo[v] \/ link[v] = p
          PROVE  p \in todo'[v] \/ link'[v] = p
      BY <1>0, <1>5, <2>2, <3>2 DEF LookUp
    <3> QED
      BY <3>1, <3>2 DEF ToScan
  <2>3. CASE WalkCrash
    BY <2>3, CrashLeavesJobs DEF ToScan
  <2> QED
    BY <2>1, <2>2, <2>3
<1>6. ASSUME NEW w \in Walker, Enter(w) PROVE ToScan(p)' \/ Carried(p)'
  BY <1>6 DEF Enter, Collected, ToScan, Carried
<1>7. CASE WalkCrash
  BY <1>7, CrashLeavesJobs DEF ToScan
<1>8. \/ UNCHANGED <<toWalk, todo, link>> \/ WalkCrash
      \/ \E q \in Page : SendWalk(q) \/ DropWalk(q)
      \/ \E w \in Walker : LookUp(w) \/ Enter(w) \/ \E q \in Page : TakeWalk(w, q)
  BY DEF Next, Work, Misfortune, AskPass, ResetGuestbook, AcceptRoot, SendRoot, LookAtRow,
         Accept, SendFetch, EntreeCrash, Age, FetchPage, DropPage, Record, FetchRetry,
         FetchTwice, FetchLost, SendLink, Return, CommitLink, Expire, Done, vars
<1> QED
  BY <1>1, <1>2, <1>3, <1>4, <1>5, <1>6, <1>7, <1>8

\* A page that was recorded, or is about to be, is sent to walk.
LEMMA ToWalkStep ==
  ASSUME TypeOK, [Next]_vars, NEW q \in Page, NEW p \in Links[q], ToWalk(q),
         q \in recrawled
  PROVE  ToWalk(q)' \/ ToScan(p)' \/ Settled(p)'
<1> USE DEF TypeOK, ToWalk, fetch
<1>0. Root \in Page
  BY CrawlAssumption DEF CrawlAssumption
<1>1. CASE UNCHANGED fetch
  BY <1>1
<1>2. CASE SendRoot
  BY <1>0, <1>2, Counts DEF SendRoot
<1>3. ASSUME NEW r \in Page, SendFetch(r) PROVE ToWalk(q)'
  BY <1>3, Counts DEF SendFetch, Accepted
<1>4. ASSUME NEW r \in Page, FetchPage(r) PROVE ToWalk(q)'
  BY <1>4, Counts DEF FetchPage
<1>5. ASSUME NEW r \in Page, DropPage(r) \/ FetchLost(r)
      PROVE  ToWalk(q)' \/ Settled(p)'
  BY <1>5, Counts DEF DropPage, FetchLost, Forgotten, Settled
<1>6. ASSUME NEW r \in Page, Record(r) PROVE ToWalk(q)'
  BY <1>6, Counts DEF Record
<1>7. ASSUME NEW r \in Page, SendWalk(r) PROVE ToWalk(q)' \/ ToScan(p)'
  BY <1>7, Counts DEF SendWalk, ToScan
<1>8. ASSUME NEW r \in Page, FetchRetry(r) PROVE ToWalk(q)'
  BY <1>8, Counts DEF FetchRetry
<1>9. ASSUME NEW r \in Page, FetchTwice(r) PROVE ToWalk(q)'
  BY <1>9, Counts DEF FetchTwice
<1>10. \/ UNCHANGED fetch \/ SendRoot
       \/ \E r \in Page :
            \/ SendFetch(r) \/ FetchPage(r) \/ DropPage(r) \/ FetchLost(r) \/ Record(r)
            \/ SendWalk(r) \/ FetchRetry(r) \/ FetchTwice(r)
  BY DEF Next, Work, Misfortune, AskPass, ResetGuestbook, AcceptRoot, LookAtRow, Accept,
         EntreeCrash, Age, TakeWalk, DropWalk, LookUp, Enter, SendLink, Return, CommitLink,
         Expire, WalkCrash, Done, vars
<1> QED
  BY <1>1, <1>2, <1>3, <1>4, <1>5, <1>6, <1>7, <1>8, <1>9, <1>10

\* The links of a recrawled page are on their way or settled.
LEMMA EdgeStep ==
  ASSUME TypeOK, WalkerInv, FreshInv, CacheInv, EdgeInv, [Next]_vars
  PROVE  EdgeInv'
<1> SUFFICES ASSUME active', NEW q \in recrawled', NEW p \in Links[q]
             PROVE  Settled(p)' \/ Carried(p)' \/ ToScan(p)' \/ ToWalk(q)'
  BY DEF EdgeInv, Settled
<1>0. q \in Page /\ p \in Page
  BY TypeStep, CrawlAssumption DEF TypeOK, CrawlAssumption
<1>1. CASE ResetGuestbook
  BY <1>1 DEF ResetGuestbook
<1>2. CASE Record(q)
  BY <1>0, <1>2, Counts DEF Record, ToWalk, TypeOK
<1>3. CASE ~ResetGuestbook /\ q \in recrawled
  <2>1. active
    BY <1>3, ActiveStep
  <2>2. Settled(p) \/ Carried(p) \/ ToScan(p) \/ ToWalk(q)
    BY <1>3, <2>1 DEF EdgeInv, Settled
  <2> QED
    BY <1>0, <1>3, <2>1, <2>2, SettledStep, CarriedStep, ToScanStep, ToWalkStep
<1>4. ResetGuestbook \/ Record(q) \/ q \in recrawled
  <2>1. UNCHANGED recrawled \/ ResetGuestbook \/ \E r \in Page : Record(r)
    BY DEF Next, Work, Misfortune, AskPass, AcceptRoot, SendRoot, LookAtRow,
         Accept, SendFetch, EntreeCrash, Age, FetchPage, DropPage, SendWalk,
         FetchRetry, FetchTwice, FetchLost, TakeWalk, DropWalk, LookUp, Enter, SendLink,
         Return, CommitLink, Expire, WalkCrash, Done, vars, history
  <2> QED
    BY <2>1 DEF Record
<1> QED
  BY <1>1, <1>2, <1>3, <1>4

-----------------------------------------------------------------------------
(* The theorems.                                                           *)

LEMMA InitInv == Init => IInv
<1> SUFFICES ASSUME Init PROVE IInv
  OBVIOUS
<1>1. TypeOK
  <2>1. None \in [Page -> Nat] /\ 0 \in 0..MaxEvents
    BY CrawlAssumption DEF None, CrawlAssumption
  <2> QED
    BY <2>1 DEF Init, TypeOK
<1>2. WalkerInv
  BY DEF Init, WalkerInv, Idle
<1>3. FreshInv /\ CacheInv /\ EdgeInv /\ RootInv
  BY DEF Init, FreshInv, CacheInv, EdgeInv, RootInv
<1> QED
  BY <1>1, <1>2, <1>3 DEF IInv

\* The invariant holds in every crawl.
THEOREM Invariance == Spec => []IInv
<1>1. IInv /\ [Next]_vars => IInv'
  BY TypeStep, WalkerStep, FreshStep, CacheStep, EdgeStep, RootStep DEF IInv
<1> QED
  BY InitInv, <1>1, PTL DEF Spec

\* Rows, jobs, walkers and the cache keep their types.
THEOREM TypeCorrect == Spec => []TypeOK
<1>1. IInv => TypeOK
  BY DEF IInv
<1> QED
  BY <1>1, Invariance, PTL

\* When nothing is under way nothing is carried, and so all is settled: a full
\* pass has reached the root and every link of the pages it recrawled, save the
\* exceptions.
THEOREM EveryPageReached == Spec => []PassReachesAll
<1>1. ASSUME IInv, active, Quiet
      PROVE  /\ Root \in recrawled \cup exempt
             /\ \A q \in recrawled : Links[q] \subseteq recrawled \cup exempt
  <2> USE DEF IInv, TypeOK
  <2>0. NoPage \notin Page /\ Root \in Page /\ Links \in [Page -> SUBSET Page]
    BY CrawlAssumption DEF CrawlAssumption
  <2>1. ASSUME NEW p \in Page PROVE ~InFetch(p) /\ ~ToWalk(p)
    BY <1>1 DEF Quiet, InFetch, ToWalk
  <2>2. ASSUME NEW p \in Page PROVE ~Carried(p) /\ ~ToScan(p)
    <3>1. \A w \in Walker : todo[w] = {} /\ link[w] = NoPage /\ links[w] = {}
      BY <1>1 DEF Quiet, WalkerInv
    <3> QED
      BY <1>1, <2>0, <2>1, <3>1 DEF Quiet, Carried, ToScan
  <2>3. Root \in recrawled \cup exempt
    BY <1>1, <2>0, <2>1 DEF RootInv
  <2>4. ASSUME NEW q \in recrawled, NEW p \in Links[q] PROVE p \in recrawled \cup exempt
    <3>1. q \in Page /\ p \in Page
      BY <1>1, <2>0
    <3> QED
      BY <1>1, <2>1, <2>2, <3>1 DEF EdgeInv
  <2> QED
    BY <2>3, <2>4
<1>2. IInv => PassReachesAll
  BY <1>1 DEF PassReachesAll
<1> QED
  BY <1>2, Invariance, PTL

-----------------------------------------------------------------------------
(* Every crawl comes to rest.                                              *)
(*                                                                         *)
(* Stages counts, for each page, what is left to do at each stage a page   *)
(* goes through.  Each step takes from one stage and adds only to later    *)
(* ones, and on finitely many pages there is no infinite descent.          *)

nStages == 16

\* The stages are sixteen counts of pages.
LEMMA StagesAre ==
  /\ DOMAIN Stages = 1..nStages
  /\ Stages[1] = EventsLeft /\ Stages[2] = PassLeft /\ Stages[3] = RowsDue
  /\ Stages[4] = LateAccepts /\ Stages[5] = sending /\ Stages[6] = toFetch
  /\ Stages[7] = fetching /\ Stages[8] = saved /\ Stages[9] = toWalk
  /\ Stages[10] = ToLookUp /\ Stages[11] = ToEnter /\ Stages[12] = ToSend
  /\ Stages[13] = Walking /\ Stages[14] = InSlot /\ Stages[15] = asked
  /\ Stages[16] = InCache
  BY DEF Stages, nStages

\* The same of the stages after a step.
LEMMA NextStagesAre ==
  /\ Stages'[1] = EventsLeft' /\ Stages'[2] = PassLeft' /\ Stages'[3] = RowsDue'
  /\ Stages'[4] = LateAccepts' /\ Stages'[5] = sending' /\ Stages'[6] = toFetch'
  /\ Stages'[7] = fetching' /\ Stages'[8] = saved' /\ Stages'[9] = toWalk'
  /\ Stages'[10] = ToLookUp' /\ Stages'[11] = ToEnter' /\ Stages'[12] = ToSend'
  /\ Stages'[13] = Walking' /\ Stages'[14] = InSlot' /\ Stages'[15] = asked'
  /\ Stages'[16] = InCache'
  BY DEF Stages

\* A stage whose variables stay is not touched.
LEMMA StageKept ==
  /\ events' = events => EventsLeft' = EventsLeft
  /\ pass' = pass => PassLeft' = PassLeft
  /\ guest' = guest => RowsDue' = RowsDue
  /\ guest' = guest /\ passed' = passed => LateAccepts' = LateAccepts
  /\ todo' = todo => ToLookUp' = ToLookUp
  /\ link' = link => ToEnter' = ToEnter
  /\ links' = links => ToSend' = ToSend
  /\ at' = at => Walking' = Walking
  /\ slot' = slot => InSlot' = InSlot
  /\ cached' = cached => InCache' = InCache
<1>1. events' = events => EventsLeft' = EventsLeft
  BY DEF EventsLeft
<1>2. pass' = pass => PassLeft' = PassLeft
  BY DEF PassLeft
<1>3. /\ guest' = guest => RowsDue' = RowsDue
      /\ slot' = slot => InSlot' = InSlot
      /\ cached' = cached => InCache' = InCache
  BY DEF RowsDue, InSlot, InCache, Indicator
<1>4. guest' = guest /\ passed' = passed => LateAccepts' = LateAccepts
  BY DEF LateAccepts
<1>5. /\ todo' = todo => ToLookUp' = ToLookUp
      /\ link' = link => ToEnter' = ToEnter
      /\ links' = links => ToSend' = ToSend
      /\ at' = at => Walking' = Walking
  BY DEF ToLookUp, ToEnter, ToSend, Walking
<1> QED
  BY <1>1, <1>2, <1>3, <1>4, <1>5

\* Less to do at one stage, and all earlier ones untouched.
LEMMA Descent ==
  ASSUME NEW i \in 1..nStages, Fewer(Stages'[i], Stages[i]),
         \A j \in 1..(i - 1) : Stages'[j] = Stages[j]
  PROVE  Below(Stages', Stages)
  BY StagesAre DEF Below

\* A count that is taken from is fewer.
LEMMA FewerLess ==
  ASSUME NEW f \in [Page -> Nat], NEW p \in Page, f[p] > 0
  PROVE  Fewer(Less(f, p), f)
<1>1. f[p] - 1 < f[p] /\ \A q \in Page : f[q] <= f[q]
  OBVIOUS
<1>2. Less(f, p)[p] = f[p] - 1 /\ \A q \in Page : q # p => Less(f, p)[q] = f[q]
  BY DEF Less
<1> QED
  BY <1>1, <1>2 DEF Fewer

\* A set that loses pages.
LEMMA FewerIn ==
  ASSUME NEW S, NEW T, S \cap Page \subseteq T, NEW p \in Page, p \in T, p \notin S
  PROVE  Fewer(Indicator(S), Indicator(T))
<1>1. Indicator(S)[p] = 0 /\ Indicator(T)[p] = 1
  BY DEF Indicator
<1>2. \A q \in Page : Indicator(S)[q] <= Indicator(T)[q]
  BY DEF Indicator
<1> QED
  BY <1>1, <1>2 DEF Fewer

\* Sets of walkers, one for each page, that lose walkers.
LEMMA FewerWalkers ==
  ASSUME NEW A \in [Page -> SUBSET Walker], NEW B \in [Page -> SUBSET Walker],
         \A q \in Page : A[q] \subseteq B[q], A # B
  PROVE  Fewer([q \in Page |-> Cardinality(A[q])], [q \in Page |-> Cardinality(B[q])])
<1>1. ASSUME NEW q \in Page
      PROVE  /\ Cardinality(A[q]) <= Cardinality(B[q])
             /\ A[q] # B[q] => Cardinality(A[q]) # Cardinality(B[q])
  <2>1. IsFiniteSet(B[q])
    BY CrawlAssumption, FS_Subset DEF CrawlAssumption
  <2> QED
    BY <2>1, FS_Subset
<1>2. PICK p \in Page : A[p] # B[p]
  OBVIOUS
<1>3. Cardinality(A[p]) # Cardinality(B[p])
  BY <1>1, <1>2
<1> QED
  BY <1>1, <1>3 DEF Fewer

\* What no service brings about by itself uses up an event.
LEMMA EventDescends ==
  ASSUME TypeOK, Event
  PROVE  Below(Stages', Stages)
<1>1. Root \in Page /\ MaxEvents \in Nat /\ events \in Int
  BY CrawlAssumption DEF CrawlAssumption, TypeOK
<1>2. EventsLeft'[Root] # EventsLeft[Root]
      /\ \A p \in Page : EventsLeft'[p] <= EventsLeft[p]
  BY <1>1 DEF EventsLeft, Event
<1>3. Fewer(EventsLeft', EventsLeft)
  BY <1>2 DEF Fewer
<1> QED
  BY <1>3, StagesAre, NextStagesAre, Descent DEF nStages

\* The job of a full pass goes through its steps once.
LEMMA PassDescends ==
  ASSUME ResetGuestbook \/ AcceptRoot \/ SendRoot
  PROVE  Below(Stages', Stages)
<1>1. Root \in Page
  BY CrawlAssumption DEF CrawlAssumption
<1>2. PassLeft'[Root] # PassLeft[Root] /\ \A p \in Page : PassLeft'[p] <= PassLeft[p]
  BY <1>1 DEF PassLeft, ResetGuestbook, AcceptRoot, SendRoot
<1>3. Fewer(PassLeft', PassLeft)
  BY <1>2 DEF Fewer
<1>4. events' = events
  BY DEF ResetGuestbook, AcceptRoot, SendRoot
<1> QED
  BY <1>3, <1>4, StageKept, StagesAre, NextStagesAre, Descent DEF nStages

\* A job that is let in spends the row, or was late.
LEMMA AcceptDescends ==
  ASSUME TypeOK, NEW p \in Page, Accept(p)
  PROVE  Below(Stages', Stages)
<1> USE DEF TypeOK
<1>1. events' = events /\ pass' = pass
  BY DEF Accept
<1>2. CASE guest[p] # "fresh"
  <2>1. Fewer(RowsDue', RowsDue)
    <3>1. /\ {q \in Page : guest'[q] # "fresh"} \subseteq {q \in Page : guest[q] # "fresh"}
          /\ guest'[p] = "fresh"
      BY DEF Accept
    <3>2. Fewer(Indicator({q \in Page : guest'[q] # "fresh"}),
                Indicator({q \in Page : guest[q] # "fresh"}))
      BY <1>2, <3>1, FewerIn
    <3> QED
      BY <3>2 DEF RowsDue, Indicator
  <2> QED
    BY <1>1, <2>1, StageKept, StagesAre, NextStagesAre, Descent DEF nStages
<1>3. CASE guest[p] = "fresh"
  <2>1. guest' = guest /\ passed' = Less(passed, p) /\ passed[p] > 0
    BY <1>3 DEF Accept
  <2>2. /\ LateAccepts'[p] # LateAccepts[p]
        /\ \A q \in Page : LateAccepts'[q] <= LateAccepts[q]
    BY <1>3, <2>1 DEF LateAccepts, Less
  <2>3. Fewer(LateAccepts', LateAccepts)
    BY <2>2 DEF Fewer
  <2> QED
    BY <1>1, <2>1, <2>3, StageKept, StagesAre, NextStagesAre, Descent DEF nStages
<1> QED
  BY <1>2, <1>3

\* A page that is recorded spends the row, or is one fetch less.
LEMMA RecordDescends ==
  ASSUME TypeOK, NEW p \in Page, Record(p)
  PROVE  Below(Stages', Stages)
<1> USE DEF TypeOK
<1>1. UNCHANGED <<events, pass, passed, sending, toFetch>>
  BY DEF Record, entree
<1>2. CASE guest[p] # "fresh"
  <2>1. Fewer(RowsDue', RowsDue)
    <3>1. /\ {q \in Page : guest'[q] # "fresh"} \subseteq {q \in Page : guest[q] # "fresh"}
          /\ guest'[p] = "fresh"
      BY DEF Record
    <3>2. Fewer(Indicator({q \in Page : guest'[q] # "fresh"}),
                Indicator({q \in Page : guest[q] # "fresh"}))
      BY <1>2, <3>1, FewerIn
    <3> QED
      BY <3>2 DEF RowsDue, Indicator
  <2> QED
    BY <1>1, <2>1, StageKept, StagesAre, NextStagesAre, Descent DEF nStages
<1>3. CASE guest[p] = "fresh"
  <2>1. guest' = guest
    BY <1>3 DEF Record
  <2>2. Fewer(fetching', fetching)
    BY FewerLess DEF Record
  <2> QED
    BY <1>1, <2>1, <2>2, StageKept, StagesAre, NextStagesAre, Descent DEF nStages
<1> QED
  BY <1>2, <1>3

\* The steps of a fetch job, from entree's send to the send to walk.
LEMMA FetchDescends ==
  ASSUME TypeOK, NEW p \in Page,
         \/ SendFetch(p) \/ FetchPage(p) \/ DropPage(p) \/ SendWalk(p)
         \/ \E w \in Walker : TakeWalk(w, p)
  PROVE  Below(Stages', Stages)
<1> USE DEF TypeOK
<1>1. UNCHANGED <<events, pass, guest, passed>>
  BY DEF SendFetch, FetchPage, DropPage, SendWalk, TakeWalk, entree
<1>2. CASE SendFetch(p)
  <2>1. Fewer(sending', sending)
    BY <1>2, FewerLess DEF SendFetch, Accepted
  <2> QED
    BY <1>1, <2>1, StageKept, StagesAre, NextStagesAre, Descent DEF nStages
<1>3. CASE FetchPage(p) \/ DropPage(p)
  <2>1. Fewer(toFetch', toFetch) /\ sending' = sending
    BY <1>3, FewerLess DEF FetchPage, DropPage, entree
  <2> QED
    BY <1>1, <2>1, StageKept, StagesAre, NextStagesAre, Descent DEF nStages
<1>4. CASE SendWalk(p)
  <2>1. Fewer(saved', saved) /\ UNCHANGED <<sending, toFetch, fetching>>
    BY <1>4, FewerLess DEF SendWalk, entree
  <2> QED
    BY <1>1, <2>1, StageKept, StagesAre, NextStagesAre, Descent DEF nStages
<1>5. ASSUME NEW w \in Walker, TakeWalk(w, p) PROVE Below(Stages', Stages)
  <2>1. Fewer(toWalk', toWalk) /\ UNCHANGED <<sending, toFetch, fetching, saved>>
    BY <1>5, FewerLess DEF TakeWalk, entree, fetch
  <2> QED
    BY <1>1, <2>1, StageKept, StagesAre, NextStagesAre, Descent DEF nStages
<1> QED
  BY <1>2, <1>3, <1>4, <1>5

\* The stages before a walker's own.
LEMMA WalkerKeeps ==
  ASSUME UNCHANGED <<guest, entree, fetch, toWalk, events>>
  PROVE  \A j \in 1..9 : Stages'[j] = Stages[j]
<1>1. UNCHANGED <<events, pass, guest, passed, sending, toFetch, fetching, saved, toWalk>>
  BY DEF entree, fetch
<1> QED
  BY <1>1, StageKept, StagesAre, NextStagesAre

\* A link that was looked up is not looked up again.
LEMMA LookUpDescends ==
  ASSUME TypeOK, NEW w \in Walker, LookUp(w)
  PROVE  Below(Stages', Stages)
<1> USE DEF TypeOK
<1> DEFINE now == [q \in Page |-> {v \in Walker : q \in todo'[v]}]
           before == [q \in Page |-> {v \in Walker : q \in todo[v]}]
<1>1. PICK p \in todo[w] : todo' = [todo EXCEPT ![w] = @ \ {p}]
  BY DEF LookUp
<1>2. p \in Page
  BY <1>1
<1>3. (\A q \in Page : now[q] \subseteq before[q]) /\ w \in before[p] /\ w \notin now[p]
  BY <1>1, <1>2
<1>4. now \in [Page -> SUBSET Walker] /\ before \in [Page -> SUBSET Walker] /\ now # before
  BY <1>2, <1>3
<1>5. ToLookUp' = [q \in Page |-> Cardinality(now[q])]
      /\ ToLookUp = [q \in Page |-> Cardinality(before[q])]
  BY DEF ToLookUp
<1>6. Fewer(ToLookUp', ToLookUp)
  <2> HIDE DEF now, before
  <2> QED
    BY <1>3, <1>4, <1>5, FewerWalkers
<1>7. \A j \in 1..9 : Stages'[j] = Stages[j]
  BY WalkerKeeps DEF LookUp
<1> QED
  BY <1>6, <1>7, StagesAre, NextStagesAre, Descent DEF nStages

\* A link that is entered is the walker's no more.
LEMMA EnterDescends ==
  ASSUME TypeOK, NEW w \in Walker, Enter(w)
  PROVE  Below(Stages', Stages)
<1> USE DEF TypeOK
<1> DEFINE now == [q \in Page |-> {v \in Walker : link'[v] = q}]
           before == [q \in Page |-> {v \in Walker : link[v] = q}]
<1>1. link[w] \in Page /\ link' = [link EXCEPT ![w] = NoPage] /\ NoPage \notin Page
  BY CrawlAssumption DEF Enter, CrawlAssumption
<1>2. /\ \A q \in Page : now[q] \subseteq before[q]
      /\ w \in before[link[w]] /\ w \notin now[link[w]]
  BY <1>1
<1>3. now \in [Page -> SUBSET Walker] /\ before \in [Page -> SUBSET Walker] /\ now # before
  BY <1>1, <1>2
<1>4. ToEnter' = [q \in Page |-> Cardinality(now[q])]
      /\ ToEnter = [q \in Page |-> Cardinality(before[q])]
  BY DEF ToEnter
<1>5. Fewer(ToEnter', ToEnter)
  <2> HIDE DEF now, before
  <2> QED
    BY <1>2, <1>3, <1>4, FewerWalkers
<1>6. UNCHANGED <<ToLookUp>> /\ \A j \in 1..9 : Stages'[j] = Stages[j]
  BY WalkerKeeps, StageKept DEF Enter
<1> QED
  BY <1>5, <1>6, StagesAre, NextStagesAre, Descent DEF nStages

\* A link that is sent leaves the linkSet.
LEMMA SendLinkDescends ==
  ASSUME TypeOK, NEW w \in Walker, SendLink(w)
  PROVE  Below(Stages', Stages)
<1> USE DEF TypeOK
<1> DEFINE now == [q \in Page |-> {v \in Walker : q \in links'[v]}]
           before == [q \in Page |-> {v \in Walker : q \in links[v]}]
<1>1. PICK p \in links[w] : links' = [links EXCEPT ![w] = @ \ {p}]
  BY DEF SendLink
<1>2. p \in Page
  BY <1>1
<1>3. (\A q \in Page : now[q] \subseteq before[q]) /\ w \in before[p] /\ w \notin now[p]
  BY <1>1, <1>2
<1>4. now \in [Page -> SUBSET Walker] /\ before \in [Page -> SUBSET Walker] /\ now # before
  BY <1>2, <1>3
<1>5. ToSend' = [q \in Page |-> Cardinality(now[q])]
      /\ ToSend = [q \in Page |-> Cardinality(before[q])]
  BY DEF ToSend
<1>6. Fewer(ToSend', ToSend)
  <2> HIDE DEF now, before
  <2> QED
    BY <1>3, <1>4, <1>5, FewerWalkers
<1>7. UNCHANGED <<ToLookUp, ToEnter>> /\ \A j \in 1..9 : Stages'[j] = Stages[j]
  BY WalkerKeeps, StageKept DEF SendLink
<1> QED
  BY <1>6, <1>7, StagesAre, NextStagesAre, Descent DEF nStages

\* A walker that returns has its page walked.
LEMMA ReturnDescends ==
  ASSUME TypeOK, NEW w \in Walker, Return(w)
  PROVE  Below(Stages', Stages)
<1> USE DEF TypeOK
<1> DEFINE now == [q \in Page |-> {v \in Walker : at'[v] = q}]
           before == [q \in Page |-> {v \in Walker : at[v] = q}]
<1>1. at[w] \in Page /\ at' = [at EXCEPT ![w] = NoPage] /\ NoPage \notin Page
  BY CrawlAssumption DEF Return, Scanned, Idle, CrawlAssumption
<1>2. /\ \A q \in Page : now[q] \subseteq before[q]
      /\ w \in before[at[w]] /\ w \notin now[at[w]]
  BY <1>1
<1>3. now \in [Page -> SUBSET Walker] /\ before \in [Page -> SUBSET Walker] /\ now # before
  BY <1>1, <1>2
<1>4. Walking' = [q \in Page |-> Cardinality(now[q])]
      /\ Walking = [q \in Page |-> Cardinality(before[q])]
  BY DEF Walking
<1>5. Fewer(Walking', Walking)
  <2> HIDE DEF now, before
  <2> QED
    BY <1>2, <1>3, <1>4, FewerWalkers
<1>6. UNCHANGED <<ToLookUp, ToEnter, ToSend>> /\ \A j \in 1..9 : Stages'[j] = Stages[j]
  BY WalkerKeeps, StageKept DEF Return
<1> QED
  BY <1>5, <1>6, StagesAre, NextStagesAre, Descent DEF nStages

\* What is offered to entree is committed, looked at, and turned away or let in;
\* and a link that the cache forgets is forgotten once.
LEMMA OfferDescends ==
  ASSUME TypeOK, CommitLink \/ \E p \in Page : LookAtRow(p) \/ Expire(p)
  PROVE  Below(Stages', Stages)
<1> USE DEF TypeOK, walk, walker
<1>1. CASE CommitLink
  <2>1. slot \in Page /\ slot' = NoPage /\ NoPage \notin Page
    BY <1>1, CrawlAssumption DEF CommitLink, CrawlAssumption
  <2>2. Fewer(InSlot', InSlot)
    <3>1. Fewer(Indicator({slot'}), Indicator({slot}))
      BY <2>1, FewerIn
    <3> QED
      BY <3>1 DEF InSlot, Indicator
  <2>3. UNCHANGED <<events, pass, guest, passed, sending, fetch, toWalk, walker>>
    BY <1>1 DEF CommitLink
  <2> QED
    BY <2>2, <2>3, StageKept, StagesAre, NextStagesAre, Descent DEF nStages, fetch
<1>2. ASSUME NEW p \in Page, LookAtRow(p) PROVE Below(Stages', Stages)
  <2>1. Fewer(asked', asked)
    BY <1>2, FewerLess DEF LookAtRow
  <2>2. UNCHANGED <<events, pass, guest, sending, fetch, toWalk, walker, slot>>
    BY <1>2 DEF LookAtRow
  <2>3. LateAccepts' = LateAccepts
    BY <1>2 DEF LookAtRow, AfterGuestbookNextFetch, LateAccepts, More
  <2> QED
    BY <2>1, <2>2, <2>3, StageKept, StagesAre, NextStagesAre, Descent DEF nStages, fetch
<1>3. ASSUME NEW p \in Page, Expire(p) PROVE Below(Stages', Stages)
  <2>1. Fewer(InCache', InCache)
    <3>1. Fewer(Indicator(cached'), Indicator(cached))
      BY <1>3, FewerIn DEF Expire
    <3> QED
      BY <3>1 DEF InCache, Indicator
  <2>2. UNCHANGED <<events, guest, entree, fetch, toWalk, walker, slot>>
    BY <1>3 DEF Expire
  <2> QED
    BY <2>1, <2>2, StageKept, StagesAre, NextStagesAre, Descent DEF nStages, entree, fetch
<1> QED
  BY <1>1, <1>2, <1>3

\* Every step of a service takes work from a stage and adds at most to later
\* ones: the stages descend with every step, for any pages and links, any number of
\* walkers and any misfortunes.
THEOREM WorkIsUsedUp == Spec => CrawlDescends
<1>1. ASSUME IInv, [Next]_vars PROVE [Descends]_vars
  <2> USE DEF IInv, Descends
  <2>1. CASE \/ AskPass \/ EntreeCrash \/ WalkCrash
             \/ \E p \in Page : Age(p) \/ FetchRetry(p) \/ FetchTwice(p) \/ FetchLost(p)
                              \/ DropWalk(p)
    <3>1. Event
      BY <2>1 DEF AskPass, EntreeCrash, WalkCrash, Age, FetchRetry, FetchTwice, FetchLost,
                  DropWalk
    <3> QED
      BY <1>1, <3>1, EventDescends
  <2>2. CASE ResetGuestbook \/ AcceptRoot \/ SendRoot
    BY <2>2, PassDescends
  <2>3. CASE \E p \in Page : Accept(p) \/ Record(p)
    BY <1>1, <2>3, AcceptDescends, RecordDescends
  <2>4. CASE \E p \in Page : \/ SendFetch(p) \/ FetchPage(p) \/ DropPage(p) \/ SendWalk(p)
                            \/ \E w \in Walker : TakeWalk(w, p)
    BY <1>1, <2>4, FetchDescends
  <2>5. CASE \E w \in Walker : LookUp(w) \/ Enter(w) \/ SendLink(w) \/ Return(w)
    BY <1>1, <2>5, LookUpDescends, EnterDescends, SendLinkDescends, ReturnDescends
  <2>6. CASE CommitLink \/ \E p \in Page : LookAtRow(p) \/ Expire(p)
    BY <1>1, <2>6, OfferDescends
  <2>7. CASE Done \/ UNCHANGED vars
    BY <2>7 DEF Done
  <2> QED
    BY <1>1, <2>1, <2>2, <2>3, <2>4, <2>5, <2>6, <2>7 DEF Next, Work, Misfortune
<1> QED
  BY <1>1, Invariance, PTL DEF Spec, CrawlDescends

\* The stages are natural numbers, also those that count walkers.
LEMMA StagesTyped ==
  ASSUME TypeOK
  PROVE  Stages \in [1..nStages -> [Page -> Nat]]
<1> USE DEF TypeOK
<1>0. MaxEvents \in Nat
  BY CrawlAssumption DEF CrawlAssumption
<1>1. EventsLeft \in [Page -> Nat] /\ PassLeft \in [Page -> Nat]
  BY <1>0 DEF EventsLeft, PassLeft
<1>2. /\ RowsDue \in [Page -> Nat] /\ InSlot \in [Page -> Nat] /\ InCache \in [Page -> Nat]
      /\ LateAccepts \in [Page -> Nat]
  BY DEF RowsDue, InSlot, InCache, LateAccepts, Indicator
<1>3. ASSUME NEW W \in SUBSET Walker PROVE Cardinality(W) \in Nat
  BY CrawlAssumption, FS_Subset, FS_CardinalityType DEF CrawlAssumption
<1>4. /\ ToLookUp \in [Page -> Nat] /\ ToEnter \in [Page -> Nat]
      /\ ToSend \in [Page -> Nat] /\ Walking \in [Page -> Nat]
  BY <1>3 DEF ToLookUp, ToEnter, ToSend, Walking
<1>5. \A i \in 1..nStages : Stages[i] \in [Page -> Nat]
  BY <1>1, <1>2, <1>4, StagesAre DEF nStages
<1>6. Stages = [i \in 1..nStages |-> Stages[i]]
  BY DEF Stages, nStages
<1> QED
  BY <1>5, <1>6

\* A set of natural numbers has a least member.
LEMMA LeastNat ==
  ASSUME NEW T \in SUBSET Nat, T # {}
  PROVE  \E n \in T : \A m \in T : n <= m
<1>1. PICK n \in T : \A m \in T : ~(<<m, n>> \in OpToRel(<, Nat))
  BY NatLessThanWellFounded, WFMin
<1>2. ASSUME NEW m \in T PROVE n <= m
  <2>1. ~(m < n)
    BY <1>1 DEF OpToRel
  <2> QED
    BY <2>1
<1> QED
  BY <1>2

\* A count that no count in T undercuts on Q.
LeastOn(T, Q) == \E f \in T : \A g \in T :
  (\A p \in Page : g[p] <= f[p]) => \A q \in Q : g[q] = f[q]

\* One page more: among the counts with the least value there, take one that is
\* least on the others.
LEMMA LeastOnMore ==
  ASSUME NEW Q \in SUBSET Page, NEW q \in Q,
         \A T \in SUBSET [Page -> Nat] : T # {} => LeastOn(T, Q \ {q}),
         NEW T \in SUBSET [Page -> Nat], T # {}
  PROVE  LeastOn(T, Q)
<1> DEFINE V == {f[q] : f \in T}
<1>1. V \in SUBSET Nat /\ V # {}
  OBVIOUS
<1>2. PICK n \in V : \A m \in V : n <= m
  <2> HIDE DEF V
  <2> QED
    BY <1>1, LeastNat
<1> DEFINE L == {f \in T : f[q] = n}
<1>3. L \in SUBSET [Page -> Nat] /\ L # {}
  BY <1>2
<1>4. PICK f \in L : \A g \in L : (\A p \in Page : g[p] <= f[p]) => \A r \in Q \ {q} : g[r] = f[r]
  BY <1>3 DEF LeastOn
<1>5. ASSUME NEW g \in T, \A p \in Page : g[p] <= f[p] PROVE \A r \in Q : g[r] = f[r]
  <2>1. g[q] \in Nat /\ n \in Nat /\ g[q] <= n /\ n <= g[q]
    BY <1>1, <1>2, <1>5
  <2>2. g \in L
    BY <2>1
  <2> QED
    BY <1>4, <1>5, <2>2
<1> QED
  BY <1>5 DEF LeastOn

\* On finitely many pages some count is least: else there would be a smallest set
\* of pages on which none is.
LEMMA LeastCount ==
  ASSUME IsFiniteSet(Page), NEW T \in SUBSET [Page -> Nat], T # {}
  PROVE  LeastOn(T, Page)
<1> DEFINE Has(Q) == \A U \in SUBSET [Page -> Nat] : U # {} => LeastOn(U, Q)
           Sizes == {n \in Nat : \E Q \in SUBSET Page : Cardinality(Q) = n /\ ~Has(Q)}
<1>1. Sizes = {}
  <2>1. SUFFICES ASSUME Sizes # {} PROVE FALSE
    OBVIOUS
  <2>2. PICK n \in Sizes : \A m \in Sizes : n <= m
    <3>1. Sizes \in SUBSET Nat
      OBVIOUS
    <3> HIDE DEF Sizes
    <3> QED
      BY <2>1, <3>1, LeastNat
  <2>3. PICK Q \in SUBSET Page : Cardinality(Q) = n /\ ~Has(Q)
    BY <2>2
  <2>4. Q # {}
    BY <2>3 DEF LeastOn
  <2>5. PICK q \in Q : TRUE
    BY <2>4
  <2>6. IsFiniteSet(Q)
    BY FS_Subset
  <2>7. Cardinality(Q \ {q}) = n - 1
    BY <2>3, <2>6, FS_RemoveElement
  <2>8. n - 1 \in Nat
    BY <2>6, <2>7, FS_RemoveElement, FS_CardinalityType
  <2>9. n - 1 \notin Sizes
    <3>1. n \in Nat
      BY <2>2
    <3> HIDE DEF Sizes
    <3> QED
      BY <2>2, <3>1
  <2>10. Has(Q \ {q})
    BY <2>7, <2>8, <2>9
  <2> QED
    BY <2>3, <2>10, LeastOnMore
<1>2. Has(Page)
  <2>1. Cardinality(Page) \in Nat
    BY FS_CardinalityType
  <2> QED
    BY <1>1, <2>1
<1> QED
  BY <1>2

\* Counts of finitely many pages do not descend for ever.
CountOrder == {fg \in [Page -> Nat] \X [Page -> Nat] : Fewer(fg[1], fg[2])}

LEMMA CountsRunOut ==
  ASSUME IsFiniteSet(Page)
  PROVE  IsWellFoundedOn(CountOrder, [Page -> Nat])
<1>1. ASSUME NEW T \in SUBSET [Page -> Nat], T # {}
      PROVE  \E f \in T : \A g \in T : ~(<<g, f>> \in CountOrder)
  <2>1. PICK f \in T : \A g \in T : (\A p \in Page : g[p] <= f[p]) => \A p \in Page : g[p] = f[p]
    BY <1>1, LeastCount DEF LeastOn
  <2>2. ASSUME NEW g \in T PROVE ~Fewer(g, f)
    BY <2>1 DEF Fewer
  <2> QED
    BY <2>2 DEF CountOrder
<1> QED
  BY <1>1, MinWF

\* No infinite descent of the stages: on finitely many pages no crawl changes for
\* ever, however long its links go round in circles.
THEOREM WorkRunsOut ==
  ASSUME IsFiniteSet(Page)
  PROVE  ~ \E rank \in [Nat -> [1..nStages -> [Page -> Nat]]] :
             \A n \in Nat : Below(rank[n + 1], rank[n])
<1> DEFINE Rank == [1..nStages -> [Page -> Nat]]
           Order == LexProductOrdering(CountOrder, [Page -> Nat], nStages)
<1>1. IsWellFoundedOn(Order, Rank)
  BY CountsRunOut, WFLexProductOrdering DEF nStages
<1>2. ASSUME NEW f \in Rank, NEW g \in Rank, Below(f, g)
      PROVE  <<f, g>> \in Order
  <2>1. PICK i \in 1..nStages : Fewer(f[i], g[i]) /\ \A j \in 1..(i - 1) : f[j] = g[j]
    BY <1>2 DEF Below
  <2>2. <<f[i], g[i]>> \in CountOrder
    BY <2>1 DEF CountOrder
  <2> QED
    BY <2>1, <2>2 DEF LexProductOrdering
<1>3. SUFFICES ASSUME NEW rank \in [Nat -> Rank], \A n \in Nat : Below(rank[n + 1], rank[n])
               PROVE  FALSE
  OBVIOUS
<1> HIDE DEF Rank, Order
<1>4. ASSUME NEW n \in Nat PROVE <<rank[n + 1], rank[n]>> \in Order
  <2>1. n + 1 \in Nat /\ rank[n + 1] \in Rank /\ rank[n] \in Rank
    BY <1>3
  <2> QED
    BY <1>2, <1>3, <2>1
<1> QED
  BY <1>1, <1>4 DEF IsWellFoundedOn

\* The guards of Work: some job, worker or channel can go on.
Ready ==
  \/ pass # "no" \/ slot # NoPage
  \/ \E p \in Page :
       \/ asked[p] > 0 \/ passed[p] > 0 \/ sending[p] > 0
       \/ toFetch[p] > 0 \/ fetching[p] > 0 \/ saved[p] > 0
       \/ toWalk[p] > 0 /\ \E w \in Walker : Idle(w)
  \/ \E w \in Walker :
       \/ link[w] = NoPage /\ todo[w] # {}
       \/ link[w] # NoPage
       \/ Scanned(w) /\ slot = NoPage

\* A crawl never hangs: as long as anything is under way some service can take its
\* next step, whatever jobs, walkers and messages wait for one another.
THEOREM CrawlGoesOn == Spec => [](Walker # {} => Quiet \/ Ready)
<1>1. ASSUME IInv, Walker # {}, ~Ready PROVE Quiet
  <2> USE DEF IInv, TypeOK
  <2>1. pass = "no" /\ slot = NoPage
    BY <1>1 DEF Ready
  <2>2. ASSUME NEW w \in Walker PROVE Idle(w)
    BY <1>1, <2>1, <2>2 DEF Ready, Scanned
  <2>3. ASSUME NEW p \in Page
        PROVE  /\ asked[p] = 0 /\ passed[p] = 0 /\ sending[p] = 0
               /\ toFetch[p] = 0 /\ fetching[p] = 0 /\ saved[p] = 0 /\ toWalk[p] = 0
    BY <1>1, <2>2 DEF Ready
  <2> QED
    BY <2>1, <2>2, <2>3 DEF Quiet
<1>2. IInv => (Walker # {} => Quiet \/ Ready)
  BY <1>1
<1> QED
  BY <1>2, Invariance, PTL

=============================================================================
