------------------------------- MODULE Serve -------------------------------
(***************************************************************************)
(* The page handlers of serve (cmd/serve/main.go) and the search a page    *)
(* sends.  The three handlers put their parameters, key by key, into one   *)
(* map that all requests share, count the pages and bodies in the range    *)
(* they find there, and render from it.                                    *)
(*                                                                         *)
(* A value is abstracted to the request that left it: every key is a       *)
(* function of the request's name.  "As r left it" covers that r deleted   *)
(* the key, because its name has no domain or subdomain.  Go's map is      *)
(* unprotected: operations that overlap may also end the process.          *)
(***************************************************************************)
EXTENDS Domain64, FiniteSets, Sequences

CONSTANTS
  Visit,        \* the requests for a page
  Asking,       \* what the requests may ask for: functions from Visit to Request
  Nobody,       \* the values before the first request
  MaxRaces      \* fatal races TLC may inject

ServeAssumption ==
  /\ Asking \subseteq [Visit -> Request]
  /\ Nobody \notin Visit
  /\ MaxRaces \in Nat

ASSUME ServeAssumptions == ServeAssumption

\* The keys of the map, in the order every handler writes or deletes them.
Written == <<"tld", "domain", "subdomain", "fqdn", "d64_start", "d64_end">>

\* The counts, in the order addMetadata makes them, and the keys each reads first.
Counted == <<"pageCount", "bodyCount">>
Bounds == <<"d64_start", "d64_end">>

\* The keys in the order index.tmpl reads them (the two reads of "{{if .domain}}.{{.domain}}"
\* are one).
Rendered == <<"bodyCount", "pageCount", "tld", "domain", "subdomain", "fqdn",
              "d64_start", "d64_end">>

Elements(s) == {s[i] : i \in DOMAIN s}
Key == Elements(Written) \cup Elements(Counted)
Owner == Visit \cup {Nobody}

VARIABLES
  about,        \* about[v]: what v asks for
  params,       \* params[k]: who left the value of k in baseParams
  span,         \* span[c]: whose d64_start and d64_end count c was made of
  pc,           \* pc[v]: "new", "write", "read", "count", "render", "answered", "broken"
  at,           \* at[v]: the position in the list v works on
  count,        \* count[v]: the count v makes, a position in Counted
  mine,         \* mine[v]: the bounds v has read for its count
  page,         \* page[v]: what v has rendered so far
  pageSpan,     \* pageSpan[v]: the counts it has rendered, as their spans
  found,        \* found[v]: the names the search from v's page selects from (it returns
                \* the ten best of their rows)
  races,        \* fatal races so far
  met           \* history: met[v]: the requests that were at work while v was

handler == <<pc, at, count, mine, page, pageSpan>>
vars == <<about, params, span, handler, found, races, met>>

Span == [start : Owner, end : Owner]
NoSpan == [start |-> Nobody, end |-> Nobody]
NoPage == [k \in Key |-> Nobody]
NoCounts == [c \in Elements(Counted) |-> NoSpan]

\* Not searched yet.
Unsearched == [done |-> FALSE, names |-> {}]

Init ==
  /\ about \in Asking
  /\ params = NoPage
  /\ span = NoCounts
  /\ pc = [v \in Visit |-> "new"]
  /\ at = [v \in Visit |-> 1]
  /\ count = [v \in Visit |-> 1]
  /\ mine = [v \in Visit |-> NoSpan]
  /\ page = [v \in Visit |-> NoPage]
  /\ pageSpan = [v \in Visit |-> NoCounts]
  /\ found = [v \in Visit |-> Unsearched]
  /\ races = 0
  /\ met = [v \in Visit |-> {}]

AtWork == {v \in Visit : pc[v] \in {"write", "read", "count", "render"}}

\* The request reaches its handler, which is one of gin's goroutines.
Arrive(v) ==
  /\ pc[v] = "new"
  /\ pc' = [pc EXCEPT ![v] = "write"]
  /\ met' = [u \in Visit |-> IF u = v THEN AtWork
                             ELSE IF u \in AtWork THEN met[u] \cup {v} ELSE met[u]]
  /\ UNCHANGED <<about, params, span, at, count, mine, page, pageSpan, found, races>>

\* Seeded fault: the next list is begun where the last one ended.
AdvancePast(v, list, next) ==
  /\ at' = [at EXCEPT ![v] = @ + 1]
  /\ IF at[v] < Len(list) THEN UNCHANGED pc ELSE pc' = [pc EXCEPT ![v] = next]

\* To the next position of the list, or to the first of the next phase.
Advance(v, list, next) ==
  IF at[v] < Len(list)
    THEN at' = [at EXCEPT ![v] = @ + 1] /\ UNCHANGED pc
    ELSE at' = [at EXCEPT ![v] = 1] /\ pc' = [pc EXCEPT ![v] = next]

\* Seeded fault: a handler without a subdomain does not delete the key.
LeftUndeleted(v, k) ==
  IF k = "subdomain" /\ about[v].kind # "sub" THEN params ELSE [params EXCEPT ![k] = v]

\* baseParams[k] = ..., or delete(baseParams, k).
Left(v, k) == [params EXCEPT ![k] = v]

Write(v) ==
  /\ pc[v] = "write"
  /\ params' = Left(v, Written[at[v]])
  /\ Advance(v, Written, "read")
  /\ UNCHANGED <<about, span, count, mine, page, pageSpan, found, races, met>>

\* m["d64_start"], m["d64_end"], the parameters of a count.
ReadBound(v) ==
  /\ pc[v] = "read"
  /\ mine' = [mine EXCEPT ![v] = IF at[v] = 1 THEN [@ EXCEPT !.start = params[Bounds[1]]]
                                              ELSE [@ EXCEPT !.end = params[Bounds[2]]]]
  /\ Advance(v, Bounds, "count")
  /\ UNCHANGED <<about, params, span, count, page, pageSpan, found, races, met>>

\* m["pageCount"] = pathCount, m["bodyCount"] = bodyCount: after the query.
WriteCount(v) ==
  /\ pc[v] = "count"
  /\ params' = Left(v, Counted[count[v]])
  /\ span' = [span EXCEPT ![Counted[count[v]]] = mine[v]]
  /\ IF count[v] < Len(Counted)
       THEN count' = [count EXCEPT ![v] = @ + 1] /\ pc' = [pc EXCEPT ![v] = "read"]
       ELSE pc' = [pc EXCEPT ![v] = "render"] /\ UNCHANGED count
  /\ UNCHANGED <<about, at, mine, page, pageSpan, found, races, met>>

\* c.HTML: the template reads a key.
Render(v) ==
  LET k == Rendered[at[v]] IN
  /\ pc[v] = "render"
  /\ page' = [page EXCEPT ![v][k] = params[k]]
  /\ pageSpan' = IF k \in Elements(Counted) THEN [pageSpan EXCEPT ![v][k] = span[k]]
                                            ELSE pageSpan
  /\ Advance(v, Rendered, "answered")
  /\ UNCHANGED <<about, params, span, count, mine, found, races, met>>

\* SearchHandler and runQuery: the script of the page sends the range it was
\* rendered with.
Search(v) ==
  /\ pc[v] = "answered"
  /\ ~found[v].done
  /\ found' = [found EXCEPT ![v] =
       [done |-> TRUE,
        names |-> InRange(D64Start(about[page[v]["d64_start"]]),
                          D64End(about[page[v]["d64_end"]]))]]
  /\ UNCHANGED <<about, params, span, handler, races, met>>

\* "concurrent map writes", "concurrent map read and map write": Go ends the process.
\* Every open request breaks, and the restarted process has the base parameters.
FatalRace ==
  /\ races < MaxRaces
  /\ \E u, v \in AtWork : u # v /\ pc[u] \in {"write", "count"}
  /\ races' = races + 1
  /\ params' = NoPage
  /\ span' = NoCounts
  /\ pc' = [v \in Visit |-> IF v \in AtWork THEN "broken" ELSE pc[v]]
  /\ UNCHANGED <<about, at, count, mine, page, pageSpan, found, met>>

Done ==
  /\ \A v \in Visit : pc[v] = "broken" \/ found[v].done
  /\ UNCHANGED vars

Handle(v) == Arrive(v) \/ Write(v) \/ ReadBound(v) \/ WriteCount(v) \/ Render(v) \/ Search(v)

Next ==
  \/ \E v \in Visit : Handle(v)
  \/ FatalRace
  \/ Done

Spec == Init /\ [][Next]_vars

-----------------------------------------------------------------------------

Phase == {"new", "write", "read", "count", "render", "answered", "broken"}

\* Who the contents of v's page may come from: v and the requests it overlapped.
Near(v) == {v} \cup met[v]

\* Every variable has its type.
TypeOK ==
  /\ about \in Asking
  /\ params \in [Key -> Owner]
  /\ span \in [Elements(Counted) -> Span]
  /\ pc \in [Visit -> Phase]
  /\ at \in [Visit -> 1..Len(Rendered)]
  /\ count \in [Visit -> 1..Len(Counted)]
  /\ mine \in [Visit -> Span]
  /\ page \in [Visit -> [Key -> Owner]]
  /\ pageSpan \in [Visit -> [Elements(Counted) -> Span]]
  /\ found \in [Visit -> [done : BOOLEAN, names : SUBSET Stored]]
  /\ races \in 0..MaxRaces
  /\ met \in [Visit -> SUBSET Visit]

\* A page may mix what several requests left in the shared map, but only requests it
\* overlapped; nothing outlives the requests between which it was mixed up.  A count
\* is one remove further away: it may be of the bounds of a request that overlapped
\* the one that counted.  A request that overlapped nobody is answered with its own.
AnswersFromOverlapping ==
  \A v \in Visit : pc[v] = "answered" =>
    /\ \A k \in Key : page[v][k] \in Near(v)
    /\ \A c \in Elements(Counted) :
         /\ pageSpan[v][c].start \in Near(page[v][c])
         /\ pageSpan[v][c].end \in Near(page[v][c])

\* The search from a page finds the names its request is about, save the one at the end
\* of the range, unless a request for something else got in between.  (The end of a
\* range is excluded, search_db-query.sql, and is itself a number the table admits.)
\* If the table has nothing the request is about, it finds the pages of all hosts that
\* the table lacks.
SearchFindsNamesBelow ==
  \A v \in Visit :
    found[v].done /\ (\A u \in met[v] : about[u] = about[v]) =>
      found[v].names = (Below(about[v]) \ AtTheEnd(about[v])) \cup AtZero(about[v])

-----------------------------------------------------------------------------
(* The inductive invariant behind the two.                                 *)

\* A position is in the list of its phase, and every list is begun at its first; who
\* has not arrived has met nobody.
Positions ==
  \A v \in Visit :
    /\ pc[v] = "write" => at[v] \in 1..Len(Written)
    /\ pc[v] = "read" => at[v] \in 1..Len(Bounds)
    /\ pc[v] \in {"new", "count"} => at[v] = 1
    /\ pc[v] \in {"new", "write"} => count[v] = 1
    /\ pc[v] = "new" => met[v] = {}

\* The keys v has left a value of.
Passed(v) ==
  CASE pc[v] = "write" -> {Written[i] : i \in 1..(at[v] - 1)}
    [] pc[v] \in {"read", "count"} ->
         Elements(Written) \cup {Counted[i] : i \in 1..(count[v] - 1)}
    [] pc[v] = "render" -> Key
    [] OTHER -> {}

\* Requests at work at the same time have met.
WorkersHaveMet == \A u, v \in AtWork : u # v => u \in met[v]

\* What v has left is still v's, or of a request that came while v was at work.
LeftByNear == \A v \in AtWork : \A k \in Passed(v) : params[k] \in Near(v)

\* So are the bounds it has read for a count, and those of every count.
BoundsAreNear ==
  /\ \A v \in Visit : pc[v] = "count" \/ (pc[v] = "read" /\ at[v] = 2) => mine[v].start \in Near(v)
  /\ \A v \in Visit : pc[v] = "count" => mine[v].end \in Near(v)
  /\ \A c \in Elements(Counted) : params[c] \in Visit =>
       span[c].start \in Near(params[c]) /\ span[c].end \in Near(params[c])

\* And what it has rendered.
Shown(v) ==
  CASE pc[v] = "render" -> {Rendered[i] : i \in 1..(at[v] - 1)}
    [] pc[v] = "answered" -> Key
    [] OTHER -> {}

ShownIsNear ==
  \A v \in Visit : \A k \in Shown(v) :
    /\ page[v][k] \in Near(v)
    /\ k \in Elements(Counted) => /\ pageSpan[v][k].start \in Near(page[v][k])
                                 /\ pageSpan[v][k].end \in Near(page[v][k])

\* Only an answered page searches, and it searches between bounds that are near.
SearchedIsNear ==
  \A v \in Visit : found[v].done =>
    /\ pc[v] = "answered"
    /\ found[v].names = InRange(D64Start(about[page[v]["d64_start"]]),
                                D64End(about[page[v]["d64_end"]]))

IInv ==
  /\ TypeOK
  /\ Positions
  /\ WorkersHaveMet
  /\ LeftByNear
  /\ BoundsAreNear
  /\ ShownIsNear
  /\ SearchedIsNear

=============================================================================
