------------------------------- MODULE Index -------------------------------
(***************************************************************************)
(* cmd/extract and cmd/pack: from raw content to rows of the search        *)
(* database.                                                               *)
(*                                                                         *)
(* An extract worker copies the raw content of a document, and for each of *)
(* its pages (an HTML document has one) saves an object and sends a pack   *)
(* job.  All pages are saved under the key of the document, and the pack   *)
(* jobs name only the document: a pack worker loads whatever is at the key *)
(* by then, and inserts path, title and body by three statements.  The two *)
(* services are two processes; fetch may store new raw content meanwhile,  *)
(* and admin may ask to pack any document, whether it was extracted or not.*)
(***************************************************************************)
EXTENDS Integers, FiniteSets

CONSTANTS
  Doc,            \* documents: scheme, host and path
  Pages,          \* Pages[d]: the pages of d if it is a PDF, 0 for one not read
  Extractor,      \* goroutines of the extract queue
  Packer,         \* goroutines of the pack queue
  NoDoc,          \* "no document"
  Nothing,        \* "no object under this key"
  MaxVersion,     \* bound on how often fetch stores raw content of a document
  MaxAsked,       \* bound on the extract jobs fetch asks of a document
  MaxOrdered,     \* bound on the pack jobs admin asks of a document
  MaxTrouble      \* bound on failed calls and crashes together

\* What is saved under a key: a page, of one version of the raw content.
Content == [page: Nat, version: Nat]

Tag == {"path", "title", "body"}

Row == [doc: Doc, tag: Tag, content: Content]

ASSUME IndexAssumption ==
  /\ Pages \in [Doc -> Nat]
  /\ NoDoc \notin Doc
  /\ Nothing \notin Content
  /\ IsFiniteSet(Packer) /\ IsFiniteSet(Extractor)
  /\ MaxVersion \in Nat /\ MaxAsked \in Nat /\ MaxOrdered \in Nat /\ MaxTrouble \in Nat

VARIABLES
  version,    \* version[d]: the raw content in bucket "fetch", 0 if there is none
  asked,      \* asked[d]: extract jobs fetch has asked for
  ordered,    \* ordered[d]: pack jobs admin has asked for
  pdf,        \* the documents that are PDFs, as their content type says
  phase,      \* the extract process: "down", "boot" or "up"
  extracts,   \* extracts[d]: extract jobs that wait for a worker
  xstuck,     \* xstuck[d]: extract jobs whose worker died
  xpc,        \* xpc[x]: what extract worker x does next
  xdoc,       \* xdoc[x]: the document of its job
  xpage,      \* xpage[x]: the page it is at
  xcopy,      \* xcopy[x]: the version it has in its temporary file
  objects,    \* objects[d]: the object in bucket "extract"
  slot,       \* the document of the message the Enqueue goroutine holds
  packPhase,  \* the pack process: "down", "boot" or "up"
  packs,      \* packs[d]: pack jobs that wait for a worker
  pstuck,     \* pstuck[d]: pack jobs whose worker died
  ppc,        \* ppc[p]: what pack worker p does next
  pdoc,       \* pdoc[p]: the document of its job
  loaded,     \* loaded[p]: the object it has loaded
  rows,       \* the rows of raw_content, and so of searchable_content
  faults,     \* calls of S3 and Postgres that failed so far
  crashes,    \* crashes of extract so far
  packCrashes \* crashes of pack so far

fetchVars == <<version, asked, ordered, pdf>>
extractJobs == <<extracts, xstuck>>
extractor == <<xpc, xdoc, xpage, xcopy>>
packJobs == <<packs, pstuck>>
packer == <<ppc, pdoc, loaded>>
extractVars == <<phase, extractJobs, extractor, objects, slot, crashes>>
packVars == <<packPhase, packJobs, packer, rows, packCrashes>>
vars == <<fetchVars, extractVars, packVars, faults>>

Init ==
  /\ version = [d \in Doc |-> 0] /\ asked = [d \in Doc |-> 0]
  /\ ordered = [d \in Doc |-> 0]
  /\ pdf \in SUBSET Doc
  /\ phase = "up" /\ packPhase = "up"
  /\ extracts = [d \in Doc |-> 0] /\ xstuck = [d \in Doc |-> 0]
  /\ xpc = [x \in Extractor |-> "idle"]
  /\ xdoc = [x \in Extractor |-> NoDoc]
  /\ xpage = [x \in Extractor |-> 0]
  /\ xcopy = [x \in Extractor |-> 0]
  /\ objects = [d \in Doc |-> Nothing]
  /\ slot = NoDoc
  /\ packs = [d \in Doc |-> 0] /\ pstuck = [d \in Doc |-> 0]
  /\ ppc = [p \in Packer |-> "idle"]
  /\ pdoc = [p \in Packer |-> NoDoc]
  /\ loaded = [p \in Packer |-> Nothing]
  /\ rows = {}
  /\ faults = 0 /\ crashes = 0 /\ packCrashes = 0

Trouble == faults + crashes + packCrashes < MaxTrouble

Fault == Trouble /\ faults' = faults + 1

XGoto(x, step) == xpc' = [xpc EXCEPT ![x] = step]

PGoto(p, step) == ppc' = [ppc EXCEPT ![p] = step]

-----------------------------------------------------------------------------
(* Fetch and admin, as far as extract and pack see them.                   *)

\* fetchPageContent stores the raw content: for the first and for the second
\* fetch of a job, and again whenever the page is due.
StoreRaw(d) ==
  /\ version[d] < MaxVersion
  /\ version' = [version EXCEPT ![d] = @ + 1]
  /\ UNCHANGED <<asked, ordered, pdf, extractVars, packVars, faults>>

\* The JSON document is saved, and the extract message committed.  The raw
\* content is there, unless the error of storing it was only logged.
AskExtract(d) ==
  /\ asked[d] < MaxAsked
  /\ \/ version[d] > 0 /\ UNCHANGED faults
     \/ version[d] = 0 /\ Fault
  /\ asked' = [asked EXCEPT ![d] = @ + 1]
  /\ extracts' = [extracts EXCEPT ![d] = @ + 1]
  /\ UNCHANGED <<version, ordered, pdf, phase, xstuck, extractor, objects, slot, crashes,
                 packVars>>

\* PackRequestHandler of admin: a pack job for whatever host and path the request
\* names, with or without an object under its key.
OrderPack(d) ==
  /\ ordered[d] < MaxOrdered
  /\ ordered' = [ordered EXCEPT ![d] = @ + 1]
  /\ packs' = [packs EXCEPT ![d] = @ + 1]
  /\ UNCHANGED <<version, asked, pdf, extractVars, packPhase, pstuck, packer, rows,
                 packCrashes, faults>>

-----------------------------------------------------------------------------
(* extract.                                                                *)

TakeExtract(x, d) ==
  /\ phase # "down"
  /\ xpc[x] = "idle" /\ extracts[d] > 0
  /\ extracts' = [extracts EXCEPT ![d] = @ - 1]
  /\ xdoc' = [xdoc EXCEPT ![x] = d]
  /\ XGoto(x, "load")
  /\ UNCHANGED <<fetchVars, phase, xstuck, xpage, xcopy, objects, slot, crashes, packVars,
                 faults>>

\* s3json.Load(): an error is logged, and the job goes on with an object that
\* has no content type and so nothing to extract.
LoadJSON(x) ==
  /\ xpc[x] = "load"
  /\ \/ XGoto(x, "copy") /\ UNCHANGED faults
     \/ XGoto(x, "return") /\ Fault
  /\ UNCHANGED <<fetchVars, phase, extractJobs, xdoc, xpage, xcopy, objects, slot, crashes,
                 packVars>>

\* An HTML document is one page; a PDF that is too large or broken has none.
PagesOf(d) == IF d \in pdf THEN Pages[d] ELSE 1

\* S3ToFile, and the document opened.  An HTML document that cannot be copied is
\* given up; for a PDF the missing file ends the process (Crash).
CopyRaw(x) ==
  LET d == xdoc[x] IN
  /\ xpc[x] = "copy"
  /\ \/ /\ version[d] > 0
        /\ XGoto(x, IF PagesOf(d) > 0 THEN "save" ELSE "return")
        /\ UNCHANGED faults
     \/ /\ d \notin pdf
        /\ XGoto(x, "return")
        /\ IF version[d] = 0 THEN UNCHANGED faults ELSE Fault
  /\ xcopy' = [xcopy EXCEPT ![x] = version[d]]
  /\ xpage' = [xpage EXCEPT ![x] = 1]
  /\ UNCHANGED <<fetchVars, phase, extractJobs, xdoc, objects, slot, crashes, packVars>>

\* Seeded fault: the object is not stored.
NotSaved(d, content) == UNCHANGED objects

Saved(d, content) == objects' = [objects EXCEPT ![d] = content]

\* newObj.Save(): the key is that of the document, whatever the page.
SavePage(x) ==
  /\ xpc[x] = "save"
  /\ Saved(xdoc[x], [page |-> xpage[x], version |-> xcopy[x]])
  /\ XGoto(x, "send")
  /\ UNCHANGED <<fetchVars, phase, extractJobs, xdoc, xpage, xcopy, slot, crashes, packVars,
                 faults>>

\* ChQSHP <- the pack message, and on to the next page.
SendPage(x) ==
  LET d == xdoc[x] IN
  /\ xpc[x] = "send"
  /\ phase = "up" /\ slot = NoDoc
  /\ slot' = d
  /\ xpage' = [xpage EXCEPT ![x] = @ + 1]
  /\ XGoto(x, IF xpage[x] < PagesOf(d) THEN "save" ELSE "return")
  /\ UNCHANGED <<fetchVars, phase, extractJobs, xdoc, xcopy, objects, crashes, packVars, faults>>

ReturnExtract(x) ==
  /\ xpc[x] = "return"
  /\ XGoto(x, "idle")
  /\ xdoc' = [xdoc EXCEPT ![x] = NoDoc]
  /\ xpage' = [xpage EXCEPT ![x] = 0]
  /\ xcopy' = [xcopy EXCEPT ![x] = 0]
  /\ UNCHANGED <<fetchVars, phase, extractJobs, objects, slot, crashes, packVars, faults>>

\* Seeded fault: the transaction is never committed.
NotCommitted(d) == UNCHANGED packs

Committed(d) == packs' = [packs EXCEPT ![d] = @ + 1]

\* The Enqueue goroutine of extract commits the pack job.
Commit ==
  /\ phase = "up" /\ slot # NoDoc
  /\ Committed(slot)
  /\ slot' = NoDoc
  /\ UNCHANGED <<fetchVars, phase, extractJobs, extractor, objects, crashes,
                 packPhase, pstuck, packer, rows, packCrashes, faults>>

\* The process dies: a failed commit or save, a redeploy, or a PDF whose raw
\* content cannot be copied (for which this is the only step).
Crash ==
  /\ phase # "down" /\ Trouble
  /\ crashes' = crashes + 1
  /\ phase' = "down"
  /\ xstuck' = [d \in Doc |-> xstuck[d] + Cardinality({x \in Extractor : xdoc[x] = d})]
  /\ xpc' = [x \in Extractor |-> "idle"]
  /\ xdoc' = [x \in Extractor |-> NoDoc]
  /\ xpage' = [x \in Extractor |-> 0]
  /\ xcopy' = [x \in Extractor |-> 0]
  /\ slot' = NoDoc
  /\ UNCHANGED <<fetchVars, extracts, objects, packVars, faults>>

\* InitializeQueues starts the workers, go queueing.Enqueue comes later.
Boot ==
  /\ \/ phase = "down" /\ phase' = "boot"
     \/ phase = "boot" /\ phase' = "up"
  /\ UNCHANGED <<fetchVars, extractJobs, extractor, objects, slot, crashes, packVars, faults>>

RescueExtract(d) ==
  /\ xstuck[d] > 0
  /\ xstuck' = [xstuck EXCEPT ![d] = @ - 1]
  /\ extracts' = [extracts EXCEPT ![d] = @ + 1]
  /\ UNCHANGED <<fetchVars, phase, extractor, objects, slot, crashes, packVars, faults>>

-----------------------------------------------------------------------------
(* pack.                                                                   *)

TakePack(p, d) ==
  /\ packPhase # "down"
  /\ ppc[p] = "idle" /\ packs[d] > 0
  /\ packs' = [packs EXCEPT ![d] = @ - 1]
  /\ pdoc' = [pdoc EXCEPT ![p] = d]
  /\ PGoto(p, "load")
  /\ UNCHANGED <<fetchVars, extractVars, packPhase, pstuck, loaded, rows, packCrashes, faults>>

\* S3PathToS3JSON: what is under the key of the document now.
LoadObject(p) ==
  /\ ppc[p] = "load"
  /\ objects[pdoc[p]] # Nothing
  /\ loaded' = [loaded EXCEPT ![p] = objects[pdoc[p]]]
  /\ PGoto(p, "path")
  /\ UNCHANGED <<fetchVars, extractVars, packPhase, packJobs, pdoc, rows, packCrashes, faults>>

\* Seeded fault: the worker keeps its document.
KeepDoc(p) == UNCHANGED <<pdoc, loaded>>

Release(p) ==
  /\ pdoc' = [pdoc EXCEPT ![p] = NoDoc]
  /\ loaded' = [loaded EXCEPT ![p] = Nothing]

\* The worker panics, and River retries the job: the error path of a failed load
\* uses the object that is not there, and the database connection does not
\* exist until main() has made it.
PackPanic(p) ==
  /\ \/ ppc[p] = "load" /\ IF objects[pdoc[p]] = Nothing THEN UNCHANGED faults ELSE Fault
     \/ ppc[p] = "path" /\ packPhase = "boot" /\ UNCHANGED faults
  /\ packs' = [packs EXCEPT ![pdoc[p]] = @ + 1]
  /\ PGoto(p, "idle") /\ Release(p)
  /\ UNCHANGED <<fetchVars, extractVars, packPhase, pstuck, rows, packCrashes>>

\* The last attempt River allows has met an empty key like those before it: the
\* job is discarded.  (The attempts are not counted; any may have been the last.)
DiscardPack(p) ==
  /\ ppc[p] = "load" /\ objects[pdoc[p]] = Nothing
  /\ PGoto(p, "idle") /\ Release(p)
  /\ UNCHANGED <<fetchVars, extractVars, packPhase, packJobs, rows, packCrashes, faults>>

\* Seeded fault: the key is read again for each statement.
Reloaded(p) == objects[pdoc[p]]

Packing(p) == loaded[p]

\* InsertRawContent, one of three statements; an error is only logged.
Insert(p, tag, next) ==
  /\ ppc[p] = tag
  /\ packPhase = "up"
  /\ \/ /\ rows' = rows \cup {[doc |-> pdoc[p], tag |-> tag, content |-> Packing(p)]}
        /\ UNCHANGED faults
     \/ UNCHANGED rows /\ Fault
  /\ PGoto(p, next)
  /\ UNCHANGED <<fetchVars, extractVars, packPhase, packJobs, pdoc, loaded, packCrashes>>

InsertPath(p) == Insert(p, "path", "title")
InsertTitle(p) == Insert(p, "title", "body")
InsertBody(p) == Insert(p, "body", "return")

ReturnPack(p) ==
  /\ ppc[p] = "return"
  /\ PGoto(p, "idle") /\ Release(p)
  /\ UNCHANGED <<fetchVars, extractVars, packPhase, packJobs, rows, packCrashes, faults>>

PackCrash ==
  /\ packPhase # "down" /\ Trouble
  /\ packCrashes' = packCrashes + 1
  /\ packPhase' = "down"
  /\ pstuck' = [d \in Doc |-> pstuck[d] + Cardinality({p \in Packer : pdoc[p] = d})]
  /\ ppc' = [p \in Packer |-> "idle"]
  /\ pdoc' = [p \in Packer |-> NoDoc]
  /\ loaded' = [p \in Packer |-> Nothing]
  /\ UNCHANGED <<fetchVars, extractVars, packs, rows, faults>>

\* Seeded fault: main() never gets to the connection.
PackBootUnfinished ==
  /\ packPhase = "down" /\ packPhase' = "boot"
  /\ UNCHANGED <<fetchVars, extractVars, packJobs, packer, rows, packCrashes, faults>>

\* InitializeQueues starts the workers, the connection comes later.
PackBoot ==
  /\ \/ packPhase = "down" /\ packPhase' = "boot"
     \/ packPhase = "boot" /\ packPhase' = "up"
  /\ UNCHANGED <<fetchVars, extractVars, packJobs, packer, rows, packCrashes, faults>>

RescuePack(d) ==
  /\ pstuck[d] > 0
  /\ pstuck' = [pstuck EXCEPT ![d] = @ - 1]
  /\ packs' = [packs EXCEPT ![d] = @ + 1]
  /\ UNCHANGED <<fetchVars, extractVars, packPhase, packer, rows, packCrashes, faults>>

-----------------------------------------------------------------------------
Extract(x) ==
  \/ LoadJSON(x) \/ CopyRaw(x) \/ SavePage(x) \/ SendPage(x) \/ ReturnExtract(x)

Pack(p) ==
  \/ LoadObject(p) \/ PackPanic(p) \/ DiscardPack(p)
  \/ InsertPath(p) \/ InsertTitle(p) \/ InsertBody(p) \/ ReturnPack(p)

Done ==
  /\ \A x \in Extractor : xpc[x] \in {"idle", "copy"}
  /\ \A p \in Packer : ppc[p] = "idle"
  /\ \A d \in Doc : extracts[d] = 0 /\ packs[d] = 0
  /\ UNCHANGED vars

Next ==
  \/ \E d \in Doc : \/ StoreRaw(d) \/ AskExtract(d) \/ OrderPack(d)
                   \/ RescueExtract(d) \/ RescuePack(d)
  \/ \E x \in Extractor : Extract(x) \/ \E d \in Doc : TakeExtract(x, d)
  \/ \E p \in Packer : Pack(p) \/ \E d \in Doc : TakePack(p, d)
  \/ Commit \/ Crash \/ Boot \/ PackCrash \/ PackBoot
  \/ Done

Spec == Init /\ [][Next]_vars

\* As in Fetch: River takes the oldest job first and a channel serves its senders
\* in order (strong fairness of taking a job and of a send); goroutines, rescuers
\* and startups go on.
Fairness ==
  /\ \A d \in Doc :
       /\ SF_vars(\E x \in Extractor : TakeExtract(x, d)) /\ WF_vars(RescueExtract(d))
       /\ SF_vars(\E p \in Packer : TakePack(p, d)) /\ WF_vars(RescuePack(d))
  /\ \A x \in Extractor : SF_vars(Extract(x))
  /\ \A p \in Packer : WF_vars(Pack(p))
  /\ WF_vars(Commit) /\ WF_vars(Boot) /\ WF_vars(PackBoot)

FairSpec == Spec /\ Fairness

-----------------------------------------------------------------------------
(* Properties that hold.                                                   *)

CountPerDoc == [Doc -> Nat]

TypeOK ==
  /\ version \in [Doc -> 0..MaxVersion] /\ asked \in [Doc -> 0..MaxAsked]
  /\ ordered \in [Doc -> 0..MaxOrdered]
  /\ pdf \subseteq Doc
  /\ phase \in {"down", "boot", "up"} /\ packPhase \in {"down", "boot", "up"}
  /\ extracts \in CountPerDoc /\ xstuck \in CountPerDoc
  /\ xpc \in [Extractor -> {"idle", "load", "copy", "save", "send", "return"}]
  /\ xdoc \in [Extractor -> Doc \cup {NoDoc}]
  /\ \A x \in Extractor : xpc[x] = "idle" <=> xdoc[x] = NoDoc
  /\ xpage \in [Extractor -> Nat] /\ xcopy \in [Extractor -> Nat]
  /\ objects \in [Doc -> Content \cup {Nothing}]
  /\ slot \in Doc \cup {NoDoc}
  /\ packs \in CountPerDoc /\ pstuck \in CountPerDoc
  /\ ppc \in [Packer -> {"idle", "load", "return"} \cup Tag]
  /\ pdoc \in [Packer -> Doc \cup {NoDoc}]
  /\ \A p \in Packer : ppc[p] = "idle" <=> pdoc[p] = NoDoc
  /\ loaded \in [Packer -> Content \cup {Nothing}]
  /\ \A p \in Packer : ppc[p] \in Tag => loaded[p] \in Content
  /\ rows \subseteq Row
  /\ faults \in Nat /\ crashes \in Nat /\ packCrashes \in Nat

RowOf(d, tag, c) == [doc |-> d, tag |-> tag, content |-> c]

\* All three rows of the content are in the table.
Complete(d, c) == \A tag \in Tag : RowOf(d, tag, c) \in rows

\* A pack job of the document is in the channel or in the queue.
Told(d) == slot = d \/ packs[d] > 0 \/ pstuck[d] > 0

\* A pack job for what is under the key now is on its way or at work.
Pending(d) ==
  \/ Told(d)
  \/ \E x \in Extractor : xdoc[x] = d /\ xpc[x] = "send"
  \/ \E p \in Packer :
       /\ pdoc[p] = d
       /\ ppc[p] = "load" \/ (ppc[p] \in Tag /\ loaded[p] = objects[d])

\* The last content saved under a key is packed, or still on its way to be: pages
\* and newer versions overwrite each other while pack workers read the key and
\* pack dies and starts again, but the last one is never left behind.
LastPageIsPacked ==
  faults = 0 /\ crashes = 0 =>
    \A d \in Doc :
      objects[d] # Nothing => Complete(d, objects[d]) \/ Pending(d)

\* A body in the table has the path and the title of its own page and version,
\* although the object was replaced while its rows were inserted.
BodyHasItsTitle ==
  faults = 0 => \A r \in rows : r.tag = "body" => Complete(r.doc, r.content)

\* The pack jobs of the document: waiting, stuck, or with a worker.
PackJobs(d) == packs[d] + pstuck[d] + Cardinality({p \in Packer : pdoc[p] = d})

\* No pack job of extract finds the key of its document empty, which makes a worker
\* panic at every attempt: while there is no object, extract has sent nothing,
\* and all jobs of the document, however often they were taken, retried and
\* rescued, are ones that admin has asked for.
PackFindsObject ==
  \A d \in Doc : objects[d] = Nothing => slot # d /\ PackJobs(d) <= ordered[d]

\* An extract job of the document is still to save it once more.
Redone(d) ==
  \/ extracts[d] > 0 \/ xstuck[d] > 0
  \/ \E x \in Extractor : xdoc[x] = d /\ xpc[x] # "return"

\* What lies under these keys is not packed, and nothing is left to pack it.
Lost ==
  {d \in Doc : /\ objects[d] # Nothing
               /\ ~ (Complete(d, objects[d]) \/ Pending(d) \/ Redone(d))}

\* A crash of extract loses one document at most, the one of the message in the
\* channel: all others are extracted again, whatever their workers had saved and
\* sent by then, and however often pack dies.
CrashLosesOne == faults = 0 => Cardinality(Lost) <= crashes

\* In the end what lies under the key is in the table.
EventuallyPacked ==
  \A d \in Doc :
    <>[](faults = 0 /\ crashes = 0 /\ objects[d] # Nothing => Complete(d, objects[d]))

-----------------------------------------------------------------------------
(* The inductive invariant behind the safety properties.                   *)

\* What a pack worker has inserted by the time it is at a statement.
InsertedInv ==
  faults = 0 =>
    \A p \in Packer :
      /\ ppc[p] \in {"title", "body"} => RowOf(pdoc[p], "path", loaded[p]) \in rows
      /\ ppc[p] = "body" => RowOf(pdoc[p], "title", loaded[p]) \in rows

\* An extract worker that is about to send has saved.
SavedInv ==
  \A x \in Extractor : xpc[x] = "send" => objects[xdoc[x]] # Nothing

\* Unless a call failed, who is asked to extract finds the raw content.
AskedInv ==
  faults = 0 =>
    \A d \in Doc :
      extracts[d] > 0 \/ xstuck[d] > 0 \/ (\E x \in Extractor : xdoc[x] = d) =>
        version[d] > 0

\* Only a document that has pages is saved.
PagedInv ==
  /\ \A d \in Doc : objects[d] # Nothing => PagesOf(d) > 0
  /\ \A x \in Extractor : xpc[x] = "save" => PagesOf(xdoc[x]) > 0

LossInv == faults = 0 => IsFiniteSet(Lost) /\ Cardinality(Lost) <= crashes

IInv ==
  /\ TypeOK
  /\ SavedInv
  /\ PackFindsObject
  /\ InsertedInv
  /\ BodyHasItsTitle
  /\ LastPageIsPacked
  /\ AskedInv
  /\ PagedInv
  /\ LossInv

=============================================================================
