----------------------------- MODULE IndexProofs -----------------------------
(***************************************************************************)
(* Extract and pack keep their promises for every number of documents,     *)
(* pages and workers, any number of extractions, versions, faults and      *)
(* crashes. IInv, defined beside the properties in Index, is inductive.    *)
(***************************************************************************)
EXTENDS Index, Sequences, FiniteSetTheorems, TLAPS

-----------------------------------------------------------------------------
(* Types.                                                                  *)

\* What the proofs need of the constants.
LEMMA Constants ==
  /\ NoDoc \notin Doc /\ Nothing \notin Content
  /\ IsFiniteSet(Packer) /\ IsFiniteSet(Extractor)
  /\ MaxVersion \in Nat /\ MaxAsked \in Nat /\ MaxOrdered \in Nat
  BY IndexAssumption, Zenon DEF IndexAssumption

\* A count that goes up or down stays a count.
LEMMA CountTypes ==
  ASSUME NEW f \in CountPerDoc, NEW d \in Doc
  PROVE  /\ [f EXCEPT ![d] = @ + 1] \in CountPerDoc
         /\ f[d] > 0 => [f EXCEPT ![d] = @ - 1] \in CountPerDoc
  BY DEF CountPerDoc

\* The jobs of the workers that die are counted with the stuck ones.
LEMMA StuckTypes ==
  ASSUME TypeOK
  PROVE  /\ [d \in Doc |-> xstuck[d] + Cardinality({x \in Extractor : xdoc[x] = d})]
              \in CountPerDoc
         /\ [d \in Doc |-> pstuck[d] + Cardinality({p \in Packer : pdoc[p] = d})]
              \in CountPerDoc
<1>1. ASSUME NEW d \in Doc
      PROVE  /\ Cardinality({x \in Extractor : xdoc[x] = d}) \in Nat
             /\ Cardinality({p \in Packer : pdoc[p] = d}) \in Nat
  BY Constants, FS_Subset, FS_CardinalityType
<1>2. ASSUME NEW d \in Doc
      PROVE  /\ xstuck[d] + Cardinality({x \in Extractor : xdoc[x] = d}) \in Nat
             /\ pstuck[d] + Cardinality({p \in Packer : pdoc[p] = d}) \in Nat
  <2> DEFINE n == Cardinality({x \in Extractor : xdoc[x] = d})
             m == Cardinality({p \in Packer : pdoc[p] = d})
  <2>1. n \in Nat /\ m \in Nat
    BY <1>1, <1>2
  <2>2. xstuck[d] \in Nat /\ pstuck[d] \in Nat
    BY <1>2 DEF TypeOK, CountPerDoc
  <2> HIDE DEF n, m
  <2>3. xstuck[d] + n \in Nat /\ pstuck[d] + m \in Nat
    BY <2>1, <2>2
  <2> QED
    BY <2>3 DEF n, m
<1> QED
  BY <1>2 DEF CountPerDoc

LEMMA InitTypeOK == Init => TypeOK
  BY Constants DEF Init, TypeOK, CountPerDoc, Tag

LEMMA TypeStep == TypeOK /\ [Next]_vars => TypeOK'
<1> SUFFICES ASSUME TypeOK, [Next]_vars PROVE TypeOK'
  OBVIOUS
<1> USE DEF fetchVars, extractJobs, extractor, packJobs, packer, extractVars, packVars,
            XGoto, PGoto, Fault
<1>1. ASSUME NEW d \in Doc, StoreRaw(d) PROVE TypeOK'
  <2>1. version' \in [Doc -> 0..MaxVersion]
    BY <1>1, Constants DEF StoreRaw, TypeOK
  <2> QED
    BY <1>1, <2>1 DEF StoreRaw, TypeOK
<1>2. ASSUME NEW d \in Doc, AskExtract(d) PROVE TypeOK'
  <2>1. asked' \in [Doc -> 0..MaxAsked]
    BY <1>2, Constants DEF AskExtract, TypeOK
  <2>2. faults' \in Nat
    BY <1>2 DEF AskExtract, TypeOK
  <2>3. extracts' \in CountPerDoc
    BY <1>2, CountTypes DEF AskExtract, TypeOK
  <2> QED
    BY <1>2, <2>1, <2>2, <2>3 DEF AskExtract, TypeOK
<1>3. ASSUME NEW x \in Extractor, NEW d \in Doc, TakeExtract(x, d) PROVE TypeOK'
  <2>1. extracts' \in CountPerDoc
    BY <1>3, CountTypes DEF TakeExtract, TypeOK
  <2> QED
    BY <1>3, <2>1, Constants DEF TakeExtract, TypeOK
<1>4. ASSUME NEW x \in Extractor, LoadJSON(x) PROVE TypeOK'
  BY <1>4 DEF LoadJSON, TypeOK
<1>5. ASSUME NEW x \in Extractor, CopyRaw(x) PROVE TypeOK'
  <2>1. xdoc[x] \in Doc
    BY <1>5 DEF CopyRaw, TypeOK
  <2>2. version[xdoc[x]] \in Nat
    BY <2>1, Constants DEF TypeOK
  <2> QED
    BY <1>5, <2>2 DEF CopyRaw, TypeOK
<1>6. ASSUME NEW x \in Extractor, SavePage(x) PROVE TypeOK'
  <2>1. [page |-> xpage[x], version |-> xcopy[x]] \in Content
    BY DEF TypeOK, Content
  <2> QED
    BY <1>6, <2>1 DEF SavePage, Saved, TypeOK
<1>7. ASSUME NEW x \in Extractor, SendPage(x) PROVE TypeOK'
  <2>1. xdoc[x] \in Doc
    BY <1>7 DEF SendPage, TypeOK
  <2> QED
    BY <1>7, <2>1 DEF SendPage, TypeOK
<1>8. ASSUME NEW x \in Extractor, ReturnExtract(x) PROVE TypeOK'
  BY <1>8 DEF ReturnExtract, TypeOK
<1>9. CASE Commit
  <2>1. slot \in Doc
    BY <1>9 DEF Commit, TypeOK
  <2>2. packs' \in CountPerDoc
    BY <1>9, <2>1, CountTypes DEF Commit, Committed, TypeOK
  <2> QED
    BY <1>9, <2>2 DEF Commit, TypeOK
<1>10. CASE Crash
  BY <1>10, StuckTypes DEF Crash, TypeOK
<1>11. CASE Boot
  BY <1>11 DEF Boot, TypeOK
<1>12. ASSUME NEW d \in Doc, RescueExtract(d) PROVE TypeOK'
  <2>1. xstuck' \in CountPerDoc /\ extracts' \in CountPerDoc
    BY <1>12, CountTypes DEF RescueExtract, TypeOK
  <2> QED
    BY <1>12, <2>1 DEF RescueExtract, TypeOK
<1>13. ASSUME NEW p \in Packer, NEW d \in Doc, TakePack(p, d) PROVE TypeOK'
  <2>1. packs' \in CountPerDoc
    BY <1>13, CountTypes DEF TakePack, TypeOK
  <2> QED
    BY <1>13, <2>1, Constants DEF TakePack, TypeOK, Tag
<1>14. ASSUME NEW p \in Packer, LoadObject(p) PROVE TypeOK'
  <2>1. pdoc[p] \in Doc
    BY <1>14 DEF LoadObject, TypeOK
  <2>2. objects[pdoc[p]] \in Content
    BY <1>14, <2>1 DEF LoadObject, TypeOK
  <2> QED
    BY <1>14, <2>2 DEF LoadObject, TypeOK, Tag
<1>15. ASSUME NEW p \in Packer, PackPanic(p) PROVE TypeOK'
  <2>1. pdoc[p] \in Doc
    BY <1>15 DEF PackPanic, TypeOK
  <2>2. packs' \in CountPerDoc
    BY <1>15, <2>1, CountTypes DEF PackPanic, TypeOK
  <2>3. faults' \in Nat
    BY <1>15 DEF PackPanic, TypeOK
  <2> QED
    BY <1>15, <2>2, <2>3 DEF PackPanic, Release, TypeOK, Tag
<1>16. ASSUME NEW p \in Packer, NEW tag \in Tag, NEW next \in {"title", "body", "return"},
              Insert(p, tag, next)
       PROVE  TypeOK'
  <2>1. ppc[p] = tag /\ pdoc[p] \in Doc /\ loaded[p] \in Content
    BY <1>16 DEF Insert, TypeOK, Tag
  <2>2. [doc |-> pdoc[p], tag |-> tag, content |-> Packing(p)] \in Row
    BY <2>1 DEF Row, Packing
  <2>3. rows' \subseteq Row
    BY <1>16, <2>2 DEF Insert, TypeOK
  <2>4. faults' \in Nat
    BY <1>16 DEF Insert, TypeOK
  <2> QED
    BY <1>16, <2>1, <2>3, <2>4 DEF Insert, TypeOK, Tag
<1>17. ASSUME NEW p \in Packer, ReturnPack(p) PROVE TypeOK'
  BY <1>17 DEF ReturnPack, Release, TypeOK, Tag
<1>18. CASE PackCrash
  BY <1>18, StuckTypes DEF PackCrash, TypeOK, Tag
<1>19. CASE PackBoot
  BY <1>19 DEF PackBoot, TypeOK
<1>20. ASSUME NEW d \in Doc, RescuePack(d) PROVE TypeOK'
  <2>1. pstuck' \in CountPerDoc /\ packs' \in CountPerDoc
    BY <1>20, CountTypes DEF RescuePack, TypeOK
  <2> QED
    BY <1>20, <2>1 DEF RescuePack, TypeOK
<1>21. CASE UNCHANGED vars
  BY <1>21 DEF vars, TypeOK
<1>23. ASSUME NEW d \in Doc, OrderPack(d) PROVE TypeOK'
  <2>1. ordered' \in [Doc -> 0..MaxOrdered]
    BY <1>23, Constants DEF OrderPack, TypeOK
  <2>2. packs' \in CountPerDoc
    BY <1>23, CountTypes DEF OrderPack, TypeOK
  <2> QED
    BY <1>23, <2>1, <2>2 DEF OrderPack, TypeOK
<1>24. ASSUME NEW p \in Packer, DiscardPack(p) PROVE TypeOK'
  BY <1>24 DEF DiscardPack, Release, TypeOK, Tag
<1>22. ASSUME NEW p \in Packer, InsertPath(p) \/ InsertTitle(p) \/ InsertBody(p)
       PROVE  TypeOK'
  BY <1>16, <1>22 DEF InsertPath, InsertTitle, InsertBody, Tag
<1> QED
  BY <1>1, <1>2, <1>3, <1>4, <1>5, <1>6, <1>7, <1>8, <1>9, <1>10, <1>11, <1>12, <1>13,
     <1>14, <1>15, <1>17, <1>18, <1>19, <1>20, <1>21, <1>22, <1>23, <1>24
     DEF Next, Extract, Pack, Done

-----------------------------------------------------------------------------
(* Who moves.                                                              *)

\* A step of the system that is no step of extract worker x leaves it alone.
LEMMA ExtractorMoves ==
  ASSUME TypeOK, [Next]_vars, NEW x \in Extractor
  PROVE  \/ xpc'[x] = xpc[x] /\ xdoc'[x] = xdoc[x]
         \/ Extract(x) \/ Crash \/ \E d \in Doc : TakeExtract(x, d)
<1> USE DEF TypeOK, extractJobs, extractor, extractVars, XGoto
<1>1. ASSUME NEW y \in Extractor, Extract(y), y # x
      PROVE  xpc'[x] = xpc[x] /\ xdoc'[x] = xdoc[x]
  BY <1>1 DEF Extract, LoadJSON, CopyRaw, SavePage, SendPage, ReturnExtract
<1>2. ASSUME NEW y \in Extractor, NEW d \in Doc, TakeExtract(y, d), y # x
      PROVE  xpc'[x] = xpc[x] /\ xdoc'[x] = xdoc[x]
  BY <1>2 DEF TakeExtract
<1>3. ASSUME NEW p \in Packer, Pack(p) \/ \E d \in Doc : TakePack(p, d)
      PROVE  xpc'[x] = xpc[x] /\ xdoc'[x] = xdoc[x]
  BY <1>3 DEF Pack, TakePack, LoadObject, PackPanic, DiscardPack, InsertPath, InsertTitle,
              InsertBody, Insert, ReturnPack
<1>4. CASE \/ \E d \in Doc : \/ StoreRaw(d) \/ AskExtract(d) \/ OrderPack(d)
                             \/ RescueExtract(d) \/ RescuePack(d)
           \/ Commit \/ Boot \/ PackCrash \/ PackBoot \/ Done \/ UNCHANGED vars
  BY <1>4 DEF StoreRaw, AskExtract, OrderPack, RescueExtract, RescuePack, Commit, Boot,
              PackCrash, PackBoot, Done, vars
<1> QED
  BY <1>1, <1>2, <1>3, <1>4 DEF Next

\* The same of a pack worker.
LEMMA PackerMoves ==
  ASSUME TypeOK, [Next]_vars, NEW p \in Packer
  PROVE  \/ ppc'[p] = ppc[p] /\ pdoc'[p] = pdoc[p] /\ loaded'[p] = loaded[p]
         \/ Pack(p) \/ PackCrash \/ \E d \in Doc : TakePack(p, d)
<1> USE DEF TypeOK, packJobs, packer, packVars, PGoto
<1>1. ASSUME NEW q \in Packer, Pack(q), q # p
      PROVE  ppc'[p] = ppc[p] /\ pdoc'[p] = pdoc[p] /\ loaded'[p] = loaded[p]
  BY <1>1 DEF Pack, LoadObject, PackPanic, DiscardPack, InsertPath, InsertTitle, InsertBody,
              Insert, ReturnPack, Release
<1>2. ASSUME NEW q \in Packer, NEW d \in Doc, TakePack(q, d), q # p
      PROVE  ppc'[p] = ppc[p] /\ pdoc'[p] = pdoc[p] /\ loaded'[p] = loaded[p]
  BY <1>2 DEF TakePack
<1>3. ASSUME NEW x \in Extractor, Extract(x) \/ \E d \in Doc : TakeExtract(x, d)
      PROVE  ppc'[p] = ppc[p] /\ pdoc'[p] = pdoc[p] /\ loaded'[p] = loaded[p]
  BY <1>3 DEF Extract, TakeExtract, LoadJSON, CopyRaw, SavePage, SendPage, ReturnExtract
<1>4. CASE \/ \E d \in Doc : \/ StoreRaw(d) \/ AskExtract(d) \/ OrderPack(d)
                             \/ RescueExtract(d) \/ RescuePack(d)
           \/ Commit \/ Crash \/ Boot \/ PackBoot \/ Done \/ UNCHANGED vars
  BY <1>4 DEF StoreRaw, AskExtract, OrderPack, RescueExtract, RescuePack, Commit, Crash, Boot,
              PackBoot, Done, vars
<1> QED
  BY <1>1, <1>2, <1>3, <1>4 DEF Next

-----------------------------------------------------------------------------
(* What lies under a key.                                                  *)

\* An object is replaced by a save, and never removed.
LEMMA ObjectsStay ==
  ASSUME TypeOK, [Next]_vars, NEW d \in Doc
  PROVE  \/ objects'[d] = objects[d]
         \/ /\ objects'[d] # Nothing
            /\ \E x \in Extractor : SavePage(x) /\ xdoc[x] = d
<1> USE DEF extractVars, packVars
<1>1. ASSUME NEW x \in Extractor, SavePage(x)
      PROVE  \/ objects'[d] = objects[d]
             \/ objects'[d] # Nothing /\ xdoc[x] = d
  <2>1. [page |-> xpage[x], version |-> xcopy[x]] # Nothing
    BY Constants DEF TypeOK, Content
  <2> QED
    BY <1>1, <2>1 DEF SavePage, Saved, TypeOK
<1>2. CASE ~ \E x \in Extractor : SavePage(x)
  BY <1>2 DEF Next, Extract, Pack, Done, vars, StoreRaw, AskExtract, OrderPack, RescueExtract,
              RescuePack,
              TakeExtract, LoadJSON, CopyRaw, SendPage, ReturnExtract, TakePack, LoadObject,
              PackPanic, DiscardPack, InsertPath, InsertTitle, InsertBody, Insert, ReturnPack,
              Commit, Crash, Boot, PackCrash, PackBoot
<1> QED
  BY <1>1, <1>2

\* A worker comes to its send only by a save.
LEMMA SavedStep == TypeOK /\ SavedInv /\ [Next]_vars => SavedInv'
<1> SUFFICES ASSUME TypeOK, SavedInv, [Next]_vars, NEW x \in Extractor, xpc'[x] = "send"
             PROVE  objects'[xdoc'[x]] # Nothing
  BY DEF SavedInv
<1>1. CASE SavePage(x)
  <2>1. xdoc'[x] = xdoc[x] /\ xdoc[x] \in Doc
    BY <1>1 DEF SavePage, TypeOK
  <2>2. [page |-> xpage[x], version |-> xcopy[x]] # Nothing
    BY Constants DEF TypeOK, Content
  <2> QED
    BY <1>1, <2>1, <2>2 DEF SavePage, Saved, TypeOK
<1>2. CASE xpc[x] = "send" /\ xdoc'[x] = xdoc[x]
  <2>1. xdoc[x] \in Doc /\ objects[xdoc[x]] # Nothing
    BY <1>2 DEF SavedInv, TypeOK
  <2> QED
    BY <1>2, <2>1, ObjectsStay
<1>3. SavePage(x) \/ (xpc[x] = "send" /\ xdoc'[x] = xdoc[x])
  BY ExtractorMoves
     DEF TypeOK, Extract, TakeExtract, LoadJSON, CopyRaw, SendPage, ReturnExtract, Crash, XGoto
<1> QED
  BY <1>1, <1>2, <1>3

-----------------------------------------------------------------------------
(* The pack jobs.                                                          *)

\* Who touches the messages and the pack jobs.
LEMMA JobsMove ==
  ASSUME TypeOK, [Next]_vars
  PROVE  \/ UNCHANGED <<slot, packs, pstuck>>
         \/ \E x \in Extractor : SendPage(x)
         \/ Commit \/ Crash \/ PackCrash
         \/ \E p \in Packer, d \in Doc : TakePack(p, d)
         \/ \E p \in Packer : PackPanic(p)
         \/ \E d \in Doc : RescuePack(d) \/ OrderPack(d)
<1> USE DEF packJobs, packVars, extractVars
<1>1. ASSUME NEW x \in Extractor, LoadJSON(x) \/ CopyRaw(x) \/ SavePage(x) \/ ReturnExtract(x)
      PROVE  UNCHANGED <<slot, packs, pstuck>>
  BY <1>1 DEF LoadJSON, CopyRaw, SavePage, ReturnExtract
<1>2. ASSUME NEW p \in Packer,
             LoadObject(p) \/ DiscardPack(p) \/ InsertPath(p) \/ InsertTitle(p) \/ InsertBody(p)
               \/ ReturnPack(p)
      PROVE  UNCHANGED <<slot, packs, pstuck>>
  BY <1>2 DEF LoadObject, DiscardPack, InsertPath, InsertTitle, InsertBody, Insert, ReturnPack
<1>3. CASE \/ \E d \in Doc : StoreRaw(d) \/ AskExtract(d) \/ RescueExtract(d)
           \/ \E x \in Extractor, d \in Doc : TakeExtract(x, d)
           \/ Boot \/ PackBoot \/ Done \/ UNCHANGED vars
  BY <1>3 DEF StoreRaw, AskExtract, OrderPack, RescueExtract, TakeExtract, Boot, PackBoot,
              Done, vars
<1> QED
  BY <1>1, <1>2, <1>3 DEF Next, Extract, Pack

\* The jobs that a crash of pack leaves behind are those of its workers.
LEMMA CrashedJobs ==
  ASSUME TypeOK, PackCrash, NEW d \in Doc
  PROVE  pstuck'[d] > 0 <=> pstuck[d] > 0 \/ \E p \in Packer : pdoc[p] = d
<1> DEFINE H == {p \in Packer : pdoc[p] = d}
           n == Cardinality(H)
<1>1. IsFiniteSet(H) /\ n \in Nat
  BY Constants, FS_Subset, FS_CardinalityType
<1>2. n = 0 <=> H = {}
  BY <1>1, FS_EmptySet
<1>3. pstuck'[d] = pstuck[d] + n
  BY DEF PackCrash
<1>4. pstuck[d] \in Nat
  BY DEF TypeOK, CountPerDoc
<1>5. H = {} <=> ~ \E p \in Packer : pdoc[p] = d
  OBVIOUS
<1> HIDE DEF H, n
<1> QED
  BY <1>1, <1>2, <1>3, <1>4, <1>5

\* A pack job goes only to a pack worker, unless extract dies with it.
LEMMA ToldGoes ==
  ASSUME TypeOK, [Next]_vars, ~Crash, NEW d \in Doc, Told(d)
  PROVE  Told(d)' \/ \E p \in Packer : TakePack(p, d)
<1> USE DEF Told, packVars, extractVars, packJobs
<1>t. /\ packs \in [Doc -> Nat] /\ pstuck \in [Doc -> Nat]
      /\ slot \in Doc \cup {NoDoc} /\ NoDoc \notin Doc
  BY Constants DEF TypeOK, CountPerDoc
<1>1. CASE UNCHANGED <<slot, packs, pstuck>>
  BY <1>1
<1>2. CASE \E x \in Extractor : SendPage(x)
  BY <1>2, <1>t DEF SendPage
<1>3. CASE Commit
  BY <1>3, <1>t DEF Commit, Committed
<1>5. CASE PackCrash
  BY <1>5, CrashedJobs DEF PackCrash
<1>6. CASE \E p \in Packer, e \in Doc : TakePack(p, e)
  <2> PICK p \in Packer, e \in Doc : TakePack(p, e)
    BY <1>6
  <2>1. CASE e = d
    BY <2>1
  <2>2. CASE e # d
    BY <2>2, <1>t DEF TakePack
  <2> QED
    BY <2>1, <2>2
<1>7. CASE \E p \in Packer : PackPanic(p)
  <2> PICK p \in Packer : PackPanic(p)
    BY <1>7
  <2>1. pdoc[p] \in Doc
    BY DEF PackPanic, TypeOK
  <2> QED
    BY <1>t, <2>1 DEF PackPanic
<1>8. CASE \E e \in Doc : RescuePack(e) \/ OrderPack(e)
  BY <1>8, <1>t DEF RescuePack, OrderPack
<1> QED
  BY <1>1, <1>2, <1>3, <1>5, <1>6, <1>7, <1>8, JobsMove

\* The workers at a pack job of the document.
Held(d) == {p \in Packer : pdoc[p] = d}

LEMMA PackJobsType ==
  ASSUME TypeOK, NEW d \in Doc
  PROVE  /\ IsFiniteSet(Held(d)) /\ Cardinality(Held(d)) \in Nat
         /\ packs[d] \in Nat /\ pstuck[d] \in Nat
         /\ PackJobs(d) = packs[d] + pstuck[d] + Cardinality(Held(d))
<1>1. IsFiniteSet(Held(d))
  BY Constants, FS_Subset DEF Held
<1>2. Cardinality(Held(d)) \in Nat
  BY <1>1, FS_CardinalityType
<1> QED
  BY <1>1, <1>2 DEF PackJobs, Held, TypeOK, CountPerDoc

\* A worker that takes a job of the document is one more at work on it.
LEMMA HeldTaken ==
  ASSUME TypeOK, NEW d \in Doc, NEW p \in Packer, NEW e \in Doc, TakePack(p, e)
  PROVE  Cardinality(Held(d)') = Cardinality(Held(d)) + (IF e = d THEN 1 ELSE 0)
<1>1. /\ p \notin Held(d)
      /\ Held(d)' = IF e = d THEN Held(d) \cup {p} ELSE Held(d)
  BY Constants DEF TakePack, Held, TypeOK
<1>2. IsFiniteSet(Held(d)) /\ Cardinality(Held(d)) \in Nat
  BY PackJobsType
<1>3. CASE e = d
  BY <1>1, <1>2, <1>3, FS_AddElement
<1>4. CASE e # d
  BY <1>1, <1>2, <1>4
<1> QED
  BY <1>3, <1>4

\* One that releases its job is one less.
LEMMA HeldReleased ==
  ASSUME TypeOK, NEW d \in Doc, NEW p \in Packer, Release(p)
  PROVE  Cardinality(Held(d)') = Cardinality(Held(d)) - (IF pdoc[p] = d THEN 1 ELSE 0)
<1>1. /\ pdoc[p] = d <=> p \in Held(d)
      /\ Held(d)' = IF pdoc[p] = d THEN Held(d) \ {p} ELSE Held(d)
  BY Constants DEF Release, Held, TypeOK
<1>2. IsFiniteSet(Held(d)) /\ Cardinality(Held(d)) \in Nat
  BY PackJobsType
<1>3. CASE pdoc[p] = d
  BY <1>1, <1>2, <1>3, FS_RemoveElement
<1>4. CASE pdoc[p] # d
  BY <1>1, <1>2, <1>4
<1> QED
  BY <1>3, <1>4

\* Who takes a pack job from the queue or gives it up.
LEMMA HoldersMove ==
  ASSUME TypeOK, [Next]_vars
  PROVE  \/ pdoc' = pdoc
         \/ \E p \in Packer, d \in Doc : TakePack(p, d)
         \/ \E p \in Packer : PackPanic(p) \/ DiscardPack(p) \/ ReturnPack(p)
         \/ PackCrash
<1> USE DEF packer, packVars
<1>1. ASSUME NEW x \in Extractor, Extract(x) \/ \E d \in Doc : TakeExtract(x, d)
      PROVE  pdoc' = pdoc
  BY <1>1 DEF Extract, TakeExtract, LoadJSON, CopyRaw, SavePage, SendPage, ReturnExtract
<1>2. ASSUME NEW p \in Packer,
             LoadObject(p) \/ InsertPath(p) \/ InsertTitle(p) \/ InsertBody(p)
      PROVE  pdoc' = pdoc
  BY <1>2 DEF LoadObject, InsertPath, InsertTitle, InsertBody, Insert
<1>3. CASE \/ \E d \in Doc : \/ StoreRaw(d) \/ AskExtract(d) \/ OrderPack(d)
                             \/ RescueExtract(d) \/ RescuePack(d)
           \/ Commit \/ Crash \/ Boot \/ PackBoot \/ Done \/ UNCHANGED vars
  BY <1>3 DEF StoreRaw, AskExtract, OrderPack, RescueExtract, RescuePack, Commit, Crash, Boot,
              PackBoot, Done, vars
<1> QED
  BY <1>1, <1>2, <1>3 DEF Next, Pack

\* The pack jobs of a document become more only by the message in the channel, or
\* by a request to admin.
LEMMA PackJobsCome ==
  ASSUME TypeOK, [Next]_vars, NEW d \in Doc, slot # d
  PROVE  \/ PackJobs(d)' <= PackJobs(d)
         \/ OrderPack(d) /\ PackJobs(d)' = PackJobs(d) + 1
<1> USE DEF packJobs, packVars, extractVars
<1>t. TypeOK'
  BY TypeStep
<1>0. /\ packs[d] \in Nat /\ pstuck[d] \in Nat /\ Cardinality(Held(d)) \in Nat
      /\ packs'[d] \in Nat /\ pstuck'[d] \in Nat /\ Cardinality(Held(d)') \in Nat
      /\ PackJobs(d) = packs[d] + pstuck[d] + Cardinality(Held(d))
      /\ PackJobs(d)' = packs'[d] + pstuck'[d] + Cardinality(Held(d)')
  <2>1. /\ IsFiniteSet(Held(d)') /\ Cardinality(Held(d)') \in Nat
    BY Constants, FS_Subset, FS_CardinalityType DEF Held
  <2>2. /\ packs'[d] \in Nat /\ pstuck'[d] \in Nat
        /\ PackJobs(d)' = packs'[d] + pstuck'[d] + Cardinality(Held(d)')
    BY <1>t DEF TypeOK, CountPerDoc, PackJobs, Held
  <2> QED
    BY <2>1, <2>2, PackJobsType
<1>f. packs \in [Doc -> Nat] /\ pstuck \in [Doc -> Nat]
  BY DEF TypeOK, CountPerDoc
<1>1. ASSUME NEW p \in Packer, NEW e \in Doc, TakePack(p, e)
      PROVE  PackJobs(d)' <= PackJobs(d)
  <2>1. packs'[d] = packs[d] - (IF e = d THEN 1 ELSE 0) /\ pstuck' = pstuck
    BY <1>1, <1>f DEF TakePack
  <2>2. Cardinality(Held(d)') = Cardinality(Held(d)) + (IF e = d THEN 1 ELSE 0)
    BY <1>1, HeldTaken
  <2> QED
    BY <1>0, <2>1, <2>2
<1>2. ASSUME NEW p \in Packer, PackPanic(p)
      PROVE  PackJobs(d)' <= PackJobs(d)
  <2>0. pdoc[p] \in Doc
    BY <1>2 DEF PackPanic, TypeOK
  <2>1. packs'[d] = packs[d] + (IF pdoc[p] = d THEN 1 ELSE 0) /\ pstuck' = pstuck
    BY <1>2, <1>f, <2>0 DEF PackPanic
  <2>2. Cardinality(Held(d)') = Cardinality(Held(d)) - (IF pdoc[p] = d THEN 1 ELSE 0)
    BY <1>2, HeldReleased DEF PackPanic
  <2> QED
    BY <1>0, <2>1, <2>2
<1>3. ASSUME NEW p \in Packer, DiscardPack(p) \/ ReturnPack(p)
      PROVE  PackJobs(d)' <= PackJobs(d)
  <2>1. packs' = packs /\ pstuck' = pstuck
    BY <1>3 DEF DiscardPack, ReturnPack
  <2>2. Cardinality(Held(d)') = Cardinality(Held(d)) - (IF pdoc[p] = d THEN 1 ELSE 0)
    BY <1>3, HeldReleased DEF DiscardPack, ReturnPack
  <2> QED
    BY <1>0, <2>1, <2>2
<1>4. ASSUME PackCrash
      PROVE  PackJobs(d)' <= PackJobs(d)
  <2>1. packs' = packs /\ pstuck'[d] = pstuck[d] + Cardinality(Held(d))
    BY <1>4 DEF PackCrash, Held
  <2>2. Held(d)' = {}
    BY <1>4, Constants DEF PackCrash, Held
  <2>3. Cardinality(Held(d)') = 0
    BY <2>2, FS_EmptySet
  <2> QED
    BY <1>0, <2>1, <2>3
<1>5. ASSUME pdoc' = pdoc
      PROVE  \/ PackJobs(d)' <= PackJobs(d)
             \/ OrderPack(d) /\ PackJobs(d)' = PackJobs(d) + 1
  <2>0. Cardinality(Held(d)') = Cardinality(Held(d))
    BY <1>5 DEF Held
  <2>1. CASE UNCHANGED <<slot, packs, pstuck>> \/ Crash \/ \E x \in Extractor : SendPage(x)
    <3>1. packs' = packs /\ pstuck' = pstuck
      BY <2>1 DEF Crash, SendPage
    <3> QED
      BY <1>0, <2>0, <3>1
  <2>2. CASE Commit
    <3>1. packs'[d] = packs[d] /\ pstuck' = pstuck
      BY <1>f, <2>2 DEF Commit, Committed
    <3> QED
      BY <1>0, <2>0, <3>1
  <2>3. ASSUME NEW e \in Doc, RescuePack(e)
        PROVE  PackJobs(d)' <= PackJobs(d)
    <3>1. /\ packs'[d] = packs[d] + (IF e = d THEN 1 ELSE 0)
          /\ pstuck'[d] = pstuck[d] - (IF e = d THEN 1 ELSE 0)
      BY <1>f, <2>3 DEF RescuePack
    <3> QED
      BY <1>0, <2>0, <3>1
  <2>4. ASSUME NEW e \in Doc, OrderPack(e)
        PROVE  \/ PackJobs(d)' <= PackJobs(d)
               \/ OrderPack(d) /\ PackJobs(d)' = PackJobs(d) + 1
    <3>1. packs'[d] = packs[d] + (IF e = d THEN 1 ELSE 0) /\ pstuck' = pstuck
      BY <1>f, <2>4 DEF OrderPack
    <3>2. CASE e = d
      BY <1>0, <2>0, <2>4, <3>1, <3>2
    <3>3. CASE e # d
      BY <1>0, <2>0, <3>1, <3>3
    <3> QED
      BY <3>2, <3>3
  <2> QED
    BY <1>1, <1>2, <1>4, <2>1, <2>2, <2>3, <2>4, JobsMove
<1> QED
  BY <1>1, <1>2, <1>3, <1>4, <1>5, HoldersMove

\* What admin has asked for is counted, and the count is never reset.
LEMMA OrderedGrows ==
  ASSUME TypeOK, [Next]_vars, NEW d \in Doc
  PROVE  /\ ordered[d] \in Nat /\ ordered'[d] \in Nat /\ ordered'[d] >= ordered[d]
         /\ OrderPack(d) => ordered'[d] = ordered[d] + 1
<1> USE DEF fetchVars
<1>0. ordered \in [Doc -> 0..MaxOrdered] /\ ordered[d] \in Nat
  BY Constants DEF TypeOK
<1>1. ASSUME NEW e \in Doc, OrderPack(e)
      PROVE  ordered'[d] = ordered[d] + (IF e = d THEN 1 ELSE 0)
  BY <1>0, <1>1 DEF OrderPack
<1>2. CASE ~ \E e \in Doc : OrderPack(e)
  <2>1. ordered' = ordered
    BY <1>2 DEF Next, Extract, Pack, Done, vars, StoreRaw, AskExtract, RescueExtract, RescuePack,
                TakeExtract, LoadJSON, CopyRaw, SavePage, SendPage, ReturnExtract, TakePack,
                LoadObject, PackPanic, DiscardPack, InsertPath, InsertTitle, InsertBody, Insert,
                ReturnPack, Commit, Crash, Boot, PackCrash, PackBoot
  <2> QED
    BY <1>0, <1>2, <2>1
<1> QED
  BY <1>0, <1>1, <1>2

\* While a key is empty nobody sends a pack job for it, except admin.
LEMMA FindsStep ==
  TypeOK /\ SavedInv /\ PackFindsObject /\ [Next]_vars => PackFindsObject'
<1> SUFFICES ASSUME TypeOK, SavedInv, PackFindsObject, [Next]_vars, NEW d \in Doc,
                    objects'[d] = Nothing
             PROVE  slot' # d /\ PackJobs(d)' <= ordered'[d]
  BY DEF PackFindsObject
<1>1. objects[d] = Nothing
  BY ObjectsStay
<1>2. slot # d /\ PackJobs(d) <= ordered[d]
  BY <1>1 DEF PackFindsObject
<1>3. slot' # d
  <2> USE DEF packVars, extractVars
  <2>1. ASSUME NEW x \in Extractor, SendPage(x)
        PROVE  slot' # d
    BY <1>1, <2>1 DEF SendPage, SavedInv
  <2>2. CASE slot' = slot
    BY <1>2, <2>2
  <2>3. CASE Commit \/ Crash
    BY <2>3, Constants DEF Commit, Crash
  <2>4. CASE \/ \E p \in Packer, e \in Doc : TakePack(p, e)
             \/ \E p \in Packer : PackPanic(p)
             \/ \E e \in Doc : RescuePack(e) \/ OrderPack(e)
             \/ PackCrash
    BY <1>2, <2>4 DEF TakePack, PackPanic, RescuePack, OrderPack, PackCrash
  <2> QED
    BY <2>1, <2>2, <2>3, <2>4, JobsMove
<1>4. PackJobs(d) \in Nat /\ PackJobs(d)' \in Nat
  <2>1. TypeOK'
    BY TypeStep
  <2>2. IsFiniteSet(Held(d)') /\ Cardinality(Held(d)') \in Nat
    BY Constants, FS_Subset, FS_CardinalityType DEF Held
  <2>3. PackJobs(d)' = packs'[d] + pstuck'[d] + Cardinality(Held(d)')
    BY DEF PackJobs, Held
  <2>4. packs'[d] \in Nat /\ pstuck'[d] \in Nat
    BY <2>1 DEF TypeOK, CountPerDoc
  <2> QED
    BY <2>2, <2>3, <2>4, PackJobsType
<1> QED
  BY <1>2, <1>3, <1>4, PackJobsCome, OrderedGrows

-----------------------------------------------------------------------------
(* The rows.                                                               *)

\* Rows are never removed, and failures never forgotten.
LEMMA RowsGrow ==
  ASSUME TypeOK, [Next]_vars
  PROVE  /\ rows \subseteq rows'
         /\ faults' = 0 => faults = 0
         /\ crashes' = 0 => crashes = 0 /\ ~Crash
<1> USE DEF TypeOK, extractVars, packVars, Fault
<1>1. ASSUME NEW x \in Extractor, Extract(x) \/ \E d \in Doc : TakeExtract(x, d)
      PROVE  rows' = rows /\ faults' >= faults /\ crashes' = crashes
  BY <1>1 DEF Extract, TakeExtract, LoadJSON, CopyRaw, SavePage, SendPage, ReturnExtract
<1>2. ASSUME NEW p \in Packer, Pack(p) \/ \E d \in Doc : TakePack(p, d)
      PROVE  rows \subseteq rows' /\ faults' >= faults /\ crashes' = crashes
  BY <1>2 DEF Pack, TakePack, LoadObject, PackPanic, DiscardPack, InsertPath, InsertTitle,
              InsertBody, Insert, ReturnPack
<1>3. CASE \/ \E d \in Doc : \/ StoreRaw(d) \/ AskExtract(d) \/ OrderPack(d)
                             \/ RescueExtract(d) \/ RescuePack(d)
           \/ Commit \/ Boot \/ PackCrash \/ PackBoot \/ Done \/ UNCHANGED vars
  <2>1. rows' = rows /\ faults' >= faults /\ crashes' = crashes
    BY <1>3 DEF StoreRaw, AskExtract, OrderPack, RescueExtract, RescuePack, Commit, Boot,
                PackCrash, PackBoot, Done, vars
  <2> QED
    BY <2>1 DEF Crash
<1>4. CASE Crash
  BY <1>4 DEF Crash
<1>5. Crash => crashes' = crashes + 1
  BY DEF Crash
<1> QED
  BY <1>1, <1>2, <1>3, <1>4, <1>5 DEF Next

\* What a statement leaves, unless it failed.
LEMMA Inserted ==
  ASSUME TypeOK, NEW p \in Packer, NEW tag \in Tag, NEW next, Insert(p, tag, next), faults' = 0
  PROVE  /\ rows' = rows \cup {RowOf(pdoc[p], tag, loaded[p])}
         /\ ppc[p] = tag /\ ppc'[p] = next
         /\ pdoc'[p] = pdoc[p] /\ loaded'[p] = loaded[p]
<1>1. faults' # faults + 1
  BY DEF TypeOK
<1> QED
  BY <1>1 DEF Insert, Fault, Packing, RowOf, PGoto, TypeOK

\* Every crash of extract is counted.
LEMMA CrashesCount ==
  ASSUME [Next]_vars, ~Crash
  PROVE  crashes' = crashes
BY DEF Next, Extract, Pack, Done, vars, extractVars, StoreRaw, AskExtract, OrderPack,
       RescueExtract,
       RescuePack, TakeExtract, LoadJSON, CopyRaw, SavePage, SendPage, ReturnExtract, TakePack,
       LoadObject, PackPanic, DiscardPack, InsertPath, InsertTitle, InsertBody, Insert,
       ReturnPack, Commit, Boot, PackCrash, PackBoot

LEMMA InsertedStep == TypeOK /\ InsertedInv /\ [Next]_vars => InsertedInv'
<1> SUFFICES ASSUME TypeOK, InsertedInv, [Next]_vars, faults' = 0, NEW p \in Packer
             PROVE  /\ ppc'[p] \in {"title", "body"}
                         => RowOf(pdoc'[p], "path", loaded'[p]) \in rows'
                    /\ ppc'[p] = "body" => RowOf(pdoc'[p], "title", loaded'[p]) \in rows'
  BY DEF InsertedInv, RowOf
<1>0. /\ ppc[p] \in {"title", "body"} => RowOf(pdoc[p], "path", loaded[p]) \in rows
      /\ ppc[p] = "body" => RowOf(pdoc[p], "title", loaded[p]) \in rows
  BY RowsGrow DEF InsertedInv
<1>1. CASE ppc'[p] = ppc[p] /\ pdoc'[p] = pdoc[p] /\ loaded'[p] = loaded[p]
  BY <1>0, <1>1, RowsGrow
<1>2. CASE InsertPath(p)
  BY <1>2, Inserted DEF InsertPath, Tag
<1>3. CASE InsertTitle(p)
  BY <1>0, <1>3, Inserted, RowsGrow DEF InsertTitle, Tag
<1>4. CASE InsertBody(p)
  BY <1>4, Inserted DEF InsertBody, Tag
<1>5. CASE LoadObject(p) \/ PackPanic(p) \/ DiscardPack(p) \/ ReturnPack(p) \/ PackCrash
           \/ \E d \in Doc : TakePack(p, d)
  BY <1>5 DEF LoadObject, PackPanic, DiscardPack, ReturnPack, PackCrash, TakePack, PGoto, TypeOK
<1> QED
  BY <1>1, <1>2, <1>3, <1>4, <1>5, PackerMoves DEF Pack

\* A row that is new was inserted by a pack worker.
LEMMA NewRow ==
  ASSUME TypeOK, [Next]_vars, NEW r \in rows', r \notin rows
  PROVE  \E p \in Packer : InsertPath(p) \/ InsertTitle(p) \/ InsertBody(p)
  BY DEF Next, Extract, Pack, Done, vars, extractVars, packVars, StoreRaw, AskExtract, OrderPack,
         RescueExtract, RescuePack, TakeExtract, LoadJSON, CopyRaw, SavePage, SendPage,
         ReturnExtract, TakePack, LoadObject, PackPanic, DiscardPack, ReturnPack,
         Commit, Crash, Boot, PackCrash, PackBoot

LEMMA BodyStep ==
  TypeOK /\ InsertedInv /\ BodyHasItsTitle /\ [Next]_vars => BodyHasItsTitle'
<1> SUFFICES ASSUME TypeOK, InsertedInv, BodyHasItsTitle, [Next]_vars, faults' = 0,
                    NEW r \in rows', r.tag = "body", NEW tag \in Tag
             PROVE  RowOf(r.doc, tag, r.content) \in rows'
  BY DEF BodyHasItsTitle, Complete, RowOf
<1>1. CASE r \in rows
  BY <1>1, RowsGrow DEF BodyHasItsTitle, Complete
<1>2. CASE r \notin rows
  <2> PICK p \in Packer : InsertPath(p) \/ InsertTitle(p) \/ InsertBody(p)
    BY <1>2, NewRow
  <2>1. InsertBody(p) /\ r = RowOf(pdoc[p], "body", loaded[p])
    BY <1>2, Inserted DEF InsertPath, InsertTitle, InsertBody, Tag, RowOf
  <2>2. /\ ppc[p] = "body"
        /\ r.doc = pdoc[p] /\ r.content = loaded[p]
    BY <2>1 DEF InsertBody, Insert, RowOf
  <2>3. /\ RowOf(pdoc[p], "path", loaded[p]) \in rows
        /\ RowOf(pdoc[p], "title", loaded[p]) \in rows
    BY <2>2, RowsGrow DEF InsertedInv
  <2> QED
    BY <2>1, <2>2, <2>3, RowsGrow DEF Tag
<1> QED
  BY <1>1, <1>2

\* A pack worker that has the object inserts it, or gives its job back.
LEMMA PackerKeeps ==
  ASSUME TypeOK, InsertedInv, [Next]_vars, faults' = 0, NEW d \in Doc, NEW p \in Packer,
         objects'[d] = objects[d], objects[d] # Nothing, pdoc[p] = d,
         ppc[p] = "load" \/ (ppc[p] \in Tag /\ loaded[p] = objects[d])
  PROVE  Complete(d, objects[d])' \/ Pending(d)'
<1>1. CASE ppc'[p] = ppc[p] /\ pdoc'[p] = pdoc[p] /\ loaded'[p] = loaded[p]
  BY <1>1 DEF Pending
<1>2. CASE LoadObject(p)
  BY <1>2 DEF LoadObject, Pending, PGoto, Tag, TypeOK
<1>3. CASE PackPanic(p)
  <2>1. packs'[d] > 0
    BY <1>3 DEF PackPanic, TypeOK, CountPerDoc
  <2> QED
    BY <2>1 DEF Pending, Told
<1>4. CASE InsertPath(p) \/ InsertTitle(p)
  BY <1>4, Inserted DEF InsertPath, InsertTitle, Pending, Tag
<1>5. CASE InsertBody(p)
  <2>1. /\ rows' = rows \cup {RowOf(d, "body", objects[d])}
        /\ ppc[p] = "body" /\ loaded[p] = objects[d]
    BY <1>5, Inserted DEF InsertBody, Tag
  <2>2. /\ RowOf(d, "path", objects[d]) \in rows
        /\ RowOf(d, "title", objects[d]) \in rows
    BY <2>1, RowsGrow DEF InsertedInv
  <2> QED
    BY <2>1, <2>2 DEF Complete, RowOf, Tag
<1>6. CASE PackCrash
  BY <1>6, CrashedJobs DEF Pending, Told
<1>7. ~ ReturnPack(p) /\ ~ DiscardPack(p) /\ ~ \E e \in Doc : TakePack(p, e)
  BY DEF ReturnPack, DiscardPack, TakePack, Tag
<1> QED
  BY <1>1, <1>2, <1>3, <1>4, <1>5, <1>6, <1>7, PackerMoves DEF Pack

LEMMA LastPageStep ==
  TypeOK /\ InsertedInv /\ LastPageIsPacked /\ [Next]_vars => LastPageIsPacked'
<1> SUFFICES ASSUME TypeOK, InsertedInv, LastPageIsPacked, [Next]_vars,
                    faults' = 0, crashes' = 0, NEW d \in Doc, objects'[d] # Nothing
             PROVE  Complete(d, objects[d])' \/ Pending(d)'
  BY DEF LastPageIsPacked
<1>1. ASSUME NEW x \in Extractor, SavePage(x), xdoc[x] = d
      PROVE  Pending(d)'
  BY <1>1 DEF SavePage, XGoto, Pending, TypeOK
<1>2. CASE objects'[d] = objects[d]
  <2>1. Complete(d, objects[d]) \/ Pending(d)
    BY <1>2, RowsGrow DEF LastPageIsPacked
  <2>2. CASE Complete(d, objects[d])
    BY <1>2, <2>2, RowsGrow DEF Complete, RowOf
  <2>3. CASE Told(d)
    <3>1. ASSUME NEW p \in Packer, TakePack(p, d) PROVE Pending(d)'
      BY <3>1 DEF TakePack, PGoto, Pending, TypeOK
    <3> QED
      BY <2>3, <3>1, ToldGoes, RowsGrow DEF Pending
  <2>4. ASSUME NEW x \in Extractor, xdoc[x] = d, xpc[x] = "send" PROVE Pending(d)'
    <3>1. CASE SendPage(x)
      BY <2>4, <3>1 DEF SendPage, Pending, Told
    <3>2. CASE xpc'[x] = xpc[x] /\ xdoc'[x] = xdoc[x]
      BY <2>4, <3>2 DEF Pending
    <3> QED
      BY <2>4, <3>1, <3>2, ExtractorMoves, RowsGrow
         DEF Extract, TakeExtract, LoadJSON, CopyRaw, SavePage, ReturnExtract
  <2> QED
    BY <1>2, <2>1, <2>2, <2>3, <2>4, PackerKeeps DEF Pending
<1> QED
  BY <1>1, <1>2, ObjectsStay

-----------------------------------------------------------------------------
(* What a crash of extract loses.                                          *)

\* The extract jobs that a crash leaves behind are those of its workers.
LEMMA CrashedExtracts ==
  ASSUME TypeOK, Crash, NEW d \in Doc
  PROVE  xstuck'[d] > 0 <=> xstuck[d] > 0 \/ \E x \in Extractor : xdoc[x] = d
<1> DEFINE H == {x \in Extractor : xdoc[x] = d}
           n == Cardinality(H)
<1>1. IsFiniteSet(H) /\ n \in Nat
  BY Constants, FS_Subset, FS_CardinalityType
<1>2. n = 0 <=> H = {}
  BY <1>1, FS_EmptySet
<1>3. xstuck'[d] = xstuck[d] + n
  BY DEF Crash
<1>4. xstuck[d] \in Nat
  BY DEF TypeOK, CountPerDoc
<1>5. H = {} <=> ~ \E x \in Extractor : xdoc[x] = d
  OBVIOUS
<1> HIDE DEF H, n
<1> QED
  BY <1>1, <1>2, <1>3, <1>4, <1>5

\* Who touches the extract jobs that wait or are stuck.
LEMMA ExtractsMove ==
  ASSUME TypeOK, [Next]_vars
  PROVE  \/ UNCHANGED <<extracts, xstuck>>
         \/ \E d \in Doc : AskExtract(d) \/ RescueExtract(d)
         \/ \E x \in Extractor, d \in Doc : TakeExtract(x, d)
         \/ Crash
<1> USE DEF extractJobs, packVars, extractVars
<1>1. ASSUME NEW x \in Extractor, Extract(x)
      PROVE  UNCHANGED <<extracts, xstuck>>
  BY <1>1 DEF Extract, LoadJSON, CopyRaw, SavePage, SendPage, ReturnExtract
<1>2. ASSUME NEW p \in Packer, Pack(p) \/ \E d \in Doc : TakePack(p, d)
      PROVE  UNCHANGED <<extracts, xstuck>>
  BY <1>2 DEF Pack, TakePack, LoadObject, PackPanic, DiscardPack, InsertPath, InsertTitle,
              InsertBody, Insert, ReturnPack
<1>3. CASE \/ \E d \in Doc : StoreRaw(d) \/ OrderPack(d) \/ RescuePack(d)
           \/ Commit \/ Boot \/ PackCrash \/ PackBoot \/ Done \/ UNCHANGED vars
  BY <1>3 DEF StoreRaw, OrderPack, RescuePack, Commit, Boot, PackCrash, PackBoot, Done, vars
<1> QED
  BY <1>1, <1>2, <1>3 DEF Next

\* An extract job comes from fetch, or from another job of the document.
LEMMA JobComes ==
  ASSUME TypeOK, [Next]_vars, NEW d \in Doc,
         extracts'[d] > 0 \/ xstuck'[d] > 0 \/ \E x \in Extractor : xdoc'[x] = d
  PROVE  \/ extracts[d] > 0 \/ xstuck[d] > 0 \/ \E x \in Extractor : xdoc[x] = d
         \/ AskExtract(d)
<1> USE DEF packVars, extractVars, extractJobs
<1>t. /\ extracts \in [Doc -> Nat] /\ xstuck \in [Doc -> Nat]
      /\ d # NoDoc
  BY Constants DEF TypeOK, CountPerDoc
<1>1. ASSUME NEW x \in Extractor, xdoc'[x] = d
      PROVE  extracts[d] > 0 \/ xdoc[x] = d
  <2>1. CASE xdoc'[x] = xdoc[x]
    BY <1>1, <2>1
  <2>2. ASSUME NEW e \in Doc, TakeExtract(x, e)
        PROVE  extracts[d] > 0
    BY <1>1, <2>2 DEF TakeExtract, TypeOK
  <2>3. CASE Extract(x) \/ Crash
    BY <1>1, <1>t, <2>3
       DEF Extract, LoadJSON, CopyRaw, SavePage, SendPage, ReturnExtract, Crash, TypeOK
  <2> QED
    BY <2>1, <2>2, <2>3, ExtractorMoves
<1>2. CASE extracts'[d] > 0 \/ xstuck'[d] > 0
  <2>1. CASE UNCHANGED <<extracts, xstuck>>
    BY <1>2, <2>1
  <2>2. CASE \E e \in Doc : AskExtract(e) \/ RescueExtract(e)
    BY <1>2, <1>t, <2>2 DEF AskExtract, RescueExtract
  <2>3. CASE \E x \in Extractor, e \in Doc : TakeExtract(x, e)
    BY <1>2, <1>t, <2>3 DEF TakeExtract
  <2>4. CASE Crash
    BY <1>2, <2>4, CrashedExtracts DEF Crash
  <2> QED
    BY <2>1, <2>2, <2>3, <2>4, ExtractsMove
<1> QED
  BY <1>1, <1>2

\* Raw content is stored and never removed.
LEMMA VersionsGrow ==
  ASSUME TypeOK, [Next]_vars, NEW d \in Doc, version[d] > 0
  PROVE  version'[d] > 0
<1> USE DEF fetchVars
<1>1. ASSUME NEW e \in Doc, StoreRaw(e)
      PROVE  version'[d] > 0
  BY <1>1, Constants DEF StoreRaw, TypeOK
<1>2. CASE ~ \E e \in Doc : StoreRaw(e)
  <2>1. version' = version
    BY <1>2 DEF Next, Extract, Pack, Done, vars, AskExtract, OrderPack, RescueExtract,
                RescuePack,
              TakeExtract, LoadJSON, CopyRaw, SavePage, SendPage, ReturnExtract, TakePack,
              LoadObject, PackPanic, DiscardPack, InsertPath, InsertTitle, InsertBody, Insert,
              ReturnPack, Commit, Crash, Boot, PackCrash, PackBoot
  <2> QED
    BY <2>1
<1> QED
  BY <1>1, <1>2

LEMMA AskedStep == TypeOK /\ AskedInv /\ [Next]_vars => AskedInv'
<1> SUFFICES ASSUME TypeOK, AskedInv, [Next]_vars, faults' = 0, NEW d \in Doc,
                    extracts'[d] > 0 \/ xstuck'[d] > 0 \/ \E x \in Extractor : xdoc'[x] = d
             PROVE  version'[d] > 0
  BY DEF AskedInv
<1>1. CASE AskExtract(d)
  <2>1. faults' # faults + 1
    BY DEF TypeOK
  <2> QED
    BY <1>1, <2>1 DEF AskExtract, Fault
<1>2. CASE extracts[d] > 0 \/ xstuck[d] > 0 \/ \E x \in Extractor : xdoc[x] = d
  BY <1>2, RowsGrow, VersionsGrow DEF AskedInv
<1> QED
  BY <1>1, <1>2, JobComes

\* What content type a document has does not change.
LEMMA PdfStays ==
  ASSUME [Next]_vars
  PROVE  pdf' = pdf
BY DEF Next, Extract, Pack, Done, vars, fetchVars, StoreRaw, AskExtract, OrderPack,
       RescueExtract,
       RescuePack, TakeExtract, LoadJSON, CopyRaw, SavePage, SendPage, ReturnExtract, TakePack,
       LoadObject, PackPanic, DiscardPack, InsertPath, InsertTitle, InsertBody, Insert,
       ReturnPack, Commit, Crash, Boot, PackCrash, PackBoot

\* Pages are counts, and so the next of several pages is one of them.
LEMMA PageCounts ==
  ASSUME TypeOK, NEW d \in Doc
  PROVE  PagesOf(d) \in Nat
  BY IndexAssumption DEF IndexAssumption, PagesOf

LEMMA PagedStep == TypeOK /\ PagedInv /\ [Next]_vars => PagedInv'
<1> SUFFICES ASSUME TypeOK, PagedInv, [Next]_vars PROVE PagedInv'
  OBVIOUS
<1>1. ASSUME NEW d \in Doc
      PROVE  PagesOf(d)' = PagesOf(d)
  BY PdfStays DEF PagesOf
<1>2. ASSUME NEW d \in Doc, objects'[d] # Nothing
      PROVE  PagesOf(d)' > 0
  <2>1. ASSUME NEW x \in Extractor, SavePage(x), xdoc[x] = d
        PROVE  PagesOf(d) > 0
    BY <2>1 DEF SavePage, PagedInv
  <2>2. PagesOf(d) > 0
    BY <1>2, <2>1, ObjectsStay DEF PagedInv
  <2> QED
    BY <1>1, <2>2
<1>3. ASSUME NEW x \in Extractor, xpc'[x] = "save"
      PROVE  PagesOf(xdoc[x])' > 0
  <2>1. xdoc'[x] = xdoc[x] /\ xdoc[x] \in Doc /\ PagesOf(xdoc[x]) > 0
    <3>1. CASE xpc'[x] = xpc[x] /\ xdoc'[x] = xdoc[x]
      BY <1>3, <3>1 DEF PagedInv, TypeOK
    <3>2. CASE CopyRaw(x)
      BY <1>3, <3>2 DEF CopyRaw, XGoto, TypeOK
    <3>3. CASE SendPage(x)
      <4>1. xdoc[x] \in Doc /\ xdoc'[x] = xdoc[x] /\ xpage[x] < PagesOf(xdoc[x])
        BY <1>3, <3>3 DEF SendPage, XGoto, TypeOK
      <4>2. xpage[x] \in Nat
        BY DEF TypeOK
      <4> QED
        BY <4>1, <4>2, PageCounts
    <3> QED
      BY <1>3, <3>1, <3>2, <3>3, ExtractorMoves
         DEF Extract, TakeExtract, LoadJSON, SavePage, ReturnExtract, Crash, XGoto, TypeOK
  <2> QED
    BY <2>1, PdfStays DEF PagesOf
<1> QED
  BY <1>2, <1>3 DEF PagedInv

\* An extract job is left behind only by a worker that has sent its last page:
\* unless a call fails, a job that is done again saves its document again.
LEMMA RedoneKept ==
  ASSUME TypeOK, AskedInv, PagedInv, [Next]_vars, faults' = 0, NEW d \in Doc,
         objects[d] # Nothing, Redone(d)
  PROVE  Redone(d)' \/ Told(d)'
<1> USE DEF packVars, extractVars, extractJobs
<1>t. extracts \in [Doc -> Nat] /\ xstuck \in [Doc -> Nat]
  BY DEF TypeOK, CountPerDoc
<1>0. version[d] > 0 /\ PagesOf(d) > 0
  BY RowsGrow DEF AskedInv, PagedInv, Redone
<1>1. ASSUME NEW x \in Extractor, xdoc[x] = d, xpc[x] # "return", Extract(x)
      PROVE  Redone(d)' \/ Told(d)'
  <2>0. faults' # faults + 1
    BY DEF TypeOK
  <2>1. CASE LoadJSON(x)
    <3>1. xpc'[x] = "copy" /\ xdoc'[x] = d
      BY <1>1, <2>0, <2>1 DEF LoadJSON, Fault, XGoto, TypeOK
    <3> QED
      BY <3>1 DEF Redone
  <2>2. CASE CopyRaw(x)
    <3>1. xpc'[x] = "save" /\ xdoc'[x] = d
      BY <1>0, <1>1, <2>0, <2>2, Constants DEF CopyRaw, Fault, XGoto, TypeOK
    <3> QED
      BY <3>1 DEF Redone
  <2>3. CASE SavePage(x)
    <3>1. xpc'[x] = "send" /\ xdoc'[x] = d
      BY <1>1, <2>3 DEF SavePage, XGoto, TypeOK
    <3> QED
      BY <3>1 DEF Redone
  <2>4. CASE SendPage(x)
    BY <1>1, <2>4 DEF SendPage, Told
  <2> QED
    BY <1>1, <2>1, <2>2, <2>3, <2>4 DEF Extract, ReturnExtract
<1>2. ASSUME NEW x \in Extractor, xdoc[x] = d, xpc[x] # "return"
      PROVE  Redone(d)' \/ Told(d)'
  <2>1. CASE xpc'[x] = xpc[x] /\ xdoc'[x] = xdoc[x]
    BY <1>2, <2>1 DEF Redone
  <2>2. CASE Crash
    BY <1>2, <2>2, CrashedExtracts DEF Redone
  <2>3. ASSUME NEW e \in Doc, TakeExtract(x, e) PROVE FALSE
    BY <1>2, <2>3, Constants DEF TakeExtract, TypeOK
  <2> QED
    BY <1>1, <1>2, <2>1, <2>2, <2>3, ExtractorMoves
<1>3. CASE extracts[d] > 0 \/ xstuck[d] > 0
  <2>1. CASE UNCHANGED <<extracts, xstuck>>
    BY <1>3, <2>1 DEF Redone
  <2>2. CASE \E e \in Doc : AskExtract(e) \/ RescueExtract(e)
    <3>1. extracts'[d] > 0 \/ xstuck'[d] > 0
      BY <1>3, <1>t, <2>2 DEF AskExtract, RescueExtract
    <3> QED
      BY <3>1 DEF Redone
  <2>3. ASSUME NEW x \in Extractor, NEW e \in Doc, TakeExtract(x, e)
        PROVE  Redone(d)'
    <3>1. CASE e = d
      <4>1. xdoc'[x] = d /\ xpc'[x] = "load"
        BY <2>3, <3>1 DEF TakeExtract, XGoto, TypeOK
      <4> QED
        BY <4>1 DEF Redone
    <3>2. CASE e # d
      BY <1>3, <1>t, <2>3, <3>2 DEF TakeExtract, Redone
    <3> QED
      BY <3>1, <3>2
  <2>4. CASE Crash
    BY <1>3, <2>4, CrashedExtracts DEF Crash, Redone
  <2> QED
    BY <2>1, <2>2, <2>3, <2>4, ExtractsMove
<1> QED
  BY <1>2, <1>3 DEF Redone

\* Only a crash loses a document, and only that of the message in the channel.
LEMMA LostComes ==
  ASSUME TypeOK, InsertedInv, AskedInv, PagedInv, [Next]_vars, faults' = 0,
         NEW d \in Lost', d \notin Lost
  PROVE  Crash /\ d = slot
<1> USE DEF packVars, extractVars, packJobs
<1>0. /\ d \in Doc /\ objects'[d] # Nothing
      /\ ~ Complete(d, objects[d])' /\ ~ Pending(d)' /\ ~ Redone(d)'
  BY DEF Lost
<1>1. ASSUME NEW x \in Extractor, SavePage(x), xdoc[x] = d
      PROVE  Pending(d)'
  BY <1>1 DEF SavePage, XGoto, Pending, TypeOK
<1>2. objects'[d] = objects[d]
  BY <1>0, <1>1, ObjectsStay
<1>3. Complete(d, objects[d]) \/ Pending(d) \/ Redone(d)
  BY <1>0, <1>2 DEF Lost
<1>4. ~ Complete(d, objects[d])
  BY <1>0, <1>2, RowsGrow DEF Complete, RowOf
<1>5. ~ Redone(d)
  BY <1>0, <1>2, RedoneKept DEF Pending
<1>6. Told(d)
  BY <1>0, <1>2, <1>3, <1>4, <1>5, PackerKeeps DEF Pending, Redone
<1>7. CASE ~Crash
  <2>1. ASSUME NEW p \in Packer, TakePack(p, d) PROVE Pending(d)'
    BY <1>0, <2>1 DEF TakePack, PGoto, Pending, TypeOK
  <2> QED
    BY <1>0, <1>6, <1>7, <2>1, ToldGoes DEF Pending
<1>8. CASE Crash
  BY <1>0, <1>6, <1>8 DEF Crash, Pending, Told
<1> QED
  BY <1>7, <1>8

LEMMA LossStep ==
  TypeOK /\ InsertedInv /\ AskedInv /\ PagedInv /\ LossInv /\ [Next]_vars => LossInv'
<1> SUFFICES ASSUME TypeOK, InsertedInv, AskedInv, PagedInv, LossInv, [Next]_vars, faults' = 0
             PROVE  (IsFiniteSet(Lost) /\ Cardinality(Lost) <= crashes)'
  BY DEF LossInv
<1>0. /\ IsFiniteSet(Lost) /\ Cardinality(Lost) \in Nat /\ Cardinality(Lost) <= crashes
      /\ crashes \in Nat
  BY RowsGrow, FS_CardinalityType DEF LossInv, TypeOK
<1>1. CASE ~Crash
  <2>1. Lost' \in SUBSET Lost
    BY <1>1, LostComes
  <2>2. crashes' = crashes
    BY <1>1, CrashesCount
  <2>3. /\ IsFiniteSet(Lost') /\ Cardinality(Lost') \in Nat
        /\ Cardinality(Lost') <= Cardinality(Lost)
    BY <1>0, <2>1, FS_Subset, FS_CardinalityType
  <2> QED
    BY <1>0, <2>2, <2>3
<1>2. CASE Crash
  <2>1. Lost' \in SUBSET (Lost \cup {slot})
    BY LostComes
  <2>2. /\ IsFiniteSet(Lost \cup {slot}) /\ Cardinality(Lost \cup {slot}) \in Nat
        /\ Cardinality(Lost \cup {slot}) <= Cardinality(Lost) + 1
    <3>1. /\ IsFiniteSet(Lost \cup {slot})
          /\ Cardinality(Lost \cup {slot}) = IF slot \in Lost THEN Cardinality(Lost)
                                                             ELSE Cardinality(Lost) + 1
      BY <1>0, FS_AddElement
    <3> QED
      BY <1>0, <3>1
  <2>3. /\ IsFiniteSet(Lost') /\ Cardinality(Lost') \in Nat
        /\ Cardinality(Lost') <= Cardinality(Lost \cup {slot})
    BY <2>1, <2>2, FS_Subset, FS_CardinalityType
  <2>4. crashes' = crashes + 1
    BY <1>2 DEF Crash
  <2> QED
    BY <1>0, <2>2, <2>3, <2>4
<1> QED
  BY <1>1, <1>2

-----------------------------------------------------------------------------
(* The theorems.                                                           *)

LEMMA InitIInv == Init => IInv
<1> SUFFICES ASSUME Init PROVE IInv
  OBVIOUS
<1>1. TypeOK
  BY InitTypeOK
<1>2. SavedInv /\ InsertedInv /\ BodyHasItsTitle /\ LastPageIsPacked
  BY DEF Init, SavedInv, InsertedInv, BodyHasItsTitle, LastPageIsPacked
<1>3. PackFindsObject
  <2>1. ASSUME NEW d \in Doc
        PROVE  slot # d /\ PackJobs(d) <= ordered[d]
    <3>1. Held(d) = {}
      BY <2>1, Constants DEF Init, Held
    <3>2. packs[d] = 0 /\ pstuck[d] = 0 /\ ordered[d] = 0 /\ slot # d
      BY <2>1, Constants DEF Init
    <3>3. Cardinality(Held(d)) = 0
      BY <3>1, FS_EmptySet
    <3> QED
      BY <1>1, <2>1, <3>2, <3>3, PackJobsType
  <2> QED
    BY <2>1 DEF PackFindsObject
<1>4. AskedInv /\ PagedInv
  BY Constants DEF Init, AskedInv, PagedInv
<1>5. LossInv
  <2>1. Lost = {} /\ crashes = 0
    BY DEF Init, Lost
  <2> QED
    BY <2>1, FS_EmptySet DEF LossInv
<1> QED
  BY <1>1, <1>2, <1>3, <1>4, <1>5 DEF IInv

LEMMA IInvStep == IInv /\ [Next]_vars => IInv'
  BY TypeStep, SavedStep, FindsStep, InsertedStep, BodyStep, LastPageStep, AskedStep, PagedStep,
     LossStep DEF IInv

\* The strengthened invariant of extract and pack: what each worker has saved or
\* inserted by the time it is at a step (internal/kv, cmd/extract, cmd/pack).
THEOREM Invariance == Spec => []IInv
  BY InitIInv, IInvStep, PTL DEF Spec

\* Type correctness of extract and pack.
THEOREM TypeCorrect == Spec => []TypeOK
<1>1. IInv => TypeOK
  BY DEF IInv
<1> QED
  BY Invariance, <1>1, PTL

\* The last content saved under a document's key (extract/pdf.go:84) is packed or
\* on its way to be, unless extract died or a call failed: however many workers,
\* extractions and versions overwrite the key, and however often pack dies.
THEOREM LastPagePacked == Spec => []LastPageIsPacked
<1>1. IInv => LastPageIsPacked
  BY DEF IInv
<1> QED
  BY Invariance, <1>1, PTL

\* A crash of extract (queueing/river.go:26, or a PDF that cannot be copied) loses
\* one document at most, for any number of documents, pages, workers and crashes of
\* either service: whatever else was saved or sent by then is extracted again.
THEOREM CrashLoss == Spec => []CrashLosesOne
<1>1. IInv => CrashLosesOne
  BY DEF IInv, LossInv, CrashLosesOne
<1> QED
  BY Invariance, <1>1, PTL

\* A body in the table has the path and title of its own page and version
\* (pack/pdf.go:21-71), although the key is overwritten in between.
THEOREM BodyTitled == Spec => []BodyHasItsTitle
<1>1. IInv => BodyHasItsTitle
  BY DEF IInv
<1> QED
  BY Invariance, <1>1, PTL

\* While the key of a document is empty extract has sent no pack job for it
\* (extract/pdf.go:84 before :101), so that only the jobs admin was asked for
\* (admin/main.go:147) find nothing (pack/work.go:18-24): for any number of retries,
\* rescues, faults and crashes of both services.
THEOREM PackFinds == Spec => []PackFindsObject
<1>1. IInv => PackFindsObject
  BY DEF IInv
<1> QED
  BY Invariance, <1>1, PTL

-----------------------------------------------------------------------------
(* The channel and the goroutine behind it are an outbox.                  *)

\* History: what the Enqueue goroutine has committed, in its order.
VARIABLE outbox

Committing == outbox' = IF Commit THEN Append(outbox, slot) ELSE outbox

Out == INSTANCE Outbox WITH
  Message <- Doc,
  Lossy <- {},
  inbox <- IF slot = NoDoc THEN {} ELSE {slot},
  deaths <- crashes

\* Who touches the channel.
LEMMA SlotMoves ==
  ASSUME TypeOK, [Next]_vars
  PROVE  \/ UNCHANGED <<slot, crashes>>
         \/ slot = NoDoc /\ slot' \in Doc /\ crashes' = crashes
         \/ Commit \/ Crash
<1> USE DEF packVars, extractVars
<1>1. ASSUME NEW x \in Extractor, SendPage(x)
      PROVE  slot = NoDoc /\ slot' \in Doc /\ crashes' = crashes
  <2>1. xdoc[x] \in Doc
    BY <1>1 DEF SendPage, TypeOK
  <2> QED
    BY <1>1, <2>1 DEF SendPage
<1>2. ASSUME NEW x \in Extractor,
             LoadJSON(x) \/ CopyRaw(x) \/ SavePage(x) \/ ReturnExtract(x)
               \/ \E d \in Doc : TakeExtract(x, d)
      PROVE  UNCHANGED <<slot, crashes>>
  BY <1>2 DEF LoadJSON, CopyRaw, SavePage, ReturnExtract, TakeExtract
<1>3. ASSUME NEW p \in Packer, Pack(p) \/ \E d \in Doc : TakePack(p, d)
      PROVE  UNCHANGED <<slot, crashes>>
  BY <1>3 DEF Pack, TakePack, LoadObject, PackPanic, DiscardPack, InsertPath, InsertTitle,
              InsertBody, Insert, ReturnPack
<1>4. CASE \/ \E d \in Doc : \/ StoreRaw(d) \/ AskExtract(d) \/ OrderPack(d)
                             \/ RescueExtract(d) \/ RescuePack(d)
           \/ Boot \/ PackCrash \/ PackBoot \/ Done \/ UNCHANGED vars
  BY <1>4 DEF StoreRaw, AskExtract, OrderPack, RescueExtract, RescuePack, Boot, PackCrash,
              PackBoot, Done, vars
<1> QED
  BY <1>1, <1>2, <1>3, <1>4 DEF Next, Extract

LEMMA OutboxStep ==
  TypeOK /\ [Next]_vars /\ [Committing]_<<vars, outbox>> => [Out!OutNext]_(Out!outVars)
<1> SUFFICES ASSUME TypeOK, [Next]_vars, [Committing]_<<vars, outbox>>
             PROVE  [Out!OutNext]_(Out!outVars)
  OBVIOUS
<1> USE DEF Out!outVars
<1>0. /\ outbox' = IF Commit THEN Append(outbox, slot) ELSE outbox
      /\ slot \in Doc \cup {NoDoc} /\ NoDoc \notin Doc
  BY Constants DEF Committing, Commit, vars, extractVars, TypeOK
<1>1. CASE Commit
  <2>1. slot \in Doc /\ slot # NoDoc /\ slot' = NoDoc /\ crashes' = crashes
    BY <1>0, <1>1 DEF Commit
  <2> QED
    BY <1>0, <1>1, <2>1 DEF Out!OutNext, Out!CommitIt
<1>2. CASE Crash
  <2>1. ~Commit /\ slot' = NoDoc /\ crashes' = crashes + 1
    BY <1>2 DEF Crash, Commit
  <2> QED
    BY <1>0, <2>1 DEF Out!OutNext, Out!Die
<1>3. CASE ~Commit /\ UNCHANGED <<slot, crashes>>
  BY <1>0, <1>3
<1>4. CASE ~Commit /\ slot = NoDoc /\ slot' \in Doc /\ crashes' = crashes
  BY <1>0, <1>4 DEF Out!OutNext, Out!TakeOne
<1> QED
  BY <1>1, <1>2, <1>3, <1>4, SlotMoves

\* The channel of extract (extract/pdf.go:101) with its goroutine, as this module
\* has them, is the outbox that Enqueue implements, and a sound one: a message that was
\* received is committed once, before the next is received, or lost in a crash.
THEOREM SlotIsOutbox ==
  Spec /\ outbox = << >> /\ [][Committing]_<<vars, outbox>> => Out!OutSpec
<1>1. Init /\ outbox = << >> => Out!OutInit
  BY DEF Init, Out!OutInit
<1> QED
  BY <1>1, OutboxStep, TypeCorrect, PTL DEF Spec, Out!OutSpec

=============================================================================
