------------------------- MODULE BuildingSyncProofs -------------------------
(***************************************************************************)
(* Proofs about syncBuildings, for every set of buildings and spaces and   *)
(* any faults.  With one poller at a time, as in production but for the    *)
(* moments of a fail-over, a sync deletes nothing it has met; nothing the  *)
(* university still offers disappears unless an answer was missing or      *)
(* short; and phase 1 enriches all it was given but for what an earlier    *)
(* sync has torn.                                                          *)
(***************************************************************************)
EXTENDS BuildingSync, TLAPS

USE SyncAssumption DEF SyncAssumption

\* But for the moments of a fail-over.
OnePoller == \A p, q \in Process : p = q

-----------------------------------------------------------------------------
(* Types *)

LEMMA TypeInit == Init => TypeOK
BY DEF Init, TypeOK, Nothing, Version, Enriched, PC, Gone

\* An answer is whole, or short and a fault.
LEMMA ShortType ==
    ASSUME TypeOK, NEW p \in Process, (NoFault /\ UNCHANGED partial) \/ (Fault /\ Short(p))
    PROVE  partial' \in [Process -> BOOLEAN] /\ faults' \in 0 .. MaxFaults
<1>1. partial' \in [Process -> BOOLEAN]
  <2>1. CASE UNCHANGED partial
    BY <2>1 DEF TypeOK
  <2>2. CASE Short(p)
    BY <2>2 DEF TypeOK, Short
  <2> QED
    BY <2>1, <2>2
<1>2. faults' \in 0 .. MaxFaults
  <2>1. CASE NoFault
    BY <2>1 DEF TypeOK, NoFault
  <2>2. CASE Fault
    BY <2>2 DEF TypeOK, Fault
  <2> QED
    BY <2>1, <2>2
<1> QED
  BY <1>1, <1>2

LEMMA TypeStep == TypeOK /\ [Next]_vars => TypeOK'
<1> SUFFICES ASSUME TypeOK, [Next]_vars PROVE TypeOK'
  OBVIOUS
<1> USE DEF TypeOK, PC, Version, Gone
<1>1. ASSUME NEW b \in Building, ChangeBuilding(b) PROVE TypeOK'
  BY <1>1 DEF ChangeBuilding, stored, locals
<1>2. ASSUME NEW s \in Space, ChangeSpace(s) PROVE TypeOK'
  BY <1>2 DEF ChangeSpace, stored, locals
<1>3. ASSUME NEW p \in Process, Deploy(p) PROVE TypeOK'
  BY <1>3 DEF Deploy, source, stored, locals
<1>4. ASSUME NEW p \in Process, StartSync(p) PROVE TypeOK'
  BY <1>4 DEF StartSync, source, Goto, Nothing
<1>5. ASSUME NEW p \in Process, FetchBuildList(p) PROVE TypeOK'
  <2>1. PICK B \in SUBSET Building :
           /\ allItems' = [allItems EXCEPT ![p] =
                             [b \in Building |-> IF b \in B THEN listed[b] ELSE 0]]
           /\ Goto(p, IF Cardinality(B) < MinBuildings THEN "idle" ELSE "readRaw")
           /\ (NoFault /\ UNCHANGED partial) \/ (Fault /\ Short(p))
    BY <1>5 DEF FetchBuildList
  <2>2. allItems' \in [Process -> [Building -> Version]]
    BY <2>1
  <2>3. partial' \in [Process -> BOOLEAN] /\ faults' \in 0 .. MaxFaults
    BY <2>1, ShortType
  <2>4. pc' \in [Process -> PC]
    BY <2>1 DEF Goto
  <2> QED
    BY <1>5, <2>2, <2>3, <2>4 DEF FetchBuildList, source, stored
<1>6. ASSUME NEW p \in Process, ReadRaw(p) PROVE TypeOK'
  BY <1>6 DEF ReadRaw, source, stored, Goto, Changed, Items
<1>7. ASSUME NEW p \in Process, ReadStale(p) PROVE TypeOK'
  BY <1>7 DEF ReadStale, source, stored, Goto, Items
<1>8. ASSUME NEW p \in Process, WriteRaw(p) PROVE TypeOK'
  BY <1>8 DEF WriteRaw, source, Put, Detailed, Items, Goto
<1>9. ASSUME NEW p \in Process, WriteRawFails(p) PROVE TypeOK'
  BY <1>9 DEF WriteRawFails, source, locals, Put, Tear, Items, Goto, Fault
<1>10. ASSUME NEW p \in Process, Reread(p) PROVE TypeOK'
  BY <1>10 DEF Reread, source, stored, Goto
<1>11. ASSUME NEW p \in Process, WriteEnriched(p) PROVE TypeOK'
  BY <1>11 DEF WriteEnriched, source, locals, Put, Enrichment, Enriched, Goto
<1>12. ASSUME NEW p \in Process, WriteEnrichedFails(p) PROVE TypeOK'
  BY <1>12 DEF WriteEnrichedFails, source, locals, Put, Enrichment, Enriched, Goto, Fault
<1>13. ASSUME NEW p \in Process, NEW b \in Building, FetchBuildInfo(p, b) PROVE TypeOK'
  BY <1>13 DEF FetchBuildInfo, source, stored, InfoSpaces, Offered
<1>14. ASSUME NEW p \in Process, NEW b \in Building, BuildInfoFails(p, b) PROVE TypeOK'
  BY <1>14 DEF BuildInfoFails, source, stored, Fault, Short
<1>15. ASSUME NEW p \in Process, BuildInfoEnds(p) PROVE TypeOK'
  BY <1>15 DEF BuildInfoEnds, source, stored, locals, Goto
<1>16. ASSUME NEW p \in Process, WriteInfoSpaces(p) PROVE TypeOK'
  BY <1>16 DEF WriteInfoSpaces, source, Stamp, Put, Goto
<1>17. ASSUME NEW p \in Process, WriteInfoFails(p) PROVE TypeOK'
  BY <1>17 DEF WriteInfoFails, source, Stamp, Put, Goto, Fault, Short
<1>18. ASSUME NEW p \in Process, FetchSpaceList(p) PROVE TypeOK'
  <2>1. PICK S \in SUBSET Space :
           /\ spacesOps' = [spacesOps EXCEPT ![p] = S]
           /\ (NoFault /\ UNCHANGED partial) \/ (Fault /\ Short(p))
    BY <1>18 DEF FetchSpaceList, Offered
  <2>2. spacesOps' \in [Process -> SUBSET Space]
    BY <2>1
  <2>3. partial' \in [Process -> BOOLEAN] /\ faults' \in 0 .. MaxFaults
    BY <2>1, ShortType
  <2>4. pc' \in [Process -> PC]
    BY <1>18 DEF FetchSpaceList, Goto
  <2> QED
    BY <1>18, <2>2, <2>3, <2>4 DEF FetchSpaceList, source, stored
<1>19. ASSUME NEW p \in Process, WriteListSpaces(p) PROVE TypeOK'
  BY <1>19 DEF WriteListSpaces, source, Stamp, Put, Goto
<1>20. ASSUME NEW p \in Process, WriteListFails(p) PROVE TypeOK'
  BY <1>20 DEF WriteListFails, source, Stamp, Put, Goto, Fault
<1>21. ASSUME NEW p \in Process, DeleteStale(p) PROVE TypeOK'
  BY <1>21 DEF DeleteStale, source, locals, Put, Stale, Goto
<1>22. ASSUME NEW p \in Process, DeleteFails(p) PROVE TypeOK'
  BY <1>22 DEF DeleteFails, source, locals, Put, Stale, Goto, Fault
<1>23. ASSUME NEW p \in Process, ClearCache(p) PROVE TypeOK'
  BY <1>23 DEF ClearCache, source, stored, locals, Goto
<1>24. ASSUME NEW p \in Process, RequestFails(p) PROVE TypeOK'
  BY <1>24 DEF RequestFails, source, stored, locals, Goto, Fault
<1>25. ASSUME NEW p \in Process, Crash(p) PROVE TypeOK'
  BY <1>25 DEF Crash, source, stored, locals, Goto, Fault
<1>26. CASE UNCHANGED vars
  BY <1>26 DEF vars
<1> QED
  BY <1>1, <1>2, <1>3, <1>4, <1>5, <1>6, <1>7, <1>8, <1>9, <1>10, <1>11, <1>12, <1>13, <1>14, <1>15, <1>16, <1>17, <1>18, <1>19, <1>20, <1>21, <1>22, <1>23, <1>24, <1>25, <1>26 DEF Next, SyncStep, FaultStep

\* What is stored is what the types say, for any number of pollers.
THEOREM TypeCorrect == Spec => []TypeOK
<1>1. Init => TypeOK
  BY TypeInit
<1>2. TypeOK /\ [Next]_vars => TypeOK'
  BY TypeStep
<1> QED
  BY <1>1, <1>2, PTL DEF Spec

-----------------------------------------------------------------------------
(* The stamps *)

\* The stamp of the sync under way is the youngest, and what it has met bears it.
StampInv ==
    \A p \in Process : age[p] = 0 /\ \A s \in met[p] : spaces[s] = 0

\* The steps of a poller that touch the spaces or what it has met of them.
Stamps(p) == WriteInfoSpaces(p) \/ WriteInfoFails(p) \/ WriteListSpaces(p) \/ WriteListFails(p)
Deletes(p) == DeleteStale(p) \/ DeleteFails(p)

LEMMA StampsOrDeletes ==
    ASSUME [Next]_vars
    PROVE  \/ UNCHANGED <<age, met, spaces>>
           \/ \E p \in Process : StartSync(p) \/ Stamps(p) \/ Deletes(p)
<1>1. CASE \E p \in Process : SyncStep(p)
  BY <1>1 DEF SyncStep, Stamps, Deletes, FetchBuildList, ReadRaw, ReadStale, WriteRaw, Reread,
              WriteEnriched, FetchBuildInfo, BuildInfoEnds, FetchSpaceList, ClearCache,
              stored, locals
<1>2. CASE \E p \in Process : FaultStep(p)
  BY <1>2 DEF FaultStep, Stamps, Deletes, WriteRawFails, WriteEnrichedFails, BuildInfoFails,
              RequestFails, Crash, stored, locals
<1>3. CASE \/ \E b \in Building : ChangeBuilding(b)
           \/ \E s \in Space : ChangeSpace(s)
           \/ \E p \in Process : Deploy(p)
  BY <1>3 DEF ChangeBuilding, ChangeSpace, Deploy, stored, locals
<1>4. CASE UNCHANGED vars
  BY <1>4 DEF vars
<1> QED
  BY <1>1, <1>2, <1>3, <1>4 DEF Next

\* What is written bears the stamp of its sync, and nothing else changes.
LEMMA StampsSet ==
    ASSUME TypeOK, NEW p \in Process, Stamps(p)
    PROVE  \E S \in SUBSET spacesOps[p] : Stamp(p, S) /\ UNCHANGED <<age, offered>>
BY DEF TypeOK, Stamps, WriteInfoSpaces, WriteInfoFails, WriteListSpaces, WriteListFails, source

\* What is deleted was stale.
LEMMA DeletesStale ==
    ASSUME TypeOK, NEW p \in Process, Deletes(p)
    PROVE  /\ UNCHANGED <<age, met, offered>> /\ pc[p] = "delete"
           /\ \A s \in Space : spaces'[s] = spaces[s] \/ (s \in Stale(p) /\ spaces'[s] = Gone)
<1>1. UNCHANGED <<age, met, offered>> /\ pc[p] = "delete"
  BY DEF Deletes, DeleteStale, DeleteFails, source, locals
<1>2. CASE DeleteStale(p)
  BY <1>1, <1>2 DEF DeleteStale, Put, TypeOK, Stale
<1>3. CASE DeleteFails(p)
  BY <1>1, <1>3 DEF DeleteFails, Put, TypeOK, Stale
<1> QED
  BY <1>1, <1>2, <1>3 DEF Deletes

LEMMA StampStep == ASSUME OnePoller, TypeOK, StampInv, [Next]_vars PROVE StampInv'
<1>1. CASE UNCHANGED <<age, met, spaces>>
  BY <1>1 DEF StampInv
<1>2. ASSUME NEW p \in Process, StartSync(p) PROVE StampInv'
  BY <1>2 DEF StartSync, StampInv, OnePoller, TypeOK
<1>3. ASSUME NEW p \in Process, Stamps(p) PROVE StampInv'
  <2>1. PICK S \in SUBSET spacesOps[p] : Stamp(p, S) /\ UNCHANGED <<age, offered>>
    BY <1>3, StampsSet
  <2> QED
    BY <2>1 DEF Stamp, Put, StampInv, OnePoller, TypeOK
<1>4. ASSUME NEW p \in Process, Deletes(p) PROVE StampInv'
  BY <1>4, DeletesStale DEF StampInv, Stale, OnePoller, TypeOK
<1> QED
  BY <1>1, <1>2, <1>3, <1>4, StampsOrDeletes

\* With one poller at a time a sync deletes nothing it has met, however many of its
\* requests and writes fail.
THEOREM MetAreKept == OnePoller => (Spec => []MetSpacesKept)
<1> SUFFICES ASSUME OnePoller PROVE Spec => []MetSpacesKept
  OBVIOUS
<1>1. Init => TypeOK /\ StampInv
  BY TypeInit DEF Init, StampInv
<1>2. TypeOK /\ StampInv /\ [Next]_vars => (TypeOK /\ StampInv)'
  BY TypeStep, StampStep
<1>3. StampInv => MetSpacesKept
  BY DEF StampInv, MetSpacesKept, Gone
<1> QED
  BY <1>1, <1>2, <1>3, PTL DEF Spec

-----------------------------------------------------------------------------
(* What a sync will meet *)

\* Spaces become known by the list of spaces or by the details of a building
\* that is listed, and stay listed and known.
Known(s) == s \in InList \/ (s \in InInfo /\ listed[BuildingOf[s]] # 0)
KnownInv ==
    /\ \A s \in Space : spaces[s] # Gone => offered[s] # "new" /\ Known(s)
    /\ \A p \in Process : \A s \in spacesOps[p] : offered[s] # "new" /\ Known(s)
    /\ \A p \in Process : \A b \in Items(p) \cup todo[p] : listed[b] # 0

\* Spaces that are written become stored, and nothing else does.
LEMMA StoredStep ==
    ASSUME TypeOK, [Next]_vars
    PROVE  \A s \in Space : spaces'[s] # Gone =>
              spaces[s] # Gone \/ \E p \in Process : s \in spacesOps[p]
<1>1. ASSUME NEW p \in Process, StartSync(p), NEW s \in Space, spaces'[s] # Gone
      PROVE  spaces[s] # Gone
  BY <1>1 DEF StartSync, TypeOK, Gone
<1>2. ASSUME NEW p \in Process, Stamps(p), NEW s \in Space, spaces'[s] # Gone, spaces[s] = Gone
      PROVE  s \in spacesOps[p]
  <2>1. PICK S \in SUBSET spacesOps[p] : Stamp(p, S) /\ UNCHANGED <<age, offered>>
    BY <1>2, StampsSet
  <2> QED
    BY <1>2, <2>1 DEF Stamp, Put, TypeOK
<1>3. ASSUME NEW p \in Process, Deletes(p), NEW s \in Space, spaces'[s] # Gone
      PROVE  spaces[s] # Gone
  BY <1>3, DeletesStale
<1> QED
  BY <1>1, <1>2, <1>3, StampsOrDeletes

\* The site never takes back that a building is listed or that a space is there.
LEMMA SourceStep ==
    ASSUME TypeOK, [Next]_vars
    PROVE  /\ \A b \in Building : listed[b] # 0 => listed'[b] # 0
           /\ \A s \in Space : offered[s] # "new" => offered'[s] # "new"
           /\ \A s \in Space : offered[s] # "new" /\ offered'[s] = "offered" => offered[s] = "offered"
<1>1. ASSUME NEW b \in Building, ChangeBuilding(b) PROVE UNCHANGED offered
  BY <1>1 DEF ChangeBuilding
<1>2. ASSUME NEW b \in Building, ChangeBuilding(b)
      PROVE  \A c \in Building : listed[c] # 0 => listed'[c] # 0
  BY <1>2 DEF ChangeBuilding, TypeOK, Version
<1>3. ASSUME NEW s \in Space, ChangeSpace(s)
      PROVE  /\ UNCHANGED listed
             /\ \A t \in Space : offered[t] # "new" => offered'[t] # "new"
             /\ \A t \in Space : offered[t] # "new" /\ offered'[t] = "offered" => offered[t] = "offered"
  BY <1>3 DEF ChangeSpace, TypeOK
<1>4. CASE \E p \in Process : SyncStep(p)
  BY <1>4 DEF SyncStep, FetchBuildList, ReadRaw, ReadStale, WriteRaw, Reread, WriteEnriched,
              FetchBuildInfo, BuildInfoEnds, WriteInfoSpaces, FetchSpaceList, WriteListSpaces,
              DeleteStale, ClearCache, source
<1>5. CASE \E p \in Process : FaultStep(p)
  BY <1>5 DEF FaultStep, WriteRawFails, WriteEnrichedFails, BuildInfoFails, WriteInfoFails,
              WriteListFails, DeleteFails, RequestFails, Crash, source
<1>6. CASE \/ \E p \in Process : Deploy(p) \/ StartSync(p)
           \/ UNCHANGED vars
  BY <1>6 DEF Deploy, StartSync, source, vars
<1> QED
  BY <1>1, <1>2, <1>3, <1>4, <1>5, <1>6 DEF Next

\* A poller learns of spaces and buildings by what the site answers.
LEMMA LearnStep ==
    ASSUME TypeOK, [Next]_vars, NEW p \in Process
    PROVE  /\ \A s \in spacesOps'[p] :
                 \/ s \in spacesOps[p]
                 \/ s \in Offered /\ s \in InList
                 \/ s \in Offered /\ s \in InInfo /\ BuildingOf[s] \in todo[p]
           /\ \A b \in Building : allItems'[p][b] # 0 => allItems[p][b] # 0 \/ listed[b] # 0
           /\ \A b \in todo'[p] : b \in todo[p] \/ b \in Items(p)
<1>1. CASE UNCHANGED <<spacesOps, allItems, todo>>
  BY <1>1
<1>2. ASSUME NEW q \in Process, StartSync(q)
      PROVE  /\ \A s \in spacesOps'[p] : s \in spacesOps[p]
             /\ \A b \in Building : allItems'[p][b] # 0 => allItems[p][b] # 0
             /\ \A b \in todo'[p] : b \in todo[p]
  BY <1>2 DEF StartSync, Nothing, TypeOK
<1>3. ASSUME NEW q \in Process, FetchBuildList(q)
      PROVE  /\ UNCHANGED <<spacesOps, todo>>
             /\ \A b \in Building : allItems'[p][b] # 0 => allItems[p][b] # 0 \/ listed[b] # 0
  BY <1>3 DEF FetchBuildList, TypeOK
<1>4. ASSUME NEW q \in Process, WriteRaw(q)
      PROVE  /\ UNCHANGED <<spacesOps, allItems>>
             /\ \A b \in todo'[p] : b \in todo[p] \/ b \in Items(p)
  BY <1>4 DEF WriteRaw, Detailed, TypeOK
<1>5. ASSUME NEW q \in Process, NEW b \in Building, FetchBuildInfo(q, b)
      PROVE  /\ UNCHANGED allItems
             /\ \A c \in todo'[p] : c \in todo[p]
             /\ \A s \in spacesOps'[p] :
                   \/ s \in spacesOps[p]
                   \/ s \in Offered /\ s \in InInfo /\ BuildingOf[s] \in todo[p]
  BY <1>5 DEF FetchBuildInfo, InfoSpaces, TypeOK
<1>6. ASSUME NEW q \in Process, NEW b \in Building, BuildInfoFails(q, b)
      PROVE  UNCHANGED <<spacesOps, allItems>> /\ \A c \in todo'[p] : c \in todo[p]
  BY <1>6 DEF BuildInfoFails, TypeOK
<1>7. ASSUME NEW q \in Process, FetchSpaceList(q)
      PROVE  /\ UNCHANGED <<allItems, todo>>
             /\ \A s \in spacesOps'[p] : s \in spacesOps[p] \/ (s \in Offered /\ s \in InList)
  BY <1>7 DEF FetchSpaceList, TypeOK
<1>8. CASE \E q \in Process : SyncStep(q)
  BY <1>1, <1>3, <1>4, <1>5, <1>7, <1>8
     DEF SyncStep, ReadRaw, ReadStale, Reread, WriteEnriched, BuildInfoEnds, WriteInfoSpaces,
         WriteListSpaces, DeleteStale, ClearCache, locals
<1>9. CASE \E q \in Process : FaultStep(q)
  BY <1>1, <1>6, <1>9
     DEF FaultStep, WriteRawFails, WriteEnrichedFails, WriteInfoFails, WriteListFails,
         DeleteFails, RequestFails, Crash, locals
<1>10. CASE \/ \E b \in Building : ChangeBuilding(b)
            \/ \E s \in Space : ChangeSpace(s)
            \/ \E q \in Process : Deploy(q)
            \/ UNCHANGED vars
  BY <1>1, <1>10 DEF ChangeBuilding, ChangeSpace, Deploy, locals, vars
<1> QED
  BY <1>2, <1>8, <1>9, <1>10 DEF Next

LEMMA KnownStep == ASSUME TypeOK, KnownInv, [Next]_vars PROVE KnownInv'
<1>1. \A s \in Space : offered[s] # "new" /\ Known(s) => (offered[s] # "new" /\ Known(s))'
  BY SourceStep DEF Known, TypeOK
<1>2. \A p \in Process : \A s \in spacesOps'[p] : (offered[s] # "new" /\ Known(s))'
  <2> SUFFICES ASSUME NEW p \in Process, NEW s \in spacesOps'[p]
               PROVE  (offered[s] # "new" /\ Known(s))'
    OBVIOUS
  <2>1. s \in Space
    BY TypeStep DEF TypeOK
  <2>2. offered[s] # "new" /\ Known(s)
    BY <2>1, LearnStep DEF KnownInv, Known, Offered
  <2> QED
    BY <1>1, <2>1, <2>2
<1>3. \A s \in Space : spaces'[s] # Gone => (offered[s] # "new" /\ Known(s))'
  <2> SUFFICES ASSUME NEW s \in Space, spaces'[s] # Gone PROVE (offered[s] # "new" /\ Known(s))'
    OBVIOUS
  <2>1. spaces[s] # Gone \/ \E p \in Process : s \in spacesOps[p]
    BY StoredStep
  <2>2. offered[s] # "new" /\ Known(s)
    BY <2>1 DEF KnownInv
  <2> QED
    BY <1>1, <2>2
<1>4. \A p \in Process : \A b \in Building : allItems'[p][b] # 0 => listed'[b] # 0
  BY LearnStep, SourceStep DEF KnownInv, Items
<1>5. \A p \in Process : \A b \in todo'[p] : listed'[b] # 0
  <2> SUFFICES ASSUME NEW p \in Process, NEW b \in todo'[p] PROVE listed'[b] # 0
    OBVIOUS
  <2>1. b \in Building
    BY TypeStep DEF TypeOK
  <2>2. listed[b] # 0
    BY LearnStep DEF KnownInv
  <2> QED
    BY <2>1, <2>2, SourceStep
<1> QED
  BY <1>2, <1>3, <1>4, <1>5 DEF KnownInv, Items

\* A space stored by an earlier sync and still offered, of which the list of
\* spaces or only the details know.
Due(s) == spaces[s] > 0 /\ offered[s] = "offered"
DueByInfo(s) == Due(s) /\ s \notin InList

\* During a sync nothing becomes due, and what it stamps is due no more.
LEMMA DueStep ==
    ASSUME OnePoller, TypeOK, StampInv, KnownInv, [Next]_vars,
           NEW p \in Process, pc[p] # "idle", NEW s \in Space, Due(s)'
    PROVE  Due(s)
<1>1. spaces[s] > 0
  <2>1. ASSUME NEW q \in Process, StartSync(q) PROVE FALSE
    BY <2>1 DEF StartSync, OnePoller
  <2>2. ASSUME NEW q \in Process, Stamps(q) PROVE spaces[s] > 0
    <3>1. PICK S \in SUBSET spacesOps[q] : Stamp(q, S) /\ UNCHANGED <<age, offered>>
      BY <2>2, StampsSet
    <3> QED
      BY <3>1 DEF Stamp, Put, StampInv, Due, TypeOK
  <2>3. ASSUME NEW q \in Process, Deletes(q) PROVE spaces[s] > 0
    BY <2>3, DeletesStale DEF Due, Gone
  <2> QED
    BY <2>1, <2>2, <2>3, StampsOrDeletes DEF Due
<1>2. offered[s] = "offered"
  BY <1>1, SourceStep DEF Due, KnownInv, Gone
<1> QED
  BY <1>1, <1>2 DEF Due

LEMMA StampedIsNotDue ==
    ASSUME OnePoller, TypeOK, StampInv, NEW p \in Process, NEW S \in SUBSET spacesOps[p],
           Stamp(p, S), NEW s \in S
    PROVE  ~Due(s)'
BY DEF Stamp, Put, StampInv, Due, TypeOK

\* While all answers are complete, a space that is due is ahead of the sync.
Ahead(p) ==
    ~partial[p] =>
        /\ pc[p] \in {"readRaw", "readStale", "writeRaw"} =>
              \A s \in Space : DueByInfo(s) => BuildingOf[s] \in Items(p)
        /\ pc[p] \in {"reread", "enrich", "buildInfo"} =>
              \A s \in Space : DueByInfo(s) =>
                  BuildingOf[s] \in todo[p] \/ s \in spacesOps[p]
        /\ pc[p] = "writeInfo" => \A s \in Space : DueByInfo(s) => s \in spacesOps[p]
        /\ pc[p] \in {"spaceList", "writeList"} => \A s \in Space : ~DueByInfo(s)
        /\ pc[p] = "writeList" => \A s \in Space : Due(s) => s \in spacesOps[p]
        /\ pc[p] = "delete" => \A s \in Space : ~Due(s)
AheadInv == \A p \in Process : Ahead(p)

LEMMA AheadStep ==
    ASSUME OnePoller, TypeOK, StampInv, KnownInv, AheadInv, [Next]_vars PROVE AheadInv'
<1> SUFFICES ASSUME NEW p \in Process PROVE Ahead(p)'
  BY DEF AheadInv
<1>0. Ahead(p)
  BY DEF AheadInv
<1>1. pc[p] # "idle" => \A s \in Space : Due(s)' => Due(s)
  BY DueStep
<1>2. pc[p] # "idle" => \A s \in Space : DueByInfo(s)' => DueByInfo(s)
  BY <1>1 DEF DueByInfo
<1>3. ASSUME UNCHANGED <<pc, allItems, todo, spacesOps, partial>> PROVE Ahead(p)'
  BY <1>0, <1>1, <1>2, <1>3 DEF Ahead, Items
<1>4. ASSUME pc'[p] \in {"idle", "buildList", "clearCache"} PROVE Ahead(p)'
  BY <1>4 DEF Ahead
<1>5. ASSUME FetchBuildList(p) PROVE Ahead(p)'
  <2>1. CASE pc'[p] = "idle"
    BY <2>1, <1>4
  <2>2. CASE pc'[p] = "readRaw" /\ ~partial'[p]
    <3>1. \A b \in Building : listed[b] # 0 => allItems'[p][b] # 0
      BY <1>5, <2>2 DEF FetchBuildList, Short, TypeOK
    <3>2. \A s \in Space : DueByInfo(s)' => BuildingOf[s] \in Building /\ listed[BuildingOf[s]] # 0
      BY <1>5, <1>2 DEF FetchBuildList, DueByInfo, Due, KnownInv, Known, Gone
    <3> QED
      BY <2>2, <3>1, <3>2 DEF Ahead, Items
  <2>3. CASE partial'[p]
    BY <2>3 DEF Ahead
  <2>4. pc'[p] = "idle" \/ pc'[p] = "readRaw"
    BY <1>5 DEF FetchBuildList, Goto, TypeOK
  <2> QED
    BY <2>1, <2>2, <2>3, <2>4
<1>6. ASSUME ReadRaw(p) \/ ReadStale(p) PROVE Ahead(p)'
  BY <1>0, <1>2, <1>6 DEF ReadRaw, ReadStale, Goto, Ahead, Items, TypeOK
<1>7. ASSUME WriteRaw(p) PROVE Ahead(p)'
  BY <1>0, <1>2, <1>7 DEF WriteRaw, Goto, Ahead, Detailed, Items, TypeOK
<1>8. ASSUME Reread(p) \/ WriteEnriched(p) PROVE Ahead(p)'
  BY <1>0, <1>2, <1>8 DEF Reread, WriteEnriched, locals, Goto, Ahead, TypeOK
<1>9. ASSUME NEW b \in Building, FetchBuildInfo(p, b) PROVE Ahead(p)'
  <2>1. \A s \in Space : DueByInfo(s) /\ BuildingOf[s] = b => s \in InfoSpaces(b)
    BY DEF DueByInfo, Due, KnownInv, Known, InfoSpaces, Offered, Gone
  <2> QED
    BY <1>0, <1>2, <1>9, <2>1 DEF FetchBuildInfo, Ahead, TypeOK
<1>10. ASSUME BuildInfoEnds(p) PROVE Ahead(p)'
  BY <1>0, <1>2, <1>10 DEF BuildInfoEnds, locals, Goto, Ahead, TypeOK
<1>11. ASSUME WriteInfoSpaces(p) PROVE Ahead(p)'
  <2>1. Stamp(p, spacesOps[p]) /\ pc'[p] = "spaceList" /\ UNCHANGED partial /\ pc[p] = "writeInfo"
    BY <1>11 DEF WriteInfoSpaces, Goto, TypeOK
  <2>2. \A s \in spacesOps[p] : ~Due(s)'
    BY <2>1, StampedIsNotDue
  <2> QED
    BY <1>0, <1>2, <2>1, <2>2 DEF Ahead, DueByInfo
<1>12. ASSUME FetchSpaceList(p) PROVE Ahead(p)'
  <2>1. CASE partial'[p]
    BY <2>1 DEF Ahead
  <2>2. CASE ~partial'[p]
    <3>1. /\ spacesOps'[p] = Offered \cap InList /\ ~partial[p]
          /\ pc[p] = "spaceList" /\ pc'[p] = "writeList"
      BY <1>12, <2>2 DEF FetchSpaceList, Short, Goto, TypeOK
    <3> QED
      BY <1>0, <1>1, <1>2, <3>1 DEF Ahead, DueByInfo, Due, Offered
  <2> QED
    BY <2>1, <2>2
<1>13. ASSUME WriteListSpaces(p) PROVE Ahead(p)'
  <2>1. /\ Stamp(p, spacesOps[p]) /\ UNCHANGED partial
        /\ pc[p] = "writeList" /\ pc'[p] \in {"clearCache", "delete"}
    BY <1>13 DEF WriteListSpaces, Goto, TypeOK
  <2>2. \A s \in spacesOps[p] : ~Due(s)'
    BY <2>1, StampedIsNotDue
  <2> QED
    BY <1>0, <1>1, <2>1, <2>2 DEF Ahead
<1>14. ASSUME StartSync(p) \/ DeleteStale(p) \/ ClearCache(p) PROVE Ahead(p)'
  BY <1>14, <1>4 DEF StartSync, DeleteStale, ClearCache, Goto, TypeOK
<1>15. ASSUME FaultStep(p) PROVE Ahead(p)'
  <2>1. ASSUME NEW b \in Building, BuildInfoFails(p, b) PROVE partial'[p]
    BY <2>1 DEF BuildInfoFails, Short, TypeOK
  <2>2. ASSUME WriteInfoFails(p) PROVE partial'[p]
    BY <2>2 DEF WriteInfoFails, Short, TypeOK
  <2>3. ASSUME \/ WriteRawFails(p) \/ WriteEnrichedFails(p) \/ WriteListFails(p)
               \/ DeleteFails(p) \/ RequestFails(p) \/ Crash(p)
        PROVE  Ahead(p)'
    BY <2>3, <1>4 DEF WriteRawFails, WriteEnrichedFails, WriteListFails, DeleteFails,
                      RequestFails, Crash, Goto, TypeOK
  <2>4. CASE partial'[p]
    BY <2>4 DEF Ahead
  <2> QED
    BY <1>15, <2>1, <2>2, <2>3, <2>4 DEF FaultStep
<1>16. CASE \/ \E b \in Building : ChangeBuilding(b)
            \/ \E s \in Space : ChangeSpace(s)
            \/ Deploy(p)
  BY <1>16, <1>3 DEF ChangeBuilding, ChangeSpace, Deploy, locals
<1>17. CASE UNCHANGED vars
  BY <1>17, <1>3 DEF vars
<1>18. CASE SyncStep(p)
  BY <1>5, <1>6, <1>7, <1>8, <1>9, <1>10, <1>11, <1>12, <1>13, <1>14, <1>18 DEF SyncStep
<1> QED
  BY <1>14, <1>15, <1>16, <1>17, <1>18 DEF Next, OnePoller

\* While a sync's answers are complete, whatever it deletes was given up by the
\* university: spaces named only in a building's details included.
THEOREM OfferedAreKept == OnePoller => (Spec => LiveSpacesKept)
<1> SUFFICES ASSUME OnePoller PROVE Spec => LiveSpacesKept
  OBVIOUS
<1> DEFINE Inv == TypeOK /\ StampInv /\ KnownInv /\ AheadInv
           Kept == \A s \in Space :
                      spaces[s] # Gone /\ spaces'[s] = Gone /\ offered[s] = "offered" =>
                          \E p \in Process : partial[p]
<1>1. Init => Inv
  BY TypeInit DEF Init, StampInv, KnownInv, AheadInv, Ahead, Items, Nothing
<1>2. Inv /\ [Next]_vars => Inv'
  BY TypeStep, StampStep, KnownStep, AheadStep
<1>3. Inv /\ [Next]_vars => Kept
  <2> SUFFICES ASSUME Inv, [Next]_vars, NEW s \in Space,
                      spaces[s] # Gone, spaces'[s] = Gone, offered[s] = "offered"
               PROVE  \E p \in Process : partial[p]
    OBVIOUS
  <2>1. ASSUME NEW p \in Process, StartSync(p) PROVE FALSE
    BY <2>1 DEF StartSync, TypeOK, Gone
  <2>2. ASSUME NEW p \in Process, Stamps(p) PROVE FALSE
    <3>1. PICK S \in SUBSET spacesOps[p] : Stamp(p, S) /\ UNCHANGED <<age, offered>>
      BY <2>2, StampsSet
    <3> QED
      BY <3>1 DEF Stamp, Put, TypeOK, Gone
  <2>3. ASSUME NEW p \in Process, Deletes(p) PROVE partial[p]
    <3>1. pc[p] = "delete" /\ s \in Stale(p)
      BY <2>3, DeletesStale
    <3>2. Due(s)
      BY <3>1 DEF Stale, StampInv, Due
    <3> QED
      BY <3>1, <3>2 DEF AheadInv, Ahead
  <2> QED
    BY <2>1, <2>2, <2>3, StampsOrDeletes
<1>4. Spec => []Inv
  BY <1>1, <1>2, PTL DEF Spec
<1>5. Spec => [][Kept]_vars
  BY <1>3, <1>4, PTL DEF Spec
<1> QED
  BY <1>5 DEF LiveSpacesKept, Kept

-----------------------------------------------------------------------------
(* What phase 1 has enriched *)

\* A building's two documents go together, or it is torn, or is being enriched.
Whole(b) == buildings[b].of = raw[b] /\ (raw[b] # 0 <=> buildings[b].by # 0)
Enriching(b) == \E p \in Process : pc[p] \in {"reread", "enrich"} /\ b \in changedIds[p]
WholeInv == \A b \in Building \ torn : Whole(b) \/ Enriching(b)

\* The buildings that phase 1 leaves alone are stored as they were given, by this build.
Unchanged(p, b) ==
    raw[b] = allItems[p][b] /\ (pc[p] # "readStale" => buildings[b].by \in {0, deployed[p]})
DiffInv ==
    \A p \in Process :
        /\ pc[p] \in {"readStale", "writeRaw", "reread", "enrich"} =>
              /\ changedIds[p] \subseteq Items(p)
              /\ \A b \in Items(p) \ changedIds[p] : Unchanged(p, b)
        /\ pc[p] \in {"reread", "enrich"} =>
              \A b \in changedIds[p] : raw[b] = allItems[p][b]
        /\ pc[p] = "enrich" =>
              \A b \in changedIds[p] : changedRawDocs[p][b] = raw[b]

EnrichInv == WholeInv /\ DiffInv /\ Phase1Enriches

LEMMA EnrichStep == ASSUME OnePoller, TypeOK, EnrichInv, [Next]_vars PROVE EnrichInv'
<1>1. ASSUME UNCHANGED <<raw, buildings, deployed, pc, allItems, changedIds, changedRawDocs, torn>>
      PROVE  EnrichInv'
  BY <1>1 DEF EnrichInv, WholeInv, Whole, Enriching, DiffInv, Unchanged, Phase1Enriches, Items
<1>2. ASSUME NEW p \in Process, Deploy(p) PROVE EnrichInv'
  BY <1>2 DEF EnrichInv, Deploy, stored, locals, Goto, WholeInv, Whole, Enriching, DiffInv, Unchanged, Phase1Enriches, Items, OnePoller, TypeOK, Enriched, Version
<1>3. ASSUME NEW p \in Process, StartSync(p) PROVE EnrichInv'
  BY <1>3 DEF EnrichInv, StartSync, Nothing, Goto, WholeInv, Whole, Enriching, DiffInv, Unchanged, Phase1Enriches, Items, OnePoller, TypeOK, Enriched, Version
<1>4. ASSUME NEW p \in Process, FetchBuildList(p) PROVE EnrichInv'
  <2>1. /\ pc[p] = "buildList" /\ pc'[p] \in {"idle", "readRaw"}
        /\ UNCHANGED <<raw, buildings, torn, changedIds, deployed, changedRawDocs>>
    BY <1>4 DEF FetchBuildList, Goto, stored, TypeOK
  <2> QED
    BY <2>1
       DEF EnrichInv, WholeInv, Whole, Enriching, DiffInv, Unchanged, Phase1Enriches,
           Items, OnePoller, TypeOK
<1>5. ASSUME NEW p \in Process, ReadRaw(p) PROVE EnrichInv'
  BY <1>5 DEF EnrichInv, ReadRaw, stored, Changed, Goto, WholeInv, Whole, Enriching, DiffInv, Unchanged, Phase1Enriches, Items, OnePoller, TypeOK, Enriched, Version
<1>6. ASSUME NEW p \in Process, ReadStale(p) PROVE EnrichInv'
  <2>1. /\ pc[p] = "readStale" /\ pc'[p] = "writeRaw"
        /\ changedIds'[p] = changedIds[p] \cup (StaleEnriched(p) \cap Items(p))
        /\ UNCHANGED <<raw, buildings, torn, deployed, allItems, changedRawDocs>>
    BY <1>6 DEF ReadStale, Goto, stored, TypeOK
  <2>2. \A b \in Items(p) \ changedIds'[p] : buildings[b].by \in {0, deployed[p]}
    BY <2>1 DEF StaleEnriched, Items
  <2>3. WholeInv'
    BY <2>1 DEF EnrichInv, WholeInv, Whole, Enriching, OnePoller
  <2>4. changedIds'[p] \subseteq Items(p)'
    BY <2>1 DEF EnrichInv, DiffInv, Items
  <2>5. \A b \in Items(p)' \ changedIds'[p] : Unchanged(p, b)'
    BY <2>1, <2>2 DEF EnrichInv, DiffInv, Unchanged, Items
  <2> QED
    BY <2>1, <2>3, <2>4, <2>5 DEF EnrichInv, DiffInv, Phase1Enriches, OnePoller
<1>7. ASSUME NEW p \in Process, WriteRaw(p) PROVE EnrichInv'
  BY <1>7 DEF EnrichInv, WriteRaw, Put, Goto, WholeInv, Whole, Enriching, DiffInv, Unchanged, Phase1Enriches, Items, OnePoller, TypeOK, Enriched, Version
<1>8. ASSUME NEW p \in Process, WriteRawFails(p) PROVE EnrichInv'
  <2>1. PICK B \in SUBSET Items(p) :
           raw' = Put(raw, B, allItems[p]) /\ Tear(p, B \cap changedIds[p])
    BY <1>8 DEF WriteRawFails
  <2>2. /\ pc[p] = "writeRaw" /\ pc'[p] = "idle"
        /\ UNCHANGED <<buildings, deployed, allItems, changedIds, changedRawDocs>>
    BY <1>8 DEF WriteRawFails, Goto, locals, TypeOK
  <2>3. ASSUME NEW b \in Building \ torn' PROVE Whole(b)'
    <3>1. b \notin torn /\ Whole(b)
      BY <2>1, <2>2, <2>3 DEF Tear, EnrichInv, WholeInv, Enriching, OnePoller
    <3>2. CASE b \notin B
      BY <2>1, <2>2, <3>1, <3>2 DEF Put, Whole, TypeOK
    <3>3. CASE b \in B /\ b \notin changedIds[p]
      BY <2>1, <2>2, <3>1, <3>3 DEF Put, Whole, TypeOK, EnrichInv, DiffInv, Unchanged
    <3>4. CASE b \in B /\ b \in changedIds[p]
      <4>1. buildings[b] = [of |-> raw'[b], by |-> deployed[p]]
        BY <2>1, <2>3, <3>4 DEF Tear
      <4>2. raw'[b] # 0 /\ deployed[p] # 0
        BY <2>1, <3>4 DEF Put, TypeOK, Items
      <4> QED
        BY <2>2, <4>1, <4>2 DEF Whole
    <3> QED
      BY <3>2, <3>3, <3>4
  <2> QED
    BY <2>2, <2>3 DEF EnrichInv, WholeInv, DiffInv, Phase1Enriches, OnePoller
<1>9. ASSUME NEW p \in Process, Reread(p) PROVE EnrichInv'
  BY <1>9 DEF EnrichInv, Reread, stored, Goto, WholeInv, Whole, Enriching, DiffInv, Unchanged, Phase1Enriches, Items, OnePoller, TypeOK, Enriched, Version
<1>10. ASSUME NEW p \in Process, WriteEnriched(p) PROVE EnrichInv'
  <2>1. /\ pc[p] = "enrich" /\ pc'[p] = "buildInfo"
        /\ buildings' = Put(buildings, changedIds[p], Enrichment(p))
        /\ torn' = torn \ changedIds[p]
        /\ UNCHANGED <<raw, deployed, allItems, changedIds, changedRawDocs>>
    BY <1>10 DEF WriteEnriched, Goto, locals, TypeOK
  <2>2. \A b \in changedIds[p] :
           /\ b \in Items(p) /\ raw[b] = allItems[p][b] /\ raw[b] # 0
           /\ buildings'[b] = [of |-> raw[b], by |-> deployed[p]]
    BY <2>1 DEF Put, Enrichment, EnrichInv, DiffInv, Items, TypeOK
  <2>3. \A b \in Building \ changedIds[p] : buildings'[b] = buildings[b]
    BY <2>1 DEF Put, TypeOK
  <2>4. \A b \in Building \ torn' : Whole(b)'
    <3> SUFFICES ASSUME NEW b \in Building \ torn' PROVE Whole(b)'
      OBVIOUS
    <3>1. CASE b \in changedIds[p]
      <4>1. deployed[p] # 0
        BY DEF TypeOK
      <4>2. raw'[b] # 0 /\ buildings'[b] = [of |-> raw'[b], by |-> deployed[p]]
        BY <2>1, <2>2, <3>1
      <4>3. buildings'[b].of = raw'[b] /\ buildings'[b].by = deployed[p]
        BY <4>2
      <4> QED
        BY <4>1, <4>2, <4>3 DEF Whole
    <3>2. CASE b \notin changedIds[p]
      BY <2>1, <2>3, <3>2 DEF EnrichInv, WholeInv, Whole, Enriching, OnePoller
    <3> QED
      BY <3>1, <3>2
  <2>5. ASSUME NEW b \in Items(p) \ torn'
        PROVE  buildings'[b] = [of |-> allItems[p][b], by |-> deployed[p]]
    <3>1. CASE b \in changedIds[p]
      BY <2>2, <3>1
    <3>2. CASE b \notin changedIds[p]
      <4>1. raw[b] = allItems[p][b] /\ buildings[b].by \in {0, deployed[p]} /\ raw[b] # 0
        BY <2>1, <2>5, <3>2 DEF EnrichInv, DiffInv, Unchanged, Items
      <4>2. buildings'[b].of = raw[b] /\ buildings'[b].by # 0 /\ buildings'[b] = buildings[b]
        BY <2>1, <2>3, <2>4, <2>5, <3>2, <4>1 DEF Whole, Items
      <4> QED
        BY <4>1, <4>2 DEF TypeOK, Enriched, Items
    <3> QED
      BY <3>1, <3>2
  <2> QED
    BY <2>1, <2>4, <2>5 DEF EnrichInv, WholeInv, DiffInv, Phase1Enriches, OnePoller, Items
<1>11. ASSUME NEW p \in Process, WriteEnrichedFails(p) PROVE EnrichInv'
  BY <1>11 DEF EnrichInv, WriteEnrichedFails, locals, Put, Enrichment, Goto, WholeInv, Whole, Enriching, DiffInv, Unchanged, Phase1Enriches, Items, OnePoller, TypeOK, Enriched, Version
<1>12. ASSUME NEW p \in Process, BuildInfoEnds(p) PROVE EnrichInv'
  BY <1>12 DEF EnrichInv, BuildInfoEnds, stored, locals, Goto, WholeInv, Whole, Enriching, DiffInv, Unchanged, Phase1Enriches, Items, OnePoller, TypeOK, Enriched, Version
<1>13. ASSUME NEW p \in Process, WriteInfoSpaces(p) PROVE EnrichInv'
  BY <1>13 DEF EnrichInv, WriteInfoSpaces, source, Goto, WholeInv, Whole, Enriching, DiffInv, Unchanged, Phase1Enriches, Items, OnePoller, TypeOK, Enriched, Version
<1>14. ASSUME NEW p \in Process, WriteInfoFails(p) PROVE EnrichInv'
  BY <1>14 DEF EnrichInv, WriteInfoFails, source, Goto, WholeInv, Whole, Enriching, DiffInv, Unchanged, Phase1Enriches, Items, OnePoller, TypeOK, Enriched, Version
<1>15. ASSUME NEW p \in Process, FetchSpaceList(p) PROVE EnrichInv'
  BY <1>15 DEF EnrichInv, FetchSpaceList, stored, Goto, WholeInv, Whole, Enriching, DiffInv, Unchanged, Phase1Enriches, Items, OnePoller, TypeOK, Enriched, Version
<1>16. ASSUME NEW p \in Process, WriteListSpaces(p) PROVE EnrichInv'
  BY <1>16 DEF EnrichInv, WriteListSpaces, source, Goto, WholeInv, Whole, Enriching, DiffInv, Unchanged, Phase1Enriches, Items, OnePoller, TypeOK, Enriched, Version
<1>17. ASSUME NEW p \in Process, WriteListFails(p) PROVE EnrichInv'
  BY <1>17 DEF EnrichInv, WriteListFails, source, Goto, WholeInv, Whole, Enriching, DiffInv, Unchanged, Phase1Enriches, Items, OnePoller, TypeOK, Enriched, Version
<1>18. ASSUME NEW p \in Process, DeleteStale(p) PROVE EnrichInv'
  BY <1>18 DEF EnrichInv, DeleteStale, locals, Goto, WholeInv, Whole, Enriching, DiffInv, Unchanged, Phase1Enriches, Items, OnePoller, TypeOK, Enriched, Version
<1>19. ASSUME NEW p \in Process, DeleteFails(p) PROVE EnrichInv'
  BY <1>19 DEF EnrichInv, DeleteFails, locals, Goto, WholeInv, Whole, Enriching, DiffInv, Unchanged, Phase1Enriches, Items, OnePoller, TypeOK, Enriched, Version
<1>20. ASSUME NEW p \in Process, ClearCache(p) PROVE EnrichInv'
  BY <1>20 DEF EnrichInv, ClearCache, stored, locals, Goto, WholeInv, Whole, Enriching, DiffInv, Unchanged, Phase1Enriches, Items, OnePoller, TypeOK, Enriched, Version
<1>21. ASSUME NEW p \in Process, RequestFails(p) PROVE EnrichInv'
  BY <1>21 DEF EnrichInv, RequestFails, stored, locals, Goto, WholeInv, Whole, Enriching, DiffInv, Unchanged, Phase1Enriches, Items, OnePoller, TypeOK, Enriched, Version
<1>22. ASSUME NEW p \in Process, Crash(p) PROVE EnrichInv'
  BY <1>22 DEF EnrichInv, Crash, stored, locals, Goto, WholeInv, Whole, Enriching, DiffInv, Unchanged, Phase1Enriches, Items, OnePoller, TypeOK, Enriched, Version
<1>23. ASSUME NEW p \in Process, NEW b \in Building, FetchBuildInfo(p, b) \/ BuildInfoFails(p, b) PROVE EnrichInv'
  BY <1>23, <1>1 DEF FetchBuildInfo, BuildInfoFails, stored
<1>24. CASE \/ \E b \in Building : ChangeBuilding(b)
            \/ \E s \in Space : ChangeSpace(s)
  BY <1>24, <1>1 DEF ChangeBuilding, ChangeSpace, stored, locals
<1>25. CASE UNCHANGED vars
  BY <1>25, <1>1 DEF vars
<1> QED
  BY <1>2, <1>3, <1>4, <1>5, <1>6, <1>7, <1>8, <1>9, <1>10, <1>11, <1>12, <1>13, <1>14, <1>15, <1>16, <1>17, <1>18, <1>19, <1>20, <1>21, <1>22, <1>23, <1>24, <1>25 DEF Next, SyncStep, FaultStep

\* When phase 1 is through, every building it was given is stored and enriched as it
\* was given and by this build, whatever failed before, but for buildings that an
\* earlier sync tore between its two writes.
THEOREM Phase1IsThorough == OnePoller => (Spec => []Phase1Enriches)
<1> SUFFICES ASSUME OnePoller PROVE Spec => []Phase1Enriches
  OBVIOUS
<1>1. Init => TypeOK /\ EnrichInv
  BY TypeInit DEF Init, EnrichInv, WholeInv, Whole, DiffInv, Phase1Enriches, Nothing
<1>2. TypeOK /\ EnrichInv /\ [Next]_vars => (TypeOK /\ EnrichInv)'
  BY TypeStep, EnrichStep
<1>3. EnrichInv => Phase1Enriches
  BY DEF EnrichInv
<1> QED
  BY <1>1, <1>2, <1>3, PTL DEF Spec
=============================================================================
