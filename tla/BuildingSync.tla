---------------------------- MODULE BuildingSync ----------------------------
(***************************************************************************)
(* syncBuildings: the weekly crawl of the university's campus map into     *)
(* three collections.  Phase 1 stores the raw buildings, and enriches      *)
(* those whose date changed; phase 2 asks for each building's details,     *)
(* which name some of its spaces; phase 3 stores the list of all spaces    *)
(* and deletes those this sync has not met.  A process starts a sync when  *)
(* it boots and then once a week; two of them run during a fail-over.      *)
(*                                                                         *)
(* Times: a sync stamps what it writes with its start (syncTime).  Stamps  *)
(* are kept as ages counted in syncs begun since, up to MaxAge.  A bulk    *)
(* write is unordered: when it fails, any part of it has been applied.     *)
(* Versions of a building stand for its SKKU update date; texts, pictures, *)
(* attachments and sync.* marks, which nothing here reads, are left out.   *)
(***************************************************************************)
EXTENDS Integers, FiniteSets

CONSTANTS
    Process,       \* pollers that may run
    Building,
    WithBuildNo,   \* the buildings that are no facilities: they have details
    Space,
    BuildingOf,    \* the building in whose details a space appears
    InInfo,        \* the spaces that appear in buildInfo
    InList,        \* the spaces that appear in spaceList
    MinBuildings,  \* MIN_BUILDINGS
    MinSpaces,     \* MIN_SPACES
    MaxVersion,    \* bound: changes of a building
    MaxCode,       \* bound: values of ENRICH_VERSION
    MaxAge,        \* bound: syncs that begin while one runs, plus one
    MaxFaults      \* bound: failed requests and writes, short answers, crashes

ASSUME SyncAssumption ==
    /\ WithBuildNo \subseteq Building
    /\ BuildingOf \in [Space -> WithBuildNo]
    /\ InInfo \subseteq Space /\ InList \subseteq Space
    /\ MinBuildings \in Nat /\ MinSpaces \in Nat
    /\ MaxVersion \in Nat /\ MaxCode \in Nat \ {0}
    /\ MaxAge \in Nat \ {0} /\ MaxFaults \in Nat

VARIABLES
    \* the university's site
    listed,          \* version of each building, 0 before it is listed
    offered,         \* the spaces: "new" (not yet there), "offered", "dropped"
    \* the database
    raw,             \* skkuUpdatedAt of the raw layer, 0: no document
    buildings,       \* the enriched layer: version, and ENRICH_VERSION (0: none)
    spaces,          \* age of syncedAt, or Gone
    \* each process
    deployed,        \* its ENRICH_VERSION
    pc,
    age,             \* age of its syncTime
    allItems,        \* phase 1's answer: version of each building, 0: not in it
    changedIds,
    changedRawDocs,  \* version of each raw document read again
    todo,            \* buildings whose details are still to be asked for
    spacesOps,       \* spaces to upsert
    met,             \* spaces this sync has upserted
    \* for the properties only
    torn,            \* buildings whose enrichment was lost after their raw write
    partial,         \* some answer of this sync was missing or short
    faults

source  == <<listed, offered>>
stored  == <<raw, buildings, spaces>>
locals  == <<age, allItems, changedIds, changedRawDocs, todo, spacesOps, met>>
vars == <<listed, offered, raw, buildings, spaces, deployed, pc, age, allItems,
          changedIds, changedRawDocs, todo, spacesOps, met, torn, partial, faults>>

Gone == -1
Version == 0 .. MaxVersion
Enriched == [of : Version, by : 0 .. MaxCode]
PC == {"idle", "buildList", "readRaw", "readStale", "writeRaw", "reread",
       "enrich", "buildInfo", "writeInfo", "spaceList", "writeList", "delete",
       "clearCache"}

TypeOK ==
    /\ listed \in [Building -> Version]
    /\ offered \in [Space -> {"new", "offered", "dropped"}]
    /\ raw \in [Building -> Version]
    /\ buildings \in [Building -> Enriched]
    /\ spaces \in [Space -> Gone .. MaxAge]
    /\ deployed \in [Process -> 1 .. MaxCode]
    /\ pc \in [Process -> PC]
    /\ age \in [Process -> 0 .. MaxAge - 1]
    /\ allItems \in [Process -> [Building -> Version]]
    /\ changedIds \in [Process -> SUBSET Building]
    /\ changedRawDocs \in [Process -> [Building -> Version]]
    /\ todo \in [Process -> SUBSET WithBuildNo]
    /\ spacesOps \in [Process -> SUBSET Space]
    /\ met \in [Process -> SUBSET Space]
    /\ torn \subseteq Building
    /\ partial \in [Process -> BOOLEAN]
    /\ faults \in 0 .. MaxFaults

Nothing == [b \in Building |-> 0]

Init ==
    /\ listed = Nothing
    /\ offered = [s \in Space |-> "new"]
    /\ raw = Nothing
    /\ buildings = [b \in Building |-> [of |-> 0, by |-> 0]]
    /\ spaces = [s \in Space |-> Gone]
    /\ deployed = [p \in Process |-> 1]
    /\ pc = [p \in Process |-> "idle"]
    /\ age = [p \in Process |-> 0]
    /\ allItems = [p \in Process |-> Nothing]
    /\ changedIds = [p \in Process |-> {}]
    /\ changedRawDocs = [p \in Process |-> Nothing]
    /\ todo = [p \in Process |-> {}]
    /\ spacesOps = [p \in Process |-> {}]
    /\ met = [p \in Process |-> {}]
    /\ torn = {}
    /\ partial = [p \in Process |-> FALSE]
    /\ faults = 0

-----------------------------------------------------------------------------
(* Operators *)

Offered == {s \in Space : offered[s] = "offered"}
Items(p) == {b \in Building : allItems[p][b] # 0}
InfoSpaces(b) == {s \in Offered \cap InInfo : BuildingOf[s] = b}

\* f with g's values on S.
Put(f, S, g) == [x \in DOMAIN f |-> IF x \in S THEN g[x] ELSE f[x]]

\* The items whose details are asked for.
AllDetailed(p) == Items(p)   \* wrong: facilities, too
Detailed(p) == Items(p) \cap WithBuildNo

\* The update date differs from the stored one, or there is none stored.
NewlyListed(p) == {b \in Items(p) : raw[b] = 0}   \* wrong: only new buildings
Changed(p) == {b \in Items(p) : raw[b] # allItems[p][b]}

\* Enriched documents written by another ENRICH_VERSION.
StaleEnriched(p) ==
    {b \in Building : buildings[b].by # 0 /\ buildings[b].by # deployed[p]}

\* syncedAt < syncTime, for the spaces stored.
StaleOrEqual(p) == {s \in Space : spaces[s] >= age[p]}   \* wrong: $lte
NoneStale(p) == {}                                       \* wrong: no delete
Stale(p) == {s \in Space : spaces[s] > age[p]}

Goto(p, label) == pc' = [pc EXCEPT ![p] = label]
Fault == faults < MaxFaults /\ faults' = faults + 1
NoFault == UNCHANGED faults
Short(p) == partial' = [partial EXCEPT ![p] = TRUE]

\* The raw versions of these buildings are stored, their enrichment never came.
Tear(p, B) ==
    torn' = torn \cup {b \in B : buildings[b] # [of |-> raw'[b], by |-> deployed[p]]}

-----------------------------------------------------------------------------
(* External: the site, and deployments *)

ChangeBuilding(b) ==
    /\ listed[b] < MaxVersion
    /\ listed' = [listed EXCEPT ![b] = @ + 1]
    /\ UNCHANGED <<offered, stored, deployed, pc, locals, torn, partial, faults>>

\* A space appears, and may be given up for good.
ChangeSpace(s) ==
    /\ offered[s] # "dropped"
    /\ offered' = [offered EXCEPT ![s] = IF @ = "new" THEN "offered" ELSE "dropped"]
    /\ UNCHANGED <<listed, stored, deployed, pc, locals, torn, partial, faults>>

\* A new build with a higher ENRICH_VERSION.
Deploy(p) ==
    /\ pc[p] = "idle"
    /\ deployed[p] < MaxCode
    /\ deployed' = [deployed EXCEPT ![p] = @ + 1]
    /\ UNCHANGED <<source, stored, pc, locals, torn, partial, faults>>

-----------------------------------------------------------------------------
(* Phase 1 *)

\* At boot or on the weekly tick; the poller registry runs one at a time.
\* Every stamp there is grows older by one sync.
StartSync(p) ==
    /\ pc[p] = "idle"
    /\ \A q \in Process : pc[q] # "idle" => age[q] + 1 < MaxAge
    /\ Goto(p, "buildList")
    /\ age' = [q \in Process |-> IF q = p \/ pc[q] = "idle" THEN 0 ELSE age[q] + 1]
    /\ spaces' = [s \in Space |-> IF spaces[s] \in 0 .. MaxAge - 1
                                  THEN spaces[s] + 1 ELSE spaces[s]]
    /\ allItems' = [allItems EXCEPT ![p] = Nothing]
    /\ changedIds' = [changedIds EXCEPT ![p] = {}]
    /\ changedRawDocs' = [changedRawDocs EXCEPT ![p] = Nothing]
    /\ spacesOps' = [spacesOps EXCEPT ![p] = {}]
    /\ todo' = [todo EXCEPT ![p] = {}]
    /\ met' = [met EXCEPT ![p] = {}]
    /\ partial' = [partial EXCEPT ![p] = FALSE]
    /\ UNCHANGED <<source, raw, buildings, deployed, torn, faults>>

\* buildList of both campuses.  The answer may lack buildings; with too few
\* the sync ends.
FetchBuildList(p) ==
    /\ pc[p] = "buildList"
    /\ \E B \in SUBSET {b \in Building : listed[b] # 0} :
          /\ IF \A b \in Building : listed[b] # 0 => b \in B
             THEN NoFault /\ UNCHANGED partial
             ELSE Fault /\ Short(p)
          /\ allItems' = [allItems EXCEPT ![p] =
                            [b \in Building |-> IF b \in B THEN listed[b] ELSE 0]]
          /\ Goto(p, IF Cardinality(B) < MinBuildings THEN "idle" ELSE "readRaw")
    /\ UNCHANGED <<source, stored, deployed, age, changedIds, changedRawDocs,
                   todo, spacesOps, met, torn>>

ReadRaw(p) ==
    /\ pc[p] = "readRaw"
    /\ changedIds' = [changedIds EXCEPT ![p] = Changed(p)]
    /\ Goto(p, "readStale")
    /\ UNCHANGED <<source, stored, deployed, age, allItems, changedRawDocs,
                   todo, spacesOps, met, torn, partial, faults>>

ReadStale(p) ==
    /\ pc[p] = "readStale"
    /\ changedIds' = [changedIds EXCEPT ![p] = @ \cup (StaleEnriched(p) \cap Items(p))]
    /\ Goto(p, "writeRaw")
    /\ UNCHANGED <<source, stored, deployed, age, allItems, changedRawDocs,
                   todo, spacesOps, met, torn, partial, faults>>

WriteRaw(p) ==
    /\ pc[p] = "writeRaw"
    /\ raw' = Put(raw, Items(p), allItems[p])
    /\ Goto(p, IF changedIds[p] = {} THEN "buildInfo" ELSE "reread")
    /\ todo' = [todo EXCEPT ![p] = Detailed(p)]
    /\ UNCHANGED <<source, buildings, spaces, deployed, age, allItems, changedIds,
                   changedRawDocs, spacesOps, met, torn, partial, faults>>

\* A bulk write that fails applies a part of itself and ends the sync.
WriteRawFails(p) ==
    /\ pc[p] = "writeRaw"
    /\ Fault
    /\ \E B \in SUBSET Items(p) :
          /\ raw' = Put(raw, B, allItems[p])
          /\ Tear(p, B \cap changedIds[p])
    /\ Goto(p, "idle")
    /\ UNCHANGED <<source, buildings, spaces, deployed, locals, partial>>

Reread(p) ==
    /\ pc[p] = "reread"
    /\ changedRawDocs' = [changedRawDocs EXCEPT ![p] =
                            [b \in Building |-> IF b \in changedIds[p] THEN raw[b] ELSE 0]]
    /\ Goto(p, "enrich")
    /\ UNCHANGED <<source, stored, deployed, age, allItems, changedIds, todo,
                   spacesOps, met, torn, partial, faults>>

\* Upserts the enrichment of the documents read.
Enrichment(p) ==
    [b \in Building |-> [of |-> changedRawDocs[p][b], by |-> deployed[p]]]

WriteEnriched(p) ==
    /\ pc[p] = "enrich"
    /\ buildings' = Put(buildings, changedIds[p], Enrichment(p))
    /\ torn' = torn \ changedIds[p]
    /\ Goto(p, "buildInfo")
    /\ UNCHANGED <<source, raw, spaces, deployed, locals, partial, faults>>

WriteEnrichedFails(p) ==
    /\ pc[p] = "enrich"
    /\ Fault
    /\ \E B \in SUBSET changedIds[p] :
          /\ buildings' = Put(buildings, B, Enrichment(p))
          /\ torn' = (torn \ B) \cup (changedIds[p] \ B)
    /\ Goto(p, "idle")
    /\ UNCHANGED <<source, raw, spaces, deployed, locals, partial>>

-----------------------------------------------------------------------------
(* Phase 2 *)

\* One building's details; its spaces are collected.
FetchBuildInfo(p, b) ==
    /\ pc[p] = "buildInfo"
    /\ b \in todo[p]
    /\ spacesOps' = [spacesOps EXCEPT ![p] = @ \cup InfoSpaces(b)]
    /\ todo' = [todo EXCEPT ![p] = @ \ {b}]
    /\ UNCHANGED <<source, stored, deployed, pc, age, allItems, changedIds,
                   changedRawDocs, met, torn, partial, faults>>

\* The request, or the write of the attachments, fails: an error is noted and
\* the sync goes on without the building's spaces.
BuildInfoFails(p, b) ==
    /\ pc[p] = "buildInfo"
    /\ b \in todo[p]
    /\ Fault
    /\ Short(p)
    /\ todo' = [todo EXCEPT ![p] = @ \ {b}]
    /\ UNCHANGED <<source, stored, deployed, pc, age, allItems, changedIds,
                   changedRawDocs, spacesOps, met, torn>>

BuildInfoEnds(p) ==
    /\ pc[p] = "buildInfo"
    /\ todo[p] = {}
    /\ Goto(p, "writeInfo")
    /\ UNCHANGED <<source, stored, deployed, locals, torn, partial, faults>>

\* Upserts the spaces collected with this sync's stamp.
Stamp(p, S) ==
    /\ spaces' = Put(spaces, S, [s \in S |-> age[p]])
    /\ met' = [met EXCEPT ![p] = @ \cup S]

WriteInfoSpaces(p) ==
    /\ pc[p] = "writeInfo"
    /\ Stamp(p, spacesOps[p])
    /\ Goto(p, "spaceList")
    /\ UNCHANGED <<source, raw, buildings, deployed, age, allItems, changedIds,
                   changedRawDocs, todo, spacesOps, torn, partial, faults>>

\* Phase 2 fails, phase 3 runs all the same.
WriteInfoFails(p) ==
    /\ pc[p] = "writeInfo"
    /\ Fault
    /\ Short(p)
    /\ \E S \in SUBSET spacesOps[p] : Stamp(p, S)
    /\ Goto(p, "spaceList")
    /\ UNCHANGED <<source, raw, buildings, deployed, age, allItems, changedIds,
                   changedRawDocs, todo, spacesOps, torn>>

-----------------------------------------------------------------------------
(* Phase 3 *)

\* spaceList of both campuses; the answer may lack spaces.
FetchSpaceList(p) ==
    /\ pc[p] = "spaceList"
    /\ \E S \in SUBSET (Offered \cap InList) :
          /\ IF S = Offered \cap InList THEN NoFault /\ UNCHANGED partial
                                        ELSE Fault /\ Short(p)
          /\ spacesOps' = [spacesOps EXCEPT ![p] = S]
    /\ Goto(p, "writeList")
    /\ UNCHANGED <<source, stored, deployed, age, allItems, changedIds,
                   changedRawDocs, todo, met, torn>>

WriteListSpaces(p) ==
    /\ pc[p] = "writeList"
    /\ Stamp(p, spacesOps[p])
    /\ Goto(p, IF Cardinality(spacesOps[p]) < MinSpaces THEN "clearCache" ELSE "delete")
    /\ UNCHANGED <<source, raw, buildings, deployed, age, allItems, changedIds,
                   changedRawDocs, todo, spacesOps, torn, partial, faults>>

\* Wrong: the stale delete follows a write that failed.
WriteListGoesOn(p) ==
    /\ pc[p] = "writeList"
    /\ Fault
    /\ \E S \in SUBSET spacesOps[p] : Stamp(p, S)
    /\ Goto(p, "delete")
    /\ UNCHANGED <<source, raw, buildings, deployed, age, allItems, changedIds,
                   changedRawDocs, todo, spacesOps, torn, partial>>

\* Phase 3 fails: no stale delete.
WriteListFails(p) ==
    /\ pc[p] = "writeList"
    /\ Fault
    /\ \E S \in SUBSET spacesOps[p] : Stamp(p, S)
    /\ Goto(p, "clearCache")
    /\ UNCHANGED <<source, raw, buildings, deployed, age, allItems, changedIds,
                   changedRawDocs, todo, spacesOps, torn, partial>>

DeleteStale(p) ==
    /\ pc[p] = "delete"
    /\ spaces' = Put(spaces, Stale(p), [s \in Space |-> Gone])
    /\ Goto(p, "clearCache")
    /\ UNCHANGED <<source, raw, buildings, deployed, locals, torn, partial, faults>>

DeleteFails(p) ==
    /\ pc[p] = "delete"
    /\ Fault
    /\ \E S \in SUBSET Stale(p) : spaces' = Put(spaces, S, [s \in S |-> Gone])
    /\ Goto(p, "clearCache")
    /\ UNCHANGED <<source, raw, buildings, deployed, locals, torn, partial>>

\* clearCache() drops this process's building lists (see CachedLoader).
ClearCache(p) ==
    /\ pc[p] = "clearCache"
    /\ Goto(p, "idle")
    /\ UNCHANGED <<source, stored, deployed, locals, torn, partial, faults>>

-----------------------------------------------------------------------------
(* Failures anywhere else *)

\* A request for a list or a database read fails: in phase 1 the sync ends, in
\* phase 3 only the rest of the phase is skipped.
RequestFails(p) ==
    /\ pc[p] \in {"buildList", "readRaw", "readStale", "reread", "spaceList"}
    /\ Fault
    /\ Goto(p, IF pc[p] = "spaceList" THEN "clearCache" ELSE "idle")
    /\ torn' = IF pc[p] = "reread" THEN torn \cup changedIds[p] ELSE torn
    /\ UNCHANGED <<source, stored, deployed, locals, partial>>

\* The process dies.  (In the middle of a bulk write: the write fails, and then
\* the process dies.)
Crash(p) ==
    /\ pc[p] # "idle"
    /\ Fault
    /\ torn' = IF pc[p] \in {"reread", "enrich"} THEN torn \cup changedIds[p] ELSE torn
    /\ Goto(p, "idle")
    /\ UNCHANGED <<source, stored, deployed, locals, partial>>

-----------------------------------------------------------------------------
SyncStep(p) ==
    \/ FetchBuildList(p) \/ ReadRaw(p) \/ ReadStale(p) \/ WriteRaw(p)
    \/ Reread(p) \/ WriteEnriched(p)
    \/ \E b \in Building : FetchBuildInfo(p, b)
    \/ BuildInfoEnds(p) \/ WriteInfoSpaces(p)
    \/ FetchSpaceList(p) \/ WriteListSpaces(p) \/ DeleteStale(p) \/ ClearCache(p)

FaultStep(p) ==
    \/ WriteRawFails(p) \/ WriteEnrichedFails(p)
    \/ \E b \in Building : BuildInfoFails(p, b)
    \/ WriteInfoFails(p) \/ WriteListFails(p) \/ DeleteFails(p)
    \/ RequestFails(p) \/ Crash(p)

Next ==
    \/ \E b \in Building : ChangeBuilding(b)
    \/ \E s \in Space : ChangeSpace(s)
    \/ \E p \in Process : Deploy(p) \/ StartSync(p) \/ SyncStep(p) \/ FaultStep(p)

Spec == Init /\ [][Next]_vars

\* setInterval starts a sync every week for ever, and a sync goes on: requests
\* have a timeout of 30 s.  Faults are bounded, so they end.
FairSpec ==
    /\ Spec
    /\ \A p \in Process : WF_vars(StartSync(p)) /\ WF_vars(SyncStep(p))

-----------------------------------------------------------------------------
(* Properties *)

\* What a sync has upserted is still there when it is through: its own stale
\* delete takes nothing it met.  (With one poller at a time.)
MetSpacesKept ==
    \A p \in Process : pc[p] = "clearCache" => \A s \in met[p] : spaces[s] # Gone

\* A space the university still offers disappears only in a sync one of whose
\* answers was missing or short.
LiveSpacesKept ==
    [][\A s \in Space :
          spaces[s] # Gone /\ spaces'[s] = Gone /\ offered[s] = "offered" =>
              \E p \in Process : partial[p]]_vars

\* When phase 1 is through, every building it was given is enriched, in the
\* version it was given and by this build - except those whose enrichment was
\* once lost after their raw document was written.
Phase1Enriches ==
    \A p \in Process : pc[p] = "buildInfo" =>
        \A b \in Items(p) \ torn :
            buildings[b] = [of |-> allItems[p][b], by |-> deployed[p]]

\* "Bump this when enrichment logic changes to trigger re-enrichment of all
\* buildings": after a bump, phase 1 leaves no building it was given without
\* the enrichment of this build.
BumpReenrichesAll ==
    \A p \in Process : pc[p] = "buildInfo" /\ deployed[p] > 1 =>
        \A b \in Items(p) : buildings[b].by = deployed[p]

SourceAtRest == <>[][UNCHANGED source]_vars

\* Once the site is at rest, has enough spaces for a delete and requests
\* succeed again, the stored spaces are the ones offered, and every building
\* whose enrichment was not lost is stored and enriched as listed.
Converges ==
    SourceAtRest /\ <>[](/\ Cardinality(Offered \cap InList) >= MinSpaces
                         /\ Cardinality({b \in Building : listed[b] # 0}) >= MinBuildings
                         /\ \A s \in Offered : listed[BuildingOf[s]] # 0)
      => <>[](/\ {s \in Space : spaces[s] # Gone} = Offered
              /\ raw = listed
              /\ \A b \in Building \ torn : buildings[b].of = listed[b])
=============================================================================
