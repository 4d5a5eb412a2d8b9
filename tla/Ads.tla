---------------------------------- MODULE Ads ----------------------------------
(***************************************************************************)
(* The banners of the app: ad.data.ts, ad-data.service.ts, ad.controller.ts*)
(* and ad.stats.ts.  Every process keeps the ads it picked for a minute;   *)
(* requests that find them old read the collection side by side.  What a   *)
(* read found and when it is kept are two steps: the database may have     *)
(* answered one long before another that was asked later, and an older     *)
(* answer may come, and replace what is kept, after a newer one.  At its   *)
(* start a process makes sure of the unique index, and fills an empty      *)
(* collection.                                                             *)
(*                                                                         *)
(* An ad is known by its place in `ads`, where a removed one stays behind  *)
(* as gone; it is [placement, name, weight, startDate, endDate, enabled,   *)
(* gone, changed], changed being when it was last switched.  A client asks *)
(* for all placements, or reports an event of one.                         *)
(***************************************************************************)
EXTENDS Integers, Sequences

CONSTANTS Null, Process, Client,
    SeedAds, OwnAds,        \* ads as above
    CacheTtl, MaxClock,
    MaxEdits                \* of ops: an ad added, switched or removed

Placement == {"splash", "main_notice"}
FALLBACK_PLACEMENTS == [p \in Placement |-> Null]   \* no ad of the collection
FallbackEnabled == {"splash"}

VARIABLES
    clock, edits,
    ads, indexed,    \* the collection and its unique index (placement, name)
    start,           \* how far each process has come
    cache,           \* of each process: Null or [pick, since]
    reading,         \* of each client whose request reads: [process, now, pick], or
                     \* Null; pick is Null until the database has evaluated the query
    answer           \* the last one: [asked, failed, pick], or Null

adsVars == <<clock, edits, ads, indexed, start, cache, reading, answer>>

AdsInit ==
    /\ clock = 0 /\ edits = 0 /\ ads = <<>> /\ indexed = FALSE
    /\ start = [p \in Process |-> [at |-> "index", left |-> {}]]
    /\ cache = [p \in Process |-> Null]
    /\ reading = [c \in Client |-> Null]
    /\ answer = Null

-----------------------------------------------------------------------------
(* The collection *)

Present == {i \in DOMAIN ads : ~ads[i].gone}
Taken(ad) == \E i \in Present : ads[i].placement = ad.placement /\ ads[i].name = ad.name
NeverRefused(ad) == FALSE   \* wrong: an index that is not unique
Refused(ad) == indexed /\ Taken(ad)
Unique == \A i, j \in Present :
    ads[i].placement = ads[j].placement /\ ads[i].name = ads[j].name => i = j
Stored(ad) == [ad EXCEPT !.changed = clock]

\* The query of getPlacements: enabled, and inside its window at nowDate.
Live(ad, nowDate) ==
    /\ ad.enabled /\ ~ad.gone
    /\ ad.startDate = Null \/ ad.startDate <= nowDate
    /\ ad.endDate = Null \/ ad.endDate >= nowDate

Edit ==
    /\ edits < MaxEdits /\ edits' = edits + 1
    /\ \/ \E ad \in OwnAds : ~Refused(ad) /\ ads' = Append(ads, Stored(ad))
       \/ \E i \in Present : ads' = [ads EXCEPT ![i] = Stored([@ EXCEPT !.enabled = ~ads[i].enabled])]
       \/ \E i \in Present : ads' = [ads EXCEPT ![i] = Stored([@ EXCEPT !.gone = TRUE])]
    /\ UNCHANGED <<clock, indexed, start, cache, reading, answer>>

-----------------------------------------------------------------------------
(* The start of a process: ensureIndexes, then seedIfEmpty; whatever fails *)
(* is logged, and the process serves.                                      *)
At(p, state, left) == start' = [start EXCEPT ![p] = [at |-> state, left |-> left]]

EnsureIndexes(p) ==
    /\ start[p].at = "index"
    /\ \/ (indexed \/ Unique) /\ indexed' = TRUE /\ At(p, "count", {})
       \/ UNCHANGED indexed /\ At(p, "ready", {})
    /\ UNCHANGED <<clock, edits, ads, cache, reading, answer>>

\* countDocuments, and insertMany if there is none.
SeedIfEmpty(p) ==
    /\ start[p].at = "count"
    /\ IF Present = {} THEN At(p, "seed", SeedAds) ELSE At(p, "ready", {})
    /\ UNCHANGED <<clock, edits, ads, indexed, cache, reading, answer>>

\* ordered: false - a refused document does not stop the others.
InsertSeed(p) ==
    /\ start[p].at = "seed"
    /\ IF start[p].left = {} THEN At(p, "ready", {}) /\ UNCHANGED ads
       ELSE \E ad \in start[p].left :
               /\ At(p, "seed", start[p].left \ {ad})
               /\ ads' = IF Refused(ad) THEN ads ELSE Append(ads, Stored(ad))
    /\ UNCHANGED <<clock, edits, indexed, cache, reading, answer>>

Restart(p) ==
    /\ edits < MaxEdits /\ edits' = edits + 1
    /\ At(p, "index", {})
    /\ cache' = [cache EXCEPT ![p] = Null]
    /\ reading' = [c \in Client |-> IF reading[c] # Null /\ reading[c].process = p
                                    THEN Null ELSE reading[c]]
    /\ UNCHANGED <<clock, ads, indexed, answer>>

-----------------------------------------------------------------------------
(* getPlacements *)

\* weightedRandomSelect, over the ads of a placement in the order they were read.
Selectable(found, placement) ==
    LET candidates == {i \in found : ads[i].placement = placement}
        weighing == {i \in candidates : ads[i].weight > 0}
    IN IF weighing = {} THEN {i \in candidates : \A j \in candidates : i <= j} ELSE weighing
Picks(found) ==
    LET placements == {ads[i].placement : i \in found}
    IN IF found = {} THEN {FALLBACK_PLACEMENTS}
       ELSE {pick \in [placements -> found] :
                \A p \in placements : pick[p] \in Selectable(found, p)}

\* What a client gets of a pick: the enabled placements; or its event is recorded
\* (recordEvent) under the ad of the placement it names, and refused if none is there.
Shown(pick) ==
    IF pick = FALLBACK_PLACEMENTS THEN [p \in FallbackEnabled |-> Null] ELSE pick
Recorded(pick, placement) ==
    {[placement |-> p, adId |-> pick[p]] : p \in {placement} \cap DOMAIN pick}

Respond(asked, pick, failed) == answer' = [asked |-> asked, failed |-> failed, pick |-> pick]

Fresh(p, now) == cache[p] # Null /\ now - cache[p].since < CacheTtl

\* The time is taken before the read, and kept with what the read brings.
AskAds(c, p) ==
    /\ reading[c] = Null /\ start[p].at = "ready"
    /\ IF Fresh(p, clock) THEN Respond(clock, cache[p].pick, FALSE) /\ UNCHANGED reading
       ELSE /\ reading' = [reading EXCEPT ![c] = [process |-> p, now |-> clock, pick |-> Null]]
            /\ UNCHANGED answer
    /\ UNCHANGED <<clock, edits, ads, indexed, start, cache>>

\* The database evaluates the query: what is switched from here on is not in it.
FindAds(c) ==
    /\ reading[c] # Null /\ reading[c].pick = Null
    /\ \E pick \in Picks({i \in DOMAIN ads : Live(ads[i], reading[c].now)}) :
          reading' = [reading EXCEPT ![c].pick = pick]
    /\ UNCHANGED <<clock, edits, ads, indexed, start, cache, answer>>

SinceAnswered(r) == clock   \* wrong: the minute counts from the answer
SinceAsked(r) == r.now

\* toArray() comes back: whatever was kept meanwhile is replaced.
Keep(c) ==
    /\ reading[c] # Null /\ reading[c].pick # Null
    /\ LET r == reading[c]
       IN /\ cache' = [cache EXCEPT ![r.process] = [pick |-> r.pick, since |-> SinceAsked(r)]]
          /\ Respond(r.now, r.pick, FALSE)
    /\ reading' = [reading EXCEPT ![c] = Null]
    /\ UNCHANGED <<clock, edits, ads, indexed, start>>

\* The read fails, evaluated or not: what was kept, however old, else the fallback.
ReadFails(c) ==
    /\ reading[c] # Null
    /\ LET kept == cache[reading[c].process]
       IN Respond(reading[c].now, IF kept # Null THEN kept.pick ELSE FALLBACK_PLACEMENTS, TRUE)
    /\ reading' = [reading EXCEPT ![c] = Null]
    /\ UNCHANGED <<clock, edits, ads, indexed, start, cache>>

Tick == /\ clock < MaxClock /\ clock' = clock + 1
        /\ UNCHANGED <<edits, ads, indexed, start, cache, reading, answer>>

AdsNext ==
    \/ Tick \/ Edit
    \/ \E p \in Process : EnsureIndexes(p) \/ SeedIfEmpty(p) \/ InsertSeed(p) \/ Restart(p)
    \/ \E c \in Client : (\E p \in Process : AskAds(c, p)) \/ FindAds(c) \/ Keep(c) \/ ReadFails(c)

AdsSpec == AdsInit /\ [][AdsNext]_adsVars

-----------------------------------------------------------------------------
Ad == [placement : Placement, name : STRING, weight : Int, startDate : Nat \cup {Null},
       endDate : Nat \cup {Null}, enabled : BOOLEAN, gone : BOOLEAN, changed : Nat]
Pick == UNION {[S -> Nat \cup {Null}] : S \in SUBSET Placement}

AdsTypeOK ==
    /\ clock \in Nat /\ edits \in Nat
    /\ ads \in Seq(Ad) /\ indexed \in BOOLEAN
    /\ start \in [Process -> [at : {"index", "count", "seed", "ready"}, left : SUBSET SeedAds]]
    /\ cache \in [Process -> {Null} \cup [pick : Pick, since : Nat]]
    /\ reading \in [Client -> {Null} \cup [process : Process, now : Nat, pick : Pick \cup {Null}]]
    /\ answer \in {Null} \cup [asked : Nat, failed : BOOLEAN, pick : Pick]

\* An answer whose read did not fail is a minute old at most, whatever reads
\* overlapped: its ads were on within that minute, each in its placement, and an ad
\* that was on all the minute has its placement filled.  So has a reported event.
Within(asked) == asked - CacheTtl + 1 .. asked
InWindow(ad, t) == /\ ad.startDate = Null \/ ad.startDate <= t
                   /\ ad.endDate = Null \/ ad.endDate >= t
WasOn(i, placement, asked) ==
    /\ ads[i].placement = placement
    /\ (ads[i].enabled /\ ~ads[i].gone) \/ ads[i].changed >= asked - CacheTtl + 1
    /\ \E t \in Within(asked) : InWindow(ads[i], t)
OnThroughout(ad, asked) ==
    /\ ad.enabled /\ ~ad.gone /\ ad.changed <= asked - CacheTtl
    /\ \A t \in Within(asked) : InWindow(ad, t)
AdsOfTheMinute ==
    answer # Null /\ ~answer.failed =>
        LET shown == Shown(answer.pick)
        IN /\ \A p \in DOMAIN shown : shown[p] # Null => WasOn(shown[p], p, answer.asked)
           /\ \A p \in Placement : \A e \in Recorded(answer.pick, p) :
                 e.adId # Null => WasOn(e.adId, e.placement, answer.asked)
           /\ \A i \in DOMAIN ads : OnThroughout(ads[i], answer.asked) =>
                 ads[i].placement \in DOMAIN shown /\ shown[ads[i].placement] # Null

\* Processes that start together fill the collection once.
SeededOnce == indexed => Unique

\* An ad is shown within a minute of being switched on and no longer than a minute
\* after it was switched off, but for failing reads, however reads overlap; and the
\* default ads are there once, however many processes start together.
AdsAsSwitched == AdsOfTheMinute /\ SeededOnce
=============================================================================
