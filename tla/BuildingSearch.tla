--------------------------- MODULE BuildingSearch ---------------------------
(***************************************************************************)
(* The search for buildings and rooms (building.search.ts), the groups the *)
(* route makes of the rooms it finds, and the page of a building: its      *)
(* rooms by floor, and the passages to other buildings.  The query is      *)
(* fixed: a field of a document is how the query occurs in it, at best in  *)
(* either language (in none, if it is no string).  spaceCd is the place of *)
(* the room's code in the order of codes.                                  *)
(***************************************************************************)
EXTENDS Integers, FiniteSets, SequencesExt, FiniteSetsExt, Sift

CONSTANTS None,
    SPACE_SEARCH_LIMIT, SPACE_WEAK_LIMIT, BUILDING_SEARCH_LIMIT, BUILDING_WEAK_LIMIT

Occurrence == {"exact", "prefix", "inside", "none"}
Campuses == {"hssc", "nsc"}
\* A floor's name counts from the ground or the roof, or is another, the n-th of those.
Floor == [kind : {"basement", "floor", "rooftop"}, n : 1 .. 999]
         \cup [kind : {"other"}, n : Nat]

\* A room is in a numbered building, and a passage joins two buildings; no building
\* is listed twice.
IsRooms(docs) == IsFiniteSet(docs) /\ \A d \in docs : d.buildNo # None /\ d.floor \in Floor
IsBuildings(buildings) ==
    /\ IsFiniteSet(buildings) /\ \A b \in buildings : b._id \in Nat
    /\ \A b, c \in buildings : b._id = c._id => b = c
IsPassages(list) == \A c \in list : c.a # c.b

(* tierRegex *)
TierMatches(mode, how) ==
    CASE mode = "exact" -> how = "exact"
      [] mode = "prefix" -> how \in {"exact", "prefix"}
      [] mode = "substring" -> how # "none"

Tier(score, path, mode) == [score |-> score, path |-> path, mode |-> mode]
SPACE_TIERS ==
    << Tier(60, "code", "exact"), Tier(50, "code", "prefix"),
       Tier(40, "buildingName", "prefix"), Tier(30, "name", "prefix"),
       Tier(20, "code", "substring"), Tier(10, "buildingName", "substring"),
       Tier(5, "name", "substring") >>
BUILDING_TIERS ==
    << Tier(50, "displayNo", "exact"), Tier(40, "displayNo", "prefix"),
       Tier(30, "name", "prefix"), Tier(20, "name", "substring"),
       Tier(10, "description", "substring") >>
SPACE_STRONG_MIN_SCORE == 50
BUILDING_STRONG_MIN_SCORE == 20

(* tiersToScoreExpr: the first tier that matches. *)
Score(tiers, doc) ==
    LET hits == {t \in DOMAIN tiers : TierMatches(tiers[t].mode, doc[tiers[t].path])}
    IN IF hits = {} THEN 0 ELSE tiers[Min(hits)].score

SpaceKeyword(doc) == \E path \in {"code", "name", "buildingName"} : doc[path] # "none"
BuildingKeyword(doc) ==
    \/ \E path \in {"name", "description"} : doc[path] # "none"
    \/ TierMatches("prefix", doc.displayNo)

(* $sort and $limit: ties come in any order, within the limit or beyond.   *)
Above(r, s) == r[1] > s[1] \/ (r[1] = s[1] /\ r[2] < s[2])
BandsUnsorted(found, rank, limit) ==   \* wrong: the rows come as they lie
    {band \in [1 .. Min({limit, Cardinality(found)}) -> found] : IsInjective(band)}
Bands(found, rank, limit) ==
    { band \in [1 .. Min({limit, Cardinality(found)}) -> found] :
        /\ IsInjective(band)
        /\ \A i, j \in DOMAIN band : i < j => ~Above(rank[band[j]], rank[band[i]])
        /\ \A d \in found \ Range(band), i \in DOMAIN band : ~Above(rank[d], rank[band[i]]) }

\* The campus of the request narrows the rows and their total, and not the counts.
OfCampus(campus, docs) == {d \in docs : campus \in {None, d.campus}}

Rank(tiers, key, docs) == [d \in docs |-> <<Score(tiers, d), d[key]>>]
Strong(rows, rank, min) == {d \in rows : rank[d][1] >= min}

ToRankedResult(items, matched, campus) ==
    LET total == Cardinality(OfCampus(campus, matched))
    IN [items |-> items,
        counts |-> [c \in Campuses |-> Cardinality(OfCampus(c, matched))],
        total |-> total,
        truncated |-> total > Len(items)]

(* searchSpaces and searchBuildings: every answer there is. *)
TwoBands(strong, weak, rank, limits) ==
    { s \o w : s \in Bands(strong, rank, limits[1]), w \in Bands(weak, rank, limits[2]) }
Ranked(matched, tiers, key, strongMin, limits, campus) ==
    LET rank == Rank(tiers, key, matched)
        rows == OfCampus(campus, matched)
        strong == Strong(rows, rank, strongMin)
    IN { ToRankedResult(items, matched, campus) :
            items \in TwoBands(strong, rows \ strong, rank, limits) }
SearchSpaces(docs, campus) ==
    Ranked({d \in docs : SpaceKeyword(d)}, SPACE_TIERS, "spaceCd", SPACE_STRONG_MIN_SCORE,
           <<SPACE_SEARCH_LIMIT, SPACE_WEAK_LIMIT>>, campus)
SearchBuildings(docs, campus) ==
    Ranked({d \in docs : BuildingKeyword(d)}, BUILDING_TIERS, "_id",
           BUILDING_STRONG_MIN_SCORE, <<BUILDING_SEARCH_LIMIT, BUILDING_WEAK_LIMIT>>, campus)

-----------------------------------------------------------------------------
(* The route puts the rows under their buildings, the highest row's first. *)
BuildNoToSkkuId(buildings, buildNo) ==
    LET ids == {b._id : b \in {b \in buildings : b.buildNo = buildNo}}
    IN IF ids = {} THEN None ELSE Max(ids)
SpaceGroups(items, buildings) ==
    LET Seen(k) == \E i \in DOMAIN items : i < k /\ items[i].buildNo = items[k].buildNo
        first == AtPlaces(items, {k \in DOMAIN items : ~Seen(k)})
        Group(b) == [buildNo |-> b,
                     skkuId |-> BuildNoToSkkuId(buildings, b),
                     items |-> Sift(items, LAMBDA s : s.buildNo = b)]
    IN [i \in DOMAIN first |-> Group(first[i].buildNo)]

(* getFloorsByBuildNo: rooms are read in any order of the collection. *)
Infinity == 10000
FloorNumber(floor) == IF floor.kind = "other" THEN Infinity ELSE floor.n   \* wrong: as counted
FloorSortKey(floor) ==
    CASE floor.kind = "basement" -> -floor.n
      [] floor.kind = "floor" -> floor.n
      [] floor.kind = "rooftop" -> 1000 + floor.n
      [] OTHER -> Infinity
FloorsByBuildNo(docs, buildNo) ==
    LET rooms == {d \in docs : buildNo # None /\ d.buildNo = buildNo}
        floors == {d.floor : d \in rooms}
    IN { [i \in DOMAIN f |-> [floor |-> f[i], spaces |-> {d \in rooms : d.floor = f[i]}]] :
           f \in { g \in SetToSeqs(floors) :
                     \A i \in 1 .. Len(g) - 1 :
                         FloorSortKey(g[i]) <= FloorSortKey(g[i + 1]) } }

-----------------------------------------------------------------------------
(* Passages: seed-connections.js brings its list in by the Korean names of *)
(* the buildings, and adds what is not there.                              *)
NameToId(buildings, name) ==
    LET ids == {b._id : b \in {b \in buildings : b.campus = "hssc" /\ b.ko = name}}
    IN IF ids = {} THEN None ELSE Max(ids)
End(skkuId, floor) == [skkuId |-> skkuId, floor |-> floor]
Seeded(connections, list, buildings) ==
    connections \cup
        { [a |-> End(NameToId(buildings, c.a), c.aFloor),
           b |-> End(NameToId(buildings, c.b), c.bFloor)] :
            c \in {c \in list : None \notin {NameToId(buildings, c.a), NameToId(buildings, c.b)}} }

(* getConnectionsForBuilding: each passage seen from this building. *)
ConnectionsAsStored(connections, skkuId) ==   \* wrong: from the a-side's floor always
    { [targetSkkuId |-> IF c.a.skkuId = skkuId THEN c.b.skkuId ELSE c.a.skkuId,
       fromFloor |-> c.a.floor, toFloor |-> c.b.floor] :
        c \in {c \in connections : skkuId \in {c.a.skkuId, c.b.skkuId}} }
ConnectionsFor(connections, skkuId) ==
    { LET isA == c.a.skkuId = skkuId
          self == IF isA THEN c.a ELSE c.b
          other == IF isA THEN c.b ELSE c.a
      IN [targetSkkuId |-> other.skkuId, fromFloor |-> self.floor, toFloor |-> other.floor] :
        c \in {c \in connections : skkuId \in {c.a.skkuId, c.b.skkuId}} }

-----------------------------------------------------------------------------
(* What a search owes its user. *)

\* A room whose own code begins with the query stands before every room that is
\* found otherwise, and is missing only from an answer full of its like; what is
\* missing is never better than what is there, and its absence is said.
NothingBetterMissing(docs, campus, answer) ==
    LET Begins(d) == d.code \in {"exact", "prefix"}
        there == Range(answer.items)
        missing == {d \in OfCampus(campus, docs) : SpaceKeyword(d)} \ there
    IN /\ answer.truncated <=> missing # {}
       /\ there \subseteq {d \in OfCampus(campus, docs) : SpaceKeyword(d)}
       /\ \A i, j \in DOMAIN answer.items :
             Begins(answer.items[j]) /\ i < j => Begins(answer.items[i])
       /\ \A d \in missing :
             IF Begins(d) THEN Cardinality({e \in there : Begins(e)}) = SPACE_SEARCH_LIMIT
             ELSE \A e \in there : Begins(e) \/ Score(SPACE_TIERS, e) >= Score(SPACE_TIERS, d)

\* What a building is found by is in its tiers, and the one with the very number
\* that was typed comes first.
BuildingOfThatNumber(buildings, campus, answer) ==
    /\ \A b \in Range(answer.items) : Score(BUILDING_TIERS, b) > 0
    /\ \A i, j \in DOMAIN answer.items :
          i < j /\ answer.items[j].displayNo = "exact" => answer.items[i].displayNo = "exact"
    /\ answer.truncated <=>
          \E b \in OfCampus(campus, buildings) :
              BuildingKeyword(b) /\ b \notin Range(answer.items)

\* The badge of a campus counts what the same search finds with that campus chosen.
CountsAgree(Search(_, _), docs, answer) ==
    \A c \in Campuses : \A other \in Search(docs, c) : answer.counts[c] = other.total

\* Every row is in one group, in the order of the rows; and a group's link opens a
\* building that lists every room of the group on its floor.
GroupsOpen(docs, buildings, answer) ==
    LET groups == SpaceGroups(answer.items, buildings)
        Leads(g, h) == \E i, j \in DOMAIN answer.items :
            /\ i < j /\ answer.items[i] = groups[g].items[1]
            /\ answer.items[j] = groups[h].items[1]
    IN /\ \A row \in Range(answer.items) :
             \E g \in DOMAIN groups :
                 {h \in DOMAIN groups : row \in Range(groups[h].items)} = {g}
       /\ \A g, h \in DOMAIN groups : g < h => Leads(g, h)
       /\ \A g \in Range(groups) : g.skkuId # None =>
             \E b \in buildings :
                 /\ b._id = g.skkuId
                 /\ \A floors \in FloorsByBuildNo(docs, b.buildNo), s \in Range(g.items) :
                       \E f \in Range(floors) : f.floor = s.floor /\ s \in f.spaces

\* From cellar to roof, a floor once, and nothing between that has no number.
FloorsAscend(docs, buildNo) ==
    \A floors \in FloorsByBuildNo(docs, buildNo) :
        \A i, j \in DOMAIN floors :
            LET f == floors[i].floor
                g == floors[j].floor
            IN i < j => /\ f # g
                        /\ f.kind = "other" => g.kind = "other"
                        /\ f.kind = "rooftop" => g.kind \in {"rooftop", "other"}
                        /\ g.kind = "basement" => f.kind = "basement" /\ f.n >= g.n
                        /\ f.kind = "floor" /\ g.kind = "floor" => f.n <= g.n

\* A passage of the list is walked both ways between the floors it joins, and a
\* second run of the script adds nothing.
PassagesBothWays(connections, list, buildings) ==
    LET seeded == Seeded(connections, list, buildings)
    IN /\ Seeded(seeded, list, buildings) = seeded
       /\ \A b \in buildings : \A way \in ConnectionsFor(seeded, b._id) :
             [targetSkkuId |-> b._id, fromFloor |-> way.toFloor, toFloor |-> way.fromFloor]
                 \in ConnectionsFor(seeded, way.targetSkkuId)
=============================================================================
