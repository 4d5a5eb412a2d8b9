----------------------------- MODULE BusPositions -----------------------------
(***************************************************************************)
(* Where the buses are: what a poll makes of the answers of the upstream   *)
(* services, and what /bus/realtime and /bus/station say of it, beside the *)
(* stations /bus/config sends.                                             *)
(*                                                                         *)
(* An item of the HSSC service is [line, stop, seq, date], of the Jongro   *)
(* location service [at, car], of its list service [id, name, eta].  Times *)
(* are in seconds; a date that does not parse is left out.                 *)
(***************************************************************************)
EXTENDS Integers, FiniteSets, SequencesExt, Sift

CONSTANTS None,     \* null
          Broken    \* a value of another form

\* What the HSSC service reports, and what the list keeps of it.
Report == [line : Int, stop : Int, seq : 0 .. 10, date : Int]
Position == [line : Int, stop : Int, seq : 0 .. 10, sequence : Int,
             eventDate : Int, estimatedTime : Int]

-----------------------------------------------------------------------------
(* The registry of Jongro routes, read and checked at the start *)

ValidLine(line) == line.line # Broken /\ line.color # Broken
ValidStation(s) ==
    /\ s.stationName # Broken /\ s.arsId # Broken /\ s.topisId # Broken
    /\ \A mark \in {s.first, s.last, s.rotation} : mark \in BOOLEAN
    /\ s.lines # Broken /\ \A line \in ToSet(s.lines) : ValidLine(line)

\* The first station is marked at the start and the last at the end, and nowhere else.
EndsMarked(stations) ==
    \A i \in DOMAIN stations : /\ stations[i].first = (i = 1)
                               /\ stations[i].last = (i = Len(stations))

ValidRoute(r) ==
    /\ r.id # Broken /\ r.busRouteId # Broken /\ r.themeColor # Broken
    /\ r.iconType # Broken /\ r.refreshInterval > 0
    /\ r.stations # <<>>
    /\ \A i \in DOMAIN r.stations : ValidStation(r.stations[i])
    /\ \A i, j \in DOMAIN r.stations :
          i # j => r.stations[i].topisId # r.stations[j].topisId
    /\ EndsMarked(r.stations)

\* validateRoutes
ValidRoutes(routes) ==
    /\ \A i \in DOMAIN routes : ValidRoute(routes[i])
    /\ \A i, j \in DOMAIN routes : i # j => routes[i].id # routes[j].id

\* deriveMapping: the sequence of a station counts from 1.
FromZero(i) == i - 1                         \* wrong: counts from 0
FromOne(i) == i
Mapping(route) ==
    [id \in {s.topisId : s \in ToSet(route.stations)} |->
        LET i == SelectInSeq(route.stations, LAMBDA s : s.topisId = id)
        IN [sequence |-> FromOne(i), stationName |-> route.stations[i].stationName]]

\* mapStations, of /bus/config: the place in the list is the index.
Config(route) ==
    [lastStationIndex |-> Len(route.stations) - 1,
     names |-> [i \in 0 .. Len(route.stations) - 1 |-> route.stations[i + 1].stationName]]

\* updateJongroBusLocation: a station remembers when a bus was first seen there,
\* whichever bus it was, until that is over ten minutes ago.
StaleMinutes == 600
RecordedEver(times, at, now) ==              \* wrong: never forgotten
    IF at \in DOMAIN times THEN times[at] ELSE now
Recorded(times, at, now) ==
    IF at \in DOMAIN times /\ now - times[at] <= StaleMinutes THEN times[at] ELSE now

Located(route, times, items, now) ==
    LET mapped == Sift(items, LAMBDA item : item.at \in DOMAIN Mapping(route))
        At(item) == Mapping(route)[item.at]
    IN [k \in DOMAIN mapped |->
          [sequence |-> At(mapped[k]).sequence,
           stationName |-> At(mapped[k]).stationName,
           car |-> mapped[k].car,
           estimatedTime |-> now - Recorded(times, mapped[k].at, now)]]

\* buildStationEtas: the first station with the name of the entry.
StationEtas(route, list) ==
    LET Index(e) == SelectInSeq(route.stations, LAMBDA s : s.stationName = e.name)
        found == Sift(list, LAMBDA e : Index(e) # 0 /\ e.eta # None)
    IN [k \in DOMAIN found |-> [stationIndex |-> Index(found[k]) - 1, eta |-> found[k].eta]]

-----------------------------------------------------------------------------
(* The HSSC shuttle *)

\* toLinearSequence: the circle of 11 stops, counted from the turning point.
LinearFromSix(seq) == IF seq > 5 THEN seq - 4 ELSE seq + 7   \* wrong: off by one
Linear(seq) == IF seq >= 5 THEN seq - 4 ELSE seq + 7

Turnaround == 5
StaleAfter(seq) == IF seq = Turnaround THEN 180 ELSE 600

\* updateHSSCBusList: a bus is counted from the first report of its line at its
\* stop, as long as the list before this one had it there.
SinceAtStop(before, item) ==                 \* wrong: any line's report at the stop
    LET same == SelectInSeq(before, LAMBDA b : b.stop = item.stop)
    IN IF same # 0 THEN before[same].eventDate ELSE item.date
Since(before, item) ==
    LET same == SelectInSeq(before, LAMBDA b : b.line = item.line /\ b.stop = item.stop)
    IN IF same # 0 THEN before[same].eventDate ELSE item.date

Listed(before, items, now) ==
    LET Away(t) == IF t <= now THEN now - t ELSE t - now
        made == [k \in DOMAIN items |->
                   [line |-> items[k].line, stop |-> items[k].stop, seq |-> items[k].seq,
                    sequence |-> Linear(items[k].seq),
                    eventDate |-> Since(before, items[k]),
                    estimatedTime |-> Away(Since(before, items[k]))]]
    IN Sift(made, LAMBDA b : b.eventDate >= now - StaleAfter(b.seq))

\* mapBuses
MapBuses(list) ==
    [k \in DOMAIN list |->
        [stationIndex |-> list[k].sequence - 1, estimatedTime |-> list[k].estimatedTime]]

LastStation == 10          \* of the ten StationHSSCStations
StaleSeconds == 60

\* The buses at a station or before it, the closest first and, where several
\* stand, in the order of the list; the n-th of them, or None.
Closest(station, list, n) ==
    LET near == {k \in DOMAIN list : list[k].sequence <= station}
        Before(k) == {j \in near : \/ list[j].sequence > list[k].sequence
                                   \/ list[j].sequence = list[k].sequence /\ j < k}
        nth == {k \in near : Cardinality(Before(k)) = n - 1}
    IN IF nth = {} THEN None ELSE list[CHOOSE k \in nth : TRUE]

NoInfo == [says |-> "none"]
Here == [says |-> "here"]
Stops(station, bus) ==
    IF bus = None THEN NoInfo
    ELSE [says |-> "away", stops |-> station - bus.sequence]

\* findNextApproachingBusEta
Behind(station, list) ==
    LET next == Closest(station, list, 2)
    IN IF next # None /\ next.sequence = LastStation
       THEN Stops(station, Closest(station, list, 3)) ELSE Stops(station, next)

\* computeEta
Eta(station, list) ==
    LET bus == Closest(station, list, 1)
    IN IF bus = None \/ bus.sequence < station THEN Stops(station, bus)
       ELSE IF bus.estimatedTime < StaleSeconds THEN Here
       ELSE Behind(station, list)

-----------------------------------------------------------------------------
(* Properties *)

\* A Jongro bus is drawn at the station it was last seen at, as the config numbers
\* and names it, and never counts more than ten minutes there.
JongroWhereReported(route, times, items, now) ==
    LET answer == MapBuses(Located(route, times, items, now))
        known == Sift(items, LAMBDA item :
                        \E s \in ToSet(route.stations) : s.topisId = item.at)
    IN /\ DOMAIN answer = DOMAIN known
       /\ \A k \in DOMAIN answer :
             /\ answer[k].stationIndex \in 0 .. Config(route).lastStationIndex
             /\ route.stations[answer[k].stationIndex + 1].topisId = known[k].at
             /\ answer[k].estimatedTime \in 0 .. StaleMinutes

\* An HSSC bus is drawn at one of the eleven stations, as far from the turning
\* point as it was reported.  It counts the seconds from a report of its own line
\* at its own stop: the one kept in the list before, if there is one, or else its
\* report of now.  A bus whose time is more than ten minutes old, three at the
\* turning point, is not in the list; one that the list before did not have at its
\* stop is, unless its own report is that old.
HsscWhereReported(before, items, now) ==
    LET list == Listed(before, items, now)
        Kept(b) == {c.eventDate : c \in {e \in ToSet(before) : e.line = b.line /\ e.stop = b.stop}}
    IN /\ \A k \in DOMAIN list :
             LET bus == list[k] IN
             /\ MapBuses(list)[k].stationIndex = (bus.seq + 6) % 11
             /\ \E i \in DOMAIN items :
                   /\ items[i].seq = bus.seq
                   /\ items[i].line = bus.line /\ items[i].stop = bus.stop
                   /\ bus.eventDate \in IF Kept(bus) = {} THEN {items[i].date} ELSE Kept(bus)
             /\ bus.eventDate >= now - StaleAfter(bus.seq)
             /\ bus.eventDate <= now => /\ bus.estimatedTime = now - bus.eventDate
                                        /\ bus.estimatedTime \in 0 .. StaleAfter(bus.seq)
       /\ \A i \in DOMAIN items :
             Kept(items[i]) = {} /\ items[i].date >= now - StaleAfter(items[i].seq) =>
                 \E k \in DOMAIN list :
                     /\ list[k].line = items[i].line /\ list[k].stop = items[i].stop
                     /\ list[k].seq = items[i].seq /\ list[k].eventDate = items[i].date

\* "Arriving" is said of a bus that stands at the station and came less than a
\* minute ago.  "So many stops away" is said of a bus that many stops back, none
\* standing between it and the station; and, except at the last station, only when
\* no bus that came less than a minute ago is passed over for it.  "0 stops away" is
\* said when a second bus stands at the station, whenever that one came: the search
\* for "the next bus behind it" (station-eta.ts:45-46) takes the next of the list.
\* "No information" is said only when no bus is on its way.  Stations and buses are
\* compared by number, as the code does; that the list of ten and the poller's
\* eleven stops do not give Hyehwa the same number is no part of this.
EtaOfNearest(station, list) ==
    LET eta == Eta(station, list)
        Stands(n) == \E b \in ToSet(list) : b.sequence = n
    IN CASE eta.says = "here" -> \E b \in ToSet(list) :
                                    b.sequence = station /\ b.estimatedTime < StaleSeconds
         [] eta.says = "away" ->
              /\ Stands(station - eta.stops)
              /\ \A n \in station - eta.stops + 1 .. station - 1 : ~Stands(n)
              /\ eta.stops = 0 => \E j, k \in DOMAIN list :
                    j # k /\ list[j].sequence = station /\ list[k].sequence = station
              /\ eta.stops # 0 /\ station # LastStation => \A b \in ToSet(list) :
                    b.sequence = station => ~(b.estimatedTime < StaleSeconds)
         [] eta.says = "none" -> \A n \in 1 .. station - 1 : ~Stands(n)

\* Each station of a route is given the arrival the service reported for it.
EtasAtTheirStations(route, list) ==
    \A k \in DOMAIN list, i \in DOMAIN route.stations :
        route.stations[i].topisId = list[k].id /\ list[k].eta # None =>
            {e.eta : e \in {a \in ToSet(StationEtas(route, list)) : a.stationIndex = i - 1}}
              = {list[k].eta}
=============================================================================
