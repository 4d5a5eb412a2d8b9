--------------------------- MODULE ShuttleTimetable ---------------------------
(***************************************************************************)
(* A new timetable reaches the riders: set-campus-schedule brings the      *)
(* committed file into bus_schedules, document by document, and every      *)
(* replica of the server answers from weeks it keeps for an hour, each     *)
(* made of what it read while a run may have been half done.  Ops may also *)
(* type a document by hand; runs overlap and die; replicas restart.        *)
(***************************************************************************)
EXTENDS Timetable, FiniteSets

CONSTANTS
    Run,         \* runs of the script
    Replica,     \* processes that answer
    Service,     \* serviceIds
    Weekday,     \* the days of the week that are looked at
    File,        \* versions of the file that were committed, valid or not
    HandMade,    \* documents ops type by hand
    CacheTtl,    \* CACHE_TTL_MS
    MaxQueries,  \* bound on the queries of a replica under way
    MaxClock,    \* bound on the clock
    MaxEdits     \* bound on the edits by hand

VARIABLES
    docs,        \* bus_schedules; its unique index is on DocKey
    run,         \* the runs of the script
    reading,     \* the weeks each replica has made for a service and not yet kept
    kept,        \* the week it keeps, or None
    clock, edits,
    settled      \* history: the documents of the file the last VERIFIED was about
                 \* and when, or None once somebody wrote again

vars == <<docs, run, reading, kept, clock, edits, settled>>
ops == <<reading, kept, clock, edits>>

Init ==
    /\ docs \in {Documents(t) : t \in {f \in File : ValidTimetable(f)}}
    /\ run = [r \in Run |-> [pc |-> "idle"]]
    /\ reading = [s \in Replica |-> [v \in Service |-> {}]]
    /\ kept = [s \in Replica |-> [v \in Service |-> None]]
    /\ clock = 0 /\ edits = 0
    /\ settled = None

-----------------------------------------------------------------------------
(* set-campus-schedule *)

Existing(target) == {d \in docs : \E t \in target : t.serviceId = d.serviceId}
Strays(target) == {d \in Existing(target) : \A t \in target : DocKey(t) # DocKey(d)}

\* main, up to the first write: the file is parsed, the collection read, the
\* difference printed.  A document the file does not declare stops the run, and
\* --check and --dry-run end here.
Compare(r) ==
    /\ run[r].pc = "idle"
    /\ \E file \in File, mode \in {"check", "dry", "write"} :
         LET target == Documents(file)
             changed == {d \in target : Differs(docs, d)}
         IN run' = [run EXCEPT ![r] =
              IF ~ValidTimetable(file) THEN [pc |-> "failed"]
              ELSE IF Strays(target) # {} THEN [pc |-> "failed"]
              ELSE IF mode = "check"
                   THEN [pc |-> IF changed = {} THEN "matches" ELSE "failed"]
              ELSE IF mode = "dry" THEN [pc |-> "done"]
              ELSE [pc |-> "write", target |-> target, changed |-> changed]]
    /\ UNCHANGED <<docs, ops, settled>>

\* replaceOne, upsert: false; one that matches nothing ends the run.
Replace(r, doc) ==
    /\ run[r].pc = "write" /\ doc \in run[r].changed
    /\ LET matched == {d \in docs : DocKey(d) = DocKey(doc)}
       IN IF matched = {}
          THEN /\ run' = [run EXCEPT ![r] = [pc |-> "failed"]]
               /\ UNCHANGED <<docs, settled>>
          ELSE /\ docs' = (docs \ matched) \cup {doc}
               /\ run' = [run EXCEPT ![r].changed = @ \ {doc}]
               /\ settled' = None
    /\ UNCHANGED ops

ReadBack(r) ==
    /\ run[r].pc = "write" /\ run[r].changed = {}
    /\ IF Holds(Existing(run[r].target), run[r].target)
       THEN /\ run' = [run EXCEPT ![r] = [pc |-> "verified"]]
            /\ settled' = [docs |-> run[r].target, at |-> clock]
       ELSE /\ run' = [run EXCEPT ![r] = [pc |-> "failed"]]
            /\ UNCHANGED settled
    /\ UNCHANGED <<docs, ops>>

Abort(r) ==
    /\ run[r].pc = "write"
    /\ run' = [run EXCEPT ![r] = [pc |-> "failed"]]
    /\ UNCHANGED <<docs, ops, settled>>

\* By hand, in the shell of the database.
EditByHand ==
    /\ edits < MaxEdits
    /\ edits' = edits + 1
    /\ \/ \E doc \in HandMade :
             docs' = {d \in docs : DocKey(d) # DocKey(doc)} \cup {doc}
       \/ \E doc \in docs : docs' = docs \ {doc}
    /\ settled' = None
    /\ UNCHANGED <<run, reading, kept, clock>>

-----------------------------------------------------------------------------
(* A replica: ScheduleService.resolveWeek *)

Fresh(s, v) == kept[s][v] # None /\ clock - kept[s][v].time < CacheTtl

\* The first pattern, in the order the database returns them, that names the day.
Weeks(read) ==
    {w \in [Weekday -> {d.entries : d \in read} \cup {None}] :
        \A day \in Weekday :
            LET naming == {d \in read : day \in ToSet(d.days)}
            IN IF naming = {} THEN w[day] = None
               ELSE \E d \in naming : w[day] = d.entries}
OfService(v) == {d \in docs : d.serviceId = v}

\* Requests that find no fresh week query for themselves, however many there are.
Query(s, v) ==
    /\ ~Fresh(s, v) /\ Cardinality(reading[s][v]) < MaxQueries
    /\ \E week \in Weeks(OfService(v)) :
          reading' = [reading EXCEPT ![s][v] = @ \cup {[week |-> week, of |-> settled]}]
    /\ UNCHANGED <<docs, run, kept, clock, edits, settled>>

\* The week is kept from the time it was made.
Keep(s, v) ==
    /\ \E made \in reading[s][v] :
          /\ kept' = [kept EXCEPT ![s][v] =
                        [week |-> made.week, of |-> made.of, time |-> clock]]
          /\ reading' = [reading EXCEPT ![s][v] = @ \ {made}]
    /\ UNCHANGED <<docs, run, clock, edits, settled>>

QueryFails(s, v) ==
    /\ \E made \in reading[s][v] : reading' = [reading EXCEPT ![s][v] = @ \ {made}]
    /\ UNCHANGED <<docs, run, kept, clock, edits, settled>>

\* docker compose restart
Restart(s) ==
    /\ reading' = [reading EXCEPT ![s] = [v \in Service |-> {}]]
    /\ kept' = [kept EXCEPT ![s] = [v \in Service |-> None]]
    /\ UNCHANGED <<docs, run, clock, edits, settled>>

Tick ==
    /\ clock < MaxClock
    /\ clock' = clock + 1
    /\ UNCHANGED <<docs, run, reading, kept, edits, settled>>
-----------------------------------------------------------------------------
Next ==
    \/ \E r \in Run : Compare(r) \/ ReadBack(r) \/ Abort(r)
    \/ \E r \in Run : \E doc \in docs \cup UNION {Documents(f) : f \in File} : Replace(r, doc)
    \/ EditByHand
    \/ \E s \in Replica, v \in Service : Query(s, v) \/ Keep(s, v) \/ QueryFails(s, v)
    \/ \E s \in Replica : Restart(s)
    \/ Tick

Spec == Init /\ [][Next]_vars

\* After a run said VERIFIED, and as long as nobody writes, each weekday of a
\* service of the file has one timetable, the file's, and every answer a replica
\* computed since shows it; one it computed before is given until its hour is over.
ScheduleServed ==
    settled # None =>
        /\ \A d, e \in settled.docs :
              d # e /\ d.serviceId = e.serviceId => ToSet(d.days) \cap ToSet(e.days) = {}
        /\ \A s \in Replica, v \in Service :
              LET file == {d \in settled.docs : d.serviceId = v}
                  named(day) == {d \in file : day \in ToSet(d.days)}
              IN Fresh(s, v) /\ file # {} =>
                    \/ \A day \in Weekday :
                          kept[s][v].week[day] \in IF named(day) = {} THEN {None}
                                                   ELSE {d.entries : d \in named(day)}
                    \/ kept[s][v].of # settled
=============================================================================
