------------------------------ MODULE Operators ------------------------------
(***************************************************************************)
(* What operators send, bring in and switch while the server runs: the     *)
(* broadcasts of mini apps (MiniAppSend), the places of a festival and the *)
(* window in which it is on the map (PlacesImport), the timetable of the   *)
(* shuttles (ShuttleTimetable) and the ads (Ads).  These parts share no    *)
(* state of the program, so a behaviour is one of one part, chosen at the  *)
(* start, and the others rest.                                             *)
(***************************************************************************)
EXTENDS MiniAppSend, Ads

CONSTANTS
    Illegible,   \* a value of another form
    Run,         \* runs of a script
    Command, Place, Field, Sheet, PlaceByHand, Minutes,      \* of the import
    Replica, Service, Weekday, TimetableFile, TableByHand, WeekTtl,  \* of the timetable
    MaxQueries, MaxImportClock, MaxTableClock                \* bounds on the two

VARIABLES
    part,          \* the part whose behaviour this is
    places, activation, imports, command, promised,   \* of the import
    docs, loads, weeks, kept, settled                 \* of the timetable

Import == INSTANCE PlacesImport
            WITH run <- imports, HandMade <- PlaceByHand, None <- Null,
                 MaxClock <- MaxImportClock
Table == INSTANCE ShuttleTimetable
            WITH run <- loads, reading <- weeks, HandMade <- TableByHand,
                 CacheTtl <- WeekTtl, MaxClock <- MaxTableClock,
                 File <- TimetableFile, None <- Null, Broken <- Illegible

importVars == <<places, activation, imports, command, promised>>
tableVars == <<docs, loads, weeks, kept, settled>>
opsVars == <<part, vars, importVars, tableVars, adsVars>>

-----------------------------------------------------------------------------
\* A minute lasts, ops' ads are ads, and null is no instant.
ASSUME AdsAssumption ==
    /\ CacheTtl \in Nat \ {0}
    /\ SeedAds \subseteq Ad /\ OwnAds \subseteq Ad
    /\ Null \notin Nat

\* A sheet gives places their content, null is none of the things that are stored,
\* and a window lasts whole minutes.
IsContent(c) == c # Null /\ c = [f \in Field |-> c[f]]
ASSUME ImportAssumption ==
    /\ \A sheet \in Sheet : \A p \in DOMAIN sheet : p \in Place /\ IsContent(sheet[p])
    /\ IsContent(PlaceByHand)
    /\ Null \notin Run
    /\ Minutes \subseteq Nat
    /\ Null \notin Nat
    /\ Null \notin [from : Nat, until : Nat \cup {Null}]
    /\ Null \notin [enabled : BOOLEAN, from : Nat \cup {Null}, until : Nat \cup {Null}]

-----------------------------------------------------------------------------
Parts == {"broadcast", "import", "timetable", "ads"}

PartsInit == Init /\ Import!Init /\ Table!Init /\ AdsInit
OpsInit == part \in Parts /\ PartsInit

\* The clock and the number of edits are those of the part whose behaviour it is.
OpsNext ==
    /\ UNCHANGED part
    /\ \/ part = "broadcast" /\ Next /\ UNCHANGED <<importVars, tableVars, adsVars>>
       \/ /\ part = "import" /\ Import!Next
          /\ UNCHANGED <<vars, tableVars, ads, indexed, start, cache, reading, answer>>
       \/ /\ part = "timetable" /\ Table!Next
          /\ UNCHANGED <<vars, importVars, ads, indexed, start, cache, reading, answer>>
       \/ part = "ads" /\ AdsNext /\ UNCHANGED <<vars, importVars, tableVars>>

OpsSpec == OpsInit /\ [][OpsNext]_opsVars

-----------------------------------------------------------------------------
\* An import that reports success has brought the collection to its sheet, but
\* for what others wrote since it had looked; and the festival is on the map exactly
\* when the last window command says so, whatever imports ran or died around it.
CommandsLand == part = "import" => Import!ImportLands /\ Import!LiveAsOpened

\* After VERIFIED the riders read the file's timetable, one to a weekday, in
\* every answer computed since, as long as nobody writes again.
ScheduleServed == part = "timetable" => Table!ScheduleServed
=============================================================================
