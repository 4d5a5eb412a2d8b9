----------------------------- MODULE MCOperators -----------------------------
(***************************************************************************)
(* One run for the answers that are computed from the files of the         *)
(* repository and the collections (MCAnswers) and for what operators do    *)
(* while the server runs (Operators): a behaviour is one of one part.      *)
(***************************************************************************)
EXTENDS MCAnswers, Operators

CONSTANTS r1, r2   \* processes

\* Two processes, or two clients, differ in nothing but their names.
Symmetry == Permutations({r1, r2}) \cup Permutations(Client)

\* A place is what its pin shows and what its detail shows.
Content(title, detail) == [title |-> title, detail |-> detail]
TwoSheets == { "a" :> Content(1, 1), ("a" :> Content(1, 2)) @@ ("b" :> Content(1, 1)) }
OtherContent == Content(2, 1)

\* Two timetables of a service, and how they may be split over the week.
Departure(time, type) ==
    [time |-> time, routeType |-> type, busCount |-> 1, notes |-> Null, unknown |-> FALSE]
Early == <<Departure(600, "regular"), Departure(600, "hakbu")>>
Late == <<Departure(600, "regular"), Departure(660, "regular")>>
Pattern(id, days, entries) ==
    [patternId |-> id, days |-> days, serviceIds |-> <<"inja">>, entries |-> entries]
TimetableOf(patterns) == [semester |-> "s", effectiveFrom |-> "d", patterns |-> patterns]
Turned(t) == [t EXCEPT !.patterns[1].entries = Reverse(@)]
FirstTable == TimetableOf(<<Pattern("p1", <<1>>, Early), Pattern("p2", <<2>>, Late)>>)
OtherTable == TimetableOf(<<Pattern("p1", <<2>>, Early), Pattern("p2", <<1>>, Late)>>)
Overlapping == TimetableOf(<<Pattern("p1", <<1, 2>>, Late), Pattern("p2", <<2>>, Late)>>)
ThreeTables == {FirstTable, OtherTable, Overlapping}
Typed == INSTANCE Timetable WITH None <- Null
TypedDocuments ==
    Typed!Documents(Turned(TimetableOf(<<Pattern("p1", <<1>>, Early)>>)))
    \cup Typed!Documents(TimetableOf(<<Pattern("p3", <<2>>, Early)>>))

\* The default ads, one switched off, and one of ops' own for a single instant.
Advert(placement, name, from, until, on) ==
    [placement |-> placement, name |-> name, weight |-> 1, startDate |-> from,
     endDate |-> until, enabled |-> on, gone |-> FALSE, changed |-> 0]
DefaultAds == {Advert("splash", "kakao", Null, Null, TRUE),
               Advert("main_notice", "inja", Null, Null, FALSE)}
AdsOfOps == {Advert("splash", "own", 1, 1, TRUE)}

-----------------------------------------------------------------------------
\* The parts that rest do so in one of their states.
MCInit ==
    /\ part \in Parts \cup {"answers"} /\ AskInit /\ PartsInit
    /\ part # "broadcast" => of = [i \in Send |-> CHOOSE a \in Announcement : TRUE]
    /\ part # "timetable" => docs = Table!Documents(FirstTable)

MCNext ==
    \/ OpsNext /\ UNCHANGED asked
    \/ part = "answers" /\ Ask /\ UNCHANGED opsVars

MCSpec == MCInit /\ [][MCNext]_<<asked, opsVars>>
=============================================================================
