----------------------------- MODULE ServiceWeek -----------------------------
(***************************************************************************)
(* The timetable of a shuttle service: what each day shows (resolveWeek)   *)
(* and the day the app opens on (resolveSmartSchedule).                    *)
(*                                                                         *)
(* Days are numbered from a Monday.  A service s is a record of            *)
(*   overrides   a function from days to "replace" (another timetable),    *)
(*               "announced" (no service, with notices) or "closed"        *)
(*   holidays    the days the calendar names                               *)
(*   respects    respectsKoreanHolidays                                    *)
(*   patterns    a sequence of sets of days of the week, 1 being Monday    *)
(*   otherwise   nonOperatingDayDisplay: "hidden" or "noService"           *)
(*   suspend     None, or [from, until]                                    *)
(* A resolved day is [date, display, by, notices]: by is the override, the *)
(* number of the pattern or None, and stands for the timetable shown.      *)
(***************************************************************************)
EXTENDS Integers, FiniteSetsExt, SequencesExt, Sift

CONSTANT None   \* null

\* What a service's documents may say: any overrides, patterns and suspension.
IsService(s) ==
    /\ \A day \in DOMAIN s.overrides : s.overrides[day] \in {"replace", "announced", "closed"}
    /\ s.otherwise \in {"hidden", "noService"}

Monday(day) == day - (day % 7)
DayOfWeek(day) == (day % 7) + 1

\* patterns.find: the first that names the day.
Matching(s, day) == {i \in DOMAIN s.patterns : DayOfWeek(day) \in s.patterns[i]}

Resolved(day, display, by, notices) ==
    [date |-> day, display |-> display, by |-> by, notices |-> notices]

\* The display of a day is decided in four steps.
ByPattern(s, day) ==
    IF Matching(s, day) # {}
    THEN Resolved(day, "schedule", Min(Matching(s, day)), FALSE)
    ELSE Resolved(day, s.otherwise, None, FALSE)

ByHoliday(s, day) ==
    IF s.respects /\ day \in s.holidays
    THEN Resolved(day, "noService", None, FALSE)
    ELSE ByPattern(s, day)

ByOverride(s, day) ==
    IF s.overrides[day] = "replace"
    THEN Resolved(day, "schedule", "replace", TRUE)
    ELSE Resolved(day, "noService", None, s.overrides[day] = "announced")

Resolve(s, day) ==
    IF day \in DOMAIN s.overrides THEN ByOverride(s, day) ELSE ByHoliday(s, day)

\* resolveWeek, called with a Monday.
Week(s, monday) == [i \in 1 .. 7 |-> Resolve(s, monday + i - 1)]

\* isSelectable
Selectable(d) == d.display = "schedule" \/ (d.display = "noService" /\ d.notices)

\* The first selectable day of a week from its i-th, or None.
FirstFrom(week, i) ==
    LET found == {j \in i .. 7 : Selectable(week[j])}
    IN IF found = {} THEN None ELSE week[Min(found)].date

Suspended(s, today) ==
    /\ s.suspend # None
    /\ s.suspend.from <= s.suspend.until
    /\ today \in s.suspend.from .. s.suspend.until

Visible(week) == Sift(week, LAMBDA d : d.display # "hidden")

\* The week the scan starts in, and where in it.
FromMonday(today) == 1              \* wrong: past days of this week are open
ScanFrom(today) == DayOfWeek(today)

\* resolveSmartSchedule
Smart(s, today) ==
    LET this == Week(s, Monday(today))
        next == Week(s, Monday(today) + 7)
        now == FirstFrom(this, ScanFrom(today))
        then == FirstFrom(next, 1)
        Active(week, day) == [status |-> "active", from |-> week[1].date,
                              selected |-> day, days |-> Visible(week)]
    IN IF Suspended(s, today)
       THEN [status |-> "suspended", resume |-> s.suspend.until + 1, days |-> <<>>]
       ELSE IF now # None THEN Active(this, now)
       ELSE IF then # None THEN Active(next, then)
       ELSE [status |-> "noData", days |-> <<>>]

-----------------------------------------------------------------------------
(* Properties *)

\* What the rider is to find, said without the order of the steps: a day runs
\* when ops put a timetable on it, or a pattern names it and neither ops nor a
\* holiday the service keeps took it out.
Runs(s, day) ==
    \/ day \in DOMAIN s.overrides /\ s.overrides[day] = "replace"
    \/ /\ day \notin DOMAIN s.overrides
       /\ ~(s.respects /\ day \in s.holidays)
       /\ \E i \in DOMAIN s.patterns : DayOfWeek(day) \in s.patterns[i]
Announced(s, day) == day \in DOMAIN s.overrides /\ s.overrides[day] = "announced"

\* The app opens on the first day, from today to the end of next week, that runs
\* or was announced not to; none is passed over, no past one is chosen, and there
\* is no day to open on only when there is none in those two weeks.
OpensOnFirst(s, today) ==
    LET smart == Smart(s, today)
        worth == {d \in today .. Monday(today) + 13 : Runs(s, d) \/ Announced(s, d)}
    IN ~Suspended(s, today) =>
          IF worth = {} THEN smart.status = "noData"
                        ELSE smart.status = "active" /\ smart.selected = Min(worth)

\* The chosen day is one of the days sent with it, which are days of one week
\* from its Monday, in order; a day that runs is never filtered out.
SelectionShown(s, today) ==
    LET smart == Smart(s, today)
    IN smart.status = "active" =>
          LET dates == [i \in DOMAIN smart.days |-> smart.days[i].date]
              week == smart.from .. smart.from + 6
          IN /\ smart.selected \in ToSet(dates)
             /\ ToSet(dates) \subseteq week
             /\ \A i, j \in DOMAIN dates : i < j => dates[i] < dates[j]
             /\ \A d \in week : Runs(s, d) => d \in ToSet(dates)
=============================================================================
