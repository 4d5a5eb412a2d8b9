---------------------------- MODULE AnswersProofs ----------------------------
(***************************************************************************)
(* The answers of MCAnswers, for documents of any size: any service and    *)
(* day, any notice, and any structure file of a festival.                  *)
(*                                                                         *)
(*   Sift        the elements kept come in their order and none is lost:   *)
(*               the k-th place kept is well defined because the places up *)
(*               to each are counted one by one.                           *)
(*   the week    the four steps of a day (Resolve) say what OpensOnFirst   *)
(*               says without them, and the first day found in this week,  *)
(*               or else the next, is the least of both.                   *)
(*   notices     the deadline chosen is the nearest ahead or the latest    *)
(*               past; ends that are numbers are well ordered.             *)
(*   festivals   neighbours in the order of their starts that do not       *)
(*               overlap leave no instant to two options; ids that are     *)
(*               unique name one thing.                                    *)
(*   buses       the k-th closest bus is the one with k - 1 before it in a *)
(*               strict order, so there is one, and nothing nearer.        *)
(*   search      a band with a row missing is as long as its limit, and no *)
(*               row of it is below one that is missing; the first row of  *)
(*               each building is the first of its group.                  *)
(*   floors      neighbours in the order of a key are in order however far *)
(*               apart: the least floor out of order would have a          *)
(*               neighbour before it that is not.                          *)
(*   registries  a picker offers every source its spec names; a shell that *)
(*               lays one over the built-in one is whole; what a layout    *)
(*               shows at a moment, cut by its windows, keeps what its     *)
(*               whole was checked for: ids apart and no empty tab.        *)
(***************************************************************************)
EXTENDS MCAnswers, Sift, FiniteSetTheorems, WellFoundedInduction, TLAPS

\* The k-th place is one, and the k-th comes before the l-th.
LEMMA NthPlace ==
  ASSUME NEW S, S \subseteq Nat, IsFiniteSet(S)
  PROVE  /\ Cardinality(S) \in Nat
         /\ \A k \in 1 .. Cardinality(S) : Nth(S, k) \in S
         /\ \A i \in S : \E k \in 1 .. Cardinality(S) : Nth(S, k) = i
         /\ \A k, l \in 1 .. Cardinality(S) : k < l => Nth(S, k) < Nth(S, l)
<1>. DEFINE upTo(i) == {m \in S : m <= i}
            rank == [i \in S |-> Cardinality(upTo(i))]
            n == Cardinality(S)
<1>1. n \in Nat
  BY FS_CardinalityType
<1>2. ASSUME NEW i \in S PROVE IsFiniteSet(upTo(i)) /\ rank[i] \in 1 .. n
  <2>1. IsFiniteSet(upTo(i)) /\ Cardinality(upTo(i)) <= n
    BY FS_Subset
  <2>2. Cardinality(upTo(i)) \in Nat /\ i \in upTo(i)
    BY <2>1, FS_CardinalityType
  <2>3. Cardinality(upTo(i)) # 0
    BY <2>1, <2>2, FS_EmptySet
  <2>. QED  BY <1>1, <2>1, <2>2, <2>3
<1>3. ASSUME NEW i \in S, NEW j \in S, i < j PROVE rank[i] < rank[j]
  <2>1. upTo(i) \subseteq upTo(j) /\ j \in upTo(j) /\ j \notin upTo(i)
    <3>1. i \in Nat /\ j \in Nat
      OBVIOUS
    <3>2. ASSUME NEW h \in S, h <= i PROVE h <= j
      <4>1. h \in Nat
        OBVIOUS
      <4>. QED  BY <1>3, <3>1, <3>2, <4>1
    <3>3. upTo(i) \subseteq upTo(j)
      BY <3>2
    <3>4. j <= j /\ ~(j <= i)
      BY <1>3, <3>1
    <3>. QED  BY <3>3, <3>4
  <2>2. Cardinality(upTo(i)) <= Cardinality(upTo(j)) /\ Cardinality(upTo(i)) # Cardinality(upTo(j))
    BY <1>2, <2>1, FS_Subset
  <2>. QED  BY <1>2, <2>2
<1>4. \A i, j \in S : rank[i] = rank[j] => i = j
  <2>1. \A i, j \in S : i < j \/ j < i \/ i = j
    OBVIOUS
  <2>2. \A i, j \in S : i < j => rank[i] < rank[j]
    BY <1>3
  <2>3. \A i \in S : rank[i] \in Int
    BY <1>1, <1>2
  <2>. HIDE DEF rank
  <2>. QED  BY <2>1, <2>2, <2>3
<1>5. rank \in Surjection(S, 1 .. n)
  <2>1. rank \in Injection(S, 1 .. n)
    BY <1>2, <1>4 DEF Injection, IsInjective
  <2>2. IsFiniteSet(1 .. n) /\ Cardinality(1 .. n) = n
    BY <1>1, FS_Interval
  <2>. QED  BY <2>1, <2>2, FS_Injection
<1>6. \A k \in 1 .. n : \E i \in S : rank[i] = k
  BY <1>5 DEF Surjection
<1>7. \A k \in 1 .. n : Nth(S, k) \in S /\ rank[Nth(S, k)] = k
  BY <1>6 DEF Nth
<1>8. \A i \in S : rank[i] \in 1 .. n /\ Nth(S, rank[i]) = i
  BY <1>2, <1>4, <1>7
<1>9. ASSUME NEW k \in 1 .. n, NEW l \in 1 .. n, k < l PROVE Nth(S, k) < Nth(S, l)
  <2>. DEFINE a == Nth(S, k)
              b == Nth(S, l)
  <2>1. a \in S /\ b \in S /\ rank[a] = k /\ rank[b] = l
    BY <1>7
  <2>2. b < a => rank[b] < rank[a]
    BY <1>3, <2>1
  <2>. HIDE DEF a, b, rank
  <2>3. a \in Nat /\ b \in Nat /\ k \in Int /\ l \in Int
    BY <1>1, <2>1
  <2>4. a < b
    BY <1>9, <2>1, <2>2, <2>3
  <2>. QED  BY <2>4 DEF a, b
<1>. QED  BY <1>1, <1>7, <1>8, <1>9

\* What is sifted are the elements of the places kept.
LEMMA Sifted ==
  ASSUME NEW s, NEW S, S \subseteq DOMAIN s, DOMAIN s \subseteq Nat, IsFiniteSet(S)
  PROVE  /\ DOMAIN AtPlaces(s, S) = 1 .. Cardinality(S)
         /\ {AtPlaces(s, S)[k] : k \in DOMAIN AtPlaces(s, S)} = {s[i] : i \in S}
         /\ \A k \in DOMAIN AtPlaces(s, S) : AtPlaces(s, S)[k] = s[Nth(S, k)]
  BY NthPlace DEF AtPlaces

\* The copy of the week's module sifts alike.
LEMMA SameSift ==
  ASSUME NEW s, NEW S
  PROVE  Bus!AtPlaces(s, S) = AtPlaces(s, S)
<1>1. \A T : Bus!Cardinality(T) = Cardinality(T)
  BY DEF Bus!Cardinality, Cardinality
<1>2. \A k : Bus!Nth(S, k) = Nth(S, k)
  BY <1>1 DEF Bus!Nth, Nth
<1>. QED  BY <1>1, <1>2 DEF Bus!AtPlaces, AtPlaces

\* Numbers have a least.
LEMMA HasLeast ==
  ASSUME NEW S, S \subseteq Nat, S # {}
  PROVE  \E m \in S : \A k \in S : m <= k
<1>1. PICK m \in S : \A k \in S : <<k, m>> \notin OpToRel(<, Nat)
  BY NatLessThanWellFounded, WFMin
<1>2. \A k \in S : ~(k < m)
  BY <1>1 DEF OpToRel
<1>. QED  BY <1>2

\* So Min is the least of them.
LEMMA BusMin ==
  ASSUME NEW S, S \subseteq Nat, S # {}
  PROVE  Bus!Min(S) \in S /\ \A k \in S : Bus!Min(S) <= k
  BY HasLeast DEF Bus!Min

-----------------------------------------------------------------------------
(* The timetable of a service *)

\* A day can be opened on exactly when it runs or was announced not to.
LEMMA SelectableDay ==
  ASSUME NEW s, Bus!IsService(s), NEW day \in Nat
  PROVE  LET d == Bus!Resolve(s, day)
         IN /\ Bus!Selectable(d) <=> Bus!Runs(s, day) \/ Bus!Announced(s, day)
            /\ Bus!Runs(s, day) => d.display = "schedule"
            /\ Bus!Selectable(d) => d.display # "hidden"
            /\ d.date = day
<1>1. CASE day \in DOMAIN s.overrides
  BY <1>1 DEF Bus!IsService, Bus!Resolve, Bus!ByOverride, Bus!Resolved, Bus!Selectable,
              Bus!Runs, Bus!Announced
<1>2. CASE day \notin DOMAIN s.overrides
  <2>1. CASE s.respects /\ day \in s.holidays
    BY <1>2, <2>1 DEF Bus!IsService, Bus!Resolve, Bus!ByHoliday, Bus!Resolved, Bus!Selectable,
                      Bus!Runs, Bus!Announced
  <2>2. CASE ~(s.respects /\ day \in s.holidays)
    <3>1. Bus!Resolve(s, day) = Bus!ByPattern(s, day)
      BY <1>2, <2>2 DEF Bus!Resolve, Bus!ByHoliday
    <3>2. Bus!Runs(s, day) <=> Bus!Matching(s, day) # {}
      BY <1>2, <2>2 DEF Bus!Runs, Bus!Matching
    <3>. QED  BY <1>2, <3>1, <3>2 DEF Bus!IsService, Bus!ByPattern, Bus!Resolved, Bus!Selectable, Bus!Announced
  <2>. QED  BY <2>1, <2>2
<1>. QED  BY <1>1, <1>2

\* Today is in the week that begins on its Monday.
LEMMA Mondays ==
  ASSUME NEW today \in Nat
  PROVE  /\ Bus!Monday(today) \in Nat /\ Bus!ScanFrom(today) \in 1 .. 7
         /\ today = Bus!Monday(today) + Bus!ScanFrom(today) - 1
  BY DEF Bus!Monday, Bus!ScanFrom, Bus!DayOfWeek

\* The first day from the i-th of a week that is worth opening on.
LEMMA FirstWorth ==
  ASSUME NEW s, Bus!IsService(s), NEW monday \in Nat, NEW i \in 1 .. 7
  PROVE  LET worth == {d \in monday + i - 1 .. monday + 6 : Bus!Runs(s, d) \/ Bus!Announced(s, d)}
             first == Bus!FirstFrom(Bus!Week(s, monday), i)
         IN IF worth = {} THEN first = None
            ELSE first \in worth /\ \A d \in worth : first <= d
<1>. DEFINE week == Bus!Week(s, monday)
            worth == {d \in monday + i - 1 .. monday + 6 : Bus!Runs(s, d) \/ Bus!Announced(s, d)}
            found == {j \in i .. 7 : Bus!Selectable(week[j])}
<1>1. \A j \in 1 .. 7 : week[j] = Bus!Resolve(s, monday + j - 1)
  BY DEF Bus!Week
<1>2. ASSUME NEW j \in i .. 7
      PROVE  /\ Bus!Selectable(week[j]) <=> monday + j - 1 \in worth
             /\ week[j].date = monday + j - 1
  <2>1. monday + j - 1 \in Nat /\ j \in 1 .. 7 /\ monday + j - 1 \in monday + i - 1 .. monday + 6
    OBVIOUS
  <2>. QED  BY <1>1, <2>1, SelectableDay
<1>3. \A j \in i .. 7 : j \in found <=> monday + j - 1 \in worth
  BY <1>2
<1>4. \A d \in worth : \E j \in i .. 7 : d = monday + j - 1
  <2>1. \A d \in monday + i - 1 .. monday + 6 : d - monday + 1 \in i .. 7 /\ d = monday + (d - monday + 1) - 1
    OBVIOUS
  <2>. QED  BY <2>1
<1>5. found \subseteq Nat
  OBVIOUS
<1>6. Bus!FirstFrom(week, i) = IF found = {} THEN None ELSE week[Bus!Min(found)].date
  BY DEF Bus!FirstFrom
<1>7. CASE worth = {}
  BY <1>3, <1>6, <1>7
<1>8. CASE worth # {}
  <2>1. found # {}
    BY <1>3, <1>4, <1>8
  <2>. DEFINE m == Bus!Min(found)
  <2>2. m \in found /\ \A j \in found : m <= j
    BY <1>5, <2>1, BusMin
  <2>. HIDE DEF m, found, worth
  <2>3. m \in i .. 7 /\ monday + m - 1 \in worth /\ week[m].date = monday + m - 1
    BY <1>2, <1>3, <2>2 DEF found
  <2>4. \A d \in worth : monday + m - 1 <= d
    BY <1>3, <1>4, <2>2, <2>3
  <2>. QED  BY <1>6, <1>8, <2>1, <2>3, <2>4 DEF worth, m
<1>. QED  BY <1>7, <1>8

\* resolveSmartSchedule passes over no day worth opening on.
LEMMA OpensOnFirst ==
  ASSUME NEW s, Bus!IsService(s), NEW today \in Nat
  PROVE  Bus!OpensOnFirst(s, today)
<1>. DEFINE monday == Bus!Monday(today)
            from == Bus!ScanFrom(today)
            Worth(d) == Bus!Runs(s, d) \/ Bus!Announced(s, d)
            worth == {d \in today .. monday + 13 : Worth(d)}
            this == {d \in monday + from - 1 .. monday + 6 : Worth(d)}
            next == {d \in monday + 7 + 1 - 1 .. monday + 7 + 6 : Worth(d)}
            now == Bus!FirstFrom(Bus!Week(s, monday), from)
            then == Bus!FirstFrom(Bus!Week(s, monday + 7), 1)
            smart == Bus!Smart(s, today)
<1>0. None \notin Int
  BY NothingApart
<1>1. monday \in Nat /\ from \in 1 .. 7 /\ today = monday + from - 1
  BY Mondays
<1>2. IF this = {} THEN now = None ELSE now \in this /\ \A d \in this : now <= d
  BY <1>1, FirstWorth
<1>3. IF next = {} THEN then = None ELSE then \in next /\ \A d \in next : then <= d
  BY <1>1, FirstWorth
<1>4. /\ worth = this \cup next
      /\ \A d \in this, e \in next : d < e
      /\ this \subseteq Int /\ next \subseteq Int /\ worth \subseteq Nat
  BY <1>1
<1>5. Bus!Suspended(s, today) \/
      IF now # None THEN smart.status = "active" /\ smart.selected = now
      ELSE IF then # None THEN smart.status = "active" /\ smart.selected = then
      ELSE smart.status = "noData"
  BY DEF Bus!Smart
<1>. HIDE DEF this, next, now, then, smart, worth
<1>6. ASSUME NEW d \in worth, \A e \in worth : d <= e PROVE Bus!Min(worth) = d
  <2>. DEFINE m == Bus!Min(worth)
  <2>1. m \in worth /\ \A e \in worth : m <= e
    BY <1>4, <1>6, BusMin
  <2>. HIDE DEF m
  <2>2. m \in Nat /\ d \in Nat /\ m <= d /\ d <= m
    BY <1>4, <1>6, <2>1
  <2>3. m = d
    BY <2>2
  <2>. QED  BY <2>3 DEF m
<1>7. CASE this # {}
  <2>0. now \in this /\ now \in Int /\ \A d \in this : now <= d
    BY <1>2, <1>4, <1>7
  <2>1. now \in worth /\ now # None /\ \A e \in worth : now <= e
    <3>1. \A e \in next : e \in Int /\ now < e
      BY <1>4, <2>0
    <3>2. \A e \in next : now <= e
      BY <2>0, <3>1
    <3>. QED  BY <1>0, <1>4, <2>0, <3>2
  <2>2. Bus!Min(worth) = now /\ worth # {}
    BY <1>6, <2>1
  <2>. QED  BY <1>5, <2>1, <2>2 DEF Bus!OpensOnFirst, worth, smart
<1>8. CASE this = {} /\ next # {}
  <2>1. then \in worth /\ then # None /\ now = None /\ \A e \in worth : then <= e
    BY <1>0, <1>2, <1>3, <1>4, <1>8
  <2>2. Bus!Min(worth) = then /\ worth # {}
    BY <1>6, <2>1
  <2>. QED  BY <1>5, <2>1, <2>2 DEF Bus!OpensOnFirst, worth, smart
<1>9. CASE this = {} /\ next = {}
  <2>1. now = None /\ then = None /\ worth = {}
    BY <1>2, <1>3, <1>4, <1>9
  <2>. QED  BY <1>5, <2>1 DEF Bus!OpensOnFirst, worth, smart
<1>. QED  BY <1>7, <1>8, <1>9

\* The days sent are the days of a week that are not hidden, in their order.
LEMMA VisibleDays ==
  ASSUME NEW s, Bus!IsService(s), NEW monday \in Nat
  PROVE  LET week == Bus!Week(s, monday)
             days == Bus!Visible(week)
         IN /\ DOMAIN days \subseteq Nat
            /\ \A k \in DOMAIN days : days[k].date \in monday .. monday + 6
            /\ \A k, l \in DOMAIN days : k < l => days[k].date < days[l].date
            /\ \A j \in 1 .. 7 : week[j].display # "hidden" =>
                  \E k \in DOMAIN days : days[k].date = monday + j - 1
<1>. DEFINE week == Bus!Week(s, monday)
            days == Bus!Visible(week)
            shown == {j \in DOMAIN week : week[j].display # "hidden"}
<1>1. DOMAIN week = 1 .. 7 /\ \A j \in 1 .. 7 : week[j].date = monday + j - 1
  <2>1. \A j \in 1 .. 7 : week[j] = Bus!Resolve(s, monday + j - 1) /\ monday + j - 1 \in Nat
    BY DEF Bus!Week
  <2>2. \A j \in 1 .. 7 : week[j].date = monday + j - 1
    BY <2>1, SelectableDay
  <2>. QED  BY <2>2 DEF Bus!Week
<1>2. IsFiniteSet(shown) /\ shown \subseteq Nat
  <2>1. 1 \in Int /\ 7 \in Int
    OBVIOUS
  <2>2. IsFiniteSet(1 .. 7)
    BY <2>1, FS_Interval
  <2>. QED  BY <1>1, <2>2, FS_Subset
<1>3. days = AtPlaces(week, shown)
  BY SameSift DEF Bus!Visible, Bus!Sift
<1>. HIDE DEF shown, week
<1>4. /\ Cardinality(shown) \in Nat
      /\ \A k \in 1 .. Cardinality(shown) : Nth(shown, k) \in shown
      /\ \A i \in shown : \E k \in 1 .. Cardinality(shown) : Nth(shown, k) = i
      /\ \A k, l \in 1 .. Cardinality(shown) : k < l => Nth(shown, k) < Nth(shown, l)
  BY <1>2, NthPlace
<1>5. /\ DOMAIN days = 1 .. Cardinality(shown)
      /\ \A k \in DOMAIN days : days[k] = week[Nth(shown, k)]
  BY <1>3 DEF AtPlaces
<1>6. shown \subseteq 1 .. 7
  BY <1>1 DEF shown
<1>7. \A k \in DOMAIN days : Nth(shown, k) \in 1 .. 7 /\ days[k].date = monday + Nth(shown, k) - 1
  BY <1>1, <1>4, <1>5, <1>6
<1>. HIDE DEF days
<1>8. ASSUME NEW k \in DOMAIN days, NEW l \in DOMAIN days, k < l
      PROVE  days[k].date < days[l].date
  <2>. DEFINE a == Nth(shown, k)
              b == Nth(shown, l)
  <2>1. a < b
    BY <1>4, <1>5, <1>8
  <2>2. /\ a \in 1 .. 7 /\ days[k].date = monday + a - 1
        /\ b \in 1 .. 7 /\ days[l].date = monday + b - 1
    BY <1>7
  <2>. HIDE DEF a, b
  <2>. QED  BY <2>1, <2>2
<1>9. ASSUME NEW j \in 1 .. 7, week[j].display # "hidden"
      PROVE  \E k \in DOMAIN days : days[k].date = monday + j - 1
  <2>1. j \in shown
    BY <1>1, <1>9 DEF shown
  <2>. QED  BY <1>4, <1>5, <1>7, <2>1
<1>10. DOMAIN days \subseteq Nat
  BY <1>4, <1>5
<1>11. ASSUME NEW k \in DOMAIN days PROVE days[k].date \in monday .. monday + 6
  <2>. DEFINE a == Nth(shown, k)
  <2>1. a \in 1 .. 7 /\ days[k].date = monday + a - 1
    BY <1>7
  <2>. HIDE DEF a
  <2>. QED  BY <2>1
<1>. QED  BY <1>8, <1>9, <1>10, <1>11 DEF days, week

\* What it selects is sent, with the days of its week that run.
LEMMA SelectionShown ==
  ASSUME NEW s, Bus!IsService(s), NEW today \in Nat
  PROVE  Bus!SelectionShown(s, today)
<1>. DEFINE smart == Bus!Smart(s, today)
<1>. SUFFICES ASSUME smart.status = "active" PROVE Bus!SelectionShown(s, today)
  BY DEF Bus!SelectionShown
<1>1. \E monday \in Nat, i \in 1 .. 7 :
         LET week == Bus!Week(s, monday)
         IN /\ Bus!FirstFrom(week, i) # None
            /\ smart = [status |-> "active", from |-> week[1].date,
                        selected |-> Bus!FirstFrom(week, i), days |-> Bus!Visible(week)]
  <2>. DEFINE monday == Bus!Monday(today)
              Opens(week, i) ==
                 /\ Bus!FirstFrom(week, i) # None
                 /\ smart = [status |-> "active", from |-> week[1].date,
                             selected |-> Bus!FirstFrom(week, i), days |-> Bus!Visible(week)]
  <2>1. \/ Opens(Bus!Week(s, monday), Bus!ScanFrom(today))
        \/ Opens(Bus!Week(s, monday + 7), 1)
    BY DEF Bus!Smart
  <2>2. monday \in Nat /\ monday + 7 \in Nat /\ Bus!ScanFrom(today) \in 1 .. 7 /\ 1 \in 1 .. 7
    BY Mondays
  <2>. HIDE DEF monday
  <2>. QED  BY <2>1, <2>2
<1>2. PICK monday \in Nat, i \in 1 .. 7 :
         /\ Bus!FirstFrom(Bus!Week(s, monday), i) # None
         /\ smart = [status |-> "active", from |-> Bus!Week(s, monday)[1].date,
                     selected |-> Bus!FirstFrom(Bus!Week(s, monday), i),
                     days |-> Bus!Visible(Bus!Week(s, monday))]
  BY <1>1
<1>. DEFINE week == Bus!Week(s, monday)
            days == Bus!Visible(week)
            dates == [k \in DOMAIN days |-> days[k].date]
<1>3. \A j \in 1 .. 7 : /\ monday + j - 1 \in Nat
                        /\ week[j] = Bus!Resolve(s, monday + j - 1)
                        /\ week[j].date = monday + j - 1
                        /\ Bus!Selectable(week[j]) => week[j].display # "hidden"
                        /\ Bus!Runs(s, monday + j - 1) => week[j].display # "hidden"
  <2>1. \A j \in 1 .. 7 : monday + j - 1 \in Nat /\ week[j] = Bus!Resolve(s, monday + j - 1)
    BY DEF Bus!Week
  <2>. QED  BY <2>1, SelectableDay
<1>4. smart.from = monday /\ smart.selected = Bus!FirstFrom(week, i) /\ smart.days = days
  BY <1>2, <1>3
<1>5. /\ DOMAIN days \subseteq Nat
      /\ \A k \in DOMAIN days : days[k].date \in monday .. monday + 6
      /\ \A k, l \in DOMAIN days : k < l => days[k].date < days[l].date
      /\ \A j \in 1 .. 7 : week[j].display # "hidden" =>
            \E k \in DOMAIN days : days[k].date = monday + j - 1
  BY VisibleDays
<1>6. \E j \in 1 .. 7 : Bus!Selectable(week[j]) /\ Bus!FirstFrom(week, i) = monday + j - 1
  <2>. DEFINE found == {j \in i .. 7 : Bus!Selectable(week[j])}
  <2>1. found # {} /\ Bus!FirstFrom(week, i) = week[Bus!Min(found)].date
    BY <1>2 DEF Bus!FirstFrom
  <2>2. Bus!Min(found) \in found
    <3>1. found \subseteq Nat
      OBVIOUS
    <3>. HIDE DEF found
    <3>. QED  BY <2>1, <3>1, BusMin
  <2>. QED  BY <1>3, <2>1, <2>2
<1>. HIDE DEF week, days, smart
<1>7. Bus!ToSet(dates) = {days[k].date : k \in DOMAIN days}
  BY DEF Bus!ToSet
<1>8. smart.selected \in Bus!ToSet(dates)
  BY <1>3, <1>4, <1>5, <1>6, <1>7
<1>9. Bus!ToSet(dates) \subseteq monday .. monday + 6
  BY <1>5, <1>7
<1>10. \A k, l \in DOMAIN dates : k < l => dates[k] < dates[l]
  BY <1>5
<1>11. ASSUME NEW d \in monday .. monday + 6, Bus!Runs(s, d) PROVE d \in Bus!ToSet(dates)
  <2>1. d - monday + 1 \in 1 .. 7 /\ d = monday + (d - monday + 1) - 1
    OBVIOUS
  <2>. QED  BY <1>3, <1>5, <1>7, <1>11, <2>1
<1>. QED  BY <1>4, <1>8, <1>9, <1>10, <1>11 DEF Bus!SelectionShown, smart

-----------------------------------------------------------------------------
(* The deadline of a notice *)

\* Of deadlines that can all be read, the one shown is the nearest ahead, or the
\* latest when all have passed, and there is one.
LEMMA DeadlineChosen ==
  ASSUME NEW C, C # {}, \A p \in C : Notice!PeriodEnd(p) \in Int, Broken \notin Int, NEW now \in Int
  PROVE  /\ Notice!EffectiveDeadline(C, now) # {}
         /\ \A e \in Notice!EffectiveDeadline(C, now) :
              /\ e \in C
              /\ \/ /\ Notice!PeriodEnd(e) >= now
                    /\ \A p \in C : Notice!PeriodEnd(p) >= now =>
                                        Notice!PeriodEnd(e) <= Notice!PeriodEnd(p)
                 \/ \A p \in C : /\ Notice!PeriodEnd(p) < now
                                 /\ Notice!PeriodEnd(p) <= Notice!PeriodEnd(e)
<1>. DEFINE End(p) == Notice!PeriodEnd(p)
            future == {p \in C : End(p) # Broken /\ End(p) >= now}
            ahead == {End(p) - now : p \in future}
            behind == {now - End(p) : p \in C}
<1>1. \A p \in C : End(p) \in Int /\ End(p) # Broken
  OBVIOUS
<1>2. Notice!EffectiveDeadline(C, now) =
        IF future = {} THEN {p \in C : \A q \in C : End(p) >= End(q)}
        ELSE {p \in future : \A q \in future : End(p) <= End(q)}
  BY <1>1 DEF Notice!EffectiveDeadline, Notice!Latest
<1>. HIDE DEF End
<1>3. CASE future = {}
  <2>1. \A p \in C : End(p) < now
    BY <1>1, <1>3
  <2>2. behind \subseteq Nat /\ behind # {}
    BY <1>1, <2>1
  <2>3. PICK m \in behind : \A k \in behind : m <= k
    BY <2>2, HasLeast
  <2>4. PICK p \in C : m = now - End(p)
    OBVIOUS
  <2>5. ASSUME NEW q \in C PROVE End(p) >= End(q)
    <3>1. now - End(p) <= now - End(q)
      BY <2>3, <2>4
    <3>. QED  BY <1>1, <3>1
  <2>6. {r \in C : \A q \in C : End(r) >= End(q)} # {}
    BY <2>5
  <2>7. \A a, b \in C : End(a) >= End(b) => End(b) <= End(a)
    BY <1>1
  <2>. QED  BY <1>2, <1>3, <2>1, <2>6, <2>7 DEF End
<1>4. CASE future # {}
  <2>1. ahead \subseteq Nat /\ ahead # {}
    BY <1>1, <1>4
  <2>2. PICK m \in ahead : \A k \in ahead : m <= k
    BY <2>1, HasLeast
  <2>3. PICK p \in future : m = End(p) - now
    OBVIOUS
  <2>4. ASSUME NEW q \in future PROVE End(p) <= End(q)
    <3>1. End(p) - now <= End(q) - now
      BY <2>2, <2>3
    <3>. QED  BY <1>1, <3>1
  <2>5. {r \in future : \A q \in future : End(r) <= End(q)} # {}
    BY <2>4
  <2>6. \A q \in C : End(q) >= now => q \in future
    BY <1>1
  <2>. QED  BY <1>2, <1>4, <2>5, <2>6 DEF End
<1>. QED  BY <1>3, <1>4

\* Whatever the type of a summary, one of the three is shown.
LEMMA SummaryTypes ==
  ASSUME NEW t
  PROVE  Notice!NormalizeSummaryType(t) \in Notice!SummaryType
  BY DEF Notice!NormalizeSummaryType, Notice!SummaryType

\* The list and the page of a notice agree, and its deadline is the nearest ahead.
LEMMA DeadlineShown ==
  ASSUME NEW doc, Notice!IsNotice(doc), NEW times, times \subseteq Int
  PROVE  Notice!DeadlineShown(doc, times)
<1>. DEFINE type == Notice!NormalizeSummaryType(doc.summaryType)
            periods == doc.summaryPeriods
            page == Notice!DetailItem(doc)
            deadlines == {p \in Notice!ToSet(periods) : Notice!IsCandidate(p)}
            endOf(end) == Notice!PeriodEnd([endDate |-> end.date, endTime |-> end.time])
            asks == type = "action_required"
            shownOf(p) == IF p = None \/ (p.endDate = None /\ p.endTime = None) THEN None
                          ELSE [date |-> p.endDate, time |-> p.endTime]
            chosen(now) == Notice!SelectEffectivePeriod(periods, type, now)
<1>0. /\ \A p \in Notice!ToSet(periods) : p \in Notice!Period /\ p # None
      /\ \A now \in times : \A p \in chosen(now) : p = None \/ p \in Notice!ToSet(periods)
  <2>1. \A p \in Notice!ToSet(periods) : p \in Notice!Period
    <3>1. doc.summaryPeriods \in Seq(Notice!Period)
      BY DEF Notice!IsNotice
    <3>2. \A k \in DOMAIN periods : periods[k] \in Notice!Period
      BY <3>1
    <3>. QED  BY <3>2 DEF Notice!ToSet
  <2>2. periods # <<>> => periods[1] \in Notice!ToSet(periods)
    <3>1. periods \in Seq(Notice!Period)
      BY DEF Notice!IsNotice
    <3>. HIDE DEF periods
    <3>2. periods # <<>> => 1 \in DOMAIN periods
      BY <3>1
    <3>. QED  BY <3>2 DEF Notice!ToSet
  <2>3. ASSUME NEW now \in times, NEW p \in chosen(now)
        PROVE  p = None \/ p \in Notice!ToSet(periods)
    <3>1. Notice!EffectiveDeadline(deadlines, now) \subseteq deadlines
      BY DEF Notice!EffectiveDeadline, Notice!Latest
    <3>2. \/ p = None
          \/ periods # <<>> /\ p = periods[1]
          \/ p \in Notice!EffectiveDeadline(deadlines, now)
      <4>1. chosen(now) = IF periods = <<>> THEN {None}
                          ELSE IF ~asks THEN {periods[1]}
                          ELSE IF deadlines = {} THEN {None}
                          ELSE Notice!EffectiveDeadline(deadlines, now)
        BY DEF Notice!SelectEffectivePeriod
      <4>. HIDE DEF chosen, periods, deadlines, asks
      <4>. QED  BY <2>3, <4>1
    <3>3. deadlines \subseteq Notice!ToSet(periods)
      OBVIOUS
    <3>. HIDE DEF periods, deadlines, chosen
    <3>. QED  BY <2>2, <3>1, <3>2, <3>3
  <2>. HIDE DEF chosen, periods
  <2>. QED  BY <2>1, <2>3, NothingApart
<1>1. \A now \in times : \A item \in Notice!ListItems(doc, now) :
         /\ item.summary \in Notice!Brief(doc, now)
         /\ item.isEdited <=> page.editInfo # None
  <2>1. page.editInfo # None <=> doc.editCount > 0
    <3>1. doc.editCount \in Nat => [count |-> doc.editCount] # None
      BY NothingApart
    <3>. QED  BY <3>1 DEF Notice!IsNotice, Notice!DetailItem
  <2>2. ASSUME NEW now \in times, NEW item \in Notice!ListItems(doc, now)
        PROVE  item.summary \in Notice!Brief(doc, now) /\ (item.isEdited <=> doc.editCount > 0)
    <3>1. PICK brief \in Notice!Brief(doc, now) :
             item = [summary |-> brief, hasContent |-> doc.contentHash # None,
                     isEdited |-> doc.editCount > 0]
      BY DEF Notice!ListItems
    <3>. QED  BY <3>1
  <2>. HIDE DEF page
  <2>. QED  BY <2>1, <2>2
<1>2. CASE doc.summaryAt = None
  <2>1. page.summary = None
    BY <1>2 DEF Notice!DetailItem, Notice!Full
  <2>2. \A now \in times : Notice!Brief(doc, now) = {None}
    BY <1>2 DEF Notice!Brief
  <2>. QED  BY <1>1, <2>1, <2>2 DEF Notice!DeadlineShown
<1>3. CASE doc.summaryAt # None
  <2>1. page.summary = [type |-> type, periods |-> periods]
    BY <1>3 DEF Notice!DetailItem, Notice!Full
  <2>2. page.summary # None /\ page.summary.type = type /\ page.summary.periods = periods
    <3>1. [type |-> type, periods |-> periods] \in [type : Notice!SummaryType, periods : Seq(Notice!Period)]
      <4>1. type \in Notice!SummaryType /\ periods \in Seq(Notice!Period)
        BY SummaryTypes DEF Notice!IsNotice
      <4>. HIDE DEF type, periods
      <4>. QED  BY <4>1
    <3>. HIDE DEF type, periods, page
    <3>. QED  BY <2>1, <3>1, NothingApart
  <2>3. \A now \in times : Notice!Brief(doc, now) =
                             {[type |-> type, endAt |-> shownOf(p)] : p \in chosen(now)}
    BY <1>3 DEF Notice!Brief
  <2>4. \A now \in times : \A item \in Notice!ListItems(doc, now) :
           /\ item.summary # None
           /\ \E p \in chosen(now) : item.summary.endAt = shownOf(p)
    <3>1. ASSUME NEW now \in times, NEW item \in Notice!ListItems(doc, now)
          PROVE \E p \in chosen(now) : item.summary = [type |-> type, endAt |-> shownOf(p)]
      <4>. HIDE DEF chosen, shownOf, type
      <4>. QED  BY <1>1, <2>3
    <3>2. ASSUME NEW now \in times, NEW p \in chosen(now)
          PROVE  None # [type |-> type, endAt |-> shownOf(p)]
      <4>1. p = None \/ p \in Notice!ToSet(periods)
        BY <1>0
      <4>2. shownOf(p) \in {None} \cup [date : Int \cup {None}, time : Int \cup {None, Broken}]
        BY <1>0, <4>1 DEF Notice!Period
      <4>3. type \in Notice!SummaryType
        BY SummaryTypes
      <4>. HIDE DEF shownOf, type
      <4>. QED  BY <4>2, <4>3, NothingApart
    <3>. HIDE DEF chosen, shownOf, type
    <3>3. ASSUME NEW now \in times, NEW item \in Notice!ListItems(doc, now)
          PROVE  item.summary # None /\ \E p \in chosen(now) : item.summary.endAt = shownOf(p)
      <4>1. PICK p \in chosen(now) : item.summary = [type |-> type, endAt |-> shownOf(p)]
        BY <3>1
      <4>2. item.summary.endAt = shownOf(p)
        BY <4>1
      <4>3. item.summary # None
        BY <3>2, <4>1
      <4>. QED  BY <4>2, <4>3
    <3>. QED  BY <3>3
  <2>6. asks /\ deadlines = {} => \A now \in times : chosen(now) = {None}
    BY DEF Notice!SelectEffectivePeriod
  <2>7. asks /\ deadlines # {} =>
          \A now \in times : chosen(now) = Notice!EffectiveDeadline(deadlines, now)
    <3>1. periods = <<>> => deadlines = {}
      BY DEF Notice!ToSet
    <3>. QED  BY <3>1 DEF Notice!SelectEffectivePeriod
  <2>8. \A p \in deadlines : shownOf(p) = [date |-> p.endDate, time |-> p.endTime]
    BY <1>0 DEF Notice!IsCandidate
  <2>9. \A p \in deadlines : shownOf(p) # None /\ endOf(shownOf(p)) = Notice!PeriodEnd(p)
    <3>1. ASSUME NEW p \in deadlines
          PROVE  shownOf(p) # None /\ endOf(shownOf(p)) = Notice!PeriodEnd(p)
      <4>1. shownOf(p) = [date |-> p.endDate, time |-> p.endTime]
        BY <2>8
      <4>2. p.endDate \in Int \cup {None} /\ p.endTime \in Int \cup {None, Broken}
        BY <1>0 DEF Notice!Period
      <4>3. shownOf(p) # None
        BY <4>1, <4>2, NothingApart
      <4>4. endOf(shownOf(p)) = Notice!PeriodEnd(p)
        BY <4>1 DEF Notice!PeriodEnd
      <4>. QED  BY <4>3, <4>4
    <3>. QED  BY <3>1
  <2>10. \A now \in times : Notice!EffectiveDeadline(deadlines, now) \subseteq deadlines
    BY DEF Notice!EffectiveDeadline, Notice!Latest
  <2>11. \A p \in deadlines : Notice!PeriodEnd(p) # Broken => Notice!PeriodEnd(p) \in Int
    <3>1. ASSUME NEW p \in deadlines
          PROVE p.endDate \in Int /\ p.endTime \in Int \cup {None, Broken}
      BY <1>0 DEF Notice!IsCandidate, Notice!Period
    <3>. QED  BY <3>1, NothingApart DEF Notice!PeriodEnd
  <2>. HIDE DEF deadlines, chosen, shownOf, type, page, periods, asks, endOf
  <2>12. ASSUME NEW now \in times, NEW item \in Notice!ListItems(doc, now), asks
         PROVE  item.summary.endAt = None <=> deadlines = {}
    <3>1. CASE deadlines = {}
      BY <2>4, <2>6, <2>12, <3>1 DEF shownOf
    <3>2. CASE deadlines # {}
      BY <2>4, <2>7, <2>9, <2>10, <2>12, <3>2
    <3>. QED  BY <3>1, <3>2
  <2>13. ASSUME NEW now \in times, NEW item \in Notice!ListItems(doc, now), asks,
                \A p \in deadlines : Notice!PeriodEnd(p) # Broken, deadlines # {}
         PROVE  LET shown == endOf(item.summary.endAt)
                IN /\ \A p \in deadlines : Notice!PeriodEnd(p) >= now =>
                         shown >= now /\ shown <= Notice!PeriodEnd(p)
                   /\ \A later \in {t \in times : t > now} :
                         \A next \in Notice!ListItems(doc, later) : endOf(next.summary.endAt) >= shown
    <3>1. \A p \in deadlines : Notice!PeriodEnd(p) \in Int
      BY <2>11, <2>13
    <3>2. ASSUME NEW t \in times, NEW i \in Notice!ListItems(doc, t)
          PROVE  \E e \in Notice!EffectiveDeadline(deadlines, t) :
                   /\ e \in deadlines
                   /\ endOf(i.summary.endAt) = Notice!PeriodEnd(e)
      BY <2>4, <2>7, <2>9, <2>10, <2>13
    <3>3. ASSUME NEW t \in times, NEW i \in Notice!ListItems(doc, t)
          PROVE  \E e \in deadlines :
                   /\ endOf(i.summary.endAt) = Notice!PeriodEnd(e)
                   /\ \/ /\ Notice!PeriodEnd(e) >= t
                         /\ \A p \in deadlines : Notice!PeriodEnd(p) >= t =>
                                        Notice!PeriodEnd(e) <= Notice!PeriodEnd(p)
                      \/ \A p \in deadlines : /\ Notice!PeriodEnd(p) < t
                                              /\ Notice!PeriodEnd(p) <= Notice!PeriodEnd(e)
      <4>1. t \in Int /\ Broken \notin Int
        BY NothingApart
      <4>. QED  BY <2>13, <3>1, <3>2, <4>1, DeadlineChosen
    <3>4. PICK e \in deadlines :
             /\ endOf(item.summary.endAt) = Notice!PeriodEnd(e)
             /\ \/ /\ Notice!PeriodEnd(e) >= now
                   /\ \A p \in deadlines : Notice!PeriodEnd(p) >= now =>
                                        Notice!PeriodEnd(e) <= Notice!PeriodEnd(p)
                \/ \A p \in deadlines : /\ Notice!PeriodEnd(p) < now
                                        /\ Notice!PeriodEnd(p) <= Notice!PeriodEnd(e)
      BY <3>3
    <3>5. now \in Int
      OBVIOUS
    <3>6. ASSUME NEW p \in deadlines, Notice!PeriodEnd(p) >= now
          PROVE  Notice!PeriodEnd(e) >= now /\ Notice!PeriodEnd(e) <= Notice!PeriodEnd(p)
      BY <3>1, <3>4, <3>5, <3>6
    <3>7. ASSUME NEW later \in times, later > now, NEW next \in Notice!ListItems(doc, later)
          PROVE  endOf(next.summary.endAt) >= Notice!PeriodEnd(e)
      <4>1. PICK f \in deadlines :
               /\ endOf(next.summary.endAt) = Notice!PeriodEnd(f)
               /\ \/ /\ Notice!PeriodEnd(f) >= later
                     /\ \A p \in deadlines : Notice!PeriodEnd(p) >= later =>
                                        Notice!PeriodEnd(f) <= Notice!PeriodEnd(p)
                  \/ \A p \in deadlines : /\ Notice!PeriodEnd(p) < later
                                          /\ Notice!PeriodEnd(p) <= Notice!PeriodEnd(f)
        BY <3>3
      <4>2. later \in Int /\ Notice!PeriodEnd(e) \in Int /\ Notice!PeriodEnd(f) \in Int
        BY <3>1
      <4>3. CASE Notice!PeriodEnd(f) >= later
        <5>1. Notice!PeriodEnd(f) >= now
          BY <3>5, <3>7, <4>2, <4>3
        <5>2. Notice!PeriodEnd(e) <= Notice!PeriodEnd(f)
          BY <3>4, <3>5, <4>2, <5>1
        <5>. QED  BY <4>1, <4>2, <5>2
      <4>4. CASE \A p \in deadlines : Notice!PeriodEnd(p) <= Notice!PeriodEnd(f)
        <5>1. Notice!PeriodEnd(e) <= Notice!PeriodEnd(f)
          BY <4>4
        <5>. QED  BY <4>1, <4>2, <5>1
      <4>. QED  BY <4>1, <4>3, <4>4
    <3>. QED  BY <3>4, <3>6, <3>7
  <2>14. page.summary # None /\ asks <=> page.summary # None /\ page.summary.type = "action_required"
    BY <2>2 DEF asks
  <2>15. deadlines = {p \in Notice!ToSet(page.summary.periods) : Notice!IsCandidate(p)}
    BY <2>2 DEF deadlines
  <2>. QED  BY <1>1, <2>2, <2>4, <2>12, <2>13, <2>14, <2>15 DEF Notice!DeadlineShown, page, endOf
<1>. QED  BY <1>2, <1>3

-----------------------------------------------------------------------------
(* The structure file of a festival *)

LEMMA SiftedOnMap ==
  ASSUME NEW T, NEW s \in Seq(T), NEW S, S \subseteq DOMAIN s
  PROVE  /\ DOMAIN Map!AtPlaces(s, S) = 1 .. Cardinality(S)
         /\ Cardinality(S) \in Nat
         /\ {Map!AtPlaces(s, S)[k] : k \in DOMAIN Map!AtPlaces(s, S)} = {s[i] : i \in S}
<1>1. \A V : Map!Cardinality(V) = Cardinality(V)
  BY DEF Map!Cardinality, Cardinality
<1>2. \A k : Map!Nth(S, k) = Nth(S, k)
  BY <1>1 DEF Map!Nth, Nth
<1>3. Map!AtPlaces(s, S) = AtPlaces(s, S)
  BY <1>1, <1>2 DEF Map!AtPlaces, AtPlaces
<1>4. DOMAIN s \subseteq Nat /\ IsFiniteSet(DOMAIN s)
  <2>1. DOMAIN s = 1 .. Len(s) /\ Len(s) \in Nat
    OBVIOUS
  <2>. QED  BY <2>1, FS_Interval
<1>5. IsFiniteSet(S)
  BY <1>4, FS_Subset
<1>6. DOMAIN s \subseteq Nat /\ S \subseteq DOMAIN s
  BY <1>4
<1>7. /\ DOMAIN AtPlaces(s, S) = 1 .. Cardinality(S)
      /\ {AtPlaces(s, S)[k] : k \in DOMAIN AtPlaces(s, S)} = {s[i] : i \in S}
  BY <1>5, <1>6, Sifted
<1>. QED  BY <1>3, <1>5, <1>7, FS_CardinalityType

\* What has one element, or no two.
LEMMA MapOne ==
  ASSUME NEW S
  PROVE  /\ (\E e : S = {e}) => Map!Cardinality(S) = 1
         /\ (\A e, f \in S : e = f) => Map!Cardinality(S) <= 1
<1>1. Map!Cardinality(S) = Cardinality(S)
  BY DEF Map!Cardinality, Cardinality
<1>2. (\E e : S = {e}) => Cardinality(S) = 1
  BY FS_Singleton
<1>3. (\A e, f \in S : e = f) => S = {} \/ \E e : S = {e}
  <2>1. SUFFICES ASSUME \A e, f \in S : e = f, S # {} PROVE \E e : S = {e}
    OBVIOUS
  <2>2. PICK e \in S : TRUE
    BY <2>1
  <2>3. S = {e}
    BY <2>1, <2>2
  <2>. QED  BY <2>3
<1>4. (\A e, f \in S : e = f) => Cardinality(S) <= 1
  <2>1. S = {} => Cardinality(S) = 0
    BY FS_EmptySet
  <2>. QED  BY <1>2, <1>3, <2>1
<1>. QED  BY <1>1, <1>2, <1>4

\* Two options that hold an instant are one: the earliest that starts after one
\* of them starts after it has ended, and the other starts no sooner.
LEMMA OneOption ==
  ASSUME NEW options \in Seq(Map!FacetOption), Map!Apart(options),
         NEW a \in DOMAIN options, NEW b \in DOMAIN options, a \in Map!Before(options, b),
         NEW start, Map!InWindow(options[a], start), Map!InWindow(options[b], start), start \in Int
  PROVE  FALSE
<1>. DEFINE before(j) == Map!Before(options, j)
            after == {j \in DOMAIN options : a \in before(j)}
            starts == {options[j].from : j \in after}
<1>1. /\ DOMAIN options \subseteq Nat
      /\ \A j \in DOMAIN options : options[j].from \in Nat /\ options[j].until \in Nat
  <2>1. \A j \in DOMAIN options : options[j] \in Map!FacetOption
    OBVIOUS
  <2>. QED  BY <2>1 DEF Map!FacetOption
<1>2. \A i, j \in DOMAIN options :
         i \in before(j) <=> \/ options[i].from < options[j].from
                             \/ options[i].from = options[j].from /\ i < j
  BY DEF Map!Before
<1>3. starts \subseteq Nat /\ starts # {}
  BY <1>1 DEF Map!Before
<1>4. PICK m \in starts : \A n \in starts : m <= n
  BY <1>3, HasLeast
<1>. DEFINE earliest == {j \in after : options[j].from = m}
<1>5. earliest \subseteq Nat /\ earliest # {}
  BY <1>1
<1>6. PICK k \in earliest : \A n \in earliest : k <= n
  BY <1>5, HasLeast
<1>7. k \in DOMAIN options /\ a \in before(k) /\ \A j \in after : options[k].from <= options[j].from
  BY <1>4, <1>6
<1>8. \A j \in after : options[j].from = options[k].from => k <= j
  BY <1>6
<1>9. before(k) = before(a) \cup {a}
  <2>1. before(k) \subseteq DOMAIN options /\ before(a) \subseteq DOMAIN options
    BY DEF Map!Before
  <2>. HIDE DEF before
  <2>2. ASSUME NEW j \in DOMAIN options, j \in before(k), j # a PROVE j \in before(a)
    <3>1. j \notin before(a) => a \in before(j)
      BY <1>1, <1>2, <2>2
    <3>2. a \in before(j) => FALSE
      <4>1. a \in before(j) => options[k].from <= options[j].from
        BY <1>7
      <4>2. a \in before(j) => (options[j].from = options[k].from => k <= j)
        BY <1>8
      <4>. QED  BY <1>1, <1>2, <1>7, <2>2, <4>1, <4>2
    <3>. QED  BY <3>1, <3>2
  <2>3. ASSUME NEW j \in before(a) PROVE j \in before(k)
    <3>1. j \in DOMAIN options /\ j \in Nat /\ a \in Nat /\ k \in Nat
      BY <1>1, <1>7, <2>1, <2>3
    <3>2. /\ options[j].from \in Nat /\ options[a].from \in Nat /\ options[k].from \in Nat
      BY <1>1, <1>7, <3>1
    <3>3. \/ options[j].from < options[a].from
          \/ options[j].from = options[a].from /\ j < a
      BY <1>2, <2>3, <3>1
    <3>4. \/ options[a].from < options[k].from
          \/ options[a].from = options[k].from /\ a < k
      BY <1>2, <1>7, <3>1
    <3>5. \/ options[j].from < options[k].from
          \/ options[j].from = options[k].from /\ j < k
      BY <3>1, <3>2, <3>3, <3>4
    <3>. QED  BY <1>2, <1>7, <3>1, <3>5
  <2>. QED  BY <1>7, <2>1, <2>2, <2>3
<1>10. options[k].from >= options[a].until
  BY <1>7, <1>9 DEF Map!Apart
<1>11. options[k].from <= options[b].from
  BY <1>7
<1>12. start < options[a].until /\ options[b].from <= start
  BY DEF Map!InWindow
<1>. HIDE DEF before, after, starts, earliest
<1>. QED  BY <1>1, <1>7, <1>10, <1>11, <1>12

\* An opening is listed under one day at most.
LEMMA OneDayPerWindow ==
  ASSUME NEW c, Map!IsConfig(c), Map!ValidConfig(c), NEW starts, starts \subseteq Int
  PROVE  Map!OneDayPerWindow(c, starts)
<1>1. SUFFICES ASSUME NEW i \in DOMAIN c.facets, c.facets[i].source = "hours", NEW start \in starts
               PROVE  Map!Cardinality({o \in Map!ToSet(c.facets[i].options) :
                                          Map!InWindow(o, start)}) <= 1
  BY DEF Map!OneDayPerWindow
<1>. DEFINE options == c.facets[i].options
            holding == {o \in Map!ToSet(options) : Map!InWindow(o, start)}
<1>2. options \in Seq(Map!FacetOption) /\ Map!Apart(options)
  <2>1. c.facets[i] \in Map!FacetDef
    BY <1>1 DEF Map!IsConfig
  <2>. QED  BY <1>1, <2>1 DEF Map!FacetDef, Map!ValidConfig, Map!ValidFacet
<1>. HIDE DEF options
<1>3. ASSUME NEW o \in holding, NEW p \in holding PROVE o = p
  <2>1. PICK a \in DOMAIN options, b \in DOMAIN options : o = options[a] /\ p = options[b]
    BY DEF Map!ToSet
  <2>2. a = b \/ a \in Map!Before(options, b) \/ b \in Map!Before(options, a)
    <3>0. options[a] \in Map!FacetOption /\ options[b] \in Map!FacetOption
      BY <1>2
    <3>1. a \in Nat /\ b \in Nat /\ options[a].from \in Nat /\ options[b].from \in Nat
      BY <1>2, <3>0 DEF Map!FacetOption
    <3>. QED  BY <3>1 DEF Map!Before
  <2>3. Map!InWindow(options[a], start) /\ Map!InWindow(options[b], start) /\ start \in Int
    BY <2>1
  <2>. QED  BY <1>2, <2>1, <2>2, <2>3, OneOption
<1>. HIDE DEF holding
<1>4. Map!Cardinality(holding) <= 1
  BY <1>3, MapOne
<1>. QED  BY <1>4 DEF holding, options

\* A chip shows layers of the festival, and its list filters by what is sent.
LEMMA ChipsResolve ==
  ASSUME NEW c, Map!IsConfig(c), Map!ValidConfig(c)
  PROVE  Map!ChipsResolve(c)
<1>. DEFINE base == {"building_numbers"}
            specs == Map!Specs(c)
            on == {j \in DOMAIN c.layers : c.layers[j].on # "never"}
            filtered(i) == {j \in DOMAIN c.chips[i].list.facetIds :
                              c.chips[i].list.facetIds[j] \in Map!Ids(c.facets)}
<1>1. /\ Map!UniqueIds(specs)
      /\ \A i \in DOMAIN specs : Map!ToSet(specs[i].layerIds) \subseteq Map!ServedLayers(c) \ base
  BY DEF Map!ValidConfig, Map!ValidSpecs, Map!ValidLayers, Map!ServedLayers
<1>2. /\ specs[1] = Map!Reset(c)
      /\ DOMAIN specs = 1 .. Len(c.chips) + 1 /\ Len(c.chips) \in Nat
      /\ \A i \in 1 .. Len(c.chips) :
            /\ specs[i + 1].layerIds = c.chips[i].layerIds
            /\ specs[i + 1].list =
                 IF c.chips[i].list = None THEN None
                 ELSE [facets |-> Map!AtPlaces(c.chips[i].list.facetIds, filtered(i)),
                       scope |-> c.chips[i].list.scope]
  <2>1. c.chips \in Seq(Map!ChipDef)
    BY DEF Map!IsConfig
  <2>2. Len(c.chips) \in Nat /\ DOMAIN c.chips = 1 .. Len(c.chips)
    BY <2>1
  <2>. DEFINE chipOf(i) ==
                [id |-> c.chips[i].id, layerIds |-> c.chips[i].layerIds,
                 list |-> IF c.chips[i].list = None THEN None
                          ELSE [facets |-> Map!AtPlaces(c.chips[i].list.facetIds, filtered(i)),
                                scope |-> c.chips[i].list.scope]]
              tail == [i \in DOMAIN c.chips |-> chipOf(i)]
  <2>3. specs = <<Map!Reset(c)>> \o tail
    BY DEF Map!Specs, Map!Sift
  <2>. HIDE DEF chipOf, specs
  <2>4. /\ specs[1] = Map!Reset(c) /\ DOMAIN specs = 1 .. Len(c.chips) + 1
        /\ \A i \in 1 .. Len(c.chips) : specs[i + 1] = chipOf(i)
    BY <2>2, <2>3
  <2>5. \A i : /\ chipOf(i).layerIds = c.chips[i].layerIds
               /\ chipOf(i).list =
                    IF c.chips[i].list = None THEN None
                    ELSE [facets |-> Map!AtPlaces(c.chips[i].list.facetIds, filtered(i)),
                          scope |-> c.chips[i].list.scope]
    BY DEF chipOf
  <2>. HIDE DEF filtered
  <2>. QED  BY <2>2, <2>4, <2>5
<1>3. specs[1].layerIds # <<>> /\ specs[1].list = None
  <2>. DEFINE kept == Map!AtPlaces(c.layers, on)
  <2>1. DOMAIN kept = 1 .. Cardinality(on) /\ Cardinality(on) \in Nat
        /\ {kept[k] : k \in DOMAIN kept} = {c.layers[j] : j \in on}
    <3>1. c.layers \in Seq(Map!LayerDef) /\ on \subseteq DOMAIN c.layers
      BY DEF Map!IsConfig
    <3>. QED  BY <3>1, SiftedOnMap
  <2>2. on # {}
    BY DEF Map!ValidConfig, Map!ValidLayers
  <2>3. specs[1].layerIds = [j \in DOMAIN kept |-> kept[j].id] /\ specs[1].list = None
    BY <1>2 DEF Map!Reset, Map!Sift
  <2>4. DOMAIN kept # {}
    BY <2>1, <2>2
  <2>. HIDE DEF kept, specs
  <2>5. DOMAIN specs[1].layerIds # {}
    BY <2>3, <2>4
  <2>. QED  BY <2>3, <2>5
<1>4. ASSUME NEW i \in 1 .. Len(c.chips)
      PROVE  /\ specs[i + 1].layerIds # <<>>
             /\ specs[i + 1].list # None /\ specs[i + 1].list.scope # None =>
                   specs[i + 1].list.scope \in Map!ToSet(specs[i + 1].list.facets)
  <2>1. i \in DOMAIN c.chips
    BY DEF Map!IsConfig
  <2>2. specs[i + 1].layerIds # <<>>
    BY <1>2, <2>1 DEF Map!ValidConfig, Map!ValidChip
  <2>3. ASSUME c.chips[i].list # None, c.chips[i].list.scope # None
        PROVE  c.chips[i].list.scope \in
                  Map!ToSet(Map!AtPlaces(c.chips[i].list.facetIds, filtered(i)))
    <3>. DEFINE ids == c.chips[i].list.facetIds
                kept == Map!AtPlaces(ids, filtered(i))
    <3>1. Map!ToSet(ids) \subseteq Map!Ids(c.facets) /\ c.chips[i].list.scope \in Map!ToSet(ids)
      BY <2>1, <2>3 DEF Map!ValidConfig, Map!ValidLists
    <3>2. {kept[k] : k \in DOMAIN kept} = {ids[j] : j \in filtered(i)}
      <4>1. c.chips[i] \in Map!ChipDef
        BY <2>1 DEF Map!IsConfig
      <4>2. ids \in Seq(STRING) /\ filtered(i) \subseteq DOMAIN ids
        BY <2>3, <4>1 DEF Map!ChipDef, Map!ChipList
      <4>. QED  BY <4>2, SiftedOnMap
    <3>3. PICK j \in DOMAIN ids : ids[j] = c.chips[i].list.scope
      BY <3>1 DEF Map!ToSet
    <3>4. j \in filtered(i)
      BY <3>1, <3>3 DEF Map!ToSet
    <3>. HIDE DEF kept, filtered
    <3>5. c.chips[i].list.scope \in {kept[k] : k \in DOMAIN kept}
      BY <3>2, <3>3, <3>4
    <3>. QED  BY <3>5 DEF Map!ToSet, kept
  <2>. HIDE DEF specs, filtered
  <2>4. specs[i + 1].list = IF c.chips[i].list = None THEN None
                 ELSE [facets |-> Map!AtPlaces(c.chips[i].list.facetIds, filtered(i)),
                       scope |-> c.chips[i].list.scope]
    BY <1>2
  <2>. QED  BY <2>2, <2>3, <2>4
<1>. HIDE DEF specs
<1>5. \A i \in DOMAIN specs : i = 1 \/ \E j \in 1 .. Len(c.chips) : i = j + 1
  <2>1. \A i \in 1 .. Len(c.chips) + 1 : i = 1 \/ (i - 1 \in 1 .. Len(c.chips) /\ i = (i - 1) + 1)
    BY <1>2
  <2>. QED  BY <1>2, <2>1
<1>. QED  BY <1>1, <1>3, <1>4, <1>5 DEF Map!ChipsResolve, Map!ServedChips, specs

\* A marker is on a served layer, its tap runs one served chip or opens its detail.
LEMMA MarkersResolve ==
  ASSUME NEW c, Map!IsConfig(c), Map!ValidConfig(c), NEW p
  PROVE  Map!MarkersResolve(c, p) /\ Map!DetailsHavePins(c, p)
<1>. DEFINE shown == Map!PresentationFor(c, p.category)
            specs == Map!Specs(c)
            o == Map!Overlay(c, p)
<1>1. shown \in Map!Presentations(c)
  BY DEF Map!PresentationFor, Map!Presentations
<1>2. Map!ValidPresentation(c, shown)
  BY <1>1 DEF Map!ValidConfig
<1>3. o.layer \in Map!ServedLayers(c) \ {"building_numbers"} /\ o.layer = shown.layer
  BY <1>2 DEF Map!ValidPresentation, Map!Overlay, Map!ServedLayers, Map!ValidConfig, Map!ValidLayers
<1>4. o.tap = Map!Tap(c, p)
  BY DEF Map!Overlay
<1>5. ASSUME o.tap # None, "chip" \in DOMAIN o.tap
      PROVE  \E i \in DOMAIN specs : {j \in DOMAIN specs : specs[j].id = o.tap.chip} = {i}
  <2>1. shown.tapChip # None /\ o.tap = [chip |-> shown.tapChip]
    BY <1>4, <1>5 DEF Map!Tap
  <2>2. o.tap.chip \in Map!Ids(c.chips)
    BY <1>2, <2>1 DEF Map!ValidPresentation
  <2>3. PICK k \in DOMAIN c.chips : c.chips[k].id = o.tap.chip
    BY <2>2 DEF Map!Ids
  <2>4. DOMAIN c.chips = 1 .. Len(c.chips) /\ Len(c.chips) \in Nat
    BY DEF Map!IsConfig
  <2>5. k + 1 \in DOMAIN specs /\ specs[k + 1].id = c.chips[k].id
    BY <2>4 DEF Map!IsConfig, Map!Specs
  <2>6. Map!UniqueIds(specs)
    BY DEF Map!ValidConfig, Map!ValidSpecs
  <2>. HIDE DEF specs, o
  <2>7. \A j \in DOMAIN specs : specs[j].id = specs[k + 1].id => j = k + 1
    BY <2>5, <2>6 DEF Map!UniqueIds, Map!Unique
  <2>. QED  BY <2>3, <2>5, <2>7
<1>6. Map!DetailsHavePins(c, p)
  BY DEF Map!DetailsHavePins, Map!HasDetail, Map!Tap
<1>. QED  BY <1>3, <1>5, <1>6 DEF Map!MarkersResolve, Map!ServedChips

\* A key of orderByOption names one option.
LEMMA OrderUnambiguous ==
  ASSUME NEW c, Map!ValidConfig(c), NEW p
  PROVE  Map!OrderUnambiguous(c, p)
<1>. DEFINE all == Map!Options(c)
<1>1. Map!UniqueIds(all)
  BY DEF Map!ValidConfig, Map!ValidFacets
<1>2. ASSUME NEW k \in Map!OrderKeys(c, p)
      PROVE  Map!Cardinality({i \in DOMAIN all : all[i].id = k}) = 1
  <2>1. PICK i \in DOMAIN all : all[i].id = k
    BY DEF Map!OrderKeys, Map!Ids
  <2>. HIDE DEF all
  <2>2. \A j \in DOMAIN all : all[j].id = k => j = i
    BY <1>1, <2>1 DEF Map!UniqueIds, Map!Unique
  <2>3. {j \in DOMAIN all : all[j].id = k} = {i}
    BY <2>1, <2>2
  <2>. QED  BY <2>3, MapOne
<1>. QED  BY <1>2 DEF Map!OrderUnambiguous

-----------------------------------------------------------------------------
(* The buses *)

\* The copies of Sift in the modules of the buses sift alike.
LEMMA SameSiftWhere ==
  ASSUME NEW s, NEW S
  PROVE  Where!AtPlaces(s, S) = AtPlaces(s, S)
<1>1. \A T : Where!Cardinality(T) = Cardinality(T)
  BY DEF Where!Cardinality, Cardinality
<1>2. \A k : Where!Nth(S, k) = Nth(S, k)
  BY <1>1 DEF Where!Nth, Nth
<1>. QED  BY <1>1, <1>2 DEF Where!AtPlaces, AtPlaces

\* What a poll keeps are elements of what it was given.
LEMMA SiftedThere ==
  ASSUME NEW s, NEW S, S \subseteq DOMAIN s, DOMAIN s \subseteq Nat, IsFiniteSet(S)
  PROVE  /\ DOMAIN Where!AtPlaces(s, S) = 1 .. Cardinality(S) /\ Cardinality(S) \in Nat
         /\ \A k \in DOMAIN Where!AtPlaces(s, S) :
               Nth(S, k) \in S /\ Where!AtPlaces(s, S)[k] = s[Nth(S, k)]
  BY NthPlace, SameSiftWhere DEF AtPlaces

\* The first place that passes, or 0.
LEMMA FirstThere ==
  ASSUME NEW S, S \subseteq Nat, S # {}
  PROVE  Where!Min(S) \in S
  BY HasLeast DEF Where!Min

\* In a finite set under a strict order any two elements of which are ordered, an
\* element's place is given by how many come before it.
LEMMA Placed ==
  ASSUME NEW S, IsFiniteSet(S), NEW R,
         \A a \in S : <<a, a>> \notin R,
         \A a, b, c \in S : <<a, b>> \in R /\ <<b, c>> \in R => <<a, c>> \in R,
         \A a, b \in S : a = b \/ <<a, b>> \in R \/ <<b, a>> \in R
  PROVE  LET place == [k \in S |-> Cardinality({j \in S : <<j, k>> \in R})]
         IN /\ Cardinality(S) \in Nat
            /\ \A k \in S : place[k] \in 0 .. Cardinality(S) - 1
            /\ \A a, b \in S : <<a, b>> \in R <=> place[a] < place[b]
            /\ \A a, b \in S : place[a] = place[b] => a = b
            /\ \A n \in 0 .. Cardinality(S) - 1 : \E k \in S : place[k] = n
<1>. DEFINE before(k) == {j \in S : <<j, k>> \in R}
            place == [k \in S |-> Cardinality(before(k))]
            n == Cardinality(S)
<1>1. n \in Nat
  BY FS_CardinalityType
<1>2. ASSUME NEW k \in S
      PROVE  IsFiniteSet(before(k)) /\ place[k] \in 0 .. n - 1
  <2>1. before(k) \subseteq S /\ k \in S /\ k \notin before(k)
    OBVIOUS
  <2>2. IsFiniteSet(before(k)) /\ Cardinality(before(k)) <= n /\ Cardinality(before(k)) # n
    BY <2>1, FS_Subset
  <2>3. Cardinality(before(k)) \in Nat
    BY <2>2, FS_CardinalityType
  <2>4. place[k] = Cardinality(before(k))
    OBVIOUS
  <2>. HIDE DEF before, place, n
  <2>. QED  BY <1>1, <2>2, <2>3, <2>4
<1>3. ASSUME NEW a \in S, NEW b \in S, <<a, b>> \in R
      PROVE  place[a] < place[b]
  <2>1. before(a) \subseteq before(b) /\ a \in before(b) /\ a \notin before(a)
    BY <1>3
  <2>2. Cardinality(before(a)) <= Cardinality(before(b)) /\ Cardinality(before(a)) # Cardinality(before(b))
    BY <1>2, <2>1, FS_Subset
  <2>3. place[a] \in Int /\ place[b] \in Int
    <3>1. place[a] \in 0 .. n - 1 /\ place[b] \in 0 .. n - 1
      BY <1>2
    <3>. HIDE DEF place, n
    <3>. QED  BY <1>1, <3>1
  <2>4. place[a] = Cardinality(before(a)) /\ place[b] = Cardinality(before(b))
    OBVIOUS
  <2>. HIDE DEF before, place
  <2>. QED  BY <2>2, <2>3, <2>4
<1>5. \A a, b \in S : <<a, b>> \in R => place[a] < place[b]
  BY <1>3
<1>8. \A k \in S : place[k] \in 0 .. n - 1
  BY <1>2
<1>. HIDE DEF place, n
<1>4. \A k \in S : place[k] \in Int /\ place[k] \in 0 .. n - 1
  BY <1>1, <1>8
<1>6. ASSUME NEW a \in S, NEW b \in S
      PROVE  /\ <<a, b>> \in R <=> place[a] < place[b]
             /\ place[a] = place[b] => a = b
  <2>1. place[a] \in Int /\ place[b] \in Int
    BY <1>4
  <2>2. /\ <<a, b>> \in R => place[a] < place[b]
        /\ <<b, a>> \in R => place[b] < place[a]
        /\ a = b \/ <<a, b>> \in R \/ <<b, a>> \in R
    BY <1>5
  <2>. QED  BY <2>1, <2>2
<1>7. \A m \in 0 .. n - 1 : \E k \in S : place[k] = m
  <2>1. place \in [S -> 0 .. n - 1]
    BY <1>2 DEF place
  <2>2. place \in Injection(S, 0 .. n - 1)
    BY <1>6, <2>1 DEF Injection, IsInjective
  <2>3. IsFiniteSet(0 .. n - 1) /\ Cardinality(0 .. n - 1) = n
    <3>1. 0 \in Int /\ n - 1 \in Int
      BY <1>1
    <3>2. IsFiniteSet(0 .. n - 1) /\ Cardinality(0 .. n - 1) = IF 0 > n - 1 THEN 0 ELSE n - 1 - 0 + 1
      BY <3>1, FS_Interval
    <3>. QED  BY <1>1, <3>2
  <2>4. place \in Surjection(S, 0 .. n - 1)
    BY <2>2, <2>3, FS_Injection DEF n
  <2>. QED  BY <2>4 DEF Surjection
<1>. QED  BY <1>1, <1>4, <1>6, <1>7 DEF place, n

\* A Jongro bus is drawn at the first station with the id it was seen at, and the
\* time kept for that station is over once it is more than ten minutes old.
LEMMA JongroWhereReported ==
  ASSUME NEW route, NEW Stop, route.stations \in Seq(Stop), NEW times, NEW Car,
         NEW items, items \in Seq(Car), NEW now \in Int,
         \A id \in DOMAIN times : times[id] \in Int /\ times[id] <= now
  PROVE  Where!JongroWhereReported(route, times, items, now)
<1>. DEFINE stations == route.stations
            mapping == Where!Mapping(route)
            passed == {k \in DOMAIN items : items[k].at \in DOMAIN mapping}
            mapped == Where!AtPlaces(items, passed)
            located == Where!Located(route, times, items, now)
            answer == Where!MapBuses(located)
            places(id) == {i \in 1 .. Len(stations) : stations[i].topisId = id}
<1>1. DOMAIN mapping = {s.topisId : s \in Where!ToSet(stations)}
  BY DEF Where!Mapping
<1>2. \A id \in DOMAIN mapping : /\ mapping[id].sequence \in DOMAIN stations
                                 /\ stations[mapping[id].sequence].topisId = id
  <2>1. ASSUME NEW id \in DOMAIN mapping
        PROVE  mapping[id].sequence = Where!Min(places(id)) /\ places(id) # {}
    <3>1. places(id) # {}
      BY <1>1 DEF Where!ToSet
    <3>. QED  BY <3>1 DEF Where!Mapping, Where!FromOne, Where!SelectInSeq
  <2>2. ASSUME NEW id, places(id) # {} PROVE Where!Min(places(id)) \in places(id)
    <3>. DEFINE S == places(id)
    <3>1. S \subseteq Nat /\ S # {}
      BY <2>2
    <3>. HIDE DEF S
    <3>2. Where!Min(S) \in S
      BY <3>1, FirstThere
    <3>. QED  BY <3>2 DEF S
  <2>3. \A id : \A i \in places(id) : i \in DOMAIN stations /\ stations[i].topisId = id
    OBVIOUS
  <2>. HIDE DEF mapping, places
  <2>. QED  BY <2>1, <2>2, <2>3
<1>3. passed = {k \in DOMAIN items :
                  \E s \in Where!ToSet(stations) : s.topisId = items[k].at}
  <2>1. \A id : id \in DOMAIN mapping <=> \E s \in Where!ToSet(stations) : s.topisId = id
    BY <1>1
  <2>. QED  BY <2>1
<1>4. /\ DOMAIN mapped = 1 .. Cardinality(passed)
      /\ \A k \in DOMAIN mapped : mapped[k].at \in DOMAIN mapping
  <2>1. DOMAIN items \subseteq Nat /\ IsFiniteSet(DOMAIN items) /\ passed \subseteq DOMAIN items
    BY FS_Interval
  <2>2. IsFiniteSet(passed)
    BY <2>1, FS_Subset
  <2>3. /\ DOMAIN mapped = 1 .. Cardinality(passed)
        /\ \A k \in DOMAIN mapped :
              Nth(passed, k) \in passed /\ mapped[k] = items[Nth(passed, k)]
    BY <2>1, <2>2, SiftedThere
  <2>4. \A i \in passed : items[i].at \in DOMAIN mapping
    OBVIOUS
  <2>. HIDE DEF mapped, passed, mapping
  <2>. QED  BY <2>3, <2>4
<1>5. located = [k \in DOMAIN mapped |->
          [sequence |-> mapping[mapped[k].at].sequence,
           stationName |-> mapping[mapped[k].at].stationName,
           car |-> mapped[k].car,
           estimatedTime |-> now - Where!Recorded(times, mapped[k].at, now)]]
  BY DEF Where!Located, Where!Sift
<1>. HIDE DEF mapped, mapping, passed, located
<1>6. DOMAIN answer = DOMAIN mapped
  BY <1>5 DEF Where!MapBuses
<1>7. ASSUME NEW k \in DOMAIN mapped
      PROVE  /\ answer[k].stationIndex = mapping[mapped[k].at].sequence - 1
             /\ answer[k].estimatedTime = now - Where!Recorded(times, mapped[k].at, now)
  BY <1>5 DEF Where!MapBuses
<1>8. ASSUME NEW id PROVE now - Where!Recorded(times, id, now) \in 0 .. Where!StaleMinutes
  <2>1. CASE id \in DOMAIN times /\ now - times[id] <= 600
    <3>1. Where!Recorded(times, id, now) = times[id]
      BY <2>1 DEF Where!Recorded, Where!StaleMinutes
    <3>. DEFINE t == times[id]
    <3>2. t \in Int /\ t <= now /\ now - t <= 600
      BY <2>1
    <3>. HIDE DEF t
    <3>3. now - t \in 0 .. 600
      BY <3>2
    <3>. QED  BY <3>1, <3>3 DEF Where!StaleMinutes, t
  <2>2. CASE ~(id \in DOMAIN times /\ now - times[id] <= 600)
    <3>1. Where!Recorded(times, id, now) = now
      BY <2>2 DEF Where!Recorded, Where!StaleMinutes
    <3>. QED  BY <3>1 DEF Where!StaleMinutes
  <2>. QED  BY <2>1, <2>2
<1>9. Where!Config(route).lastStationIndex = Len(stations) - 1
  BY DEF Where!Config
<1>10. mapped = Where!Sift(items, LAMBDA item :
                             \E s \in Where!ToSet(route.stations) : s.topisId = item.at)
  BY <1>3 DEF Where!Sift, mapped
<1>. HIDE DEF answer
<1>11. ASSUME NEW k \in DOMAIN answer
       PROVE /\ answer[k].stationIndex \in 0 .. Where!Config(route).lastStationIndex
             /\ route.stations[answer[k].stationIndex + 1].topisId = mapped[k].at
             /\ answer[k].estimatedTime \in 0 .. Where!StaleMinutes
  <2>. DEFINE place == mapping[mapped[k].at].sequence
  <2>1. place \in DOMAIN stations /\ stations[place].topisId = mapped[k].at
    BY <1>2, <1>4, <1>6
  <2>2. answer[k].stationIndex = place - 1
    BY <1>6, <1>7
  <2>3. DOMAIN stations = 1 .. Len(stations) /\ Len(stations) \in Nat
    OBVIOUS
  <2>. HIDE DEF place
  <2>4. place \in Int /\ 1 <= place /\ place <= Len(stations) /\ answer[k].stationIndex + 1 = place
    BY <2>1, <2>2, <2>3
  <2>. QED  BY <1>6, <1>7, <1>8, <1>9, <2>1, <2>2, <2>3, <2>4
<1>. QED  BY <1>6, <1>10, <1>11 DEF Where!JongroWhereReported, answer, located

\* Where the name of an entry fits the station its id means, and no other, the
\* first station of that name is the station.
LEMMA EtasWhereNamesTell ==
  ASSUME NEW route, NEW Stop, route.stations \in Seq(Stop),
         NEW list, DOMAIN list \subseteq Nat, IsFiniteSet(DOMAIN list),
         \A i, j \in DOMAIN route.stations :
            route.stations[i].topisId = route.stations[j].topisId => i = j,
         \A k, l \in DOMAIN list : list[k].id = list[l].id => k = l,
         \A k \in DOMAIN list, i \in DOMAIN route.stations :
            route.stations[i].stationName = list[k].name
              <=> route.stations[i].topisId = list[k].id
  PROVE  Where!EtasAtTheirStations(route, list)
<1>. DEFINE stations == route.stations
            named(e) == {i \in 1 .. Len(stations) : stations[i].stationName = e.name}
            Index(e) == IF named(e) # {} THEN Where!Min(named(e)) ELSE 0
            kept == {k \in DOMAIN list : Index(list[k]) # 0 /\ list[k].eta # None}
            found == Where!AtPlaces(list, kept)
            answer == [n \in DOMAIN found |->
                          [stationIndex |-> Index(found[n]) - 1, eta |-> found[n].eta]]
<1>1. Where!StationEtas(route, list) = answer
  BY DEF Where!StationEtas, Where!Sift, Where!SelectInSeq
<1>2. DOMAIN stations = 1 .. Len(stations) /\ Len(stations) \in Nat
  OBVIOUS
<1>3. \A k \in DOMAIN list : Index(list[k]) # 0 =>
        /\ Index(list[k]) \in DOMAIN stations
        /\ stations[Index(list[k])].topisId = list[k].id
  <2>1. ASSUME NEW k \in DOMAIN list, Index(list[k]) # 0
        PROVE  Index(list[k]) \in named(list[k])
    <3>. DEFINE S == named(list[k])
    <3>1. S \subseteq Nat /\ S # {} /\ Index(list[k]) = Where!Min(S)
      BY <1>2, <2>1
    <3>. HIDE DEF S, Index
    <3>2. Where!Min(S) \in S
      BY <3>1, FirstThere
    <3>. QED  BY <3>1, <3>2 DEF S
  <2>2. \A k \in DOMAIN list : \A i \in named(list[k]) :
          i \in DOMAIN stations /\ stations[i].topisId = list[k].id
    BY <1>2
  <2>. HIDE DEF named, Index
  <2>. QED  BY <2>1, <2>2
<1>4. \A k \in DOMAIN list : \A i \in DOMAIN stations :
        stations[i].topisId = list[k].id => Index(list[k]) = i
  <2>1. ASSUME NEW k \in DOMAIN list, NEW i \in DOMAIN stations,
               stations[i].topisId = list[k].id
        PROVE  Index(list[k]) # 0
    <3>. DEFINE S == named(list[k])
    <3>1. i \in S
      BY <1>2, <2>1
    <3>2. S \subseteq Nat \ {0} /\ S # {} /\ Index(list[k]) = Where!Min(S)
      BY <1>2, <3>1
    <3>. HIDE DEF S, Index
    <3>3. Where!Min(S) \in S
      BY <3>2, FirstThere
    <3>. QED  BY <3>2, <3>3
  <2>. HIDE DEF Index
  <2>. QED  BY <1>3, <2>1
<1>5. /\ DOMAIN found = 1 .. Cardinality(kept)
      /\ \A n \in DOMAIN found : Nth(kept, n) \in kept /\ found[n] = list[Nth(kept, n)]
      /\ \A k \in kept : \E n \in DOMAIN found : Nth(kept, n) = k
  <2>1. kept \subseteq DOMAIN list /\ kept \subseteq Nat
    OBVIOUS
  <2>2. IsFiniteSet(kept)
    BY <2>1, FS_Subset
  <2>. HIDE DEF kept
  <2>3. /\ DOMAIN found = 1 .. Cardinality(kept)
        /\ \A n \in DOMAIN found : Nth(kept, n) \in kept /\ found[n] = list[Nth(kept, n)]
    BY <2>1, <2>2, SiftedThere
  <2>4. \A k \in kept : \E n \in 1 .. Cardinality(kept) : Nth(kept, n) = k
    BY <2>1, <2>2, NthPlace
  <2>. QED  BY <2>3, <2>4
<1>6. \A k \in DOMAIN list : k \in kept <=> Index(list[k]) # 0 /\ list[k].eta # None
  OBVIOUS
<1>7. kept \subseteq DOMAIN list
  OBVIOUS
<1>. HIDE DEF found, kept, Index
<1>8. ASSUME NEW k \in DOMAIN list, NEW i \in DOMAIN stations,
             stations[i].topisId = list[k].id, list[k].eta # None
      PROVE  {e.eta : e \in {a \in Where!ToSet(answer) : a.stationIndex = i - 1}}
               = {list[k].eta}
  <2>1. Index(list[k]) = i /\ i \in Nat /\ i # 0
    BY <1>2, <1>4, <1>8
  <2>2. PICK n \in DOMAIN found : Nth(kept, n) = k
    BY <1>5, <1>6, <1>8, <2>1
  <2>3. found[n] = list[k]
    BY <1>5, <2>2
  <2>4. answer[n].stationIndex = i - 1 /\ answer[n].eta = list[k].eta
    BY <2>1, <2>3
  <2>5. ASSUME NEW m \in DOMAIN found, answer[m].stationIndex = i - 1
        PROVE  answer[m].eta = list[k].eta
    <3>. DEFINE l == Nth(kept, m)
    <3>1. l \in kept /\ found[m] = list[l] /\ l \in DOMAIN list
      BY <1>5, <1>7
    <3>. HIDE DEF l
    <3>2. Index(list[l]) # 0 /\ Index(list[l]) - 1 = i - 1
      BY <1>6, <2>5, <3>1
    <3>3. Index(list[l]) \in Nat
      BY <1>2, <1>3, <3>1, <3>2
    <3>4. Index(list[l]) = i
      BY <2>1, <3>2, <3>3
    <3>5. list[l].id = list[k].id
      BY <1>3, <1>8, <3>1, <3>2, <3>4
    <3>6. l = k
      BY <3>1, <3>5
    <3>. QED  BY <3>1, <3>6
  <2>6. Where!ToSet(answer) = {answer[m] : m \in DOMAIN found}
    BY DEF Where!ToSet
  <2>. HIDE DEF answer
  <2>. QED  BY <2>2, <2>4, <2>5, <2>6
<1>. QED  BY <1>1, <1>8 DEF Where!EtasAtTheirStations

\* The times the list before has of a line at a stop.
KeptTimes(before, line, stop) ==
    {c.eventDate : c \in {e \in Where!ToSet(before) : e.line = line /\ e.stop = stop}}

\* A bus counts from a report of its line and stop in the list before, or else from
\* its own.
LEMMA SinceReported ==
  ASSUME NEW before, before \in Seq(Where!Position), NEW item \in Where!Report
  PROVE  /\ Where!Since(before, item) \in Int
         /\ Where!Since(before, item) \in IF KeptTimes(before, item.line, item.stop) = {}
                                          THEN {item.date}
                                          ELSE KeptTimes(before, item.line, item.stop)
<1>. DEFINE same == {i \in 1 .. Len(before) :
                        before[i].line = item.line /\ before[i].stop = item.stop}
            at == Where!Min(same)
<1>1. Where!Since(before, item) = IF same = {} THEN item.date
                                  ELSE IF at = 0 THEN item.date ELSE before[at].eventDate
  BY DEF Where!Since, Where!SelectInSeq
<1>2. CASE same = {}
  <2>1. KeptTimes(before, item.line, item.stop) = {}
    BY <1>2 DEF KeptTimes, Where!ToSet
  <2>. QED  BY <1>1, <1>2, <2>1 DEF Where!Report
<1>3. CASE same # {}
  <2>1. same \subseteq Nat
    OBVIOUS
  <2>2. at \in same
    BY <1>3, <2>1, FirstThere
  <2>. HIDE DEF at
  <2>3. at \in 1 .. Len(before) /\ before[at].stop = item.stop /\ before[at].line = item.line /\ at # 0
    BY <2>2
  <2>4. before[at] \in Where!Position /\ before[at] \in Where!ToSet(before)
    BY <2>3 DEF Where!ToSet
  <2>5. Where!Since(before, item) = before[at].eventDate
    BY <1>1, <1>3, <2>3
  <2>6. before[at].eventDate \in KeptTimes(before, item.line, item.stop)
    BY <2>3, <2>4 DEF KeptTimes
  <2>. QED  BY <2>4, <2>5, <2>6 DEF Where!Position
<1>. QED  BY <1>2, <1>3

\* A list of buses reported, at the place of their stop counted from the turn, and of
\* all of them whose time is not over.
Listing(before, items, now, sent) ==
    /\ DOMAIN sent \subseteq Nat /\ IsFiniteSet(DOMAIN sent)
    /\ \A k \in DOMAIN sent :
          /\ sent[k] \in Where!Position
          /\ sent[k].sequence = Where!Linear(sent[k].seq)
          /\ sent[k].eventDate >= now - Where!StaleAfter(sent[k].seq)
          /\ sent[k].eventDate <= now => sent[k].estimatedTime = now - sent[k].eventDate
          /\ \E i \in DOMAIN items :
                /\ items[i].seq = sent[k].seq /\ items[i].line = sent[k].line
                /\ items[i].stop = sent[k].stop
                /\ sent[k].eventDate = Where!Since(before, items[i])
    /\ \A i \in DOMAIN items :
          Where!Since(before, items[i]) >= now - Where!StaleAfter(items[i].seq) =>
            \E k \in DOMAIN sent :
                /\ sent[k].line = items[i].line /\ sent[k].stop = items[i].stop
                /\ sent[k].seq = items[i].seq
                /\ sent[k].eventDate = Where!Since(before, items[i])

\* What a poll makes of a report is such a list (updateHSSCBusList).
LEMMA ListedReported ==
  ASSUME NEW before, before \in Seq(Where!Position),
         NEW items, items \in Seq(Where!Report), NEW now \in Int
  PROVE  Listing(before, items, now, Where!Listed(before, items, now))
<1>. DEFINE sent == Where!Listed(before, items, now)
<1>0. \A n \in 0 .. 10 : Where!Linear(n) \in Int
  BY DEF Where!Linear
<1>. DEFINE Away(t) == IF t <= now THEN now - t ELSE t - now
            Made(item) == [line |-> item.line, stop |-> item.stop, seq |-> item.seq,
                           sequence |-> Where!Linear(item.seq),
                           eventDate |-> Where!Since(before, item),
                           estimatedTime |-> Away(Where!Since(before, item))]
            made == [k \in DOMAIN items |-> Made(items[k])]
            kept == {k \in DOMAIN made : made[k].eventDate >= now - Where!StaleAfter(made[k].seq)}
            list == Where!AtPlaces(made, kept)
<1>1. sent = list
  BY DEF Where!Listed, Where!Sift
<1>. HIDE DEF sent
<1>2. /\ DOMAIN made = DOMAIN items /\ DOMAIN items \subseteq Nat
      /\ IsFiniteSet(DOMAIN items) /\ kept \subseteq DOMAIN made
  BY FS_Interval
<1>3. IsFiniteSet(kept)
  BY <1>2, FS_Subset
<1>9. \A i \in DOMAIN made :
         i \in kept <=> made[i].eventDate >= now - Where!StaleAfter(made[i].seq)
  OBVIOUS
<1>. HIDE DEF kept, made
<1>4. /\ DOMAIN list = 1 .. Cardinality(kept) /\ Cardinality(kept) \in Nat
      /\ \A k \in DOMAIN list : Nth(kept, k) \in kept /\ list[k] = made[Nth(kept, k)]
      /\ \A i \in kept : \E k \in DOMAIN list : Nth(kept, k) = i
  <2>1. kept \subseteq Nat
    BY <1>2
  <2>2. \A i \in kept : \E k \in 1 .. Cardinality(kept) : Nth(kept, k) = i
    BY <1>3, <2>1, NthPlace
  <2>. QED  BY <1>2, <1>3, <2>2, SiftedThere
<1>5. \A i \in DOMAIN items : made[i] = Made(items[i])
  BY DEF made
<1>6. ASSUME NEW item \in Where!Report
      PROVE  /\ Made(item) \in Where!Position
             /\ Made(item).seq = item.seq /\ Made(item).line = item.line /\ Made(item).stop = item.stop
             /\ Made(item).sequence = Where!Linear(item.seq)
             /\ Made(item).eventDate = Where!Since(before, item)
             /\ Made(item).eventDate <= now => Made(item).estimatedTime = now - Made(item).eventDate
  <2>. DEFINE t == Where!Since(before, item)
  <2>1. t \in Int
    BY SinceReported
  <2>2. item.seq \in 0 .. 10 /\ item.line \in Int /\ item.stop \in Int
    BY DEF Where!Report
  <2>3. Where!Linear(item.seq) \in Int
    BY <1>0, <2>2
  <2>. HIDE DEF t
  <2>4. Away(t) \in Int
    BY <2>1
  <2>. QED  BY <2>1, <2>2, <2>3, <2>4 DEF Where!Position, t
<1>7. ASSUME NEW k \in DOMAIN list
      PROVE  /\ list[k] \in Where!Position
             /\ list[k].sequence = Where!Linear(list[k].seq)
             /\ list[k].eventDate >= now - Where!StaleAfter(list[k].seq)
             /\ list[k].eventDate <= now => list[k].estimatedTime = now - list[k].eventDate
             /\ \E i \in DOMAIN items :
                   /\ items[i].seq = list[k].seq /\ items[i].line = list[k].line
                   /\ items[i].stop = list[k].stop
                   /\ list[k].eventDate = Where!Since(before, items[i])
  <2>. DEFINE i == Nth(kept, k)
  <2>1. /\ i \in DOMAIN items /\ list[k] = Made(items[i])
        /\ list[k].eventDate >= now - Where!StaleAfter(list[k].seq)
    BY <1>2, <1>4, <1>5, <1>9
  <2>2. items[i] \in Where!Report
    BY <2>1
  <2>. HIDE DEF i, Made, list
  <2>. QED  BY <1>6, <2>1, <2>2
<1>8. DOMAIN list \subseteq Nat /\ IsFiniteSet(DOMAIN list)
  BY <1>4, FS_Interval
<1>10. ASSUME NEW i \in DOMAIN items,
              Where!Since(before, items[i]) >= now - Where!StaleAfter(items[i].seq)
       PROVE  \E k \in DOMAIN list :
                 /\ list[k].line = items[i].line /\ list[k].stop = items[i].stop
                 /\ list[k].seq = items[i].seq
                 /\ list[k].eventDate = Where!Since(before, items[i])
  <2>1. items[i] \in Where!Report /\ made[i] = Made(items[i]) /\ i \in DOMAIN made
    BY <1>2, <1>5
  <2>. HIDE DEF list, Made
  <2>2. i \in kept
    BY <1>6, <1>9, <1>10, <2>1
  <2>3. PICK k \in DOMAIN list : Nth(kept, k) = i
    BY <1>4, <2>2
  <2>. QED  BY <1>4, <1>6, <2>1, <2>3
<1>. HIDE DEF list
<1>11. Listing(before, items, now, list)
  BY <1>7, <1>8, <1>10 DEF Listing
<1>. QED  BY <1>1, <1>11 DEF sent

\* So the station it is drawn at is the stop it was reported at.
LEMMA HsscWhereReported ==
  ASSUME NEW before, before \in Seq(Where!Position),
         NEW items, items \in Seq(Where!Report), NEW now \in Int
  PROVE  Where!HsscWhereReported(before, items, now)
<1>. DEFINE list == Where!Listed(before, items, now)
<1>0. Listing(before, items, now, list)
  BY ListedReported
<1>. HIDE DEF list
<1>1. ASSUME NEW k \in DOMAIN list
      PROVE  Where!MapBuses(list)[k].stationIndex = (list[k].seq + 6) % 11
  <2>1. Where!MapBuses(list)[k].stationIndex = Where!Linear(list[k].seq) - 1
    BY <1>0 DEF Listing, Where!MapBuses
  <2>2. list[k].seq \in 0 .. 10
    BY <1>0 DEF Listing, Where!Position
  <2>3. ASSUME NEW n \in 0 .. 10 PROVE Where!Linear(n) - 1 = (n + 6) % 11
    BY DEF Where!Linear
  <2>. QED  BY <2>1, <2>2, <2>3
<1>2. ASSUME NEW k \in DOMAIN list
      PROVE  \E i \in DOMAIN items :
                /\ items[i].seq = list[k].seq
                /\ items[i].line = list[k].line /\ items[i].stop = list[k].stop
                /\ list[k].eventDate \in
                      IF KeptTimes(before, list[k].line, list[k].stop) = {} THEN {items[i].date}
                      ELSE KeptTimes(before, list[k].line, list[k].stop)
  <2>1. PICK i \in DOMAIN items : /\ items[i].seq = list[k].seq /\ items[i].line = list[k].line
                                  /\ items[i].stop = list[k].stop
                                  /\ list[k].eventDate = Where!Since(before, items[i])
    BY <1>0 DEF Listing
  <2>2. items[i] \in Where!Report
    OBVIOUS
  <2>. QED  BY <2>1, <2>2, SinceReported
<1>3. ASSUME NEW k \in DOMAIN list
      PROVE  /\ list[k].eventDate >= now - Where!StaleAfter(list[k].seq)
             /\ list[k].eventDate <= now =>
                   /\ list[k].estimatedTime = now - list[k].eventDate
                   /\ list[k].estimatedTime \in 0 .. Where!StaleAfter(list[k].seq)
  <2>. DEFINE t == list[k].eventDate
              most == Where!StaleAfter(list[k].seq)
  <2>1. /\ list[k] \in Where!Position /\ t >= now - most
        /\ t <= now => list[k].estimatedTime = now - t
    BY <1>0 DEF Listing
  <2>2. t \in Int /\ most \in Int
    BY <2>1 DEF Where!Position, Where!StaleAfter
  <2>. HIDE DEF t, most
  <2>3. t <= now => now - t \in 0 .. most
    BY <2>1, <2>2
  <2>. QED  BY <2>1, <2>3 DEF t, most
<1>4. ASSUME NEW i \in DOMAIN items,
             KeptTimes(before, items[i].line, items[i].stop) = {},
             items[i].date >= now - Where!StaleAfter(items[i].seq)
      PROVE  \E k \in DOMAIN list :
                /\ list[k].line = items[i].line /\ list[k].stop = items[i].stop
                /\ list[k].seq = items[i].seq /\ list[k].eventDate = items[i].date
  <2>1. items[i] \in Where!Report
    OBVIOUS
  <2>2. Where!Since(before, items[i]) = items[i].date
    BY <1>4, <2>1, SinceReported
  <2>3. \A n \in DOMAIN items :
          Where!Since(before, items[n]) >= now - Where!StaleAfter(items[n].seq) =>
            \E k \in DOMAIN list :
                /\ list[k].line = items[n].line /\ list[k].stop = items[n].stop
                /\ list[k].seq = items[n].seq
                /\ list[k].eventDate = Where!Since(before, items[n])
    BY <1>0 DEF Listing
  <2>. QED  BY <1>4, <2>2, <2>3
<1>. QED  BY <1>1, <1>2, <1>3, <1>4 DEF Where!HsscWhereReported, KeptTimes, list

\* What a station is told is of the nearest bus on its way, over any list: the first
\* of the list has nothing nearer, the second the first only, the third the first two.
LEMMA EtaOfNearest ==
  ASSUME NEW list, DOMAIN list \subseteq Nat, IsFiniteSet(DOMAIN list),
         \A k \in DOMAIN list : list[k] \in Where!Position,
         NEW station \in Int, station <= Where!LastStation
  PROVE  Where!EtaOfNearest(station, list)
<1>. DEFINE at(n) == Where!Closest(station, list, n)
            seq(k) == list[k].sequence
            near == {k \in DOMAIN list : seq(k) <= station}
            Nearer(j, k) == \/ seq(j) > seq(k)
                            \/ seq(j) = seq(k) /\ j < k
            R == {p \in near \X near : Nearer(p[1], p[2])}
            place == [k \in near |-> Cardinality({j \in near : <<j, k>> \in R})]
            eta == Where!Eta(station, list)
            Stands(n) == \E b \in Where!ToSet(list) : b.sequence = n
<1>1. /\ \A k \in DOMAIN list : seq(k) \in Int /\ k \in Nat /\ list[k] # None
      /\ IsFiniteSet(near) /\ near \subseteq DOMAIN list
  <2>1. IsFiniteSet(near)
    BY FS_Subset
  <2>2. \A k \in DOMAIN list : list[k].sequence \in Int /\ list[k] # None
    BY NothingApart DEF Where!Position
  <2>. QED  BY <2>1, <2>2
<1>2. \A j, k \in near : <<j, k>> \in R <=> Nearer(j, k)
  OBVIOUS
<1>3. /\ \A j, k \in near : seq(j) \in Int /\ seq(k) \in Int /\ j \in Nat /\ k \in Nat
      /\ \A j \in near : seq(j) <= station
  BY <1>1
<1>. HIDE DEF R, near, seq
<1>4. /\ \A a \in near : <<a, a>> \notin R
      /\ \A a, b, c \in near : <<a, b>> \in R /\ <<b, c>> \in R => <<a, c>> \in R
      /\ \A a, b \in near : a = b \/ <<a, b>> \in R \/ <<b, a>> \in R
  <2>1. ASSUME NEW a \in near, NEW b \in near, NEW c \in near,
               Nearer(a, b), Nearer(b, c)
        PROVE  Nearer(a, c)
    BY <1>3, <2>1
  <2>2. \A a, b \in near : a = b \/ Nearer(a, b) \/ Nearer(b, a)
    BY <1>3
  <2>3. \A a \in near : ~Nearer(a, a)
    BY <1>3
  <2>. HIDE DEF Nearer
  <2>. QED  BY <1>2, <2>1, <2>2, <2>3
<1>5. /\ Cardinality(near) \in Nat
      /\ \A k \in near : place[k] \in 0 .. Cardinality(near) - 1
      /\ \A a, b \in near : <<a, b>> \in R <=> place[a] < place[b]
      /\ \A a, b \in near : place[a] = place[b] => a = b
      /\ \A n \in 0 .. Cardinality(near) - 1 : \E k \in near : place[k] = n
  <2>. HIDE DEF Nearer
  <2>. QED  BY <1>1, <1>4, Placed
<1>6. ASSUME NEW n \in 1 .. 3
      PROVE  \/ at(n) = None /\ \A k \in near : place[k] < n - 1
             \/ \E k \in near : place[k] = n - 1 /\ at(n) = list[k] /\ list[k] # None
  <2>1. \A k \in near : {j \in near : <<j, k>> \in R} =
                          {j \in near : \/ list[j].sequence > list[k].sequence
                                        \/ list[j].sequence = list[k].sequence /\ j < k}
    BY <1>2 DEF seq
  <2>2. \A T : Where!Cardinality(T) = Cardinality(T)
    BY DEF Where!Cardinality, Cardinality
  <2>. DEFINE nth == {k \in near : place[k] = n - 1}
  <2>3. at(n) = IF nth = {} THEN None ELSE list[CHOOSE k \in nth : TRUE]
    <3>. DEFINE before(k) == {j \in near : \/ list[j].sequence > list[k].sequence
                                           \/ list[j].sequence = list[k].sequence /\ j < k}
    <3>1. \A k \in near : place[k] = Where!Cardinality(before(k))
      BY <2>1, <2>2
    <3>. HIDE DEF place
    <3>2. nth = {k \in near : Where!Cardinality(before(k)) = n - 1}
      BY <3>1
    <3>. HIDE DEF nth
    <3>. QED  BY <3>2 DEF Where!Closest, near, seq
  <2>4. CASE nth = {}
    <3>1. ~(n - 1 \in 0 .. Cardinality(near) - 1)
      BY <1>5, <2>4
    <3>2. \A k \in near : place[k] < n - 1
      BY <1>5, <3>1
    <3>. QED  BY <2>3, <2>4, <3>2
  <2>5. CASE nth # {}
    <3>1. (CHOOSE k \in nth : TRUE) \in nth
      BY <2>5
    <3>. QED  BY <1>1, <2>3, <2>5, <3>1
  <2>. QED  BY <2>4, <2>5
<1>7. \A k \in near : Stands(seq(k))
  BY <1>1 DEF Where!ToSet, seq
<1>8. ASSUME NEW n \in Int, n < station, Stands(n)
      PROVE  \E j \in near : seq(j) = n
  BY <1>1, <1>8 DEF Where!ToSet, near, seq
<1>9. \A j, k \in near : seq(j) > seq(k) => place[j] < place[k]
  BY <1>2, <1>5
<1>10. \A k \in near : place[k] \in Nat
  BY <1>5
<1>13. \A x \in Where!ToSet(list) : x.sequence = station =>
          \E j \in near : list[j] = x /\ seq(j) = station
  BY <1>1 DEF Where!ToSet, near, seq
<1>14. \A j \in near : j \in DOMAIN list /\ seq(j) = list[j].sequence
  BY <1>1 DEF seq
<1>. HIDE DEF place, Nearer, Stands
<1>11. CASE at(1) = None
  <2>1. near = {}
    BY <1>1, <1>6, <1>10, <1>11
  <2>2. eta.says = "none"
    BY <1>11 DEF Where!Eta, Where!Stops, Where!NoInfo
  <2>3. \A n \in 1 .. station - 1 : ~Stands(n)
    BY <1>8, <2>1
  <2>. QED  BY <2>2, <2>3 DEF Where!EtaOfNearest, Stands
<1>12. CASE at(1) # None
  <2>1. PICK a \in near : place[a] = 0 /\ at(1) = list[a] /\ list[a] # None
    BY <1>6, <1>12
  <2>2. CASE seq(a) < station
    <3>1. eta.says = "away" /\ eta.stops = station - seq(a)
      BY <2>1, <2>2 DEF Where!Eta, Where!Stops, seq
    <3>2. \A n \in seq(a) + 1 .. station - 1 : ~Stands(n)
      BY <1>3, <1>8, <1>9, <1>10, <2>1
    <3>3. station - eta.stops = seq(a) /\ eta.stops # 0
      BY <1>3, <2>2, <3>1
    <3>4. \A x \in Where!ToSet(list) : x.sequence # station
      BY <1>3, <1>9, <1>10, <1>13, <2>1, <2>2
    <3>. QED  BY <1>7, <3>1, <3>2, <3>3, <3>4 DEF Where!EtaOfNearest, Stands
  <2>3. CASE seq(a) = station /\ list[a].estimatedTime < Where!StaleSeconds
    <3>1. eta.says = "here"
      BY <2>1, <2>3 DEF Where!Eta, Where!Here, seq
    <3>2. list[a] \in Where!ToSet(list)
      BY <1>1 DEF Where!ToSet
    <3>. QED  BY <2>3, <3>1, <3>2 DEF Where!EtaOfNearest, seq
  <2>4. CASE seq(a) = station /\ ~(list[a].estimatedTime < Where!StaleSeconds)
    <3>1. eta = Where!Behind(station, list)
      BY <1>3, <2>1, <2>4 DEF Where!Eta, seq
    <3>2. CASE at(2) = None
      <4>1. eta.says = "none"
        BY <3>1, <3>2 DEF Where!Behind, Where!Stops, Where!NoInfo
      <4>2. \A k \in near : place[k] < 1
        BY <1>6, <3>2, <1>1
      <4>3. \A k \in near : k = a
        BY <1>5, <1>10, <2>1, <4>2
      <4>4. \A n \in 1 .. station - 1 : ~Stands(n)
        BY <1>3, <1>8, <2>4, <4>3
      <4>. QED  BY <4>1, <4>4 DEF Where!EtaOfNearest, Stands
    <3>3. CASE at(2) # None
      <4>1. PICK b \in near : place[b] = 1 /\ at(2) = list[b] /\ list[b] # None
        BY <1>6, <3>3
      <4>2. \A k \in near : place[k] < 1 => k = a
        BY <1>5, <1>10, <2>1
      <4>3. CASE seq(b) # Where!LastStation
        <5>1. eta.says = "away" /\ eta.stops = station - seq(b)
          BY <3>1, <4>1, <4>3 DEF Where!Behind, Where!Stops, seq
        <5>2. \A n \in seq(b) + 1 .. station - 1 : ~Stands(n)
          <6>1. \A j \in near : seq(j) > seq(b) => seq(j) = station
            BY <1>9, <2>4, <4>1, <4>2
          <6>. QED  BY <1>3, <1>8, <6>1
        <5>3. station - eta.stops = seq(b) /\ (eta.stops = 0 <=> seq(b) = station)
          BY <1>3, <5>1
        <5>4. eta.stops = 0 => \E j, k \in DOMAIN list :
                 j # k /\ list[j].sequence = station /\ list[k].sequence = station
          <6>1. a # b
            BY <2>1, <4>1
          <6>. QED  BY <1>14, <2>4, <5>3, <6>1
        <5>5. eta.stops # 0 => \A x \in Where!ToSet(list) :
                 x.sequence = station => ~(x.estimatedTime < Where!StaleSeconds)
          <6>1. ASSUME eta.stops # 0, NEW j \in near, seq(j) = station PROVE j = a
            <7>1. seq(j) > seq(b)
              BY <1>3, <5>3, <6>1
            <7>. QED  BY <1>9, <4>1, <4>2, <6>1, <7>1
          <6>. QED  BY <1>13, <2>4, <6>1
        <5>. QED  BY <1>7, <5>1, <5>2, <5>3, <5>4, <5>5 DEF Where!EtaOfNearest, Stands
      <4>4. CASE seq(b) = Where!LastStation
        <5>1. eta = Where!Stops(station, at(3)) /\ station = Where!LastStation
          BY <1>3, <3>1, <4>1, <4>4 DEF Where!Behind, seq
        <5>2. \A k \in near : place[k] < 2 => seq(k) = station
          <6>1. \A k \in near : place[k] < 2 => place[k] = place[a] \/ place[k] = place[b]
            BY <1>10, <2>1, <4>1
          <6>. QED  BY <1>5, <2>4, <4>4, <5>1, <6>1
        <5>3. CASE at(3) = None
          <6>1. eta.says = "none"
            BY <5>1, <5>3 DEF Where!Stops, Where!NoInfo
          <6>2. \A k \in near : place[k] < 2
            BY <1>1, <1>6, <5>3
          <6>3. \A n \in 1 .. station - 1 : ~Stands(n)
            BY <1>3, <1>8, <5>2, <6>2
          <6>. QED  BY <6>1, <6>3 DEF Where!EtaOfNearest, Stands
        <5>4. CASE at(3) # None
          <6>1. PICK c \in near : place[c] = 2 /\ at(3) = list[c] /\ list[c] # None
            BY <1>6, <5>4
          <6>2. eta.says = "away" /\ eta.stops = station - seq(c)
            BY <5>1, <6>1 DEF Where!Stops, seq
          <6>3. \A n \in seq(c) + 1 .. station - 1 : ~Stands(n)
            <7>1. \A j \in near : seq(j) > seq(c) => seq(j) = station
              BY <1>9, <5>2, <6>1
            <7>. QED  BY <1>3, <1>8, <7>1
          <6>4. station - eta.stops = seq(c) /\ (eta.stops = 0 => seq(c) = station)
            BY <1>3, <6>2
          <6>5. eta.stops = 0 => \E j, k \in DOMAIN list :
                   j # k /\ list[j].sequence = station /\ list[k].sequence = station
            <7>1. a # c
              BY <2>1, <6>1
            <7>. QED  BY <1>14, <2>4, <6>4, <7>1
          <6>. QED  BY <1>7, <5>1, <6>2, <6>3, <6>4, <6>5 DEF Where!EtaOfNearest, Stands
        <5>. QED  BY <5>3, <5>4
      <4>. QED  BY <4>3, <4>4
    <3>. QED  BY <3>2, <3>3
  <2>. QED  BY <1>3, <2>2, <2>3, <2>4
<1>. QED  BY <1>11, <1>12

-----------------------------------------------------------------------------
(* The search *)

LEMMA SearchCounts ==
  \A T : Search!Cardinality(T) = Cardinality(T)
BY DEF Search!Cardinality, Cardinality

LEMMA LeastOfTwo ==
  ASSUME NEW a \in Nat, NEW b \in Nat
  PROVE  Search!Min({a, b}) \in {a, b} /\ Search!Min({a, b}) <= a /\ Search!Min({a, b}) <= b
<1>1. {a, b} \subseteq Nat /\ {a, b} # {}
  OBVIOUS
<1>2. \E m \in {a, b} : \A k \in {a, b} : m <= k
  BY <1>1, HasLeast
<1>. QED  BY <1>2 DEF Search!Min

\* What a band of a limit holds: each row once, in order, and unless all are there as
\* many as the limit allows, none of them below one that is missing.
LEMMA BandOf ==
  ASSUME NEW found, IsFiniteSet(found), NEW rank, NEW limit \in Nat,
         NEW band \in Search!Bands(found, rank, limit)
  PROVE  /\ band \in Seq(found)
         /\ Search!Range(band) \subseteq found /\ IsFiniteSet(Search!Range(band))
         /\ Cardinality(Search!Range(band)) = Len(band)
         /\ Search!Range(band) # found => Len(band) = limit
         /\ \A i, j \in DOMAIN band : i < j => ~Search!Above(rank[band[j]], rank[band[i]])
         /\ \A d \in found \ Search!Range(band), i \in DOMAIN band :
               ~Search!Above(rank[d], rank[band[i]])
<1>. DEFINE n == Cardinality(found)
            m == Search!Min({limit, n})
            there == Search!Range(band)
<1>1. /\ band \in [1 .. m -> found] /\ Search!IsInjective(band)
      /\ \A i, j \in DOMAIN band : i < j => ~Search!Above(rank[band[j]], rank[band[i]])
      /\ \A d \in found \ Search!Range(band), i \in DOMAIN band :
               ~Search!Above(rank[d], rank[band[i]])
  BY SearchCounts DEF Search!Bands
<1>2. n \in Nat /\ m \in Nat /\ m \in {limit, n}
  BY FS_CardinalityType, LeastOfTwo
<1>. HIDE DEF m, n
<1>3. band \in Seq(found) /\ Len(band) = m /\ DOMAIN band = 1 .. m
  BY <1>1, <1>2
<1>4. there \subseteq found /\ there = {band[i] : i \in 1 .. m}
  BY <1>1 DEF Search!Range
<1>5. IsFiniteSet(1 .. m) /\ Cardinality(1 .. m) = m
  BY <1>2, FS_Interval
<1>6. band \in Surjection(1 .. m, there) /\ band \in Injection(1 .. m, there)
  BY <1>1, <1>3, <1>4 DEF Surjection, Injection, IsInjective, Search!IsInjective
<1>7. IsFiniteSet(there) /\ Cardinality(there) = m
  BY <1>5, <1>6, FS_Surjection
<1>8. there # found => m = limit
  BY <1>2, <1>4, <1>7, FS_Subset DEF n
<1>. QED  BY <1>1, <1>3, <1>4, <1>7, <1>8

\* An answer: the rows of a strong band and those of a weak one.
LEMMA ItemsOfBands ==
  ASSUME NEW rows, IsFiniteSet(rows), NEW strong, strong \subseteq rows,
         NEW s, s \in Seq(strong), NEW w, w \in Seq(rows \ strong),
         Cardinality(Search!Range(s)) = Len(s), IsFiniteSet(Search!Range(s)),
         Cardinality(Search!Range(w)) = Len(w), IsFiniteSet(Search!Range(w))
  PROVE  LET items == s \o w
         IN /\ Len(items) = Len(s) + Len(w) /\ DOMAIN items = 1 .. Len(s) + Len(w)
            /\ \A i \in DOMAIN items : \/ i \in DOMAIN s /\ items[i] = s[i]
                                       \/ i \notin DOMAIN s /\ i - Len(s) \in DOMAIN w
                                          /\ items[i] = w[i - Len(s)]
            /\ Search!Range(items) = Search!Range(s) \cup Search!Range(w)
            /\ Search!Range(items) \subseteq rows
            /\ Search!Range(s) \subseteq strong /\ Search!Range(w) \subseteq rows \ strong
            /\ Cardinality(rows) > Len(items) <=> rows \ Search!Range(items) # {}
<1>. DEFINE items == s \o w
            there == Search!Range(items)
<1>1. /\ Len(s) \in Nat /\ DOMAIN s = 1 .. Len(s) /\ Len(w) \in Nat /\ DOMAIN w = 1 .. Len(w)
      /\ \A i \in DOMAIN s : s[i] \in strong
      /\ \A i \in DOMAIN w : w[i] \in rows \ strong
  OBVIOUS
<1>2. /\ Len(items) = Len(s) + Len(w) /\ DOMAIN items = 1 .. Len(s) + Len(w)
      /\ \A i \in 1 .. Len(s) : items[i] = s[i]
      /\ \A i \in 1 .. Len(w) : items[i + Len(s)] = w[i]
      /\ \A i \in Len(s) + 1 .. Len(s) + Len(w) : items[i] = w[i - Len(s)]
  OBVIOUS
<1>. HIDE DEF items
<1>3. \A i \in DOMAIN items : \/ i \in DOMAIN s /\ items[i] = s[i]
                              \/ i \notin DOMAIN s /\ i - Len(s) \in DOMAIN w
                                 /\ items[i] = w[i - Len(s)]
  BY <1>1, <1>2
<1>4. there = Search!Range(s) \cup Search!Range(w)
  <2>1. \A i \in DOMAIN s : i \in DOMAIN items /\ items[i] = s[i]
    BY <1>1, <1>2
  <2>2. ASSUME NEW i \in DOMAIN w PROVE i + Len(s) \in DOMAIN items /\ items[i + Len(s)] = w[i]
    <3>1. i \in 1 .. Len(w) /\ i \in Nat /\ Len(s) \in Nat /\ Len(w) \in Nat
      BY <1>1
    <3>2. i + Len(s) \in 1 .. Len(s) + Len(w)
      BY <3>1
    <3>. QED  BY <1>2, <3>1, <3>2
  <2>. QED  BY <1>3, <2>1, <2>2 DEF Search!Range
<1>5. Search!Range(s) \subseteq strong /\ Search!Range(w) \subseteq rows \ strong
  BY <1>1 DEF Search!Range
<1>6. Cardinality(there) = Len(items) /\ there \subseteq rows
  <2>1. Search!Range(s) \cap Search!Range(w) = {}
    BY <1>5
  <2>2. Cardinality(there) = Len(s) + Len(w) - 0
    BY <1>4, <2>1, FS_Union, FS_EmptySet
  <2>. QED  BY <1>1, <1>2, <1>4, <1>5, <2>2
<1>7. Cardinality(rows) > Len(items) <=> rows \ there # {}
  <2>1. /\ Cardinality(there) <= Cardinality(rows)
        /\ Cardinality(rows) = Cardinality(there) => rows = there
        /\ Cardinality(rows) \in Nat /\ IsFiniteSet(there)
    BY <1>6, FS_Subset, FS_CardinalityType
  <2>2. Cardinality(there) \in Nat
    BY <2>1, FS_CardinalityType
  <2>. HIDE DEF there
  <2>3. rows \ there = {} <=> rows = there
    BY <1>6
  <2>. QED  BY <1>6, <2>1, <2>2, <2>3
<1>. QED  BY <1>2, <1>3, <1>4, <1>5, <1>6, <1>7 DEF items

\* The first tier a room matches; those of its code come first and score the most.
LEMMA RoomScore ==
  ASSUME NEW d
  PROVE  /\ Search!Score(Search!SPACE_TIERS, d) \in Nat
         /\ Search!Score(Search!SPACE_TIERS, d) >= 50 <=> d.code \in {"exact", "prefix"}
<1>. DEFINE tiers == Search!SPACE_TIERS
            hits == {t \in DOMAIN tiers : Search!TierMatches(tiers[t].mode, d[tiers[t].path])}
            first == Search!Min(hits)
            scores == <<60, 50, 40, 30, 20, 10, 5>>
<1>1. DOMAIN tiers = 1 .. 7 /\ \A t \in 1 .. 7 : tiers[t].score = scores[t]
  BY DEF Search!SPACE_TIERS, Search!Tier
<1>2. /\ 1 \in hits <=> d.code = "exact"
      /\ 2 \in hits <=> d.code \in {"exact", "prefix"}
  <2>1. tiers[1] = Search!Tier(60, "code", "exact") /\ tiers[2] = Search!Tier(50, "code", "prefix")
    BY DEF Search!SPACE_TIERS
  <2>2. 1 \in DOMAIN tiers /\ 2 \in DOMAIN tiers
    BY <1>1
  <2>3. /\ 1 \in hits <=> Search!TierMatches("exact", d.code)
        /\ 2 \in hits <=> Search!TierMatches("prefix", d.code)
    BY <2>1, <2>2 DEF Search!Tier
  <2>. QED  BY <2>3 DEF Search!TierMatches
<1>3. Search!Score(tiers, d) = IF hits = {} THEN 0 ELSE tiers[first].score
  BY DEF Search!Score
<1>4. hits \subseteq 1 .. 7
  BY <1>1
<1>5. hits # {} => first \in hits /\ \A t \in hits : first <= t
  <2>1. hits \subseteq Nat
    BY <1>4
  <2>. HIDE DEF hits
  <2>. QED  BY <2>1, HasLeast DEF Search!Min
<1>. HIDE DEF hits, first, tiers
<1>6. CASE hits = {}
  BY <1>2, <1>3, <1>6 DEF tiers
<1>7. CASE hits # {}
  <2>1. first \in 1 .. 7 /\ Search!Score(tiers, d) = scores[first]
    BY <1>1, <1>3, <1>4, <1>5, <1>7
  <2>2. \A t \in 1 .. 7 : scores[t] \in Nat /\ (scores[t] >= 50 <=> t \in {1, 2})
    OBVIOUS
  <2>3. first \in {1, 2} <=> 1 \in hits \/ 2 \in hits
    <3>1. first \in Int /\ first >= 1
      BY <2>1
    <3>. QED  BY <1>5, <1>7, <3>1
  <2>. QED  BY <1>2, <2>1, <2>2, <2>3 DEF tiers
<1>. QED  BY <1>6, <1>7

\* The tiers of a building are what it is found by, and the exact number is the first.
LEMMA BuildingScore ==
  ASSUME NEW d
  PROVE  /\ Search!Score(Search!BUILDING_TIERS, d) \in 0 .. 50
         /\ Search!BuildingKeyword(d) => Search!Score(Search!BUILDING_TIERS, d) > 0
         /\ Search!Score(Search!BUILDING_TIERS, d) = 50 <=> d.displayNo = "exact"
<1>. DEFINE tiers == Search!BUILDING_TIERS
            hits == {t \in DOMAIN tiers : Search!TierMatches(tiers[t].mode, d[tiers[t].path])}
            first == Search!Min(hits)
            scores == <<50, 40, 30, 20, 10>>
<1>1. DOMAIN tiers = 1 .. 5 /\ \A t \in 1 .. 5 : tiers[t].score = scores[t]
  BY DEF Search!BUILDING_TIERS, Search!Tier
<1>2. /\ 1 \in hits <=> d.displayNo = "exact"
      /\ 2 \in hits <=> d.displayNo \in {"exact", "prefix"}
      /\ 4 \in hits <=> d.name # "none"
      /\ 5 \in hits <=> d.description # "none"
  <2>1. /\ tiers[1] = Search!Tier(50, "displayNo", "exact")
        /\ tiers[2] = Search!Tier(40, "displayNo", "prefix")
        /\ tiers[4] = Search!Tier(20, "name", "substring")
        /\ tiers[5] = Search!Tier(10, "description", "substring")
    BY DEF Search!BUILDING_TIERS
  <2>2. 1 \in DOMAIN tiers /\ 2 \in DOMAIN tiers /\ 4 \in DOMAIN tiers /\ 5 \in DOMAIN tiers
    BY <1>1
  <2>3. /\ 1 \in hits <=> Search!TierMatches("exact", d.displayNo)
        /\ 2 \in hits <=> Search!TierMatches("prefix", d.displayNo)
        /\ 4 \in hits <=> Search!TierMatches("substring", d.name)
        /\ 5 \in hits <=> Search!TierMatches("substring", d.description)
    BY <2>1, <2>2 DEF Search!Tier
  <2>. QED  BY <2>3 DEF Search!TierMatches
<1>3. Search!Score(tiers, d) = IF hits = {} THEN 0 ELSE tiers[first].score
  BY DEF Search!Score
<1>4. hits \subseteq 1 .. 5
  BY <1>1
<1>5. hits # {} => first \in hits /\ \A t \in hits : first <= t
  <2>1. hits \subseteq Nat
    BY <1>4
  <2>. HIDE DEF hits
  <2>. QED  BY <2>1, HasLeast DEF Search!Min
<1>. HIDE DEF hits, first, tiers
<1>8. Search!BuildingKeyword(d) => hits # {}
  BY <1>2 DEF Search!BuildingKeyword, Search!TierMatches
<1>6. CASE hits = {}
  BY <1>2, <1>3, <1>6, <1>8 DEF tiers
<1>7. CASE hits # {}
  <2>1. first \in 1 .. 5 /\ Search!Score(tiers, d) = scores[first]
    BY <1>1, <1>3, <1>4, <1>5, <1>7
  <2>2. \A t \in 1 .. 5 : scores[t] \in 1 .. 50 /\ (scores[t] = 50 <=> t = 1)
    OBVIOUS
  <2>3. first = 1 <=> 1 \in hits
    <3>1. first \in Int /\ first >= 1
      BY <2>1
    <3>. QED  BY <1>5, <1>7, <3>1
  <2>. QED  BY <1>2, <2>1, <2>2, <2>3 DEF tiers
<1>. QED  BY <1>6, <1>7

\* No room better than those answered is missing.
LEMMA NothingBetterMissing ==
  ASSUME NEW docs, IsFiniteSet(docs), NEW campus,
         NEW answer \in Search!SearchSpaces(docs, campus)
  PROVE  Search!NothingBetterMissing(docs, campus, answer)
<1>. DEFINE Score(d) == Search!Score(Search!SPACE_TIERS, d)
            Begins(d) == d.code \in {"exact", "prefix"}
            matched == {d \in docs : Search!SpaceKeyword(d)}
            rank == Search!Rank(Search!SPACE_TIERS, "spaceCd", matched)
            rows == Search!OfCampus(campus, matched)
            strong == Search!Strong(rows, rank, 50)
            there == Search!Range(answer.items)
            limits == <<2, 1>>
<1>1. PICK s \in Search!Bands(strong, rank, limits[1]),
           w \in Search!Bands(rows \ strong, rank, limits[2]) :
          answer = Search!ToRankedResult(s \o w, matched, campus)
  <2>1. answer \in Search!Ranked(matched, Search!SPACE_TIERS, "spaceCd", 50, limits, campus)
    BY DEF Search!SearchSpaces, Search!SPACE_STRONG_MIN_SCORE
  <2>. HIDE DEF matched, limits
  <2>2. PICK items \in Search!TwoBands(strong, rows \ strong, rank, limits) :
               answer = Search!ToRankedResult(items, matched, campus)
    BY <2>1 DEF Search!Ranked
  <2>. HIDE DEF rows, strong, rank
  <2>3. PICK s \in Search!Bands(strong, rank, limits[1]),
             w \in Search!Bands(rows \ strong, rank, limits[2]) : items = s \o w
    <3>. DEFINE weak == rows \ strong
    <3>1. items \in Search!TwoBands(strong, weak, rank, limits)
      BY <2>2
    <3>. HIDE DEF weak
    <3>2. \E s \in Search!Bands(strong, rank, limits[1]),
             w \in Search!Bands(weak, rank, limits[2]) : items = s \o w
      BY <3>1 DEF Search!TwoBands
    <3>. QED  BY <3>2 DEF weak
  <2>. QED  BY <2>2, <2>3
<1>2. /\ IsFiniteSet(rows) /\ rows \subseteq matched /\ IsFiniteSet(strong) /\ strong \subseteq rows
      /\ IsFiniteSet(rows \ strong)
  <2>1. rows \subseteq docs /\ strong \subseteq docs /\ rows \ strong \subseteq docs
    BY DEF Search!OfCampus, Search!Strong
  <2>. QED  BY <2>1, FS_Subset DEF Search!OfCampus, Search!Strong
<1>3. rows = {d \in Search!OfCampus(campus, docs) : Search!SpaceKeyword(d)}
  BY DEF Search!OfCampus
<1>4. \A d \in rows : rank[d][1] = Score(d) /\ Score(d) \in Nat /\ (d \in strong <=> Begins(d))
  <2>1. \A d \in rows : rank[d] = <<Score(d), d["spaceCd"]>>
    BY <1>2 DEF Search!Rank
  <2>2. \A d \in rows : rank[d][1] = Score(d)
    <3>. HIDE DEF rank, Score, rows
    <3>. QED  BY <2>1
  <2>3. \A d : Score(d) \in Nat /\ (Score(d) >= 50 <=> Begins(d))
    BY RoomScore
  <2>4. \A d \in rows : d \in strong <=> rank[d][1] >= 50
    BY DEF Search!Strong
  <2>. HIDE DEF rank, strong, Score, Begins, rows
  <2>. QED  BY <2>2, <2>3, <2>4
<1>0. limits[1] = 2 /\ limits[1] \in Nat /\ limits[2] \in Nat
  OBVIOUS
<1>. HIDE DEF Score, rank, rows, strong, matched, limits
<1>5. /\ s \in Seq(strong) /\ Cardinality(Search!Range(s)) = Len(s) /\ IsFiniteSet(Search!Range(s))
      /\ Search!Range(s) # strong => Len(s) = limits[1]
  <2>. DEFINE l == limits[1]
  <2>1. l \in Nat /\ s \in Search!Bands(strong, rank, l)
    BY <1>0, <1>1
  <2>. HIDE DEF l
  <2>2. Search!Range(s) # strong => Len(s) = l
    BY <1>2, <2>1, BandOf
  <2>3. s \in Seq(strong) /\ Cardinality(Search!Range(s)) = Len(s) /\ IsFiniteSet(Search!Range(s))
    BY <1>2, <2>1, BandOf
  <2>. QED  BY <2>2, <2>3 DEF l
<1>6. /\ w \in Seq(rows \ strong) /\ Cardinality(Search!Range(w)) = Len(w) /\ IsFiniteSet(Search!Range(w))
      /\ \A d \in (rows \ strong) \ Search!Range(w), i \in DOMAIN w :
               ~Search!Above(rank[d], rank[w[i]])
  BY <1>0, <1>1, <1>2, BandOf
<1>7. /\ answer.items = s \o w
      /\ Len(s \o w) = Len(s) + Len(w) /\ DOMAIN (s \o w) = 1 .. Len(s) + Len(w)
      /\ \A i \in DOMAIN (s \o w) :
            \/ i \in DOMAIN s /\ (s \o w)[i] = s[i]
            \/ i \notin DOMAIN s /\ i - Len(s) \in DOMAIN w /\ (s \o w)[i] = w[i - Len(s)]
      /\ there = Search!Range(s) \cup Search!Range(w)
      /\ there \subseteq rows
      /\ Search!Range(s) \subseteq strong /\ Search!Range(w) \subseteq rows \ strong
      /\ answer.truncated <=> rows \ there # {}
  <2>1. answer.items = s \o w
        /\ (answer.truncated <=> Search!Cardinality(rows) > Len(s \o w))
    BY <1>1 DEF Search!ToRankedResult, rows
  <2>. QED  BY <1>2, <1>5, <1>6, <2>1, ItemsOfBands, SearchCounts
<1>8. ASSUME NEW i \in DOMAIN answer.items, NEW j \in DOMAIN answer.items,
             Begins(answer.items[j]), i < j
      PROVE  Begins(answer.items[i])
  <2>1. DOMAIN s = 1 .. Len(s) /\ Len(s) \in Nat /\ Len(w) \in Nat
    BY <1>5, <1>6
  <2>2. j \in DOMAIN s
    <3>1. \A k \in DOMAIN w : w[k] \in rows \ strong
      BY <1>6
    <3>. QED  BY <1>1, <1>4, <1>7, <1>8, <3>1
  <2>3. i \in DOMAIN s
    BY <1>1, <1>7, <1>8, <2>1, <2>2
  <2>4. s[i] \in strong /\ answer.items[i] = s[i]
    BY <1>1, <1>5, <1>7, <2>3
  <2>. QED  BY <1>2, <1>4, <2>4
<1>9. ASSUME NEW d \in rows \ there
      PROVE  IF Begins(d) THEN Search!Cardinality({e \in there : Begins(e)}) = 2
             ELSE \A e \in there : Begins(e) \/ Score(e) >= Score(d)
  <2>1. CASE Begins(d)
    <3>1. d \in strong \ Search!Range(s)
      BY <1>4, <1>7, <2>1
    <3>2. Len(s) = 2
      BY <1>0, <1>5, <3>1
    <3>3. {e \in there : Begins(e)} = Search!Range(s)
      BY <1>2, <1>4, <1>7
    <3>. QED  BY <1>5, <2>1, <3>2, <3>3, SearchCounts
  <2>2. CASE ~Begins(d)
    <3>1. d \in (rows \ strong) \ Search!Range(w)
      BY <1>4, <1>7, <2>2
    <3>2. ASSUME NEW e \in there, ~Begins(e) PROVE Score(e) >= Score(d)
      <4>1. e \in Search!Range(w) /\ e \in rows
        BY <1>2, <1>4, <1>7, <3>2
      <4>2. PICK i \in DOMAIN w : w[i] = e
        BY <4>1 DEF Search!Range
      <4>3. ~Search!Above(rank[d], rank[e])
        BY <1>6, <3>1, <4>2
      <4>4. ~(rank[d][1] > rank[e][1])
        BY <4>3 DEF Search!Above
      <4>. QED  BY <1>4, <4>1, <4>4
    <3>. QED  BY <2>2, <3>2
  <2>. QED  BY <2>1, <2>2
<1>. HIDE DEF there
<1>. QED  BY <1>3, <1>7, <1>8, <1>9 DEF Search!NothingBetterMissing, there, Score

\* The building of the number that was typed comes first, and every one is found by
\* what is in its tiers.
LEMMA BuildingOfThatNumber ==
  ASSUME NEW docs, IsFiniteSet(docs), NEW campus,
         NEW answer \in Search!SearchBuildings(docs, campus)
  PROVE  Search!BuildingOfThatNumber(docs, campus, answer)
<1>. DEFINE Score(d) == Search!Score(Search!BUILDING_TIERS, d)
            matched == {d \in docs : Search!BuildingKeyword(d)}
            rank == Search!Rank(Search!BUILDING_TIERS, "_id", matched)
            rows == Search!OfCampus(campus, matched)
            strong == Search!Strong(rows, rank, 20)
            there == Search!Range(answer.items)
            limits == <<2, 1>>
<1>1. PICK s \in Search!Bands(strong, rank, limits[1]),
           w \in Search!Bands(rows \ strong, rank, limits[2]) :
          answer = Search!ToRankedResult(s \o w, matched, campus)
  <2>1. answer \in Search!Ranked(matched, Search!BUILDING_TIERS, "_id", 20, limits, campus)
    BY DEF Search!SearchBuildings, Search!BUILDING_STRONG_MIN_SCORE
  <2>. HIDE DEF matched, limits
  <2>2. PICK items \in Search!TwoBands(strong, rows \ strong, rank, limits) :
               answer = Search!ToRankedResult(items, matched, campus)
    BY <2>1 DEF Search!Ranked
  <2>. HIDE DEF rows, strong, rank
  <2>3. PICK s \in Search!Bands(strong, rank, limits[1]),
             w \in Search!Bands(rows \ strong, rank, limits[2]) : items = s \o w
    <3>. DEFINE weak == rows \ strong
    <3>1. items \in Search!TwoBands(strong, weak, rank, limits)
      BY <2>2
    <3>. HIDE DEF weak
    <3>2. \E s \in Search!Bands(strong, rank, limits[1]),
             w \in Search!Bands(weak, rank, limits[2]) : items = s \o w
      BY <3>1 DEF Search!TwoBands
    <3>. QED  BY <3>2 DEF weak
  <2>. QED  BY <2>2, <2>3
<1>2. /\ IsFiniteSet(rows) /\ rows \subseteq matched /\ IsFiniteSet(strong) /\ strong \subseteq rows
      /\ IsFiniteSet(rows \ strong)
  <2>1. rows \subseteq docs /\ strong \subseteq docs /\ rows \ strong \subseteq docs
    BY DEF Search!OfCampus, Search!Strong
  <2>. QED  BY <2>1, FS_Subset DEF Search!OfCampus, Search!Strong
<1>3. \A d : d \in rows <=> d \in Search!OfCampus(campus, docs) /\ Search!BuildingKeyword(d)
  BY DEF Search!OfCampus
<1>4. \A d \in rows : /\ rank[d][1] = Score(d) /\ Score(d) \in 1 .. 50
                      /\ d \in strong <=> Score(d) >= 20
                      /\ Score(d) = 50 <=> d.displayNo = "exact"
  <2>1. \A d \in rows : rank[d] = <<Score(d), d["_id"]>> /\ Search!BuildingKeyword(d)
    BY <1>2 DEF Search!Rank
  <2>2. \A d \in rows : rank[d][1] = Score(d)
    <3>. HIDE DEF rank, Score, rows
    <3>. QED  BY <2>1
  <2>3. \A d : /\ Score(d) \in 0 .. 50 /\ (Score(d) = 50 <=> d.displayNo = "exact")
               /\ Search!BuildingKeyword(d) => Score(d) > 0
    BY BuildingScore
  <2>4. \A d \in rows : d \in strong <=> rank[d][1] >= 20
    BY DEF Search!Strong
  <2>. HIDE DEF rank, strong, Score, rows
  <2>. QED  BY <2>1, <2>2, <2>3, <2>4
<1>0. limits[1] = 2 /\ limits[1] \in Nat /\ limits[2] \in Nat
  OBVIOUS
<1>. HIDE DEF Score, rank, rows, strong, matched, limits
<1>5. /\ s \in Seq(strong) /\ Cardinality(Search!Range(s)) = Len(s) /\ IsFiniteSet(Search!Range(s))
      /\ \A i, j \in DOMAIN s : i < j => ~Search!Above(rank[s[j]], rank[s[i]])
  BY <1>0, <1>1, <1>2, BandOf
<1>6. /\ w \in Seq(rows \ strong) /\ Cardinality(Search!Range(w)) = Len(w) /\ IsFiniteSet(Search!Range(w))
  BY <1>0, <1>1, <1>2, BandOf
<1>7. /\ answer.items = s \o w
      /\ Len(s \o w) = Len(s) + Len(w) /\ DOMAIN (s \o w) = 1 .. Len(s) + Len(w)
      /\ \A i \in DOMAIN (s \o w) :
            \/ i \in DOMAIN s /\ (s \o w)[i] = s[i]
            \/ i \notin DOMAIN s /\ i - Len(s) \in DOMAIN w /\ (s \o w)[i] = w[i - Len(s)]
      /\ there \subseteq rows
      /\ answer.truncated <=> rows \ there # {}
  <2>1. answer.items = s \o w
        /\ (answer.truncated <=> Search!Cardinality(rows) > Len(s \o w))
    BY <1>1 DEF Search!ToRankedResult, rows
  <2>. QED  BY <1>2, <1>5, <1>6, <2>1, ItemsOfBands, SearchCounts
<1>8. ASSUME NEW i \in DOMAIN answer.items, NEW j \in DOMAIN answer.items,
             i < j, answer.items[j].displayNo = "exact"
      PROVE  answer.items[i].displayNo = "exact"
  <2>1. DOMAIN s = 1 .. Len(s) /\ Len(s) \in Nat /\ Len(w) \in Nat
    BY <1>5, <1>6
  <2>2. j \in DOMAIN s
    <3>1. \A k \in DOMAIN w : w[k] \in rows /\ ~(Score(w[k]) >= 20)
      BY <1>4, <1>6
    <3>2. \A k \in DOMAIN w : w[k].displayNo # "exact"
      BY <1>4, <3>1
    <3>. QED  BY <1>1, <1>7, <1>8, <3>2
  <2>3. i \in DOMAIN s
    BY <1>1, <1>7, <1>8, <2>1, <2>2
  <2>4. /\ s[i] \in rows /\ answer.items[i] = s[i]
        /\ s[j] \in rows /\ answer.items[j] = s[j]
    BY <1>1, <1>2, <1>5, <1>7, <2>2, <2>3
  <2>5. ~(rank[s[j]][1] > rank[s[i]][1])
    BY <1>5, <1>8, <2>2, <2>3 DEF Search!Above
  <2>6. Score(s[j]) = 50 /\ ~(Score(s[j]) > Score(s[i])) /\ Score(s[i]) \in 1 .. 50
    BY <1>4, <1>8, <2>4, <2>5
  <2>7. Score(s[i]) = 50
    BY <2>6
  <2>. QED  BY <1>4, <2>4, <2>7
<1>9. ASSUME NEW b \in there PROVE Score(b) > 0
  <2>1. Score(b) \in 1 .. 50
    BY <1>4, <1>7
  <2>. QED  BY <2>1
<1>10. answer.truncated <=> \E b \in Search!OfCampus(campus, docs) :
              Search!BuildingKeyword(b) /\ b \notin there
  BY <1>3, <1>7
<1>. HIDE DEF there
<1>. QED  BY <1>8, <1>9, <1>10 DEF Search!BuildingOfThatNumber, there, Score

\* A campus counts what it finds.
LEMMA CountsAgree ==
  ASSUME NEW docs, NEW campus
  PROVE  /\ \A answer \in Search!SearchSpaces(docs, campus) :
               Search!CountsAgree(Search!SearchSpaces, docs, answer)
         /\ \A answer \in Search!SearchBuildings(docs, campus) :
               Search!CountsAgree(Search!SearchBuildings, docs, answer)
<1>. DEFINE rooms == {d \in docs : Search!SpaceKeyword(d)}
            houses == {d \in docs : Search!BuildingKeyword(d)}
            limits == <<2, 1>>
<1>1. \A c : /\ Search!SearchSpaces(docs, c) =
                  Search!Ranked(rooms, Search!SPACE_TIERS, "spaceCd", 50, limits, c)
             /\ Search!SearchBuildings(docs, c) =
                  Search!Ranked(houses, Search!BUILDING_TIERS, "_id", 20, limits, c)
  BY DEF Search!SearchSpaces, Search!SPACE_STRONG_MIN_SCORE,
         Search!SearchBuildings, Search!BUILDING_STRONG_MIN_SCORE
<1>2. \A matched, items, c :
         LET answer == Search!ToRankedResult(items, matched, c)
         IN /\ \A d \in Search!Campuses :
                  answer.counts[d] = Search!Cardinality(Search!OfCampus(d, matched))
            /\ answer.total = Search!Cardinality(Search!OfCampus(c, matched))
  BY DEF Search!ToRankedResult
<1>. HIDE DEF rooms, houses, limits
<1>3. ASSUME NEW c, NEW answer \in Search!SearchSpaces(docs, c)
      PROVE  \E items : answer = Search!ToRankedResult(items, rooms, c)
  <2>1. answer \in Search!Ranked(rooms, Search!SPACE_TIERS, "spaceCd", 50, limits, c)
    BY <1>1
  <2>. QED  BY <2>1 DEF Search!Ranked
<1>4. ASSUME NEW c, NEW answer \in Search!SearchBuildings(docs, c)
      PROVE  \E items : answer = Search!ToRankedResult(items, houses, c)
  <2>1. answer \in Search!Ranked(houses, Search!BUILDING_TIERS, "_id", 20, limits, c)
    BY <1>1
  <2>. QED  BY <2>1 DEF Search!Ranked
<1>. QED  BY <1>2, <1>3, <1>4 DEF Search!CountsAgree

LEMMA SameSiftInSearch ==
  ASSUME NEW s, NEW S
  PROVE  Search!AtPlaces(s, S) = AtPlaces(s, S)
<1>1. \A k : Search!Nth(S, k) = Nth(S, k)
  BY SearchCounts DEF Search!Nth, Nth
<1>. QED  BY <1>1, SearchCounts DEF Search!AtPlaces, AtPlaces

LEMMA SearchFinite ==
  \A T : Search!IsFiniteSet(T) <=> IsFiniteSet(T)
BY DEF Search!IsFiniteSet, IsFiniteSet

\* A finite set of numbers has a greatest.
LEMMA Greatest ==
  ASSUME NEW S, S \subseteq Nat, IsFiniteSet(S), S # {}
  PROVE  Search!Max(S) \in S
<1>. DEFINE n == Cardinality(S)
            m == Nth(S, n)
<1>1. n \in Nat /\ n # 0
  BY FS_CardinalityType, FS_EmptySet
<1>2. /\ \A k \in 1 .. n : Nth(S, k) \in S
      /\ \A i \in S : \E k \in 1 .. n : Nth(S, k) = i
      /\ \A k, l \in 1 .. n : k < l => Nth(S, k) < Nth(S, l)
  BY NthPlace
<1>. HIDE DEF n
<1>3. m \in S
  BY <1>1, <1>2
<1>4. ASSUME NEW i \in S PROVE m >= i
  <2>1. PICK k \in 1 .. n : Nth(S, k) = i
    BY <1>2
  <2>2. k = n \/ k < n
    BY <1>1
  <2>3. k < n => i < m
    BY <1>1, <1>2, <2>1
  <2>4. i \in Nat /\ m \in Nat
    BY <1>3
  <2>. QED  BY <2>1, <2>2, <2>3, <2>4
<1>. HIDE DEF m
<1>. QED  BY <1>3, <1>4 DEF Search!Max

\* The least place of those of a set is its first.
LEMMA FirstPlace ==
  ASSUME NEW S, S \subseteq Nat, IsFiniteSet(S), NEW i \in S, \A j \in S : i <= j
  PROVE  1 \in 1 .. Cardinality(S) /\ Nth(S, 1) = i
<1>. DEFINE n == Cardinality(S)
<1>1. /\ n \in Nat
      /\ \A k \in 1 .. n : Nth(S, k) \in S
      /\ \A h \in S : \E k \in 1 .. n : Nth(S, k) = h
      /\ \A k, l \in 1 .. n : k < l => Nth(S, k) < Nth(S, l)
  BY NthPlace
<1>. HIDE DEF n
<1>2. PICK k \in 1 .. n : Nth(S, k) = i
  BY <1>1
<1>3. 1 \in 1 .. n
  BY <1>1
<1>4. 1 < k => Nth(S, 1) < i
  BY <1>1, <1>2, <1>3
<1>5. Nth(S, 1) \in S /\ Nth(S, 1) \in Nat /\ i \in Nat
  BY <1>1, <1>3
<1>. QED  BY <1>1, <1>2, <1>3, <1>4, <1>5 DEF n

\* The groups of a list of rows: one for each building of a row, as it first comes.
LEMMA GroupsOf ==
  ASSUME NEW items, DOMAIN items \subseteq Nat, IsFiniteSet(DOMAIN items), NEW buildings
  PROVE  LET groups == Search!SpaceGroups(items, buildings)
             Seen(k) == \E i \in DOMAIN items : i < k /\ items[i].buildNo = items[k].buildNo
             first == {k \in DOMAIN items : ~Seen(k)}
         IN /\ DOMAIN groups = 1 .. Cardinality(first)
            /\ \A g \in DOMAIN groups :
                  LET b == items[Nth(first, g)].buildNo
                      own == {k \in DOMAIN items : items[k].buildNo = b}
                  IN /\ groups[g].buildNo = b
                     /\ groups[g].skkuId = Search!BuildNoToSkkuId(buildings, b)
                     /\ groups[g].items = AtPlaces(items, own)
<1>. DEFINE Seen(k) == \E i \in DOMAIN items : i < k /\ items[i].buildNo = items[k].buildNo
            places == {k \in DOMAIN items : ~Seen(k)}
            first == AtPlaces(items, places)
            Own(b) == {k \in DOMAIN items : items[k].buildNo = b}
            Group(b) == [buildNo |-> b, skkuId |-> Search!BuildNoToSkkuId(buildings, b),
                         items |-> AtPlaces(items, Own(b))]
            groups == [g \in DOMAIN first |-> Group(first[g].buildNo)]
<1>1. Search!SpaceGroups(items, buildings) = groups
  <2>. DEFINE Theirs(b) == [buildNo |-> b, skkuId |-> Search!BuildNoToSkkuId(buildings, b),
                             items |-> Search!AtPlaces(items, Own(b))]
              begun == Search!AtPlaces(items, places)
  <2>1. Search!SpaceGroups(items, buildings) = [g \in DOMAIN begun |-> Theirs(begun[g].buildNo)]
    BY DEF Search!SpaceGroups, Search!Sift
  <2>2. begun = first /\ \A b : Theirs(b) = Group(b)
    BY SameSiftInSearch
  <2>. HIDE DEF begun, first, Theirs, Group
  <2>. QED  BY <2>1, <2>2
<1>2. DOMAIN first = 1 .. Cardinality(places)
      /\ \A g \in DOMAIN first : first[g] = items[Nth(places, g)]
  BY DEF AtPlaces
<1>3. \A g \in DOMAIN groups : groups[g] = Group(items[Nth(places, g)].buildNo)
  BY <1>2
<1>. HIDE DEF places, first
<1>. QED  BY <1>1, <1>2, <1>3 DEF places

\* A building whose number the rows have is found, and by it the number.
LEMMA BuildingOfNumber ==
  ASSUME NEW buildings, Search!IsBuildings(buildings), NEW buildNo,
         Search!BuildNoToSkkuId(buildings, buildNo) # None
  PROVE  \E b \in buildings :
            b._id = Search!BuildNoToSkkuId(buildings, buildNo) /\ b.buildNo = buildNo
<1>. DEFINE those == {b \in buildings : b.buildNo = buildNo}
            ids == {b._id : b \in those}
            id == [b \in those |-> b._id]
<1>1. IsFiniteSet(those) /\ ids \subseteq Nat
  <2>1. IsFiniteSet(buildings) /\ those \subseteq buildings
    BY SearchFinite DEF Search!IsBuildings
  <2>2. IsFiniteSet(those)
    <3>. HIDE DEF those
    <3>. QED  BY <2>1, FS_Subset
  <2>3. ids \subseteq Nat
    BY DEF Search!IsBuildings
  <2>. QED  BY <2>2, <2>3
<1>2. id \in Surjection(those, ids)
  BY DEF Surjection
<1>3. IsFiniteSet(ids)
  <2>. HIDE DEF those, ids, id
  <2>. QED  BY <1>1, <1>2, FS_Surjection
<1>4. ids # {} /\ Search!BuildNoToSkkuId(buildings, buildNo) = Search!Max(ids)
  BY DEF Search!BuildNoToSkkuId
<1>5. Search!Max(ids) \in ids
  <2>. HIDE DEF ids
  <2>. QED  BY <1>1, <1>3, <1>4, Greatest
<1>. QED  BY <1>4, <1>5

\* An order of a set's elements has them all.
LEMMA AllInOrder ==
  ASSUME NEW T, IsFiniteSet(T), NEW f \in Search!SetToSeqs(T)
  PROVE  /\ DOMAIN f = 1 .. Cardinality(T) /\ Cardinality(T) \in Nat
         /\ \A i \in DOMAIN f : f[i] \in T
         /\ \A i, j \in DOMAIN f : i # j => f[i] # f[j]
         /\ \A t \in T : \E i \in DOMAIN f : f[i] = t
<1>. DEFINE places == 1 .. Cardinality(T)
<1>1. Cardinality(T) \in Nat /\ IsFiniteSet(places) /\ Cardinality(places) = Cardinality(T)
  BY FS_CardinalityType, FS_Interval
<1>2. f \in [places -> T] /\ \A i, j \in places : i # j => f[i] # f[j]
  BY SearchCounts DEF Search!SetToSeqs
<1>. HIDE DEF places
<1>3. f \in Injection(places, T)
  BY <1>2 DEF Injection, IsInjective
<1>4. f \in Surjection(places, T)
  BY <1>1, <1>3, FS_Injection
<1>. QED  BY <1>1, <1>2, <1>4 DEF Surjection, places

\* The page of a building lists its rooms by floor, each floor in its place.
LEMMA FloorsOf ==
  ASSUME NEW docs, Search!IsRooms(docs), NEW buildNo,
         NEW floors \in Search!FloorsByBuildNo(docs, buildNo)
  PROVE  \E all, f :
            /\ IsFiniteSet(all) /\ all \subseteq Search!Floor /\ f \in Search!SetToSeqs(all)
            /\ \A d \in docs : d.buildNo = buildNo => d.floor \in all
            /\ \A i \in 1 .. Len(f) - 1 :
                  Search!FloorSortKey(f[i]) <= Search!FloorSortKey(f[i + 1])
            /\ DOMAIN floors = DOMAIN f
            /\ \A i \in DOMAIN f :
                  /\ floors[i].floor = f[i]
                  /\ \A d \in docs : d.buildNo = buildNo /\ d.floor = f[i] => d \in floors[i].spaces
<1>. DEFINE rooms == {d \in docs : buildNo # None /\ d.buildNo = buildNo}
            all == {d.floor : d \in rooms}
            floor == [d \in rooms |-> d.floor]
            orders == {g \in Search!SetToSeqs(all) : \A i \in 1 .. Len(g) - 1 :
                          Search!FloorSortKey(g[i]) <= Search!FloorSortKey(g[i + 1])}
            Page(f) == [i \in DOMAIN f |->
                           [floor |-> f[i], spaces |-> {d \in rooms : d.floor = f[i]}]]
<1>1. IsFiniteSet(rooms) /\ all \subseteq Search!Floor
  <2>1. IsFiniteSet(docs) /\ rooms \subseteq docs
    BY SearchFinite DEF Search!IsRooms
  <2>2. IsFiniteSet(rooms)
    <3>. HIDE DEF rooms
    <3>. QED  BY <2>1, FS_Subset
  <2>3. all \subseteq Search!Floor
    BY DEF Search!IsRooms
  <2>. QED  BY <2>2, <2>3
<1>2. floor \in Surjection(rooms, all)
  BY DEF Surjection
<1>3. IsFiniteSet(all)
  <2>. HIDE DEF rooms, all, floor
  <2>. QED  BY <1>1, <1>2, FS_Surjection
<1>4. floors \in {Page(f) : f \in orders}
  BY DEF Search!FloorsByBuildNo
<1>5. PICK f \in orders : floors = Page(f)
  <2>. HIDE DEF orders, Page
  <2>. QED  BY <1>4
<1>6. f \in Search!SetToSeqs(all)
      /\ \A i \in 1 .. Len(f) - 1 : Search!FloorSortKey(f[i]) <= Search!FloorSortKey(f[i + 1])
  <2>. HIDE DEF all
  <2>. QED  BY <1>5
<1>7. /\ DOMAIN floors = DOMAIN f
      /\ \A i \in DOMAIN f :
            floors[i].floor = f[i] /\ floors[i].spaces = {d \in rooms : d.floor = f[i]}
  <2>. HIDE DEF orders, rooms
  <2>. QED  BY <1>5
<1>8. \A d \in docs : d.buildNo = buildNo => d \in rooms /\ d.floor \in all
  BY DEF Search!IsRooms
<1>9. \A i \in DOMAIN f, d \in rooms : d.floor = f[i] => d \in floors[i].spaces
  <2>. HIDE DEF rooms
  <2>. QED  BY <1>7
<1>. HIDE DEF rooms, all, orders
<1>. QED  BY <1>1, <1>3, <1>6, <1>7, <1>8, <1>9

\* A room is on its building's page, under its floor.
LEMMA OnItsFloor ==
  ASSUME NEW docs, Search!IsRooms(docs), NEW buildNo,
         NEW floors \in Search!FloorsByBuildNo(docs, buildNo), NEW s \in docs, s.buildNo = buildNo
  PROVE  \E f \in Search!Range(floors) : f.floor = s.floor /\ s \in f.spaces
<1>1. PICK all, f :
         /\ IsFiniteSet(all) /\ f \in Search!SetToSeqs(all)
         /\ \A d \in docs : d.buildNo = buildNo => d.floor \in all
         /\ DOMAIN floors = DOMAIN f
         /\ \A i \in DOMAIN f :
               /\ floors[i].floor = f[i]
               /\ \A d \in docs : d.buildNo = buildNo /\ d.floor = f[i] => d \in floors[i].spaces
  BY FloorsOf
<1>2. PICK i \in DOMAIN f : f[i] = s.floor
  BY <1>1, AllInOrder
<1>3. floors[i] \in Search!Range(floors)
  BY <1>1, <1>2 DEF Search!Range
<1>. QED  BY <1>1, <1>2, <1>3

\* From cellar to roof.
LEMMA FloorsAscend ==
  ASSUME NEW docs, Search!IsRooms(docs), NEW buildNo
  PROVE  Search!FloorsAscend(docs, buildNo)
<1>. DEFINE Key(f) == Search!FloorSortKey(f)
<1>1. SUFFICES ASSUME NEW floors \in Search!FloorsByBuildNo(docs, buildNo),
                      NEW i \in DOMAIN floors, NEW j \in DOMAIN floors, i < j
               PROVE  LET f == floors[i].floor
                          g == floors[j].floor
                      IN /\ f # g
                         /\ f.kind = "other" => g.kind = "other"
                         /\ f.kind = "rooftop" => g.kind \in {"rooftop", "other"}
                         /\ g.kind = "basement" => f.kind = "basement" /\ f.n >= g.n
                         /\ f.kind = "floor" /\ g.kind = "floor" => f.n <= g.n
  BY DEF Search!FloorsAscend
<1>2. PICK all, f :
         /\ IsFiniteSet(all) /\ all \subseteq Search!Floor /\ f \in Search!SetToSeqs(all)
         /\ \A k \in 1 .. Len(f) - 1 :
               Search!FloorSortKey(f[k]) <= Search!FloorSortKey(f[k + 1])
         /\ DOMAIN floors = DOMAIN f
         /\ \A k \in DOMAIN f : floors[k].floor = f[k]
  BY FloorsOf
<1>3. /\ DOMAIN f = 1 .. Cardinality(all) /\ Cardinality(all) \in Nat
      /\ \A k \in DOMAIN f : f[k] \in all
      /\ \A k, l \in DOMAIN f : k # l => f[k] # f[l]
  BY <1>2, AllInOrder
<1>4. Len(f) = Cardinality(all)
  <2>. DEFINE n == Cardinality(all)
  <2>1. n \in Nat /\ DOMAIN f = 1 .. n /\ f \in [1 .. n -> all]
    BY <1>2, <1>3, SearchCounts DEF Search!SetToSeqs
  <2>. HIDE DEF n
  <2>2. f \in Seq(all) /\ Len(f) = n
    BY <2>1
  <2>. QED  BY <2>2 DEF n
<1>5. i \in Nat /\ j \in Nat /\ i \in DOMAIN f /\ j \in DOMAIN f /\ i < j
  BY <1>1, <1>2, <1>3
<1>6. ASSUME NEW h \in Search!Floor
      PROVE  /\ Key(h) \in Int
             /\ h.n \in Nat
             /\ \/ h.kind = "other" /\ Key(h) = 10000
                \/ h.kind = "basement" /\ h.n \in 1 .. 999 /\ Key(h) = -h.n
                \/ h.kind = "floor" /\ h.n \in 1 .. 999 /\ Key(h) = h.n
                \/ h.kind = "rooftop" /\ h.n \in 1 .. 999 /\ Key(h) = 1000 + h.n
  <2>1. \/ h.kind = "other" /\ h.n \in Nat
        \/ h.kind \in {"basement", "floor", "rooftop"} /\ h.n \in 1 .. 999
    BY DEF Search!Floor
  <2>2. /\ h.kind = "basement" => Key(h) = -h.n
        /\ h.kind = "floor" => Key(h) = h.n
        /\ h.kind = "rooftop" => Key(h) = 1000 + h.n
        /\ h.kind = "other" => Key(h) = 10000
    BY DEF Search!FloorSortKey, Search!Infinity
  <2>. DEFINE key == Key(h)
              n == h.n
              kind == h.kind
  <2>3. \/ kind = "other" /\ n \in Nat /\ key = 10000
        \/ kind = "basement" /\ n \in 1 .. 999 /\ key = -n
        \/ kind = "floor" /\ n \in 1 .. 999 /\ key = n
        \/ kind = "rooftop" /\ n \in 1 .. 999 /\ key = 1000 + n
    <3>. HIDE DEF Key
    <3>. QED  BY <2>1, <2>2
  <2>. HIDE DEF key, n, kind
  <2>4. key \in Int /\ n \in Nat
    BY <2>3
  <2>. QED  BY <2>3, <2>4 DEF key, n, kind
<1>7. Key(f[i]) <= Key(f[j])
  <2>. DEFINE Lower == {k \in 1 .. Len(f) : i < k /\ ~(Key(f[i]) <= Key(f[k]))}
  <2>1. \A k \in 1 .. Len(f) : Key(f[k]) \in Int
    BY <1>2, <1>3, <1>4, <1>6
  <2>2. ASSUME Lower # {} PROVE FALSE
    <3>1. Lower \subseteq Nat
      BY <1>3, <1>4
    <3>2. PICK k \in Lower : \A l \in Lower : k <= l
      <4>. HIDE DEF Lower
      <4>. QED  BY <2>2, <3>1, HasLeast
    <3>3. k \in 1 .. Len(f) /\ i < k /\ Len(f) \in Nat
      BY <1>3, <1>4
    <3>4. k - 1 \in 1 .. Len(f) - 1 /\ k - 1 \in 1 .. Len(f) /\ k - 1 + 1 = k
      BY <1>5, <3>3
    <3>5. Key(f[k - 1]) <= Key(f[k])
      BY <1>2, <3>4
    <3>6. k - 1 = i \/ Key(f[i]) <= Key(f[k - 1])
      <4>1. k - 1 \notin Lower
        BY <3>2, <3>3, <3>4
      <4>. QED  BY <1>5, <3>3, <3>4, <4>1
    <3>7. Key(f[k]) \in Int /\ Key(f[k - 1]) \in Int /\ Key(f[i]) \in Int
      BY <1>3, <1>4, <1>5, <2>1, <3>3, <3>4
    <3>8. ~(Key(f[i]) <= Key(f[k]))
      OBVIOUS
    <3>. HIDE DEF Key, Lower
    <3>. QED  BY <3>5, <3>6, <3>7, <3>8
  <2>. QED  BY <1>3, <1>4, <1>5, <2>2
<1>8. f[i] \in Search!Floor /\ f[j] \in Search!Floor /\ f[i] # f[j]
      /\ floors[i].floor = f[i] /\ floors[j].floor = f[j]
  BY <1>2, <1>3, <1>5
<1>. DEFINE h == f[i]
            g == f[j]
<1>9. /\ h \in Search!Floor /\ g \in Search!Floor /\ h # g /\ Key(h) <= Key(g)
      /\ floors[i].floor = h /\ floors[j].floor = g
  BY <1>7, <1>8
<1>. HIDE DEF Key, h, g
<1>10. /\ h.kind = "other" => g.kind = "other"
       /\ h.kind = "rooftop" => g.kind \in {"rooftop", "other"}
       /\ g.kind = "basement" => h.kind = "basement" /\ h.n >= g.n
       /\ h.kind = "floor" /\ g.kind = "floor" => h.n <= g.n
  <2>1. /\ Key(h) \in Int /\ h.n \in Nat
        /\ \/ h.kind = "other" /\ Key(h) = 10000
           \/ h.kind = "basement" /\ h.n \in 1 .. 999 /\ Key(h) = -h.n
           \/ h.kind = "floor" /\ h.n \in 1 .. 999 /\ Key(h) = h.n
           \/ h.kind = "rooftop" /\ h.n \in 1 .. 999 /\ Key(h) = 1000 + h.n
    BY <1>6, <1>9
  <2>2. /\ Key(g) \in Int /\ g.n \in Nat
        /\ \/ g.kind = "other" /\ Key(g) = 10000
           \/ g.kind = "basement" /\ g.n \in 1 .. 999 /\ Key(g) = -g.n
           \/ g.kind = "floor" /\ g.n \in 1 .. 999 /\ Key(g) = g.n
           \/ g.kind = "rooftop" /\ g.n \in 1 .. 999 /\ Key(g) = 1000 + g.n
    BY <1>6, <1>9
  <2>. DEFINE hk == Key(h)
              hn == h.n
              gk == Key(g)
              gn == g.n
  <2>3. hk <= gk
    BY <1>9
  <2>. HIDE DEF hk, hn, gk, gn
  <2>4. /\ hk \in Int /\ hn \in Nat
        /\ \/ h.kind = "other" /\ hk = 10000
           \/ h.kind = "basement" /\ hn \in 1 .. 999 /\ hk = -hn
           \/ h.kind = "floor" /\ hn \in 1 .. 999 /\ hk = hn
           \/ h.kind = "rooftop" /\ hn \in 1 .. 999 /\ hk = 1000 + hn
    BY <2>1 DEF hk, hn
  <2>5. /\ gk \in Int /\ gn \in Nat
        /\ \/ g.kind = "other" /\ gk = 10000
           \/ g.kind = "basement" /\ gn \in 1 .. 999 /\ gk = -gn
           \/ g.kind = "floor" /\ gn \in 1 .. 999 /\ gk = gn
           \/ g.kind = "rooftop" /\ gn \in 1 .. 999 /\ gk = 1000 + gn
    BY <2>2 DEF gk, gn
  <2>6. h.kind = "other" => g.kind = "other"
    BY <2>3, <2>4, <2>5
  <2>7. h.kind = "rooftop" => g.kind \in {"rooftop", "other"}
    BY <2>3, <2>4, <2>5
  <2>8. g.kind = "basement" => h.kind = "basement" /\ hn >= gn
    BY <2>3, <2>4, <2>5
  <2>9. h.kind = "floor" /\ g.kind = "floor" => hn <= gn
    BY <2>3, <2>4, <2>5
  <2>. QED  BY <2>6, <2>7, <2>8, <2>9 DEF hn, gn
<1>. QED  BY <1>9, <1>10

\* A passage of the list leads both ways.
LEMMA PassagesBothWays ==
  ASSUME NEW buildings, Search!IsBuildings(buildings), NEW list,
         NEW before, Search!IsPassages(list), Search!IsPassages(before)
  PROVE  Search!PassagesBothWays(Search!Seeded({}, before, buildings), list, buildings)
<1>. DEFINE Id(name) == Search!NameToId(buildings, name)
            Way(c) == [a |-> Search!End(Id(c.a), c.aFloor), b |-> Search!End(Id(c.b), c.bFloor)]
            Known(l) == {c \in l : None \notin {Id(c.a), Id(c.b)}}
            Brought(l) == {Way(c) : c \in Known(l)}
            seeded == Brought(before) \cup Brought(list)
<1>1. \A connections, l : Search!Seeded(connections, l, buildings) = connections \cup Brought(l)
  BY DEF Search!Seeded
<1>2. ASSUME NEW name, Id(name) # None
      PROVE  \E b \in buildings : b._id = Id(name) /\ b.ko = name
  <2>. DEFINE those == {b \in buildings : b.campus = "hssc" /\ b.ko = name}
              ids == {b._id : b \in those}
              id == [b \in those |-> b._id]
  <2>1. IsFiniteSet(buildings) /\ those \subseteq buildings
    BY SearchFinite DEF Search!IsBuildings
  <2>2. ids \subseteq Nat
    BY DEF Search!IsBuildings
  <2>3. ids # {} /\ Id(name) = Search!Max(ids)
    BY <1>2 DEF Search!NameToId
  <2>4. id \in Surjection(those, ids)
    BY DEF Surjection
  <2>5. Search!Max(ids) \in ids
    <3>. HIDE DEF those, ids, id
    <3>1. IsFiniteSet(those)
      BY <2>1, FS_Subset
    <3>2. IsFiniteSet(ids)
      BY <3>1, <2>4, FS_Surjection
    <3>. QED  BY <2>2, <2>3, <3>2, Greatest
  <2>. HIDE DEF Id
  <2>. QED  BY <2>3, <2>5
<1>3. ASSUME NEW l, Search!IsPassages(l), NEW w \in Brought(l)
      PROVE  w.a.skkuId # w.b.skkuId
  <2>1. PICK c \in Known(l) : w = Way(c)
    OBVIOUS
  <2>2. c.a # c.b /\ Id(c.a) # None /\ Id(c.b) # None
    BY <1>3 DEF Search!IsPassages
  <2>3. w.a.skkuId = Id(c.a) /\ w.b.skkuId = Id(c.b)
    BY <2>1 DEF Search!End
  <2>4. PICK x \in buildings : x._id = Id(c.a) /\ x.ko = c.a
    <3>. HIDE DEF Id
    <3>. QED  BY <1>2, <2>2
  <2>5. PICK y \in buildings : y._id = Id(c.b) /\ y.ko = c.b
    <3>. HIDE DEF Id
    <3>. QED  BY <1>2, <2>2
  <2>. HIDE DEF Id
  <2>. QED  BY <2>2, <2>3, <2>4, <2>5 DEF Search!IsBuildings
<1>4. \A w \in seeded : w.a.skkuId # w.b.skkuId
  <2>. HIDE DEF Brought
  <2>. QED  BY <1>3
<1>. DEFINE all == Search!Seeded({}, before, buildings)
            From(w, id) == [targetSkkuId |-> IF w.a.skkuId = id THEN w.b.skkuId ELSE w.a.skkuId,
                            fromFloor |-> IF w.a.skkuId = id THEN w.a.floor ELSE w.b.floor,
                            toFloor |-> IF w.a.skkuId = id THEN w.b.floor ELSE w.a.floor]
<1>5. Search!Seeded(all, list, buildings) = seeded /\ Search!Seeded(seeded, list, buildings) = seeded
  <2>. HIDE DEF Brought
  <2>. QED  BY <1>1
<1>. HIDE DEF seeded, all
<1>6. \A id : Search!ConnectionsFor(seeded, id) =
         {From(w, id) : w \in {w \in seeded : id \in {w.a.skkuId, w.b.skkuId}}}
  BY DEF Search!ConnectionsFor
<1>7. ASSUME NEW id, NEW way \in Search!ConnectionsFor(seeded, id)
      PROVE  [targetSkkuId |-> id, fromFloor |-> way.toFloor, toFloor |-> way.fromFloor]
                \in Search!ConnectionsFor(seeded, way.targetSkkuId)
  <2>1. PICK w \in seeded : id \in {w.a.skkuId, w.b.skkuId} /\ way = From(w, id)
    BY <1>6
  <2>2. w.a.skkuId # w.b.skkuId
    BY <1>4
  <2>. DEFINE target == way.targetSkkuId
  <2>3. target \in {w.a.skkuId, w.b.skkuId} /\ target # id
    BY <2>1, <2>2
  <2>4. From(w, target) = [targetSkkuId |-> id, fromFloor |-> way.toFloor, toFloor |-> way.fromFloor]
    BY <2>1, <2>2, <2>3
  <2>. HIDE DEF target, From
  <2>5. From(w, target) \in Search!ConnectionsFor(seeded, target)
    BY <1>6, <2>3
  <2>. QED  BY <2>4, <2>5 DEF target
<1>. QED  BY <1>5, <1>7 DEF Search!PassagesBothWays, all

\* Every row has its group, the groups come as their first rows do, and a group's
\* link opens the building that lists its rooms.
LEMMA GroupsOpen ==
  ASSUME NEW docs, Search!IsRooms(docs), NEW buildings, Search!IsBuildings(buildings),
         NEW answer, DOMAIN answer.items \subseteq Nat, IsFiniteSet(DOMAIN answer.items),
         \A k \in DOMAIN answer.items : answer.items[k] \in docs
  PROVE  Search!GroupsOpen(docs, buildings, answer)
<1>. DEFINE items == answer.items
            groups == Search!SpaceGroups(items, buildings)
            Seen(k) == \E i \in DOMAIN items : i < k /\ items[i].buildNo = items[k].buildNo
            first == {k \in DOMAIN items : ~Seen(k)}
            Own(b) == {k \in DOMAIN items : items[k].buildNo = b}
            At(g) == Nth(first, g)
            Number(g) == items[At(g)].buildNo
<1>1. /\ DOMAIN groups = 1 .. Cardinality(first)
      /\ \A g \in DOMAIN groups :
            /\ groups[g].buildNo = Number(g)
            /\ groups[g].skkuId = Search!BuildNoToSkkuId(buildings, Number(g))
            /\ groups[g].items = AtPlaces(items, Own(Number(g)))
  BY GroupsOf
<1>2. /\ DOMAIN items \subseteq Nat /\ IsFiniteSet(DOMAIN items)
      /\ \A k \in DOMAIN items : items[k] \in docs
  OBVIOUS
<1>3. first \subseteq DOMAIN items /\ \A b : Own(b) \subseteq DOMAIN items
  OBVIOUS
<1>. HIDE DEF items, groups
<1>4. /\ first \subseteq Nat /\ IsFiniteSet(first)
      /\ \A b : Own(b) \subseteq Nat /\ IsFiniteSet(Own(b))
  BY <1>2, <1>3, FS_Subset
<1>5. /\ \A k \in first : \A i \in DOMAIN items : i < k => items[i].buildNo # items[k].buildNo
      /\ \A b : \A k \in DOMAIN items : k \in Own(b) <=> items[k].buildNo = b
  OBVIOUS
<1>6. \A k \in DOMAIN items : \E i \in first : items[i].buildNo = items[k].buildNo
  <2>1. SUFFICES ASSUME NEW k \in DOMAIN items
                 PROVE  \E i \in first : items[i].buildNo = items[k].buildNo
    OBVIOUS
  <2>. DEFINE S == Own(items[k].buildNo)
  <2>2. S \subseteq Nat /\ k \in S
    BY <1>4, <1>5
  <2>3. PICK i \in S : \A j \in S : i <= j
    <3>. HIDE DEF S
    <3>. QED  BY <2>2, HasLeast
  <2>4. i \in first
    <3>1. ASSUME NEW j \in DOMAIN items, j < i, items[j].buildNo = items[i].buildNo PROVE FALSE
      <4>1. j \in S /\ i \in Nat /\ j \in Nat
        BY <1>2, <2>3, <3>1
      <4>. QED  BY <2>3, <3>1, <4>1
    <3>. QED  BY <2>3, <3>1
  <2>. QED  BY <2>3, <2>4
<1>. HIDE DEF first, Own
<1>7. /\ \A g \in DOMAIN groups : At(g) \in first /\ At(g) \in DOMAIN items
      /\ \A i \in first : \E g \in DOMAIN groups : At(g) = i
      /\ \A g, h \in DOMAIN groups : g < h => At(g) < At(h)
  <2>1. /\ \A k \in 1 .. Cardinality(first) : Nth(first, k) \in first
        /\ \A i \in first : \E k \in 1 .. Cardinality(first) : Nth(first, k) = i
        /\ \A k, l \in 1 .. Cardinality(first) : k < l => Nth(first, k) < Nth(first, l)
    BY <1>4, NthPlace
  <2>. QED  BY <1>1, <1>3, <2>1
<1>8. \A g, h \in DOMAIN groups : g \in Nat /\ h \in Nat /\ (Number(g) = Number(h) => g = h)
  <2>1. SUFFICES ASSUME NEW g \in DOMAIN groups, NEW h \in DOMAIN groups
                 PROVE  g \in Nat /\ h \in Nat /\ (Number(g) = Number(h) => g = h)
    OBVIOUS
  <2>2. g \in Nat /\ h \in Nat
    BY <1>1, <1>4, FS_CardinalityType
  <2>3. g < h => Number(g) # Number(h)
    BY <1>5, <1>7
  <2>4. h < g => Number(g) # Number(h)
    BY <1>5, <1>7
  <2>. QED  BY <2>2, <2>3, <2>4
<1>9. ASSUME NEW g \in DOMAIN groups
      PROVE  /\ \A row : row \in Search!Range(groups[g].items) <=>
                            \E k \in DOMAIN items : items[k] = row /\ row.buildNo = Number(g)
             /\ groups[g].items[1] = items[At(g)]
  <2>. DEFINE S == Own(Number(g))
              own == AtPlaces(items, S)
  <2>1. groups[g].items = own
    BY <1>1
  <2>2. S \subseteq DOMAIN items /\ S \subseteq Nat /\ IsFiniteSet(S)
        /\ \A k \in DOMAIN items : k \in S <=> items[k].buildNo = Number(g)
    BY <1>3, <1>4, <1>5
  <2>. HIDE DEF S, own
  <2>3. {own[k] : k \in DOMAIN own} = {items[i] : i \in S}
    BY <1>2, <2>2, Sifted DEF own
  <2>4. \A k \in S : At(g) <= k
    <3>1. SUFFICES ASSUME NEW k \in S PROVE At(g) <= k
      OBVIOUS
    <3>2. k \in DOMAIN items /\ items[k].buildNo = Number(g) /\ k \in Nat
      BY <2>2
    <3>3. ~(k < At(g))
      BY <1>5, <1>7, <3>2
    <3>4. At(g) \in Nat
      BY <1>2, <1>7
    <3>. QED  BY <3>2, <3>3, <3>4
  <2>5. At(g) \in S
    BY <1>7, <2>2
  <2>6. 1 \in 1 .. Cardinality(S) /\ Nth(S, 1) = At(g)
    <3>. HIDE DEF At
    <3>. QED  BY <2>2, <2>4, <2>5, FirstPlace
  <2>7. own[1] = items[At(g)]
    BY <2>6 DEF own, AtPlaces
  <2>8. \A row : row \in {items[i] : i \in S} <=>
                    \E k \in DOMAIN items : items[k] = row /\ row.buildNo = Number(g)
    BY <2>2
  <2>9. Search!Range(own) = {own[k] : k \in DOMAIN own}
    BY DEF Search!Range
  <2>. QED  BY <2>1, <2>3, <2>7, <2>8, <2>9
<1>. HIDE DEF Number, At
<1>10. ASSUME NEW row \in Search!Range(items)
       PROVE  \E g \in DOMAIN groups :
                 {h \in DOMAIN groups : row \in Search!Range(groups[h].items)} = {g}
  <2>1. PICK k \in DOMAIN items : items[k] = row
    BY DEF Search!Range
  <2>2. PICK g \in DOMAIN groups : Number(g) = row.buildNo
    BY <1>6, <1>7, <2>1 DEF Number
  <2>3. \A h \in DOMAIN groups : row \in Search!Range(groups[h].items) <=> Number(h) = row.buildNo
    BY <1>9, <2>1
  <2>4. \A h \in DOMAIN groups : row \in Search!Range(groups[h].items) <=> h = g
    BY <1>8, <2>2, <2>3
  <2>. QED  BY <2>2, <2>4
<1>11. ASSUME NEW g \in DOMAIN groups, NEW h \in DOMAIN groups, g < h
       PROVE  \E i, j \in DOMAIN items :
                 i < j /\ items[i] = groups[g].items[1] /\ items[j] = groups[h].items[1]
  <2>1. At(g) \in DOMAIN items /\ At(h) \in DOMAIN items /\ At(g) < At(h)
    BY <1>7, <1>11
  <2>. QED  BY <1>9, <2>1
<1>12. ASSUME NEW group \in Search!Range(groups), group.skkuId # None
       PROVE  \E b \in buildings :
                 /\ b._id = group.skkuId
                 /\ \A floors \in Search!FloorsByBuildNo(docs, b.buildNo),
                       s \in Search!Range(group.items) :
                       \E f \in Search!Range(floors) : f.floor = s.floor /\ s \in f.spaces
  <2>1. PICK g \in DOMAIN groups : groups[g] = group
    BY DEF Search!Range
  <2>2. PICK b \in buildings : b._id = group.skkuId /\ b.buildNo = Number(g)
    <3>. DEFINE n == Number(g)
    <3>1. Search!BuildNoToSkkuId(buildings, n) = group.skkuId
      BY <1>1, <2>1
    <3>. HIDE DEF n
    <3>2. \E b \in buildings : b._id = Search!BuildNoToSkkuId(buildings, n) /\ b.buildNo = n
      BY <1>12, <3>1, BuildingOfNumber
    <3>. QED  BY <3>1, <3>2 DEF n
  <2>3. \A s \in Search!Range(group.items) : s \in docs /\ s.buildNo = b.buildNo
    BY <1>2, <1>9, <2>1, <2>2
  <2>4. ASSUME NEW floors \in Search!FloorsByBuildNo(docs, b.buildNo),
               NEW s \in Search!Range(group.items)
        PROVE  \E f \in Search!Range(floors) : f.floor = s.floor /\ s \in f.spaces
    <3>. DEFINE n == b.buildNo
    <3>1. floors \in Search!FloorsByBuildNo(docs, n) /\ s \in docs /\ s.buildNo = n
      BY <2>3
    <3>. HIDE DEF n
    <3>. QED  BY <3>1, OnItsFloor
  <2>. QED  BY <2>2, <2>4
<1>. QED  BY <1>10, <1>11, <1>12 DEF Search!GroupsOpen, items, groups

\* What a search answers are rows it was given, in places that are numbered.
LEMMA AnsweredRows ==
  ASSUME NEW docs, IsFiniteSet(docs), NEW campus,
         NEW answer \in Search!SearchSpaces(docs, campus)
  PROVE  /\ DOMAIN answer.items \subseteq Nat /\ IsFiniteSet(DOMAIN answer.items)
         /\ \A k \in DOMAIN answer.items : answer.items[k] \in docs
<1>. DEFINE matched == {d \in docs : Search!SpaceKeyword(d)}
            rank == Search!Rank(Search!SPACE_TIERS, "spaceCd", matched)
            rows == Search!OfCampus(campus, matched)
            strong == Search!Strong(rows, rank, 50)
            weak == rows \ strong
            limits == <<2, 1>>
<1>1. PICK s \in Search!Bands(strong, rank, limits[1]), w \in Search!Bands(weak, rank, limits[2]) :
          answer = Search!ToRankedResult(s \o w, matched, campus)
  <2>1. answer \in Search!Ranked(matched, Search!SPACE_TIERS, "spaceCd", 50, limits, campus)
    BY DEF Search!SearchSpaces, Search!SPACE_STRONG_MIN_SCORE
  <2>. HIDE DEF matched, limits
  <2>2. PICK items \in Search!TwoBands(strong, weak, rank, limits) :
               answer = Search!ToRankedResult(items, matched, campus)
    BY <2>1 DEF Search!Ranked
  <2>. HIDE DEF weak, strong, rank
  <2>3. PICK s \in Search!Bands(strong, rank, limits[1]), w \in Search!Bands(weak, rank, limits[2]) :
               items = s \o w
    BY <2>2 DEF Search!TwoBands
  <2>. QED  BY <2>2, <2>3
<1>2. strong \subseteq docs /\ weak \subseteq docs
  BY DEF Search!OfCampus, Search!Strong
<1>3. limits[1] \in Nat /\ limits[2] \in Nat /\ answer.items = s \o w
  BY <1>1 DEF Search!ToRankedResult
<1>. HIDE DEF strong, weak, rank, limits, matched, rows
<1>4. IsFiniteSet(strong) /\ IsFiniteSet(weak)
  BY <1>2, FS_Subset
<1>5. s \in Seq(strong) /\ w \in Seq(weak)
  BY <1>1, <1>3, <1>4, BandOf
<1>6. answer.items \in Seq(docs)
  BY <1>2, <1>3, <1>5
<1>. DEFINE items == answer.items
<1>. HIDE DEF items
<1>7. items \in Seq(docs)
  BY <1>6 DEF items
<1>8. DOMAIN items = 1 .. Len(items) /\ Len(items) \in Nat /\ IsFiniteSet(1 .. Len(items))
  BY <1>7, FS_Interval
<1>9. DOMAIN items \subseteq Nat /\ IsFiniteSet(DOMAIN items) /\ \A k \in DOMAIN items : items[k] \in docs
  BY <1>7, <1>8
<1>. QED  BY <1>9 DEF items

\* Where all places are kept nothing is changed.
LEMMA SiftAll ==
  ASSUME NEW T, NEW s \in Seq(T)
  PROVE  AtPlaces(s, DOMAIN s) = s
<1>. DEFINE n == Len(s)
<1>1. n \in Nat /\ DOMAIN s = 1 .. n /\ s = [k \in 1 .. n |-> s[k]]
  OBVIOUS
<1>2. Cardinality(DOMAIN s) = n
  BY <1>1, FS_Interval
<1>3. ASSUME NEW i \in 1 .. n PROVE Cardinality({j \in 1 .. n : j <= i}) = i
  <2>1. {j \in 1 .. n : j <= i} = 1 .. i
    BY <1>1
  <2>2. Cardinality(1 .. i) = i
    BY FS_Interval
  <2>. QED  BY <2>1, <2>2
<1>4. \A k \in 1 .. n : Nth(1 .. n, k) = k
  BY <1>3 DEF Nth
<1>. HIDE DEF n
<1>. QED  BY <1>1, <1>2, <1>4 DEF AtPlaces

-----------------------------------------------------------------------------
(* Notice tabs *)

LEMMA SameSiftTabs ==
  ASSUME NEW s, NEW S
  PROVE  Tabs!AtPlaces(s, S) = AtPlaces(s, S)
<1>1. \A T : Tabs!Cardinality(T) = Cardinality(T)
  BY DEF Tabs!Cardinality, Cardinality
<1>2. \A k : Tabs!Nth(S, k) = Nth(S, k)
  BY <1>1 DEF Tabs!Nth, Nth
<1>. QED  BY <1>1, <1>2 DEF Tabs!AtPlaces, AtPlaces

\* A list has no more elements than places.
LEMMA NoMoreElements ==
  ASSUME NEW T, NEW s \in Seq(T)
  PROVE  IsFiniteSet({s[i] : i \in DOMAIN s}) /\ Cardinality({s[i] : i \in DOMAIN s}) <= Len(s)
<1>. DEFINE n == Len(s)
            f == [i \in 1 .. n |-> s[i]]
            all == {s[i] : i \in DOMAIN s}
<1>4. n \in Nat /\ DOMAIN s = 1 .. n
  OBVIOUS
<1>1. n \in Nat /\ f \in Surjection(1 .. n, all)
  <2>. HIDE DEF n
  <2>1. \A k \in 1 .. n : f[k] = s[k] /\ s[k] \in all
    BY <1>4
  <2>2. \A x \in all : \E k \in 1 .. n : s[k] = x
    BY <1>4
  <2>3. f \in [1 .. n -> all]
    BY <2>1
  <2>. HIDE DEF f, all
  <2>. QED  BY <1>4, <2>1, <2>2, <2>3 DEF Surjection
<1>. HIDE DEF n, f, all
<1>2. IsFiniteSet(1 .. n) /\ Cardinality(1 .. n) = n
  BY <1>1, FS_Interval
<1>3. IsFiniteSet(all) /\ Cardinality(all) <= n
  BY <1>1, <1>2, FS_Surjection
<1>. QED  BY <1>3 DEF n, all

\* A picker offers all its sources, which are as many as the seeds at least.
LEMMA SeedsSelectable ==
  ASSUME NEW t, Tabs!IsCategory(t), Tabs!ValidTab(t)
  PROVE  Tabs!SeedsSelectable(t)
<1>. DEFINE picker == Tabs!Picker(t)
            all == Tabs!ToSet(t.sources)
            n == Len(t.sources)
<1>. SUFFICES ASSUME t.mode = "picker" PROVE Tabs!SeedsSelectable(t)
  BY DEF Tabs!SeedsSelectable
<1>1. Tabs!ValidPicker(t)
  BY DEF Tabs!ValidTab
<1>2. t.sources \in Seq(all) /\ n \in Nat /\ n >= 1 /\ t.max \in Int /\ t.max >= 1
  BY <1>1 DEF Tabs!IsCategory, Tabs!IsIds, Tabs!ValidPicker
<1>3. \A i \in DOMAIN t.sources : t.sources[i] \in {"s1", "s2", "s3"}
  BY <1>1 DEF Tabs!ValidPicker, Tabs!Listed, Tabs!ToSet
<1>4. {i \in DOMAIN t.sources : t.sources[i] \in {"s1", "s2", "s3"}} = DOMAIN t.sources
  BY <1>3
<1>5. picker.sources = t.sources
  <2>1. picker.sources = Tabs!AtPlaces(t.sources, DOMAIN t.sources)
    BY <1>4 DEF Tabs!Picker, Tabs!Sift
  <2>. QED  BY <2>1, <1>2, SameSiftTabs, SiftAll
<1>6. picker.max = Tabs!Min({t.max, n})
  BY <1>5 DEF Tabs!Picker
<1>7. picker.max \in {t.max, n} /\ picker.max <= t.max /\ picker.max <= n
  <2>1. \E m \in {t.max, n} : \A k \in {t.max, n} : m <= k
    BY <1>2
  <2>. QED  BY <1>6, <2>1 DEF Tabs!Min
<1>8. picker.max >= 1
  BY <1>2, <1>7
<1>9. picker.defaults = Tabs!OrEmpty(t.defaults)
  BY DEF Tabs!Picker
<1>10. Tabs!ToSet(picker.defaults) \subseteq Tabs!ToSet(picker.sources)
  BY <1>1, <1>5, <1>9 DEF Tabs!ValidPicker
<1>11. IsFiniteSet(all) /\ Cardinality(all) <= n
  BY <1>2, NoMoreElements DEF Tabs!ToSet
<1>12. ASSUME NEW campus \in DOMAIN picker.campuses
       PROVE  /\ Tabs!ToSet(picker.campuses[campus]) \subseteq Tabs!ToSet(picker.sources)
              /\ t.defaults # None => Tabs!Cardinality(Tabs!Seed(t, campus)) <= picker.max
  <2>1. t.campuses # None /\ picker.campuses = t.campuses
    BY DEF Tabs!Picker
  <2>2. Tabs!ToSet(t.campuses[campus]) \subseteq all /\ Tabs!SeedFits(t, campus)
    BY <1>1, <1>12, <2>1 DEF Tabs!ValidPicker
  <2>3. Tabs!Seed(t, campus) \subseteq all
    BY <1>1, <2>2 DEF Tabs!Seed, Tabs!ValidPicker
  <2>. DEFINE size == Cardinality(Tabs!Seed(t, campus))
  <2>4. size <= Cardinality(all) /\ size \in Nat /\ Cardinality(all) \in Nat
    BY <1>11, <2>3, FS_Subset, FS_CardinalityType
  <2>5. Tabs!Cardinality(Tabs!Seed(t, campus)) = size
    BY DEF Tabs!Cardinality, Cardinality
  <2>6. t.defaults # None => size <= t.max
    BY <2>2, <2>5 DEF Tabs!SeedFits
  <2>. HIDE DEF size, all, n
  <2>7. t.defaults # None => size <= picker.max
    BY <1>2, <1>7, <1>11, <2>4, <2>6
  <2>. QED  BY <1>5, <2>1, <2>2, <2>5, <2>7 DEF all
<1>. QED  BY <1>8, <1>10, <1>12 DEF Tabs!SeedsSelectable

-----------------------------------------------------------------------------
(* Mini apps *)

\* A stable sort moves the places, and the numbers ascend then.
LEMMA Sorted ==
  ASSUME NEW T, NEW s \in Seq(T), NEW number \in [DOMAIN s -> Int]
  PROVE  /\ DOMAIN SortedByNumber(s, number) = DOMAIN s
         /\ \E p \in [DOMAIN s -> DOMAIN s] :
               /\ \A k \in DOMAIN s : SortedByNumber(s, number)[k] = s[p[k]]
               /\ \A i, j \in DOMAIN s : i < j => number[p[i]] <= number[p[j]]
<1>. DEFINE S == DOMAIN s
            Earlier(j, i) == number[j] < number[i] \/ (number[j] = number[i] /\ j < i)
            R == {w \in S \X S : Earlier(w[1], w[2])}
            place == [k \in S |-> Cardinality({j \in S : <<j, k>> \in R})]
            p == [k \in S |-> CHOOSE i \in S : place[i] = k - 1]
<1>1. S = 1 .. Len(s) /\ Len(s) \in Nat
  OBVIOUS
<1>2. IsFiniteSet(S) /\ Cardinality(S) = Len(s)
  <2>. DEFINE n == Len(s)
  <2>1. S = 1 .. n /\ n \in Nat
    BY <1>1
  <2>. HIDE DEF n, S
  <2>2. IsFiniteSet(S) /\ Cardinality(S) = n
    BY <2>1, FS_Interval
  <2>. QED  BY <2>2 DEF n
<1>3. \A a, b \in S : <<a, b>> \in R <=> Earlier(a, b)
  OBVIOUS
<1>4. \A a \in S : a \in Int /\ number[a] \in Int
  BY <1>1
<1>5. \A a \in S : <<a, a>> \notin R
  BY <1>3, <1>4
<1>6. \A a, b \in S : a = b \/ <<a, b>> \in R \/ <<b, a>> \in R
  <2>1. \A a, b \in S : a = b \/ Earlier(a, b) \/ Earlier(b, a)
    BY <1>4
  <2>. HIDE DEF R, S, Earlier
  <2>. QED  BY <2>1, <1>3
<1>7. \A a, b, c \in S : <<a, b>> \in R /\ <<b, c>> \in R => <<a, c>> \in R
  <2>. SUFFICES ASSUME NEW a \in S, NEW b \in S, NEW c \in S, Earlier(a, b), Earlier(b, c)
                PROVE  Earlier(a, c)
    BY <1>3
  <2>. QED  BY <1>4
<1>8. /\ \A a, b \in S : <<a, b>> \in R <=> place[a] < place[b]
      /\ \A n \in 0 .. Cardinality(S) - 1 : \E k \in S : place[k] = n
  <2>. HIDE DEF R, S
  <2>. QED  BY <1>2, <1>5, <1>6, <1>7, Placed
<1>9. \A k \in S : p[k] \in S /\ place[p[k]] = k - 1
  <2>. HIDE DEF place
  <2>1. \A k \in S : k - 1 \in 0 .. Cardinality(S) - 1
    BY <1>1, <1>2
  <2>. QED  BY <2>1, <1>8
<1>10. ASSUME NEW i \in S, NEW j \in S, i < j PROVE number[p[i]] <= number[p[j]]
  <2>. DEFINE a == p[i]
              b == p[j]
  <2>1. a \in S /\ b \in S /\ place[a] = i - 1 /\ place[b] = j - 1
    BY <1>9
  <2>. HIDE DEF a, b, place
  <2>2. i \in Int /\ j \in Int
    BY <1>1
  <2>3. place[a] < place[b]
    BY <1>10, <2>1, <2>2
  <2>4. Earlier(a, b)
    BY <1>3, <1>8, <2>1, <2>3
  <2>. QED  BY <1>4, <2>1, <2>4 DEF a, b
<1>11. \A i \in S : {j \in S : <<j, i>> \in R} = {j \in S : Earlier(j, i)}
  BY <1>3
<1>12. SortedByNumber(s, number) = [k \in S |-> s[p[k]]]
  <2>1. \A i \in S : place[i] = Cardinality({j \in S : Earlier(j, i)})
    BY <1>11
  <2>2. \A k \in S : p[k] = CHOOSE i \in S : Cardinality({j \in S : Earlier(j, i)}) = k - 1
    <3>. HIDE DEF place, Earlier
    <3>. QED  BY <2>1
  <2>3. SortedByNumber(s, number) =
          [k \in S |-> s[CHOOSE i \in S : Cardinality({j \in S : Earlier(j, i)}) = k - 1]]
    BY DEF SortedByNumber
  <2>. HIDE DEF p, place, Earlier, S
  <2>. QED  BY <2>2, <2>3
<1>. QED  BY <1>9, <1>10, <1>12

LEMMA SameSortApps ==
  ASSUME NEW s, NEW number
  PROVE  Apps!SortedByNumber(s, number) = SortedByNumber(s, number)
<1>1. \A T : Apps!Cardinality(T) = Cardinality(T)
  BY DEF Apps!Cardinality, Cardinality
<1>. DEFINE Earlier(j, i) == number[j] < number[i] \/ (number[j] = number[i] /\ j < i)
            earlier(i) == {j \in DOMAIN s : Earlier(j, i)}
<1>2. Apps!SortedByNumber(s, number) =
        [k \in DOMAIN s |-> s[CHOOSE i \in DOMAIN s : Apps!Cardinality(earlier(i)) = k - 1]]
  BY DEF Apps!SortedByNumber
<1>3. SortedByNumber(s, number) =
        [k \in DOMAIN s |-> s[CHOOSE i \in DOMAIN s : Cardinality(earlier(i)) = k - 1]]
  BY DEF SortedByNumber
<1>. HIDE DEF earlier
<1>4. \A k : (CHOOSE i \in DOMAIN s : Apps!Cardinality(earlier(i)) = k - 1)
             = CHOOSE i \in DOMAIN s : Cardinality(earlier(i)) = k - 1
  BY <1>1
<1>. QED  BY <1>2, <1>3, <1>4

LEMMA SameSiftApps ==
  ASSUME NEW s, NEW S
  PROVE  Apps!AtPlaces(s, S) = AtPlaces(s, S)
<1>1. \A T : Apps!Cardinality(T) = Cardinality(T)
  BY DEF Apps!Cardinality, Cardinality
<1>2. \A k : Apps!Nth(S, k) = Nth(S, k)
  BY <1>1 DEF Apps!Nth, Nth
<1>. QED  BY <1>1, <1>2 DEF Apps!AtPlaces, AtPlaces

\* What is read of a shell is what may be there, as the app draws it.
LEMMA ShellRead ==
  ASSUME NEW value
  PROVE  LET read == Apps!ParseShellFields(value)
         IN /\ DOMAIN read \subseteq DOMAIN Apps!Allowed
            /\ \A f \in DOMAIN read : read[f] \in Apps!Allowed[f] \ {"#abcdef"}
<1>. DEFINE fields == {g \in DOMAIN value \cap DOMAIN Apps!Allowed : value[g] \in Apps!Allowed[g]}
<1>1. CASE value = Broken
  BY <1>1 DEF Apps!ParseShellFields
<1>2. CASE value # Broken
  <2>1. Apps!ParseShellFields(value) = [f \in fields |-> Apps!ToUpperCase(value[f])]
    BY <1>2 DEF Apps!ParseShellFields
  <2>2. ASSUME NEW f \in fields PROVE Apps!ToUpperCase(value[f]) \in Apps!Allowed[f] \ {"#abcdef"}
    <3>1. f \in DOMAIN Apps!Allowed /\ value[f] \in Apps!Allowed[f]
      OBVIOUS
    <3>. QED  BY <3>1 DEF Apps!ToUpperCase, Apps!Allowed
  <2>. HIDE DEF fields
  <2>3. fields \subseteq DOMAIN Apps!Allowed
    BY DEF fields
  <2>. QED  BY <2>1, <2>2, <2>3
<1>. QED  BY <1>1, <1>2

\* A whole shell stays one under fields that were read.
Whole(shell) ==
    /\ DOMAIN shell = DOMAIN Apps!Allowed
    /\ shell = [f \in DOMAIN shell |-> shell[f]]
    /\ \A f \in DOMAIN shell : shell[f] \in Apps!Allowed[f] \ {"#abcdef"}

LEMMA MergedWhole ==
  ASSUME NEW base, Whole(base), NEW over,
         DOMAIN over \subseteq DOMAIN Apps!Allowed,
         \A f \in DOMAIN over : over[f] \in Apps!Allowed[f] \ {"#abcdef"}
  PROVE  Whole(Apps!MergeShell(base, over))
  BY DEF Whole, Apps!MergeShell

LEMMA MergedNothing ==
  ASSUME NEW base, Whole(base)
  PROVE  Apps!MergeShell(base, <<>>) = base
<1>1. DOMAIN <<>> = {}
  OBVIOUS
<1>. QED  BY <1>1 DEF Whole, Apps!MergeShell

LEMMA ShellOfRegistry ==
  ASSUME NEW detail
  PROVE  Whole(Apps!RegistryShell(detail))
<1>1. Whole(Apps!DefaultShell)
  BY DEF Whole, Apps!DefaultShell, Apps!Allowed
<1>2. DOMAIN <<>> = {}
  OBVIOUS
<1>3. Whole(Apps!MergeShell(Apps!DefaultShell, <<>>))
  BY <1>1, <1>2, MergedWhole
<1>4. Whole(Apps!MergeShell(Apps!DefaultShell, Apps!ParseShellFields(detail.shell)))
  BY <1>1, ShellRead, MergedWhole
<1>. QED  BY <1>3, <1>4 DEF Apps!RegistryShell

\* What is held of the manifests is what was read of an answer that came.
LEMMA HeldOfAnswer ==
  ASSUME NEW T, NEW responses \in Seq(T),
         \A i \in DOMAIN responses : responses[i].answer \in Apps!Answer
  PROVE  \/ Apps!Held(responses) = None
         \/ \E i \in DOMAIN responses :
               /\ responses[i].answer = "ok"
               /\ Apps!Held(responses) = Apps!ParseShellFields(responses[i].json)
<1>. DEFINE S == {i \in DOMAIN responses : ~Apps!FetchFails(responses[i])}
            loaded == AtPlaces(responses, S)
            n == Cardinality(S)
<1>1. DOMAIN responses = 1 .. Len(responses) /\ Len(responses) \in Nat
  OBVIOUS
<1>2. S \subseteq Nat /\ S \subseteq DOMAIN responses
  BY <1>1
<1>3. IsFiniteSet(S)
  <2>1. IsFiniteSet(1 .. Len(responses))
    BY <1>1, FS_Interval
  <2>. QED  BY <1>1, <1>2, <2>1, FS_Subset
<1>4. n \in Nat /\ \A k \in 1 .. n : Nth(S, k) \in S
  BY <1>2, <1>3, NthPlace
<1>5. Apps!Held(responses) =
        IF loaded = <<>> THEN None ELSE Apps!FetchManifest(loaded[Len(loaded)])
  <2>1. Apps!Sift(responses, LAMBDA res : ~Apps!FetchFails(res)) = loaded
    BY SameSiftApps DEF Apps!Sift
  <2>. HIDE DEF loaded
  <2>. QED  BY <2>1 DEF Apps!Held, Apps!Last
<1>6. CASE n = 0
  <2>1. loaded \in Seq({responses[i] : i \in S}) /\ Len(loaded) = 0
    <3>1. loaded = [k \in 1 .. 0 |-> responses[Nth(S, k)]]
      BY <1>6 DEF AtPlaces
    <3>. HIDE DEF loaded, S
    <3>. QED  BY <3>1
  <2>2. loaded = <<>>
    BY <2>1
  <2>. QED  BY <1>5, <2>2
<1>7. CASE n # 0
  <2>1. Len(loaded) = n /\ loaded[n] = responses[Nth(S, n)]
    <3>. HIDE DEF n, S
    <3>. QED  BY <1>4, <1>7 DEF AtPlaces, n
  <2>2. n \in 1 .. n
    BY <1>4, <1>7
  <2>3. PICK i \in S : loaded[n] = responses[i]
    BY <1>4, <2>1, <2>2
  <2>4. ~Apps!FetchFails(responses[i]) /\ responses[i].answer = "ok"
    <3>1. ~Apps!FetchFails(responses[i]) /\ responses[i].answer \in Apps!Answer
      BY <1>2
    <3>. QED  BY <3>1 DEF Apps!FetchFails, Apps!Answer
  <2>. HIDE DEF loaded, S, n
  <2>5. Apps!FetchManifest(responses[i]) = Apps!ParseShellFields(responses[i].json)
    BY <2>4 DEF Apps!FetchManifest
  <2>. QED  BY <1>2, <1>5, <2>1, <2>3, <2>4, <2>5
<1>. QED  BY <1>6, <1>7

LEMMA MiniAppsOpen ==
  ASSUME NEW index, NEW files, Apps!IsRegistry(index, files),
         NEW T, NEW responses \in Seq(T),
         \A i \in DOMAIN responses : responses[i].answer \in Apps!Answer
  PROVE  Apps!MiniAppsOpen(index, files, responses)
<1>. DEFINE details == Apps!Details(index, files)
            answer(id) == Apps!GetDetail(details, id, responses)
            list == Apps!List(index)
            order == [i \in DOMAIN index |-> index[i].order]
            ids == Apps!Ids(index)
<1>. SUFFICES ASSUME Apps!Starts(index, files) PROVE Apps!MiniAppsOpen(index, files, responses)
  BY DEF Apps!MiniAppsOpen
<1>1. /\ index \in Seq(Apps!ToSet(index))
      /\ \A i \in DOMAIN index : index[i].order \in Int /\ index[i].id \in ids
  BY DEF Apps!IsRegistry, Apps!ToSet, Apps!Ids
<1>2. DOMAIN details = ids /\ ids \subseteq DOMAIN files
      /\ \A id \in ids : details[id] = files[id]
  BY DEF Apps!Details, Apps!Restrict, Apps!Starts, Apps!ValidRegistry
<1>3. ASSUME NEW origin \in {"first"}
      PROVE  /\ Apps!Origins(details)[origin] \in Apps!Owners(details, origin)
             /\ \A id \in Apps!Owners(details, origin) : id = Apps!Origins(details)[origin]
  <2>. DEFINE owners == Apps!Owners(details, origin)
  <2>1. Cardinality(owners) = 1
    <3>1. Apps!Cardinality(owners) = Cardinality(owners)
      BY DEF Apps!Cardinality, Cardinality
    <3>. QED  BY <3>1 DEF Apps!Starts, Apps!OneOwner
  <2>2. IsFiniteSet(owners)
    <3>. DEFINE idAt == [i \in DOMAIN index |-> index[i].id]
    <3>1. idAt \in Seq(ids)
      BY <1>1
    <3>2. DOMAIN idAt = DOMAIN index /\ \A i \in DOMAIN index : idAt[i] = index[i].id
      OBVIOUS
    <3>. HIDE DEF idAt
    <3>3. IsFiniteSet({idAt[i] : i \in DOMAIN idAt})
      BY <3>1, NoMoreElements
    <3>4. owners \subseteq {idAt[i] : i \in DOMAIN idAt}
      BY <1>2, <3>2 DEF Apps!Owners, Apps!Ids, Apps!ToSet
    <3>. HIDE DEF owners
    <3>. QED  BY <3>3, <3>4, FS_Subset
  <2>3. Apps!Origins(details)[origin] = CHOOSE id \in owners : TRUE
    BY DEF Apps!Origins
  <2>. HIDE DEF owners, details
  <2>4. \E id : owners = {id}
    BY <2>1, <2>2, FS_Singleton
  <2>5. /\ Apps!Origins(details)[origin] \in owners
        /\ \A id \in owners : id = Apps!Origins(details)[origin]
    BY <2>3, <2>4
  <2>. QED  BY <2>5 DEF owners
<1>4. DOMAIN list = DOMAIN index
      /\ \E p \in [DOMAIN index -> DOMAIN index] :
            /\ \A k \in DOMAIN index : /\ list[k].id = index[p[k]].id
                                       /\ list[k].order = order[p[k]]
            /\ \A i, j \in DOMAIN index : i < j => order[p[i]] <= order[p[j]]
  <2>. DEFINE sorted == SortedByNumber(index, order)
  <2>1. order \in [DOMAIN index -> Int]
    BY <1>1
  <2>2. PICK p \in [DOMAIN index -> DOMAIN index] :
          /\ DOMAIN sorted = DOMAIN index
          /\ \A k \in DOMAIN index : sorted[k] = index[p[k]]
          /\ \A i, j \in DOMAIN index : i < j => order[p[i]] <= order[p[j]]
    <3>. HIDE DEF order
    <3>. QED  BY <1>1, <2>1, Sorted
  <2>3. Apps!SortedByNumber(index, order) = sorted
    BY SameSortApps
  <2>. HIDE DEF sorted
  <2>4. /\ DOMAIN list = DOMAIN sorted
        /\ \A k \in DOMAIN sorted : list[k].id = sorted[k].id /\ list[k].order = sorted[k].order
    BY <2>3 DEF Apps!List
  <2>5. \A k \in DOMAIN index : list[k].id = index[p[k]].id /\ list[k].order = order[p[k]]
    BY <2>2, <2>4
  <2>. QED  BY <2>2, <2>4, <2>5
<1>. HIDE DEF list, order
<1>5. ASSUME NEW entry \in Apps!ToSet(list) PROVE entry.id \in ids
  BY <1>1, <1>4 DEF Apps!ToSet
<1>6. ASSUME NEW id \in ids
      PROVE  LET shell == answer(id).shell
             IN /\ answer(id) # None
                /\ answer(id).startUrl = details[id].startUrl
                /\ Whole(shell)
                /\ \/ shell = Apps!RegistryShell(details[id])
                   \/ /\ id \in Apps!Range(Apps!Origins(details))
                      /\ \E i \in DOMAIN responses : responses[i].answer = "ok"
  <2>. DEFINE detail == details[id]
              fields == Apps!ShellFields(detail, responses)
              base == Apps!RegistryShell(detail)
              shell == Apps!MergeShell(base, fields)
  <2>1. answer(id) = [id |-> id, startUrl |-> detail.startUrl, shell |-> shell]
    BY <1>2 DEF Apps!GetDetail
  <2>2. Whole(base)
    BY ShellOfRegistry
  <2>. DEFINE Served == \/ shell = base
                        \/ /\ id \in Apps!Range(Apps!Origins(details))
                           /\ \E i \in DOMAIN responses : responses[i].answer = "ok"
  <2>3. ASSUME detail.startUrl.origin \notin {"first"} \/ Apps!Held(responses) = None
        PROVE  Whole(shell) /\ Served
    <3>1. fields = <<>>
      BY <2>3 DEF Apps!ShellFields
    <3>2. shell = base
      BY <2>2, <3>1, MergedNothing
    <3>. HIDE DEF shell, base
    <3>. QED  BY <2>2, <3>2
  <2>4. ASSUME detail.startUrl.origin \in {"first"}, Apps!Held(responses) # None
        PROVE  Whole(shell) /\ Served
    <3>1. PICK i \in DOMAIN responses :
            /\ responses[i].answer = "ok"
            /\ Apps!Held(responses) = Apps!ParseShellFields(responses[i].json)
      BY <2>4, HeldOfAnswer
    <3>2. fields = Apps!ParseShellFields(responses[i].json)
      BY <2>4, <3>1 DEF Apps!ShellFields
    <3>3. Whole(shell)
      BY <2>2, <3>2, ShellRead, MergedWhole
    <3>4. id \in Apps!Owners(details, "first")
      BY <1>2, <2>4 DEF Apps!Owners
    <3>5. id = Apps!Origins(details)["first"]
      BY <1>3, <3>4
    <3>6. id \in Apps!Range(Apps!Origins(details))
      BY <3>5 DEF Apps!Range, Apps!Origins
    <3>. HIDE DEF shell, base, details
    <3>. QED  BY <3>1, <3>3, <3>6
  <2>5. Whole(shell) /\ Served
    <3>. HIDE DEF shell, Served, detail
    <3>. QED  BY <2>3, <2>4
  <2>6. shell \in Apps!Shells
    <3>1. \A f \in DOMAIN shell : shell[f] \in UNION {Apps!Allowed[g] : g \in DOMAIN Apps!Allowed}
      BY <2>5 DEF Whole
    <3>. HIDE DEF shell
    <3>. QED  BY <2>5, <3>1 DEF Whole, Apps!Shells
  <2>7. answer(id) # None
    <3>1. detail.startUrl \in {files[i].startUrl : i \in DOMAIN files}
      BY <1>2
    <3>. HIDE DEF detail, shell
    <3>. QED  BY <2>1, <2>6, <3>1 DEF Apps!IsRegistry
  <2>. HIDE DEF shell, base, detail, answer
  <2>. QED  BY <2>1, <2>5, <2>7 DEF base, detail
<1>7. \A entry \in Apps!ToSet(list) :
        LET shell == answer(entry.id).shell
        IN /\ answer(entry.id) # None
           /\ DOMAIN shell = DOMAIN Apps!Allowed
           /\ \A f \in DOMAIN shell : shell[f] \in Apps!Allowed[f] \ {"#abcdef"}
           /\ \/ shell = Apps!RegistryShell(details[entry.id])
              \/ /\ entry.id \in Apps!Range(Apps!Origins(details))
                 /\ \E i \in DOMAIN responses : responses[i].answer = "ok"
  <2>. HIDE DEF answer, details, ids
  <2>. QED  BY <1>5, <1>6 DEF Whole
<1>8. \A origin \in {"first"} : answer(Apps!Origins(details)[origin]).startUrl.origin = origin
  <2>. SUFFICES ASSUME NEW origin \in {"first"}
                PROVE  answer(Apps!Origins(details)[origin]).startUrl.origin = origin
    OBVIOUS
  <2>. DEFINE id == Apps!Origins(details)[origin]
  <2>1. id \in ids /\ details[id].startUrl.origin = origin
    BY <1>2, <1>3 DEF Apps!Owners
  <2>. HIDE DEF id, answer, details, ids
  <2>2. answer(id).startUrl = details[id].startUrl
    BY <1>6, <2>1
  <2>. QED  BY <2>1, <2>2 DEF id
<1>9. \A i, j \in DOMAIN index : i < j => list[i].order <= list[j].order
  BY <1>4
<1>. HIDE DEF answer
<1>. QED  BY <1>7, <1>8, <1>9 DEF Apps!MiniAppsOpen, list, answer

-----------------------------------------------------------------------------
(* The home screen *)

LEMMA SameSiftHome ==
  ASSUME NEW s, NEW S
  PROVE  Home!AtPlaces(s, S) = AtPlaces(s, S)
<1>1. \A T : Home!Cardinality(T) = Cardinality(T)
  BY DEF Home!Cardinality, Cardinality
<1>2. \A k : Home!Nth(S, k) = Nth(S, k)
  BY <1>1 DEF Home!Nth, Nth
<1>. QED  BY <1>1, <1>2 DEF Home!AtPlaces, AtPlaces

\* A text with Korean in it can be picked in every language.
LEMMA Picked ==
  ASSUME NEW text, Home!ValidI18n(text), NEW lang \in Home!Langs
  PROVE  Home!Pick(text, lang) # None
<1>. DEFINE langs == <<lang, "en", "ko">>
            S == {i \in DOMAIN langs : langs[i] \in DOMAIN text /\ text[langs[i]] # "blank"}
            usable == AtPlaces(langs, S)
<1>1. Home!Sift(langs, LAMBDA l : l \in DOMAIN text /\ text[l] # "blank") = usable
  BY SameSiftHome DEF Home!Sift
<1>2. DOMAIN langs = 1 .. 3 /\ \A i \in 1 .. 3 : langs[i] \in Home!Langs
  BY DEF Home!Langs
<1>3. 3 \in S
  <2>1. langs[3] = "ko" /\ 3 \in DOMAIN langs
    OBVIOUS
  <2>2. "ko" \in DOMAIN text /\ text["ko"] = "text"
    BY DEF Home!ValidI18n
  <2>. QED  BY <2>1, <2>2
<1>4. S \subseteq 1 .. 3 /\ S \subseteq Nat
  BY <1>2
<1>5. IsFiniteSet(S)
  <2>. DEFINE three == 3
  <2>1. three \in Nat /\ S \subseteq 1 .. three
    BY <1>4
  <2>. HIDE DEF three, S
  <2>2. IsFiniteSet(1 .. three)
    BY <2>1, FS_Interval
  <2>. QED  BY <2>1, <2>2, FS_Subset
<1>. HIDE DEF S
<1>6. Cardinality(S) \in Nat /\ Cardinality(S) # 0
  BY <1>3, <1>5, FS_CardinalityType, FS_EmptySet
<1>7. Nth(S, 1) \in S
  <2>1. 1 \in 1 .. Cardinality(S)
    BY <1>6
  <2>. QED  BY <1>4, <1>5, <2>1, NthPlace
<1>8. usable # <<>> /\ Head(usable) = langs[Nth(S, 1)]
  <2>. DEFINE n == Cardinality(S)
              at == [k \in 1 .. n |-> langs[Nth(S, k)]]
  <2>1. usable = at /\ n \in Nat /\ n >= 1
    BY <1>6 DEF AtPlaces
  <2>. HIDE DEF n, langs
  <2>2. at # <<>> /\ Head(at) = langs[Nth(S, 1)]
    BY <2>1
  <2>. QED  BY <2>1, <2>2 DEF langs
<1>9. Home!Pick(text, lang) = Head(usable)
  <2>. HIDE DEF usable
  <2>. QED  BY <1>1, <1>8 DEF Home!Pick
<1>10. langs[Nth(S, 1)] \in Home!Langs
  BY <1>2, <1>4, <1>7
<1>. HIDE DEF langs, usable
<1>. QED  BY <1>8, <1>9, <1>10, NothingApart

\* What a carousel shows are items of the file, in their order, each once.
ShownFrom(q, sent, section, lang) ==
    /\ q \in [DOMAIN sent.items -> DOMAIN section.items]
    /\ \A k, l \in DOMAIN sent.items : q[k] = q[l] => k = l
    /\ \A k \in DOMAIN sent.items :
          \/ /\ section.items[q[k]].type = "default"
             /\ sent.items[k].type = "default"
          \/ /\ section.items[q[k]].type # "default"
             /\ sent.items[k].type = "image"
             /\ sent.items[k].id = section.items[q[k]].id
             /\ sent.items[k].alt = Home!Pick(section.items[q[k]].alt, lang)

LEMMA CarouselShown ==
  ASSUME NEW section, section.items \in Seq(Home!ToSet(section.items)), NEW lang, NEW now
  PROVE  LET wire == Home!ToWireCarousel(section, lang, now)
         IN /\ wire.type = "banner_carousel" /\ wire.id = section.id
            /\ \E q : ShownFrom(q, wire, section, lang)
<1>. DEFINE items == section.items
            Shown(item) == item.type = "default" \/ Home!IsShowing(item, now)
            ToWire(item) == IF item.type = "default" THEN [type |-> "default"]
                            ELSE [type |-> "image", id |-> item.id,
                                  alt |-> Home!Pick(item.alt, lang),
                                  actionType |-> item.actionType,
                                  actionValue |-> item.actionValue]
            S == {i \in DOMAIN items : Shown(items[i])}
            shown == AtPlaces(items, S)
            n == Cardinality(S)
            wire == Home!ToWireCarousel(section, lang, now)
            q == [k \in 1 .. n |-> Nth(S, k)]
<1>1. DOMAIN items = 1 .. Len(items) /\ Len(items) \in Nat
  OBVIOUS
<1>2. S \subseteq DOMAIN items /\ S \subseteq Nat
  BY <1>1
<1>3. IsFiniteSet(S)
  <2>1. IsFiniteSet(1 .. Len(items))
    BY <1>1, FS_Interval
  <2>. HIDE DEF S, items
  <2>. QED  BY <1>1, <1>2, <2>1, FS_Subset
<1>4. Home!Sift(items, Shown) = shown
  BY SameSiftHome DEF Home!Sift
<1>5. wire = [type |-> "banner_carousel", id |-> section.id,
              items |-> [i \in DOMAIN shown |-> ToWire(shown[i])]]
  <2>. HIDE DEF shown
  <2>. QED  BY <1>4 DEF Home!ToWireCarousel
<1>. HIDE DEF S, items, ToWire
<1>6. /\ n \in Nat
      /\ \A k \in 1 .. n : Nth(S, k) \in S
      /\ \A k, l \in 1 .. n : k < l => Nth(S, k) < Nth(S, l)
  BY <1>2, <1>3, NthPlace
<1>7. DOMAIN shown = 1 .. n /\ \A k \in 1 .. n : shown[k] = items[q[k]]
  BY DEF AtPlaces
<1>8. DOMAIN wire.items = 1 .. n /\ \A k \in 1 .. n : wire.items[k] = ToWire(items[q[k]])
  <2>. HIDE DEF shown, wire, n, q
  <2>. QED  BY <1>5, <1>7
<1>9. q \in [1 .. n -> DOMAIN items]
  BY <1>2, <1>6
<1>10. ASSUME NEW k \in 1 .. n, NEW l \in 1 .. n, q[k] = q[l] PROVE k = l
  <2>1. k \in Int /\ l \in Int /\ q[k] \in Int /\ q[l] \in Int
    BY <1>2, <1>6
  <2>2. (k < l => q[k] < q[l]) /\ (l < k => q[l] < q[k])
    BY <1>6
  <2>. HIDE DEF q, n
  <2>. QED  BY <1>10, <2>1, <2>2
<1>. HIDE DEF q, n, wire, shown
<1>. DEFINE SameItem(k, i) ==
              \/ /\ items[i].type = "default"
                 /\ wire.items[k].type = "default"
              \/ /\ items[i].type # "default"
                 /\ wire.items[k].type = "image"
                 /\ wire.items[k].id = items[i].id
                 /\ wire.items[k].alt = Home!Pick(items[i].alt, lang)
<1>11. ASSUME NEW k \in 1 .. n PROVE SameItem(k, q[k])
  <2>. DEFINE item == items[q[k]]
              sent == wire.items[k]
  <2>1. sent = ToWire(item)
    BY <1>8
  <2>. HIDE DEF item, sent
  <2>2. \/ item.type = "default" /\ sent.type = "default"
        \/ /\ item.type # "default" /\ sent.type = "image" /\ sent.id = item.id
           /\ sent.alt = Home!Pick(item.alt, lang)
    BY <2>1 DEF ToWire
  <2>. QED  BY <2>2 DEF item, sent
<1>12. wire.type = "banner_carousel" /\ wire.id = section.id
  BY <1>5
<1>13. \E r \in [DOMAIN wire.items -> DOMAIN items] :
          /\ \A k, l \in DOMAIN wire.items : r[k] = r[l] => k = l
          /\ \A k \in DOMAIN wire.items : SameItem(k, r[k])
  <2>. HIDE DEF SameItem
  <2>. QED  BY <1>8, <1>9, <1>10, <1>11
<1>14. PICK r : /\ r \in [DOMAIN wire.items -> DOMAIN items]
                /\ \A k, l \in DOMAIN wire.items : r[k] = r[l] => k = l
                /\ \A k \in DOMAIN wire.items : SameItem(k, r[k])
  <2>. HIDE DEF SameItem
  <2>. QED  BY <1>13
<1>15. ShownFrom(r, wire, section, lang)
  BY <1>14 DEF ShownFrom, items
<1>. QED  BY <1>12, <1>15 DEF wire

\* Every banner that was accepted has an instant at which it shows, and a mini app
\* it opens is registered.
LEMMA BannersHaveTheirTime ==
  ASSUME NEW times, times \subseteq Int, times # {}, NEW allowed, NEW section,
         section.type = "banner_carousel",
         Home!IsSection(section, times), Home!ValidCarousel(section, allowed)
  PROVE  Home!HasItsTime(section, times)
<1>. SUFFICES ASSUME NEW k \in DOMAIN section.items, section.items[k].type = "image"
              PROVE  /\ Home!Opens(section.items[k])
                     /\ \E now \in times : Home!IsShowing(section.items[k], now)
  BY DEF Home!HasItsTime
<1>. DEFINE item == section.items[k]
<1>1. Home!ValidBannerImage(item)
  BY DEF Home!ValidCarousel
<1>2. /\ item.startAt \in {None, Broken} \cup times
      /\ item.endAt \in {None, Broken} \cup {t + 1 : t \in times}
  <2>1. k \in Home!ImagesOf(section)
    BY DEF Home!ImagesOf
  <2>. QED  BY <2>1 DEF Home!IsSection
<1>. HIDE DEF item
<1>3. /\ item.startAt # Broken /\ item.endAt # Broken
      /\ item.startAt # None /\ item.endAt # None => item.startAt < item.endAt
  BY <1>1 DEF Home!ValidBannerImage, Home!ValidWindow
<1>4. \E now \in times : Home!IsShowing(item, now)
  <2>1. CASE item.startAt # None
    <3>. DEFINE now == item.startAt
    <3>1. now \in times
      BY <1>2, <1>3, <2>1
    <3>2. now \in Int
      BY <3>1
    <3>3. now >= item.startAt /\ (item.endAt # None => now < item.endAt)
      BY <1>3, <2>1, <3>2
    <3>. HIDE DEF now
    <3>. QED  BY <3>1, <3>3 DEF Home!IsShowing
  <2>2. CASE item.startAt = None /\ item.endAt # None
    <3>1. PICK t \in times : item.endAt = t + 1
      BY <1>2, <1>3, <2>2
    <3>2. t \in Int
      BY <3>1
    <3>. QED  BY <2>2, <3>1, <3>2 DEF Home!IsShowing
  <2>3. CASE item.startAt = None /\ item.endAt = None
    BY <2>3 DEF Home!IsShowing
  <2>. QED  BY <2>1, <2>2, <2>3
<1>5. Home!Opens(item)
  <2>. SUFFICES ASSUME item.actionType = "miniapp" PROVE item.actionValue.id \in {"app"}
    BY DEF Home!Opens
  <2>1. item.actionType # None
    BY NothingApart DEF Home!HOME_ACTION_TYPES
  <2>2. Home!Wire!IsValidActionValue([type |-> item.actionType, value |-> item.actionValue])
    BY <1>1, <2>1 DEF Home!ValidBannerImage, Home!ValidAction
  <2>3. Home!Wire!IsKnownMiniAppTarget(item.actionValue)
    BY <2>2 DEF Home!Wire!IsValidActionValue
  <2>. QED  BY <2>3 DEF Home!Wire!IsKnownMiniAppTarget
<1>. QED  BY <1>4, <1>5 DEF item

\* What a carousel that was accepted shows can be read.
LEMMA BannersReadable ==
  ASSUME NEW section, section.items \in Seq(Home!ToSet(section.items)),
         NEW allowed, Home!ValidCarousel(section, allowed),
         NEW lang \in Home!Langs, NEW now
  PROVE  Home!Readable(Home!ToWireCarousel(section, lang, now))
<1>. DEFINE wire == Home!ToWireCarousel(section, lang, now)
<1>4. PICK q : ShownFrom(q, wire, section, lang)
  BY CarouselShown
<1>1. /\ q \in [DOMAIN wire.items -> DOMAIN section.items]
      /\ \A k \in DOMAIN wire.items :
            \/ wire.items[k].type = "default"
            \/ /\ section.items[q[k]].type # "default"
               /\ wire.items[k].alt = Home!Pick(section.items[q[k]].alt, lang)
  BY <1>4 DEF ShownFrom
<1>2. wire.type = "banner_carousel"
  BY CarouselShown
<1>. HIDE DEF wire
<1>3. ASSUME NEW k \in DOMAIN wire.items, wire.items[k].type = "image"
      PROVE  wire.items[k].alt # None
  <2>. DEFINE item == section.items[q[k]]
  <2>1. q[k] \in DOMAIN section.items
    BY <1>1
  <2>2. item.type # "default" /\ wire.items[k].alt = Home!Pick(item.alt, lang)
    BY <1>1, <1>3
  <2>3. Home!ValidBannerImage(item)
    BY <2>1, <2>2 DEF Home!ValidCarousel
  <2>. HIDE DEF item
  <2>4. Home!ValidI18n(item.alt)
    BY <2>3 DEF Home!ValidBannerImage
  <2>. QED  BY <2>2, <2>4, Picked
<1>. QED  BY <1>2, <1>3 DEF Home!Readable, wire

LEMMA GridReadable ==
  ASSUME NEW section, section.type = "tile_grid", Home!ValidGrid(section),
         NEW lang \in Home!Langs, NEW now
  PROVE  Home!Readable(Home!ToWireSection(section, lang, now))
<1>. DEFINE wire == Home!ToWireSection(section, lang, now)
            title == IF section.title = None THEN "none" ELSE Home!Pick(section.title, lang)
<1>1. wire = [type |-> "tile_grid", id |-> section.id, title |-> title,
              tiles |-> [i \in DOMAIN section.tiles |-> Home!ToWireTile(section.tiles[i], lang)]]
  BY DEF Home!ToWireSection
<1>2. title # None
  <2>1. section.title # None => Home!Pick(section.title, lang) # None
    BY Picked DEF Home!ValidGrid
  <2>. QED  BY <2>1, NothingApart
<1>. HIDE DEF title
<1>3. ASSUME NEW i \in DOMAIN wire.tiles, wire.tiles[i].kind = "link"
      PROVE  wire.tiles[i].title # None
  <2>. DEFINE tile == section.tiles[i]
              sent == wire.tiles[i]
  <2>1. i \in DOMAIN section.tiles /\ sent = Home!ToWireTile(tile, lang)
    BY <1>1
  <2>2. Home!ValidTile(tile)
    BY <2>1 DEF Home!ValidGrid
  <2>. HIDE DEF tile, wire
  <2>3. tile.kind = "link" /\ sent.title = Home!Pick(tile.title, lang)
    <3>. HIDE DEF sent
    <3>. QED  BY <1>3, <2>1 DEF Home!ToWireTile, sent
  <2>4. Home!ValidI18n(tile.title)
    BY <2>2, <2>3 DEF Home!ValidTile
  <2>. QED  BY <2>3, <2>4, Picked
<1>4. wire.type = "tile_grid" /\ wire.title = title
  BY <1>1
<1>. HIDE DEF wire
<1>. QED  BY <1>2, <1>3, <1>4 DEF Home!Readable, wire

\* The names of the file are those on the screen: of the sections, of the banners
\* that show, and of the tiles.
LEMMA NamesStayApart ==
  ASSUME NEW sections, Home!SectionIdsApart(sections), Home!TileIdsApart(sections),
         NEW wire, DOMAIN wire = DOMAIN sections,
         \A i \in DOMAIN sections : wire[i].id = sections[i].id,
         \A i \in DOMAIN sections :
             \/ /\ wire[i].type = "banner_carousel"
                /\ \E q \in [DOMAIN wire[i].items -> DOMAIN sections[i].items] :
                      /\ \A k, l \in DOMAIN wire[i].items : q[k] = q[l] => k = l
                      /\ \A k \in Home!ImagesOf(wire[i]) :
                            /\ q[k] \in Home!ImagesOf(sections[i])
                            /\ wire[i].items[k].id = sections[i].items[q[k]].id
             \/ /\ wire[i].type = "tile_grid"
                /\ \A k \in Home!TilesOf(wire[i]) :
                      /\ k \in Home!TilesOf(sections[i])
                      /\ wire[i].tiles[k].id = sections[i].tiles[k].id
  PROVE  Home!NamesApart(wire)
<1>. DEFINE Q(i) == CHOOSE q \in [DOMAIN wire[i].items -> DOMAIN sections[i].items] :
                      /\ \A k, l \in DOMAIN wire[i].items : q[k] = q[l] => k = l
                      /\ \A k \in Home!ImagesOf(wire[i]) :
                            /\ q[k] \in Home!ImagesOf(sections[i])
                            /\ wire[i].items[k].id = sections[i].items[q[k]].id
<1>1. ASSUME NEW i \in DOMAIN sections, NEW k \in Home!ImagesOf(wire[i])
      PROVE  /\ Q(i)[k] \in Home!ImagesOf(sections[i])
             /\ wire[i].items[k].id = sections[i].items[Q(i)[k]].id
             /\ \A l \in Home!ImagesOf(wire[i]) : Q(i)[k] = Q(i)[l] => k = l
  <2>1. wire[i].type = "banner_carousel"
    BY DEF Home!ImagesOf
  <2>2. \E q \in [DOMAIN wire[i].items -> DOMAIN sections[i].items] :
          /\ \A m, l \in DOMAIN wire[i].items : q[m] = q[l] => m = l
          /\ \A m \in Home!ImagesOf(wire[i]) :
                /\ q[m] \in Home!ImagesOf(sections[i])
                /\ wire[i].items[m].id = sections[i].items[q[m]].id
    BY <2>1
  <2>3. /\ \A m, l \in DOMAIN wire[i].items : Q(i)[m] = Q(i)[l] => m = l
        /\ \A m \in Home!ImagesOf(wire[i]) :
              /\ Q(i)[m] \in Home!ImagesOf(sections[i])
              /\ wire[i].items[m].id = sections[i].items[Q(i)[m]].id
    BY <2>2
  <2>. HIDE DEF Q
  <2>4. Home!ImagesOf(wire[i]) \subseteq DOMAIN wire[i].items
    BY DEF Home!ImagesOf
  <2>. QED  BY <2>3, <2>4
<1>. HIDE DEF Q
<1>2. ASSUME NEW i \in DOMAIN sections, NEW k \in Home!TilesOf(wire[i])
      PROVE  /\ k \in Home!TilesOf(sections[i])
             /\ wire[i].tiles[k].id = sections[i].tiles[k].id
  BY DEF Home!TilesOf
<1>3. Home!SectionIdsApart(wire)
  <2>. SUFFICES ASSUME NEW i \in DOMAIN sections, NEW j \in DOMAIN sections
                PROVE  /\ wire[i].id = wire[j].id => i = j
                       /\ \A k \in Home!ImagesOf(wire[i]) :
                             /\ wire[i].items[k].id # wire[j].id
                             /\ \A l \in Home!ImagesOf(wire[j]) :
                                   wire[i].items[k].id = wire[j].items[l].id => i = j /\ k = l
    BY DEF Home!SectionIdsApart
  <2>1. wire[i].id = wire[j].id => i = j
    BY DEF Home!SectionIdsApart
  <2>2. ASSUME NEW k \in Home!ImagesOf(wire[i])
        PROVE  wire[i].items[k].id # wire[j].id
    BY <1>1 DEF Home!SectionIdsApart
  <2>3. ASSUME NEW k \in Home!ImagesOf(wire[i]), NEW l \in Home!ImagesOf(wire[j]),
               wire[i].items[k].id = wire[j].items[l].id
        PROVE  i = j /\ k = l
    <3>. DEFINE m == Q(i)[k]
                n == Q(j)[l]
    <3>1. m \in Home!ImagesOf(sections[i]) /\ n \in Home!ImagesOf(sections[j])
      BY <1>1
    <3>2. sections[i].items[m].id = sections[j].items[n].id
      BY <1>1, <2>3
    <3>. HIDE DEF m, n
    <3>3. i = j /\ m = n
      BY <3>1, <3>2 DEF Home!SectionIdsApart
    <3>. QED  BY <1>1, <3>3 DEF m, n
  <2>. QED  BY <2>1, <2>2, <2>3
<1>4. Home!TileIdsApart(wire)
  <2>. SUFFICES ASSUME NEW i \in DOMAIN sections, NEW j \in DOMAIN sections,
                       NEW k \in Home!TilesOf(wire[i]), NEW l \in Home!TilesOf(wire[j]),
                       wire[i].tiles[k].id = wire[j].tiles[l].id
                PROVE  i = j /\ k = l
    BY DEF Home!TileIdsApart
  <2>. QED  BY <1>2 DEF Home!TileIdsApart
<1>. QED  BY <1>3, <1>4 DEF Home!NamesApart

\* So the home screen serves what the start accepted.
LEMMA HomeServes ==
  ASSUME NEW times, times \subseteq Int, times # {},
         NEW layout, Home!IsLayout(layout, times), Home!ValidHomeLayout(layout)
  PROVE  Home!HomeServes(layout, times)
<1>. DEFINE sections == layout.sections
<1>1. ASSUME NEW i \in DOMAIN sections
      PROVE  /\ Home!IsSection(sections[i], times)
             /\ \/ sections[i].type = "banner_carousel" /\ Home!ValidCarousel(sections[i], TRUE)
                \/ sections[i].type = "tile_grid" /\ Home!ValidGrid(sections[i])
  BY DEF Home!IsLayout, Home!ValidHomeLayout
<1>2. ASSUME NEW i \in DOMAIN sections, sections[i].type = "banner_carousel"
      PROVE  Home!HasItsTime(sections[i], times)
  BY <1>1, <1>2, BannersHaveTheirTime
<1>3. ASSUME NEW now \in times, NEW lang \in Home!Langs
      PROVE  LET wire == Home!ResolveHomeLayout(layout, lang, now)
             IN Home!NamesApart(wire) /\ \A i \in DOMAIN wire : Home!Readable(wire[i])
  <2>. DEFINE wire == Home!ResolveHomeLayout(layout, lang, now)
  <2>1. DOMAIN wire = DOMAIN sections
        /\ \A i \in DOMAIN sections : wire[i] = Home!ToWireSection(sections[i], lang, now)
    BY DEF Home!ResolveHomeLayout
  <2>. HIDE DEF wire
  <2>2. ASSUME NEW i \in DOMAIN sections, sections[i].type = "banner_carousel"
        PROVE  /\ Home!Readable(wire[i])
               /\ wire[i].id = sections[i].id
               /\ wire[i].type = "banner_carousel"
               /\ \E q \in [DOMAIN wire[i].items -> DOMAIN sections[i].items] :
                     /\ \A k, l \in DOMAIN wire[i].items : q[k] = q[l] => k = l
                     /\ \A k \in Home!ImagesOf(wire[i]) :
                           /\ q[k] \in Home!ImagesOf(sections[i])
                           /\ wire[i].items[k].id = sections[i].items[q[k]].id
    <3>. DEFINE section == sections[i]
                sent == wire[i]
    <3>1. sent = Home!ToWireCarousel(section, lang, now)
      BY <2>1, <2>2 DEF Home!ToWireSection
    <3>2. /\ section.type = "banner_carousel"
          /\ section.items \in Seq(Home!ToSet(section.items))
          /\ Home!ValidCarousel(section, TRUE)
      BY <1>1, <2>2 DEF Home!IsSection
    <3>. HIDE DEF section, sent
    <3>3. Home!Readable(sent)
      BY <3>1, <3>2, BannersReadable
    <3>4. sent.type = "banner_carousel" /\ sent.id = section.id
      BY <3>1, <3>2, CarouselShown
    <3>8. PICK q : ShownFrom(q, sent, section, lang)
      BY <3>1, <3>2, CarouselShown
    <3>5. /\ q \in [DOMAIN sent.items -> DOMAIN section.items]
          /\ \A k, l \in DOMAIN sent.items : q[k] = q[l] => k = l
          /\ \A k \in DOMAIN sent.items :
                sent.items[k].type = "image" /\ section.items[q[k]].type # "default" =>
                   sent.items[k].id = section.items[q[k]].id
          /\ \A k \in DOMAIN sent.items :
                sent.items[k].type = "image" => section.items[q[k]].type # "default"
      BY <3>8 DEF ShownFrom
    <3>6. ASSUME NEW k \in Home!ImagesOf(sent)
          PROVE  /\ q[k] \in Home!ImagesOf(section)
                 /\ sent.items[k].id = section.items[q[k]].id
      <4>1. k \in DOMAIN sent.items /\ sent.items[k].type = "image"
        BY DEF Home!ImagesOf
      <4>2. section.items[q[k]].type # "default" /\ sent.items[k].id = section.items[q[k]].id
        BY <3>5, <4>1
      <4>3. q[k] \in DOMAIN section.items
        BY <3>5, <4>1
      <4>4. section.items[q[k]].type = "image"
        BY <3>2, <4>2, <4>3 DEF Home!ValidCarousel
      <4>. QED  BY <3>2, <4>2, <4>3, <4>4 DEF Home!ImagesOf
    <3>7. \E r \in [DOMAIN sent.items -> DOMAIN section.items] :
            /\ \A k, l \in DOMAIN sent.items : r[k] = r[l] => k = l
            /\ \A k \in Home!ImagesOf(sent) :
                  /\ r[k] \in Home!ImagesOf(section)
                  /\ sent.items[k].id = section.items[r[k]].id
      BY <3>5, <3>6
    <3>. QED  BY <3>3, <3>4, <3>7 DEF section, sent
  <2>3. ASSUME NEW i \in DOMAIN sections, sections[i].type = "tile_grid"
        PROVE  /\ Home!Readable(wire[i])
               /\ wire[i].id = sections[i].id
               /\ wire[i].type = "tile_grid"
               /\ \A k \in Home!TilesOf(wire[i]) :
                     /\ k \in Home!TilesOf(sections[i])
                     /\ wire[i].tiles[k].id = sections[i].tiles[k].id
    <3>. DEFINE section == sections[i]
                sent == wire[i]
                title == IF section.title = None THEN "none" ELSE Home!Pick(section.title, lang)
    <3>1. sent = Home!ToWireSection(section, lang, now)
      BY <2>1
    <3>2. section.type = "tile_grid" /\ Home!ValidGrid(section)
      BY <1>1, <2>3
    <3>. HIDE DEF section, sent
    <3>3. Home!Readable(sent)
      BY <3>1, <3>2, GridReadable
    <3>4. sent = [type |-> "tile_grid", id |-> section.id, title |-> title,
                  tiles |-> [k \in DOMAIN section.tiles |->
                               Home!ToWireTile(section.tiles[k], lang)]]
      BY <3>1, <3>2 DEF Home!ToWireSection
    <3>. HIDE DEF title
    <3>5. \A k \in DOMAIN section.tiles :
            Home!ToWireTile(section.tiles[k], lang).id = section.tiles[k].id
      BY DEF Home!ToWireTile
    <3>6. /\ sent.type = "tile_grid" /\ sent.id = section.id
          /\ Home!TilesOf(sent) = DOMAIN section.tiles
          /\ Home!TilesOf(section) = DOMAIN section.tiles
          /\ \A k \in DOMAIN section.tiles : sent.tiles[k].id = section.tiles[k].id
      BY <3>2, <3>4, <3>5 DEF Home!TilesOf
    <3>. QED  BY <3>3, <3>6 DEF section, sent
  <2>4. Home!SectionIdsApart(sections) /\ Home!TileIdsApart(sections)
    BY DEF Home!ValidHomeLayout
  <2>. HIDE DEF sections
  <2>5. \A i \in DOMAIN wire : Home!Readable(wire[i])
    BY <1>1, <2>1, <2>2, <2>3
  <2>6. \A i \in DOMAIN sections : wire[i].id = sections[i].id
    BY <1>1, <2>2, <2>3
  <2>7. \A i \in DOMAIN sections :
          \/ /\ wire[i].type = "banner_carousel"
             /\ \E q \in [DOMAIN wire[i].items -> DOMAIN sections[i].items] :
                   /\ \A k, l \in DOMAIN wire[i].items : q[k] = q[l] => k = l
                   /\ \A k \in Home!ImagesOf(wire[i]) :
                         /\ q[k] \in Home!ImagesOf(sections[i])
                         /\ wire[i].items[k].id = sections[i].items[q[k]].id
          \/ /\ wire[i].type = "tile_grid"
             /\ \A k \in Home!TilesOf(wire[i]) :
                   /\ k \in Home!TilesOf(sections[i])
                   /\ wire[i].tiles[k].id = sections[i].tiles[k].id
    BY <1>1, <2>2, <2>3
  <2>8. Home!NamesApart(wire)
    BY <2>1, <2>4, <2>6, <2>7, NamesStayApart
  <2>. QED  BY <2>5, <2>8 DEF wire
<1>. QED  BY <1>2, <1>3 DEF Home!HomeServes

LEMMA CampusServes ==
  ASSUME NEW times, times \subseteq Int, times # {},
         NEW carousel, Home!IsSection(carousel, times), Home!ValidCampusCarousel(carousel)
  PROVE  Home!CampusServes(carousel, times)
<1>1. /\ carousel.type = "banner_carousel" /\ Home!ValidCarousel(carousel, FALSE)
      /\ carousel.items \in Seq(Home!ToSet(carousel.items))
  BY DEF Home!ValidCampusCarousel, Home!IsSection
<1>2. Home!HasItsTime(carousel, times)
  BY <1>1, BannersHaveTheirTime
<1>3. ASSUME NEW now \in times, NEW lang \in Home!Langs,
             NEW section \in Home!ToSet(Home!GetCampusSections(carousel, lang, now))
      PROVE  /\ Home!Readable(section) /\ section.items # <<>>
             /\ \A i \in DOMAIN section.items : section.items[i].type = "image"
  <2>. DEFINE wire == Home!ToWireCarousel(carousel, lang, now)
  <2>1. section = wire /\ wire.items # <<>>
    <3>. HIDE DEF wire
    <3>1. CASE wire.items = <<>>
      BY <3>1 DEF Home!GetCampusSections, Home!ToSet, wire
    <3>2. CASE wire.items # <<>>
      <4>1. Home!GetCampusSections(carousel, lang, now) = <<wire>>
        BY <3>2 DEF Home!GetCampusSections, wire
      <4>. QED  BY <3>2, <4>1 DEF Home!ToSet
    <3>. QED  BY <3>1, <3>2
  <2>2. Home!Readable(wire)
    BY <1>1, BannersReadable
  <2>3. PICK q : ShownFrom(q, wire, carousel, lang)
    BY <1>1, CarouselShown
  <2>4. ASSUME NEW i \in DOMAIN wire.items PROVE wire.items[i].type = "image"
    <3>. HIDE DEF wire
    <3>1. q[i] \in DOMAIN carousel.items
      BY <2>3 DEF ShownFrom
    <3>2. carousel.items[q[i]].type # "default"
      BY <1>1, <3>1 DEF Home!ValidCarousel
    <3>. QED  BY <2>3, <3>2 DEF ShownFrom
  <2>. HIDE DEF wire
  <2>. QED  BY <2>1, <2>2, <2>4
<1>. QED  BY <1>2, <1>3 DEF Home!CampusServes

-----------------------------------------------------------------------------
(* The answers *)

\* The sequences the runs enumerate are sequences.
LEMMA ListOf ==
  ASSUME NEW S, NEW n
  PROVE  /\ SeqOf(S, n) \subseteq Seq(S)
         /\ \A s \in SeqOf(S, n) : (\A i \in DOMAIN s : s[i] \in S) /\ IsList(s)
<1>1. \A s \in SeqOf(S, n) : \E m \in Nat : s \in [1 .. m -> S]
  BY DEF SeqOf
<1>2. ASSUME NEW s, NEW m \in Nat, s \in [1 .. m -> S]
      PROVE  s \in Seq(S) /\ (\A i \in DOMAIN s : s[i] \in S) /\ IsList(s)
  <2>1. s \in [1 .. m -> Where!ToSet(s)]
    BY <1>2 DEF Where!ToSet
  <2>. DEFINE T == Where!ToSet(s)
  <2>. HIDE DEF T
  <2>2. s \in Seq(T)
    BY <2>1 DEF T
  <2>. QED  BY <1>2, <2>2 DEF IsList, T
<1>. QED  BY <1>1, <1>2

\* An accepted structure file, of whatever layers, chips and facets, gives answers
\* that refer to each other: FestivalResolves of any configuration.
THEOREM FestivalOfAnyFile ==
  ASSUME asked.of = "map" => Map!IsConfig(asked.c)
  PROVE  FestivalResolves
<1>1. ASSUME Accepted
      PROVE  /\ Map!ChipsResolve(asked.c)
             /\ Map!OneDayPerWindow(asked.c, 0 .. 3)
             /\ \A p \in Places : /\ Map!MarkersResolve(asked.c, p)
                                  /\ Map!DetailsHavePins(asked.c, p)
                                  /\ Map!OrderUnambiguous(asked.c, p)
  <2>1. Map!IsConfig(asked.c) /\ Map!ValidConfig(asked.c)
    BY <1>1 DEF Accepted
  <2>2. 0 .. 3 \subseteq Int
    OBVIOUS
  <2>3. \A p : /\ Map!MarkersResolve(asked.c, p)
               /\ Map!DetailsHavePins(asked.c, p)
               /\ Map!OrderUnambiguous(asked.c, p)
    BY <2>1, MarkersResolve, OrderUnambiguous
  <2>. QED  BY <2>1, <2>2, <2>3, ChipsResolve, OneDayPerWindow
<1>. QED  BY <1>1 DEF FestivalResolves

\* Whatever a service's timetable and whatever the periods of a notice, what comes
\* next is what is shown: NextShown of any service, day and notice.
THEOREM NextOfAnyDocument ==
  ASSUME asked.of = "week" => Bus!IsService(asked.s) /\ asked.today \in Nat,
         asked.of = "notice" => Notice!IsNotice(asked.doc)
  PROVE  NextShown
<1>1. {0, 5, 9, 10, 15, 19, 20, 25, 30} \subseteq Int
  OBVIOUS
<1>. QED  BY <1>1, OpensOnFirst, SelectionShown, DeadlineShown DEF NextShown

\* Whatever a service reports and whatever list was kept before, a bus is drawn where
\* it was reported and spoken of as the nearest: BusesWhereReported of any report.
THEOREM BusesOfAnyReport ==
  ASSUME asked.of = "jongro" =>
            /\ \A i \in DOMAIN asked.routes : IsList(asked.routes[i].stations)
            /\ IsList(asked.items)
            /\ \A id \in DOMAIN asked.times :
                  asked.times[id] \in Int /\ asked.times[id] <= Now,
         asked.of = "hssc" =>
            asked.before \in Seq(Where!Position) /\ asked.items \in Seq(Where!Report)
  PROVE  BusesWhereReported
<1>1. Now \in Int
  BY DEF Now
<1>2. ASSUME asked.of = "jongro", NEW i \in DOMAIN asked.routes
      PROVE  Where!JongroWhereReported(asked.routes[i], asked.times, asked.items, Now)
  <2>. DEFINE route == asked.routes[i]
              items == asked.items
              times == asked.times
              Stop == Where!ToSet(route.stations)
              Car == Where!ToSet(items)
  <2>1. /\ route.stations \in Seq(Stop) /\ items \in Seq(Car)
        /\ \A id \in DOMAIN times : times[id] \in Int /\ times[id] <= Now
    BY <1>2 DEF IsList
  <2>. HIDE DEF route, items, times, Stop, Car
  <2>2. Where!JongroWhereReported(route, times, items, Now)
    BY <1>1, <2>1, JongroWhereReported
  <2>. QED  BY <2>2 DEF route, items, times
<1>3. ASSUME asked.of = "hssc"
      PROVE  LET list == Where!Listed(asked.before, asked.items, Now)
             IN /\ Where!HsscWhereReported(asked.before, asked.items, Now)
                /\ \A station \in {5, 6, 10} : Where!EtaOfNearest(station, list)
  <2>. DEFINE before == asked.before
              items == asked.items
              list == Where!Listed(before, items, Now)
  <2>1. before \in Seq(Where!Position) /\ items \in Seq(Where!Report)
    BY <1>3
  <2>. HIDE DEF before, items
  <2>2. Where!HsscWhereReported(before, items, Now)
    BY <1>1, <2>1, HsscWhereReported
  <2>3. /\ DOMAIN list \subseteq Nat /\ IsFiniteSet(DOMAIN list)
        /\ \A k \in DOMAIN list : list[k] \in Where!Position
    <3>1. Listing(before, items, Now, list)
      BY <1>1, <2>1, ListedReported
    <3>. HIDE DEF list
    <3>. QED  BY <3>1 DEF Listing
  <2>. HIDE DEF list
  <2>4. \A station \in {5, 6, 10} : station \in Int /\ station <= Where!LastStation
    BY DEF Where!LastStation
  <2>5. \A station \in {5, 6, 10} : Where!EtaOfNearest(station, list)
    BY <2>3, <2>4, EtaOfNearest
  <2>. QED  BY <2>2, <2>5 DEF before, items, list
<1>. QED  BY <1>2, <1>3 DEF BusesWhereReported

\* What buildStationEtas needs, which route jongro07 gives it and jongro02 does not:
\* where the name of an arrival fits the station of its id and no other, each station
\* of the answer has the arrival reported for it.
THEOREM EtasWhereNamesDiffer ==
  ASSUME asked.of = "etas" =>
            /\ IsList(asked.route.stations) /\ IsList(asked.list)
            /\ Where!ValidRoute(asked.route)
            /\ \A k, l \in DOMAIN asked.list :
                  asked.list[k].id = asked.list[l].id => k = l
            /\ \A k \in DOMAIN asked.list, i \in DOMAIN asked.route.stations :
                  asked.route.stations[i].stationName = asked.list[k].name
                    <=> asked.route.stations[i].topisId = asked.list[k].id
  PROVE  EtasAtTheirStations
<1>1. CASE asked.of = "etas"
  <2>. DEFINE route == asked.route
              list == asked.list
              Stop == Where!ToSet(route.stations)
              n == Len(list)
  <2>1. /\ route.stations \in Seq(Stop)
        /\ DOMAIN list = 1 .. n /\ n \in Nat
    BY <1>1 DEF IsList
  <2>2. \A i, j \in DOMAIN route.stations :
          route.stations[i].topisId = route.stations[j].topisId => i = j
    BY <1>1 DEF Where!ValidRoute
  <2>3. /\ \A k, l \in DOMAIN list : list[k].id = list[l].id => k = l
        /\ \A k \in DOMAIN list, i \in DOMAIN route.stations :
              route.stations[i].stationName = list[k].name
                <=> route.stations[i].topisId = list[k].id
    BY <1>1
  <2>. HIDE DEF route, list, Stop, n
  <2>4. DOMAIN list \subseteq Nat /\ IsFiniteSet(DOMAIN list)
    BY <2>1, FS_Interval
  <2>5. Where!EtasAtTheirStations(route, list)
    BY <2>1, <2>2, <2>3, <2>4, EtasWhereNamesTell
  <2>. QED  BY <2>5 DEF EtasAtTheirStations, route, list
<1>2. CASE asked.of # "etas"
  BY <1>2 DEF EtasAtTheirStations
<1>. QED  BY <1>1, <1>2

\* Whatever rooms, buildings and passages there are, a search and a page tell the
\* user what is there: BuildingsFound of any collection.
THEOREM SearchOfAnyCollection ==
  ASSUME asked.of = "rooms" => Search!IsRooms(asked.docs),
         asked.of = "houses" => IsFiniteSet(asked.docs),
         asked.of = "floors" => Search!IsRooms(asked.docs),
         asked.of = "ways" => Search!IsPassages(asked.list) /\ Search!IsPassages(asked.before)
  PROVE  BuildingsFound
<1>. DEFINE docs == asked.docs
            campus == asked.campus
<1>1. ASSUME asked.of = "rooms", NEW answer \in Search!SearchSpaces(docs, campus)
      PROVE  /\ Search!NothingBetterMissing(docs, campus, answer)
             /\ Search!CountsAgree(Search!SearchSpaces, docs, answer)
             /\ Search!GroupsOpen(docs, TwoHouses, answer)
  <2>1. Search!IsRooms(docs) /\ IsFiniteSet(docs) /\ Search!IsBuildings(TwoHouses)
    BY <1>1, SearchFinite, InputsInShape DEF Search!IsRooms
  <2>. HIDE DEF docs, campus
  <2>2. /\ DOMAIN answer.items \subseteq Nat /\ IsFiniteSet(DOMAIN answer.items)
        /\ \A k \in DOMAIN answer.items : answer.items[k] \in docs
    BY <1>1, <2>1, AnsweredRows
  <2>3. Search!NothingBetterMissing(docs, campus, answer)
    BY <1>1, <2>1, NothingBetterMissing
  <2>4. Search!CountsAgree(Search!SearchSpaces, docs, answer)
    BY <1>1, CountsAgree
  <2>5. Search!GroupsOpen(docs, TwoHouses, answer)
    <3>. DEFINE buildings == TwoHouses
    <3>. HIDE DEF buildings
    <3>1. Search!IsBuildings(buildings)
      BY <2>1 DEF buildings
    <3>2. Search!GroupsOpen(docs, buildings, answer)
      BY <2>1, <2>2, <3>1, GroupsOpen
    <3>. QED  BY <3>2 DEF buildings
  <2>. QED  BY <2>3, <2>4, <2>5
<1>2. ASSUME asked.of = "houses", NEW answer \in Search!SearchBuildings(docs, campus)
      PROVE  /\ Search!BuildingOfThatNumber(docs, campus, answer)
             /\ Search!CountsAgree(Search!SearchBuildings, docs, answer)
  <2>1. IsFiniteSet(docs)
    BY <1>2
  <2>. HIDE DEF docs, campus
  <2>. QED  BY <1>2, <2>1, BuildingOfThatNumber, CountsAgree
<1>3. asked.of = "floors" => Search!FloorsAscend(docs, "b1")
  BY FloorsAscend
<1>4. ASSUME asked.of = "ways"
      PROVE  Search!PassagesBothWays(Search!Seeded({}, asked.before, Walked), asked.list, Walked)
  <2>. DEFINE buildings == Walked
              before == asked.before
              list == asked.list
  <2>1. Search!IsBuildings(buildings) /\ Search!IsPassages(list) /\ Search!IsPassages(before)
    BY <1>4, InputsInShape
  <2>. HIDE DEF buildings, before, list
  <2>2. Search!PassagesBothWays(Search!Seeded({}, before, buildings), list, buildings)
    BY <2>1, PassagesBothWays
  <2>. QED  BY <2>2 DEF buildings, before, list
<1>. QED  BY <1>1, <1>2, <1>3, <1>4 DEF BuildingsFound

\* Whatever the registries of the repository hold, once the start accepts it the
\* pickers, the mini apps, the home screen and the banners it promises are served:
\* RegistriesServe of any category, registry, history of manifests and layout.
THEOREM RegistriesOfAnyFiles ==
  ASSUME asked.of = "tabs" => Tabs!IsCategory(asked.t),
         asked.of = "apps" =>
            /\ Apps!IsRegistry(asked.index, asked.files)
            /\ IsList(asked.responses)
            /\ \A i \in DOMAIN asked.responses : asked.responses[i].answer \in Apps!Answer,
         asked.of = "home" => Home!IsLayout(asked.layout, 0 .. 3),
         asked.of = "banners" => Home!IsSection(asked.carousel, 0 .. 3)
  PROVE  RegistriesServe
<1>. DEFINE times == 0 .. 3
<1>1. times \subseteq Int /\ times # {}
  OBVIOUS
<1>. HIDE DEF times
<1>2. asked.of = "tabs" /\ Tabs!ValidTab(asked.t) => Tabs!SeedsSelectable(asked.t)
  BY SeedsSelectable
<1>3. asked.of = "apps" => Apps!MiniAppsOpen(asked.index, asked.files, asked.responses)
  <2>. DEFINE T == Where!ToSet(asked.responses)
  <2>1. asked.of = "apps" => asked.responses \in Seq(T)
    BY DEF IsList
  <2>. HIDE DEF T
  <2>. QED  BY <2>1, MiniAppsOpen
<1>4. asked.of = "home" /\ Home!ValidHomeLayout(asked.layout) => Home!HomeServes(asked.layout, times)
  <2>1. asked.of = "home" => Home!IsLayout(asked.layout, times)
    BY DEF times
  <2>. QED  BY <1>1, <2>1, HomeServes
<1>5. asked.of = "banners" /\ Home!ValidCampusCarousel(asked.carousel) =>
         Home!CampusServes(asked.carousel, times)
  <2>1. asked.of = "banners" => Home!IsSection(asked.carousel, times)
    BY DEF times
  <2>. QED  BY <1>1, <2>1, CampusServes
<1>. QED  BY <1>2, <1>3, <1>4, <1>5 DEF RegistriesServe, times

\* So the runs' own documents get such answers, in every state.
THEOREM AnswersAlwaysHold ==
  AskSpec => [](/\ FestivalResolves /\ NextShown /\ RegistriesServe
               /\ BusesWhereReported /\ BuildingsFound)
<1>. DEFINE Of == asked.of
            Inv == /\ Of = "map" => asked.c \in Configs
                   /\ Of = "week" => asked.s \in Services /\ asked.today \in 0 .. 6
                   /\ Of = "notice" => asked.doc \in Summaries
                   /\ Of = "jongro" => /\ \A i \in DOMAIN asked.routes : asked.routes[i] \in Routes
                                       /\ asked.times \in FirstSeen /\ IsList(asked.items)
                   /\ Of = "hssc" => asked.before \in Before /\ asked.items \in Seq(Where!Report)
                   /\ Of = "rooms" => asked.docs \in RoomSets
                   /\ Of = "houses" => asked.docs \in HouseSets
                   /\ Of = "floors" => asked.docs \in FloorSets
                   /\ Of = "ways" => asked.list \subseteq Ways /\ asked.before \subseteq Ways
                   /\ Of = "tabs" => asked.t \in Categories
                   /\ Of = "apps" => /\ asked.index \in Indexes /\ asked.files \in Files
                                     /\ IsList(asked.responses)
                                     /\ \A i \in DOMAIN asked.responses :
                                           asked.responses[i] \in Responses
                   /\ Of = "home" => asked.layout \in Layouts
                   /\ Of = "banners" => asked.carousel \in Carousels
<1>1. AskInit => Inv
  BY DEF AskInit, Question
<1>2. Inv /\ [Ask]_asked => Inv'
  <2>1. SUFFICES ASSUME Inv, [Ask]_asked PROVE Inv'
    OBVIOUS
  <2>2. CASE UNCHANGED asked
    BY <2>1, <2>2
  <2>3. CASE asked' = Question
    BY <2>3 DEF Question
  <2>4. CASE AskMap
    BY <2>4 DEF AskMap
  <2>5. CASE AskWeek
    BY <2>5 DEF AskWeek
  <2>6. CASE AskNotice
    BY <2>6 DEF AskNotice
  <2>7. CASE AskJongro
    <3>1. \A S, n : \A s \in SeqOf(S, n) : (\A i \in DOMAIN s : s[i] \in S) /\ IsList(s)
      BY ListOf
    <3>. QED  BY <2>7, <3>1 DEF AskJongro
  <2>8. CASE AskHssc
    <3>1. asked'.of = "hssc" /\ asked'.before \in Before
      BY <2>8 DEF AskHssc
    <3>2. asked'.items \in SeqOf(Shuttles, 1) \cup [1 .. 2 -> Shuttles] \cup SeqOf(FewShuttles, 3)
      BY <2>8 DEF AskHssc
    <3>. DEFINE items == asked'.items
    <3>. HIDE DEF items
    <3>3. items \in Seq(Where!Report)
      <4>1. \/ items \in SeqOf(Shuttles, 1)
            \/ items \in [1 .. 2 -> Shuttles]
            \/ items \in SeqOf(FewShuttles, 3)
        BY <3>2 DEF items
      <4>2. Shuttles \subseteq Where!Report /\ FewShuttles \subseteq Where!Report
        BY InputsInShape
      <4>. DEFINE many == Shuttles
                  few == FewShuttles
                  R == Where!Report
      <4>. HIDE DEF many, few, R
      <4>3. SeqOf(many, 1) \subseteq Seq(many) /\ SeqOf(few, 3) \subseteq Seq(few)
        BY ListOf
      <4>4. many \subseteq R /\ few \subseteq R
        BY <4>2 DEF many, few, R
      <4>5. items \in SeqOf(many, 1) \/ items \in [1 .. 2 -> many] \/ items \in SeqOf(few, 3)
        BY <4>1 DEF many, few
      <4>6. items \in Seq(many) \/ items \in Seq(few)
        <5>1. [1 .. 2 -> many] \subseteq Seq(many)
          <6>. DEFINE m == 2
          <6>1. m \in Nat
            OBVIOUS
          <6>. HIDE DEF m
          <6>2. \A s \in [1 .. m -> many] : s \in Seq(many)
            BY <6>1
          <6>. QED  BY <6>2 DEF m
        <5>. QED  BY <4>3, <4>5, <5>1
      <4>7. items \in Seq(R)
        BY <4>4, <4>6
      <4>. QED  BY <4>7 DEF R
    <3>. QED  BY <3>1, <3>3 DEF items
  <2>9. CASE AskRooms
    BY <2>9 DEF AskRooms
  <2>10. CASE AskHouses
    BY <2>10 DEF AskHouses
  <2>11. CASE AskFloors
    BY <2>11 DEF AskFloors
  <2>12. CASE AskWays
    BY <2>12 DEF AskWays
  <2>13. CASE AskTabs \/ AskHome \/ AskBanners
    BY <2>13 DEF AskTabs, AskHome, AskBanners
  <2>14. CASE AskApps
    <3>1. \A S, n : \A s \in SeqOf(S, n) : (\A i \in DOMAIN s : s[i] \in S) /\ IsList(s)
      BY ListOf
    <3>. QED  BY <2>14, <3>1 DEF AskApps
  <2>15. CASE AskEtas \/ AskPlaces \/ AskCampus
    BY <2>15 DEF AskEtas, AskPlaces, AskCampus
  <2>. HIDE DEF Inv
  <2>. QED  BY <2>1, <2>2, <2>3, <2>4, <2>5, <2>6, <2>7, <2>8, <2>9, <2>10, <2>11, <2>12,
               <2>13, <2>14, <2>15 DEF Ask
<1>3. Inv => FestivalResolves /\ NextShown
  BY FestivalOfAnyFile, NextOfAnyDocument, InputsInShape
<1>4. Inv => RegistriesServe
  BY RegistriesOfAnyFiles, InputsInShape
<1>5. Inv => BusesWhereReported
  BY BusesOfAnyReport, InputsInShape
<1>6. Inv => BuildingsFound
  <2>1. Inv => /\ asked.of = "rooms" => Search!IsRooms(asked.docs)
               /\ asked.of = "houses" => IsFiniteSet(asked.docs)
               /\ asked.of = "floors" => Search!IsRooms(asked.docs)
    BY InputsInShape
  <2>2. Inv /\ asked.of = "ways" =>
           Search!IsPassages(asked.list) /\ Search!IsPassages(asked.before)
    BY InputsInShape DEF Search!IsPassages
  <2>. HIDE DEF Inv
  <2>. QED  BY <2>1, <2>2, SearchOfAnyCollection
<1>. HIDE DEF Inv
<1>. QED  BY <1>1, <1>2, <1>3, <1>4, <1>5, <1>6, PTL DEF AskSpec
=============================================================================
