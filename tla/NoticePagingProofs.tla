------------------------- MODULE NoticePagingProofs -------------------------
(***************************************************************************)
(* Proofs about NoticePaging, for every collection, every sequence of      *)
(* limits and every number of changes.                                     *)
(***************************************************************************)
EXTENDS NoticePaging, FiniteSetTheorems, TLAPS

USE PagingAssumption DEF PagingAssumption, Position, None

\* The sort is a strict total order on positions.
LEMMA BeforeOrders ==
    ASSUME NEW a \in Position, NEW b \in Position
    PROVE  /\ ~Before(a, a)
           /\ Before(a, b) => ~Before(b, a)
           /\ a = b \/ Before(a, b) \/ Before(b, a)
           /\ \A c \in Position : Before(a, b) /\ Before(b, c) => Before(a, c)
<1>1. \A c \in Position : c.d \in Int /\ c.i \in Int
  <2> TAKE c \in Position
  <2>1. c.d \in Date /\ c.i \in Notice
    OBVIOUS
  <2>2. Date \subseteq Int /\ Notice \subseteq Int
    OBVIOUS
  <2> QED BY <2>1, <2>2
<1>2. a.d = b.d /\ a.i = b.i => a = b
  OBVIOUS
<1> HIDE DEF Position
<1> QED BY <1>1, <1>2 DEF Before

LEMMA TypeInit == Init => TypeOK
<1> SUFFICES ASSUME Init PROVE TypeOK
  OBVIOUS
<1>1. ofType \in SUBSET Notice
  BY DEF Init
<1>2. times \in [Notice -> 0 .. 2]
  BY DEF Init
<1>3. ended \in BOOLEAN
  BY DEF Init
<1>4. /\ stored \in SUBSET Notice /\ deleted \in SUBSET Notice
      /\ date \in [Notice -> Date] /\ touched \in SUBSET Notice
      /\ edits \in 0 .. MaxEdits /\ cursor \in Position \cup {None}
  BY DEF Init
<1> QED BY <1>1, <1>2, <1>3, <1>4 DEF TypeOK

LEMMA TypeStep == ASSUME TypeOK, [Next]_vars PROVE TypeOK'
<1> USE DEF TypeOK
<1>1. CASE Refresh
  <2>1. times' \in [Notice -> 0 .. 2]
    BY <1>1 DEF Refresh
  <2>2. ended' \in BOOLEAN
    BY <1>1 DEF Refresh
  <2>3. cursor' \in Position \cup {None} /\ touched' \in SUBSET Notice
    BY <1>1 DEF Refresh
  <2>4. UNCHANGED <<stored, date, deleted, ofType, edits>>
    BY <1>1 DEF Refresh, collection
  <2> QED BY <2>1, <2>2, <2>3, <2>4
<1>2. ASSUME NEW raw \in QueryLimit, NextPage(raw) PROVE TypeOK'
  <2>1. cursor' \in Position \cup {None}
    <3>1. PICK P \in SUBSET Rest :
            IF ended' THEN UNCHANGED cursor
                      ELSE \E l \in P : LastOf(l, P) /\ cursor' = At(l)
      BY <1>2 DEF NextPage
    <3>2. CASE ended'
      BY <3>1, <3>2
    <3>3. CASE ~ended'
      <4>1. PICK l \in P : cursor' = At(l)
        BY <3>1, <3>3
      <4>2. l \in Notice
        BY DEF Rest, Matching
      <4> QED BY <4>1, <4>2 DEF At
    <3> QED BY <3>2, <3>3
  <2>2. ended' \in BOOLEAN
    BY <1>2 DEF NextPage
  <2>3. times' \in [Notice -> 0 .. 2]
    BY <1>2 DEF NextPage, Show
  <2>4. UNCHANGED <<stored, date, deleted, ofType, edits, touched>>
    BY <1>2 DEF NextPage, collection
  <2> QED BY <2>1, <2>2, <2>3, <2>4
<1>3. ASSUME NEW n \in Notice, Insert(n) \/ Mark(n) \/ Redate(n) \/ Summarise(n)
      PROVE  TypeOK'
  <2>1. Edit(n)
    BY <1>3 DEF Insert, Mark, Redate, Summarise
  <2>2. /\ stored' \in SUBSET Notice
        /\ deleted' \in SUBSET Notice
        /\ ofType' \in SUBSET Notice
    BY <1>3 DEF Insert, Mark, Redate, Summarise
  <2>3. date' \in [Notice -> Date]
    BY <1>3 DEF Insert, Mark, Redate, Summarise
  <2>4. /\ edits' \in 0 .. MaxEdits
        /\ touched' \in SUBSET Notice
    BY <2>1 DEF Edit
  <2>5. UNCHANGED <<cursor, ended, times>>
    BY <2>1 DEF Edit, client
  <2> QED BY <2>2, <2>3, <2>4, <2>5
<1>4. CASE UNCHANGED vars
  BY <1>4 DEF vars
<1> QED BY <1>1, <1>2, <1>3, <1>4 DEF Next

\* The types are right in every reachable state.
THEOREM PagingTypeCorrect == Spec => []TypeOK
BY TypeInit, TypeStep, PTL DEF Spec

-----------------------------------------------------------------------------
\* What was shown and not changed lies behind the cursor; with the two
\* properties themselves this is inductive.
ShownPassed == \A n \in Notice \ touched : times[n] > 0 => Passed(n)

PageInv == TypeOK /\ ShownPassed /\ NoneSkipped /\ NoneRepeated

LEMMA PageInit == Init => PageInv
BY TypeInit DEF Init, PageInv, ShownPassed, NoneSkipped, NoneRepeated, Passed

\* A new scroll has shown nothing and passed nothing.
LEMMA RefreshKeeps == ASSUME PageInv, Refresh PROVE PageInv'
<1>1. TypeOK'
  BY TypeStep DEF PageInv, Next
<1>2. ShownPassed' /\ NoneSkipped' /\ NoneRepeated'
  BY DEF Refresh, ShownPassed, NoneSkipped, NoneRepeated, Passed
<1> QED BY <1>1, <1>2 DEF PageInv

\* A page moves the cursor to its last item: behind it are exactly the items
\* that were behind the old cursor and the page itself.
LEMMA PageKeeps ==
    ASSUME PageInv, NEW raw \in QueryLimit, NextPage(raw) PROVE PageInv'
<1> USE DEF TypeOK, PageInv
<1>1. TypeOK'
  BY TypeStep DEF Next
<1>2. PICK P \in SUBSET Rest :
        /\ FirstPage(P, Rest, LimitOf(raw))
        /\ Show(P)
        /\ ended' = ~(Cardinality(Rest) > LimitOf(raw))
        /\ IF ended' THEN UNCHANGED cursor
                     ELSE \E l \in P : LastOf(l, P) /\ cursor' = At(l)
  BY DEF NextPage
<1>3. /\ ~ended
      /\ UNCHANGED <<stored, date, deleted, ofType, touched>>
  BY DEF NextPage, collection
<1>4. \A n \in Notice : At(n) \in Position /\ At(n)' = At(n)
  BY <1>3 DEF At
<1>5. P \subseteq Notice /\ \A n \in P : AfterCursor(n) /\ ~Passed(n)
  BY <1>3 DEF Rest, Matching, Passed
<1>6. \A n \in Notice : Passed(n) => Passed(n)'
  <2> SUFFICES ASSUME NEW n \in Notice, cursor # None, ~AfterCursor(n), ~ended'
               PROVE  Passed(n)'
    BY <1>3, <1>2 DEF Passed, AfterCursor
  <2>1. PICK l \in P : LastOf(l, P) /\ cursor' = At(l)
    BY <1>2
  <2>2. Before(cursor, At(l)) /\ ~Before(cursor, At(n))
    BY <1>5 DEF AfterCursor
  <2>3. cursor \in Position /\ At(l) \in Position /\ At(n) \in Position
    BY <1>4, <1>5
  <2>4. ~Before(At(l), At(n))
    BY <2>2, <2>3, BeforeOrders
  <2> QED BY <1>4, <2>1, <2>3, <2>4 DEF Passed, AfterCursor, At
<1>7. \A n \in P : Passed(n)'
  <2> SUFFICES ASSUME NEW n \in P, ~ended' PROVE Passed(n)'
    BY DEF Passed
  <2>1. PICK l \in P : LastOf(l, P) /\ cursor' = At(l)
    BY <1>2
  <2>2. ~Before(At(l), At(n))
    BY <1>4, <1>5, <2>1, BeforeOrders DEF LastOf
  <2>3. At(l) # None /\ At(n)' = At(n)
    BY <1>4, <1>5
  <2> QED BY <2>1, <2>2, <2>3 DEF Passed, AfterCursor
<1>8. ShownPassed'
  <2> SUFFICES ASSUME NEW n \in Notice \ touched, times'[n] > 0 PROVE Passed(n)'
    BY <1>3 DEF ShownPassed
  <2>1. CASE n \in P
    BY <1>7, <2>1
  <2>2. CASE n \notin P
    BY <1>2, <1>6, <2>2 DEF Show, ShownPassed
  <2> QED BY <2>1, <2>2
<1>9. NoneRepeated'
  <2> SUFFICES ASSUME NEW n \in Notice \ touched PROVE times'[n] <= 1
    BY <1>3 DEF NoneRepeated
  <2>1. CASE n \in P
    <3>1. times[n] = 0
      BY <1>5, <2>1 DEF ShownPassed
    <3> QED BY <1>2, <2>1, <3>1 DEF Show
  <2>2. CASE n \notin P
    BY <1>2, <2>2 DEF Show, NoneRepeated
  <2> QED BY <2>1, <2>2
<1>10. NoneSkipped'
  <2>1. Matching' = Matching
    BY <1>3 DEF Matching
  <2> SUFFICES ASSUME NEW n \in Matching \ touched, Passed(n)', n \notin P
               PROVE  times'[n] > 0
    BY <1>2, <1>3, <2>1 DEF NoneSkipped, Shown, Show, Matching
  <2>2. n \in Notice
    BY DEF Matching
  <2>3. CASE Passed(n)
    BY <1>2, <2>2, <2>3 DEF NoneSkipped, Shown, Show
  <2>4. CASE ~Passed(n)
    <3>1. n \in Rest \ P
      BY <1>3, <2>4 DEF Rest, Passed, AfterCursor
    <3>2. ~ended'
      BY <1>2, <3>1 DEF FirstPage
    <3>3. PICK l \in P : cursor' = At(l)
      BY <1>2, <3>2
    <3>4. Before(At(l), At(n))
      BY <1>2, <3>1, <3>3 DEF FirstPage
    <3>5. AfterCursor(n)'
      BY <1>4, <2>2, <3>3, <3>4 DEF AfterCursor
    <3> QED BY <3>2, <3>5 DEF Passed
  <2> QED BY <2>3, <2>4
<1> QED BY <1>1, <1>8, <1>9, <1>10

\* A change touches its own notice only.
LEMMA EditKeeps ==
    ASSUME PageInv, NEW n \in Notice,
           Insert(n) \/ Mark(n) \/ Redate(n) \/ Summarise(n)
    PROVE  PageInv'
<1> USE DEF TypeOK, PageInv
<1>1. TypeOK'
  BY TypeStep DEF Next
<1>2. /\ touched' = touched \cup {n}
      /\ UNCHANGED <<cursor, ended, times>>
  BY DEF Insert, Mark, Redate, Summarise, Edit, client
<1>3. \A m \in Notice \ {n} :
        /\ date'[m] = date[m]
        /\ m \in stored' <=> m \in stored
        /\ m \in deleted' <=> m \in deleted
        /\ m \in ofType' <=> m \in ofType
  BY DEF Insert, Mark, Redate, Summarise
<1>4. \A m \in Notice \ {n} : /\ Passed(m)' <=> Passed(m)
                              /\ m \in Matching' <=> m \in Matching
  BY <1>2, <1>3 DEF Passed, AfterCursor, At, Matching
<1>5. Matching' \subseteq Notice
  BY DEF Matching
<1>6. ShownPassed'
  BY <1>2, <1>4 DEF ShownPassed
<1>7. NoneRepeated'
  BY <1>2 DEF NoneRepeated
<1>8. NoneSkipped'
  BY <1>2, <1>4, <1>5 DEF NoneSkipped, Shown
<1> QED BY <1>1, <1>6, <1>7, <1>8

LEMMA StutterKeeps == ASSUME PageInv, UNCHANGED vars PROVE PageInv'
BY DEF PageInv, TypeOK, ShownPassed, NoneSkipped, NoneRepeated, Passed, Shown,
       Matching, AfterCursor, At, vars

LEMMA PageStep == PageInv /\ [Next]_vars => PageInv'
BY RefreshKeeps, PageKeeps, EditKeeps, StutterKeeps DEF Next

\* No page leaves out a notice that stayed as it was: whatever else is
\* inserted, edited or deleted meanwhile, and whatever the page sizes.
THEOREM NothingSkipped == Spec => []NoneSkipped
<1>1. PageInv => NoneSkipped
  BY DEF PageInv
<1> QED BY <1>1, PageInit, PageStep, PTL DEF Spec

\* No page repeats a notice that stayed as it was.
THEOREM NothingRepeated == Spec => []NoneRepeated
<1>1. PageInv => NoneRepeated
  BY DEF PageInv
<1> QED BY <1>1, PageInit, PageStep, PTL DEF Spec
=============================================================================
