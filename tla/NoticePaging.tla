---------------------------- MODULE NoticePaging ----------------------------
(***************************************************************************)
(* GET /notices and GET /notices/source/:id: a client scrolls through the  *)
(* list page by page with the cursor it was given, while the crawler and   *)
(* the summariser change the collection between its requests.              *)
(*                                                                         *)
(* A notice is its _id, a number: a later _id is greater.  One request     *)
(* reads one state of the collection.  The cursor's legacy field c, which  *)
(* is minted and never read, is left out; so are searches, whose filter    *)
(* acts like the one on the type.                                          *)
(***************************************************************************)
EXTENDS Integers, FiniteSets

CONSTANTS
    Notice,        \* _ids
    Date,          \* days
    StartDate,     \* config.notices.serviceStartDate
    Wanted,        \* notices of the sources asked for
    AnyType,       \* no type is asked for
    QueryLimit,    \* values of ?limit=, NoLimit for none or not a number
    NoLimit,
    DefaultLimit,  \* 20
    MaxLimit,      \* 50
    MaxEdits       \* bound: changes of the collection

ASSUME PagingAssumption ==
    /\ Notice \subseteq Nat /\ IsFiniteSet(Notice)
    /\ Date \subseteq Nat /\ StartDate \in Nat
    /\ Wanted \subseteq Notice
    /\ AnyType \in BOOLEAN
    /\ QueryLimit \subseteq Int
    /\ NoLimit \in Int
    /\ DefaultLimit \in 1 .. MaxLimit /\ MaxLimit \in Nat
    /\ MaxEdits \in Nat

VARIABLES
    stored,   \* _ids in the collection
    date,     \* of each notice
    deleted,  \* isDeleted
    ofType,   \* its summaryType is the type asked for
    edits,    \* changes so far
    \* the client
    cursor,   \* last item of the last page, or None
    ended,    \* the last page had no nextCursor
    times,    \* how often a notice was shown in this scroll: 0, 1 or 2 for more
    \* for the properties only
    touched   \* changed by somebody since the scroll began

collection == <<stored, date, deleted, ofType, edits>>
client == <<cursor, ended, times>>
vars == <<stored, date, deleted, ofType, edits, cursor, ended, times, touched>>

Position == [d : Date, i : Notice]
None == [d |-> -1, i |-> -1]

TypeOK ==
    /\ stored \in SUBSET Notice
    /\ date \in [Notice -> Date]
    /\ deleted \in SUBSET Notice
    /\ ofType \in SUBSET Notice
    /\ edits \in 0 .. MaxEdits
    /\ cursor \in Position \cup {None}
    /\ ended \in BOOLEAN
    /\ times \in [Notice -> 0 .. 2]
    /\ touched \in SUBSET Notice

Init ==
    /\ stored \in SUBSET Notice
    /\ date \in [Notice -> Date]
    /\ deleted = {}
    /\ ofType \in SUBSET stored
    /\ edits = 0
    /\ cursor = None /\ ended = FALSE /\ times = [n \in Notice |-> 0]
    /\ touched = {}

-----------------------------------------------------------------------------
(* The query *)

\* Sort {date: -1, _id: -1}.
Before(a, b) == a.d > b.d \/ (a.d = b.d /\ a.i > b.i)

At(n) == [d |-> date[n], i |-> n]

Matching ==
    {n \in stored \cap Wanted :
        n \notin deleted /\ date[n] >= StartDate /\ (AnyType \/ n \in ofType)}

\* Wrong: the predecessor's item again.
FromCursor(n) == cursor = None \/ cursor = At(n) \/ Before(cursor, At(n))

\* buildCursorFilter
AfterCursor(n) == cursor = None \/ Before(cursor, At(n))

Rest == {n \in Matching : AfterCursor(n)}

\* limit=... of the query string.
LimitOf(raw) ==
    LET n == IF raw = NoLimit THEN DefaultLimit ELSE raw
    IN  IF n < 1 THEN 1 ELSE IF n > MaxLimit THEN MaxLimit ELSE n

\* P is the first page of S: its first limit members, or all of them.
FirstPage(P, S, limit) ==
    /\ P \subseteq S
    /\ IF Cardinality(S) > limit THEN Cardinality(P) = limit ELSE P = S
    /\ \A a \in P, b \in S \ P : Before(At(a), At(b))

LastOf(l, P) == l \in P /\ \A n \in P : n = l \/ Before(At(n), At(l))

-----------------------------------------------------------------------------
(* The client *)

Refresh ==
    /\ cursor # None \/ ended
    /\ cursor' = None /\ ended' = FALSE /\ times' = [n \in Notice |-> 0]
    /\ touched' = {}
    /\ UNCHANGED collection

Show(P) ==
    times' = [n \in Notice |-> IF n \notin P THEN times[n]
                               ELSE IF times[n] = 0 THEN 1 ELSE 2]

\* Wrong: the cursor is the extra item that was read to learn of more.
ExtraIsLast(raw) ==
    /\ ~ended
    /\ \E P \in SUBSET Rest :
          /\ FirstPage(P, Rest, LimitOf(raw))
          /\ Show(P)
          /\ ended' = (P = Rest)
          /\ \/ P = Rest /\ UNCHANGED cursor
             \/ \E l \in Rest \ P : /\ \A n \in Rest \ P : n = l \/ Before(At(l), At(n))
                                    /\ cursor' = At(l)
    /\ UNCHANGED <<collection, touched>>

\* One page.  It ends the scroll when it is the last one.
NextPage(raw) ==
    /\ ~ended
    /\ \E P \in SUBSET Rest :
          /\ FirstPage(P, Rest, LimitOf(raw))
          /\ Show(P)
          /\ ended' = ~(Cardinality(Rest) > LimitOf(raw))
          /\ IF ended' THEN UNCHANGED cursor
                       ELSE \E l \in P : LastOf(l, P) /\ cursor' = At(l)
    /\ UNCHANGED <<collection, touched>>

-----------------------------------------------------------------------------
(* External: the crawler and the summariser *)

Edit(n) ==
    /\ edits < MaxEdits
    /\ edits' = edits + 1
    /\ touched' = touched \cup {n}
    /\ UNCHANGED client

\* A new notice, of any day.
Insert(n) ==
    /\ n \notin stored
    /\ Edit(n)
    /\ stored' = stored \cup {n}
    /\ UNCHANGED <<date, deleted, ofType>>

\* A deletion is a mark, and may be taken back.
Mark(n) ==
    /\ n \in stored
    /\ Edit(n)
    /\ deleted' = IF n \in deleted THEN deleted \ {n} ELSE deleted \cup {n}
    /\ UNCHANGED <<stored, date, ofType>>

Redate(n) ==
    /\ n \in stored
    /\ Edit(n)
    /\ \E d \in Date : date' = [date EXCEPT ![n] = d]
    /\ UNCHANGED <<stored, deleted, ofType>>

Summarise(n) ==
    /\ n \in stored
    /\ Edit(n)
    /\ ofType' = ofType \cup {n}
    /\ UNCHANGED <<stored, date, deleted>>

-----------------------------------------------------------------------------
Next ==
    \/ Refresh
    \/ \E raw \in QueryLimit : NextPage(raw)
    \/ \E n \in Notice : Insert(n) \/ Mark(n) \/ Redate(n) \/ Summarise(n)

Spec == Init /\ [][Next]_vars

\* A client that wants more keeps asking, with one limit of its own.
FairSpec == Spec /\ \E raw \in QueryLimit : WF_vars(NextPage(raw))

-----------------------------------------------------------------------------
(* Properties *)

Shown == {n \in Notice : times[n] > 0}

\* The scroll is through with the place of n.
Passed(n) == ended \/ (cursor # None /\ ~AfterCursor(n))

\* A notice nobody has changed since the scroll began has been shown by the
\* time the scroll has passed its place: pages leave none out.
NoneSkipped == \A n \in Matching \ touched : Passed(n) => n \in Shown

\* ... and is shown once, wherever the pages end and whatever else changes.
NoneRepeated == \A n \in Notice \ touched : times[n] <= 1

\* A client that keeps asking reaches the end of the list.
ScrollEnds == []<>(ended \/ cursor = None)
=============================================================================
