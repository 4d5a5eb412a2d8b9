------------------------------ MODULE NoticeItem ------------------------------
(***************************************************************************)
(* What the list and the page of a notice show of it: notices.transform.ts.*)
(* A period of the summary is [startDate, endDate, endTime, label], each   *)
(* None when the document lacks it; a date is a number of days, a time a   *)
(* number below Day, or Broken when it is no time.  Left out: the fields   *)
(* that are passed on as they are.                                         *)
(***************************************************************************)
EXTENDS Integers, FiniteSets, SequencesExt

CONSTANTS None, Broken, Day

\* SummaryPeriod, and the document of a notice.
Period == [startDate : Int \cup {None}, endDate : Int \cup {None},
           endTime : Int \cup {None, Broken}]
IsNotice(doc) == doc.summaryPeriods \in Seq(Period) /\ doc.editCount \in Nat

SummaryType == {"action_required", "event", "informational"}
NormalizeSummaryType(t) == IF t \in SummaryType THEN t ELSE "informational"

\* periodEndEpochMs: a day without a time ends with its last second.
PeriodEnd(p) ==
    CASE p.endTime = Broken -> Broken
      [] p.endTime = None -> p.endDate * Day + Day - 1
      [] OTHER -> p.endDate * Day + p.endTime

\* A deadline, and not an event of some hours on one day.
IsCandidate(p) ==
    /\ p.endDate # None
    /\ ~(p.startDate = p.endDate /\ p.endTime # None)

(* selectEffectivePeriod: every period it may return.  Among passed ones,  *)
(* a time that cannot be read leaves the sort without an order.            *)
Latest(past) ==
    IF \E p \in past : PeriodEnd(p) = Broken THEN past
    ELSE {p \in past : \A q \in past : PeriodEnd(p) >= PeriodEnd(q)}
LatestAlways(candidates, now) == Latest(candidates)   \* wrong: what is ahead is not looked for
EffectiveDeadline(candidates, now) ==
    LET future == {p \in candidates : PeriodEnd(p) # Broken /\ PeriodEnd(p) >= now}
    IN IF future = {} THEN Latest(candidates)
       ELSE {p \in future : \A q \in future : PeriodEnd(p) <= PeriodEnd(q)}
SelectEffectivePeriod(periods, type, now) ==
    LET candidates == {p \in ToSet(periods) : IsCandidate(p)}
    IN IF periods = <<>> THEN {None}
       ELSE IF type # "action_required" THEN {periods[1]}
       ELSE IF candidates = {} THEN {None}
       ELSE EffectiveDeadline(candidates, now)

\* buildSummaryBrief, buildSummaryFull, toListItem, toDetailItem
Brief(doc, now) ==
    LET type == NormalizeSummaryType(doc.summaryType)
    IN IF doc.summaryAt = None THEN {None}
       ELSE { [type |-> type,
               endAt |-> IF p = None \/ (p.endDate = None /\ p.endTime = None) THEN None
                         ELSE [date |-> p.endDate, time |-> p.endTime]] :
                p \in SelectEffectivePeriod(doc.summaryPeriods, type, now) }
Full(doc) ==
    IF doc.summaryAt = None THEN None
    ELSE [type |-> NormalizeSummaryType(doc.summaryType), periods |-> doc.summaryPeriods]
ListItems(doc, now) ==
    { [summary |-> brief, hasContent |-> doc.contentHash # None, isEdited |-> doc.editCount > 0] :
        brief \in Brief(doc, now) }
DetailItem(doc) ==
    [summary |-> Full(doc),
     editInfo |-> IF doc.editCount > 0 THEN [count |-> doc.editCount] ELSE None]

-----------------------------------------------------------------------------
(* The list and the page agree about the summary and the edits.  A notice  *)
(* that asks for something shows a deadline that is still ahead if one is, *)
(* no other between it and now, and as time passes never an earlier one    *)
(* than before; it shows none only if there is none.                       *)
DeadlineShown(doc, times) ==
    LET page == DetailItem(doc)
        deadlines == IF page.summary = None THEN {}
                     ELSE {p \in ToSet(page.summary.periods) : IsCandidate(p)}
        Asks == page.summary # None /\ page.summary.type = "action_required"
        EndOf(end) == PeriodEnd([endDate |-> end.date, endTime |-> end.time])
    IN \A now \in times : \A item \in ListItems(doc, now) :
         /\ item.summary = None <=> page.summary = None
         /\ item.isEdited <=> page.editInfo # None
         /\ Asks => (item.summary.endAt = None <=> deadlines = {})
         /\ Asks /\ (\A p \in deadlines : PeriodEnd(p) # Broken) /\ deadlines # {} =>
               LET shown == EndOf(item.summary.endAt)
               IN /\ \A p \in deadlines :
                        PeriodEnd(p) >= now => shown >= now /\ shown <= PeriodEnd(p)
                  /\ \A later \in {t \in times : t > now} :
                        \A next \in ListItems(doc, later) : EndOf(next.summary.endAt) >= shown
=============================================================================
