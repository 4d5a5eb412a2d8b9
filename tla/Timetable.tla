------------------------------ MODULE Timetable ------------------------------
(***************************************************************************)
(* The committed timetable of the shuttles: what parseTimetableFile        *)
(* accepts, the documents of bus_schedules made of it, and the difference  *)
(* set-campus-schedule reports between a document and its file.            *)
(*                                                                         *)
(* A timetable is [semester, effectiveFrom, patterns], a pattern           *)
(* [patternId, days, serviceIds, entries], with sequences as in the file;  *)
(* an entry is [time, routeType, busCount, notes, unknown], unknown being  *)
(* whether it carries a key that is not of an entry, "index" among them.   *)
(* A time is a number of minutes.                                          *)
(***************************************************************************)
EXTENDS Integers, SequencesExt

CONSTANTS None,   \* null
          Broken  \* a value of another form

RouteTypes == <<"regular", "hakbu">>

Rank(entry) == entry.time * Len(RouteTypes) + SelectInSeq(RouteTypes, LAMBDA t : t = entry.routeType)
EntryKey(entry) == <<entry.time, entry.routeType>>

ValidEntry(entry) ==
    /\ ~entry.unknown
    /\ entry.time \in 0 .. 1439
    /\ entry.routeType \in ToSet(RouteTypes)
    /\ entry.busCount >= 1
    /\ entry.notes # Broken

\* Sorted by time and then by route type, no key twice.
ValidEntries(entries) ==
    /\ entries # <<>>
    /\ \A i \in DOMAIN entries : ValidEntry(entries[i])
    /\ \A i, j \in DOMAIN entries :
          i < j => /\ EntryKey(entries[i]) # EntryKey(entries[j])
                   /\ Rank(entries[i]) <= Rank(entries[j])

ValidPattern(pattern) ==
    /\ pattern.patternId # Broken
    /\ pattern.days # <<>> /\ ToSet(pattern.days) \subseteq 1 .. 7
    /\ pattern.serviceIds # <<>>
    /\ ValidEntries(pattern.entries)

\* No pattern of a service twice, no weekday claimed twice, by one or by two.
NothingClaimed(patterns) == TRUE             \* wrong: only the patterns are told apart
DaysApart(patterns) ==
    /\ \A p \in ToSet(patterns) : IsInjective(p.days)
    /\ \A i, j \in DOMAIN patterns :
          i # j /\ ToSet(patterns[i].serviceIds) \cap ToSet(patterns[j].serviceIds) # {}
             => ToSet(patterns[i].days) \cap ToSet(patterns[j].days) = {}

PatternsApart(patterns) ==
    /\ \A p \in ToSet(patterns) : IsInjective(p.serviceIds)
    /\ \A i, j \in DOMAIN patterns :
          i # j /\ ToSet(patterns[i].serviceIds) \cap ToSet(patterns[j].serviceIds) # {}
             => patterns[i].patternId # patterns[j].patternId

\* parseTimetableFile
ValidTimetable(t) ==
    /\ t.semester # Broken /\ t.effectiveFrom # Broken
    /\ t.patterns # <<>>
    /\ \A p \in ToSet(t.patterns) : ValidPattern(p)
    /\ PatternsApart(t.patterns)
    /\ DaysApart(t.patterns)

-----------------------------------------------------------------------------
\* buildDocuments: an entry's index is its place.
Entry(pattern, i) ==
    [index |-> i, time |-> pattern.entries[i].time,
     routeType |-> pattern.entries[i].routeType,
     busCount |-> pattern.entries[i].busCount, notes |-> pattern.entries[i].notes]

Document(pattern, service) ==
    [serviceId |-> service, patternId |-> pattern.patternId, days |-> pattern.days,
     entries |-> [i \in DOMAIN pattern.entries |-> Entry(pattern, i)]]

Documents(t) ==
    UNION {{Document(p, s) : s \in ToSet(p.serviceIds)} : p \in ToSet(t.patterns)}

DocKey(doc) == <<doc.serviceId, doc.patternId>>

\* A Map keeps the last entry of a key.
LastOf(entries, key) ==
    entries[SelectLastInSeq(entries, LAMBDA e : EntryKey(e) = key)]
Keys(entries) == {EntryKey(e) : e \in ToSet(entries)}

\* diffEntries has no line to say: added, removed or changed.  Where an entry
\* stands and its index are not compared.
SameEntries(before, after) ==
    /\ Keys(before) = Keys(after)
    /\ \A k \in Keys(after) :
          /\ LastOf(before, k).busCount = LastOf(after, k).busCount
          /\ LastOf(before, k).notes = LastOf(after, k).notes

\* renderDiff: the documents of the file to be written.
Differs(docs, doc) ==
    ~ \E before \in docs : /\ DocKey(before) = DocKey(doc)
                           /\ before.days = doc.days
                           /\ SameEntries(before.entries, doc.entries)

\* The read-back: what the collection holds of the services is the file's.
HoldsByDiff(docs, target) ==                 \* wrong: read back with the diff
    \A doc \in target : ~Differs(docs, doc)
Holds(docs, target) == docs = target
=============================================================================
