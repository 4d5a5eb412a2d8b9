----------------------------- MODULE PlacesImport -----------------------------
(***************************************************************************)
(* The operators' scripts of the event map: import-eventmap-places, which  *)
(* brings the sheet of a layer set into `places`, and eventmap-window,     *)
(* which opens and closes its activation.  Both read first and write what  *)
(* they concluded, nothing locks anything, and any of them may die between *)
(* two calls.  A place may also be edited by hand.                         *)
(*                                                                         *)
(* A place's content is a function on Field, the groups of COMPARED_FIELDS *)
(* a place may differ in; a sheet is a function from ids to contents.      *)
(***************************************************************************)
EXTENDS Integers, FiniteSets

CONSTANTS
    Run,         \* runs of the importer
    Command,     \* runs of the window script
    Place,       \* ids
    Field,       \* what a place consists of
    Sheet,       \* versions of the sheet, all accepted by parsePlacesFile
    HandMade,    \* the content of a place that was edited by hand
    Minutes,     \* what --minutes may be
    MaxClock,    \* bound on the clock
    MaxEdits,    \* bound on the edits by hand
    None

Forever == MaxClock + 1

VARIABLES
    places,      \* the collection: a content or None for every id
    activation,  \* its document: None or [enabled, from, until]
    run,         \* the importers
    command,     \* the window commands
    clock, edits,
    promised     \* history: [from, until] of the last command that opened, or None

vars == <<places, activation, run, command, clock, edits, promised>>

Idle == [pc |-> "idle"]
Init ==
    /\ places = [p \in Place |-> None]
    /\ activation = None
    /\ run = [r \in Run |-> Idle]
    /\ command = [c \in Command |-> Idle]
    /\ clock = 0 /\ edits = 0
    /\ promised = None

Stored == {p \in Place : places[p] # None}

\* Everyone who has begun notes the places that others touch.
Touch(by, p) ==
    [r \in Run |-> IF r # by /\ run[r].pc # "idle"
                   THEN [run[r] EXCEPT !.others = @ \cup {p}] ELSE run[r]]

-----------------------------------------------------------------------------
(* import-eventmap-places *)

\* main: the sheet is parsed, and the ids it lacks are read before anything is
\* written.  A dry run stops here.
FindOrphans(r) ==
    /\ run[r].pc = "idle"
    /\ \E sheet \in Sheet, delete \in BOOLEAN, dry \in BOOLEAN :
          run' = [run EXCEPT ![r] =
                    [pc |-> IF dry THEN "dry" ELSE "diff",
                     sheet |-> sheet, delete |-> delete,
                     orphans |-> Stored \ DOMAIN sheet,
                     changed |-> {}, others |-> {}]]
    /\ UNCHANGED <<places, activation, command, clock, edits, promised>>

\* upsertDocs, first half: only what differs in a compared field is written.
ForgotDetail == Field \ {"detail"}           \* wrong: a field was forgotten
ComparedFields == Field
Differs(stored, content) ==
    stored = None \/ \E f \in ComparedFields : stored[f] # content[f]

Diff(r) ==
    /\ run[r].pc = "diff"
    /\ run' = [run EXCEPT
          ![r].pc = "write",
          ![r].changed = {p \in DOMAIN run[r].sheet :
                            Differs(places[p], run[r].sheet[p])},
          ![r].others = @ \ DOMAIN run[r].sheet]
    /\ UNCHANGED <<places, activation, command, clock, edits, promised>>

\* upsertDocs, second half: one unordered bulk write, place by place.
Upsert(r, p) ==
    /\ run[r].pc = "write" /\ p \in run[r].changed
    /\ places' = [places EXCEPT ![p] = run[r].sheet[p]]
    /\ run' = [Touch(r, p) EXCEPT ![r].changed = @ \ {p}]
    /\ UNCHANGED <<activation, command, clock, edits, promised>>

Written(r) ==
    /\ run[r].pc = "write" /\ run[r].changed = {}
    /\ run' = [run EXCEPT ![r].pc = IF run[r].delete THEN "delete" ELSE "ensure"]
    /\ UNCHANGED <<places, activation, command, clock, edits, promised>>

\* deleteMany, place by place: the orphans as they were read at the start.
Delete(r, p) ==
    /\ run[r].pc = "delete" /\ p \in run[r].orphans
    /\ places' = [places EXCEPT ![p] = None]
    /\ run' = [Touch(r, p) EXCEPT ![r].orphans = @ \ {p}]
    /\ UNCHANGED <<activation, command, clock, edits, promised>>

Deleted(r) ==
    /\ run[r].pc = "delete" /\ run[r].orphans = {}
    /\ run' = [run EXCEPT ![r].pc = "ensure"]
    /\ UNCHANGED <<places, activation, command, clock, edits, promised>>

\* ensureActivation: inserted disabled, never modified.
Disabled == [enabled |-> FALSE, from |-> None, until |-> None]
EnsuredBySet == Disabled                     \* wrong: $set instead of $setOnInsert
Ensured == IF activation = None THEN Disabled ELSE activation
Ensure(r) ==
    /\ run[r].pc = "ensure"
    /\ activation' = Ensured
    /\ run' = [run EXCEPT ![r].pc = "done"]
    /\ UNCHANGED <<places, command, clock, edits, promised>>

\* A rejected write, a lost connection or the end of the process.
Abort(r) ==
    /\ run[r].pc \in {"diff", "write", "delete", "ensure"}
    /\ run' = [run EXCEPT ![r].pc = "failed"]
    /\ UNCHANGED <<places, activation, command, clock, edits, promised>>

EditByHand(p) ==
    /\ edits < MaxEdits
    /\ edits' = edits + 1
    /\ places' = [places EXCEPT ![p] = HandMade]
    /\ run' = Touch(None, p)
    /\ UNCHANGED <<activation, command, clock, promised>>

-----------------------------------------------------------------------------
(* eventmap-window *)

\* main: the time is taken before the document is looked up, and an unknown
\* layer set is an error.
Look(c) ==
    /\ command[c].pc = "idle"
    /\ \/ /\ activation = None
          /\ command' = [command EXCEPT ![c] = [pc |-> "unknown"]]
       \/ /\ activation # None
          /\ \E until \in {clock + m : m \in Minutes} \cup {None} :
                command' = [command EXCEPT ![c] =
                              [pc |-> "open", from |-> clock, until |-> until]]
       \/ /\ activation # None
          /\ command' = [command EXCEPT ![c] = [pc |-> "close"]]
    /\ UNCHANGED <<places, activation, run, clock, edits, promised>>

Open(c) ==
    LET window == [from |-> command[c].from, until |-> command[c].until]
    IN /\ command[c].pc = "open"
       /\ activation' = [activation EXCEPT !.enabled = TRUE,
                           !.from = window.from, !.until = window.until]
       /\ promised' = window
       /\ command' = [command EXCEPT ![c] = [pc |-> "done"]]
       /\ UNCHANGED <<places, run, clock, edits>>

\* The window is left as it was written.
Close(c) ==
    /\ command[c].pc = "close"
    /\ activation' = [activation EXCEPT !.enabled = FALSE]
    /\ promised' = None
    /\ command' = [command EXCEPT ![c] = [pc |-> "done"]]
    /\ UNCHANGED <<places, run, clock, edits>>

Tick ==
    /\ clock < MaxClock
    /\ clock' = clock + 1
    /\ UNCHANGED <<places, activation, run, command, edits, promised>>

\* isLive, and the same test in findActiveActivation.
IsLive(doc) ==
    /\ doc # None /\ doc.enabled
    /\ doc.from # None => doc.from <= clock
    /\ doc.until # None => clock < doc.until

-----------------------------------------------------------------------------
Import(r) ==
    \/ FindOrphans(r) \/ Diff(r) \/ Written(r) \/ Deleted(r) \/ Ensure(r) \/ Abort(r)
    \/ \E p \in Place : Upsert(r, p) \/ Delete(r, p)

Next ==
    \/ \E r \in Run : Import(r)
    \/ \E p \in Place : EditByHand(p)
    \/ \E c \in Command : Look(c) \/ Open(c) \/ Close(c)
    \/ Tick

Spec == Init /\ [][Next]_vars

\* A run of the importer that reports success has brought every place to what
\* the sheet says, and with --delete-missing removed every other place, but for
\* what somebody else wrote after it had looked.
ImportLands ==
    \A r \in Run : run[r].pc = "done" =>
        \A p \in Place \ run[r].others :
            IF p \in DOMAIN run[r].sheet THEN places[p] = run[r].sheet[p]
            ELSE run[r].delete => places[p] = None

\* The festival is on the map exactly when the last window command says so,
\* whatever imports ran or died before, between and after.
LiveAsOpened ==
    IsLive(activation) <=> /\ promised # None
                           /\ promised.until # None => clock < promised.until
=============================================================================
