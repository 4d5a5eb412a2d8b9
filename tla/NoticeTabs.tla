------------------------------ MODULE NoticeTabs ------------------------------
(***************************************************************************)
(* The notice tabs: what the start accepts of categories.json, and what    *)
(* GET /notices/tabs makes of it.  The app seeds a picker with the default *)
(* departments of the user's campus and holds the user to maxSelection.    *)
(*                                                                         *)
(* A category t is [id, mode, source, sources, max, defaults, campuses]:   *)
(* mode "fixed", "picker" or another; source is a fixed tab's, sources is  *)
(* a picker's sequence; defaults is None or a sequence; campuses is None   *)
(* or a function from campus keys to sequences.  Known are the ids of      *)
(* sources.json.  Labels and exclusion texts are left out.                 *)
(***************************************************************************)
EXTENDS Integers, FiniteSetsExt, SequencesExt, Sift

CONSTANTS
    None,     \* undefined
    Known,    \* ids in sources.json
    Campus    \* hssc, nsc

\* What the loader has in its hands: lists where there are lists.
IsIds(ids) == ids \in Seq(ToSet(ids))
IsCategory(t) ==
    /\ IsIds(t.sources) /\ t.max \in Int
    /\ t.defaults # None => IsIds(t.defaults)
    /\ t.campuses # None => \A campus \in DOMAIN t.campuses : IsIds(t.campuses[campus])

OrEmpty(ids) == IF ids = None THEN <<>> ELSE ids

Seed(t, campus) == ToSet(OrEmpty(t.defaults)) \cup ToSet(t.campuses[campus])

\* The seed of a campus is held against maxSelection when the category has
\* defaults of its own as well.
SeedFitsAlone(t, campus) ==         \* wrong: the two lists are compared apart
    t.defaults # None => Cardinality(ToSet(t.campuses[campus])) <= t.max
SeedFits(t, campus) == t.defaults # None => Cardinality(Seed(t, campus)) <= t.max

ValidFixed(t) == t.source \in Known

Listed(t) == ToSet(t.sources) \subseteq Known

ValidPicker(t) ==
    /\ t.sources # <<>>
    /\ Listed(t)
    /\ t.max >= 1
    /\ ToSet(OrEmpty(t.defaults)) \subseteq ToSet(t.sources)
    /\ t.campuses # None => \A campus \in DOMAIN t.campuses :
          /\ campus \in Campus
          /\ ToSet(t.campuses[campus]) \subseteq ToSet(t.sources)
          /\ SeedFits(t, campus)

\* load()
ValidTab(t) == \/ t.mode = "fixed" /\ ValidFixed(t)
               \/ t.mode = "picker" /\ ValidPicker(t)

\* buildTabsResponse, for a picker.
Picker(t) ==
    LET sources == Sift(t.sources, LAMBDA id : id \in Known)
    IN [sources |-> sources,
        max |-> Min({t.max, Len(sources)}),
        defaults |-> OrEmpty(t.defaults),
        campuses |-> IF t.campuses = None THEN <<>> ELSE t.campuses]

-----------------------------------------------------------------------------
(* Properties of an accepted category *)

\* The departments a picker starts with are among those it offers.  Where the
\* category has defaults of its own as well as a campus's, the two together are no
\* more than the user may select, also after the answer lowered maxSelection to
\* the number offered.  Defaults without campus lists, and campus lists without
\* defaults, are never compared with the limit, and may exceed it.
SeedsSelectable(t) ==
    t.mode = "picker" =>
        LET picker == Picker(t)
        IN /\ picker.max >= 1
           /\ ToSet(picker.defaults) \subseteq ToSet(picker.sources)
           /\ \A campus \in DOMAIN picker.campuses :
                 /\ ToSet(picker.campuses[campus]) \subseteq ToSet(picker.sources)
                 /\ t.defaults # None => Cardinality(Seed(t, campus)) <= picker.max
=============================================================================
