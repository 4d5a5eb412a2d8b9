------------------------------- MODULE LayerSet -------------------------------
(***************************************************************************)
(* The festival's structure file: what assertValidConfig accepts, and what *)
(* /map/config, the markers and the place details make of an accepted one. *)
(* The three answers are built apart and refer to each other by id, so     *)
(* what holds them together is the validation.                             *)
(*                                                                         *)
(* A configuration c is a record of                                        *)
(*   layers       a sequence of [id, on], on: always, never or scheduled   *)
(*   chips        a sequence of [id, layerIds, label, list]; label is      *)
(*                whether it has one; list is None or [facetIds, scope]    *)
(*   facets       a sequence of [id, source, options], an option being     *)
(*                [id, from, until] with instants for the source "hours"   *)
(*   byCategory   a function from categories to presentations              *)
(*   fallback     a presentation: [layer, interactive, tapChip]            *)
(* A place p is [category, hours, facets, orderBy, renderable, detail]:    *)
(* hours its windows' starts, facets a function from facet ids to values,  *)
(* orderBy the keys of orderByOption, detail "none", "unreadable" or       *)
(* "readable".  Types, labels, colours, cameras and geometry are left out. *)
(***************************************************************************)
EXTENDS Integers, FiniteSets, SequencesExt, Sift

CONSTANTS
    None,        \* null
    BaseLayer,   \* the ids of BASE_LAYERS
    ResetId      \* `${layerSetId}_all`

\* EventMapConfig, as asLayer, asChip, asFacet and asItemDefaults hand it over.
LayerDef == [id : STRING, on : {"always", "never", "scheduled"}]
ChipList == [facetIds : Seq(STRING), scope : STRING \cup {None}]
ChipDef == [id : STRING, layerIds : Seq(STRING), label : BOOLEAN, list : ChipList \cup {None}]
FacetOption == [id : STRING, from : Nat, until : Nat]
FacetDef == [id : STRING, source : {"hours", "tag"}, options : Seq(FacetOption)]
ItemPresentation == [layer : STRING, interactive : BOOLEAN, tapChip : STRING \cup {None}]
IsConfig(c) ==
    /\ c.layers \in Seq(LayerDef) /\ c.chips \in Seq(ChipDef) /\ c.facets \in Seq(FacetDef)
    /\ c.fallback \in ItemPresentation
    /\ \A category \in DOMAIN c.byCategory : c.byCategory[category] \in ItemPresentation

Ids(s) == {s[i].id : i \in DOMAIN s}
Unique(s) == \A i, j \in DOMAIN s : s[i] = s[j] => i = j
UniqueIds(s) == Unique([i \in DOMAIN s |-> s[i].id])

-----------------------------------------------------------------------------
(* assertValidConfig *)

ValidLayers(c) ==
    /\ c.layers # <<>>
    /\ UniqueIds(c.layers)
    /\ \E i \in DOMAIN c.layers : c.layers[i].on # "never"
    /\ Ids(c.layers) \cap BaseLayer = {}

\* asChipList
ValidList(list) == list = None \/ Unique(list.facetIds)

\* asChip: a chip of one layer reads as its layer, one of several needs a label.
ValidChip(chip) ==
    /\ chip.layerIds # <<>>
    /\ chip.label <=> Len(chip.layerIds) > 1
    /\ ValidList(chip.list)

\* asFacet: the options of an hours facet are sorted by their start, and each is
\* compared with the next: the one before which come just it and what is before it.
ApartAsWritten(options) ==          \* wrong: neighbours in the file's order
    \A i \in 1 .. Len(options) - 1 :
        \/ options[i + 1].from >= options[i].until
        \/ options[i].from >= options[i + 1].until
Before(options, i) ==
    {j \in DOMAIN options : \/ options[j].from < options[i].from
                            \/ options[j].from = options[i].from /\ j < i}
Apart(options) ==
    \A i, j \in DOMAIN options :
        Before(options, j) = Before(options, i) \cup {i} => options[j].from >= options[i].until

ValidFacet(facet) ==
    /\ facet.options # <<>>
    /\ facet.source = "hours" =>
          /\ \A i \in DOMAIN facet.options : facet.options[i].from < facet.options[i].until
          /\ Apart(facet.options)

\* The options of all facets, each at its facet's place and its own.
Options(c) ==
    [at \in UNION {{i} \X DOMAIN c.facets[i].options : i \in DOMAIN c.facets} |->
        c.facets[at[1]].options[at[2]]]

\* assertValidFacets: option ids are unique across all facets.
ValidFacetsApart(c) ==              \* wrong: unique within a facet
    /\ UniqueIds(c.facets)
    /\ \A i \in DOMAIN c.facets : UniqueIds(c.facets[i].options)
ValidFacets(c) ==
    /\ UniqueIds(c.facets)
    /\ UniqueIds(Options(c))

ValidLists(c) ==
    \A i \in DOMAIN c.chips :
        LET list == c.chips[i].list
        IN list # None =>
              /\ ToSet(list.facetIds) \subseteq Ids(c.facets)
              /\ list.scope # None => list.scope \in ToSet(list.facetIds)

ValidPresentation(c, p) ==
    /\ p.layer \in Ids(c.layers)
    /\ p.tapChip # None => p.tapChip \in Ids(c.chips) /\ p.interactive

\* resetChip: scoped to the layers that come on by themselves.
Reset(c) ==
    LET on == Sift(c.layers, LAMBDA l : l.on # "never")
    IN [id |-> ResetId, layerIds |-> [i \in DOMAIN on |-> on[i].id], list |-> None]

\* eventChipSpecs
Specs(c) ==
    <<Reset(c)>> \o [i \in DOMAIN c.chips |->
        [id |-> c.chips[i].id, layerIds |-> c.chips[i].layerIds,
         list |-> IF c.chips[i].list = None THEN None
                  ELSE [facets |-> Sift(c.chips[i].list.facetIds,
                                        LAMBDA f : f \in Ids(c.facets)),
                        scope |-> c.chips[i].list.scope]]]

\* validateChipSpecs: the row as it will be served, the reset chip with it.
\* Every layer of the set is in its chip group, and no base layer is in any.
ValidSpecsAuthored(c) ==            \* wrong: the reset chip is left out
    /\ UniqueIds(c.chips)
    /\ \A i \in DOMAIN c.chips : ToSet(c.chips[i].layerIds) \subseteq Ids(c.layers)
ValidSpecs(c) ==
    /\ UniqueIds(Specs(c))
    /\ \A i \in DOMAIN Specs(c) : ToSet(Specs(c)[i].layerIds) \subseteq Ids(c.layers)

Presentations(c) == {c.fallback} \cup {c.byCategory[k] : k \in DOMAIN c.byCategory}

ValidConfig(c) ==
    /\ ValidLayers(c)
    /\ \A i \in DOMAIN c.chips : ValidChip(c.chips[i])
    /\ \A i \in DOMAIN c.facets : ValidFacet(c.facets[i])
    /\ ValidFacets(c)
    /\ ValidLists(c)
    /\ \A p \in Presentations(c) : ValidPresentation(c, p)
    /\ ValidSpecs(c)

-----------------------------------------------------------------------------
(* What is served *)

\* getMapConfig and getChips
ServedLayers(c) == BaseLayer \cup Ids(c.layers)
ServedChips(c) == Specs(c)

PresentationFor(c, category) ==
    IF category \in DOMAIN c.byCategory THEN c.byCategory[category] ELSE c.fallback

\* facetsOf: derived from the hours, or the authored values that are options.
InWindow(option, start) == option.from <= start /\ start < option.until
FacetValues(facet, p) ==
    IF facet.source = "hours"
    THEN {o \in ToSet(facet.options) :
            p.hours = {} \/ \E start \in p.hours : InWindow(o, start)}
    ELSE {o \in ToSet(facet.options) :
            facet.id \in DOMAIN p.facets /\ o.id \in p.facets[facet.id]}

\* orderByOptionOf
OrderKeys(c, p) == p.orderBy \cap Ids(Options(c))

\* loadEventOverlays, for one renderable place.
Tap(c, p) ==
    LET shown == PresentationFor(c, p.category)
    IN IF ~shown.interactive THEN None
       ELSE IF shown.tapChip # None THEN [chip |-> shown.tapChip]
       ELSE [place |-> p]
Overlay(c, p) ==
    [layer |-> PresentationFor(c, p.category).layer,
     tap |-> Tap(c, p),
     facets |-> [i \in DOMAIN c.facets |->
                    {o.id : o \in FacetValues(c.facets[i], p)}],
     order |-> OrderKeys(c, p)]

\* loadEventPlaceDetails, for one place: does it get a detail?
HasDetail(c, p) ==
    LET shown == PresentationFor(c, p.category)
    IN /\ p.renderable
       /\ shown.interactive
       /\ shown.tapChip = None
       /\ p.detail = "readable"

-----------------------------------------------------------------------------
(* Properties of an accepted configuration and any place *)

\* A marker is on a layer of the festival that is served with it, and its tap
\* names exactly one served chip.
MarkersResolve(c, p) ==
    LET o == Overlay(c, p)
    IN /\ o.layer \in ServedLayers(c) \ BaseLayer
       /\ o.tap # None /\ "chip" \in DOMAIN o.tap =>
             \E i \in DOMAIN ServedChips(c) :
                 {j \in DOMAIN ServedChips(c) : ServedChips(c)[j].id = o.tap.chip} = {i}

\* A chip shows festival layers only, at least one, and has an id of its own;
\* its list filters and sorts by what is served with it.
ChipsResolve(c) ==
    /\ UniqueIds(ServedChips(c))
    /\ \A i \in DOMAIN ServedChips(c) :
          LET chip == ServedChips(c)[i]
          IN /\ chip.layerIds # <<>>
             /\ ToSet(chip.layerIds) \subseteq ServedLayers(c) \ BaseLayer
             /\ chip.list # None /\ chip.list.scope # None =>
                   chip.list.scope \in ToSet(chip.list.facets)

\* One window of a place counts under one option of an hours facet at most, in
\* whatever order the file lists them.
OneDayPerWindow(c, starts) ==
    \A i \in DOMAIN c.facets : c.facets[i].source = "hours" =>
        \A start \in starts :
            Cardinality({o \in ToSet(c.facets[i].options) : InWindow(o, start)}) <= 1

\* A key of orderByOption means one option of one facet.
OrderUnambiguous(c, p) ==
    \A k \in OrderKeys(c, p) :
        Cardinality({i \in DOMAIN Options(c) : Options(c)[i].id = k}) = 1

\* Whatever has a detail has a marker whose tap opens it.
DetailsHavePins(c, p) == HasDetail(c, p) => Tap(c, p) = [place |-> p]
=============================================================================
