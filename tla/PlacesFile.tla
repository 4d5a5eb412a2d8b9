------------------------------ MODULE PlacesFile ------------------------------
(***************************************************************************)
(* The festival's sheet: one JSON file, read by parsePlacesFile into one   *)
(* document per place.  Every rule adds to a list of errors, and a place   *)
(* with an error of its own is left out whole.                             *)
(*                                                                         *)
(* A text is "ko" (Korean, or an object with it), "zh" (an object without  *)
(* Korean), "blank", "broken" or "absent".  An instant is a number, Absent *)
(* or Malformed.  An address is a record                                   *)
(*   [clean, https, host, user, path, hash]                                *)
(* of what the rules look at: no white space, the scheme, the host, user   *)
(* information, the segments of the path, a fragment.  Left out: the       *)
(* flags, and the optional texts that are read like the subtitle.          *)
(***************************************************************************)
EXTENDS Integers, FiniteSets, SequencesExt

CONSTANT Registered      \* the mini apps of index.json

Absent == -1
Malformed == -2

Kinds == {"pub", "booth", "promo", "foodTruck", "goods", "facility", "stage", "etc"}
BlockTypes == {"text", "list", "table", "image", "notice"}
ActionTypes == {"content", "route", "webview", "external", "miniapp"}

All(s, Ok(_)) == \A i \in DOMAIN s : Ok(s[i])
NoDetail == [kind |-> "none"]
UniqueIds(s) == \A i, j \in DOMAIN s : s[i].id = s[j].id => i = j

\* What is in a file whose lists are lists: a position has two numbers, or is none.
Position == {p \in Seq(Int) : Len(p) \in {0, 2}}
HasFields(r, fields) == r = [f \in fields |-> r[f]]
IsGeometry(g) ==
    /\ HasFields(g, {"type", "at"})
    /\ g.type = "Point" => g.at \in Position
    /\ g.type \in {"none", "LineString"} => g.at \in Seq(Position)
    /\ g.type = "Polygon" => g.at \in Seq(Seq(Position))
IsSheet(d) ==
    /\ HasFields(d, {"kind", "unknownKey", "org", "actions", "blocks"})
    /\ d.blocks \in Seq(ToSet(d.blocks)) /\ d.actions \in Seq(ToSet(d.actions))
    /\ All(d.actions,
           LAMBDA a : HasFields(a, {"id", "type", "label", "unknownKey", "url", "post"}))
IsPlace(p) ==
    /\ p.point \in Position /\ IsGeometry(p.geometry)
    /\ p.hours \in Seq([start : Int, end : Int])
    /\ p.fields \in Seq([label : STRING, value : STRING])
    /\ p.actions \in Seq(ToSet(p.actions))
    /\ p.detail = NoDetail \/ IsSheet(p.detail)

-----------------------------------------------------------------------------
(* Addresses *)

IsMediaUrl(u) ==
    u.clean /\ u.https /\ u.host = "media" /\ ~u.user /\ u.path # <<>> /\ ~u.hash

IsAbsoluteHttpsUrl(u) == u.clean /\ u.https

Instagram(u) == IsAbsoluteHttpsUrl(u) /\ u.host = "instagram"
Reserved == {"accounts", "direct", "explore", "p", "reel", "reels", "stories"}
IsInstagramProfileUrl(u) ==
    Instagram(u) /\ Len(u.path) = 1 /\ u.path[1] \notin Reserved
IsInstagramPostUrl(u) ==
    Instagram(u) /\ Len(u.path) = 2 /\ u.path[1] \in {"p", "reel", "reels"}

-----------------------------------------------------------------------------
(* Texts, windows and positions *)

ValidText(t) == t = "ko"
ValidOptionalText(t) == t \in {"absent", "ko"}

\* A window needs a start; one without an end is open-ended.
ValidWindow(w) ==
    /\ w.start >= 0
    /\ w.end # Malformed
    /\ w.end # Absent => w.end > w.start
ValidHours(hours) == All(hours, ValidWindow)

ValidFields(fields) ==
    All(fields, LAMBDA f : ValidText(f.label) /\ ValidText(f.value))

\* A position is <<lng, lat>>; anything else is <<>>.
ValidPosition(p) == p # <<>> /\ p[1] \in -180 .. 180 /\ p[2] \in -90 .. 90
ValidRing(ring) ==
    /\ Len(ring) >= 4
    /\ All(ring, ValidPosition)
    /\ ring[1] = ring[Len(ring)]

\* asGeometry: a line or a ring; a point is written as lat and lng.
ValidGeometry(g) ==
    \/ g.type = "LineString" /\ Len(g.at) >= 2 /\ All(g.at, ValidPosition)
    \/ g.type = "Polygon" /\ g.at # <<>> /\ All(g.at, ValidRing)

\* Either lat and lng or a geometry, never both and never neither.
NoPoint == <<>>
NoGeometry == [type |-> "none", at |-> <<>>]
ValidPlacing(p) ==
    IF p.geometry = NoGeometry THEN ValidPosition(p.point)
    ELSE p.point = NoPoint /\ ValidGeometry(p.geometry)
Location(p) ==
    IF p.geometry = NoGeometry THEN [type |-> "Point", at |-> p.point] ELSE p.geometry

-----------------------------------------------------------------------------
(* The buttons of the card and the body of the sheet *)

\* parseMiniAppTarget: an id, and a path that cannot name another host.
ValidTarget(v) == v.clean /\ v.id \in Registered /\ v.form \in {"id", "idPath"}

\* asActions: of the value only a mini app's is looked at here, the others
\* depend on the configuration of the server.
ValidAction(a) ==
    /\ a.id # "blank"
    /\ a.type \in ActionTypes
    /\ a.value.form # "blank"
    /\ a.type = "miniapp" => ValidTarget(a.value)
    /\ ValidText(a.label)

ValidItem(type, i) ==
    /\ ValidText(i.first)
    /\ type = "table" => ValidText(i.second)
    /\ type = "list" => ValidOptionalText(i.second)

\* asBlock: a key the type does not know is refused.
ValidBlock(b) ==
    /\ b.type \in BlockTypes
    /\ ~b.unknownKey
    /\ b.id # "blank"
    /\ ValidOptionalText(b.title)
    /\ b.type = "text" => ValidText(b.body)
    /\ b.type \in {"list", "table", "notice"} =>
          b.items # <<>> /\ All(b.items, LAMBDA i : ValidItem(b.type, i))
    /\ b.type = "image" => IsMediaUrl(b.url) /\ ValidOptionalText(b.body)

\* asDetailAction
NoUrl == [clean |-> TRUE, https |-> FALSE, host |-> "none", user |-> FALSE,
          path |-> <<>>, hash |-> FALSE]
ValidDetailAction(a) ==
    /\ a.id # "blank"
    /\ ValidText(a.label)
    /\ ~a.unknownKey
    /\ \/ /\ a.type = "instagram"
          /\ IsInstagramProfileUrl(a.url)
          /\ a.post = NoUrl \/ IsInstagramPostUrl(a.post)
       \/ a.type = "link" /\ IsAbsoluteHttpsUrl(a.url) /\ a.post = NoUrl

\* asDetail; the body and the buttons may be absent, which reads as empty.
ValidDetail(d) ==
    d = NoDetail \/
    /\ d.kind \in Kinds
    /\ ~d.unknownKey
    /\ ValidOptionalText(d.org)
    /\ UniqueIds(d.actions) /\ All(d.actions, ValidDetailAction)
    /\ Cardinality({i \in DOMAIN d.actions : d.actions[i].type = "instagram"}) <= 1
    /\ UniqueIds(d.blocks) /\ All(d.blocks, ValidBlock)

\* asFacets and asOrderByOption, by shape only.
ValidFacets(facets) ==
    \A k \in DOMAIN facets :
        facets[k] # <<>> /\ "blank" \notin ToSet(facets[k]) /\ IsInjective(facets[k])

-----------------------------------------------------------------------------
(* asPlace and parsePlacesFile *)

ValidPlace(p) ==
    /\ ~p.retired                  \* RETIRED_PLACE_KEYS
    /\ p.id # "blank"
    /\ p.category # "blank"
    /\ p.order # Malformed
    /\ ValidPlacing(p)
    /\ ValidText(p.title)
    /\ ValidOptionalText(p.subtitle)
    /\ ValidHours(p.hours)
    /\ ValidFields(p.fields)
    /\ All(p.actions, ValidAction)
    /\ ValidDetail(p.detail)
    /\ ValidFacets(p.facets)

\* The prefix of _id keeps two festivals apart.
Document(file, p) ==
    [_id |-> <<file.layerSetId, p.id>>, layerSetId |-> file.layerSetId,
     category |-> p.category, order |-> p.order, location |-> Location(p),
     title |-> p.title, subtitle |-> p.subtitle, hours |-> p.hours, fields |-> p.fields,
     actions |-> p.actions, detail |-> p.detail, facets |-> p.facets]

\* Is the file free of errors, and what are its documents then?
ValidFile(file, layerSetId) ==
    /\ ~file.retired               \* RETIRED_ROOT_KEYS
    /\ file.layerSetId = layerSetId
    /\ file.campus \in {"hssc", "nsc"}
    /\ file.places # <<>>
    /\ All(file.places, ValidPlace)
    /\ UniqueIds(file.places)
Documents(file) == {Document(file, file.places[i]) : i \in DOMAIN file.places}
=============================================================================
