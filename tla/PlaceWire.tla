------------------------------- MODULE PlaceWire -------------------------------
(***************************************************************************)
(* What the two event routes make of the stored places: the overlays draw  *)
(* every renderable place with the buttons worth shipping, the details     *)
(* answer the body of each sheet that a tap opens.  Both drop what they    *)
(* cannot use, piece by piece, because a document may also have been       *)
(* edited by hand.                                                         *)
(*                                                                         *)
(* Places, texts, instants and addresses are those of PlacesFile; the      *)
(* rules about them are the server's own.  shownAs has the presentation of *)
(* each category (LayerSet's PresentationFor): [layer, interactive,        *)
(* tapChip].                                                               *)
(* What a place is filtered and sorted by is LayerSet's too.               *)
(***************************************************************************)
EXTENDS Integers, FiniteSets, SequencesExt, Sift

CONSTANTS
    Registered,      \* the mini apps the server registers
    None             \* null

Kinds == {"pub", "booth", "promo", "foodTruck", "goods", "facility", "stage", "etc"}

All(s, Ok(_)) == \A i \in DOMAIN s : Ok(s[i])

-----------------------------------------------------------------------------
(* Geometry *)

IsPosition(p) == Len(p) >= 2

IsDrawable(g) ==
    \/ g.type = "Point" /\ IsPosition(g.at)
    \/ g.type = "LineString" /\ Len(g.at) >= 2 /\ All(g.at, IsPosition)
    \/ /\ g.type = "Polygon"
       /\ g.at # <<>>
       /\ All(g.at, LAMBDA ring : Len(ring) >= 4 /\ All(ring, IsPosition))

\* Twice the signed area: positive runs counter-clockwise.
Cross(p, q) == p[1] * q[2] - q[1] * p[2]
SignedArea(ring) ==
    LET n == Len(ring)
        upTo[k \in 0 .. n] ==
            IF k = 0 THEN 0
            ELSE upTo[k - 1] + Cross(ring[k], ring[IF k = n THEN 1 ELSE k + 1])
    IN IF n < 3 THEN 0 ELSE upTo[n]

IsClosed(ring) == Len(ring) >= 2 /\ ring[1] = ring[Len(ring)]
CloseRing(ring) ==
    IF Len(ring) < 2 \/ IsClosed(ring) THEN ring ELSE Append(ring, ring[1])

RewindAlways(ring, ccw) == Reverse(CloseRing(ring))   \* wrong: the sign is not read
RewindRing(ring, ccw) ==
    LET closed == CloseRing(ring)
        area == SignedArea(closed)
    IN IF area = 0 \/ (area > 0) = ccw THEN closed ELSE Reverse(closed)

\* toWirePolygon: the exterior counter-clockwise, the holes clockwise.
ToWirePolygon(g) ==
    [g EXCEPT !.at = [i \in DOMAIN g.at |-> RewindRing(g.at[i], i = 1)]]

WireGeometry(g) == IF g.type = "Polygon" THEN ToWirePolygon(g) ELSE g

-----------------------------------------------------------------------------
(* The overlays *)

HasAnyText(t) == t \in {"ko", "zh"}

IsRenderable(doc) ==
    /\ HasAnyText(doc.title)
    /\ IsDrawable(doc.location)
    /\ All(doc.hours, LAMBDA w : w.start >= 0 /\ w.end >= -1)

IsAbsoluteHttpsUrl(u) == u.clean /\ u.https

\* A webview value is a path or an address on the web view's origin, and names a
\* page: neither the bare root nor anything with a fragment.
ToWebviewUrl(v) == v.form \in {"path", "pageUrl"}
\* A registered id, and a path that cannot name another host.
IsKnownMiniAppTarget(v) == v.form \in {"id", "idPath"} /\ v.id \in Registered

IsValidActionValue(a) ==
    LET v == a.value
    IN \/ a.type = "content" /\ v.form # "blank"
       \/ /\ v.clean
          /\ \/ a.type = "route" /\ v.form \in {"path", "rootPath"}
             \/ a.type = "webview" /\ ToWebviewUrl(v)
             \/ a.type = "external" /\ v.form \in {"pageUrl", "rootUrl", "otherUrl"}
             \/ a.type = "miniapp" /\ IsKnownMiniAppTarget(v)

WireActions(doc) ==
    Sift(doc.actions, LAMBDA a : HasAnyText(a.label) /\ IsValidActionValue(a))

\* toWire: the text a Korean reads, which may be the Chinese one.
ToWire(t) == IF HasAnyText(t) THEN t ELSE "blank"

\* A backdrop has no tap, and a category may run a chip instead of a sheet.
OpensSheet(shown) == shown.interactive /\ shown.tapChip = None
NoTap == [kind |-> "none"]   \* null
TapOpens(doc, shown) ==   \* wrong: knows no chips
    IF shown.interactive THEN [kind |-> "event", placeId |-> doc._id] ELSE NoTap
Tap(doc, shown) ==
    IF OpensSheet(shown) THEN [kind |-> "event", placeId |-> doc._id]
    ELSE IF shown.interactive THEN [kind |-> "chip", chipId |-> shown.tapChip]
    ELSE NoTap

Overlay(doc, shown) ==
    [id |-> doc._id, layerId |-> shown.layer, geometry |-> WireGeometry(doc.location),
     text |-> ToWire(doc.title),
     subtitle |-> IF doc.subtitle = "absent" THEN None ELSE ToWire(doc.subtitle),
     hours |-> doc.hours,
     fields |-> [i \in DOMAIN doc.fields |->
                    [label |-> ToWire(doc.fields[i].label),
                     value |-> ToWire(doc.fields[i].value)]],
     actions |-> WireActions(doc), order |-> doc.order, tap |-> Tap(doc, shown)]

Overlays(docs, shownAs) ==
    {Overlay(doc, shownAs[doc.category]) : doc \in {d \in docs : IsRenderable(d)}}

-----------------------------------------------------------------------------
(* The details *)

IsMediaUrl(u) ==
    u.clean /\ u.https /\ u.host = "media" /\ ~u.user /\ u.path # <<>> /\ ~u.hash

Instagram(u) == IsAbsoluteHttpsUrl(u) /\ u.host = "instagram"
Reserved == {"accounts", "direct", "explore", "p", "reel", "reels", "stories"}
IsInstagramProfileUrl(u) ==
    Instagram(u) /\ Len(u.path) = 1 /\ u.path[1] \notin Reserved
IsInstagramPostUrl(u) ==
    Instagram(u) /\ Len(u.path) = 2 /\ u.path[1] \in {"p", "reel", "reels"}

\* allOrNull, over the items of a list, the rows of a table or the lines of a
\* notice: one unusable item costs the block.
UsableItems(b) ==
    /\ b.items # <<>>
    /\ All(b.items, LAMBDA i : HasAnyText(i.first)
                               /\ (b.type = "table" => HasAnyText(i.second)))

\* toWireBlock
UsableBlock(b) ==
    /\ b.id # "blank"
    /\ \/ b.type = "text" /\ HasAnyText(b.body)
       \/ b.type \in {"list", "table", "notice"} /\ UsableItems(b)
       \/ b.type = "image" /\ IsMediaUrl(b.url)

\* toWireDetailAction: a bad post costs the post, not the button.
UsableAction(a) ==
    /\ a.id # "blank"
    /\ HasAnyText(a.label)
    /\ \/ a.type = "instagram" /\ IsInstagramProfileUrl(a.url)
       \/ a.type = "link" /\ IsAbsoluteHttpsUrl(a.url)
WirePost(a, none) == IF IsInstagramPostUrl(a.post) THEN a ELSE [a EXCEPT !.post = none]

\* toWireDetail, for a place with a detail.
ReadableDetail(d) == d.kind \in Kinds
WireDetail(d, none) ==
    LET usable == Sift(d.actions, UsableAction)
    IN [d EXCEPT !.blocks = Sift(@, UsableBlock),
                 !.actions = [i \in DOMAIN usable |-> WirePost(usable[i], none)]]

\* loadEventPlaceDetails: only of a place on a category whose tap opens a sheet;
\* the others' are dropped, with a line in the log.
Details(docs, shownAs, noDetail, none) ==
    {[id |-> d._id, detail |-> WireDetail(d.detail, none)] :
        d \in {e \in docs : /\ e.detail # noDetail
                            /\ IsRenderable(e)
                            /\ OpensSheet(shownAs[e.category])
                            /\ ReadableDetail(e.detail)}}
=============================================================================
