------------------------------ MODULE CampusMap ------------------------------
(***************************************************************************)
(* The permanent campus map: the sheet of hand-drawn shapes, as its        *)
(* importer reads it, and the one collection of overlays that is answered  *)
(* from the buildings and the shapes.                                      *)
(*                                                                         *)
(* A shape is [id, campus, layerId, order, skkuId, geometry, title,        *)
(* subtitle], with texts and geometries as in PlacesFile; a building is    *)
(* [id, at, displayNo, ko, en], at being <<>> when its coordinates are no  *)
(* numbers.  The importer's writes are PlacesImport's, without the         *)
(* activation.                                                             *)
(***************************************************************************)
EXTENDS Integers, Sequences

CONSTANT None     \* null

File == INSTANCE PlacesFile WITH Registered <- {}
Wire == INSTANCE PlaceWire WITH Registered <- {}   \* only its geometry

BaseLayers == {"building_numbers", "building_labels", "campus_geometry"}

-----------------------------------------------------------------------------
\* asShape: null is a shape that is no building, and has to be written.
ValidShape(s) ==
    /\ s.id # "blank"
    /\ s.campus \in {"hssc", "nsc"}
    /\ s.layerId # "blank"
    /\ s.order # File!Malformed
    /\ s.skkuId # File!Malformed
    /\ File!ValidGeometry(s.geometry)
    /\ File!ValidText(s.title)
    /\ File!ValidOptionalText(s.subtitle)

\* parseCampusShapesFile; a shape's document is the shape.
ValidShapes(shapes) ==
    /\ \A i \in DOMAIN shapes : ValidShape(shapes[i])
    /\ \A i, j \in DOMAIN shapes : shapes[i].id = shapes[j].id => i = j

\* What is on the sheet, or was written into the collection by hand.
AreShapes(docs) == \A doc \in docs : File!IsGeometry(doc.geometry)

-----------------------------------------------------------------------------
Marker(id, at, layer, tap) ==
    [id |-> id, kind |-> "marker", layerId |-> layer, tap |-> tap,
     geometry |-> [type |-> "Point", at |-> at]]

\* formatFallback: markers nobody can tap.
Fallback ==
    { Marker("fallback", <<126, 37>>, layer, None) :
        layer \in {"building_numbers", "building_labels"} }

\* getBuildingOverlays: once for each layer that has a text for it.
OfBuilding(b) ==
    IF b.at = <<>> THEN {}
    ELSE { Marker(b.id, b.at, layer, b.id) :
             layer \in (IF b.displayNo = "blank" THEN {} ELSE {"building_numbers"})
                       \cup (IF b.ko = "blank" THEN {} ELSE {"building_labels"}) }
BuildingOverlays(buildings) ==
    IF buildings = {} THEN Fallback ELSE UNION {OfBuilding(b) : b \in buildings}

\* toShapeOverlays
Kind(geometry) == CASE geometry.type = "Polygon"    -> "polygon"
                    [] geometry.type = "LineString" -> "path"
                    [] geometry.type = "Point"      -> "marker"
Shown(doc) ==
    /\ doc.layerId \in BaseLayers
    /\ Wire!IsDrawable(doc.geometry)
    /\ doc.title = "ko"
ShapeOverlays(docs) ==
    { [id |-> doc.id, kind |-> Kind(doc.geometry), layerId |-> doc.layerId,
       tap |-> doc.skkuId, geometry |-> Wire!WireGeometry(doc.geometry)] :
        doc \in {d \in docs : Shown(d)} }

\* getCampusOverlays: whatever becomes of the shapes, the buildings are answered.
CampusOverlays(buildings, docs, shapesFail) ==
    [overlays |-> BuildingOverlays(buildings)
                  \cup IF shapesFail THEN {} ELSE ShapeOverlays(docs),
     degraded |-> buildings = {}]

-----------------------------------------------------------------------------
(* Properties *)

\* A ring closes and turns the way it has to, unless it encloses nothing.
Turns(ring, way) ==
    /\ ring[1] = ring[Len(ring)]
    /\ way * Wire!SignedArea(ring) >= 0
Conforms(g) ==
    g.type = "Polygon" =>
        \A i \in DOMAIN g.at : Turns(g.at[i], IF i = 1 THEN 1 ELSE -1)

\* The same positions, in the same places of the geometry.
SameGeometry(g, h) ==
    /\ g.type = h.type
    /\ DOMAIN g.at = DOMAIN h.at
    /\ IF g.type = "Polygon"
       THEN \A i \in DOMAIN g.at :
              {g.at[i][k] : k \in DOMAIN g.at[i]} = {h.at[i][k] : k \in DOMAIN h.at[i]}
       ELSE g = h

\* Every shape the importer accepted for a layer there is, is drawn, as it was
\* traced and as the client has to have it, on the layer it names; and the
\* buildings are there whatever the shapes are.
ShapesServed(buildings, shapes, others, fail) ==
    LET answer == CampusOverlays(buildings, {shapes[i] : i \in DOMAIN shapes} \cup others, fail)
    IN /\ BuildingOverlays(buildings) \subseteq answer.overlays
       /\ \A o \in answer.overlays : o.layerId \in BaseLayers /\ Conforms(o.geometry)
       /\ ValidShapes(shapes) /\ ~fail =>
             \A i \in DOMAIN shapes : shapes[i].layerId \in BaseLayers =>
                \E o \in answer.overlays : /\ o.id = shapes[i].id
                                           /\ o.layerId = shapes[i].layerId
                                           /\ SameGeometry(o.geometry, shapes[i].geometry)
=============================================================================
