------------------------------ MODULE MCAnswers ------------------------------
(***************************************************************************)
(* The answers that are computed and not kept: a question is chosen, its   *)
(* input from sets small enough to try every combination, and the modules  *)
(* say what holds of the answer.                                           *)
(***************************************************************************)
EXTENDS Integers, FiniteSets, SequencesExt, TLC, Sift

CONSTANTS None, Broken

VARIABLE asked   \* the question and its input

Map == INSTANCE LayerSet
         WITH BaseLayer <- {"building_numbers"}, ResetId <- "set_all"
Bus == INSTANCE ServiceWeek
Tabs == INSTANCE NoticeTabs
         WITH Known <- {"s1", "s2", "s3"}, Campus <- {"hssc", "nsc"}
Apps == INSTANCE MiniApps WITH FirstParty <- {"first"}
Where == INSTANCE BusPositions
Authored == INSTANCE PlacesFile WITH Registered <- {"app"}
Wire == INSTANCE PlaceWire WITH Registered <- {"app"}
Campus == INSTANCE CampusMap
Search == INSTANCE BuildingSearch
            WITH SPACE_SEARCH_LIMIT <- 2, SPACE_WEAK_LIMIT <- 1,
                 BUILDING_SEARCH_LIMIT <- 2, BUILDING_WEAK_LIMIT <- 1
Home == INSTANCE HomeScreen WITH Registered <- {"app"}
Notice == INSTANCE NoticeItem WITH Day <- 10

-----------------------------------------------------------------------------
(* Structure files of a festival *)

Layer(id, on) == [id |-> id, on |-> on]
LayerLists ==
    { <<>>,
      <<Layer("l1", "always")>>,
      <<Layer("l1", "never")>>,
      <<Layer("l1", "scheduled"), Layer("l2", "never")>>,
      <<Layer("l1", "always"), Layer("l1", "never")>>,
      <<Layer("l1", "always"), Layer("building_numbers", "always")>> }

Chip(id, layerIds, list) ==
    [id |-> id, layerIds |-> layerIds, label |-> Len(layerIds) > 1, list |-> list]
List(facetIds, scope) == [facetIds |-> facetIds, scope |-> scope]
ChipLists ==
    { <<>>,
      <<Chip("c1", <<"l1">>, None)>>,
      <<Chip("c1", <<"l1", "l2">>, List(<<"day">>, "day"))>>,
      <<Chip("c1", <<"l1">>, List(<<"day">>, "kind"))>>,
      <<Chip("c1", <<"l1">>, List(<<"day", "kind">>, "kind"))>>,
      <<Chip("c1", <<>>, None)>>,
      <<Chip("c1", <<"building_numbers">>, None)>>,
      <<Chip("c1", <<"l1">>, None), Chip("c1", <<"l1">>, None)>>,
      <<Chip("set_all", <<"l1">>, None)>>,
      <<Chip("c1", <<"l1">>, None), Chip("set_all", <<"l1">>, None)>> }

\* Days of a festival as windows of instants 0 to 3, in any order of the file.
Option(id, from, until) == [id |-> id, from |-> from, until |-> until]
Tag(id) == Option(id, 0, 0)
DayOptions ==
    { <<Option("d1", w[1], w[2]), Option("d2", w[3], w[4]), Option("d3", 0, 1)>> :
        w \in [1 .. 4 -> 0 .. 3] }
Facet(id, source, options) == [id |-> id, source |-> source, options |-> options]
FacetLists ==
    {<<>>} \cup {<<Facet("day", "hours", o)>> : o \in DayOptions}
    \cup { <<Facet("day", "hours", <<Option("d1", 0, 1)>>), Facet("kind", "tag", o)>> :
             o \in {<<>>, <<Tag("t1")>>, <<Tag("d1")>>, <<Tag("t1"), Tag("t1")>>} }

Presentation == [layer : {"l1", "l2"}, interactive : BOOLEAN,
                 tapChip : {None, "c1", "set_all"}]

\* Facets meet every chip row and one presentation; presentations meet every
\* chip row and layer list.
Plain == [layer |-> "l1", interactive |-> TRUE, tapChip |-> None]
Configs ==
    [layers : LayerLists, chips : ChipLists, facets : FacetLists,
     byCategory : {<<>>}, fallback : {Plain}]
    \cup [layers : LayerLists, chips : ChipLists,
          facets : {<<>>, <<Facet("day", "hours", <<Option("d1", 0, 1)>>)>>},
          byCategory : {<<>>} \cup {"food" :> p : p \in Presentation},
          fallback : Presentation]

Places ==
    [category : {"food", "other"}, hours : {{}, {0}, {0, 2}},
     facets : {<<>>, "kind" :> {"t1", "t9"}}, orderBy : {{}, {"d1", "t1", "t9"}},
     renderable : BOOLEAN, detail : {"none", "unreadable", "readable"}]

-----------------------------------------------------------------------------
(* Services, and the day the app asks *)

Kinds == {"replace", "announced", "closed"}
Overrides ==
    {<<>>} \cup {d :> k : d \in 0 .. 13, k \in Kinds}
    \cup {(d :> k) @@ (e :> l) : d \in 3 .. 8, e \in 4 .. 9, k \in Kinds, l \in Kinds}
Patterns == { <<>>, <<1 .. 5>>, <<{2}, {6}>>, <<{3}, 1 .. 5>> }
Services ==
    [overrides : Overrides, holidays : {{}, {4, 7}, 0 .. 13},
     respects : BOOLEAN, patterns : Patterns, otherwise : {"hidden", "noService"},
     suspend : {None, [from |-> 3, until |-> 5], [from |-> 5, until |-> 3]}]

-----------------------------------------------------------------------------
(* Categories of notices *)

Lists == { <<>>, <<"s1">>, <<"s1", "s2">>, <<"s2", "s1", "s2">>, <<"s4">> }
Categories ==
    [mode : {"fixed"}, source : {"s1", "s4"}, sources : {<<>>}, max : {0},
     defaults : {None}, campuses : {None}]
    \cup
    [mode : {"picker", "list"}, source : {None}, sources : Lists \cup {<<"s3", "s4">>},
     max : 0 .. 3, defaults : {None} \cup Lists,
     campuses : {None} \cup [{"hssc"} -> Lists] \cup [{"hssc", "nsc"} -> Lists]
                \cup [{"city"} -> Lists]]

-----------------------------------------------------------------------------
(* The registry of mini apps *)

Logo(kind, usable) == [kind |-> kind, usable |-> usable]
Entry(id, order, home, shell) ==
    [id |-> id, order |-> order, hidden |-> None, unknown |-> FALSE,
     homeLogo |-> home, shellLogo |-> shell]
Indexes ==
    { <<Entry("m1", 2, Logo("emoji", TRUE), None), Entry("m2", 1, None, Logo("media", TRUE))>>,
      <<Entry("m1", 1, Logo("remote", TRUE), Logo("emoji", TRUE))>>,
      <<Entry("m1", 1, Logo("remote", FALSE), None)>>,
      <<Entry("m1", 1, None, None)>>,
      <<Entry("m1", 1, Logo("emoji", TRUE), None), Entry("m1", 2, Logo("emoji", TRUE), None)>> }

Address == [http : BOOLEAN, origin : {"first", "webview", "other"}, page : BOOLEAN]
OneField(f, value) == f :> value
Shells == { None, Broken, <<>>, OneField("bar", "top"), OneField("bar", "left"),
            OneField("bottomBar", "top"),
            OneField("background", "#abcdef") @@ OneField("header", "overlay") }
Detail(id, url, shell) == [id |-> id, startUrl |-> url, shell |-> shell, links |-> <<url>>]
Third == [http |-> TRUE, origin |-> "other", page |-> FALSE]
Files ==
    { ("m1" :> Detail("m1", url, shell)) @@ ("m2" :> Detail("m2", Third, shell)) :
        url \in Address, shell \in Shells }
    \cup { ("m1" :> Detail("m1", url, <<>>)) @@ ("m2" :> Detail("m2", url, None)) :
             url \in Address }
    \cup { ("m2" :> Detail("m2", Third, None)), ("m1" :> Detail("m2", Third, None)) }

Responses ==
    {[answer |-> a, json |-> Broken] : a \in {"timeout", "redirect", "notOk", "noJson"}}
    \cup {[answer |-> "ok", json |-> shell] : shell \in Shells \ {None}}

-----------------------------------------------------------------------------
(* Buses *)

Station(id, name, n, of) ==
    [topisId |-> id, stationName |-> name, arsId |-> id, first |-> n = 1, last |-> n = of,
     rotation |-> FALSE, lines |-> <<>>]
Route(stations) ==
    [id |-> "07", busRouteId |-> "r", themeColor |-> "c", iconType |-> "i",
     refreshInterval |-> 30, stations |-> stations]
ThreeStations ==
    Route(<<Station("t1", "n1", 1, 3), Station("t2", "n2", 2, 3), Station("t3", "n3", 3, 3)>>)
Routes ==
    { ThreeStations,
      Route(<<Station("t1", "n1", 1, 2), Station("t2", "n2", 2, 2)>>),
      Route(<<Station("t1", "n1", 1, 2), Station("t1", "n2", 2, 2)>>),
      Route(<<Station("t1", "n1", 1, 3), Station("t2", "n2", 1, 3), Station("t3", "n3", 3, 3)>>),
      Route(<<>>) }

\* The way back passes a stop with the name of one on the way out.
OutAndBack ==
    Route(<<Station("t1", "n1", 1, 3), Station("t2", "n2", 2, 3), Station("t3", "n1", 3, 3)>>)
ArrivalLists(route) ==
    { [k \in DOMAIN route.stations |->
          [id |-> route.stations[k].topisId, name |-> route.stations[k].stationName,
           eta |-> etas[k]]] :
        etas \in [DOMAIN route.stations -> {None, "soon", "later"}] }

Now == 2000
FirstSeen == {<<>>} \cup [{"t1"} -> {Now - 601, Now - 600, Now - 10}]
                    \cup [{"t2", "t3"} -> {Now - 700, Now - 30}]
Cars == [at : {"t1", "t2", "t3", "t9"}, car : {"c1"}]

\* Stops of the shuttle around the turning point, and how long ago it was there.
Ages == {0, 59, 60, 180, 181, 600, 601}
Shuttle(seq, line, age) == [line |-> line, stop |-> seq, seq |-> seq, date |-> Now - age]
Shuttles == {Shuttle(seq, line, age) : seq \in {0, 4, 5, 9, 10}, line \in {1, 2}, age \in Ages}
FewShuttles == {Shuttle(seq, line, age) :
                  seq \in {8, 10}, line \in {1, 2}, age \in {0, 60, 601}}
Before == {<<>>} \cup {Where!Listed(<<>>, <<s>>, Now - 30) :
                         s \in {Shuttle(10, 1, 40), Shuttle(10, 1, 590), Shuttle(5, 2, 200)}}

-----------------------------------------------------------------------------
(* Places of a festival, and shapes of the campus map *)

Corner == <<126, 37>>
East == <<127, 37>>
North == <<126, 38>>
Far == <<127, 38>>
Rings == { <<Corner, East, Far, Corner>>, <<Corner, Far, East, Corner>>,
           <<Corner, East, Far, North>>, <<Corner, East, East, Corner>>,
           <<Corner, East, Corner>>, <<Corner, <<>>, Far, Corner>> }
Polygon(rings) == [type |-> "Polygon", at |-> rings]
Line(at) == [type |-> "LineString", at |-> at]
Geometries ==
    {Authored!NoGeometry, Line(<<Corner, Far>>), Line(<<Corner>>), Line(<<Corner, <<181, 0>>>>)}
    \cup {Polygon(<<r>>) : r \in Rings} \cup {Polygon(<<r, q>>) : r \in Rings, q \in Rings}

Texts == {"ko", "zh", "blank", "broken", "absent"}
Url(https, host, path) ==
    [clean |-> TRUE, https |-> https, host |-> host, user |-> FALSE, path |-> path,
     hash |-> FALSE]
Urls == { Authored!NoUrl, Url(TRUE, "media", <<"a.png">>), Url(FALSE, "media", <<"a.png">>),
          Url(TRUE, "media", <<>>), Url(TRUE, "instagram", <<"booth">>),
          Url(TRUE, "instagram", <<"p">>), Url(TRUE, "instagram", <<"p", "x">>),
          Url(TRUE, "instagram", <<"stories", "x">>), Url(TRUE, "other", <<>>) }

Value(form, id) == [clean |-> TRUE, form |-> form, id |-> id]
Values == {Value(form, "none") : form \in {"blank", "path", "rootPath", "pageUrl", "otherUrl"}}
          \cup {Value(form, id) : form \in {"id", "idPath"}, id \in {"app", "gone"}}
Buttons == [id : {"b1"}, type : Authored!ActionTypes, value : Values, label : {"ko", "absent"}]

Item(first, second) == [first |-> first, second |-> second]
Blocks ==
    [id : {"x1"}, type : Authored!BlockTypes \cup {"video"}, unknownKey : {FALSE},
     title : {"absent", "zh"}, body : {"ko", "blank"}, url : {Url(TRUE, "media", <<"a.png">>)},
     items : {<<>>, <<Item("ko", "ko")>>, <<Item("ko", "blank")>>,
              <<Item("ko", "ko"), Item("zh", "ko")>>}]
    \cup [id : {"x2"}, type : {"image"}, unknownKey : BOOLEAN, title : {"ko"},
          body : {"absent"}, url : Urls, items : {<<>>}]
Links == [id : {"a1"}, type : {"instagram", "link"}, label : {"ko"}, unknownKey : {FALSE},
          url : Urls, post : Urls]
DetailSheet(blocks, actions) ==
    [kind |-> "pub", unknownKey |-> FALSE, org |-> "absent",
     actions |-> actions, blocks |-> blocks]
SomeBlock == [id |-> "x3", type |-> "text", unknownKey |-> FALSE, title |-> "absent",
              body |-> "ko", url |-> Authored!NoUrl, items |-> <<>>]
Sheets ==
    {Authored!NoDetail} \cup {DetailSheet(<<SomeBlock, b>>, <<>>) : b \in Blocks}
    \cup {DetailSheet(<<>>, <<a>>) : a \in Links}
    \cup {[DetailSheet(<<>>, <<>>) EXCEPT !.kind = "stall"],
          DetailSheet(<<SomeBlock, SomeBlock>>, <<>>)}

Booth ==
    [retired |-> FALSE, id |-> "p1", category |-> "pub", order |-> 1, point |-> Corner,
     geometry |-> Authored!NoGeometry, title |-> "ko", subtitle |-> "absent", hours |-> <<>>,
     fields |-> <<>>, actions |-> <<>>, detail |-> Authored!NoDetail, facets |-> <<>>]
Windows == [start : {-2, -1, 0, 1}, end : {-2, -1, 0, 1, 2}]
Booths ==
    {[Booth EXCEPT !.geometry = g, !.point = p] : g \in Geometries, p \in {<<>>, Corner, <<0, 91>>}}
    \cup {[Booth EXCEPT !.title = t, !.subtitle = u] : t \in Texts, u \in Texts}
    \cup {[Booth EXCEPT !.hours = <<w>>] : w \in Windows}
    \cup {[Booth EXCEPT !.actions = <<a, b>>] : a \in Buttons, b \in Buttons}
    \cup {[Booth EXCEPT !.detail = d] : d \in Sheets}
    \cup {[Booth EXCEPT !.facets = f] : f \in {"day" :> <<>>, "day" :> <<"d1", "d1">>}}
    \cup {[Booth EXCEPT !.fields = <<[label |-> "ko", value |-> t]>>] : t \in Texts}
SheetOf(places) ==
    [retired |-> FALSE, layerSetId |-> "set", campus |-> "nsc", places |-> places]

\* What a category's markers do when they are tapped: open the place's sheet, run
\* a chip, or nothing.
Presented(interactive, chip) == [layer |-> "l1", interactive |-> interactive, tapChip |-> chip]
Opening == Presented(TRUE, None)
Presentations ==
    [byCategory : { <<>>, "pub" :> Opening, "pub" :> Presented(TRUE, "c1"),
                    "pub" :> Presented(FALSE, None) },
     fallback : {Opening, Presented(FALSE, None)}]
FestivalFiles ==
    {SheetOf(<<p>>) : p \in Booths}
    \cup {SheetOf(<<p, [Booth EXCEPT !.id = id]>>) :
            p \in {Booth, [Booth EXCEPT !.title = "zh"]}, id \in {"p1", "p2"}}

Building(id, at, displayNo, ko) == [id |-> id, at |-> at, displayNo |-> displayNo, ko |-> ko]
Buildings ==
    { {}, {Building("27", Corner, "27", "ko")}, {Building("27", <<>>, "27", "ko")},
      {Building("1", East, "blank", "ko"), Building("2", Far, "2", "blank")} }
Shape(id, layer, geometry, title) ==
    [id |-> id, campus |-> "hssc", layerId |-> layer, order |-> 0, skkuId |-> None,
     geometry |-> geometry, title |-> title, subtitle |-> "absent"]
Shapes ==
    {Shape("s1", layer, g, "ko") : layer \in {"campus_geometry", "festival"}, g \in Geometries}
    \cup {Shape("s1", "campus_geometry", Line(<<Corner, Far>>), t) : t \in Texts}
SecondShape == Shape("s2", "campus_geometry", Line(<<East, Far>>), "ko")
ShapeLists == [1 .. 1 -> Shapes] \cup {<<s, SecondShape>> : s \in Shapes}
              \cup {<<SecondShape, SecondShape>>}
\* Documents that were written by hand.
OtherShapes ==
    { {}, {Shape("s9", "campus_geometry", Polygon(<<<<Corner, Far, East, East>>>>), "ko")},
      {Shape("s9", "campus_geometry", Polygon(<<<<Corner, Far>>>>), "ko")},
      {Shape("s9", "festival", Line(<<Corner, Far>>), "ko")} }

-----------------------------------------------------------------------------
(* Buildings and rooms, as a query occurs in them *)

Room(spaceCd, code, buildingName, name, of) ==
    [spaceCd |-> spaceCd, code |-> code, buildingName |-> buildingName, name |-> name,
     buildNo |-> of[1], campus |-> of[2], floor |-> [kind |-> of[3], n |-> of[4]]]
\* Where a room is: in a building of either campus, or in one that is not listed.
Sites == { <<"b1", "hssc", "floor", 1>>, <<"b2", "nsc", "basement", 1>>,
             <<"b9", "nsc", "floor", 1>> }
Fields == { <<"exact", "none", "none">>, <<"prefix", "none", "prefix">>,
            <<"none", "prefix", "inside">>, <<"none", "none", "prefix">>,
            <<"inside", "inside", "none">>, <<"none", "none", "inside">>,
            <<"none", "none", "none">> }
RoomsAt(n) == {Room(n, f[1], f[2], f[3], of) : f \in Fields, of \in Sites}
Occurs == Search!Occurrence
OneRoom == {Room(1, c, b, n, <<"b1", "hssc", "floor", 1>>) :
               c \in Occurs, b \in Occurs, n \in Occurs}
AlikeRooms == [1 .. 3 -> {f \in Fields : f[1] # "exact"}]
RoomSets ==
    {{r} : r \in OneRoom} \cup {{r, t} : r \in RoomsAt(1), t \in RoomsAt(2)}
    \cup { {Room(i, fs[i][1], fs[i][2], fs[i][3], <<"b1", "hssc", "floor", i>>) : i \in 1 .. 3} :
              fs \in AlikeRooms }
    \cup { {Room(1, "prefix", "none", "none", <<"b1", "hssc", "floor", i>>) : i \in 1 .. 3} }
House(id, buildNo, campus, displayNo, name, description) ==
    [_id |-> id, buildNo |-> buildNo, campus |-> campus, ko |-> id,
     displayNo |-> displayNo, name |-> name, description |-> description]
TwoHouses == {House(1, "b1", "hssc", "none", "none", "none"),
              House(2, "b2", "nsc", "none", "none", "none")}
HouseSets ==
    { {House(i, None, IF i = 3 THEN "nsc" ELSE "hssc", f[i][1], f[i][2], f[i][3]) : i \in 1 .. 3} :
        f \in [1 .. 3 -> { <<"exact", "none", "none">>, <<"prefix", "inside", "none">>,
                          <<"inside", "none", "none">>, <<"none", "prefix", "none">>,
                          <<"none", "inside", "exact">>, <<"none", "none", "inside">> }] }

\* The floors of one building, and the passages between three.
FloorSets ==
    { {Room(i, "none", "none", "none", <<"b1", "hssc", f[i][1], f[i][2]>>) : i \in 1 .. 3} :
    f \in [1 .. 3 -> { <<"basement", 1>>, <<"basement", 2>>, <<"floor", 1>>, <<"floor", 10>>,
                      <<"rooftop", 1>>, <<"other", 0>>, <<"other", 1>> }]}
Ways == {[a |-> w[1], aFloor |-> "1F", b |-> w[2], bFloor |-> w[3]] :
            w \in {<<1, 2, "2F">>, <<2, 1, "1F">>, <<1, 3, "1F">>, <<9, 1, "1F">>}}
Walked == {House(i, None, "hssc", "none", "none", "none") : i \in 1 .. 3}

-----------------------------------------------------------------------------
(* The home screen, and the deadline of a notice *)

Words == { "ko" :> "text", ("ko" :> "text") @@ ("zh" :> "text"), "zh" :> "text",
           ("ko" :> "text") @@ ("en" :> "blank"), "fr" :> "text", Broken }
Korean == "ko" :> "text"
Banner(id) ==
    [type |-> "image", unknownKey |-> FALSE, id |-> id, media |-> TRUE, alt |-> Korean,
     actionType |-> None, actionValue |-> None, startAt |-> None, endAt |-> None]
Instants == {None, Broken, 1, 2}
Targets == {None} \cup Values
Banners ==
    {[Banner("i1") EXCEPT !.alt = w, !.media = m] : w \in Words, m \in BOOLEAN}
    \cup {[Banner("i1") EXCEPT !.startAt = s, !.endAt = e] : s \in Instants, e \in Instants}
    \cup {[Banner("i1") EXCEPT !.actionType = t, !.actionValue = v] :
              t \in {None, "content"} \cup Home!HOME_ACTION_TYPES, v \in Targets}
    \cup {[Banner("i1") EXCEPT !.unknownKey = TRUE], Banner("i2"), Banner("g1"), Banner(Broken)}
Default == [type |-> "default"]
Carousel(items) ==
    [type |-> "banner_carousel", id |-> "s1", aspectRatio |-> 2, autoRotateSec |-> 5,
     items |-> items]
Carousels ==
    {Carousel(<<>>), Carousel(<<Default>>), Carousel(<<Default, Default>>)}
    \cup {[Carousel(<<Banner("i1")>>) EXCEPT !.aspectRatio = r, !.autoRotateSec = t] :
              r \in {0, 1, 7}, t \in {0, 1, 30}}
    \cup {Carousel(<<b>>) : b \in Banners} \cup {Carousel(<<b, Default>>) : b \in Banners}
    \cup {Carousel(<<Banner("i2"), b>>) : b \in Banners}
Tile(kind, id, title, type, value) ==
    [kind |-> kind, id |-> id, unknownKey |-> FALSE, icon |-> TRUE, title |-> title,
     actionType |-> type, actionValue |-> value]
Tiles == {Tile(kind, id, None, None, None) :
             kind \in {"miniapp", "game"}, id \in {"app", "gone"}}
         \cup {Tile("link", "i1", w, "route", Value("path", "none")) : w \in Words}
         \cup {Tile("link", "t1", Korean, "miniapp", v) : v \in Values}
Grid(id, title, tiles) == [type |-> "tile_grid", id |-> id, title |-> title, tiles |-> tiles]
Game == Tile("game", "x", None, None, None)
SomeGrids == {Grid("g1", None, <<Game>>),
              Grid("s1", None, <<Tile("miniapp", "app", None, None, None)>>)}
Grids == {Grid("g1", None, <<t>>) : t \in Tiles} \cup {Grid("g1", w, <<Game>>) : w \in Words}
         \cup {Grid("g1", None, <<>>), Grid("s1", None, <<Game>>)}
Layout(sections) == [version |-> 1, unknownKey |-> FALSE, sections |-> sections]
Layouts ==
    {Layout(<<c, g>>) : c \in Carousels, g \in SomeGrids}
    \cup {Layout(<<Carousel(<<Banner("i1")>>), g>>) : g \in Grids}
    \cup {Layout(<<Grid("g1", None, <<Game>>), Grid("g2", None, <<t>>)>>) : t \in Tiles \cup {Game}}
    \cup {[Layout(<<>>) EXCEPT !.version = 2], [Layout(<<>>) EXCEPT !.unknownKey = TRUE]}

Periods == [startDate : {None, 1}, endDate : {None, 0, 1, 2}, endTime : {None, 5, Broken}]
Summaries ==
    [summaryAt : {None, "t"}, summaryType : {"action_required", "event", "new"},
     summaryPeriods : SeqOf(Periods, 2), contentHash : {"h"}, editCount : 0 .. 1]
    \cup
    [summaryAt : {"t"}, summaryType : {"action_required"}, contentHash : {None}, editCount : {0},
     summaryPeriods : [1 .. 3 -> {p \in Periods : p.endDate # None}]]

-----------------------------------------------------------------------------
\* Nothing and what cannot be read are none of the things they stand beside, and the
\* inputs have the shapes the modules say.
ASSUME NothingApart ==
    /\ None \notin Int /\ Broken \notin Int /\ None # Broken
    /\ None \notin Notice!Period
    /\ None \notin [date : Int \cup {None}, time : Int \cup {None, Broken}]
    /\ None \notin {"none"} \cup Home!Langs \cup Home!HOME_ACTION_TYPES
    /\ None \notin [count : Nat] /\ None \notin Where!Position
    /\ None \notin [type : Notice!SummaryType, periods : Seq(Notice!Period)]
    /\ None \notin [type : Notice!SummaryType,
                   endAt : {None} \cup [date : Int \cup {None}, time : Int \cup {None, Broken}]]
IsList(s) == s \in Seq(Where!ToSet(s))
ASSUME InputsInShape ==
    /\ \A c \in Configs : Map!IsConfig(c)
    /\ \A s \in Services : Bus!IsService(s)
    /\ \A doc \in Summaries : Notice!IsNotice(doc)
    /\ \A t \in Categories : Tabs!IsCategory(t)
    /\ \A index \in Indexes, files \in Files : Apps!IsRegistry(index, files)
    /\ \A res \in Responses : res.answer \in Apps!Answer
    /\ \A layout \in Layouts : Home!IsLayout(layout, 0 .. 3)
    /\ \A carousel \in Carousels : Home!IsSection(carousel, 0 .. 3)
    /\ \A route \in Routes : IsList(route.stations)
    /\ \A times \in FirstSeen : \A id \in DOMAIN times : times[id] \in Int /\ times[id] <= Now
    /\ Shuttles \cup FewShuttles \subseteq Where!Report
    /\ \A before \in Before : before \in Seq(Where!Position)
    /\ \A file \in FestivalFiles : \A p \in Where!ToSet(file.places) : Authored!IsPlace(p)
    /\ \A docs \in OtherShapes : Campus!AreShapes(docs)
    /\ \A shapes \in ShapeLists :
          IsList(shapes) /\ Campus!AreShapes(Where!ToSet(shapes))
    /\ \A docs \in RoomSets \cup FloorSets : Search!IsRooms(docs)
    /\ \A docs \in HouseSets : IsFiniteSet(docs)
    /\ Search!IsBuildings(TwoHouses) /\ Search!IsBuildings(Walked) /\ Search!IsPassages(Ways)

-----------------------------------------------------------------------------
Question == [of |-> "nothing"]

AskInit == asked = Question

AskMap == asked' \in [of : {"map"}, c : Configs]
AskWeek == asked' \in [of : {"week"}, s : Services, today : 0 .. 6]
AskTabs == asked' \in [of : {"tabs"}, t : Categories]
AskApps == asked' \in [of : {"apps"}, index : Indexes, files : Files,
                       responses : SeqOf(Responses, 2)]
AskJongro == asked' \in [of : {"jongro"}, routes : SeqOf(Routes, 2), times : FirstSeen,
                         items : SeqOf(Cars, 2)]
AskEtas == \E route \in {ThreeStations, OutAndBack} :
              asked' \in [of : {"etas"}, route : {route}, list : ArrivalLists(route)]
AskHssc == asked' \in [of : {"hssc"}, before : Before,
                       items : SeqOf(Shuttles, 1) \cup [1 .. 2 -> Shuttles]
                               \cup SeqOf(FewShuttles, 3)]
AskPlaces == asked' \in [of : {"places"}, file : FestivalFiles, c : Presentations]
AskCampus == asked' \in [of : {"campus"}, buildings : Buildings, others : OtherShapes,
                         fail : BOOLEAN, shapes : ShapeLists]
AskRooms == asked' \in [of : {"rooms"}, docs : RoomSets, campus : {None, "hssc", "nsc"}]
AskHouses == asked' \in [of : {"houses"}, docs : HouseSets, campus : {None, "hssc", "nsc"}]
AskFloors == asked' \in [of : {"floors"}, docs : FloorSets]
AskWays == asked' \in [of : {"ways"}, list : SUBSET Ways, before : SUBSET Ways]
AskHome == asked' \in [of : {"home"}, layout : Layouts]
AskBanners == asked' \in [of : {"banners"}, carousel : Carousels]
AskNotice == asked' \in [of : {"notice"}, doc : Summaries]

Ask == \/ asked = Question /\ (\/ AskMap \/ AskWeek \/ AskTabs \/ AskApps
                               \/ AskJongro \/ AskEtas \/ AskHssc \/ AskPlaces \/ AskCampus
                               \/ AskRooms \/ AskHouses \/ AskFloors \/ AskWays
                               \/ AskHome \/ AskBanners \/ AskNotice)
       \/ asked # Question /\ asked' = Question

AskSpec == AskInit /\ [][Ask]_asked

-----------------------------------------------------------------------------
Accepted == asked.of = "map" /\ Map!ValidConfig(asked.c)

\* assertValidConfig is all that keeps the three answers about a festival
\* together: a marker's layer and the chip its tap runs are served, once, a chip
\* shows only layers of the festival and filters by facets sent with it, no detail
\* is sent for a place that has no marker to open it, no opening is listed under
\* two days, and an order keyed by a bare option id names one option of one facet.
FestivalResolves ==
    Accepted =>
        /\ Map!ChipsResolve(asked.c)
        /\ Map!OneDayPerWindow(asked.c, 0 .. 3)
        /\ \A p \in Places : /\ Map!MarkersResolve(asked.c, p)
                             /\ Map!DetailsHavePins(asked.c, p)
                             /\ Map!OrderUnambiguous(asked.c, p)

\* What comes next is what is shown: resolveSmartSchedule opens on the first day
\* worth opening on, and sends it with its week, no running day hidden; and a
\* notice that asks for something shows its nearest deadline ahead, never going
\* back to an earlier one.
NextShown ==
    /\ asked.of = "week" => /\ Bus!OpensOnFirst(asked.s, asked.today)
                            /\ Bus!SelectionShown(asked.s, asked.today)
    /\ asked.of = "notice" => Notice!DeadlineShown(asked.doc, {0, 5, 9, 10, 15, 19, 20, 25, 30})

\* What the start accepts of the registries in the repository can be answered:
\* categories.json never seeds a picker with a department it does not offer nor,
\* where a category has both defaults of its own and a campus's, with more than it
\* lets the user select (with one of the two lists alone nothing is compared with
\* the limit, and nothing is claimed); every mini app of the list opens, in a
\* complete shell, whatever its own origin answered to the manifest's fetches; and
\* the home screen and the banners can be shown at every moment.
RegistriesServe ==
    /\ asked.of = "tabs" /\ Tabs!ValidTab(asked.t) => Tabs!SeedsSelectable(asked.t)
    /\ asked.of = "apps" => Apps!MiniAppsOpen(asked.index, asked.files, asked.responses)
    /\ asked.of = "home" /\ Home!ValidHomeLayout(asked.layout) =>
          Home!HomeServes(asked.layout, 0 .. 3)
    /\ asked.of = "banners" /\ Home!ValidCampusCarousel(asked.carousel) =>
          Home!CampusServes(asked.carousel, 0 .. 3)

\* A search leaves out nothing better than what it answers and says when it leaves
\* something out, its counts agree with it, and what it names opens: a group's
\* building lists the group's rooms, by floor, and a passage leads both ways.
BuildingsFound ==
    /\ asked.of = "rooms" =>
          \A answer \in Search!SearchSpaces(asked.docs, asked.campus) :
              /\ Search!NothingBetterMissing(asked.docs, asked.campus, answer)
              /\ Search!CountsAgree(Search!SearchSpaces, asked.docs, answer)
              /\ Search!GroupsOpen(asked.docs, TwoHouses, answer)
    /\ asked.of = "houses" =>
          \A answer \in Search!SearchBuildings(asked.docs, asked.campus) :
              /\ Search!BuildingOfThatNumber(asked.docs, asked.campus, answer)
              /\ Search!CountsAgree(Search!SearchBuildings, asked.docs, answer)
    /\ asked.of = "floors" => Search!FloorsAscend(asked.docs, "b1")
    /\ asked.of = "ways" =>
          Search!PassagesBothWays(Search!Seeded({}, asked.before, Walked), asked.list, Walked)

\* A bus is drawn where it was last reported and counts the seconds since it was
\* first reported there, within the limits the pollers set, on any route list the
\* start accepts; and the text about a station speaks of a bus standing there or of
\* the nearest one behind, as EtaOfNearest says it.
BusesWhereReported ==
    /\ asked.of = "jongro" /\ Where!ValidRoutes(asked.routes) =>
          \A i \in DOMAIN asked.routes :
              Where!JongroWhereReported(asked.routes[i], asked.times, asked.items, Now)
    /\ asked.of = "hssc" =>
          LET list == Where!Listed(asked.before, asked.items, Now)
          IN /\ Where!HsscWhereReported(asked.before, asked.items, Now)
             /\ \A station \in {5, 6, 10} : Where!EtaOfNearest(station, list)

\* What an operator's import accepted reaches the map: each place is drawn once,
\* where it was traced, in a geometry the client accepts, with its texts, hours and
\* fields, and with its buttons, but for the routes, pages and addresses the server
\* itself cannot open; a tap that opens the place finds its whole sheet, and a place
\* whose category opens none sends none, so the importer's sheet is lost there; and
\* each shape of the campus is on the layer it names, beside every building.
Sendable(a) == a.type \in {"content", "miniapp"} \/ Wire!IsValidActionValue(a)
PlaceServed(file, p, c) ==
    LET docs == Authored!Documents(file)
        doc == Authored!Document(file, p)
        shownAs == [category \in {d.category : d \in docs} |-> Map!PresentationFor(c, category)]
        overlays == {o \in Wire!Overlays(docs, shownAs) : o.id = doc._id}
        details == {d \in Wire!Details(docs, shownAs, Authored!NoDetail, Authored!NoUrl) :
                       d.id = doc._id}
    IN \E o \in overlays :
         /\ overlays = {o}
         /\ Campus!Conforms(o.geometry)
         /\ Campus!SameGeometry(o.geometry, doc.location)
         /\ o.text = p.title
         /\ o.subtitle = IF p.subtitle = "absent" THEN None ELSE p.subtitle
         /\ o.hours = p.hours /\ o.fields = p.fields /\ o.order = p.order
         /\ o.actions = Sift(p.actions, Sendable)
         /\ details = IF p.detail # Authored!NoDetail /\ o.tap = [kind |-> "event", placeId |-> o.id]
                      THEN {[id |-> o.id, detail |-> p.detail]} ELSE {}
ImportedIsServed ==
    /\ asked.of = "places" /\ Authored!ValidFile(asked.file, "set") =>
          \A i \in DOMAIN asked.file.places :
              PlaceServed(asked.file, asked.file.places[i], asked.c)
    /\ asked.of = "campus" =>
          Campus!ShapesServed(asked.buildings, asked.shapes, asked.others, asked.fail)

\* buildStationEtas: the list of arrivals a Jongro poll keeps is the arrival
\* information of each station: a station of the answer has the arrival that was reported for it.
EtasAtTheirStations ==
    asked.of = "etas" => Where!EtasAtTheirStations(asked.route, asked.list)
=============================================================================
