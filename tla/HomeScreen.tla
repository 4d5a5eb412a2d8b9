------------------------------ MODULE HomeScreen ------------------------------
(***************************************************************************)
(* The home screen and the banners of the campus sheet: two files of the   *)
(* repository, checked at the start (home-layout.schema.ts) and resolved   *)
(* for one instant and one language at each request (home-layout.ts,       *)
(* ui.campus.ts).                                                          *)
(*                                                                         *)
(* A text is a function from languages to "text" or "blank", or Broken; an *)
(* instant a number, Absent or Broken; a slug a name or Broken.  A banner  *)
(* is [type, unknownKey, id, media, alt, actionType, actionValue, startAt, *)
(* endAt]; the action values are those of PlacesFile.                      *)
(***************************************************************************)
EXTENDS Integers, FiniteSets, SequencesExt, Sift

CONSTANTS None, Broken,
          Registered    \* the mini apps of index.json

Langs == {"ko", "en", "zh"}
HOME_ACTION_TYPES == {"miniapp", "external", "webview", "route"}

Wire == INSTANCE PlaceWire

-----------------------------------------------------------------------------
(* What the start accepts *)

ValidI18nAnyLanguage(text) ==   \* wrong: Korean is no longer required
    text # Broken /\ DOMAIN text \subseteq Langs /\ \A l \in DOMAIN text : text[l] = "text"
ValidI18n(text) ==
    /\ text # Broken
    /\ DOMAIN text \subseteq Langs
    /\ \A l \in DOMAIN text : text[l] = "text"
    /\ "ko" \in DOMAIN text

ValidAction(item) ==
    /\ item.actionType \in HOME_ACTION_TYPES
    /\ item.actionValue # None
    /\ Wire!IsValidActionValue([type |-> item.actionType, value |-> item.actionValue])

ValidWindowOpen(item) == Broken \notin {item.startAt, item.endAt}   \* wrong: may be empty
ValidWindow(item) ==
    /\ Broken \notin {item.startAt, item.endAt}
    /\ None \notin {item.startAt, item.endAt} => item.startAt < item.endAt

ValidBannerImage(item) ==
    /\ ~item.unknownKey
    /\ item.media
    /\ ValidI18n(item.alt)
    /\ item.actionType = None <=> item.actionValue = None
    /\ item.actionType # None => ValidAction(item)
    /\ ValidWindow(item)

ASPECT_RATIO == 1 .. 6
AUTO_ROTATE_SEC == {0} \cup 2 .. 30
ValidCarousel(section, allowDefault) ==
    /\ section.aspectRatio \in ASPECT_RATIO
    /\ section.autoRotateSec \in AUTO_ROTATE_SEC
    /\ section.items # <<>>
    /\ \A i \in DOMAIN section.items :
          LET item == section.items[i]
          IN IF item.type = "default" THEN allowDefault
             ELSE item.type = "image" /\ ValidBannerImage(item)
    /\ Cardinality({i \in DOMAIN section.items : section.items[i].type = "default"}) <= 1

ValidTile(tile) ==
    /\ tile.id # Broken
    /\ ~tile.unknownKey
    /\ \/ tile.kind = "miniapp" /\ tile.id \in Registered
       \/ tile.kind = "game"
       \/ tile.kind = "link" /\ ValidI18n(tile.title) /\ tile.icon /\ ValidAction(tile)

ValidGrid(section) ==
    /\ section.title # None => ValidI18n(section.title)
    /\ section.tiles # <<>>
    /\ \A i \in DOMAIN section.tiles : ValidTile(section.tiles[i])

\* assertSlug and assertUniqueId: every id is a name, sections and banners share the
\* names a tap is reported by, and tiles have theirs.
ImagesOf(section) ==
    IF section.type # "banner_carousel" THEN {}
    ELSE {k \in DOMAIN section.items : section.items[k].type = "image"}
TilesOf(section) == IF section.type = "tile_grid" THEN DOMAIN section.tiles ELSE {}
Slugs(section) ==
    /\ section.id # Broken
    /\ \A k \in ImagesOf(section) : section.items[k].id # Broken
SectionIdsApart(sections) ==
    \A i, j \in DOMAIN sections :
        /\ sections[i].id = sections[j].id => i = j
        /\ \A k \in ImagesOf(sections[i]) :
              /\ sections[i].items[k].id # sections[j].id
              /\ \A l \in ImagesOf(sections[j]) :
                    sections[i].items[k].id = sections[j].items[l].id => i = j /\ k = l
TileIdsApart(sections) ==
    \A i, j \in DOMAIN sections :
        \A k \in TilesOf(sections[i]), l \in TilesOf(sections[j]) :
            sections[i].tiles[k].id = sections[j].tiles[l].id => i = j /\ k = l

ValidHomeLayout(layout) ==
    /\ ~layout.unknownKey /\ layout.version = 1
    /\ SectionIdsApart(layout.sections)
    /\ TileIdsApart(layout.sections)
    /\ \A i \in DOMAIN layout.sections :
          LET section == layout.sections[i]
          IN /\ Slugs(section)
             /\ \/ section.type = "banner_carousel" /\ ValidCarousel(section, TRUE)
                \/ section.type = "tile_grid" /\ ValidGrid(section)

ValidCampusCarousel(section) ==
    /\ section.type = "banner_carousel"
    /\ SectionIdsApart(<<section>>) /\ Slugs(section)
    /\ ValidCarousel(section, FALSE)

\* Lists where there are lists, and instants that are numbers: each is among those
\* the clock goes through, an end with the instant before it.
IsSection(section, times) ==
    /\ section.type = "banner_carousel" =>
          /\ section.items \in Seq(ToSet(section.items))
          /\ \A k \in ImagesOf(section) :
                /\ section.items[k].startAt \in {None, Broken} \cup times
                /\ section.items[k].endAt \in {None, Broken} \cup {t + 1 : t \in times}
    /\ section.type = "tile_grid" => section.tiles \in Seq(ToSet(section.tiles))
IsLayout(layout, times) ==
    /\ layout.sections \in Seq(ToSet(layout.sections))
    /\ \A i \in DOMAIN layout.sections : IsSection(layout.sections[i], times)

-----------------------------------------------------------------------------
(* What a request is answered *)

\* pick: the language, else English, else Korean; a blank is none.
Pick(text, lang) ==
    LET usable == Sift(<<lang, "en", "ko">>,
                       LAMBDA l : l \in DOMAIN text /\ text[l] # "blank")
    IN IF usable = <<>> THEN None ELSE Head(usable)

\* A banner shows inside [startAt, endAt).
IsShowing(item, now) ==
    /\ item.startAt # None => now >= item.startAt
    /\ item.endAt # None => now < item.endAt

ToWireCarousel(section, lang, now) ==
    LET Shown(item) == item.type = "default" \/ IsShowing(item, now)
        ToWire(item) == IF item.type = "default" THEN [type |-> "default"]
                        ELSE [type |-> "image", id |-> item.id, alt |-> Pick(item.alt, lang),
                              actionType |-> item.actionType, actionValue |-> item.actionValue]
        shown == Sift(section.items, Shown)
    IN [type |-> "banner_carousel", id |-> section.id,
        items |-> [i \in DOMAIN shown |-> ToWire(shown[i])]]

ToWireTile(tile, lang) ==
    IF tile.kind = "link"
    THEN [kind |-> "link", id |-> tile.id, title |-> Pick(tile.title, lang),
          actionType |-> tile.actionType, actionValue |-> tile.actionValue]
    ELSE [kind |-> tile.kind, id |-> tile.id]

\* A carousel with nothing to show stays: the app draws its own banner in it.  A
\* grid may have no title ("none").
ToWireSection(section, lang, now) ==
    IF section.type = "banner_carousel" THEN ToWireCarousel(section, lang, now)
    ELSE [type |-> "tile_grid", id |-> section.id,
          title |-> IF section.title = None THEN "none" ELSE Pick(section.title, lang),
          tiles |-> [i \in DOMAIN section.tiles |-> ToWireTile(section.tiles[i], lang)]]

ResolveHomeLayout(layout, lang, now) ==
    [i \in DOMAIN layout.sections |-> ToWireSection(layout.sections[i], lang, now)]

\* getCampusSections: here an empty carousel is left out.
GetCampusSections(carousel, lang, now) ==
    LET wire == ToWireCarousel(carousel, lang, now)
    IN IF wire.items = <<>> THEN <<>> ELSE <<wire>>

-----------------------------------------------------------------------------
(* What is owed for an accepted file *)

\* Whatever is on the screen has its words in every language (a text that cannot be
\* picked is None), and a tap on it is reported by a name nothing else has; a banner
\* that opens a mini app opens one that is registered; and every banner of the file
\* has its time on the screen.
Readable(section) ==
    /\ section.type = "tile_grid" =>
          /\ section.title # None
          /\ \A i \in DOMAIN section.tiles :
                section.tiles[i].kind = "link" => section.tiles[i].title # None
    /\ section.type = "banner_carousel" =>
          \A i \in DOMAIN section.items :
              section.items[i].type = "image" => section.items[i].alt # None
Opens(item) == item.actionType = "miniapp" => item.actionValue.id \in Registered
HasItsTime(section, times) ==
    \A i \in DOMAIN section.items : LET item == section.items[i] IN
        item.type = "image" => Opens(item) /\ \E now \in times : IsShowing(item, now)
NamesApart(wire) == SectionIdsApart(wire) /\ TileIdsApart(wire)

HomeServes(layout, times) ==
    /\ \A now \in times, lang \in Langs :
          LET wire == ResolveHomeLayout(layout, lang, now)
          IN NamesApart(wire) /\ \A i \in DOMAIN wire : Readable(wire[i])
    /\ \A i \in DOMAIN layout.sections :
          layout.sections[i].type = "banner_carousel" => HasItsTime(layout.sections[i], times)

CampusServes(carousel, times) ==
    /\ \A now \in times, lang \in Langs :
          \A section \in ToSet(GetCampusSections(carousel, lang, now)) :
              /\ Readable(section) /\ section.items # <<>>
              /\ \A i \in DOMAIN section.items : section.items[i].type = "image"
    /\ HasItsTime(carousel, times)
=============================================================================
