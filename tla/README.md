# skkuverse-server in TLA+

skkuverse-server is the HTTP API behind a university's mobile app: one Node.js
code base, run as several `api` replicas and one `poller` process that share a
MongoDB. This directory holds TLA+ models of its stateful parts, the TLC
configurations that check them on small instances, and TLAPS proofs of what
matters most for every instance. Paths below are relative to the repository's
root (`src/src/...` is the TypeScript under `src/`).

    tlc -config X.cfg M       model-checks a run (the table below has the pairs)
    tlapm P.tla               checks the proofs of a module: the eight that end
                              in "Proofs"

## 1. Inventory

The processes share nothing but the database; inside one process there is one
thread, and every `await` is a point where other requests and timers run.

| Component | State | Operations | What is hard about it | What makes it correct |
|---|---|---|---|---|
| Notice dispatch (`notices/notices-dispatcher.service.ts`) | per notice `pushedAt`, `pushAttempts`, `dispatchClaimedAt`; per process `sweepInFlight` and the claimed batch | crawler ping and 30-minute cron start a sweep; claim, group, call the push function, record or release | several processes, leases, lost answers, failed writes, crashes, cross-posts | a notice is not pushed again once recorded; recorded only if delivered; never stuck |
| Cached loader (`common/cache/cached-loader.ts`) | `value`, `freshUntil`, `inFlight`, `generation` | `get`, `clear`, the load's handlers | callbacks of dropped loads, stale windows, slow queries | single flight; answers of loads not dropped come in order; bounded age; every caller answered |
| Event map read path (`map/map-active-layerset.ts`, `map-event-*.ts`, `map-config.data.ts`, `map-places.data.ts`) | three cached loaders per replica: the activation, and the overlays and the place details built from it | `GET /map/config`, `/map/overlays/event`, the details | a cache filled from another cache; one ends by the clock, the others by TTL; a load waits on another; outages keep all alive | how far each answer may lag behind what ops wrote; no request and no cache is stuck |
| Festival structure (`map/map-layerset.config.ts`, `map-layers.data.ts`, `map-chips.data.ts`) | one document, validated when it is read | build layers, chips, markers and details from one structure file | three answers that name each other by id, one validation | no answer names what another does not serve; days of a facet do not overlap |
| Poller registry (`scheduling/poller-registry.service.ts`) | `entries`, `timers`, `running`, `isReady` | register, startAll, stopAll, bootstrap, shutdown | a tick that outlives its interval; stop while one runs | one poll per fetcher at a time; ready only after every poller ran once |
| Bus pollers and bus cache (`bus/fetchers/*`, `bus/cache`, `bus/realtime`, `bus/station`) | one Mongo document per key under a TTL index; per process a 5 s memory cache; in the poller the last HSSC list and the first sightings at each Jongro station | fetch, transform, upsert; cached read; the list, the arrivals and the text about Hyehwa made of it | upstream answers out of order, fire-and-forget writes, replicas reading through a memory cache; times kept from poll to poll; a loop's wrap-around, stations of the same name | positions shown are never older than the caches' lifetimes, and go back in time by a fetch and a write at most; a bus is drawn where it was reported; a station shows the nearest bus behind it |
| Bus schedules (`bus/schedule`, `scripts/set-campus-schedule.js`, `lib/campus-schedule-file.js`) | `bus_schedules`; per replica a week per service for an hour | resolve a week, the smart schedule; ops' script: check the file, compare, write document by document, read back | overrides, holidays, suspensions, week boundaries; a week read while a run is half done; runs that overlap or die; documents typed by hand | the app opens on the first day worth opening on, and shows it; after VERIFIED the riders read the file's timetable |
| Bus configuration (`bus/bus-config`, `bus/registry`) | the route list, read and checked once | stations, sequences, colours | stations are counted from 0 in one answer and from 1 in another | list, positions and config number stations alike |
| Building sync (`building/building.sync.ts`) | `buildings`, `spaces`; the in-memory building list | four phases: fetch and diff, enrich, spaces, delete stale; `clearCache` | a crash or failed request between phases; a diff against what was half written | nothing that the source still has is deleted; a change is eventually enriched |
| Notice reading (`notices/notices.data.ts`, `notices.cursor.ts`) | none (the cursor is in the client) | list pages by cursor | documents inserted, edited or deleted between pages | no notice that stays is skipped or shown twice |
| Notice tabs (`notices/tabConfig.ts`, `tabconfig.service.ts`) | `categories.json`, read and validated once | the tabs and their seeds | limits that apply to a union | a seed is offered, and within the limit where two lists make it |
| Mini-app notifications (`miniapps/miniapps-notifications.service.ts`) | one document per notification with `delivery` | insert, call the push function, record the outcome, reply; the feed | the answer is lost after the delivery; the record fails; the gateway gives up; ops repeat | the feed shows what was pushed; record and reply are honest; a broadcast is repeated only when nobody could know |
| Ads (`ad/`) | the `ads` collection with its unique index; per process the ads picked for a minute | list, record an event, weighted pick; at the start the index and the seeds | overlapping reads that come back in either order; a failing read; processes that seed together; ops switching an ad | an answer is a minute old at most, in its placement; the seeds are there once |
| Mini-app registry (`miniapps/*`) | the registry, checked once; per mini app the last manifest | list, detail, the manifest's fetch from the app's own origin | the origin answers anything, or nothing | every listed app opens, in a complete shell |
| Campus map (`map/map-campus-overlays.data.ts`, `scripts/import-campus-shapes.js`, `lib/campus-shapes-file.js`) | `buildings` and the shapes' collection | import shapes; answer both | one of the two reads fails; rings that turn the wrong way | every shape and every building is drawn, as it was traced |
| Operators' import (`scripts/import-eventmap-places.js`, `eventmap-window.js`, `scripts/lib/map-places-file.js`, `upsert-docs.js`) | `places`, one activation per layer set | check a sheet, compare, write place by place, delete what is missing, ensure the activation; open and close the window | scripts that overlap or die, edits by hand between look and write | success means the collection is the sheet; the festival is on the map when the last command says so; what was accepted is served |
| Building search (`building/building.search.ts`, `building.controller.ts`, `building.data.ts`) | none | search buildings and rooms, group rooms, the floors and passages of a building | tiers, a limit per strength, counts next to a cut list | nothing better than an answer is missing from it; counts agree; a group opens |
| Authentication, rate limits (`common/firebase-auth.middleware.ts`, `common/rate-limit`) | library state | verify a token | upstream outage | left to the libraries |
| Process start, health (`main.ts`) | `isReady` | boot order, SIGTERM | none beyond the registry | |
| Home screen, campus banners (`ui/`) | two JSON files, checked once | resolve for an instant and a language | ids reported by taps, windows, texts that lack a language | what is accepted can be shown: words in every language, a name of its own, targets that exist |

Interactions: the crawler (another repository) writes notices and pings
`/internal/notices/dispatch`; the AI summariser writes `aiSummaryAt`, which
makes a notice eligible; the push function is an HTTP Cloud Function with an
abort timer (`common/fcm-client.ts`). Pollers write Mongo, replicas read it
through memory caches. `createCachedLoader` is the one cache used by buildings,
the event map and the mini-app manifests; ads and timetables keep caches of
their own. Operators work from the outside: they commit files that the start
checks, run scripts that write `places`, `bus_schedules` and the shapes, edit
documents by hand and send broadcasts, and no lock keeps any of that apart from
what the servers read meanwhile.

The hazards, one by one and with the line where each bites, are in
`PROJECT.json`.


## 2. Plan

The order is by what it costs users when it goes wrong: a push cannot be taken
back, a cache serves every screen, the rest degrades one view.

| Step | Module(s) | Abstract specification or reference | Runs | Theorems | State |
|---|---|---|---|---|---|
| 1 | `NoticeDispatch` | `PushOnce`, by refinement | dispatch, overrun, double_push | all its safety properties, and the refinement | done |
| 2 | `CachedLoader` | `TimedCache`, by refinement | cache | single flight, order, age, pace, and the refinement | done |
| 3 | `BuildingSync` | what the site offers, at rest | sync, sync_bump | all its safety properties, for one poller at a time | done |
| 4 | `BusPolling` | how old an answer may be | bus, bus_unguarded | age, steps back, the guard | done |
| 5 | `NoticePaging` | every unchanged notice once | paging | nothing skipped, nothing repeated | done |
| 6 | `EventMap` | `TimedCache`, by refinement of each cache | event | both lags, and the refinements | done |
| 7 | `MiniAppSend` | what reply, record and feed may say | operators | all three safety properties | done |
| 8 | `LayerSet`, `ServiceWeek`, `NoticeTabs`, `NoticeItem` | the answers refer to each other, the first day worth opening on | operators | of any structure file, service, notice and tab | done |
| 9 | `BusPositions` | where each bus was reported, the nearest bus behind a station | operators, etas | of any report | done |
| 10 | `PlacesFile`, `PlaceWire`, `CampusMap` | what was accepted is served, as it was traced | operators | of any file, and any shapes in any collection | done |
| 11 | `PlacesImport`, `Timetable`, `ShuttleTimetable` | what a script that reports success has achieved | operators | both properties | done |
| 12 | `Ads` | an answer is a minute old at most | operators | its property | done |
| 13 | `MiniApps`, `HomeScreen`, `BuildingSearch` | what the start accepts can be answered; nothing better is missing | operators | of any rooms, buildings and passages, of any registry, layout and banners | done |

`Operators` composes 7, 11 and 12; `MCAnswers` holds the questions of 8, 9, 10
and 13, and `MCOperators` puts both into one run. The other modules compose nothing: the parts of this system
meet in a collection each, and the collection is part of each model.

What comes next, in this order:

1. `BusPolling` with `BusPositions`: the lists themselves under the caches, with
   the list a combined process falls back on (`realtime.controller.ts:44`).
2. `BuildingSync` with two pollers: which of its properties a fail-over may
   break, and how long for.


## 3. The modules and the code

Time is discrete everywhere. It is kept as ages and as time left, never as
dates, so state spaces are finite without a horizon. A step of a module is the
code between two awaits, or one operation of the database; whatever may happen
between two of them - other requests, timers, crashes - happens between the
steps. `PROJECT.json` maps each definition to its lines; the
definitions it lists as mutants are not the code's: each is a plausible mistake
in the definition it stands next to, kept to show that a property notices it. No
specification uses one.

### NoticeDispatch - `src/src/notices/notices-dispatcher.service.ts`

A sweep of process `s` is `pc[s]`: *claim* (one `findOneAndUpdate` per
`ClaimNext`, its filter is `Claimable`), *dispatch* (the next group of equal
`dedupKeyOf`), *post* (the call is out, `postAge` is its age), *record* and
*skip* (the loop of `updateOne`s after a 2xx, and for a board without topics),
*release* (the catch block). `batch`, `group` and `todo` are the sweep's local
variables: claimed and not grouped, the group, and its members not yet updated.
`claimAge` is the age of `dispatchClaimedAt`. An update is filtered by `_id`
alone, so a sweep whose lease is over clears the claim of whoever took the
document; the model does the same.

The failures are those of the code's control flow. An `updateOne` that throws
inside the `try` goes to the catch block, which releases the whole group,
members already recorded included (`RecordFails`); one that throws outside it
ends the sweep (`LoopFails`, `ClaimFails`); each may or may not have been
applied. A call that fails may have been delivered (`PostFails`). A crash keeps
the documents and loses the rest.

`deliveries`, `lost` and `announced` are history for the properties. Left out:
the choice of the deep link, log lines, the counters in the reply. The order of
a batch is not modelled, since the claim query has no sort: groups are taken in
any order, and a topic union over the cap is cut arbitrarily (`Payloads`).

`PushOnce` is the promise without servers, leases and clocks: the function is
called for unsettled notices of equal content, and a notice is settled once,
after a call or for want of topics. `NoticeDispatch` refines it by forgetting
everything but `deliveries` and `pushed`.

### CachedLoader - `src/src/common/cache/cached-loader.ts`

The closure's variables are `value` with `freshLeft` and `staleLeft`,
`inFlight` and `generation`. A load is an element of `Attempt` with four
phases: sent, answered by the database, handled, and finally; `clear()` bumps
the generation under all of them. `get` is one step: a fresh value, an old one
with a reload behind it, or a wait for the load under way. `answers` holds the
answers of the last step with the order and age they had to respect.

`TimedCache` is the promise without requests, generations and phases: whether
there is a value, what is left of its two deadlines, and whether a load is under
way. Both `CachedLoader` and each cache of `EventMap` implement it.

### EventMap - `src/src/map/map-active-layerset.ts`, `map-event-overlays.data.ts`, `map-event-details.data.ts`, `map-config.data.ts`, `map-places.data.ts`

One cache of activations, and one cache per route above it. A route's load
first asks for the activation (`asks`: it may have to wait for the load below),
then reads the places. `/map/config` asks the lower cache alone and re-checks
`activeUntil` on every request. An activation is the ticks left until its end,
so time ends it without a write. `gone` counts how long no activation has been
live, `quiet` how long ops have changed nothing.

### BuildingSync - `src/src/building/building.sync.ts`, `building-sync.service.ts`

The phases of `syncBuildings` are `pc[p]`; each bulk write is unordered and may
be applied in part (`raw`, then `buildings`, then `spaces`, and the details'
spaces before the list's). `spaces` holds the age of each document's stamp
`syncedAt`; the stale delete removes what is older than this sync's stamp. `torn` remembers the buildings
whose raw document was written while the enriched write was lost: phase 1 never
sees them again. `met` and `partial` are history: what this sync upserted, and
whether one of its answers was missing or short.

### BusPolling - `src/src/scheduling/poller-registry.service.ts`, `bus/fetchers/*`, `bus/cache/bus-cache.service.ts`

One key. `Fire` is the interval's callback; whether the guard `inFlight` holds
until the run is over depends on `Awaited`, and the code's fetchers give no
promise, so the configurations set it to FALSE. A run is a slot: asked,
answered, writing. The write is not awaited and may land late, up to
`WriteTime`. A copy of the data is its age (`doc`, `mem`, the reads under way);
`Expire` is the TTL monitor, which comes up to `DocSlack` after the lifetime.
`past` is history: the age of the newest data answered until now, and until each
of the last ticks, as many as a read and the memory entry may last (`Lag`).

### NoticePaging - `src/src/notices/notices.data.ts`, `notices.cursor.ts`, `notices.controller.ts`

A page is one query: sort by date and `_id`, both descending, after the cursor,
one more than the limit to know whether there is a next one. Between pages the
crawler and the summariser insert, edit, delete and retype notices (`touched`
is whatever was changed since the scroll began). `LimitOf` is the clamping of
`?limit=`, zero and "not a number" included.

### MiniAppSend - `src/src/miniapps/miniapps-notifications.service.ts`

A send is *insert*, *post*, *record*, *done*; only the call is inside the `try`
whose failure is replied as "undelivered". The gateway has its own timer and
may tell ops nothing (`unknown`). Ops repeat an announcement when no send of it
is unanswered or replied as delivered. Sends are numbered by `sentAt`, which
the code takes before the insert, and the feed is sorted by it.

### LayerSet, ServiceWeek, NoticeTabs, NoticeItem, HomeScreen, MiniApps, BuildingSearch

Pure functions, each as operators on records. `LayerSet` is
`assertValidConfig` with the layers, chips, markers and details built from an
accepted structure file; `ServiceWeek` is `resolveWeek` and
`resolveSmartSchedule`; `NoticeTabs` is what `tabconfig.service.ts` accepts and
serves; `NoticeItem` the deadline, the summary and the edit mark of a notice
(`notices.transform.ts`). `HomeScreen` is the check of the home layout and of
the campus banners, and what a request resolves of them for an instant and a
language. `MiniApps` is the registry's check and the shell of a detail: the
default, the registry's fields, the manifest's, in that order, whatever the
manifest's two fetches brought. `BuildingSearch` keeps the tiers, the two
limits, the counts beside a cut list and the groups; how the query occurs in
each field of a document is the document.

### BusPositions - `src/src/bus/registry`, `fetchers/*`, `realtime`, `station`

What a poll makes of an upstream answer: buses without a station, late reports
and turned-over sequences dropped, the Jongro times kept per station and the
HSSC times per line and stop from one poll to the next; then the arrivals, the
list a client gets and the sentence about Hyehwa. `BusPolling` carries such a
list as its age only.

### PlacesFile, PlaceWire, CampusMap - `src/scripts/lib/map-places-file.js`, `src/src/map/map-event-*.data.ts`, `map-campus-overlays.data.ts`

The two sides of one promise, translated apart. `PlacesFile` is the importer's
parser, `PlaceWire` what the server draws and answers of a stored place; each
has its own rules about addresses, actions, texts and geometries, as the code
has. What a category is presented as (its layer, whether it can be tapped,
whether the tap runs a chip) comes from the structure file, which the importer
never looks at: the server decides by it whether a place has a sheet. A text is
the one language a Korean would read. `CampusMap` is the same for the permanent
shapes, with the buildings that are drawn beside them and either of the two reads
failing.

### PlacesImport - `src/scripts/import-eventmap-places.js`, `eventmap-window.js`, `lib/upsert-docs.js`

A run of the importer looks for orphans, then for places that differ (*diff*),
writes those one by one (*write*), deletes the orphans it had found (*delete*)
and makes sure that there is an activation (*ensure*). `others` are the places
somebody else wrote since it looked. The window commands look the activation up,
then update it. `promised` is what the last command that opened had said.

### Timetable, ShuttleTimetable - `src/scripts/set-campus-schedule.js`, `lib/campus-schedule-file.js`, `src/src/bus/schedule/*`

`Timetable` is the file: what is accepted, the documents made of it, the
differences the script sees. `ShuttleTimetable` is the script, document by
document with its read-back, and replicas that make a week of what a query has
read and keep it for an hour from then on. `settled` remembers the last VERIFIED until
somebody writes again.

### Ads - `src/src/ad/*`

Per process the picked ads and the time their read was asked for; per client
the read under way: when it was asked for, and what the database found (`pick`).
Finding (`FindAds`) and keeping (`Keep`) are two steps, with edits, ticks and other
reads between them, so an older read may be kept in place of a newer one. An ad is its place in the collection, where a removed one
stays behind as gone. The start of a process - the unique index, the count, the
seeds one by one - is modelled with the crash in between.

### MCAnswers, MCOperators

`MCAnswers` chooses a question and an input; its invariants are the modules'
claims about the answer. The inputs have the shapes the modules name
(`InputsInShape`), and those shapes are all that the proofs take from them.
`Operators` brings together `MiniAppSend`, `PlacesImport`, `ShuttleTimetable`
and `Ads`. They share no state of the program, so nothing is gained by
interleaving them: a behaviour is one of one part, chosen at the start, and the
other parts keep still. `MCOperators` runs it together with the questions.
`Sift(list, Keep)` is `Array.filter` and `SortedByNumber` a stable `Array.sort`,
both by place, for what is proved about: the library's `SelectSeq` and `SortSeq`
are recursive inside. `HomeScreen` says of ids by quantifiers over sections and
items that they are apart, where the code fills a set as it goes; and
`PlaceWire` adds up a ring's area as a function of the place reached.


## 4. The runs

| Run | Module and configuration | Question | Answer |
|---|---|---|---|
| dispatch | `MCNoticeDispatch`, `MCNoticeDispatch.cfg` | With a lease that outlasts a sweep, can two processes get into each other's way, whatever fails? | No: no notice in two sweeps, none pushed after its record, repeats only for lost records, at most `MaxAttempts` deliveries and one more for each crash or failed write that ended a sweep; it refines `PushOnce`; every notice is settled in the end |
| overrun | `MCNoticeDispatch`, `MCNoticeDispatch_overrun.cfg` | What is left when sweeps outlive their leases, as production's settings allow? | A record still means a delivery to the notice's own topics; at most one delivery per process beyond the lost ones |
| double_push | `MCNoticeDispatch`, `MCNoticeDispatch_double_push.cfg` | Is the claim alone enough against double dispatch? | No (violation) |
| cache | `CachedLoader`, `CachedLoader.cfg` | Do loads, `clear()`, outages and slow queries keep the cache right? | Yes: one load, answers in order (but for those of dropped loads) and of bounded age, spaced loads, every request answered, current again after an outage |
| event | `EventMap`, `EventMap.cfg` | How far may answers built over two caches lag? | One cache for the configuration, two for the routes; exact when an unedited window ends |
| sync | `MCBuildingSync`, `MCBuildingSync.cfg` | Does a crash or a failed request ever cost data, and is it made good? | Nothing met is deleted, nothing offered is deleted unless an answer was short, and the collections converge - except what `sync_bump` shows |
| sync_bump | `MCBuildingSync`, `MCBuildingSync_bump.cfg` | Does bumping `ENRICH_VERSION` enrich every building again? | No (violation) |
| bus | `BusPolling`, `BusPolling.cfg` | How old may positions be, and how far may they go back? | Bounded by the lifetimes; back by a fetch and its write at most, and by one read and memory entry where reads overlap; fresh again after an outage |
| bus_unguarded | `BusPolling`, `BusPolling_unguarded.cfg` | Does the registry skip a tick while a run is pending? | No (violation) |
| paging | `NoticePaging`, `NoticePaging.cfg` | Does an endless scroll lose or repeat notices while the list changes? | No notice that nobody changed |
| operators | `MCOperators`, `MCOperators.cfg` | Can what operators commit, send, import, bring in or switch mislead the app or themselves? | No: accepted files give consistent answers for every combination of the inputs; replies and feed are honest; a script that reports success has achieved it; an ad is a minute behind at most |
| etas | `MCAnswers`, `MCAnswers_etas.cfg` | Does every arrival stand at its own station? | No (violation) |

### Bounds, and why they are enough

*dispatch*: two processes, one of them the poller; two articles with different
content on boards with a topic each; `BatchCap` 2, `Timeout` 1, `Lease` 2 - the
smallest values with `BatchCap * Timeout = Lease`, so a batch of two calls ends
exactly with its lease; `MaxAttempts` 2, so an attempt is both retried and
given up; one crash or failed write that ends a sweep (lost answers and failed
records are not counted). Longer leases, more processes and larger batches are
what the proofs are for.

*overrun*: one article cross-posted to three boards, one of which has no topic, so
that a family may be split over sweeps and a part of it needs no call; a lease of zero, which any wait outlives; one attempt; no
crash, since every delivery already races. The processes are interchangeable
(neither fairness nor a liveness property mentions the poller) and used as a
symmetry set.

*double_push*: *dispatch* with a lease one tick too short, no crash and no failed
write that ends a sweep.

*cache*: `TTL`, `StaleWindow` and `MaxLoad` of one tick give every order of the
three deadlines; the source changes twice, so old, newer and newest differ; two
callers and two loads, one `clear()` - the generation that is dropped and the
one that follows. The zero window is a case of its own in the code and is
covered by the proofs, which take any `StaleWindow`.

*event*: one route. Routes do not touch each other's caches, they only share
the lower one, whose loads the route's own loads and `/map/config` already
overlap; the proofs take any set. `MaxLeft` 2 lets an activation end while it
is cached, while it is loaded, and after both.

*sync*: one process (fail-over is discussed in section 7), two buildings of
which one is a facility without details, one space known from both sources and
one from the details alone, two versions of a building, two of the build, two
faults - a second one while the first is being made good. *sync_bump*: one
fault, one version.

*bus*: a run - fetch and write - takes up to an interval, as HSSC's may (10 s and
10 s), so two overlap and the older one's write may land last; two requests read
side by side. Positions then do go back: `BackwardsBounded` is tight, TLC refutes
it with the write's time left out, or with `past[0]` for `past[Lag]`, that is
without the allowance for overlapping reads. `EventuallyFresh` needs a document
that outlives an interval and two runs, and its bound counts the run twice:
with once, TLC shows a late older write followed by a full run. A read takes no
tick here; `ReadTime` = 1 (3 million states, with an interval of 1) gave the same
for the two invariants, and the proofs are for every value. `Oldest` is above the
sum of all lifetimes, at which ages stop counting. *bus_unguarded*: HSSC's relation, interval equal to
the fetch timeout.

*paging*: four notices on three days, one before the service's start date; two
changes; limits 0, 2 and none, which the code turns into 1, 2 and 3.

*operators* has the bounds of its five parts. Broadcasts: three sends of three
announcements, one malformed: enough for a repeat of a repeat and for a newer
announcement to push an older one out of a feed of one. The import: two runs of
the importer, so that they overlap, two window commands, two places of which a
sheet may lack one, one edit by hand, and one tick of the clock, in which a
window ends. The timetable: two runs of the script, one replica of one service
(replicas and services share nothing), two weekdays, three files of which one is
refused, a cache of one tick in a clock of two, one edit by hand. The ads: two
processes, two clients whose reads overlap, a minute of two ticks in a clock of
two, and one edit: enough for a read asked for at 0 to find its ads, be overtaken
by one asked for at 1, replace it, be served within its minute and be too old at
2. The questions have no behaviour: a question is asked
once, and the sets of inputs, which are in `MCAnswers`, are the bound: two
layers, chips and facets with ids that clash, are missing or are reserved;
overrides, holidays, suspensions and patterns around a week's ends; departments
of which pickers name any; registries, manifests and both fetches; two reports
of a bus and stops around the turning point, at ages around each limit; places
and shapes with every kind of one or two mistakes, under categories that open a
sheet, run a chip or cannot be tapped; three rooms under limits of
two and one. Processes `r1` and `r2`, and the clients, differ in nothing but
their names and are symmetry sets. The parts use up their bounds, hence `CHECK_DEADLOCK FALSE`.

*etas*: the arrivals at a route of three stations, with and without a name that
occurs twice.

### Fairness

Only what the code's own timers and drivers make happen is fair, and weakly:

- `NoticeDispatch`: the poller's `setInterval`, the steps of a sweep (a database
  call is answered or throws, a function call ends with its abort), and time.
  No ping, no crawler, no summariser and no fault is fair; an api replica may
  never sweep.
- `CachedLoader`, `EventMap`: a query is answered or times out, callbacks run,
  time passes. Requests are not fair; where a property needs them, it says so
  (`EventuallyCurrent`, `CatchesUp`).
- `BuildingSync`: the weekly timer and the steps of a sync, whose requests time
  out. Faults are bounded, so `Converges` is about what follows the last.
- `BusPolling`: the container's restart policy, timers, calls, the TTL monitor.
  `EventuallyFresh` assumes that upstream is healthy and the process up for good.
- `NoticePaging`: a client that keeps asking, with one limit.

The parts of *operators* state no liveness: people start what happens there, and
nothing repeats a script that died.

### Mutants

Every property of a passing run has a plausible mistake in the code that breaks
it: a filter without the lease, a release that clears `pushedAt`, a load that
stays in its slot, a stale delete that takes what is as old as the sync itself,
a cursor that repeats its item. `PROJECT.json` lists them with the definition each
replaces.


## 5. The proofs

A theorem speaks of all values of the constants the module's assumption allows,
and of behaviours of any length. Further conditions are hypotheses of the
theorem, never assumptions of the module.

| Module | Theorem | Says | Under |
|---|---|---|---|
| `NoticeDispatchProofs` | `TypeCorrect` | types, batch within the cap | |
| | `LeaseExcludes` | `ClaimsDisjoint` | `LeaseCovers` |
| | `NoRepushWithinLease` | `NoRepush` | `LeaseCovers` |
| | `ClaimsKept` | `HeldIsLeased` | `LeaseCovers` |
| | `DeliveriesStayCapped` | `DeliveriesCapped` | `LeaseCovers` |
| | `SettledIsAnnounced` | `PushedMeansAnnounced` | `UnionFits` |
| | `RepeatsExplained` | `DuplicatesExplained` | `LeaseCovers` |
| | `RepeatsBounded` | `DuplicatesBounded` | finitely many processes |
| | `DispatchImplements` | `ImplementsPushOnce` | `LeaseCovers` |
| `CachedLoaderProofs` | `LoaderTypeCorrect` | types | |
| | `OneLoadAtATime` | `SingleFlight` | |
| | `AnswersAreOrdered` | `AnswersInOrder` | |
| | `AnswersInTime` | `AgeBounded` | |
| | `LoadsAreSpaced` | `LoadsSpaced` | |
| | `LoaderImplements` | `ImplementsTimedCache` | |
| `BuildingSyncProofs` | `TypeCorrect` | types | |
| | `MetAreKept` | `MetSpacesKept` | `OnePoller` |
| | `OfferedAreKept` | `LiveSpacesKept` | `OnePoller` |
| | `Phase1IsThorough` | `Phase1Enriches` | `OnePoller` |
| `EventMapProofs` | `TypeCorrect` | types | |
| | `ConfigIsBounded` | `ConfigFollows` | |
| | `RoutesAreBounded` | `RoutesFollow` | |
| | `CachesImplement` | `CachesAreTimed` | |
| `BusPollingProofs` | `TypeCorrect` | types | |
| | `AgesBounded` | `AgeBounded` | `WriteInTime` |
| | `StepsBackBounded` | `BackwardsBounded` | |
| `NoticePagingProofs` | `PagingTypeCorrect` | types | |
| | `NothingSkipped` | `NoneSkipped` | |
| | `NothingRepeated` | `NoneRepeated` | |
| `OperatorsProofs` | `SendTypeCorrect` | types of a send | |
| | `PushedAlwaysListed` | `PushedIsListed` | |
| | `RepliesAlwaysHonest` | `RepliesHonest` | |
| | `NeverRepeatedForTheRecord` | `RepeatedUnheardOnly` | |
| | `CommandsAlwaysLand` | `CommandsLand` | |
| | `ScheduleAlwaysServed` | `ScheduleServed` | |
| | `AdsHold` | `AdsAsSwitched` | `AdsAssumption` |
| | `ImportedOfAnyFile` | `ImportedIsServed` | shape of the places, of the shapes |
| | `ImportedAlwaysServed` | the same, in every state of `AskSpec` | `InputsInShape` |
| `AnswersProofs` | `FestivalOfAnyFile` | `FestivalResolves` | shape of the file |
| | `NextOfAnyDocument` | `NextShown` | shape of the service, of the notice |
| | `BusesOfAnyReport` | `BusesWhereReported` | shape of the reports; times not ahead of the clock |
| | `EtasWhereNamesDiffer` | `EtasAtTheirStations` | a name fits the station of its id alone |
| | `SearchOfAnyCollection` | `BuildingsFound` | shape of the documents |
| | `RegistriesOfAnyFiles` | `RegistriesServe` | shape of the tab, the registry, the layout |
| | `AnswersAlwaysHold` | the five, in every state of `AskSpec` | `InputsInShape` |

**Dispatch.** `LeaseCovers` is `BatchCap * Timeout <= Lease`. Production does not
satisfy it: 200 documents at up to 30 s against a lease of five minutes. The
theorems say what the design promises where it holds - a cap of ten, a renewed
lease, or a call bounded to 1.5 s - and the run *double_push* what happens
where it does not. `ClaimsDisjoint` is not inductive: it must be known that a
held document's lease has not run out. `LeaseInv` bounds the age of each held
claim by the time its sweep can have spent, `Spent(s)`: every call took at least
one document out of the batch, so no more than `BatchCap` minus what is left
are over, and one may be under way for `postAge` ticks. Steps are split into
what moves (`OnlyMoves`) and which documents it touches (`Touches`), so that a
sweep that takes no part keeps its half of the invariant by one lemma. The time
bound is non-linear, and gets lemmas of its own (`OneMoreCall`,
`MoreDocuments`, `NewBounds`). `CapInv` adds that a held notice has an attempt
left. `PaidInv` keeps the account of deliveries: each is counted in
`pushAttempts`, ended in a fault, or its sweep is about to count it; a call is
made for a notice all of whose deliveries are counted, by `ClaimsDisjoint`. `AnnouncedInv` needs no lease: a sweep's own variables tell it what its
call named, and nothing is ever taken out of `announced`. `UnionFits` says that
the boards of one article fit into a call.

The refinement needs `OnceInv` on top: what a sweep knows of its group (equal
content; delivered, if it is recording; no topics, if it skips) and that a
delivery beyond the lost ones is recorded or about to be (`Counted`). Each step
is then an abstract delivery, an abstract settlement, or invisible.

`RepeatsBounded` needs no lease at all. `CopyInv` counts, per notice, the
deliveries against the calls that were lost and the processes that may still add
one: before the notice is recorded, deliveries are at most the lost ones plus
the sweeps that are about to record it; once it is recorded no sweep claims it
again, and deliveries plus the sweeps that may still call are at most the lost
ones plus the number of processes. A step's effect on these sets is one of
a few fates, and each fate keeps the sum.

`ClaimsKept` states what a sweep may rely on while it holds a notice
(`HeldIsLeased`); it is what `NoRepushWithinLease` rests on and no run checks it
by itself.

**Cached loader.** `SlotInv`: `inFlight` is the one running load of the present
generation. `OrderInv`: the value, what a load has read, and what a waiter is
owed are ordered by version, where a dropped load may hold an older one, but
can no longer store it. `AgeInv`: a copy of the source is as old as the places
it has been kept at, for the value, each load and each waiter. `PaceInv`: what
is left of the value's freshness and what has passed since the last load add up
to the TTL at least, or a failed reload has left the value the rest of its
window.

**Building sync.** `OnePoller` says that one process runs the weekly timer, which
is so but for a fail-over; section 7 says what two may do. `StampInv`: what a sync has met carries
its own stamp, so its delete, which takes older ones, passes it by.
`OfferedAreKept` needs to know, phase by phase, where a space that the
university offers and the sync has not stamped yet is going to come from:
`Ahead(p)` puts it into the answers still to be read, then into the operations
still to be written, and at the delete nowhere, unless an answer was short.
`KnownInv`: what was ever stored is known from the list or from a listed
building. `Phase1IsThorough` rests
on `WholeInv` - a building's two documents go together, or it was torn, or a
sync is enriching it - and on `DiffInv`, which says of the buildings a diff left
out that they are stored as they were given, by this build.

**Event map.** `WaitInv` ties whoever waits for the lower load to its age,
`DocInv` ties the document to the two clocks, `ActInv` and the value's bounds
give one cache's lag, `RouteInv` adds one more for the cache above. A load that
waited has its age counted from its own start, which is what makes two
caches' worth of lag, and not three, the bound.

**One cache, two models.** `CachedLoader` follows a load through its four phases,
among requests and `clear()`; `EventMap` chains several caches and gives a load
three. That both are models of the same closure is not left to their reader:
`TimedCache` is what the closure promises to a module built on it - when a load
may begin, what its end does to the clocks, what time does - and both are proved
to implement it, for all values of the constants. For the loader, a load counts
until its handler has run, and one that `clear()` dropped does not: `SlotInv`
says that what is left is the load in `inFlight`, so a settled or dropped load is
invisible (`SlotUnmoved`, `SlotTaken`). For the chain, the step that ends a load
of the activation may also end or start loads above it; each slot takes one step
of its own (`SettleEnds`, `AskBegins`). No run lists these two; TLC agreed on
small instances of both before they were proved.

**Bus.** The ages of a run's data, of the document, of a read and of the memory
entry are each bounded by what comes before. `WriteInTime`, a write takes no
longer than a document lives, is needed because the write is not awaited.
How far an answer may go back needs no assumption on the interval. A write that
lands is at most a fetch and a write old, and so is near (`Near`) to whatever has
been answered; the document is near to all that has come from it, and what a
request has read, like the memory entry, is near to what had been answered before
that read was sent (`BackInv`; `past` says what that was).

**Paging.** The cursor is the place of the last item shown; everything
unchanged before it has been shown once, and nothing unchanged after it has.

**Mini-app.** `StageInv` and `CallInv` relate a send's stage to its call, its
entry and its reply; `RepeatInv` says that a send of the same announcement
starts only after a reply to the earlier one.

**Import.** What a run will still change is bounded by what it saw: a place that
differs from the sheet is on the run's list, or somebody else wrote it since
the run looked; once its list is empty nothing else differs, and the same for
the orphans. A run that dies leaves the collection to the next. For the
activation: the command that writes last is the one that is remembered, in the
same step.

**Timetable.** `LoadsInv`: what a run writes is an accepted file. `SettledInv`:
from VERIFIED until the next write, the collection holds of the services the file
declares exactly what the file says. `WeekInv`: a week made by a replica in that
time, read or kept, is made of the documents of that file.
A week made before VERIFIED may mix two files: the property and the
invariant leave it out, and the cache drops it within its window.
`ScheduleServed` was found too strong by its own proof: a service the file does
not declare is not the script's to settle, and the property now speaks of those
it declares. The script matches that: it refuses to leave strays of a declared
service and does not look at others.

**Ads.** What a read has found is *right* for the time the read was asked for,
from the moment the database evaluates it, while it is still under way and when it
is kept: its ads were in their windows then, on or switched since, and no placement
that had an ad on is empty. It stays right for that time whatever ops do later
(`StaysRight`), so it does not matter which of two overlapping reads is kept
last; the cache is used for a minute after that time, and no longer. The seeds:
once the index exists, no two ads have a placement and a name in common, and an
insert that would make it so is refused.

**Answers.** These have no steps that matter: a theorem takes any document of
the shape the code reads and shows what the answer owes. The shapes
(`IsConfig`, `IsService`, `IsNotice`, `Report`, `Position`, `IsRooms`,
`IsBuildings`, `IsPassages`, `IsCategory`, `IsRegistry`, `IsLayout`, `IsPlace`,
`AreShapes`) say which fields there are and of what kind, not
how many there are or which values they have; TLC evaluates them on every input
of the run (`InputsInShape`), so no theorem speaks of documents that do not
exist. `NothingApart` says that null is none of the things it stands beside.

- *Filters.* `Array.filter` is `Sift`: the k-th place kept is the one that has
  k places kept up to it. That there is one for each k up to their number is
  `NthPlace`, the lemma everything with a list rests on; it counts the places
  by cardinalities, since induction over a sequence is out of reach.
- *Festival.* Ids that are unique name one thing; windows whose neighbours in
  the order of their starts do not overlap leave no instant to two options,
  since a counterexample would have a closest pair.
- *Week, notice.* The first day found in this week, or else in the next, is the
  least of both; the deadline chosen is the nearest ahead, or the latest past.
- *Buses.* "The second closest" is the bus with one before it in a strict order;
  that it exists and that nothing lies between it and the first is `Placed`, the
  ranking of a finite set by any strict total order. So "so many stops away"
  leaves no bus out, also where `findNextApproachingBusEta` passes over the last
  station. An arrival is found by its name, which the run *etas* shows to be wrong;
  `EtasWhereNamesDiffer` says that a name that does not tell its station is all
  that can go wrong there.
- *Search.* A band with a row missing is as long as its limit, and no row of it
  is below a missing one (`BandOf`); the first band is exactly the rooms whose
  code begins with the query (`RoomScore`), since the score is the first tier's.
  Rows of one building are one group because the first of them is where the
  group begins; the order of the groups is that of these firsts. Floors that
  ascend from neighbour to neighbour ascend throughout: the least floor out of
  order would have a neighbour before it. The floor numbers are below 1000, as
  the keys of roof floors in `floorSortKey` need them to be.
- *Registries.* A picker that was accepted seeds only what it offers, and within the
  limit where defaults and a campus list are both given: the sources the server knows are sifted, and the seed is among them.
  The list of mini apps is the index in order, since the k-th of it is the one
  with k - 1 before it (the ranking again). A shell is whole because the default is, and each layer over it names
  only allowed values. Of a home layout the windows decide what is shown at a
  moment: a carousel that has only banners out of their windows disappears, and
  what is left is sifted from what was checked, so its ids are still apart
  (`ShownFrom`: every banner sent is one of the file, at a place that grows).
- *Imported.* The theorem is in `OperatorsProofs`, beside the import itself, and
  uses the lemmas on lists of `AnswersProofs`. The importer and the server each
  have their own rules about links, texts and geometries; `ValidIsDrawable`,
  `BlockUsable` and `ActionUsable` say rule by rule that the first is no weaker
  than the second, so nothing of a sheet is sifted out (`SheetWhole`), and a sheet
  is answered exactly where the category's tap opens one (`ServedWhole`). A
  marker's buttons are another matter: `ButtonUsable` says that the server keeps
  one exactly when its route, page or address can be opened, and `ButtonsKept`
  that those go out in their order. A ring comes out counter-clockwise or, as a hole, clockwise,
  and is the ring that was traced, forwards or backwards. That needs the area of
  the ring taken backwards to be the opposite (`AreaReversed`): the crosses of
  its edges change their sign and come in the reverse order, and sums met from
  the two ends agree (`SumsAre`). The area is a recursive function; that there
  is one (`SumsExist`) and that two of them agree is shown by the least place
  where they would not, which the prover can do where it cannot do induction.

Only model-checked: everything under fairness (`EventuallyResolved`,
`EveryCallAnswered`, `EventuallyCurrent`, `Converges`, `EventuallyFresh`,
`ScrollEnds`, `RequestsAnswered`, `CatchesUp`), which the prover cannot do.
Every safety property of a passing run is a theorem. What a recursive definition
computes for every input would need induction over data, which is out of reach;
the one recursion that is proved about is the area of a ring, by the least
counterexample instead.


## 6. Where code and description differ

1. **A sweep can outlive its lease** (*double_push*;
   `notices-dispatcher.service.ts:361`). The whole batch is claimed first,
   then dispatched call by call. With two calls and a lease a tick short of
   them, the other process claims the second notice when its call has been
   answered and the record is still to come; the first process records it, and
   the other one - which checks nothing again - starts a call for it. Whether
   the record reports success or (as in some of TLC's traces) an error after it
   was applied makes no difference. `NoRepush`, which also sees calls that run
   side by side, fails there too.
   `notices-dispatch.poller.service.ts:25` says that single flight and the
   atomic claim "prevent double-dispatch". `config.ts` picks the lease as ten
   times one call's timeout, which is the right comparison for a batch of ten.
2. **A lost enrichment stays lost** (*sync_bump*; `building.sync.ts:133`).
   Between the raw and the enriched bulk write a crash leaves a building that is
   neither changed (the raw layer is current) nor stale (there is no enriched
   document to carry an old `enrichVersion`). It stays missing until its source
   changes, also after the bump that is meant to enrich everything again. For a
   building already stored, the old enrichment stays but the bump does heal it.
3. **The guard of the registry guards nothing** for the bus fetchers
   (*bus_unguarded*; `hssc.poller.service.ts:65`). They are registered as
   functions that start the update and return nothing, so `inFlight` is cleared
   at once, and runs overlap as soon as one takes an interval - HSSC's timeout
   and interval are both 10 s. Overlapping runs may write in either order.

4. **An arrival may stand at another stop of the same name** (*etas*;
   `realtime.transforms.ts:65`). The service's entry is put at the first station
   of its name, so of two stops of one name, one on each way, the first gets both
   arrivals and the second none. Route `jongro02` has five such pairs; the entry's
   `stId`, which the poller keeps, would tell them apart. `EtasWhereNamesDiffer`
   proves that nothing else is wrong: the names of `jongro07` all differ, and there
   every station has its arrival.

Facts the models show without a run of their own:

- A record that comes after the sweep's lease clears the claim of whoever took
  the document over, since no update names its claimant: without `LeaseCovers`,
  `HeldIsLeased` does not hold.
- Two syncs overlap for the length of a fail-over. The stamp of a space is then
  the one written last: if the older sync writes it after the newer, the newer
  one's stale delete takes a space both have met. The next sync restores it.
- An answer of a load that `clear()` dropped may be newer than a later answer: it
  goes to those who asked before, and the load that replaced it may have read
  first. `AnswersInOrder` leaves such answers out.
- The layers and the markers of a festival do not disappear together: the
  configuration ends with the clock, the routes' answers with their cache
  (`map-active-layerset.ts:13-16` says they "appear and disappear together").
- "Delivery: null" on a feed entry is called "published, not delivered" where
  it is set (`miniapps-notifications.service.ts:58-59`). A call that was aborted
  may have been delivered all the same.
- The gateway gives up after 30 s, which is also the call's timeout, so ops
  usually see a gateway error instead of "undelivered".
- The seed of a campus is held to `maxSelection` only where the tab has
  `defaultIds` (`tabconfig.service.ts:219-227`), and those alone not at all, though
  `tabConfig.ts:168-170` wants the limit to hold "for every campus selection".
  `RegistriesServe` claims the limit only where both lists are given; none of the
  shipped categories exceeds it.

Facts met while reading for the models:

- `station-eta.ts` counts the stops to Hyehwa with sequence 6 of its own list of
  ten; in the poller's list of eleven, 혜화역 is the seventh. Where a bus that has
  stood there for a minute is followed by one that has just come, the sentence
  says "0 정거장 전" (no stops away) of a bus that is there, and a bus at the
  tenth station is stepped over only once.
- A HSSC bus that stands for more than ten minutes is dropped from the list, and
  listed as new by the next report. The Jongro times are kept per station, so a
  second bus at a station inherits the first one's.
- `set-campus-schedule.js --check` says OK of a document that differs in an
  entry's `index`, in the order of its entries or in fields of its own
  (`diffEntries` compares by key); a run that writes says "Nothing to do" of it
  and then fails its read-back.
- A comment in `map-event-overlays.data.ts` says that the importer refuses an
  authored `hours` facet; `asFacets` checks the shape alone.
- A sheet of a category that cannot be tapped, or whose tap runs a chip, is
  accepted by the importer, which does not look at the structure file, and dropped
  by the server with a line in its log (`map-event-details.data.ts:298-307`).
  `ImportedIsServed` claims a sheet only where the tap opens one. The route,
  page or address of a button is any text to the importer
  (`map-places-file.js:180-212`); one the server cannot open is dropped likewise.
- `isRenderable` asks whether `fields` is a list, not what is in it: a field typed
  by hand without its label throws in `toWire` and takes the whole route with it.
- `db.ts` says that hot reads are capped with `HOT_READ_MAX_TIME_MS`; the
  schedule's queries have no cap.
- The importer of shapes accepts a `layerId` that is no base layer: the shape is
  stored and never drawn. Buildings whose coordinates are all unusable give an
  empty answer that is not marked degraded.
- `building.search.ts:350` calls the order of the search total; its last key,
  `spaceCd`, is not unique. `BuildingSearch` lets ties fall either way.
- `notices.topics.ts` still uses the older loader `tabConfig.ts` beside
  `tabconfig.service.ts`.
- A crash within the `insertMany` of `seedIfEmpty` leaves a part of the default
  ads, and no later start completes it. An event that names no ad is matched to
  the ad the answering process keeps, which need not be the one that was shown.
  While reads fail, the ads kept are served without a limit of age.
- A summary's `endTime` that is no time makes the end of its period NaN, and the
  order among passed deadlines undefined (`Latest`).


## 7. What is not modelled, and why

- **Authentication, rate limits**: library state behind one call.
- **Process start, health**: one pass without concurrency; what of it matters to
  others is in `Ads` (index, seeds) and `BusPolling` (`startAll`).
- **One-off scripts, the monitoring script**: run once, or they only read.
- **Texts**: translations, the labels and sentences of answers, the wording of
  `building.enrich.ts`; colours, cameras and styles of the map. Where a text
  decides something - a missing language, a name shared by two stops, whether a
  query occurs - the case is in the model and the characters are not.
- **Attachment proxy, application configuration, the lists of buses and the
  scroll**: a stream passed on, and constants.
- **The list a combined process falls back on** (`realtime.controller.ts:44`):
  production runs the roles apart, where the list is empty.
- **Campuses and room numbers**: `BuildingSearch` takes it that a building's
  number determines its campus, as in the data.
- **Edge and device caches** (`Cache-Control`): they add their own age to every
  answer; the bounds here are the origin's.
- **Two syncs at a time**: `BuildingSync` takes a set of processes, its run uses
  one. With two, `MetSpacesKept` does not hold (section 6).
- **MongoDB**: one document's update is atomic, a bulk write is not, a reader
  sees what was written (reads go to the primary). A failed operation may have
  been applied.
- **Clocks**: taken to run alike in all processes. `dispatchClaimedAt` and the
  lease are compared across processes; a skew shortens the lease by as much.
- **The push function**: external. It may deliver whether or not it answers,
  and delivers at most once per call.
