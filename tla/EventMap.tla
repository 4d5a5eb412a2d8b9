------------------------------- MODULE EventMap -------------------------------
(***************************************************************************)
(* The festival on the map, in one replica: which layer set is live is     *)
(* read through a cache, and the marker and place detail routes keep their *)
(* whole answers in caches above that one.  A route's load first asks for  *)
(* the activation, maybe waiting for the load below, and only then reads   *)
(* the places.                                                             *)
(*                                                                         *)
(* CachedLoader has the steps of one cache; here a load is sent, reads and *)
(* ends, and whoever awaited it goes on in the step that ends it, for they *)
(* are microtasks of one callback.  Nothing calls clear() outside tests.   *)
(*                                                                         *)
(* An activation is the ticks left until its activeUntil: Open has none,   *)
(* Over ended too long ago to matter, or is disabled, or is no document.   *)
(* Which layer set it names is left out.                                   *)
(***************************************************************************)
EXTENDS Integers, FiniteSetsExt

CONSTANTS
    Route,     \* the routes with a cache of their own: overlays, details
    None,      \* no cached value
    Failed,    \* the outcome of a load that rejects
    TTL,       \* EVENT_CACHE_TTL_MS, in ticks
    Window,    \* EVENT_STALE_WINDOW_MS, in ticks
    MaxLoad,   \* HOT_READ_MAX_TIME_MS: longest a query takes
    MaxLeft    \* bound: ticks left when an activation is written

ASSUME EventAssumption ==
    /\ TTL \in Nat \ {0} /\ Window \in Nat \ {0}
    /\ MaxLoad \in Nat /\ MaxLeft \in Nat \ {0}
    /\ "activation" \notin Route /\ "config" \notin Route
    /\ None # Failed
    /\ None \notin Int \cup {"yes", "no"} /\ Failed \notin Int \cup {"yes", "no"}

Cache == {"activation"} \cup Route
Surface == {"config"} \cup Route

Over == -(MaxLoad + 1)
Open == MaxLeft + 1
Activation == Over .. Open

VARIABLES
    activation,  \* the document ops edit
    up,          \* queries succeed
    val,         \* what each cache holds
    fresh,       \* ticks left until freshUntil
    stale,       \* ticks left until staleUntil()
    pc,          \* each load: idle, asks (the activation), sent, read, ended
    age,         \* ticks since it was started, since its query went out
    got,         \* what it read
    waits,       \* surfaces with a request that awaits a load
    asked,       \* ticks since the request to /map/config took its now
    \* for the properties only
    said,        \* what each surface last answered in this tick
    gone,        \* ticks since the activation was last live
    quiet        \* ticks since it was last edited

cacheVars == <<val, fresh, stale>>
loadVars  == <<pc, age, got>>
vars == <<activation, up, val, fresh, stale, pc, age, got, waits, asked, said,
          gone, quiet>>

\* How long an answer of one cache may lag behind what it was loaded from.
Lag == MaxLoad + TTL + Window
\* A route's answer is loaded from an activation that lags as well.
RouteLag == 2 * Lag - 1

Less(left) == IF left > 0 THEN left - 1 ELSE 0
Upto(bound, n) == IF n < bound THEN n + 1 ELSE bound

\* activeUntil is null or after the moment `ago` ticks ago.
LiveAt(v, ago) == v = Open \/ v + ago > 0
Live == LiveAt(activation, 0)
YesNo(live) == IF live THEN "yes" ELSE "no"

TypeOK ==
    /\ activation \in Activation
    /\ up \in BOOLEAN
    /\ val["activation"] \in Activation \cup {None}
    /\ \A r \in Route : val[r] \in {"yes", "no", None}
    /\ fresh \in [Cache -> 0 .. TTL]
    /\ stale \in [Cache -> 0 .. TTL + Window]
    /\ pc \in [Cache -> {"idle", "asks", "sent", "read", "ended"}]
    /\ pc["activation"] \notin {"asks", "ended"}
    /\ age \in [Cache -> 0 .. MaxLoad]
    /\ waits \subseteq Surface
    /\ asked \in 0 .. MaxLoad
    /\ said \in [Surface -> {"yes", "no", "error", "nothing"}]
    /\ gone \in 0 .. RouteLag
    /\ quiet \in 0 .. RouteLag

Init ==
    /\ activation \in {Over} \cup 1 .. Open
    /\ up \in BOOLEAN
    /\ val = [k \in Cache |-> None]
    /\ fresh = [k \in Cache |-> 0]
    /\ stale = [k \in Cache |-> 0]
    /\ pc = [k \in Cache |-> "idle"]
    /\ age = [k \in Cache |-> 0]
    /\ got = [k \in Cache |-> None]
    /\ waits = {}
    /\ asked = 0
    /\ said = [s \in Surface |-> "nothing"]
    /\ gone = IF Live THEN 0 ELSE RouteLag
    /\ quiet = RouteLag

-----------------------------------------------------------------------------
(* The database and time *)

\* External: ops open, close, extend or disable an activation, or its
\* activeFrom comes.
Edit ==
    /\ activation' \in {Over} \cup 1 .. Open
    /\ activation' # activation
    /\ quiet' = 0
    /\ gone' = IF LiveAt(activation', 0) THEN 0 ELSE gone
    /\ UNCHANGED <<up, cacheVars, loadVars, waits, asked, said>>

Flap ==
    /\ up' = ~up
    /\ UNCHANGED <<activation, cacheVars, loadVars, waits, asked, said, gone, quiet>>

Later(v) == IF v \in {Over, Open, None} THEN v ELSE v - 1

\* Callbacks are prompt, and a query does not outlast its timeout.
MayWait(k) == pc[k] # "ended" /\ (pc[k] \in {"sent", "read"} => age[k] < MaxLoad)

Tick ==
    /\ \A k \in Cache : MayWait(k)
    /\ activation' = Later(activation)
    /\ val' = [val EXCEPT !["activation"] = Later(@)]
    /\ got' = [got EXCEPT !["activation"] = IF @ = Failed THEN @ ELSE Later(@)]
    /\ fresh' = [k \in Cache |-> Less(fresh[k])]
    /\ stale' = [k \in Cache |-> Less(stale[k])]
    /\ age' = [k \in Cache |-> IF pc[k] \in {"asks", "sent", "read"}
                           THEN age[k] + 1 ELSE 0]
    /\ asked' = IF "config" \in waits THEN asked + 1 ELSE asked
    /\ said' = [s \in Surface |-> "nothing"]
    /\ gone' = IF LiveAt(activation', 0) THEN 0 ELSE Upto(RouteLag, gone)
    /\ quiet' = Upto(RouteLag, quiet)
    /\ UNCHANGED <<up, pc, waits>>

-----------------------------------------------------------------------------
(* Requests *)

Fresh(k) == fresh[k] > 0
UsableForever(k) == val[k] # None   \* wrong: no bound on the stale window
Usable(k) == val[k] # None /\ stale[k] > 0

\* get() of the activation starts its load unless the value is fresh or a load
\* runs already.
ActivationLoads == ~Fresh("activation") /\ pc["activation"] = "idle"

\* activeEventConfig, once it has the cached activation: the window is checked
\* again, against the now of the request.
AsLoaded(v, ago) == v # Over        \* wrong: only the query checks it
ConfigOf(v, ago) == LiveAt(v, ago)

\* GET /map/config
AskConfig ==
    /\ "config" \notin waits
    /\ IF Usable("activation")
       THEN /\ said' = [said EXCEPT !["config"] = YesNo(ConfigOf(val["activation"], 0))]
            /\ UNCHANGED <<waits, asked>>
       ELSE /\ waits' = waits \cup {"config"}
            /\ asked' = 0
            /\ UNCHANGED said
    /\ pc' = [pc EXCEPT !["activation"] = IF ActivationLoads THEN "sent" ELSE @]
    /\ age' = [age EXCEPT !["activation"] = IF ActivationLoads THEN 0 ELSE @]
    /\ UNCHANGED <<activation, up, cacheVars, got, gone, quiet>>

\* loadEventOverlays and loadEventPlaceDetails with an activation at hand: no
\* festival is an answer of its own, which no query is made for.
NextPhase(v, ago) == IF ConfigOf(v, ago) THEN "sent" ELSE "ended"

\* GET /map/overlays/event and the place details: a get of the route's cache,
\* whose load gets the activation first.
AskRoute(r) ==
    LET loads == ~Fresh(r) /\ pc[r] = "idle"
        below == loads /\ ActivationLoads
        phase == IF Usable("activation") THEN NextPhase(val["activation"], 0)
                                         ELSE "asks"
    IN /\ r \notin waits
       /\ IF Usable(r)
          THEN said' = [said EXCEPT ![r] = val[r]] /\ UNCHANGED waits
          ELSE waits' = waits \cup {r} /\ UNCHANGED said
       /\ pc' = [pc EXCEPT ![r] = IF loads THEN phase ELSE @,
                           !["activation"] = IF below THEN "sent" ELSE @]
       /\ age' = [age EXCEPT ![r] = IF loads THEN 0 ELSE @,
                             !["activation"] = IF below THEN 0 ELSE @]
       /\ got' = [got EXCEPT ![r] = IF loads THEN "no" ELSE @]
       /\ UNCHANGED <<activation, up, cacheVars, asked, gone, quiet>>

-----------------------------------------------------------------------------
(* Loads *)

\* findActiveActivation: the window must contain the now of the load's start.
Found == IF LiveAt(activation, age["activation"]) THEN activation ELSE Over

\* A query reads the database.  The places of a layer set are not modelled.
Reads(k) ==
    /\ pc[k] = "sent" /\ up
    /\ pc' = [pc EXCEPT ![k] = "read"]
    /\ got' = [got EXCEPT ![k] = IF k = "activation" THEN Found ELSE "yes"]
    /\ UNCHANGED <<activation, up, cacheVars, age, waits, asked, said, gone, quiet>>

\* A query or its answer is lost.
Loses(k) ==
    /\ pc[k] \in {"sent", "read"} /\ ~up /\ got[k] # Failed
    /\ pc' = [pc EXCEPT ![k] = "read"]
    /\ got' = [got EXCEPT ![k] = Failed]
    /\ UNCHANGED <<activation, up, cacheVars, age, waits, asked, said, gone, quiet>>

\* What those who await the load of k are given: what it read, or the old value
\* when that is still in its window, or the error.
OutcomeOf(k) == IF got[k] = Failed /\ Usable(k) THEN val[k] ELSE got[k]

\* The value is stored; a failed reload keeps the old one for a TTL, or until
\* the end of the window.
Settle(k) ==
    IF got[k] # Failed
    THEN /\ val' = [val EXCEPT ![k] = got[k]]
         /\ fresh' = [fresh EXCEPT ![k] = TTL]
         /\ stale' = [stale EXCEPT ![k] = TTL + Window]
    ELSE /\ fresh' = [fresh EXCEPT ![k] = IF Usable(k) THEN Min({TTL, stale[k]}) ELSE @]
         /\ UNCHANGED <<val, stale>>

\* The promise of a load is out of the slot once it settled, either way.
HeldByError(k) == IF got[k] = Failed THEN "held" ELSE "idle"   \* wrong: freed by a fulfilled load only
SlotAfter(k) == "idle"

\* A route's load goes on with the activation, or fails with it.
HeedsSuccess(outcome, ago) ==   \* wrong: the rejection is swallowed
    IF outcome = Failed THEN "asks" ELSE NextPhase(outcome, ago)
GoesOn(outcome, ago) == IF outcome = Failed THEN "ended" ELSE NextPhase(outcome, ago)

\* The load of the activation ends: /map/config answers, an error being "no
\* festival" to it, and the routes' loads go on or fail with it.
EndActivation ==
    LET outcome == OutcomeOf("activation")
        asking == {r \in Route : pc[r] = "asks"}
    IN /\ pc["activation"] = "read"
       /\ Settle("activation")
       /\ pc' = [k \in Cache |->
                   IF k = "activation" THEN SlotAfter(k)
                   ELSE IF k \in asking THEN GoesOn(outcome, age[k]) ELSE pc[k]]
       /\ got' = [k \in Cache |-> IF k = "activation" THEN None
                                  ELSE IF k \in asking /\ outcome = Failed THEN Failed
                                  ELSE got[k]]
       /\ age' = [k \in Cache |-> IF k \in asking \cup {"activation"} THEN 0 ELSE age[k]]
       /\ said' = IF "config" \notin waits THEN said
                  ELSE [said EXCEPT !["config"] =
                          IF outcome = Failed THEN "error"
                                              ELSE YesNo(ConfigOf(outcome, asked))]
       /\ waits' = waits \ {"config"}
       /\ asked' = 0
       /\ UNCHANGED <<activation, up, gone, quiet>>

EndRoute(r) ==
    LET outcome == OutcomeOf(r)
    IN /\ pc[r] \in {"read", "ended"}
       /\ Settle(r)
       /\ pc' = [pc EXCEPT ![r] = SlotAfter(r)]
       /\ got' = [got EXCEPT ![r] = None]
       /\ age' = [age EXCEPT ![r] = 0]
       /\ said' = IF r \notin waits THEN said
                  ELSE [said EXCEPT ![r] = IF outcome = Failed THEN "error" ELSE outcome]
       /\ waits' = waits \ {r}
       /\ UNCHANGED <<activation, up, asked, gone, quiet>>

-----------------------------------------------------------------------------
Ask == AskConfig \/ \E r \in Route : AskRoute(r)
Load(k) == Reads(k) \/ Loses(k)
End == EndActivation \/ \E r \in Route : EndRoute(r)

Next == Edit \/ Flap \/ Tick \/ Ask \/ (\E k \in Cache : Load(k)) \/ End

Spec == Init /\ [][Next]_vars

\* Time passes, a query is answered or times out, and its callbacks run.
\* Nothing makes a request come.
FairSpec ==
    /\ Spec
    /\ WF_vars(Tick)
    /\ \A k \in Cache : WF_vars(Load(k))
    /\ WF_vars(EndActivation)
    /\ \A r \in Route : WF_vars(EndRoute(r))

-----------------------------------------------------------------------------
(* Properties *)

\* /map/config follows the activation.  It shows a festival that is over only
\* for as long as the cache may lag; when ops have changed nothing in that time
\* it is gone on the tick activeUntil says (to a request that did not wait), and
\* a live one is shown.
ConfigFollows ==
    /\ said["config"] = "yes" => gone < Lag
    /\ quiet >= Lag =>
          /\ said["config"] = "yes" => gone <= MaxLoad
          /\ said["config"] = "no" => ~Live

\* The markers and the details follow it at most two caches behind: however the
\* two reloads fall, fail and wait on each other, a festival is served no longer
\* than that after it is over, and missing no longer than that after it opened.
RoutesFollow ==
    \A r \in Route :
        /\ said[r] = "yes" => gone < RouteLag
        /\ quiet >= RouteLag =>
              /\ said[r] = "yes" => gone < Lag + MaxLoad
              /\ said[r] = "no" => ~Live

\* A request is answered, also one whose load waits for the load below it.
RequestsAnswered == \A s \in Surface : s \in waits ~> s \notin waits

\* When ops rest and the database is up, every surface that is asked on and on
\* comes to answer what the database says, again and again and nothing else: no
\* error of the past blocks a slot or stays in service.
CatchesUp ==
    /\ <>[]up
    /\ <>[](quiet > 0)
    /\ WF_vars(AskConfig)
    /\ \A r \in Route : WF_vars(AskRoute(r))
    => \A s \in Surface :
          /\ []<>(said[s] = YesNo(Live))
          /\ <>[](said[s] \in {"nothing", YesNo(Live)})

\* Each of the caches, chained as they are, is one that createCachedLoader makes.
Slot(k) == INSTANCE TimedCache WITH
    held <- val[k] # None, fresh <- fresh[k], stale <- stale[k],
    loading <- pc[k] # "idle"
CachesAreTimed ==
    /\ \A k \in Cache : Slot(k)!Init
    /\ [][\A k \in Cache : [Slot(k)!Next]_(Slot(k)!vars)]_vars
=============================================================================
