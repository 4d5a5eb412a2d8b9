---------------------------- MODULE CachedLoader ----------------------------
(***************************************************************************)
(* createCachedLoader: one cached value with a TTL, loaded on demand, with *)
(* single flight and an optional stale-while-revalidate window.  One       *)
(* process, but every await is a point where other requests run, so a load *)
(* is four steps: the query is sent, the database answers, the handler     *)
(* runs and the finally callback runs.                                     *)
(*                                                                         *)
(* Deadlines are kept as the ticks left until them (freshLeft is           *)
(* freshUntil - now, staleLeft is staleUntil() - now).  Callbacks run      *)
(* within a tick; a query takes up to MaxLoad ticks, the driver's timeout. *)
(* The source is a version number that only grows.                         *)
(***************************************************************************)
EXTENDS Integers

CONSTANTS
    Caller,       \* concurrent requests
    Attempt,      \* identities for loads that are under way
    None,         \* null
    Failed,       \* the outcome of a load that rejects
    TTL,          \* ttlMs, in ticks
    StaleWindow,  \* staleWindowMs, in ticks; 0: no window
    MaxLoad,      \* longest a query takes
    MaxVersion,   \* bound: changes of the source
    MaxClears     \* bound: calls of clear()

Version == 0 .. MaxVersion

\* createCachedLoader throws on a ttlMs that is not positive and on a negative
\* staleWindowMs.
ASSUME LoaderAssumption ==
    /\ TTL \in Nat \ {0}
    /\ StaleWindow \in Nat
    /\ MaxLoad \in Nat
    /\ MaxVersion \in Nat
    /\ MaxClears \in Nat
    /\ None \notin Version /\ None \notin Attempt
    /\ Failed \notin Version /\ Failed # None

VARIABLES
    \* the source
    source,      \* its present version
    down,        \* queries fail
    \* the closure of createCachedLoader
    value,       \* value.data, or None
    freshLeft,
    staleLeft,
    inFlight,    \* the attempt in the slot, or None
    generation,
    \* the loads
    phase,       \* idle, loading (sent), answered, settled (handler has run)
    gen,         \* generation at the start
    result,      \* what was read, or Failed; once settled, the waiters' outcome
    elapsed,     \* ticks since it was sent
    \* the requests
    waitsFor,    \* the attempt whose promise the caller awaits, or None
    \* for the properties only
    valueAge,    \* ticks since the source was read for value
    resultAge,   \* the same for result
    floor,       \* the oldest version an answer may have now: AnswersInOrder
    floorAt,     \* floor when the waiting caller asked
    quiet,       \* ticks since a load was last followed by a pause, up to TTL
    answers      \* what the last step answered

sourceVars  == <<source, down>>
cacheVars   == <<value, freshLeft, staleLeft, inFlight, generation, valueAge, quiet>>
loadVars    == <<phase, gen, result, elapsed, resultAge>>
requestVars == <<waitsFor, floor, floorAt>>
vars == <<source, down, value, freshLeft, staleLeft, inFlight, generation,
          phase, gen, result, elapsed, waitsFor, valueAge, resultAge, floor,
          floorAt, quiet, answers>>

\* An age at which no answer may be given.
Oldest == MaxLoad + TTL + StaleWindow

Older(age) == IF age < Oldest THEN age + 1 ELSE age
Less(left) == IF left > 0 THEN left - 1 ELSE 0
Larger(x, y) == IF x > y THEN x ELSE y
Smaller(x, y) == IF x < y THEN x ELSE y

Answer == [data : Version \cup {Failed}, age : 0 .. Oldest, floor : Version,
           waited : BOOLEAN]

TypeOK ==
    /\ source \in Version
    /\ down \in BOOLEAN
    /\ value \in Version \cup {None}
    /\ freshLeft \in 0 .. TTL
    /\ staleLeft \in 0 .. TTL + StaleWindow
    /\ inFlight \in Attempt \cup {None}
    /\ generation \in 0 .. MaxClears
    /\ phase \in [Attempt -> {"idle", "loading", "answered", "settled"}]
    /\ gen \in [Attempt -> 0 .. MaxClears]
    /\ result \in [Attempt -> Version \cup {None, Failed}]
    /\ \A a \in Attempt : phase[a] \in {"answered", "settled"} => result[a] # None
    /\ elapsed \in [Attempt -> 0 .. MaxLoad]
    /\ waitsFor \in [Caller -> Attempt \cup {None}]
    /\ valueAge \in 0 .. Oldest
    /\ resultAge \in [Attempt -> 0 .. Oldest]
    /\ floor \in Version
    /\ floorAt \in [Caller -> Version]
    /\ quiet \in 0 .. TTL
    /\ answers \subseteq Answer

Init ==
    /\ source = 0
    /\ down = FALSE
    /\ value = None
    /\ freshLeft = 0
    /\ staleLeft = 0
    /\ inFlight = None
    /\ generation = 0
    /\ phase = [a \in Attempt |-> "idle"]
    /\ gen = [a \in Attempt |-> 0]
    /\ result = [a \in Attempt |-> None]
    /\ elapsed = [a \in Attempt |-> 0]
    /\ waitsFor = [c \in Caller |-> None]
    /\ valueAge = 0
    /\ resultAge = [a \in Attempt |-> 0]
    /\ floor = 0
    /\ floorAt = [c \in Caller |-> 0]
    /\ quiet = TTL
    /\ answers = {}

\* now < freshUntil, and now < staleUntil() (0 without a value or a window).
Fresh == value # None /\ freshLeft > 0

InWindowForever == value # None   \* wrong: the old value has no deadline
InWindow == value # None /\ staleLeft > 0

\* gen === generation: no clear() came since the load started.
CurrentAlways(a) == TRUE          \* wrong: a dropped load is stored
CurrentOffByOne(a) == gen[a] + 1 = generation   \* wrong: counted at the end
Current(a) == gen[a] = generation

\* When a failed reload keeps the old value, the next one is a TTL away, or at
\* the end of the window.
NoBackoff == 0                    \* wrong: the next request retries
Backoff == Smaller(TTL, staleLeft)

\* How long a loaded value is fresh.
Lifetime == TTL

\* The slot after the finally callback of a.
SlotKept(a) == inFlight           \* wrong: it is never freed
SlotFreed(a) == None              \* wrong: a newer load is thrown out
SlotAfter(a) == IF inFlight = a THEN None ELSE inFlight

-----------------------------------------------------------------------------
(* The source and time *)

\* External: somebody changes the data, the database fails or comes back.
Change ==
    /\ source < MaxVersion
    /\ source' = source + 1
    /\ answers' = {}
    /\ UNCHANGED <<down, cacheVars, loadVars, requestVars>>

Flap ==
    /\ down' = ~down
    /\ answers' = {}
    /\ UNCHANGED <<source, cacheVars, loadVars, requestVars>>

\* Callbacks are prompt, and a query does not outlast its timeout.
MayWait(a) == /\ phase[a] # "settled"
              /\ phase[a] # "idle" => elapsed[a] < MaxLoad

Tick ==
    /\ \A a \in Attempt : MayWait(a)
    /\ freshLeft' = Less(freshLeft)
    /\ staleLeft' = Less(staleLeft)
    /\ valueAge' = IF value = None THEN valueAge ELSE Older(valueAge)
    /\ elapsed' = [a \in Attempt |-> IF phase[a] = "idle" THEN elapsed[a]
                                                          ELSE elapsed[a] + 1]
    /\ resultAge' = [a \in Attempt |->
                       IF phase[a] = "answered" THEN Older(resultAge[a])
                                                ELSE resultAge[a]]
    /\ quiet' = IF quiet < TTL THEN quiet + 1 ELSE quiet
    /\ answers' = {}
    /\ UNCHANGED <<sourceVars, value, inFlight, generation, phase, gen, result,
                   requestVars>>

-----------------------------------------------------------------------------
(* get() *)

\* reload(): the attempt takes the slot.
Reload(a) ==
    /\ phase[a] = "idle"
    /\ phase' = [phase EXCEPT ![a] = "loading"]
    /\ gen' = [gen EXCEPT ![a] = generation]
    /\ elapsed' = [elapsed EXCEPT ![a] = 0]
    /\ inFlight' = a
    /\ UNCHANGED <<result, resultAge>>

AnswerNow ==
    /\ answers' = {[data |-> value, age |-> valueAge, floor |-> floor,
                    waited |-> FALSE]}
    /\ floor' = Larger(floor, value)
    /\ UNCHANGED <<waitsFor, floorAt>>

GetFresh(c) ==
    /\ waitsFor[c] = None
    /\ Fresh
    /\ AnswerNow
    /\ UNCHANGED <<sourceVars, cacheVars, loadVars>>

\* Inside the window the old value is the answer, and a reload runs behind it.
GetStale(c) ==
    /\ waitsFor[c] = None
    /\ ~Fresh /\ InWindow
    /\ AnswerNow
    /\ \/ inFlight = None /\ \E a \in Attempt : Reload(a)
       \/ inFlight # None /\ UNCHANGED <<inFlight, loadVars>>
    /\ UNCHANGED <<sourceVars, value, freshLeft, staleLeft, generation,
                   valueAge, quiet>>

\* inFlight ?? reload()
GetWaits(c) ==
    /\ waitsFor[c] = None
    /\ ~Fresh /\ ~InWindow
    /\ \/ inFlight = None /\ \E a \in Attempt : Reload(a)
       \/ inFlight # None /\ UNCHANGED <<inFlight, loadVars>>
    /\ waitsFor' = [waitsFor EXCEPT ![c] = inFlight']
    /\ floorAt' = [floorAt EXCEPT ![c] = floor]
    /\ answers' = {}
    /\ UNCHANGED <<sourceVars, value, freshLeft, staleLeft, generation,
                   valueAge, quiet, floor>>

Get(c) == GetFresh(c) \/ GetStale(c) \/ GetWaits(c)

-----------------------------------------------------------------------------
(* A load *)

\* The query reads the source.
LoadReads(a) ==
    /\ phase[a] = "loading"
    /\ ~down
    /\ phase' = [phase EXCEPT ![a] = "answered"]
    /\ result' = [result EXCEPT ![a] = source]
    /\ resultAge' = [resultAge EXCEPT ![a] = 0]
    /\ answers' = {}
    /\ UNCHANGED <<sourceVars, cacheVars, gen, elapsed, requestVars>>

\* The query or its answer is lost.
LoadFails(a) ==
    /\ phase[a] = "loading" \/ (phase[a] = "answered" /\ result[a] # Failed)
    /\ down
    /\ phase' = [phase EXCEPT ![a] = "answered"]
    /\ result' = [result EXCEPT ![a] = Failed]
    /\ answers' = {}
    /\ UNCHANGED <<sourceVars, cacheVars, gen, elapsed, resultAge, requestVars>>

Settles(a, outcome) ==
    /\ phase[a] = "answered"
    /\ phase' = [phase EXCEPT ![a] = "settled"]
    /\ result' = [result EXCEPT ![a] = outcome]
    /\ answers' = {}
    /\ UNCHANGED <<sourceVars, inFlight, generation, gen, elapsed, requestVars>>

\* The handler of a fulfilled load.
Store(a) ==
    /\ result[a] # Failed
    /\ Settles(a, result[a])
    /\ IF Current(a)
       THEN /\ value' = result[a]
            /\ valueAge' = resultAge[a]
            /\ freshLeft' = Lifetime
            /\ staleLeft' = IF StaleWindow > 0 THEN TTL + StaleWindow ELSE 0
            /\ quiet' = 0
       ELSE UNCHANGED <<value, valueAge, freshLeft, staleLeft, quiet>>
    /\ UNCHANGED resultAge

\* The handler of a rejected load: inside the window the old value stays.
Keep(a) ==
    /\ result[a] = Failed
    /\ IF Current(a) /\ InWindow
       THEN /\ Settles(a, value)
            /\ resultAge' = [resultAge EXCEPT ![a] = valueAge]
            /\ freshLeft' = Backoff
            /\ quiet' = 0
       ELSE /\ Settles(a, Failed)
            /\ UNCHANGED <<resultAge, freshLeft, quiet>>
    /\ UNCHANGED <<value, valueAge, staleLeft>>

\* The finally callback, and the answers to those who await the attempt.
Finally(a) ==
    /\ phase[a] = "settled"
    /\ phase' = [phase EXCEPT ![a] = "idle"]
    /\ inFlight' = SlotAfter(a)
    /\ LET waiters == {c \in Caller : waitsFor[c] = a}
       IN /\ answers' = {[data |-> result[a], age |-> resultAge[a],
                          floor |-> floorAt[c], waited |-> TRUE] : c \in waiters}
          /\ waitsFor' = [c \in Caller |-> IF c \in waiters THEN None
                                                            ELSE waitsFor[c]]
          /\ floor' = IF waiters # {} /\ gen[a] = generation /\ result[a] # Failed
                      THEN Larger(floor, result[a])
                      ELSE floor
    /\ result' = [result EXCEPT ![a] = None]
    /\ UNCHANGED <<sourceVars, value, freshLeft, staleLeft, generation,
                   valueAge, quiet, gen, elapsed, resultAge, floorAt>>

\* clear()
Clear ==
    /\ generation < MaxClears
    /\ generation' = generation + 1
    /\ value' = None
    /\ freshLeft' = 0
    /\ staleLeft' = 0
    /\ inFlight' = None
    /\ valueAge' = 0
    /\ floor' = source
    /\ answers' = {}
    /\ UNCHANGED <<sourceVars, loadVars, waitsFor, floorAt, quiet>>

-----------------------------------------------------------------------------
LoadStep(a) == LoadReads(a) \/ LoadFails(a) \/ Store(a) \/ Keep(a) \/ Finally(a)

Next ==
    \/ Change \/ Flap \/ Tick \/ Clear
    \/ \E c \in Caller : Get(c)
    \/ \E a \in Attempt : LoadStep(a)

Spec == Init /\ [][Next]_vars

\* A query is answered or times out, its callbacks run, and time passes.
\* Nothing makes a request come.
FairSpec ==
    /\ Spec
    /\ WF_vars(Tick)
    /\ \A a \in Attempt : WF_vars(LoadStep(a))

-----------------------------------------------------------------------------
(* Properties *)

Running(a) == phase[a] # "idle"

\* Single flight: two loads never run at once, unless a clear() came between
\* their starts.
SingleFlight ==
    \A a, b \in Attempt : Running(a) /\ Running(b) /\ gen[a] = gen[b] => a = b

\* What get() answers is never older than the source was at the last clear()
\* before the call, nor than any answer given before the call by the cache or by
\* a load that was not dropped - even when a load that clear() dropped finishes
\* after a newer one.  The answer of a dropped load itself does not count for
\* later calls: it goes to those who asked before the clear(), and may have read
\* the source after the load that replaced it.
AnswersInOrder == \A r \in answers : r.data # Failed => r.data >= r.floor

\* The source has not been left behind longer than the options say: an answer
\* from the cache was current within the last MaxLoad + TTL + StaleWindow
\* ticks, and a caller that had to wait is never given the old value.
AgeBounded ==
    \A r \in answers :
        r.data # Failed => IF r.waited THEN r.age <= MaxLoad ELSE r.age < Oldest

\* However many requests come and whether loads succeed or fail, a value in
\* service is not reloaded within a TTL of the last load.
LoadsSpaced ==
    [][\A a \in Attempt :
          ~Running(a) /\ Running(a)' =>
              \/ value = None
              \/ StaleWindow > 0 /\ staleLeft = 0
              \/ quiet >= TTL]_vars

\* Every caller gets an answer, also one whose load was dropped by clear().
EveryCallAnswered == \A c \in Caller : waitsFor[c] # None ~> waitsFor[c] = None

\* After an outage the cache catches up with the source and stays there, as
\* long as requests keep coming.
EventuallyCurrent ==
    <>[]~down /\ []<><<\E c \in Caller : Get(c)>>_vars => <>[](value = source)

\* The slot does what TimedCache promises: a load is over for it when its handler
\* has run, and one that clear() dropped no longer counts.
Slot == INSTANCE TimedCache WITH
    Window <- StaleWindow,
    held <- value # None, fresh <- freshLeft, stale <- staleLeft,
    loading <- inFlight # None /\ phase[inFlight] # "settled"
ImplementsTimedCache == Slot!Spec
=============================================================================
