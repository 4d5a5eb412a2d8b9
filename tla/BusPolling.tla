----------------------------- MODULE BusPolling -----------------------------
(***************************************************************************)
(* One key of the bus data: the poller registry fires a fetcher, the       *)
(* fetcher asks an upstream service and writes the answer to bus_cache, a  *)
(* collection whose documents expire, and an api replica reads it through  *)
(* a memory cache.  Nothing waits for anything: the fetchers give the      *)
(* registry no promise, and no fetcher waits for its write.                *)
(*                                                                         *)
(* Only the order and the age of the data matter, so a copy of the data is *)
(* its age: the ticks since the upstream service was read.  (The lists of  *)
(* buses, and which of them are left out as stale, are not modelled.)  An  *)
(* api replica never polls, so the list it falls back on is empty.         *)
(***************************************************************************)
EXTENDS Integers

CONSTANTS
    Run,           \* slots for runs of the fetcher that are under way
    Request,       \* concurrent requests to the replica
    Awaited,       \* the registered function returns the run's promise
    Interval,      \* of the timer
    FetchTimeout,  \* axios timeout
    WriteTime,     \* bound: longest a write takes
    ReadTime,      \* bound: longest a read takes
    DocTTL,        \* expireAfterSeconds
    DocSlack,      \* bound: how late the database removes expired documents
    MemTTL,        \* ttlMs of cachedRead
    Oldest         \* bound: ages stop counting

ASSUME PollingAssumption ==
    /\ Awaited \in BOOLEAN
    /\ Interval \in Nat \ {0}
    /\ FetchTimeout \in Nat /\ WriteTime \in Nat /\ ReadTime \in Nat
    /\ DocTTL \in Nat /\ DocSlack \in Nat /\ MemTTL \in Nat \ {0}
    /\ Oldest \in Nat /\ WriteTime <= Oldest

VARIABLES
    healthy,    \* upstream and database work (external)
    \* the poller process
    up,         \* startAll() has been called
    timerLeft,  \* ticks until setInterval fires
    inFlight,   \* the registry's guard for this fetcher
    phase,      \* of a run: idle, asked, answered, writing
    callAge,    \* ticks since the request, or since the write, was sent
    copyOf,     \* the run's data
    \* bus_cache
    doc,        \* the document's data, or None
    stamp,      \* age of _updatedAt
    \* the replica
    mem,        \* memCache: data, or None (null is kept like data)
    memLeft,    \* ticks until it expires
    request,    \* idle, reading, read
    readAge,    \* ticks since the read was sent
    readData,
    \* for the properties only
    answer,     \* what the last step answered, or None
    past        \* age of the newest data answered until now, and until each of
                \* the last ticks

poller  == <<up, timerLeft, inFlight, phase, callAge, copyOf>>
cache   == <<doc, stamp>>
replica == <<mem, memLeft, request, readAge, readData, past>>
vars == <<healthy, up, timerLeft, inFlight, phase, callAge, copyOf, doc, stamp,
          mem, memLeft, request, readAge, readData, answer, past>>

None == -1
Age == 0 .. Oldest
Copy == Age \cup {None}
Older(x) == IF x \in 0 .. Oldest - 1 THEN x + 1 ELSE x
Less(x) == IF x > 0 THEN x - 1 ELSE 0

\* The longest a replica keeps what it has read: the read and the memory entry.
Lag == ReadTime + MemTTL

TypeOK ==
    /\ healthy \in BOOLEAN /\ up \in BOOLEAN /\ inFlight \in BOOLEAN
    /\ timerLeft \in 0 .. Interval
    /\ phase \in [Run -> {"idle", "asked", "answered", "writing"}]
    /\ callAge \in [Run -> Nat]
    /\ \A r \in Run : phase[r] \in {"asked", "answered"} => callAge[r] \in 0 .. FetchTimeout
    /\ \A r \in Run : phase[r] = "writing" => callAge[r] \in 0 .. WriteTime
    /\ copyOf \in [Run -> Copy]
    /\ doc \in Copy /\ stamp \in Age
    /\ mem \in Copy /\ memLeft \in 0 .. MemTTL
    /\ request \in [Request -> {"idle", "reading", "read"}]
    /\ readAge \in [Request -> 0 .. ReadTime]
    /\ readData \in [Request -> Copy]
    /\ answer \in Copy
    /\ past \in [0 .. Lag -> Age]

Init ==
    /\ healthy = TRUE
    /\ up = FALSE /\ timerLeft = 0 /\ inFlight = FALSE
    /\ phase = [r \in Run |-> "idle"]
    /\ callAge = [r \in Run |-> 0]
    /\ copyOf = [r \in Run |-> None]
    /\ doc = None /\ stamp = 0
    /\ mem = None /\ memLeft = 0
    /\ request = [q \in Request |-> "idle"]
    /\ readAge = [q \in Request |-> 0]
    /\ readData = [q \in Request |-> None]
    /\ answer = None
    /\ past = [k \in 0 .. Lag |-> Oldest]

-----------------------------------------------------------------------------
(* Time and the outside *)

Flap ==
    /\ healthy' = ~healthy
    /\ answer' = None
    /\ UNCHANGED <<poller, cache, replica>>

\* Timers fire on time, calls end by their timeouts, the database removes an
\* expired document within DocSlack.
InTime ==
    /\ up => timerLeft > 0
    /\ \A r \in Run : CASE phase[r] \in {"asked", "answered"} -> callAge[r] < FetchTimeout
                        [] phase[r] = "writing" -> callAge[r] < WriteTime
                        [] OTHER -> TRUE
    /\ \A q \in Request : request[q] # "idle" => readAge[q] < ReadTime
    /\ doc # None => stamp < DocTTL + DocSlack

Tick ==
    /\ InTime
    /\ timerLeft' = Less(timerLeft)
    /\ callAge' = [r \in Run |-> IF phase[r] = "idle" THEN 0 ELSE callAge[r] + 1]
    /\ copyOf' = [r \in Run |-> Older(copyOf[r])]
    /\ doc' = Older(doc)
    /\ stamp' = IF doc = None THEN 0 ELSE Older(stamp)
    /\ mem' = Older(mem)
    /\ memLeft' = Less(memLeft)
    /\ readAge' = [q \in Request |-> IF request[q] = "idle" THEN 0 ELSE readAge[q] + 1]
    /\ readData' = [q \in Request |-> Older(readData[q])]
    /\ past' = [k \in 0 .. Lag |-> Older(past[Less(k)])]
    /\ answer' = None
    /\ UNCHANGED <<healthy, up, inFlight, phase, request>>

\* The TTL index.
Expire ==
    /\ doc # None
    /\ stamp >= DocTTL
    /\ doc' = None
    /\ stamp' = 0
    /\ answer' = None
    /\ UNCHANGED <<healthy, poller, replica>>

-----------------------------------------------------------------------------
(* The registry *)

\* guarded(): calls the function in a free slot, or skips the tick.  Without a
\* promise, finally() frees the guard before anything else runs.
Guarded ==
    IF inFlight
    THEN UNCHANGED <<inFlight, phase, callAge>>
    ELSE /\ \E r \in Run :
               /\ phase[r] = "idle"
               /\ phase' = [phase EXCEPT ![r] = "asked"]
               /\ callAge' = [callAge EXCEPT ![r] = 0]
         /\ inFlight' = Awaited

\* startAll() runs every poller once, and starts its timer.
StartAll ==
    /\ ~up
    /\ up' = TRUE
    /\ timerLeft' = Interval
    /\ Guarded
    /\ answer' = None
    /\ UNCHANGED <<healthy, copyOf, cache, replica>>

Fire ==
    /\ up
    /\ timerLeft = 0
    /\ timerLeft' = Interval
    /\ Guarded
    /\ answer' = None
    /\ UNCHANGED <<healthy, up, copyOf, cache, replica>>

\* The process ends: what it had under way is lost, or has just been written.
Stop ==
    /\ up
    /\ up' = FALSE
    /\ timerLeft' = 0
    /\ inFlight' = FALSE
    /\ phase' = [r \in Run |-> "idle"]
    /\ callAge' = [r \in Run |-> 0]
    /\ copyOf' = [r \in Run |-> None]
    /\ answer' = None
    /\ UNCHANGED <<healthy, cache, replica>>

-----------------------------------------------------------------------------
(* A run of the fetcher *)

UpstreamReads(r) ==
    /\ phase[r] = "asked"
    /\ healthy
    /\ phase' = [phase EXCEPT ![r] = "answered"]
    /\ copyOf' = [copyOf EXCEPT ![r] = 0]
    /\ answer' = None
    /\ UNCHANGED <<healthy, up, timerLeft, inFlight, callAge, cache, replica>>

Ends(r) ==
    /\ phase' = [phase EXCEPT ![r] = "idle"]
    /\ callAge' = [callAge EXCEPT ![r] = 0]
    /\ copyOf' = [copyOf EXCEPT ![r] = None]
    /\ answer' = None

\* The function goes on with a usable answer: it sends the write and returns.
Transform(r) ==
    /\ phase[r] = "answered"
    /\ phase' = [phase EXCEPT ![r] = "writing"]
    /\ callAge' = [callAge EXCEPT ![r] = 0]
    /\ inFlight' = FALSE
    /\ answer' = None
    /\ UNCHANGED <<healthy, up, timerLeft, copyOf, cache, replica>>

\* An error, a timeout or an unusable answer: nothing is written.
FetchFails(r) ==
    /\ phase[r] \in {"asked", "answered"}
    /\ ~healthy
    /\ inFlight' = FALSE
    /\ Ends(r)
    /\ UNCHANGED <<healthy, up, timerLeft, cache, replica>>

\* Wrong: an upsert that sets the data on insert only.
WriteLandsOnInsert(r) ==
    /\ phase[r] = "writing"
    /\ doc' = IF doc = None THEN copyOf[r] ELSE doc
    /\ stamp' = callAge[r]
    /\ Ends(r)
    /\ UNCHANGED <<healthy, up, timerLeft, inFlight, replica>>

\* write(): _updatedAt is the poller's clock when the write was sent.
WriteLands(r) ==
    /\ phase[r] = "writing"
    /\ doc' = copyOf[r]
    /\ stamp' = callAge[r]
    /\ Ends(r)
    /\ UNCHANGED <<healthy, up, timerLeft, inFlight, replica>>

WriteFails(r) ==
    /\ phase[r] = "writing"
    /\ ~healthy
    /\ Ends(r)
    /\ UNCHANGED <<healthy, up, timerLeft, inFlight, cache, replica>>

-----------------------------------------------------------------------------
(* cachedRead in the replica *)

Answers(x) ==
    /\ answer' = x
    /\ past' = IF x # None /\ x < past[0] THEN [past EXCEPT ![0] = x] ELSE past

\* entry && Date.now() < entry.expiresAt
MemForever == mem # None   \* wrong: the expiry is not looked at
MemValid == memLeft > 0

\* Wrong: an entry lives on while it is asked for.
AnswerAndKeep(q) ==
    /\ request[q] = "idle"
    /\ MemValid
    /\ memLeft' = MemTTL
    /\ Answers(mem)
    /\ UNCHANGED <<healthy, poller, cache, mem, request, readAge, readData>>

AnswerFromMemory(q) ==
    /\ request[q] = "idle"
    /\ MemValid
    /\ Answers(mem)
    /\ UNCHANGED <<healthy, poller, cache, mem, memLeft, request, readAge, readData>>

SendRead(q) ==
    /\ request[q] = "idle"
    /\ ~MemValid
    /\ request' = [request EXCEPT ![q] = "reading"]
    /\ readAge' = [readAge EXCEPT ![q] = 0]
    /\ answer' = None
    /\ UNCHANGED <<healthy, poller, cache, mem, memLeft, readData, past>>

DbReads(q) ==
    /\ request[q] = "reading"
    /\ healthy
    /\ request' = [request EXCEPT ![q] = "read"]
    /\ readData' = [readData EXCEPT ![q] = doc]
    /\ answer' = None
    /\ UNCHANGED <<healthy, poller, cache, mem, memLeft, readAge, past>>

Forget(q) ==
    /\ request' = [request EXCEPT ![q] = "idle"]
    /\ readAge' = [readAge EXCEPT ![q] = 0]
    /\ readData' = [readData EXCEPT ![q] = None]

\* The read's answer replaces the entry, whatever came in between.
AnswerFromDb(q) ==
    /\ request[q] = "read"
    /\ mem' = readData[q]
    /\ memLeft' = MemTTL
    /\ Answers(readData[q])
    /\ Forget(q)
    /\ UNCHANGED <<healthy, poller, cache>>

ReadFails(q) ==
    /\ request[q] # "idle"
    /\ ~healthy
    /\ answer' = None
    /\ Forget(q)
    /\ UNCHANGED <<healthy, poller, cache, mem, memLeft, past>>

-----------------------------------------------------------------------------
RunStep(r) ==
    UpstreamReads(r) \/ Transform(r) \/ FetchFails(r) \/ WriteLands(r) \/ WriteFails(r)

ReadStep(q) == DbReads(q) \/ AnswerFromDb(q) \/ ReadFails(q)

Next ==
    \/ Flap \/ Tick \/ Expire \/ StartAll \/ Fire \/ Stop
    \/ \E r \in Run : RunStep(r)
    \/ \E q \in Request : AnswerFromMemory(q) \/ SendRead(q) \/ ReadStep(q)

Spec == Init /\ [][Next]_vars

\* Docker restarts the process, timers fire, calls end, time passes.
FairSpec ==
    /\ Spec
    /\ WF_vars(Tick) /\ WF_vars(Expire) /\ WF_vars(StartAll) /\ WF_vars(Fire)
    /\ \A r \in Run : WF_vars(RunStep(r))
    /\ \A q \in Request : WF_vars(ReadStep(q))

-----------------------------------------------------------------------------
(* Properties *)

\* No bus is shown that was read from upstream longer ago than the fetch, the
\* document, the read and the memory entry may last together.
AgeBounded ==
    answer # None =>
        answer <= FetchTimeout + DocTTL + DocSlack + ReadTime + MemTTL

\* Positions may go back in time, as runs overlap and write in any order, and
\* reads overlap and fill the memory entry in any order.  But what a replica has
\* answered before the reads and the entry it still holds, it goes back behind
\* only by the time that one fetch and its write may take.
BackwardsBounded ==
    answer # None => answer <= past[Lag] + FetchTimeout + WriteTime

\* A tick is skipped while the previous run is still pending.
OneRunAtATime ==
    \A r, s \in Run :
        phase[r] \in {"asked", "answered"} /\ phase[s] \in {"asked", "answered"} => r = s

\* Once upstream and database work and the process stays up, the document comes
\* back, and from then on it is never older than one interval plus twice the time
\* a fetch and a write take: once for the run that wrote it, late and over a newer
\* one, and once for the run that comes next.
EventuallyFresh ==
    <>[](healthy /\ up) =>
        <>[](doc # None /\ doc <= Interval + 2 * (FetchTimeout + WriteTime))
=============================================================================
