------------------------- MODULE CachedLoaderProofs -------------------------
(***************************************************************************)
(* Proofs about CachedLoader, for every set of requests, every TTL, stale  *)
(* window and query timeout, and any number of changes and clear() calls.  *)
(***************************************************************************)
EXTENDS CachedLoader, TLAPS

LEMMA TypeInit == Init => TypeOK
<1> SUFFICES ASSUME Init PROVE TypeOK
  OBVIOUS
<1> USE LoaderAssumption DEF Init, Version
<1>0. down \in BOOLEAN
  BY Zenon
<1>1. /\ source \in Version /\ value \in Version \cup {None}
      /\ freshLeft \in 0 .. TTL /\ staleLeft \in 0 .. TTL + StaleWindow
      /\ inFlight \in Attempt \cup {None} /\ generation \in 0 .. MaxClears
      /\ valueAge \in 0 .. Oldest /\ floor \in Version /\ quiet \in 0 .. TTL
      /\ answers \subseteq Answer
  BY DEF Oldest
<1>2. /\ phase \in [Attempt -> {"idle", "loading", "answered", "settled"}]
      /\ gen \in [Attempt -> 0 .. MaxClears]
      /\ result \in [Attempt -> Version \cup {None, Failed}]
      /\ \A a \in Attempt : phase[a] \in {"answered", "settled"} => result[a] # None
      /\ elapsed \in [Attempt -> 0 .. MaxLoad]
      /\ waitsFor \in [Caller -> Attempt \cup {None}]
      /\ resultAge \in [Attempt -> 0 .. Oldest]
      /\ floorAt \in [Caller -> Version]
  BY DEF Oldest
<1> QED BY <1>0, <1>1, <1>2 DEF TypeOK

\* Every step keeps the types.
LEMMA TypeStep == ASSUME TypeOK, [Next]_vars PROVE TypeOK'
<1> USE LoaderAssumption DEF TypeOK, Version, Oldest, Answer
<1>1. CASE Change
  BY <1>1 DEF Change, cacheVars, loadVars, requestVars
<1>2. CASE Flap
  BY <1>2 DEF Flap, cacheVars, loadVars, requestVars
<1>3. CASE Tick
  BY <1>3 DEF Tick, MayWait, Less, Older, sourceVars, requestVars
<1>4. CASE Clear
  BY <1>4 DEF Clear, sourceVars, loadVars
<1>5. ASSUME NEW c \in Caller, GetFresh(c) PROVE TypeOK'
  BY <1>5 DEF GetFresh, Fresh, AnswerNow, Larger, sourceVars, cacheVars, loadVars
<1>6. ASSUME NEW c \in Caller, GetStale(c) PROVE TypeOK'
  BY <1>6 DEF GetStale, InWindow, AnswerNow, Reload, Larger, sourceVars, loadVars
<1>7. ASSUME NEW c \in Caller, GetWaits(c) PROVE TypeOK'
  BY <1>7 DEF GetWaits, Reload, sourceVars, loadVars
<1>8. ASSUME NEW a \in Attempt, LoadReads(a) \/ LoadFails(a) PROVE TypeOK'
  BY <1>8 DEF LoadReads, LoadFails, sourceVars, cacheVars, requestVars
<1>9. ASSUME NEW a \in Attempt, Store(a) PROVE TypeOK'
  <2>1. result[a] \in Version
    BY <1>9 DEF Store, Settles
  <2> QED BY <1>9, <2>1 DEF Store, Settles, Lifetime, sourceVars, requestVars
<1>10. ASSUME NEW a \in Attempt, Keep(a) PROVE TypeOK'
  BY <1>10 DEF Keep, Settles, Backoff, Smaller, InWindow, sourceVars, requestVars
<1>11. ASSUME NEW a \in Attempt, Finally(a) PROVE TypeOK'
  <2> DEFINE waiters == {c \in Caller : waitsFor[c] = a}
  <2>1. result[a] \in Version \cup {Failed} /\ resultAge[a] \in 0 .. Oldest
    BY <1>11 DEF Finally
  <2> DEFINE reply(c) == [data |-> result[a], age |-> resultAge[a],
                          floor |-> floorAt[c], waited |-> TRUE]
  <2>2. answers' \subseteq Answer
    <3>1. \A c \in Caller : reply(c) \in Answer
      BY <2>1 DEF Answer
    <3>2. answers' = {reply(c) : c \in waiters}
      BY <1>11 DEF Finally
    <3>3. waiters \subseteq Caller
      OBVIOUS
    <3> HIDE DEF waiters, reply
    <3> SUFFICES ASSUME NEW r \in answers' PROVE r \in Answer
      OBVIOUS
    <3>4. PICK c \in waiters : r = reply(c)
      BY <3>2
    <3> QED BY <3>1, <3>3, <3>4
  <2>3. floor' \in Version
    BY <1>11, <2>1 DEF Finally, Larger
  <2>4. waitsFor' \in [Caller -> Attempt \cup {None}]
    BY <1>11 DEF Finally
  <2> QED BY <1>11, <2>2, <2>3, <2>4 DEF Finally, SlotAfter, sourceVars
<1>12. CASE UNCHANGED vars
  BY <1>12 DEF vars
<1> QED
  BY <1>1, <1>2, <1>3, <1>4, <1>5, <1>6, <1>7, <1>8, <1>9, <1>10, <1>11, <1>12
     DEF Next, Get, LoadStep

\* Type correctness: deadlines, ages and results stay in range.
THEOREM LoaderTypeCorrect == Spec => []TypeOK
<1> QED BY TypeInit, TypeStep, PTL DEF Spec
-----------------------------------------------------------------------------
(***************************************************************************)
(* The slot: inFlight is always the one running load of the present        *)
(* generation, if there is one.                                            *)
(***************************************************************************)
SlotInv ==
    /\ \A a \in Attempt : Running(a) => gen[a] <= generation
    /\ inFlight # None => Running(inFlight) /\ gen[inFlight] = generation
    /\ \A a \in Attempt : Running(a) /\ gen[a] = generation => inFlight = a
    /\ SingleFlight

LEMMA SlotStep == ASSUME TypeOK, SlotInv, [Next]_vars PROVE SlotInv'
<1> USE LoaderAssumption DEF TypeOK, SlotInv, SingleFlight, Running
<1>1. CASE Change \/ Flap \/ Tick
  BY <1>1 DEF Change, Flap, Tick, cacheVars, loadVars
<1>2. CASE Clear
  BY <1>2 DEF Clear, loadVars
<1>3. ASSUME NEW a \in Attempt, Reload(a), inFlight = None, generation' = generation
      PROVE SlotInv'
  BY <1>3 DEF Reload
<1>4. ASSUME UNCHANGED <<inFlight, generation, loadVars>> PROVE SlotInv'
  BY <1>4 DEF loadVars
<1>5. ASSUME NEW c \in Caller, Get(c) PROVE SlotInv'
  BY <1>3, <1>4, <1>5 DEF Get, GetFresh, GetStale, GetWaits, cacheVars
<1>6. ASSUME NEW a \in Attempt, phase[a] # "idle",
             phase' = [phase EXCEPT ![a] = "answered"] \/ phase' = [phase EXCEPT ![a] = "settled"],
             UNCHANGED <<inFlight, generation, gen>>
      PROVE SlotInv'
  BY <1>6
<1>7. ASSUME NEW a \in Attempt, LoadReads(a) \/ LoadFails(a) \/ Store(a) \/ Keep(a)
      PROVE SlotInv'
  BY <1>6, <1>7 DEF LoadReads, LoadFails, Store, Keep, Settles, cacheVars
<1>8. ASSUME NEW a \in Attempt, Finally(a) PROVE SlotInv'
  BY <1>8 DEF Finally, SlotAfter
<1>9. CASE UNCHANGED vars
  BY <1>9 DEF vars
<1> QED BY <1>1, <1>2, <1>5, <1>7, <1>8, <1>9 DEF Next, LoadStep

\* However requests, clear() and the callbacks of loads interleave, no two
\* loads of one generation run at once.
THEOREM OneLoadAtATime == Spec => []SingleFlight
<1>1. Init => SlotInv
  BY DEF Init, SlotInv, SingleFlight, Running
<1>2. SlotInv => SingleFlight
  BY DEF SlotInv
<1> QED BY <1>1, <1>2, SlotStep, LoaderTypeCorrect, PTL DEF Spec
-----------------------------------------------------------------------------
(***************************************************************************)
(* Order: floor <= value <= what the running load has read <= source, for  *)
(* the load of the present generation, and a caller asked for no more than *)
(* what the load it waits for has read.                                    *)
(***************************************************************************)
Holds(a) == phase[a] \in {"answered", "settled"} /\ result[a] \in Version

ValueOrder ==
    /\ floor <= source
    /\ value # None => floor <= value /\ value <= source
    /\ \A c \in Caller : floorAt[c] <= source

LoadOrder(a) ==
    /\ Holds(a) => result[a] <= source
    /\ Holds(a) /\ gen[a] = generation =>
          /\ floor <= result[a]
          /\ value # None => value <= result[a]
          /\ phase[a] = "settled" => value = result[a] /\ freshLeft > 0

WaiterOrder(c) ==
    waitsFor[c] # None =>
        /\ Running(waitsFor[c])
        /\ gen[waitsFor[c]] = generation => floorAt[c] <= floor
        /\ Holds(waitsFor[c]) => floorAt[c] <= result[waitsFor[c]]

OrderInv ==
    /\ ValueOrder
    /\ \A a \in Attempt : LoadOrder(a)
    /\ \A c \in Caller : WaiterOrder(c)
    /\ AnswersInOrder

LEMMA OrderStep ==
    ASSUME TypeOK, SlotInv, OrderInv, [Next]_vars
    PROVE  OrderInv'
<1> USE LoaderAssumption DEF TypeOK, OrderInv, ValueOrder, LoadOrder, WaiterOrder,
        AnswersInOrder, Running, Holds, Version
<1>1. CASE Change
  BY <1>1 DEF Change, cacheVars, loadVars, requestVars
<1>2. CASE Flap
  BY <1>2 DEF Flap, cacheVars, loadVars, requestVars
<1>3. CASE Tick
  BY <1>3 DEF Tick, MayWait, sourceVars, requestVars
<1>4. CASE Clear
  BY <1>4 DEF Clear, SlotInv, sourceVars, loadVars
<1>5. ASSUME NEW c \in Caller, GetFresh(c) PROVE OrderInv'
  BY <1>5 DEF GetFresh, Fresh, AnswerNow, Larger, sourceVars, cacheVars, loadVars
<1>6. ASSUME NEW c \in Caller, GetStale(c) PROVE OrderInv'
  BY <1>6 DEF GetStale, InWindow, AnswerNow, Reload, Larger, sourceVars, loadVars
<1>7. ASSUME NEW c \in Caller, GetWaits(c) PROVE OrderInv'
  BY <1>7 DEF GetWaits, Reload, SlotInv, sourceVars, loadVars
<1>8. ASSUME NEW a \in Attempt, LoadReads(a) PROVE OrderInv'
  BY <1>8 DEF LoadReads, sourceVars, cacheVars, requestVars
<1>9. ASSUME NEW a \in Attempt, LoadFails(a) PROVE OrderInv'
  BY <1>9 DEF LoadFails, sourceVars, cacheVars, requestVars
<1>10. ASSUME NEW a \in Attempt, Store(a) PROVE OrderInv'
  BY <1>10 DEF Store, Settles, Current, Lifetime, SlotInv, sourceVars, requestVars
<1>11. ASSUME NEW a \in Attempt, Keep(a) PROVE OrderInv'
  BY <1>11 DEF Keep, Settles, Current, Backoff, Smaller, InWindow, SlotInv, sourceVars, requestVars
<1>12. ASSUME NEW a \in Attempt, Finally(a) PROVE OrderInv'
  BY <1>12 DEF Finally, SlotAfter, Larger, SlotInv, sourceVars
<1>13. CASE UNCHANGED vars
  BY <1>13 DEF vars
<1> QED
  BY <1>1, <1>2, <1>3, <1>4, <1>5, <1>6, <1>7, <1>8, <1>9, <1>10, <1>11, <1>12, <1>13
     DEF Next, Get, LoadStep

\* Whatever is served, dropped or kept: get() never answers with something
\* older than the source at the last clear(), nor than what the cache, or a load
\* that no clear() dropped, answered before the call.
THEOREM AnswersAreOrdered == Spec => []AnswersInOrder
<1>1. Init => SlotInv /\ OrderInv
  BY LoaderAssumption
     DEF Init, SlotInv, SingleFlight, OrderInv, ValueOrder, LoadOrder, WaiterOrder,
         AnswersInOrder, Running, Holds, Version
<1>2. OrderInv => AnswersInOrder
  BY DEF OrderInv
<1> QED BY <1>1, <1>2, SlotStep, OrderStep, LoaderTypeCorrect, PTL DEF Spec
-----------------------------------------------------------------------------
(***************************************************************************)
(* Age: the value and the time it has left add up to at most Oldest, and a *)
(* caller waits only for a load that cannot fall back on the old value.    *)
(***************************************************************************)
ValueInTime ==
    value # None => valueAge + freshLeft <= Oldest /\ valueAge + staleLeft <= Oldest

LoadInTime(a) == phase[a] = "answered" /\ result[a] \in Version => resultAge[a] <= elapsed[a]

WaiterInTime(c) ==
    waitsFor[c] # None =>
        LET a == waitsFor[c]
        IN  /\ phase[a] # "settled" /\ gen[a] = generation => ~Fresh /\ ~InWindow
            /\ phase[a] = "settled" /\ result[a] \in Version => resultAge[a] <= MaxLoad

AgeInv ==
    /\ ValueInTime
    /\ \A a \in Attempt : LoadInTime(a)
    /\ \A c \in Caller : WaiterInTime(c)
    /\ AgeBounded

LEMMA AgeStep ==
    ASSUME TypeOK, SlotInv, OrderInv, AgeInv, [Next]_vars
    PROVE  AgeInv'
<1> USE LoaderAssumption DEF TypeOK, AgeInv, ValueInTime, LoadInTime, WaiterInTime,
        AgeBounded, Running, Version, Fresh, InWindow, Oldest
<1>1. CASE Change
  BY <1>1 DEF Change, cacheVars, loadVars, requestVars
<1>2. CASE Flap
  BY <1>2 DEF Flap, cacheVars, loadVars, requestVars
<1>3. CASE Tick
  BY <1>3 DEF Tick, MayWait, Less, Older, sourceVars, requestVars
<1>4. CASE Clear
  BY <1>4 DEF Clear, sourceVars, loadVars
<1>5. ASSUME NEW c \in Caller, GetFresh(c) PROVE AgeInv'
  BY <1>5 DEF GetFresh, AnswerNow, sourceVars, cacheVars, loadVars
<1>6. ASSUME NEW c \in Caller, GetStale(c) PROVE AgeInv'
  BY <1>6 DEF GetStale, AnswerNow, Reload, OrderInv, WaiterOrder, sourceVars, loadVars
<1>7. ASSUME NEW c \in Caller, GetWaits(c) PROVE AgeInv'
  BY <1>7 DEF GetWaits, Reload, SlotInv, OrderInv, LoadOrder, Holds, sourceVars, loadVars
<1>8. ASSUME NEW a \in Attempt, LoadReads(a) PROVE AgeInv'
  BY <1>8 DEF LoadReads, sourceVars, cacheVars, requestVars
<1>9. ASSUME NEW a \in Attempt, LoadFails(a) PROVE AgeInv'
  BY <1>9 DEF LoadFails, sourceVars, cacheVars, requestVars
<1>10. ASSUME NEW a \in Attempt, Store(a) PROVE AgeInv'
  BY <1>10 DEF Store, Settles, Current, Lifetime, SlotInv, OrderInv, WaiterOrder,
               sourceVars, requestVars
<1>11. ASSUME NEW a \in Attempt, Keep(a) PROVE AgeInv'
  BY <1>11 DEF Keep, Settles, Current, Backoff, Smaller, SlotInv, OrderInv, WaiterOrder,
               sourceVars, requestVars
<1>12. ASSUME NEW a \in Attempt, Finally(a) PROVE AgeInv'
  BY <1>12 DEF Finally, SlotAfter, sourceVars
<1>13. CASE UNCHANGED vars
  BY <1>13 DEF vars
<1> QED
  BY <1>1, <1>2, <1>3, <1>4, <1>5, <1>6, <1>7, <1>8, <1>9, <1>10, <1>11, <1>12, <1>13
     DEF Next, Get, LoadStep

\* Whatever fails and for how long: an answer from the cache was current within
\* MaxLoad + TTL + StaleWindow, and a caller that waits never gets the old
\* value, so the line of the rejection handler that returns it reaches nobody.
THEOREM AnswersInTime == Spec => []AgeBounded
<1>1. Init => SlotInv /\ OrderInv /\ AgeInv
  BY LoaderAssumption
     DEF Init, SlotInv, SingleFlight, OrderInv, ValueOrder, LoadOrder, WaiterOrder,
         AnswersInOrder, Running, Holds, Version, AgeInv, ValueInTime, LoadInTime,
         WaiterInTime, AgeBounded
<1>2. AgeInv => AgeBounded
  BY DEF AgeInv
<1> QED BY <1>1, <1>2, SlotStep, OrderStep, AgeStep, LoaderTypeCorrect, PTL DEF Spec
-----------------------------------------------------------------------------
(***************************************************************************)
(* Pace: after a load, the time it leaves the value and the time gone by   *)
(* make up a TTL, unless a reload that failed left it the rest of the      *)
(* window.                                                                 *)
(***************************************************************************)
PaceInv ==
    /\ StaleWindow = 0 => staleLeft = 0
    /\ value # None => \/ freshLeft + quiet >= TTL
                       \/ StaleWindow > 0 /\ staleLeft <= freshLeft

LEMMA PaceStep == ASSUME TypeOK, PaceInv, [Next]_vars PROVE PaceInv'
<1> USE LoaderAssumption DEF TypeOK, PaceInv
<1>1. ASSUME UNCHANGED <<value, freshLeft, staleLeft, quiet>> PROVE PaceInv'
  BY <1>1
<1>2. CASE Change \/ Flap \/ UNCHANGED vars
  BY <1>1, <1>2 DEF Change, Flap, cacheVars, vars
<1>3. CASE Tick
  BY <1>3 DEF Tick, Less
<1>4. CASE Clear
  BY <1>4 DEF Clear
<1>5. ASSUME NEW c \in Caller, Get(c) PROVE PaceInv'
  BY <1>1, <1>5 DEF Get, GetFresh, GetStale, GetWaits, cacheVars
<1>6. ASSUME NEW a \in Attempt, LoadReads(a) \/ LoadFails(a) \/ Finally(a) PROVE PaceInv'
  BY <1>1, <1>6 DEF LoadReads, LoadFails, Finally, cacheVars
<1>7. ASSUME NEW a \in Attempt, Store(a) PROVE PaceInv'
  BY <1>1, <1>7 DEF Store, Lifetime
<1>8. ASSUME NEW a \in Attempt, Keep(a) PROVE PaceInv'
  BY <1>1, <1>8 DEF Keep, Backoff, Smaller, InWindow
<1> QED
  BY <1>2, <1>3, <1>4, <1>5, <1>6, <1>7, <1>8 DEF Next, LoadStep

\* A load starts only in a request that found no fresh value.
LEMMA StartStep ==
    ASSUME TypeOK, PaceInv, [Next]_vars, NEW a \in Attempt, ~Running(a), Running(a)'
    PROVE  value = None \/ (StaleWindow > 0 /\ staleLeft = 0) \/ quiet >= TTL
<1> USE LoaderAssumption DEF TypeOK, PaceInv, Running
<1>1. PICK c \in Caller : GetStale(c) \/ GetWaits(c)
  <2>1. CASE Change \/ Flap \/ Tick \/ Clear \/ UNCHANGED vars
    BY <2>1 DEF Change, Flap, Tick, Clear, loadVars, vars
  <2>2. ASSUME NEW c \in Caller, GetFresh(c) PROVE FALSE
    BY <2>2 DEF GetFresh, loadVars
  <2>3. ASSUME NEW b \in Attempt, LoadStep(b) PROVE FALSE
    BY <2>3 DEF LoadStep, LoadReads, LoadFails, Store, Keep, Settles, Finally
  <2> QED
    BY <2>1, <2>2, <2>3 DEF Next, Get
<1>2. value = None \/ freshLeft = 0
  BY <1>1 DEF GetStale, GetWaits, Fresh
<1> QED
  BY <1>2

\* Requests, however many and whether the loads succeed or fail, do not load a
\* value in service again within a TTL, except where a window has closed.
THEOREM LoadsAreSpaced == Spec => LoadsSpaced
<1>1. Init => PaceInv
  BY LoaderAssumption DEF Init, PaceInv
<1>2. TypeOK /\ PaceInv /\ [Next]_vars => PaceInv'
  BY PaceStep
<1>3. ASSUME TypeOK, PaceInv, [Next]_vars
      PROVE  [\A a \in Attempt :
                ~Running(a) /\ Running(a)' =>
                    \/ value = None
                    \/ StaleWindow > 0 /\ staleLeft = 0
                    \/ quiet >= TTL]_vars
  BY <1>3, StartStep
<1> QED
  BY <1>1, <1>2, <1>3, LoaderTypeCorrect, PTL DEF Spec, LoadsSpaced
-----------------------------------------------------------------------------
(***************************************************************************)
(* The slot as others see it: one load, two deadlines.  By SlotInv a load  *)
(* that is current is the one in the slot, so its handler ends the load of *)
(* TimedCache; the handler of a dropped one changes nothing there, and the *)
(* finally callback comes when the load is over already.                   *)
(***************************************************************************)
LEMMA SlotUnmoved ==
    ASSUME UNCHANGED <<value, freshLeft, staleLeft, inFlight>>,
           inFlight # None => (phase[inFlight] = "settled" <=> phase'[inFlight] = "settled")
    PROVE  UNCHANGED Slot!vars
BY DEF Slot!vars

LEMMA SlotTaken ==
    ASSUME TypeOK, NEW a \in Attempt, inFlight = None, Reload(a), ~Fresh,
           UNCHANGED <<value, freshLeft, staleLeft>>
    PROVE  Slot!Begin
<1>1. a # None /\ inFlight' = a /\ phase'[a] = "loading"
  BY LoaderAssumption DEF TypeOK, Reload
<1> QED BY <1>1 DEF Slot!Begin, Fresh

LEMMA TimedStep ==
    ASSUME TypeOK, SlotInv, [Next]_vars
    PROVE  [Slot!Next]_Slot!vars
<1> USE LoaderAssumption DEF TypeOK, Version
<1>1. CASE Change \/ Flap \/ UNCHANGED vars
  BY <1>1, SlotUnmoved DEF Change, Flap, cacheVars, loadVars, vars
<1>2. CASE Tick
  BY <1>2 DEF Tick, Less, Slot!Next, Slot!Tick
<1>3. CASE Clear
  BY <1>3 DEF Clear, Slot!Next, Slot!Clear
<1>4. ASSUME NEW c \in Caller, Get(c) PROVE [Slot!Next]_Slot!vars
  <2>1. CASE GetFresh(c)
    BY <2>1, SlotUnmoved DEF GetFresh, cacheVars, loadVars
  <2>2. CASE GetStale(c)
    BY <2>2, SlotUnmoved, SlotTaken DEF GetStale, loadVars, Slot!Next
  <2>3. CASE GetWaits(c)
    BY <2>3, SlotUnmoved, SlotTaken DEF GetWaits, loadVars, Slot!Next
  <2> QED BY <1>4, <2>1, <2>2, <2>3 DEF Get
<1>5. ASSUME NEW a \in Attempt, LoadReads(a) \/ LoadFails(a) PROVE UNCHANGED Slot!vars
  <2>1. UNCHANGED cacheVars /\ phase' = [phase EXCEPT ![a] = "answered"]
        /\ phase[a] \in {"loading", "answered"}
    BY <1>5 DEF LoadReads, LoadFails
  <2> QED BY <2>1, SlotUnmoved DEF cacheVars
<1>6. ASSUME NEW a \in Attempt, phase[a] = "answered"
      PROVE  /\ Current(a) => inFlight = a
             /\ ~Current(a) => inFlight # a
  BY <1>6 DEF Current, SlotInv, Running
<1>7. ASSUME NEW a \in Attempt, Store(a) PROVE [Slot!Next]_Slot!vars
  <2>1. /\ phase[a] = "answered" /\ inFlight' = inFlight /\ a # None
        /\ phase' = [phase EXCEPT ![a] = "settled"] /\ result[a] # None
    BY <1>7 DEF Store, Settles
  <2>2. CASE Current(a)
    <3>1. /\ value' = result[a] /\ freshLeft' = TTL
          /\ staleLeft' = IF StaleWindow > 0 THEN TTL + StaleWindow ELSE 0
      BY <1>7, <2>2 DEF Store, Lifetime
    <3> QED BY <1>6, <2>1, <2>2, <3>1 DEF Slot!Next, Slot!Succeed
  <2>3. CASE ~Current(a)
    <3>1. UNCHANGED <<value, freshLeft, staleLeft>>
      BY <1>7, <2>3 DEF Store
    <3> QED BY <1>6, <2>1, <2>3, <3>1, SlotUnmoved
  <2> QED BY <2>2, <2>3
<1>8. ASSUME NEW a \in Attempt, Keep(a) PROVE [Slot!Next]_Slot!vars
  <2>1. /\ phase[a] = "answered" /\ inFlight' = inFlight /\ a # None
        /\ phase' = [phase EXCEPT ![a] = "settled"] /\ UNCHANGED <<value, staleLeft>>
        /\ freshLeft' = IF Current(a) /\ InWindow THEN Backoff ELSE freshLeft
    BY <1>8 DEF Keep, Settles
  <2>2. CASE Current(a)
    BY <1>6, <2>1, <2>2 DEF Slot!Next, Slot!Fail, Slot!InService, InWindow, Backoff, Smaller
  <2>3. CASE ~Current(a)
    BY <1>6, <2>1, <2>3, SlotUnmoved
  <2> QED BY <2>2, <2>3
<1>9. ASSUME NEW a \in Attempt, Finally(a) PROVE UNCHANGED Slot!vars
  <2>1. /\ UNCHANGED <<value, freshLeft, staleLeft>> /\ phase[a] = "settled"
        /\ phase' = [phase EXCEPT ![a] = "idle"]
        /\ inFlight' = IF inFlight = a THEN None ELSE inFlight
    BY <1>9 DEF Finally, SlotAfter
  <2>2. CASE inFlight = a
    BY <2>1, <2>2 DEF Slot!vars
  <2>3. CASE inFlight # a
    BY <2>1, <2>3, SlotUnmoved
  <2> QED BY <2>2, <2>3
<1> QED BY <1>1, <1>2, <1>3, <1>4, <1>5, <1>7, <1>8, <1>9 DEF Next, LoadStep

\* The loader does what TimedCache promises to those who build on it, whatever its
\* requests, loads and clear() calls are: ImplementsTimedCache.
THEOREM LoaderImplements == Spec => ImplementsTimedCache
<1>1. Init => Slot!Init
  BY DEF Init, Slot!Init
<1>2. Init => SlotInv
  BY DEF Init, SlotInv, SingleFlight, Running
<1> QED BY <1>1, <1>2, SlotStep, TimedStep, LoaderTypeCorrect, PTL
        DEF Spec, ImplementsTimedCache, Slot!Spec
=============================================================================
