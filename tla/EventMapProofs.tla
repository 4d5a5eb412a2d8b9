---------------------------- MODULE EventMapProofs ----------------------------
(***************************************************************************)
(* Proofs about the festival on the map, for every set of routes, every    *)
(* TTL, stale window and query timeout: the type invariant, ConfigFollows  *)
(* and RoutesFollow.  The inductive invariant follows an activation on its *)
(* way up: read by a load, kept by its cache, handed to a route's load,    *)
(* kept by the route's cache.  At each stage it says how long ago the      *)
(* document may have ceased to be live, and after how long a rest of ops   *)
(* what is kept there is what the document says.                           *)
(***************************************************************************)
EXTENDS EventMap, TLAPS

USE EventAssumption DEF EventAssumption

A == "activation"

\* What a load has read goes with the step it is at.
ReadInv ==
    /\ got[A] \in Activation \cup {None, Failed}
    /\ pc[A] = "read" => got[A] # None
    /\ pc[A] # "read" => got[A] = None
    /\ \A r \in Route :
          /\ got[r] \in {"yes", "no", None, Failed}
          /\ pc[r] = "idle" => got[r] = None
          /\ pc[r] \in {"asks", "sent"} => got[r] = "no"
          /\ pc[r] = "read" => got[r] \in {"yes", Failed}
          /\ pc[r] = "ended" => got[r] \in {"no", Failed}
    /\ got = [k \in Cache |-> got[k]]
    /\ val = [k \in Cache |-> val[k]]

\* Whoever waits for the activation waits for a load that is under way, and not
\* for longer than it is.
WaitInv ==
    /\ "config" \in waits => pc[A] \in {"sent", "read"} /\ asked <= age[A]
    /\ \A r \in Route :
          pc[r] = "asks" => pc[A] \in {"sent", "read"} /\ age[r] <= age[A]
    /\ \A k \in Cache : /\ fresh[k] <= stale[k]
                        /\ stale[k] > 0 => val[k] # None

\* The document itself: how long it has not been live.
DocInv ==
    /\ Live => gone = 0
    /\ ~Live /\ activation # Over => gone <= 1 - activation

\* What was read or kept is the document's window, or both are over.
Agrees(v) == v = activation \/ (v = Over /\ ~Live)

\* The activation on its way into its cache.
ActInv ==
    /\ pc[A] = "read" /\ got[A] # Failed =>
          /\ got[A] # Over => gone <= age[A]
          /\ quiet > age[A] => Agrees(got[A])
    /\ stale[A] > 0 =>
          /\ val[A] # Over => gone <= Lag - stale[A]
          /\ quiet > Lag - stale[A] => Agrees(val[A])

\* A route's load, and its cache.
RouteInv ==
    \A r \in Route :
        /\ pc[r] = "sent" \/ (pc[r] = "read" /\ got[r] = "yes") =>
              /\ gone <= Lag - 1 + age[r]
              /\ quiet >= Lag + age[r] => gone <= MaxLoad + age[r]
        /\ pc[r] = "ended" /\ got[r] = "no" => (quiet >= Lag => ~Live)
        /\ stale[r] > 0 /\ val[r] = "yes" =>
              /\ gone <= RouteLag - stale[r]
              /\ quiet >= 2 * Lag - stale[r] => gone <= Lag + MaxLoad - stale[r]
        /\ stale[r] > 0 /\ val[r] = "no" =>
              (quiet >= 2 * Lag - stale[r] => ~Live)

IInv ==
    /\ TypeOK
    /\ ReadInv
    /\ WaitInv
    /\ DocInv
    /\ ActInv
    /\ RouteInv
    /\ ConfigFollows
    /\ RoutesFollow

-----------------------------------------------------------------------------
(* Facts about the windows of activations *)

\* The later of an activation is one; only what is far over becomes Over.
LEMMA LaterFacts ==
    ASSUME NEW v \in Activation
    PROVE  /\ Later(v) \in Activation
           /\ Later(v) # Over => v # Over
           /\ v \notin {Over, Open} => Later(v) = v - 1
           /\ v \in {Over, Open} => Later(v) = v
           /\ LiveAt(Later(v), 0) => LiveAt(v, 0)
BY DEF Activation, Later, LiveAt, Over, Open

\* Nothing that is Over was live within the longest query.
LEMMA OverIsOver == \A ago \in 0 .. MaxLoad : ~LiveAt(Over, ago)
BY DEF LiveAt, Over, Open

\* Looked at from a moment before, a window is no shorter.
LEMMA LiveEarlier ==
    ASSUME NEW v \in Activation, NEW ago \in Nat, LiveAt(v, 0) PROVE LiveAt(v, ago)
BY DEF LiveAt, Activation, Over, Open

\* The smaller of two numbers.
LEMMA MinOfTwo ==
    ASSUME NEW a \in Nat, NEW b \in Nat
    PROVE  Min({a, b}) \in Nat /\ Min({a, b}) <= a /\ Min({a, b}) <= b
           /\ (a > 0 /\ b > 0 => Min({a, b}) > 0)
<1>1. \E x \in {a, b} : \A y \in {a, b} : x <= y
  <2>1. CASE a <= b
    BY <2>1
  <2>2. CASE ~(a <= b)
    BY <2>2
  <2> QED
    BY <2>1, <2>2
<1>2. Min({a, b}) \in {a, b} /\ \A y \in {a, b} : Min({a, b}) <= y
  BY <1>1 DEF Min
<1> QED
  BY <1>2

\* A value that agrees with the document and was live a short while ago was the
\* document's own, which was live then.
LEMMA AgreesLive ==
    ASSUME TypeOK, DocInv, NEW v \in Activation, NEW ago \in 0 .. MaxLoad,
           Agrees(v), LiveAt(v, ago)
    PROVE  gone <= ago
BY OverIsOver DEF TypeOK, DocInv, Agrees, LiveAt, Live, Activation, Over, Open

\* One that agrees and was not live is of a document that is not.
LEMMA AgreesOver ==
    ASSUME TypeOK, NEW v \in Activation, NEW ago \in Nat, Agrees(v), ~LiveAt(v, ago)
    PROVE  ~Live
BY LiveEarlier DEF TypeOK, Agrees, Live

-----------------------------------------------------------------------------
(* The initial states *)

\* The invariant holds initially.
LEMMA InitInv == Init => IInv
<1> SUFFICES ASSUME Init PROVE IInv
  OBVIOUS
<1> USE DEF Init
<1>1. activation \in Activation
  BY DEF Activation, Over, Open
<1>2. gone \in 0 .. RouteLag /\ quiet \in 0 .. RouteLag
  BY DEF RouteLag, Lag
<1>3. TypeOK
  BY <1>1, <1>2 DEF TypeOK, Cache, Surface
<1>4. ReadInv /\ WaitInv
  BY DEF ReadInv, WaitInv, A, Cache
<1>5. DocInv
  BY <1>1, <1>2 DEF DocInv, Live, LiveAt, Over, Open
<1>6. ActInv
  BY DEF ActInv, A, Cache
<1>7. RouteInv
  BY DEF RouteInv, A, Cache
<1>8. ConfigFollows /\ RoutesFollow
  BY DEF ConfigFollows, RoutesFollow, Surface
<1> QED
  BY <1>3, <1>4, <1>5, <1>6, <1>7, <1>8 DEF IInv

-----------------------------------------------------------------------------
(* The document and time *)

\* Ops edit the activation: nothing is claimed of a document without rest.
LEMMA EditInv == ASSUME IInv, Edit PROVE IInv'
<1> USE DEF IInv
<1>1. /\ activation' \in Activation /\ quiet' = 0 /\ gone' \in {0, gone}
      /\ (Live' => gone' = 0)
      /\ activation' # Over => Live'
  <2>1. activation' \in {Over} \cup 1 .. Open /\ quiet' = 0
        /\ gone' = IF LiveAt(activation', 0) THEN 0 ELSE gone
    BY DEF Edit
  <2>2. activation' \in Activation
    BY <2>1 DEF Activation, Over, Open
  <2>3. activation' # Over => LiveAt(activation', 0)
    BY <2>1 DEF LiveAt, Open
  <2> QED
    BY <2>1, <2>2, <2>3 DEF Live
<1>2. UNCHANGED <<up, val, fresh, stale, pc, age, got, waits, asked, said>>
  BY DEF Edit, cacheVars, loadVars
<1>3. TypeOK'
  BY <1>1, <1>2 DEF TypeOK, RouteLag, Lag
<1>4. ReadInv' /\ WaitInv'
  BY <1>2 DEF ReadInv, WaitInv
<1>5. DocInv'
  BY <1>1 DEF DocInv
<1>6. ActInv'
  BY <1>1, <1>2 DEF ActInv, TypeOK, Lag, A, Cache
<1>7. RouteInv'
  BY <1>1, <1>2 DEF RouteInv, TypeOK, Lag, RouteLag, Cache
<1>8. ConfigFollows' /\ RoutesFollow'
  BY <1>1, <1>2 DEF ConfigFollows, RoutesFollow, TypeOK, Lag, RouteLag
<1> QED
  BY <1>3, <1>4, <1>5, <1>6, <1>7, <1>8

\* The database goes down or comes back.
LEMMA FlapInv == ASSUME IInv, Flap PROVE IInv'
<1> USE DEF IInv
<1>1. UNCHANGED <<activation, val, fresh, stale, pc, age, got, waits, asked, said, gone, quiet>>
      /\ up' \in BOOLEAN
  BY DEF Flap, cacheVars, loadVars, TypeOK
<1>2. TypeOK'
  BY <1>1 DEF TypeOK
<1>3. ReadInv' /\ WaitInv' /\ DocInv' /\ ActInv' /\ RouteInv'
  BY <1>1 DEF ReadInv, WaitInv, DocInv, ActInv, RouteInv, Agrees, Live
<1>4. ConfigFollows' /\ RoutesFollow'
  BY <1>1 DEF ConfigFollows, RoutesFollow, Live
<1> QED
  BY <1>2, <1>3, <1>4

\* A tick: everything that is not over grows older by one.
LEMMA TickInv == ASSUME IInv, Tick PROVE IInv'
<1> USE DEF IInv
<1>1. UNCHANGED <<up, pc, waits>> /\ activation' = Later(activation)
  BY DEF Tick
<1>2. /\ val'[A] = Later(val[A]) /\ \A r \in Route : val'[r] = val[r]
      /\ got'[A] = (IF got[A] = Failed THEN Failed ELSE Later(got[A]))
      /\ \A r \in Route : got'[r] = got[r]
      /\ val' = [k \in Cache |-> val'[k]] /\ got' = [k \in Cache |-> got'[k]]
  BY DEF Tick, ReadInv, A, Cache
<1>3. \A k \in Cache : /\ fresh'[k] \in 0 .. TTL /\ fresh'[k] = Less(fresh[k])
                       /\ stale'[k] \in 0 .. TTL + Window /\ stale'[k] = Less(stale[k])
  BY DEF Tick, TypeOK, Less
<1>4. \A k \in Cache : pc[k] \in {"sent", "read"} => age[k] < MaxLoad
  BY DEF Tick, MayWait
<1>5. \A r \in Route : pc[r] = "asks" => age[r] < MaxLoad
  BY <1>4 DEF WaitInv, TypeOK, A, Cache
<1>6. \A k \in Cache :
        /\ age'[k] \in 0 .. MaxLoad
        /\ pc[k] \in {"asks", "sent", "read"} => age'[k] = age[k] + 1
  BY <1>4, <1>5 DEF Tick, TypeOK, A, Cache
<1>7. \A k \in Cache : pc[k] # "ended"
  BY DEF Tick, MayWait
<1>8. /\ "config" \in waits => asked' = asked + 1 /\ asked < MaxLoad
      /\ "config" \notin waits => asked' = asked
  BY <1>4 DEF Tick, WaitInv, TypeOK, A, Cache
<1>9. said' = [s \in Surface |-> "nothing"]
  BY DEF Tick
<1>10. /\ activation' \in Activation
       /\ Live' => Live /\ gone' = 0
       /\ gone' \in 0 .. RouteLag /\ gone' <= gone + 1
       /\ quiet' \in 0 .. RouteLag /\ quiet' <= quiet + 1
       /\ quiet' = RouteLag \/ quiet' = quiet + 1
  BY LaterFacts DEF Tick, TypeOK, Live, Upto, RouteLag, Lag
<1>11. \A v \in Activation : Agrees(v) => Agrees(Later(v))'
  <2> SUFFICES ASSUME NEW v \in Activation, Agrees(v)
               PROVE  Later(v) = activation' \/ (Later(v) = Over /\ ~Live')
    BY DEF Agrees, Later
  <2> QED
    BY <1>1, <1>10, LaterFacts DEF Agrees, TypeOK
<1>12. TypeOK'
  <2>1. val'[A] \in Activation \cup {None}
    BY <1>2, LaterFacts DEF TypeOK, A, Later
  <2>2. /\ fresh' \in [Cache -> 0 .. TTL] /\ stale' \in [Cache -> 0 .. TTL + Window]
        /\ age' \in [Cache -> 0 .. MaxLoad]
    BY <1>3, <1>6 DEF Tick
  <2>3. asked' \in 0 .. MaxLoad
    BY <1>8 DEF TypeOK
  <2> QED
    BY <1>1, <1>2, <1>9, <1>10, <2>1, <2>2, <2>3 DEF TypeOK, A
<1>13. ReadInv'
  <2>1. got'[A] \in Activation \cup {None, Failed} /\ (got'[A] = None <=> got[A] = None)
    BY <1>2, LaterFacts DEF ReadInv, Activation, Later, Over, Open
  <2> QED
    BY <1>1, <1>2, <2>1 DEF ReadInv, A
<1>14. WaitInv'
  <2>1. A \in Cache /\ Route \subseteq Cache
    BY DEF A, Cache
  <2>2. /\ "config" \in waits' => pc'[A] \in {"sent", "read"} /\ asked' <= age'[A]
        /\ \A r \in Route :
              pc'[r] = "asks" => pc'[A] \in {"sent", "read"} /\ age'[r] <= age'[A]
    BY <1>1, <1>6, <1>8, <2>1 DEF WaitInv, TypeOK
  <2>3. \A k \in Cache : fresh'[k] <= stale'[k]
    BY <1>3 DEF WaitInv, TypeOK, Less
  <2>4. \A k \in Cache : stale'[k] > 0 => stale[k] > 0
    BY <1>3 DEF TypeOK, Less
  <2>5. \A k \in Cache : val[k] # None => val'[k] # None
    BY <1>2, LaterFacts DEF TypeOK, Cache, A, Activation, Over, Open
  <2> QED
    BY <2>2, <2>3, <2>4, <2>5 DEF WaitInv
<1>15. DocInv'
  <2>1. CASE Live'
    BY <1>10, <2>1 DEF DocInv
  <2>2. CASE ~Live' /\ activation' # Over
    <3>1. activation \notin {Over, Open} /\ activation' = activation - 1
      BY <1>1, <2>2, LaterFacts DEF TypeOK, Live, LiveAt
    <3> QED
      BY <1>10, <2>2, <3>1 DEF DocInv, TypeOK, Activation, Live, LiveAt, Over, Open
  <2> QED
    BY <2>1, <2>2 DEF DocInv
<1>16. ActInv'
  <2>1. A \in Cache
    BY DEF A, Cache
  <2>2. ASSUME pc'[A] = "read", got'[A] # Failed
        PROVE  /\ got'[A] # Over => gone' <= age'[A]
               /\ quiet' > age'[A] => Agrees(got[A])
               /\ got[A] \in Activation /\ got'[A] = Later(got[A])
    <3>1. got[A] \in Activation /\ got'[A] = Later(got[A]) /\ got[A] # Failed
      BY <1>1, <1>2, <2>2 DEF ReadInv
    <3> QED
      BY <1>1, <1>6, <1>10, <2>1, <2>2, <3>1, LaterFacts DEF ActInv, TypeOK, RouteLag, Lag
  <2>3. ASSUME stale'[A] > 0
        PROVE  /\ val'[A] # Over => gone' <= Lag - stale'[A]
               /\ quiet' > Lag - stale'[A] => Agrees(val[A])
               /\ val[A] \in Activation
    <3>1. stale'[A] = stale[A] - 1 /\ stale[A] > 1 /\ stale[A] \in Nat
      BY <1>3, <2>1, <2>3 DEF Less, TypeOK
    <3>2. val[A] \in Activation
      BY <2>1, <3>1 DEF WaitInv, TypeOK, A
    <3> QED
      BY <1>2, <1>10, <3>1, <3>2, LaterFacts DEF ActInv, TypeOK, RouteLag, Lag
  <2> QED
    BY <1>2, <1>11, <2>2, <2>3 DEF ActInv
<1>17. RouteInv'
  <2> SUFFICES ASSUME NEW r \in Route
      PROVE /\ pc'[r] = "sent" \/ (pc'[r] = "read" /\ got'[r] = "yes") =>
                  /\ gone' <= Lag - 1 + age'[r]
                  /\ quiet' >= Lag + age'[r] => gone' <= MaxLoad + age'[r]
            /\ pc'[r] = "ended" /\ got'[r] = "no" => (quiet' >= Lag => ~Live')
            /\ stale'[r] > 0 /\ val'[r] = "yes" =>
                  /\ gone' <= RouteLag - stale'[r]
                  /\ quiet' >= 2 * Lag - stale'[r] => gone' <= Lag + MaxLoad - stale'[r]
            /\ stale'[r] > 0 /\ val'[r] = "no" =>
                  (quiet' >= 2 * Lag - stale'[r] => ~Live')
    BY DEF RouteInv
  <2>1. r \in Cache
    BY DEF Cache
  <2>2. stale'[r] > 0 => stale[r] > 0 /\ stale'[r] = stale[r] - 1
    BY <1>3, <2>1 DEF Less, TypeOK
  <2>3. age'[r] \in Nat /\ age[r] \in Nat /\ stale[r] \in Nat
    BY <1>6, <2>1 DEF TypeOK
  <2>4. pc'[r] = "sent" \/ (pc'[r] = "read" /\ got'[r] = "yes") =>
           /\ gone' <= Lag - 1 + age'[r]
           /\ quiet' >= Lag + age'[r] => gone' <= MaxLoad + age'[r]
    BY <1>1, <1>2, <1>6, <1>10, <2>1, <2>3 DEF RouteInv, TypeOK, RouteLag, Lag
  <2>5. stale'[r] > 0 /\ val'[r] = "yes" =>
           /\ gone' <= RouteLag - stale'[r]
           /\ quiet' >= 2 * Lag - stale'[r] => gone' <= Lag + MaxLoad - stale'[r]
    BY <1>2, <1>10, <2>2, <2>3 DEF RouteInv, TypeOK, RouteLag, Lag
  <2>6. stale'[r] > 0 /\ val'[r] = "no" => (quiet' >= 2 * Lag - stale'[r] => ~Live')
    BY <1>2, <1>10, <2>2, <2>3 DEF RouteInv, TypeOK, RouteLag, Lag
  <2> QED
    BY <1>1, <1>7, <2>1, <2>4, <2>5, <2>6
<1>18. ConfigFollows' /\ RoutesFollow'
  BY <1>9 DEF ConfigFollows, RoutesFollow, Surface
<1> QED
  BY <1>12, <1>13, <1>14, <1>15, <1>16, <1>17, <1>18

-----------------------------------------------------------------------------
(* Requests *)

\* A load of the activation that starts has read nothing, and none is started
\* while one runs: whoever waits for it waits for one under way.
LEMMA ActivationAsked ==
    ASSUME IInv,
           pc'[A] = IF ActivationLoads THEN "sent" ELSE pc[A],
           age'[A] = IF ActivationLoads THEN 0 ELSE age[A]
    PROVE  /\ pc'[A] \in {"idle", "sent", "read"} /\ age'[A] \in 0 .. MaxLoad
           /\ pc'[A] = "read" => pc[A] = "read" /\ age'[A] = age[A]
           /\ pc[A] \in {"sent", "read"} => pc'[A] = pc[A] /\ age'[A] = age[A]
           /\ pc[A] = "read" => pc'[A] = "read"
           /\ ~Usable(A) => pc'[A] \in {"sent", "read"}
<1>1. A \in Cache
  BY DEF A, Cache
<1>2. ~Usable(A) => ~Fresh(A)
  BY <1>1 DEF IInv, WaitInv, TypeOK, Usable, Fresh
<1>3. pc[A] \in {"idle", "sent", "read"}
  BY <1>1 DEF IInv, TypeOK, A
<1> QED
  BY <1>1, <1>2, <1>3 DEF IInv, TypeOK, ActivationLoads, A

\* What a usable cached activation says.
LEMMA ActivationSays ==
    ASSUME IInv, Usable(A)
    PROVE  /\ val[A] \in Activation
           /\ LiveAt(val[A], 0) => gone < Lag
           /\ quiet >= Lag =>
                 /\ LiveAt(val[A], 0) => gone = 0
                 /\ ~LiveAt(val[A], 0) => ~Live
<1> USE DEF IInv
<1>1. A \in Cache /\ stale[A] \in Nat /\ stale[A] > 0 /\ val[A] \in Activation
  BY DEF A, Cache, Usable, TypeOK
<1>2. Lag \in Nat /\ Lag - stale[A] < Lag /\ quiet \in Int /\ gone \in Nat
  BY <1>1 DEF TypeOK, Lag, RouteLag
<1>3. LiveAt(val[A], 0) => val[A] # Over
  BY OverIsOver
<1>4. quiet >= Lag => Agrees(val[A])
  BY <1>1, <1>2 DEF ActInv
<1>5. Agrees(val[A]) /\ LiveAt(val[A], 0) => gone <= 0
  BY <1>1, AgreesLive
<1>6. Agrees(val[A]) /\ ~LiveAt(val[A], 0) => ~Live
  BY <1>1, AgreesOver
<1>7. val[A] # Over => gone < Lag
  BY <1>1, <1>2 DEF ActInv
<1> QED
  BY <1>1, <1>2, <1>3, <1>4, <1>5, <1>6, <1>7

\* GET /map/config.
LEMMA AskConfigInv == ASSUME IInv, AskConfig PROVE IInv'
<1> USE DEF IInv
<1>1. UNCHANGED <<activation, up, val, fresh, stale, got, gone, quiet>>
  BY DEF AskConfig, cacheVars
<1>2. /\ pc'[A] = IF ActivationLoads THEN "sent" ELSE pc[A]
      /\ age'[A] = IF ActivationLoads THEN 0 ELSE age[A]
      /\ \A r \in Route : pc'[r] = pc[r] /\ age'[r] = age[r]
  BY DEF AskConfig, TypeOK, A, Cache
<1>3. /\ pc'[A] \in {"idle", "sent", "read"} /\ age'[A] \in 0 .. MaxLoad
      /\ pc'[A] = "read" => pc[A] = "read" /\ age'[A] = age[A]
      /\ pc[A] \in {"sent", "read"} => pc'[A] = pc[A] /\ age'[A] = age[A]
      /\ pc[A] = "read" => pc'[A] = "read"
      /\ ~Usable(A) => pc'[A] \in {"sent", "read"}
  BY <1>2, ActivationAsked
<1>4. /\ \A r \in Route : said'[r] = said[r]
      /\ said' \in [Surface -> {"yes", "no", "error", "nothing"}]
      /\ \/ said'["config"] = said["config"]
         \/ Usable(A) /\ said'["config"] = YesNo(LiveAt(val[A], 0))
  BY DEF AskConfig, TypeOK, YesNo, ConfigOf, Surface, A
<1>5. /\ waits' \subseteq Surface /\ asked' \in 0 .. MaxLoad
      /\ "config" \in waits' => ~Usable(A) /\ asked' = 0
  <2>1. asked \in 0 .. MaxLoad /\ waits \subseteq Surface /\ "config" \in Surface
    BY DEF TypeOK, Surface
  <2>2. CASE Usable(A)
    <3>1. waits' = waits /\ asked' = asked /\ "config" \notin waits
      BY <2>2 DEF AskConfig, A
    <3> QED
      BY <2>1, <3>1
  <2>3. CASE ~Usable(A)
    <3>1. waits' = waits \cup {"config"} /\ asked' = 0
      BY <2>3 DEF AskConfig, A
    <3> QED
      BY <2>1, <2>3, <3>1
  <2> QED
    BY <2>2, <2>3
<1>6. TypeOK'
  BY <1>1, <1>2, <1>3, <1>4, <1>5 DEF TypeOK, AskConfig, A, Cache
<1>7. ReadInv'
  BY <1>1, <1>2, <1>3 DEF ReadInv
<1>8. WaitInv'
  <2>1. \A r \in Route : pc'[r] = "asks" => pc'[A] \in {"sent", "read"} /\ age'[r] <= age'[A]
    BY <1>2, <1>3 DEF WaitInv
  <2> QED
    BY <1>1, <1>3, <1>5, <2>1 DEF WaitInv
<1>9. DocInv' /\ ActInv'
  BY <1>1, <1>3 DEF DocInv, ActInv, Agrees, Live
<1>10. RouteInv'
  BY <1>1, <1>2 DEF RouteInv, Live
<1>11. ConfigFollows'
  <2>1. CASE said'["config"] = said["config"]
    BY <1>1, <2>1 DEF ConfigFollows, Live
  <2>2. CASE Usable(A) /\ said'["config"] = YesNo(LiveAt(val[A], 0))
    <3>1. /\ said'["config"] = "yes" => LiveAt(val[A], 0)
          /\ said'["config"] = "no" => ~LiveAt(val[A], 0)
      BY <2>2 DEF YesNo
    <3>2. 0 <= MaxLoad
      OBVIOUS
    <3> QED
      BY <1>1, <2>2, <3>1, <3>2, ActivationSays DEF ConfigFollows, Live
  <2> QED
    BY <1>4, <2>1, <2>2
<1>12. RoutesFollow'
  BY <1>1, <1>4 DEF RoutesFollow, Live
<1> QED
  BY <1>6, <1>7, <1>8, <1>9, <1>10, <1>11, <1>12

\* GET /map/overlays/event, and the place details.
LEMMA AskRouteInv == ASSUME IInv, NEW r \in Route, AskRoute(r) PROVE IInv'
<1> USE DEF IInv
<1> DEFINE loads == ~Fresh(r) /\ pc[r] = "idle"
           below == loads /\ ActivationLoads
           phase == IF Usable(A) THEN NextPhase(val[A], 0) ELSE "asks"
<1>1. UNCHANGED <<activation, up, val, fresh, stale, asked, gone, quiet>>
  BY DEF AskRoute, cacheVars
<1>2. r \in Cache /\ A \in Cache /\ r # A /\ r \in Surface /\ r # "config"
  BY DEF A, Cache, Surface
<1>3. /\ pc' = [pc EXCEPT ![r] = IF loads THEN phase ELSE @, ![A] = IF below THEN "sent" ELSE @]
      /\ age' = [age EXCEPT ![r] = IF loads THEN 0 ELSE @, ![A] = IF below THEN 0 ELSE @]
      /\ got' = [got EXCEPT ![r] = IF loads THEN "no" ELSE @]
  BY DEF AskRoute, A
<1> HIDE DEF loads, below, phase
<1>4. /\ pc'[r] = (IF loads THEN phase ELSE pc[r]) /\ pc'[A] = (IF below THEN "sent" ELSE pc[A])
      /\ age'[r] = (IF loads THEN 0 ELSE age[r]) /\ age'[A] = (IF below THEN 0 ELSE age[A])
      /\ got'[r] = (IF loads THEN "no" ELSE got[r]) /\ got'[A] = got[A]
      /\ \A q \in Route \ {r} : pc'[q] = pc[q] /\ age'[q] = age[q] /\ got'[q] = got[q]
      /\ got' = [k \in Cache |-> got'[k]]
  <2>1. DOMAIN pc = Cache /\ DOMAIN age = Cache /\ pc = [k \in Cache |-> pc[k]]
        /\ age = [k \in Cache |-> age[k]] /\ got = [k \in Cache |-> got[k]]
    BY DEF TypeOK, ReadInv
  <2>2. \A q \in Route \ {r} : q \in Cache /\ q # A /\ q # r
    BY DEF A, Cache
  <2>3. /\ pc'[r] = (IF loads THEN phase ELSE pc[r]) /\ pc'[A] = (IF below THEN "sent" ELSE pc[A])
        /\ \A q \in Route \ {r} : pc'[q] = pc[q]
    BY <1>2, <1>3, <2>1, <2>2
  <2>4. /\ age'[r] = (IF loads THEN 0 ELSE age[r]) /\ age'[A] = (IF below THEN 0 ELSE age[A])
        /\ \A q \in Route \ {r} : age'[q] = age[q]
    BY <1>2, <1>3, <2>1, <2>2
  <2>5. /\ got'[r] = (IF loads THEN "no" ELSE got[r]) /\ got'[A] = got[A]
        /\ \A q \in Route \ {r} : got'[q] = got[q]
        /\ got' = [k \in Cache |-> got'[k]]
    BY <1>2, <1>3, <2>1, <2>2
  <2> QED
    BY <2>3, <2>4, <2>5
<1>5. phase \in {"asks", "sent", "ended"}
  BY DEF phase, NextPhase
<1>6. /\ pc'[A] \in {"idle", "sent", "read"} /\ age'[A] \in 0 .. MaxLoad
      /\ pc'[A] = "read" => pc[A] = "read" /\ age'[A] = age[A]
      /\ pc[A] \in {"sent", "read"} => pc'[A] = pc[A] /\ age'[A] = age[A]
      /\ pc[A] = "read" => pc'[A] = "read"
      /\ loads /\ ~Usable(A) => pc'[A] \in {"sent", "read"}
  <2>1. CASE loads
    BY <1>4, <2>1, ActivationAsked DEF below
  <2>2. CASE ~loads
    BY <1>2, <1>4, <2>2 DEF below, TypeOK, A
  <2> QED
    BY <2>1, <2>2
<1>7. /\ \A s \in Surface \ {r} : said'[s] = said[s]
      /\ said' \in [Surface -> {"yes", "no", "error", "nothing"}]
      /\ \/ said'[r] = said[r]
         \/ Usable(r) /\ said'[r] = val[r]
      /\ waits' \subseteq Surface /\ ("config" \in waits' => "config" \in waits)
  <2>1. waits \subseteq Surface /\ val[r] \in {"yes", "no", None}
        /\ said \in [Surface -> {"yes", "no", "error", "nothing"}]
    BY DEF TypeOK
  <2>2. CASE Usable(r)
    <3>1. said' = [said EXCEPT ![r] = val[r]] /\ waits' = waits
      BY <2>2 DEF AskRoute
    <3>2. val[r] \in {"yes", "no"}
      BY <2>1, <2>2 DEF Usable
    <3> QED
      BY <1>2, <2>1, <2>2, <3>1, <3>2
  <2>3. CASE ~Usable(r)
    <3>1. said' = said /\ waits' = waits \cup {r}
      BY <2>3 DEF AskRoute
    <3> QED
      BY <1>2, <2>1, <3>1
  <2> QED
    BY <2>2, <2>3
<1>8. TypeOK'
  BY <1>1, <1>2, <1>3, <1>4, <1>5, <1>6, <1>7 DEF TypeOK, A
<1>9. ReadInv'
  BY <1>1, <1>2, <1>4, <1>5, <1>6 DEF ReadInv, loads
<1>10. WaitInv'
  <2>1. pc'[r] = "asks" => pc'[A] \in {"sent", "read"} /\ age'[r] <= age'[A]
    BY <1>4, <1>6 DEF phase, NextPhase, WaitInv
  <2>2. \A q \in Route \ {r} :
           pc'[q] = "asks" => pc'[A] \in {"sent", "read"} /\ age'[q] <= age'[A]
    BY <1>4, <1>6 DEF WaitInv
  <2>3. "config" \in waits' => pc'[A] \in {"sent", "read"} /\ asked' <= age'[A]
    BY <1>1, <1>6, <1>7 DEF WaitInv
  <2> QED
    BY <1>1, <2>1, <2>2, <2>3 DEF WaitInv
<1>11. DocInv' /\ ActInv'
  BY <1>1, <1>4, <1>6 DEF DocInv, ActInv, Agrees, Live
<1>12. RouteInv'
  <2>1. gone \in Nat /\ Lag \in Nat /\ quiet \in Nat /\ MaxLoad \in Nat
    BY DEF TypeOK, Lag, RouteLag
  <2>2. loads /\ pc'[r] = "sent" =>
           gone <= Lag - 1 /\ (quiet >= Lag => gone = 0)
    BY <1>4, <2>1, ActivationSays DEF phase, NextPhase, ConfigOf
  <2>3. loads /\ pc'[r] = "ended" => (quiet >= Lag => ~Live)
    BY <1>4, <2>1, ActivationSays DEF phase, NextPhase, ConfigOf
  <2>4. CASE loads
    <3>1. age'[r] = 0 /\ pc'[r] # "read" /\ got'[r] = "no"
      BY <1>4, <1>5, <2>4
    <3> QED
      BY <1>1, <1>4, <2>1, <2>2, <2>3, <2>4, <3>1 DEF RouteInv, Live
  <2>5. CASE ~loads
    BY <1>1, <1>4, <2>5 DEF RouteInv, Live
  <2> QED
    BY <2>4, <2>5
<1>13. ConfigFollows'
  BY <1>1, <1>2, <1>7 DEF ConfigFollows, Live, Surface
<1>14. RoutesFollow'
  <2>1. \A q \in Route \ {r} : said'[q] = said[q]
    BY <1>7 DEF Surface
  <2>2. Usable(r) => stale[r] \in Nat /\ stale[r] > 0
    BY <1>2 DEF Usable, TypeOK
  <2>3. gone \in Nat /\ quiet \in Nat /\ Lag \in Nat /\ RouteLag = 2 * Lag - 1
    BY DEF TypeOK, Lag, RouteLag
  <2>4. Usable(r) =>
           /\ val[r] = "yes" => gone < RouteLag
           /\ quiet >= RouteLag => /\ val[r] = "yes" => gone < Lag + MaxLoad
                                   /\ val[r] = "no" => ~Live
    BY <2>2, <2>3 DEF RouteInv
  <2> QED
    BY <1>1, <1>7, <2>1, <2>4 DEF RoutesFollow, Live
<1> QED
  BY <1>8, <1>9, <1>10, <1>11, <1>12, <1>13, <1>14

-----------------------------------------------------------------------------
(* Queries *)

\* What the query for the activation finds was live when the load began, and is
\* the document as it stands.
LEMMA FoundFacts ==
    ASSUME TypeOK, DocInv
    PROVE  Found \in Activation /\ Agrees(Found) /\ (Found # Over => gone <= age[A])
<1>1. age[A] \in 0 .. MaxLoad /\ activation \in Activation /\ Over \in Activation
  BY DEF TypeOK, A, Cache, Activation, Over, Open
<1>2. CASE LiveAt(activation, age[A])
  <2>1. Found = activation /\ Agrees(activation)
    BY <1>2 DEF Found, Agrees, A
  <2> QED
    BY <1>1, <1>2, <2>1, AgreesLive
<1>3. CASE ~LiveAt(activation, age[A])
  <2>1. Found = Over
    BY <1>3 DEF Found, A
  <2>2. ~Live
    BY <1>1, <1>3, LiveEarlier DEF Live
  <2> QED
    BY <1>1, <2>1, <2>2 DEF Agrees
<1> QED
  BY <1>2, <1>3

\* The query of a load reads, or fails: only that load's step changes.
LEMMA LoadInv == ASSUME IInv, NEW k \in Cache, Load(k) PROVE IInv'
<1> USE DEF IInv
<1> DEFINE found == IF k = A THEN Found ELSE "yes"
<1>1. UNCHANGED <<activation, up, val, fresh, stale, age, waits, asked, said, gone, quiet>>
  BY DEF Load, Reads, Loses, cacheVars
<1>2. /\ pc[k] \in {"sent", "read"} /\ pc' = [pc EXCEPT ![k] = "read"]
      /\ \/ pc[k] = "sent" /\ got' = [got EXCEPT ![k] = found]
         \/ got' = [got EXCEPT ![k] = Failed]
  BY DEF Load, Reads, Loses, A
<1> HIDE DEF found
<1>3. /\ pc'[k] = "read" /\ got'[k] \in {found, Failed}
      /\ pc[k] = "sent" \/ got'[k] = Failed
      /\ \A c \in Cache \ {k} : pc'[c] = pc[c] /\ got'[c] = got[c]
      /\ pc' \in [Cache -> {"idle", "asks", "sent", "read", "ended"}]
      /\ got' = [c \in Cache |-> got'[c]]
  <2>1. DOMAIN pc = Cache /\ got = [c \in Cache |-> got[c]]
    BY DEF TypeOK, ReadInv
  <2>2. /\ pc'[k] = "read" /\ \A c \in Cache \ {k} : pc'[c] = pc[c]
        /\ pc' \in [Cache -> {"idle", "asks", "sent", "read", "ended"}]
    BY <1>2, <2>1 DEF TypeOK
  <2>3. /\ got'[k] \in {found, Failed} /\ (pc[k] = "sent" \/ got'[k] = Failed)
        /\ \A c \in Cache \ {k} : got'[c] = got[c]
        /\ got' = [c \in Cache |-> got'[c]]
    BY <1>2, <2>1
  <2> QED
    BY <2>2, <2>3
<1>4. A \in Cache /\ Route \subseteq Cache /\ A \notin Route
  BY DEF A, Cache
<1>5. pc'[A] \in {pc[A], "read"} /\ (pc'[A] # pc[A] => pc[A] = "sent")
  BY <1>2, <1>3, <1>4
<1>6. TypeOK'
  BY <1>1, <1>3, <1>4, <1>5 DEF TypeOK, A
<1>7. k = A => got'[A] \in Activation \cup {Failed} /\ got'[A] # None
  BY <1>3, FoundFacts DEF found, Activation, Over, Open
<1>8. ReadInv'
  <2>1. /\ got'[A] \in Activation \cup {None, Failed}
        /\ pc'[A] = "read" => got'[A] # None
        /\ pc'[A] # "read" => got'[A] = None
    BY <1>3, <1>4, <1>7 DEF ReadInv
  <2>2. ASSUME NEW r \in Route
        PROVE  /\ got'[r] \in {"yes", "no", None, Failed}
               /\ pc'[r] = "idle" => got'[r] = None
               /\ pc'[r] \in {"asks", "sent"} => got'[r] = "no"
               /\ pc'[r] = "read" => got'[r] \in {"yes", Failed}
               /\ pc'[r] = "ended" => got'[r] \in {"no", Failed}
    BY <1>3, <1>4 DEF ReadInv, found
  <2> QED
    BY <1>1, <1>3, <2>1, <2>2 DEF ReadInv
<1>9. WaitInv'
  BY <1>1, <1>2, <1>3, <1>4, <1>5 DEF WaitInv
<1>10. DocInv'
  BY <1>1 DEF DocInv, Live
<1>11. ActInv'
  <2>1. CASE k = A
    BY <1>1, <1>3, <2>1, FoundFacts DEF ActInv, Agrees, Live, found
  <2>2. CASE k # A
    BY <1>1, <1>3, <1>4, <2>2 DEF ActInv, Agrees, Live
  <2> QED
    BY <2>1, <2>2
<1>12. RouteInv'
  <2> SUFFICES ASSUME NEW r \in Route
      PROVE /\ pc'[r] = "sent" \/ (pc'[r] = "read" /\ got'[r] = "yes") =>
                  pc[r] = "sent" \/ (pc[r] = "read" /\ got[r] = "yes")
            /\ pc'[r] = "ended" /\ got'[r] = "no" => pc[r] = "ended" /\ got[r] = "no"
    BY <1>1 DEF RouteInv, Live
  <2>1. CASE r = k
    BY <1>3, <2>1
  <2>2. CASE r # k
    BY <1>3, <1>4, <2>2
  <2> QED
    BY <2>1, <2>2
<1>13. ConfigFollows' /\ RoutesFollow'
  BY <1>1 DEF ConfigFollows, RoutesFollow, Live
<1> QED
  BY <1>6, <1>8, <1>9, <1>10, <1>11, <1>12, <1>13

-----------------------------------------------------------------------------
(* The ends of loads *)

\* What the end of a load leaves in its cache.
LEMMA Settled ==
    ASSUME IInv, NEW k \in Cache, Settle(k), got[k] # None
    PROVE  /\ fresh' \in [Cache -> 0 .. TTL] /\ stale' \in [Cache -> 0 .. TTL + Window]
           /\ val' = [c \in Cache |-> val'[c]]
           /\ \A c \in Cache \ {k} :
                 val'[c] = val[c] /\ fresh'[c] = fresh[c] /\ stale'[c] = stale[c]
           /\ \A c \in Cache : fresh'[c] <= stale'[c] /\ (stale'[c] > 0 => val'[c] # None)
           /\ got[k] # Failed => val'[k] = got[k] /\ stale'[k] = TTL + Window
           /\ got[k] = Failed => val'[k] = val[k] /\ stale'[k] = stale[k]
<1> USE DEF IInv
<1>1. /\ fresh \in [Cache -> 0 .. TTL] /\ stale \in [Cache -> 0 .. TTL + Window]
      /\ val = [c \in Cache |-> val[c]]
      /\ \A c \in Cache : fresh[c] <= stale[c] /\ (stale[c] > 0 => val[c] # None)
  BY DEF TypeOK, ReadInv, WaitInv
<1>2. CASE got[k] # Failed
  <2>1. /\ val' = [val EXCEPT ![k] = got[k]] /\ fresh' = [fresh EXCEPT ![k] = TTL]
        /\ stale' = [stale EXCEPT ![k] = TTL + Window]
    BY <1>2 DEF Settle
  <2>2. val'[k] = got[k] /\ val' = [c \in Cache |-> val'[c]]
        /\ \A c \in Cache \ {k} : val'[c] = val[c]
    BY <1>1, <2>1
  <2>3. /\ fresh' \in [Cache -> 0 .. TTL] /\ stale' \in [Cache -> 0 .. TTL + Window]
        /\ fresh'[k] = TTL /\ stale'[k] = TTL + Window
        /\ \A c \in Cache \ {k} : fresh'[c] = fresh[c] /\ stale'[c] = stale[c]
    BY <1>1, <2>1
  <2>4. ASSUME NEW c \in Cache
        PROVE  fresh'[c] <= stale'[c] /\ (stale'[c] > 0 => val'[c] # None)
    <3>1. CASE c = k
      BY <2>2, <2>3, <3>1
    <3>2. CASE c # k
      BY <1>1, <2>2, <2>3, <3>2
    <3> QED
      BY <3>1, <3>2
  <2> QED
    BY <1>2, <2>2, <2>3, <2>4
<1>3. CASE got[k] = Failed
  <2> DEFINE f == IF Usable(k) THEN Min({TTL, stale[k]}) ELSE fresh[k]
  <2>1. val' = val /\ stale' = stale /\ fresh' = [fresh EXCEPT ![k] = f]
    BY <1>3 DEF Settle
  <2>2. f \in 0 .. TTL /\ f <= stale[k]
    <3>1. fresh[k] \in 0 .. TTL /\ fresh[k] <= stale[k] /\ stale[k] \in Nat /\ TTL \in Nat
      BY <1>1
    <3>2. Min({TTL, stale[k]}) \in 0 .. TTL /\ Min({TTL, stale[k]}) <= stale[k]
      BY <3>1, MinOfTwo
    <3> QED
      BY <3>1, <3>2
  <2> HIDE DEF f
  <2>3. fresh' \in [Cache -> 0 .. TTL] /\ fresh'[k] = f
        /\ \A c \in Cache \ {k} : fresh'[c] = fresh[c]
    BY <1>1, <2>1, <2>2
  <2>4. \A c \in Cache : fresh'[c] <= stale'[c]
    BY <1>1, <2>1, <2>2, <2>3
  <2> QED
    BY <1>1, <1>3, <2>1, <2>3, <2>4
<1> QED
  BY <1>2, <1>3

\* What those who await the activation are given, and what becomes of it.
LEMMA ActivationGiven ==
    ASSUME IInv, pc[A] = "read", OutcomeOf(A) # Failed
    PROVE  /\ OutcomeOf(A) \in Activation
           /\ OutcomeOf(A) # Over => gone < Lag
           /\ quiet >= Lag => Agrees(OutcomeOf(A))
<1> USE DEF IInv
<1>1. /\ A \in Cache /\ age[A] \in Nat /\ age[A] <= MaxLoad /\ stale[A] \in Nat
      /\ gone \in Nat /\ quiet \in Nat
      /\ Lag \in Nat /\ Lag = MaxLoad + TTL + Window
  BY DEF TypeOK, A, Cache, Lag, RouteLag
<1>2. CASE got[A] # Failed
  <2>1. OutcomeOf(A) = got[A] /\ got[A] \in Activation
    BY <1>2 DEF OutcomeOf, ReadInv
  <2>2. got[A] # Over => gone <= age[A]
    BY <1>2 DEF ActInv
  <2>3. quiet > age[A] => Agrees(got[A])
    BY <1>2 DEF ActInv
  <2> QED
    BY <1>1, <2>1, <2>2, <2>3
<1>3. CASE got[A] = Failed
  <2>1. Usable(A) /\ OutcomeOf(A) = val[A]
    BY <1>3 DEF OutcomeOf
  <2>2. stale[A] > 0 /\ val[A] \in Activation
    BY <2>1 DEF Usable, TypeOK, A
  <2>3. val[A] # Over => gone <= Lag - stale[A]
    BY <2>2 DEF ActInv
  <2>4. quiet > Lag - stale[A] => Agrees(val[A])
    BY <2>2 DEF ActInv
  <2> QED
    BY <1>1, <2>1, <2>2, <2>3, <2>4
<1> QED
  BY <1>2, <1>3

\* And what it says to one who took its now some ticks ago.
LEMMA GivenSays ==
    ASSUME IInv, pc[A] = "read", OutcomeOf(A) # Failed, NEW ago \in 0 .. MaxLoad
    PROVE  /\ LiveAt(OutcomeOf(A), ago) => gone < Lag
           /\ quiet >= Lag =>
                 /\ LiveAt(OutcomeOf(A), ago) => gone <= ago
                 /\ ~LiveAt(OutcomeOf(A), ago) => ~Live
<1> DEFINE o == OutcomeOf(A)
<1>1. o \in Activation /\ (o # Over => gone < Lag) /\ (quiet >= Lag => Agrees(o))
  BY ActivationGiven
<1> HIDE DEF o
<1>2. TypeOK /\ DocInv /\ ago \in Nat
  BY DEF IInv
<1>3. LiveAt(o, ago) => o # Over
  BY OverIsOver
<1>4. Agrees(o) /\ LiveAt(o, ago) => gone <= ago
  BY <1>1, <1>2, AgreesLive
<1>5. Agrees(o) /\ ~LiveAt(o, ago) => ~Live
  BY <1>1, <1>2, AgreesOver
<1> QED
  BY <1>1, <1>3, <1>4, <1>5 DEF o

\* The load of the activation ends, and all that waited for it go on.
LEMMA EndActivationInv == ASSUME IInv, EndActivation PROVE IInv'
<1> USE DEF IInv
<1> DEFINE outcome == OutcomeOf(A)
           asking == {r \in Route : pc[r] = "asks"}
<1>1. UNCHANGED <<activation, up, gone, quiet>> /\ asked' = 0 /\ waits' = waits \ {"config"}
      /\ pc[A] = "read" /\ Settle(A)
  BY DEF EndActivation, A
<1>2. A \in Cache /\ Route \subseteq Cache /\ A \notin Route
  BY DEF A, Cache
<1>3. got[A] # None
  BY <1>1 DEF ReadInv
<1>4. /\ pc'[A] = "idle" /\ got'[A] = None /\ age'[A] = 0
      /\ \A r \in asking : /\ pc'[r] = GoesOn(outcome, age[r]) /\ age'[r] = 0
                           /\ got'[r] = IF outcome = Failed THEN Failed ELSE got[r]
      /\ \A r \in Route \ asking : pc'[r] = pc[r] /\ age'[r] = age[r] /\ got'[r] = got[r]
      /\ pc' = [c \in Cache |-> pc'[c]] /\ age' = [c \in Cache |-> age'[c]]
      /\ got' = [c \in Cache |-> got'[c]]
  <2>1. pc' = [k \in Cache |-> IF k = A THEN SlotAfter(k)
                               ELSE IF k \in asking THEN GoesOn(outcome, age[k]) ELSE pc[k]]
    BY DEF EndActivation, A
  <2>2. got' = [k \in Cache |-> IF k = A THEN None
                                ELSE IF k \in asking /\ outcome = Failed THEN Failed
                                ELSE got[k]]
    BY DEF EndActivation, A
  <2>3. age' = [k \in Cache |-> IF k \in asking \cup {A} THEN 0 ELSE age[k]]
    BY DEF EndActivation, A
  <2> HIDE DEF outcome
  <2> QED
    BY <1>2, <2>1, <2>2, <2>3 DEF SlotAfter
<1>5. \/ UNCHANGED said
      \/ said' = [said EXCEPT !["config"] =
                    IF outcome = Failed THEN "error" ELSE YesNo(LiveAt(outcome, asked))]
         /\ "config" \in waits
  BY DEF EndActivation, A, ConfigOf
<1>6. /\ fresh' \in [Cache -> 0 .. TTL] /\ stale' \in [Cache -> 0 .. TTL + Window]
      /\ val' = [c \in Cache |-> val'[c]]
      /\ \A c \in Cache \ {A} :
            val'[c] = val[c] /\ fresh'[c] = fresh[c] /\ stale'[c] = stale[c]
      /\ \A c \in Cache : fresh'[c] <= stale'[c] /\ (stale'[c] > 0 => val'[c] # None)
      /\ got[A] # Failed => val'[A] = got[A] /\ stale'[A] = TTL + Window
      /\ got[A] = Failed => val'[A] = val[A] /\ stale'[A] = stale[A]
  BY <1>1, <1>2, <1>3, Settled
<1>7. \A r \in asking : pc'[r] \in {"sent", "ended"}
  BY <1>4 DEF GoesOn, NextPhase
<1> HIDE DEF outcome
<1>8. TypeOK'
  <2>1. val'[A] \in Activation \cup {None}
    BY <1>3, <1>6 DEF TypeOK, ReadInv, A
  <2>2. \A r \in Route : val'[r] \in {"yes", "no", None}
    BY <1>2, <1>6 DEF TypeOK
  <2>3. \A c \in Cache : pc'[c] \in {"idle", "asks", "sent", "read", "ended"}
                         /\ age'[c] \in 0 .. MaxLoad
    <3>1. pc'[A] = "idle" /\ age'[A] = 0
      BY <1>4
    <3>2. \A r \in asking : pc'[r] \in {"sent", "ended"} /\ age'[r] = 0
      BY <1>4, <1>7
    <3>3. \A r \in Route \ asking : pc'[r] = pc[r] /\ age'[r] = age[r]
      BY <1>4
    <3>4. \A r \in Route : pc[r] \in {"idle", "asks", "sent", "read", "ended"}
                           /\ age[r] \in 0 .. MaxLoad
      BY <1>2 DEF TypeOK
    <3> QED
      BY <3>1, <3>2, <3>3, <3>4 DEF Cache, A
  <2>4. pc' \in [Cache -> {"idle", "asks", "sent", "read", "ended"}]
        /\ age' \in [Cache -> 0 .. MaxLoad]
    BY <1>4, <2>3
  <2>5. said' \in [Surface -> {"yes", "no", "error", "nothing"}]
    BY <1>5 DEF TypeOK, YesNo
  <2>6. waits' \subseteq Surface /\ asked' \in 0 .. MaxLoad /\ pc'[A] \notin {"asks", "ended"}
    BY <1>1, <1>4 DEF TypeOK
  <2> QED
    BY <1>1, <1>6, <2>1, <2>2, <2>4, <2>5, <2>6 DEF TypeOK, A
<1>9. ReadInv'
  <2>1. ASSUME NEW r \in Route
        PROVE  /\ got'[r] \in {"yes", "no", None, Failed}
               /\ pc'[r] = "idle" => got'[r] = None
               /\ pc'[r] \in {"asks", "sent"} => got'[r] = "no"
               /\ pc'[r] = "read" => got'[r] \in {"yes", Failed}
               /\ pc'[r] = "ended" => got'[r] \in {"no", Failed}
    <3>1. CASE r \in asking
      <4>1. got[r] = "no"
        BY <3>1 DEF ReadInv
      <4>2. outcome = Failed => pc'[r] = "ended"
        BY <1>4, <3>1 DEF GoesOn
      <4> QED
        BY <1>4, <1>7, <3>1, <4>1, <4>2
    <3>2. CASE r \notin asking
      BY <1>4, <3>2 DEF ReadInv
    <3> QED
      BY <3>1, <3>2
  <2> QED
    BY <1>4, <1>6, <2>1 DEF ReadInv
<1>10. WaitInv'
  <2>1. \A r \in Route : pc'[r] # "asks"
    BY <1>4, <1>7
  <2> QED
    BY <1>1, <1>6, <2>1 DEF WaitInv
<1>11. DocInv'
  BY <1>1 DEF DocInv, Live
<1>12. ActInv'
  <2>1. /\ age[A] \in Nat /\ age[A] <= MaxLoad /\ quiet \in Nat /\ gone \in Nat
        /\ Lag \in Nat /\ Lag - (TTL + Window) = MaxLoad
    BY <1>2 DEF TypeOK, Lag, RouteLag
  <2>2. CASE got[A] # Failed
    <3>1. val'[A] # Over => gone <= Lag - stale'[A]
      BY <1>1, <1>6, <2>1, <2>2 DEF ActInv
    <3>2. quiet > Lag - stale'[A] => Agrees(val'[A])
      BY <1>1, <1>6, <2>1, <2>2 DEF ActInv
    <3> QED
      BY <1>1, <1>4, <3>1, <3>2 DEF ActInv, Agrees, Live
  <2>3. CASE got[A] = Failed
    BY <1>1, <1>4, <1>6, <2>3 DEF ActInv, Agrees, Live
  <2> QED
    BY <2>2, <2>3
<1>13. RouteInv'
  <2> SUFFICES ASSUME NEW r \in Route
      PROVE /\ pc'[r] = "sent" \/ (pc'[r] = "read" /\ got'[r] = "yes") =>
                  /\ gone <= Lag - 1 + age'[r]
                  /\ quiet >= Lag + age'[r] => gone <= MaxLoad + age'[r]
            /\ pc'[r] = "ended" /\ got'[r] = "no" => (quiet >= Lag => ~Live)
    BY <1>1, <1>2, <1>6 DEF RouteInv, Live
  <2>1. CASE r \in asking
    <3>1. age[r] \in 0 .. MaxLoad /\ gone \in Nat /\ quiet \in Nat /\ Lag \in Nat
      BY <1>2 DEF TypeOK, Lag, RouteLag
    <3>2. age'[r] = 0 /\ pc'[r] = GoesOn(outcome, age[r])
      BY <1>4, <2>1
    <3>3. CASE outcome = Failed
      <4>1. pc'[r] = "ended" /\ got'[r] = Failed
        BY <1>4, <2>1, <3>3 DEF GoesOn
      <4>2. Failed # "no"
        OBVIOUS
      <4> QED
        BY <4>1, <4>2
    <3>4. CASE outcome # Failed
      <4>1. pc'[r] = IF LiveAt(outcome, age[r]) THEN "sent" ELSE "ended"
        BY <3>2, <3>4 DEF GoesOn, NextPhase, ConfigOf
      <4>2. /\ LiveAt(outcome, age[r]) => gone < Lag
            /\ quiet >= Lag =>
                 /\ LiveAt(outcome, age[r]) => gone <= age[r]
                 /\ ~LiveAt(outcome, age[r]) => ~Live
        BY <1>1, <3>1, <3>4, GivenSays DEF outcome
      <4> QED
        BY <3>1, <3>2, <4>1, <4>2
    <3> QED
      BY <3>3, <3>4
  <2>2. CASE r \notin asking
    BY <1>4, <2>2 DEF RouteInv
  <2> QED
    BY <2>1, <2>2
<1>14. ConfigFollows'
  <2>1. CASE UNCHANGED said
    BY <1>1, <2>1 DEF ConfigFollows, Live
  <2>2. CASE said' # said
    <3>1. said'["config"] = IF outcome = Failed THEN "error" ELSE YesNo(LiveAt(outcome, asked))
      BY <1>5, <2>2 DEF TypeOK, Surface
    <3>2. asked \in 0 .. MaxLoad /\ gone \in Nat
      BY DEF TypeOK
    <3>3. CASE outcome = Failed
      BY <1>1, <3>1, <3>3 DEF ConfigFollows
    <3>4. CASE outcome # Failed
      <4>1. /\ LiveAt(outcome, asked) => gone < Lag
            /\ quiet >= Lag =>
                 /\ LiveAt(outcome, asked) => gone <= asked
                 /\ ~LiveAt(outcome, asked) => ~Live
        BY <1>1, <3>2, <3>4, GivenSays DEF outcome
      <4>2. /\ said'["config"] = "yes" => LiveAt(outcome, asked)
            /\ said'["config"] = "no" => ~LiveAt(outcome, asked)
        BY <3>1, <3>4 DEF YesNo
      <4> QED
        BY <1>1, <3>2, <4>1, <4>2 DEF ConfigFollows, Live
    <3> QED
      BY <3>3, <3>4
  <2> QED
    BY <2>1, <2>2
<1>15. RoutesFollow'
  <2>1. \A r \in Route : said'[r] = said[r]
    BY <1>5 DEF TypeOK, Surface
  <2> QED
    BY <1>1, <2>1 DEF RoutesFollow, Live
<1> QED
  BY <1>8, <1>9, <1>10, <1>11, <1>12, <1>13, <1>14, <1>15

\* What those who await a route's load are given.
LEMMA RouteGiven ==
    ASSUME IInv, NEW r \in Route, pc[r] \in {"read", "ended"}, OutcomeOf(r) # Failed
    PROVE  /\ OutcomeOf(r) \in {"yes", "no"}
           /\ OutcomeOf(r) = "yes" => gone < RouteLag
           /\ quiet >= RouteLag => /\ OutcomeOf(r) = "yes" => gone < Lag + MaxLoad
                                   /\ OutcomeOf(r) = "no" => ~Live
<1> USE DEF IInv
<1>1. /\ age[r] \in Nat /\ age[r] <= MaxLoad /\ stale[r] \in Nat
      /\ gone \in Nat /\ quiet \in Nat
      /\ Lag \in Nat /\ MaxLoad < Lag /\ RouteLag = 2 * Lag - 1
  BY DEF TypeOK, Cache, Lag, RouteLag
<1>2. CASE got[r] # Failed
  <2>1. OutcomeOf(r) = got[r]
    BY <1>2 DEF OutcomeOf
  <2>2. \/ pc[r] = "read" /\ got[r] = "yes"
        \/ pc[r] = "ended" /\ got[r] = "no"
    BY <1>2 DEF ReadInv
  <2>3. pc[r] = "read" /\ got[r] = "yes" =>
           /\ gone <= Lag - 1 + age[r]
           /\ quiet >= Lag + age[r] => gone <= MaxLoad + age[r]
    BY DEF RouteInv
  <2>4. pc[r] = "ended" /\ got[r] = "no" => (quiet >= Lag => ~Live)
    BY DEF RouteInv
  <2> QED
    BY <1>1, <2>1, <2>2, <2>3, <2>4
<1>3. CASE got[r] = Failed
  <2>1. Usable(r) /\ OutcomeOf(r) = val[r]
    BY <1>3 DEF OutcomeOf
  <2>2. stale[r] > 0 /\ val[r] \in {"yes", "no"}
    BY <2>1 DEF Usable, TypeOK
  <2>3. val[r] = "yes" =>
           /\ gone <= RouteLag - stale[r]
           /\ quiet >= 2 * Lag - stale[r] => gone <= Lag + MaxLoad - stale[r]
    BY <2>2 DEF RouteInv
  <2>4. val[r] = "no" => (quiet >= 2 * Lag - stale[r] => ~Live)
    BY <2>2 DEF RouteInv
  <2> QED
    BY <1>1, <2>1, <2>2, <2>3, <2>4
<1> QED
  BY <1>2, <1>3

\* A route's load ends.
LEMMA EndRouteInv == ASSUME IInv, NEW r \in Route, EndRoute(r) PROVE IInv'
<1> USE DEF IInv
<1> DEFINE outcome == OutcomeOf(r)
<1>1. UNCHANGED <<activation, up, asked, gone, quiet>> /\ waits' = waits \ {r}
      /\ pc[r] \in {"read", "ended"} /\ Settle(r)
  BY DEF EndRoute
<1>2. A \in Cache /\ r \in Cache /\ Route \subseteq Cache /\ A # r /\ r \in Surface
  BY DEF A, Cache, Surface
<1>3. got[r] # None
  BY <1>1 DEF ReadInv
<1>4. /\ pc'[r] = "idle" /\ got'[r] = None /\ age'[r] = 0
      /\ \A c \in Cache \ {r} : pc'[c] = pc[c] /\ age'[c] = age[c] /\ got'[c] = got[c]
      /\ pc' \in [Cache -> {"idle", "asks", "sent", "read", "ended"}]
      /\ age' \in [Cache -> 0 .. MaxLoad]
      /\ got' = [c \in Cache |-> got'[c]]
  <2>1. /\ pc \in [Cache -> {"idle", "asks", "sent", "read", "ended"}]
        /\ age \in [Cache -> 0 .. MaxLoad] /\ got = [c \in Cache |-> got[c]]
    BY DEF TypeOK, ReadInv
  <2>2. /\ pc' = [pc EXCEPT ![r] = "idle"] /\ got' = [got EXCEPT ![r] = None]
        /\ age' = [age EXCEPT ![r] = 0]
    BY DEF EndRoute, SlotAfter
  <2> QED
    BY <1>2, <2>1, <2>2
<1>5. \/ UNCHANGED said
      \/ said' = [said EXCEPT ![r] = IF outcome = Failed THEN "error" ELSE outcome]
  BY DEF EndRoute
<1>6. /\ fresh' \in [Cache -> 0 .. TTL] /\ stale' \in [Cache -> 0 .. TTL + Window]
      /\ val' = [c \in Cache |-> val'[c]]
      /\ \A c \in Cache \ {r} :
            val'[c] = val[c] /\ fresh'[c] = fresh[c] /\ stale'[c] = stale[c]
      /\ \A c \in Cache : fresh'[c] <= stale'[c] /\ (stale'[c] > 0 => val'[c] # None)
      /\ got[r] # Failed => val'[r] = got[r] /\ stale'[r] = TTL + Window
      /\ got[r] = Failed => val'[r] = val[r] /\ stale'[r] = stale[r]
  BY <1>1, <1>2, <1>3, Settled
<1>7. outcome # Failed =>
         /\ outcome \in {"yes", "no"}
         /\ outcome = "yes" => gone < RouteLag
         /\ quiet >= RouteLag => /\ outcome = "yes" => gone < Lag + MaxLoad
                                 /\ outcome = "no" => ~Live
  BY <1>1, RouteGiven
<1> HIDE DEF outcome
<1>8. TypeOK'
  <2>1. val'[A] \in Activation \cup {None}
    BY <1>2, <1>6 DEF TypeOK, A
  <2>2. \A q \in Route : val'[q] \in {"yes", "no", None}
    <3> SUFFICES ASSUME NEW q \in Route PROVE val'[q] \in {"yes", "no", None}
      OBVIOUS
    <3>1. CASE q = r
      BY <1>1, <1>3, <1>6, <3>1 DEF TypeOK, ReadInv
    <3>2. CASE q # r
      BY <1>2, <1>6, <3>2 DEF TypeOK
    <3> QED
      BY <3>1, <3>2
  <2>3. said' \in [Surface -> {"yes", "no", "error", "nothing"}]
    <3>1. CASE outcome = Failed
      BY <1>5, <3>1 DEF TypeOK
    <3>2. CASE outcome # Failed
      BY <1>5, <1>7, <3>2 DEF TypeOK
    <3> QED
      BY <3>1, <3>2
  <2>4. waits' \subseteq Surface /\ pc'[A] \notin {"asks", "ended"}
    BY <1>1, <1>2, <1>4 DEF TypeOK, A
  <2> QED
    BY <1>1, <1>4, <1>6, <2>1, <2>2, <2>3, <2>4 DEF TypeOK, A
<1>9. ReadInv'
  <2>1. ASSUME NEW q \in Route
        PROVE  /\ got'[q] \in {"yes", "no", None, Failed}
               /\ pc'[q] = "idle" => got'[q] = None
               /\ pc'[q] \in {"asks", "sent"} => got'[q] = "no"
               /\ pc'[q] = "read" => got'[q] \in {"yes", Failed}
               /\ pc'[q] = "ended" => got'[q] \in {"no", Failed}
    <3>1. CASE q = r
      BY <1>4, <3>1
    <3>2. CASE q # r
      BY <1>2, <1>4, <3>2 DEF ReadInv
    <3> QED
      BY <3>1, <3>2
  <2> QED
    BY <1>2, <1>4, <1>6, <2>1 DEF ReadInv
<1>10. WaitInv'
  <2>1. \A q \in Route : pc'[q] = "asks" => pc'[A] \in {"sent", "read"} /\ age'[q] <= age'[A]
    BY <1>2, <1>4 DEF WaitInv
  <2>2. "config" \in waits' => pc'[A] \in {"sent", "read"} /\ asked' <= age'[A]
    BY <1>1, <1>2, <1>4 DEF WaitInv
  <2> QED
    BY <1>6, <2>1, <2>2 DEF WaitInv
<1>11. DocInv' /\ ActInv'
  BY <1>1, <1>2, <1>4, <1>6 DEF DocInv, ActInv, Agrees, Live
<1>12. RouteInv'
  <2>1. ASSUME NEW q \in Route, q # r
        PROVE  q \in Cache \ {r}
    BY <1>2, <2>1
  <2>2. /\ stale'[r] > 0 /\ val'[r] = "yes" =>
              /\ gone <= RouteLag - stale'[r]
              /\ quiet >= 2 * Lag - stale'[r] => gone <= Lag + MaxLoad - stale'[r]
        /\ stale'[r] > 0 /\ val'[r] = "no" =>
              (quiet >= 2 * Lag - stale'[r] => ~Live)
    <3>1. CASE got[r] = Failed
      BY <1>6, <3>1 DEF RouteInv
    <3>2. CASE got[r] # Failed
      <4>1. /\ age[r] \in Nat /\ age[r] <= MaxLoad /\ gone \in Nat /\ quiet \in Nat
            /\ Lag \in Nat /\ Lag = MaxLoad + stale'[r] /\ RouteLag = 2 * Lag - 1
            /\ stale'[r] \in Nat /\ MaxLoad \in Nat
        BY <1>2, <1>6, <3>2 DEF TypeOK, Lag, RouteLag
      <4>2. \/ pc[r] = "read" /\ val'[r] = "yes" /\ got[r] = "yes"
            \/ pc[r] = "ended" /\ val'[r] = "no" /\ got[r] = "no"
        BY <1>1, <1>6, <3>2 DEF ReadInv
      <4>3. CASE pc[r] = "read" /\ val'[r] = "yes" /\ got[r] = "yes"
        <5>1. /\ gone <= Lag - 1 + age[r]
              /\ quiet >= Lag + age[r] => gone <= MaxLoad + age[r]
          BY <4>3 DEF RouteInv
        <5> QED
          BY <4>1, <4>3, <5>1
      <4>4. CASE pc[r] = "ended" /\ val'[r] = "no" /\ got[r] = "no"
        <5>1. quiet >= Lag => ~Live
          BY <4>4 DEF RouteInv
        <5> QED
          BY <4>1, <4>4, <5>1
      <4> QED
        BY <4>2, <4>3, <4>4
    <3> QED
      BY <3>1, <3>2
  <2> SUFFICES ASSUME NEW q \in Route
      PROVE /\ pc'[q] = "sent" \/ (pc'[q] = "read" /\ got'[q] = "yes") =>
                  /\ gone <= Lag - 1 + age'[q]
                  /\ quiet >= Lag + age'[q] => gone <= MaxLoad + age'[q]
            /\ pc'[q] = "ended" /\ got'[q] = "no" => (quiet >= Lag => ~Live)
            /\ stale'[q] > 0 /\ val'[q] = "yes" =>
                  /\ gone <= RouteLag - stale'[q]
                  /\ quiet >= 2 * Lag - stale'[q] => gone <= Lag + MaxLoad - stale'[q]
            /\ stale'[q] > 0 /\ val'[q] = "no" =>
                  (quiet >= 2 * Lag - stale'[q] => ~Live)
    BY <1>1 DEF RouteInv, Live
  <2>3. CASE q = r
    BY <1>4, <2>2, <2>3
  <2>4. CASE q # r
    BY <1>4, <1>6, <2>1, <2>4 DEF RouteInv
  <2> QED
    BY <2>3, <2>4
<1>13. ConfigFollows'
  <2>1. said'["config"] = said["config"]
    BY <1>5 DEF TypeOK, Surface
  <2> QED
    BY <1>1, <2>1 DEF ConfigFollows, Live
<1>14. RoutesFollow'
  <2>1. \A q \in Route \ {r} : said'[q] = said[q]
    BY <1>5 DEF TypeOK, Surface
  <2>2. \/ said'[r] = said[r]
        \/ said'[r] = "error"
        \/ outcome # Failed /\ said'[r] = outcome
    BY <1>2, <1>5 DEF TypeOK
  <2>3. /\ said'[r] = "yes" => gone < RouteLag
        /\ quiet >= RouteLag => /\ said'[r] = "yes" => gone < Lag + MaxLoad
                                /\ said'[r] = "no" => ~Live
    BY <1>7, <2>2 DEF RoutesFollow
  <2> QED
    BY <1>1, <2>1, <2>3 DEF RoutesFollow, Live
<1> QED
  BY <1>8, <1>9, <1>10, <1>11, <1>12, <1>13, <1>14

-----------------------------------------------------------------------------
(* The theorems *)

\* Every step keeps the invariant.
LEMMA StepInv == IInv /\ [Next]_vars => IInv'
<1> SUFFICES ASSUME IInv, [Next]_vars PROVE IInv'
  OBVIOUS
<1>1. CASE Edit
  BY <1>1, EditInv
<1>2. CASE Flap
  BY <1>2, FlapInv
<1>3. CASE Tick
  BY <1>3, TickInv
<1>4. CASE AskConfig
  BY <1>4, AskConfigInv
<1>5. ASSUME NEW r \in Route, AskRoute(r) PROVE IInv'
  BY <1>5, AskRouteInv
<1>6. ASSUME NEW k \in Cache, Load(k) PROVE IInv'
  BY <1>6, LoadInv
<1>7. CASE EndActivation
  BY <1>7, EndActivationInv
<1>8. ASSUME NEW r \in Route, EndRoute(r) PROVE IInv'
  BY <1>8, EndRouteInv
<1>9. CASE UNCHANGED vars
  <2>1. UNCHANGED <<activation, up, val, fresh, stale, pc, age, got, waits, asked,
                    said, gone, quiet>>
    BY <1>9 DEF vars
  <2>2. TypeOK' /\ ReadInv' /\ WaitInv'
    BY <2>1 DEF IInv, TypeOK, ReadInv, WaitInv
  <2>3. DocInv' /\ ActInv'
    BY <2>1 DEF IInv, DocInv, ActInv, Agrees, Live
  <2>4. RouteInv'
    BY <2>1 DEF IInv, RouteInv, Live
  <2>5. ConfigFollows' /\ RoutesFollow'
    BY <2>1 DEF IInv, ConfigFollows, RoutesFollow, Live
  <2> QED
    BY <2>2, <2>3, <2>4, <2>5 DEF IInv
<1> QED
  BY <1>1, <1>2, <1>3, <1>4, <1>5, <1>6, <1>7, <1>8, <1>9 DEF Next, Ask, End

\* The variables keep their types.
THEOREM TypeCorrect == Spec => []TypeOK
<1>1. IInv => TypeOK
  BY DEF IInv
<1> QED
  BY <1>1, InitInv, StepInv, PTL DEF Spec

\* Whatever ops, time, the database and the requests do, /map/config is never
\* behind the activation by more than one cache may lag.
THEOREM ConfigIsBounded == Spec => []ConfigFollows
<1>1. IInv => ConfigFollows
  BY DEF IInv
<1> QED
  BY <1>1, InitInv, StepInv, PTL DEF Spec

\* And the markers and the place details by no more than two, less a tick.
THEOREM RoutesAreBounded == Spec => []RoutesFollow
<1>1. IInv => RoutesFollow
  BY DEF IInv
<1> QED
  BY <1>1, InitInv, StepInv, PTL DEF Spec

-----------------------------------------------------------------------------
(***************************************************************************)
(* Each cache is one that createCachedLoader makes: a step of this module  *)
(* is, for each of its caches, one of TimedCache or none at all.  The end  *)
(* of a load is one step here and two callbacks there.                     *)
(***************************************************************************)
LEMMA MinIs ==
    ASSUME NEW a \in Nat, NEW b \in Nat
    PROVE  Min({a, b}) = IF b < a THEN b ELSE a
<1>1. \E x \in {a, b} : \A y \in {a, b} : x <= y
  OBVIOUS
<1>2. Min({a, b}) \in {a, b} /\ \A y \in {a, b} : Min({a, b}) <= y
  BY <1>1 DEF Min
<1> QED BY <1>2

\* A load that ends.
LEMMA SettleEnds ==
    ASSUME IInv, NEW k \in Cache, Settle(k), got[k] # None, pc[k] # "idle", pc'[k] = "idle"
    PROVE  Slot(k)!Next
<1>1. /\ fresh[k] \in 0 .. TTL /\ stale[k] \in 0 .. TTL + Window /\ k \in DOMAIN val
      /\ fresh \in [Cache -> 0 .. TTL] /\ stale \in [Cache -> 0 .. TTL + Window]
  BY DEF IInv, TypeOK, ReadInv
<1>2. CASE got[k] # Failed
  <2>1. val'[k] = got[k] /\ fresh'[k] = TTL /\ stale'[k] = TTL + Window
    BY <1>1, <1>2 DEF Settle
  <2> QED BY <2>1 DEF Slot!Next, Slot!Succeed
<1>3. CASE got[k] = Failed
  <2>1. /\ val' = val /\ stale' = stale
        /\ fresh'[k] = IF Usable(k) THEN Min({TTL, stale[k]}) ELSE fresh[k]
    BY <1>1, <1>3 DEF Settle
  <2>2. Min({TTL, stale[k]}) = IF stale[k] < TTL THEN stale[k] ELSE TTL
    BY <1>1, MinIs
  <2> QED BY <2>1, <2>2 DEF Slot!Next, Slot!Fail, Slot!InService, Usable
<1> QED BY <1>2, <1>3

\* A load that begins, or a request that begins none.
LEMMA AskBegins ==
    ASSUME NEW k \in Cache, fresh[k] \in Int, UNCHANGED <<val, fresh, stale>>,
           pc'[k] = pc[k] \/ (fresh[k] <= 0 /\ pc[k] = "idle" /\ pc'[k] # "idle")
    PROVE  Slot(k)!Next \/ UNCHANGED Slot(k)!vars
<1>1. CASE pc'[k] = pc[k]
  BY <1>1 DEF Slot!vars
<1>2. CASE fresh[k] <= 0 /\ pc[k] = "idle" /\ pc'[k] # "idle"
  <2>1. ~(fresh[k] > 0)
    BY <1>2
  <2> QED BY <1>2, <2>1 DEF Slot!Next, Slot!Begin
<1> QED BY <1>1, <1>2

LEMMA TimedStep ==
    ASSUME IInv, [Next]_vars, NEW k \in Cache
    PROVE  Slot(k)!Next \/ UNCHANGED Slot(k)!vars
<1>0. /\ A \in Cache /\ Route \subseteq Cache /\ A \notin Route /\ Cache = {A} \cup Route
      /\ pc \in [Cache -> {"idle", "asks", "sent", "read", "ended"}]
      /\ fresh \in [Cache -> 0 .. TTL] /\ stale \in [Cache -> 0 .. TTL + Window]
      /\ val = [c \in Cache |-> val[c]] /\ val[A] \in Activation \cup {None}
  BY DEF A, Cache, IInv, TypeOK, ReadInv
<1>1. CASE Edit \/ Flap \/ UNCHANGED vars
  BY <1>1 DEF Edit, Flap, cacheVars, loadVars, vars, Slot!vars
<1>2. CASE Tick
  <2>1. pc' = pc /\ fresh'[k] = Less(fresh[k]) /\ stale'[k] = Less(stale[k])
    BY <1>2 DEF Tick
  <2>2. val' = [val EXCEPT ![A] = Later(@)]
    BY <1>2 DEF Tick, A
  <2>3. (val'[k] # None) = (val[k] # None)
    <3>1. CASE k = A
      <4>1. val'[A] = Later(val[A])
        BY <1>0, <2>2
      <4>2. \A v \in Activation : Later(v) \in Activation /\ v # None
        BY LaterFacts DEF Activation
      <4> QED BY <1>0, <3>1, <4>1, <4>2 DEF Later
    <3>2. CASE k # A
      BY <1>0, <2>2, <3>2
    <3> QED BY <3>1, <3>2
  <2> QED BY <1>0, <2>1, <2>3 DEF Less, Slot!Next, Slot!Tick
<1>3. ASSUME AskConfig PROVE Slot(k)!Next \/ UNCHANGED Slot(k)!vars
  <2>1. /\ UNCHANGED <<val, fresh, stale>>
        /\ pc' = [pc EXCEPT ![A] = IF ActivationLoads THEN "sent" ELSE @]
    BY <1>3 DEF AskConfig, cacheVars, A
  <2>2. ActivationLoads => fresh[A] <= 0 /\ pc[A] = "idle"
    BY <1>0 DEF ActivationLoads, Fresh, A
  <2> QED BY <1>0, <2>1, <2>2, AskBegins
<1>4. ASSUME NEW r \in Route, AskRoute(r) PROVE Slot(k)!Next \/ UNCHANGED Slot(k)!vars
  <2> DEFINE loads == ~Fresh(r) /\ pc[r] = "idle"
             below == loads /\ ActivationLoads
             phase == IF Usable(A) THEN NextPhase(val[A], 0) ELSE "asks"
  <2>1. /\ UNCHANGED <<val, fresh, stale>>
        /\ pc' = [pc EXCEPT ![r] = IF loads THEN phase ELSE @, ![A] = IF below THEN "sent" ELSE @]
    BY <1>4 DEF AskRoute, cacheVars, A
  <2>2. /\ loads => fresh[r] <= 0 /\ pc[r] = "idle" /\ phase # "idle"
        /\ below => fresh[A] <= 0 /\ pc[A] = "idle"
    BY <1>0 DEF ActivationLoads, Fresh, NextPhase, A
  <2> HIDE DEF loads, below, phase
  <2>3. /\ pc'[r] = IF loads THEN phase ELSE pc[r]
        /\ pc'[A] = IF below THEN "sent" ELSE pc[A]
        /\ \A c \in Cache \ {r, A} : pc'[c] = pc[c]
    BY <1>0, <2>1
  <2> QED BY <1>0, <2>1, <2>2, <2>3, AskBegins
<1>5. ASSUME NEW c \in Cache, Load(c) PROVE UNCHANGED Slot(k)!vars
  <2>1. UNCHANGED <<val, fresh, stale>> /\ pc' = [pc EXCEPT ![c] = "read"] /\ pc[c] # "idle"
    BY <1>5 DEF Load, Reads, Loses, cacheVars
  <2> QED BY <1>0, <2>1 DEF Slot!vars
<1>6. CASE EndActivation
  <2> DEFINE asking == {r \in Route : pc[r] = "asks"}
             outcome == OutcomeOf(A)
  <2>1. Settle(A) /\ pc[A] = "read" /\ got[A] # None
    BY <1>6 DEF EndActivation, A, IInv, ReadInv
  <2>2. pc' = [c \in Cache |-> IF c = A THEN "idle"
                             ELSE IF c \in asking THEN GoesOn(outcome, age[c]) ELSE pc[c]]
    BY <1>6 DEF EndActivation, A, SlotAfter
  <2>3. CASE k = A
    BY <1>0, <2>1, <2>2, <2>3, SettleEnds
  <2>4. CASE k # A
    <3>1. (pc'[k] # "idle") = (pc[k] # "idle")
      BY <1>0, <2>2, <2>4 DEF GoesOn, NextPhase
    <3>2. val'[k] = val[k] /\ fresh'[k] = fresh[k] /\ stale'[k] = stale[k]
      BY <1>0, <2>1, <2>4, Settled
    <3> QED BY <3>1, <3>2 DEF Slot!vars
  <2> QED BY <2>3, <2>4
<1>7. ASSUME NEW r \in Route, EndRoute(r) PROVE Slot(k)!Next \/ UNCHANGED Slot(k)!vars
  <2>1. Settle(r) /\ pc[r] \in {"read", "ended"} /\ got[r] # None
    BY <1>7 DEF EndRoute, IInv, ReadInv
  <2>2. pc' = [pc EXCEPT ![r] = "idle"]
    BY <1>7 DEF EndRoute, SlotAfter
  <2>3. CASE k = r
    BY <1>0, <2>1, <2>2, <2>3, SettleEnds
  <2>4. CASE k # r
    <3>1. val'[k] = val[k] /\ fresh'[k] = fresh[k] /\ stale'[k] = stale[k]
      BY <1>0, <2>1, <2>4, Settled
    <3> QED BY <1>0, <2>2, <2>4, <3>1 DEF Slot!vars
  <2> QED BY <2>3, <2>4
<1> QED BY <1>1, <1>2, <1>3, <1>4, <1>5, <1>6, <1>7 DEF Next, Ask, End

\* However the caches wait on each other, each keeps to what TimedCache promises:
\* CachesAreTimed.
THEOREM CachesImplement == Spec => CachesAreTimed
<1>1. Init => \A k \in Cache : Slot(k)!Init
  BY DEF Init, Slot!Init
<1>2. IInv /\ [Next]_vars => [\A k \in Cache : [Slot(k)!Next]_(Slot(k)!vars)]_vars
  BY TimedStep
<1> QED BY <1>1, <1>2, InitInv, StepInv, PTL DEF Spec, CachesAreTimed
=============================================================================
