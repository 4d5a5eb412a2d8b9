------------------------ MODULE NoticeDispatchProofs ------------------------
(***************************************************************************)
(* Proofs about NoticeDispatch, for every set of servers and notices and   *)
(* every value of the caps, the lease and the timeout.                     *)
(***************************************************************************)
EXTENDS NoticeDispatch, FiniteSetTheorems, TLAPS

\* What a sweep leaves of its batch when it takes a group out of it is finite
\* and smaller by at least one document.
LEMMA GroupShrinksBatch ==
    ASSUME NEW S, IsFiniteSet(S), NEW n \in S
    PROVE  /\ IsFiniteSet(S \ GroupOf(S, n))
           /\ Cardinality(S \ GroupOf(S, n)) \in Nat
           /\ Cardinality(S) \in Nat
           /\ Cardinality(S \ GroupOf(S, n)) + 1 <= Cardinality(S)
<1>1. n \in GroupOf(S, n)
  BY DEF GroupOf
<1>2. /\ IsFiniteSet(S \ {n})
      /\ Cardinality(S \ {n}) = Cardinality(S) - 1
  BY FS_RemoveElement
<1>3. /\ IsFiniteSet(S \ GroupOf(S, n))
      /\ Cardinality(S \ GroupOf(S, n)) <= Cardinality(S \ {n})
  <2>1. S \ GroupOf(S, n) \subseteq S \ {n}
    BY <1>1
  <2> QED BY <1>2, <2>1, FS_Subset
<1>4. /\ Cardinality(S) \in Nat
      /\ Cardinality(S \ {n}) \in Nat
      /\ Cardinality(S \ GroupOf(S, n)) \in Nat
  BY <1>2, <1>3, FS_CardinalityType
<1> QED BY <1>2, <1>3, <1>4

LEMMA TypeInit == Init => TypeOK
BY DispatchAssumption, FS_EmptySet DEF Init, TypeOK, Unclaimed, Expired, PC, DocState

\* Every step keeps the types.
LEMMA TypeStep == ASSUME TypeOK, [Next]_vars PROVE TypeOK'
<1> USE DispatchAssumption DEF Unclaimed, Expired, PC, DocState, TypeOK
<1>1. ASSUME NEW n \in Notice, Summarise(n) \/ Withdraw(n) PROVE TypeOK'
  BY <1>1 DEF Summarise, Withdraw, sweepVars, history
<1>2. CASE Tick
  BY <1>2 DEF Tick, history
<1>3. ASSUME NEW s \in Server, StartSweep(s) PROVE TypeOK'
  BY <1>3 DEF StartSweep, docVars, history
<1>4. ASSUME NEW s \in Server, NEW n \in Notice, ClaimNext(s, n) PROVE TypeOK'
  <2>1. /\ IsFiniteSet(batch[s] \cup {n})
        /\ Cardinality(batch[s] \cup {n}) <= BatchCap
    <3>1. IsFiniteSet(batch[s]) /\ Cardinality(batch[s]) \in Nat
      BY FS_CardinalityType
    <3>2. Cardinality(batch[s]) < BatchCap
      BY <1>4 DEF ClaimNext
    <3>3. /\ IsFiniteSet(batch[s] \cup {n})
          /\ Cardinality(batch[s] \cup {n}) \in {Cardinality(batch[s]), Cardinality(batch[s]) + 1}
      BY <3>1, FS_AddElement
    <3> QED BY ONLY <3>1, <3>2, <3>3, BatchCap \in Nat
  <2> QED BY <1>4, <2>1 DEF ClaimNext, history
<1>5. ASSUME NEW s \in Server, ClaimEnds(s) PROVE TypeOK'
  BY <1>5 DEF ClaimEnds, docVars, history
<1>6. ASSUME NEW s \in Server, NEW n \in Notice, StartGroup(s, n) PROVE TypeOK'
  <2> DEFINE G == GroupOf(batch[s], n)
  <2>1. /\ IsFiniteSet(batch[s] \ G)
        /\ Cardinality(batch[s] \ G) <= BatchCap
    <3>1. n \in batch[s] /\ IsFiniteSet(batch[s])
      BY <1>6 DEF StartGroup
    <3>2. /\ IsFiniteSet(batch[s] \ G)
          /\ Cardinality(batch[s] \ G) \in Nat
          /\ Cardinality(batch[s]) \in Nat
          /\ Cardinality(batch[s] \ G) + 1 <= Cardinality(batch[s])
      BY ONLY <3>1, GroupShrinksBatch
    <3> QED BY ONLY <3>2, Cardinality(batch[s]) <= BatchCap, BatchCap \in Nat
  <2>2. G \subseteq Notice
    BY DEF GroupOf
  <2>3. /\ group' = [group EXCEPT ![s] = G]
        /\ todo' = [todo EXCEPT ![s] = G]
        /\ batch' = [batch EXCEPT ![s] = batch[s] \ G]
        /\ postAge' = [postAge EXCEPT ![s] = 0]
        /\ pc' \in [Server -> PC]
        /\ UNCHANGED <<docVars, history, faults>>
    BY <1>6 DEF StartGroup
  <2> HIDE DEF G
  <2> QED BY <2>1, <2>2, <2>3 DEF docVars, history
<1>7. ASSUME NEW G, NEW T, T \in Payloads(G), G \subseteq Notice, Delivered(G, T)
      PROVE  deliveries' \in [Notice -> Nat] /\ announced' \in [Notice -> SUBSET Topic]
  <2>1. TopicUnion(G) \subseteq Topic
    BY <1>7 DEF TopicUnion
  <2>2. T \subseteq Topic
    BY <1>7, <2>1 DEF Payloads
  <2> QED BY <1>7, <2>2 DEF Delivered, CountUp
<1>8. ASSUME NEW S PROVE CountUp(lost, S) \in [Notice -> Nat]
  BY DEF CountUp
<1>9. ASSUME NEW s \in Server, PostSucceeds(s) \/ PostFails(s) PROVE TypeOK'
  <2>1. /\ deliveries' \in [Notice -> Nat]
        /\ announced' \in [Notice -> SUBSET Topic]
        /\ lost' \in [Notice -> Nat]
    BY <1>7, <1>8, <1>9 DEF PostSucceeds, PostFails, history
  <2> QED BY <1>9, <2>1 DEF PostSucceeds, PostFails, docVars
<1>10. ASSUME NEW n \in Notice, MarkPushed(n) \/ ReleaseClaim(n)
       PROVE  /\ doc' \in [Notice -> DocState]
              /\ pushed' \in [Notice -> BOOLEAN]
              /\ attempts' \in [Notice -> Nat]
              /\ claimAge' \in [Notice -> Unclaimed .. Expired]
  <2>1. CASE MarkPushed(n)
    BY <2>1 DEF MarkPushed
  <2>2. CASE ReleaseClaim(n)
    BY <2>2 DEF ReleaseClaim
  <2> QED BY <1>10, <2>1, <2>2
<1>11. ASSUME NEW s \in Server, NEW n \in Notice, MarkOne(s, n) \/ ReleaseOne(s, n)
       PROVE  TypeOK'
  <2>1. CASE MarkOne(s, n)
    BY <2>1, <1>10 DEF MarkOne, history
  <2>2. CASE ReleaseOne(s, n)
    BY <2>2, <1>10 DEF ReleaseOne, history
  <2> QED BY <1>11, <2>1, <2>2
<1>12. ASSUME NEW s \in Server, NEW n \in Notice, RecordFails(s, n) PROVE TypeOK'
  <2>1. /\ doc' \in [Notice -> DocState]
        /\ pushed' \in [Notice -> BOOLEAN]
        /\ attempts' \in [Notice -> Nat]
        /\ claimAge' \in [Notice -> Unclaimed .. Expired]
        /\ lost' \in [Notice -> Nat]
    BY <1>12, <1>8, <1>10 DEF RecordFails, docVars
  <2> QED BY <1>12, <2>1 DEF RecordFails
<1>13. ASSUME NEW s \in Server, GroupEnds(s) \/ SweepEnds(s) PROVE TypeOK'
  BY <1>13 DEF GroupEnds, SweepEnds, docVars, history
<1>14. ASSUME NEW s \in Server, FaultStep(s) PROVE TypeOK'
  <2>1. /\ doc' \in [Notice -> DocState]
        /\ pushed' \in [Notice -> BOOLEAN]
        /\ attempts' \in [Notice -> Nat]
        /\ claimAge' \in [Notice -> Unclaimed .. Expired]
    <3>1. CASE ClaimFails(s)
      BY <3>1 DEF ClaimFails
    <3>2. CASE Crash(s)
      BY <3>2 DEF Crash, docVars
    <3>3. ASSUME NEW n \in Notice, LoopFails(s, n)
          PROVE  <2>1
      BY <3>3, <1>10 DEF LoopFails, docVars
    <3> QED BY <1>14, <3>1, <3>2, <3>3 DEF FaultStep
  <2>2. /\ deliveries' \in [Notice -> Nat]
        /\ announced' \in [Notice -> SUBSET Topic]
        /\ lost' \in [Notice -> Nat]
    <3>1. CASE ClaimFails(s)
      BY <3>1 DEF ClaimFails, history
    <3>2. CASE Crash(s)
      BY <3>2, <1>7, <1>8 DEF Crash, history
    <3>3. ASSUME NEW n \in Notice, LoopFails(s, n)
          PROVE  <2>2
      BY <3>3 DEF LoopFails, history
    <3> QED BY <1>14, <3>1, <3>2, <3>3 DEF FaultStep
  <2>3. Fault /\ Abandon(s)
    BY <1>14 DEF FaultStep, ClaimFails, Crash, LoopFails
  <2> QED BY <2>1, <2>2, <2>3, FS_EmptySet DEF Fault, Abandon
<1>15. CASE UNCHANGED vars
  BY <1>15 DEF vars
<1> QED
  BY <1>1, <1>2, <1>3, <1>4, <1>5, <1>6, <1>9, <1>11, <1>12, <1>13, <1>14, <1>15
     DEF Next, Environment, SweepStep

\* Type correctness: batches stay within sweepBatchCap, ages within the lease
\* and the timeout, and the counters are natural numbers.
THEOREM TypeCorrect == Spec => []TypeOK
<1> QED BY TypeInit, TypeStep, PTL DEF Spec
-----------------------------------------------------------------------------
(***************************************************************************)
(* The lease covers the sweep.  If the lease is at least as long as the    *)
(* longest sweep - BatchCap calls, each up to the timeout - then a document *)
(* stays leased for as long as its sweep holds it, so no other sweep can   *)
(* claim it.  The inductive invariant bounds the age of every held claim   *)
(* by the time the sweep can have spent: each call took at least one       *)
(* document out of the batch, so at most BatchCap - Cardinality(batch)     *)
(* calls are over.                                                         *)
(***************************************************************************)
LeaseCovers == BatchCap * Timeout <= Lease

\* The longest the claims of s can be old.
Spent(s) ==
    CASE pc[s] = "claim" -> 0
      [] pc[s] = "post"  -> (BatchCap - Cardinality(batch[s]) - 1) * Timeout + postAge[s]
      [] OTHER           -> (BatchCap - Cardinality(batch[s])) * Timeout

\* The sets of a sweep, in each of its phases.
Phases(s) ==
    /\ pc[s] = "idle" => batch[s] = {}
    /\ pc[s] \in {"idle", "claim", "dispatch"} => group[s] = {}
    /\ todo[s] \subseteq group[s]
    /\ batch[s] \cap group[s] = {}
    /\ pc[s] = "post" => todo[s] = group[s] /\ Cardinality(batch[s]) + 1 <= BatchCap
    /\ pc[s] \in {"post", "record", "skip"} => \A n \in todo[s] : ~pushed[n]
    /\ pc[s] = "record" => \A n \in group[s] \ todo[s] : pushed[n]

Leased(s) == \A n \in Holding(s) : ~pushed[n] /\ claimAge[n] \in 0 .. Spent(s)

LeaseInv == TypeOK /\ (\A s \in Server : Phases(s) /\ Leased(s)) /\ ClaimsDisjoint

\* One more call fits into the time of one more document.
LEMMA OneMoreCall ==
    ASSUME NEW j \in Nat, NEW k \in Nat, j + 1 <= k
    PROVE  /\ j * Timeout \in Nat
           /\ k * Timeout \in Nat
           /\ j * Timeout + Timeout <= k * Timeout
<1>1. Timeout \in Nat
  BY DispatchAssumption
<1>2. PICK d \in Nat : k = j + 1 + d
  BY k - j - 1 \in Nat
<1>3. k * Timeout = j * Timeout + Timeout + d * Timeout
  BY <1>1, <1>2
<1>4. j * Timeout \in Nat /\ d * Timeout \in Nat
  BY <1>1
<1> QED BY <1>1, <1>3, <1>4

\* An amount that leaves room for one call within the lease, plus a call.
LEMMA CallFits ==
    ASSUME NEW x \in Nat, NEW b \in Nat, x + Timeout <= b, b <= Lease,
           NEW p \in 0 .. Timeout
    PROVE  x + p \in 0 .. Lease
BY DispatchAssumption

\* What a sweep can have spent is a natural number and within the lease.
LEMMA SpentWithinLease ==
    ASSUME LeaseCovers, TypeOK, NEW s \in Server, Phases(s)
    PROVE  /\ Spent(s) \in 0 .. Lease
           /\ Cardinality(batch[s]) \in 0 .. BatchCap
<1> DEFINE c == Cardinality(batch[s])
<1>1. c \in Nat /\ c <= BatchCap /\ BatchCap \in Nat /\ Timeout \in Nat /\ Lease \in Nat
  BY FS_CardinalityType, DispatchAssumption DEF TypeOK
<1>2. BatchCap * Timeout <= Lease /\ BatchCap * Timeout \in Nat
  BY <1>1 DEF LeaseCovers
<1>3. CASE pc[s] = "claim"
  BY <1>1, <1>3 DEF Spent
<1>4. CASE pc[s] = "post"
  <2>1. c + 1 <= BatchCap /\ postAge[s] \in 0 .. Timeout
    BY <1>4 DEF Phases, TypeOK
  <2>2. BatchCap - c - 1 \in Nat /\ (BatchCap - c - 1) + 1 <= BatchCap
    BY <1>1, <2>1
  <2>3. /\ (BatchCap - c - 1) * Timeout \in Nat
        /\ (BatchCap - c - 1) * Timeout + Timeout <= BatchCap * Timeout
    BY <1>1, <2>2, OneMoreCall
  <2>4. Spent(s) = (BatchCap - c - 1) * Timeout + postAge[s]
    BY <1>4 DEF Spent
  <2>5. (BatchCap - c - 1) * Timeout + postAge[s] \in 0 .. Lease
    BY <1>2, <2>1, <2>3, CallFits
  <2> QED BY <1>1, <2>4, <2>5
<1>5. CASE pc[s] # "claim" /\ pc[s] # "post"
  <2>1. Spent(s) = (BatchCap - c) * Timeout
    BY <1>5 DEF Spent
  <2>2. CASE c = 0
    BY <1>1, <1>2, <2>1, <2>2
  <2>3. CASE c > 0
    <3>1. BatchCap - c \in Nat /\ (BatchCap - c) + 1 <= BatchCap
      BY <1>1, <2>3
    <3>2. /\ (BatchCap - c) * Timeout \in Nat
          /\ (BatchCap - c) * Timeout + Timeout <= BatchCap * Timeout
      BY <1>1, <3>1, OneMoreCall
    <3>3. (BatchCap - c) * Timeout + 0 \in 0 .. Lease
      BY <1>1, <1>2, <3>2, CallFits
    <3> QED BY <1>1, <2>1, <3>2, <3>3
  <2> QED BY <1>1, <2>2, <2>3
<1> QED BY <1>1, <1>3, <1>4, <1>5

\* A sweep that takes no part in a step keeps what it holds and its bounds, if
\* the step leaves alone the documents it holds and settles nothing back.
LEMMA BystanderKeeps ==
    ASSUME NEW t \in Server, Phases(t), Leased(t),
           pc'[t] = pc[t], batch'[t] = batch[t], group'[t] = group[t],
           todo'[t] = todo[t], postAge'[t] = postAge[t],
           \A n \in Notice : pushed[n] => pushed'[n],
           batch[t] \cup todo[t] \subseteq Notice,
           group[t] \subseteq Notice,
           \A n \in Holding(t) : pushed'[n] = pushed[n] /\ claimAge'[n] = claimAge[n]
    PROVE  Phases(t)' /\ Leased(t)' /\ Holding(t)' \subseteq Holding(t)
<1>1. Spent(t)' = Spent(t)
  BY DEF Spent
<1>2. Holding(t)' \subseteq Holding(t)
  BY DEF Holding
<1>3. Leased(t)'
  BY <1>1, <1>2 DEF Leased
<1>4. Phases(t)'
  BY DEF Phases, Holding
<1> QED BY <1>2, <1>3, <1>4

\* A step of s: no other sweep moves, and only documents in N are touched.
OnlyMoves(s) ==
    \A t \in Server \ {s} :
        /\ pc'[t] = pc[t] /\ batch'[t] = batch[t] /\ group'[t] = group[t]
        /\ todo'[t] = todo[t] /\ postAge'[t] = postAge[t]

Touches(N) ==
    /\ \A n \in Notice \ N : pushed'[n] = pushed[n] /\ claimAge'[n] = claimAge[n]
    /\ \A n \in Notice : pushed[n] => pushed'[n]

\* It is enough to look at the sweep that moves, when the documents it touches
\* are held by no other sweep.
LEMMA OneSweepMoves ==
    ASSUME LeaseInv, NEW s \in Server, NEW N, OnlyMoves(s), Touches(N),
           \A t \in Server \ {s} : Holding(t) \cap N = {},
           Phases(s)', Leased(s)', Holding(s)' \subseteq Holding(s) \cup N
    PROVE  (\A t \in Server : Phases(t)' /\ Leased(t)') /\ ClaimsDisjoint'
<1>1. ASSUME NEW t \in Server \ {s}
      PROVE  Phases(t)' /\ Leased(t)' /\ Holding(t)' \subseteq Holding(t)
  <2>1. batch[t] \cup todo[t] \subseteq Notice /\ group[t] \subseteq Notice
    BY DEF LeaseInv, TypeOK
  <2>2. Holding(t) \subseteq Notice \ N
    BY <2>1 DEF Holding
  <2>3. Phases(t) /\ Leased(t)
    BY DEF LeaseInv
  <2>4. \A n \in Holding(t) : pushed'[n] = pushed[n] /\ claimAge'[n] = claimAge[n]
    BY <2>2 DEF Touches
  <2>5. /\ pc'[t] = pc[t] /\ batch'[t] = batch[t] /\ group'[t] = group[t]
        /\ todo'[t] = todo[t] /\ postAge'[t] = postAge[t]
        /\ \A n \in Notice : pushed[n] => pushed'[n]
    BY DEF OnlyMoves, Touches
  <2> QED BY <2>1, <2>3, <2>4, <2>5, BystanderKeeps
<1>2. \A t \in Server : Phases(t)' /\ Leased(t)'
  BY <1>1
<1>3. \A t \in Server \ {s} : Holding(s)' \cap Holding(t)' = {}
  BY <1>1 DEF LeaseInv, ClaimsDisjoint
<1>4. \A t, u \in Server \ {s} : t # u => Holding(t)' \cap Holding(u)' = {}
  BY <1>1 DEF LeaseInv, ClaimsDisjoint
<1>5. ClaimsDisjoint'
  BY <1>3, <1>4 DEF ClaimsDisjoint
<1> QED BY <1>2, <1>5

\* What a sweep is updating, no other sweep holds.
LEMMA TodoIsPrivate ==
    ASSUME LeaseInv, NEW s \in Server, NEW n \in todo[s]
    PROVE  \A t \in Server \ {s} : Holding(t) \cap {n} = {}
BY DEF LeaseInv, Leased, ClaimsDisjoint, Holding

\* What can be claimed, no sweep holds: every held document is leased.
LEMMA ClaimableIsFree ==
    ASSUME LeaseCovers, LeaseInv, NEW n \in Notice, Claimable(n)
    PROVE  \A t \in Server : Holding(t) \cap {n} = {}
<1> SUFFICES ASSUME NEW t \in Server, n \in Holding(t) PROVE FALSE
  OBVIOUS
<1>1. claimAge[n] \in 0 .. Spent(t)
  BY DEF LeaseInv, Leased
<1>2. Spent(t) \in 0 .. Lease
  BY SpentWithinLease DEF LeaseInv
<1>3. claimAge[n] = -1 \/ claimAge[n] > Lease
  BY DEF Claimable, Unclaimed
<1> QED BY <1>1, <1>2, <1>3, DispatchAssumption

\* Time granted for more documents is not less.
LEMMA MoreDocuments ==
    ASSUME NEW j \in Nat, NEW k \in Nat, j <= k
    PROVE  j * Timeout \in Nat /\ k * Timeout \in Nat /\ j * Timeout <= k * Timeout
<1>1. CASE j = k
  BY <1>1, DispatchAssumption
<1>2. CASE j + 1 <= k
  BY <1>2, OneMoreCall, DispatchAssumption
<1> QED BY <1>1, <1>2

\* The claims of a batch are young enough for the phase the sweep enters: c
\* documents were left in the batch, d are left now.
LEMMA NewBounds ==
    ASSUME NEW c \in 0 .. BatchCap, NEW d \in 0 .. BatchCap
    PROVE  /\ (BatchCap - c) * Timeout \in Nat
           /\ d <= c => (BatchCap - c) * Timeout <= (BatchCap - d) * Timeout
           /\ d + 1 <= c => /\ (BatchCap - d - 1) * Timeout \in Nat
                            /\ (BatchCap - c) * Timeout <= (BatchCap - d - 1) * Timeout
           /\ c + 1 <= BatchCap => (BatchCap - c - 1) * Timeout + Timeout <= (BatchCap - c) * Timeout
<1>1. BatchCap \in Nat
  BY DispatchAssumption
<1>2. BatchCap - c \in Nat /\ BatchCap - d \in Nat
  BY <1>1
<1>3. (BatchCap - c) * Timeout \in Nat
  BY <1>2, MoreDocuments
<1>4. ASSUME d <= c PROVE (BatchCap - c) * Timeout <= (BatchCap - d) * Timeout
  BY <1>1, <1>2, <1>4, MoreDocuments
<1>5. ASSUME d + 1 <= c
      PROVE  /\ (BatchCap - d - 1) * Timeout \in Nat
             /\ (BatchCap - c) * Timeout <= (BatchCap - d - 1) * Timeout
  <2>1. BatchCap - d - 1 \in Nat /\ BatchCap - c <= BatchCap - d - 1
    BY <1>1, <1>2, <1>5
  <2> QED BY <1>2, <2>1, MoreDocuments
<1>6. ASSUME c + 1 <= BatchCap
      PROVE  (BatchCap - c - 1) * Timeout + Timeout <= (BatchCap - c) * Timeout
  <2>1. BatchCap - c - 1 \in Nat /\ (BatchCap - c - 1) + 1 <= BatchCap - c
    BY <1>1, <1>6
  <2> QED BY <1>2, <2>1, OneMoreCall
<1> QED BY <1>3, <1>4, <1>5, <1>6

\* The lease invariant survives every step of a sweep.
LEMMA SweepKeepsLease ==
    ASSUME LeaseCovers, LeaseInv, NEW s \in Server, StartSweep(s) \/ SweepStep(s)
    PROVE  (\A t \in Server : Phases(t)' /\ Leased(t)') /\ ClaimsDisjoint'
<1> DEFINE c == Cardinality(batch[s])
<1> USE DEF Holding
<1>1. /\ TypeOK /\ Phases(s) /\ Leased(s)
      /\ Spent(s) \in 0 .. Lease
      /\ c \in 0 .. BatchCap
      /\ BatchCap \in Nat /\ Timeout \in Nat
  BY SpentWithinLease, DispatchAssumption DEF LeaseInv
<1>2. (BatchCap - c) * Timeout \in Nat
  BY <1>1, NewBounds
<1>3. CASE StartSweep(s)
  <2>1. OnlyMoves(s) /\ Touches({})
    BY <1>3 DEF StartSweep, OnlyMoves, Touches, docVars
  <2>2. batch'[s] = {} /\ todo'[s] = {} /\ group'[s] = {} /\ pc'[s] = "claim"
    BY <1>1, <1>3 DEF StartSweep, Phases, TypeOK
  <2> QED BY <2>1, <2>2, OneSweepMoves DEF Phases, Leased
<1>4. ASSUME NEW n \in Notice, ClaimNext(s, n)
      PROVE  (\A t \in Server : Phases(t)' /\ Leased(t)') /\ ClaimsDisjoint'
  <2>1. OnlyMoves(s) /\ Touches({n})
    BY <1>1, <1>4 DEF ClaimNext, OnlyMoves, Touches, TypeOK
  <2>2. /\ batch'[s] = batch[s] \cup {n} /\ todo'[s] = {} /\ group'[s] = {}
        /\ pc'[s] = "claim" /\ pc[s] = "claim" /\ todo[s] = {}
    BY <1>1, <1>4 DEF ClaimNext, Phases, TypeOK
  <2>3. Spent(s) = 0 /\ Spent(s)' = 0
    BY <2>2 DEF Spent
  <2>4. /\ pushed' = pushed /\ ~pushed[n] /\ claimAge'[n] = 0
        /\ \A m \in Notice \ {n} : claimAge'[m] = claimAge[m]
    BY <1>1, <1>4 DEF ClaimNext, Claimable, TypeOK
  <2>5. Leased(s)'
    BY <1>1, <2>2, <2>3, <2>4 DEF Leased, TypeOK
  <2>6. Phases(s)'
    BY <2>2 DEF Phases
  <2>7. \A t \in Server : Holding(t) \cap {n} = {}
    BY <1>4, ClaimableIsFree DEF ClaimNext
  <2> QED BY <2>1, <2>2, <2>5, <2>6, <2>7, OneSweepMoves
<1>5. CASE ClaimEnds(s)
  <2>1. OnlyMoves(s) /\ Touches({})
    BY <1>5 DEF ClaimEnds, OnlyMoves, Touches, docVars
  <2>2. /\ pc[s] = "claim" /\ pc'[s] = "dispatch" /\ batch' = batch
        /\ UNCHANGED <<group, todo, pushed, claimAge>>
    BY <1>1, <1>5 DEF ClaimEnds, docVars, TypeOK
  <2>3. Spent(s) = 0 /\ Spent(s)' = (BatchCap - c) * Timeout
    BY <2>2 DEF Spent
  <2>4. Leased(s)'
    BY <1>1, <1>2, <2>2, <2>3 DEF Leased
  <2>5. Phases(s)'
    BY <1>1, <2>2 DEF Phases
  <2> QED BY <2>1, <2>2, <2>4, <2>5, OneSweepMoves
<1>6. ASSUME NEW n \in Notice, StartGroup(s, n)
      PROVE  (\A t \in Server : Phases(t)' /\ Leased(t)') /\ ClaimsDisjoint'
  <2> DEFINE G == GroupOf(batch[s], n)
             d == Cardinality(batch[s] \ G)
  <2>1. OnlyMoves(s) /\ Touches({})
    BY <1>6 DEF StartGroup, OnlyMoves, Touches, docVars
  <2>2. /\ pc[s] = "dispatch" /\ n \in batch[s]
        /\ batch'[s] = batch[s] \ G /\ todo'[s] = G /\ group'[s] = G
        /\ pc'[s] \in {"skip", "post"} /\ postAge'[s] = 0
        /\ UNCHANGED <<pushed, claimAge>>
    BY <1>1, <1>6 DEF StartGroup, docVars, TypeOK
  <2>3. G \subseteq batch[s]
    BY DEF GroupOf
  <2>4. IsFiniteSet(batch[s])
    BY <1>1 DEF TypeOK
  <2>5. d \in 0 .. BatchCap /\ d + 1 <= c
    <3>1. d \in Nat /\ d + 1 <= c
      BY <2>2, <2>4, GroupShrinksBatch
    <3> HIDE DEF c, d
    <3> QED BY <1>1, <3>1
  <2>6. \A m \in batch[s] : ~pushed[m] /\ claimAge[m] \in 0 .. (BatchCap - c) * Timeout
    BY <1>1, <2>2 DEF Leased, Spent
  <2>7. /\ (BatchCap - c) * Timeout <= (BatchCap - d) * Timeout
        /\ (BatchCap - d) * Timeout \in Nat
        /\ (BatchCap - d - 1) * Timeout \in Nat
        /\ (BatchCap - c) * Timeout <= (BatchCap - d - 1) * Timeout
    BY <1>1, <2>5, NewBounds
  <2>8. Cardinality(batch'[s]) = d
    BY <2>2
  <2>9. /\ Spent(s)' \in Nat
        /\ (BatchCap - c) * Timeout <= Spent(s)'
    <3>1. CASE pc'[s] = "skip"
      <4>1. Spent(s)' = (BatchCap - d) * Timeout
        BY <2>8, <3>1 DEF Spent
      <4> QED BY <2>7, <4>1
    <3>2. CASE pc'[s] = "post"
      <4>1. Spent(s)' = (BatchCap - d - 1) * Timeout + 0
        BY <2>2, <2>8, <3>2 DEF Spent
      <4> HIDE DEF d
      <4>2. Spent(s)' = (BatchCap - d - 1) * Timeout
        BY <2>7, <4>1
      <4> QED BY <2>7, <4>2
    <3> QED BY <2>2, <3>1, <3>2
  <2>10. Holding(s)' = batch[s]
    BY <2>2, <2>3, <2>6
  <2>11. Leased(s)'
    <3>1. ASSUME NEW m \in batch[s] PROVE claimAge[m] \in 0 .. Spent(s)'
      BY <1>2, <2>6, <2>9
    <3> QED BY <2>2, <2>6, <2>10, <3>1 DEF Leased
  <2>12. Phases(s)'
    BY <1>1, <2>2, <2>3, <2>5, <2>6, <2>8 DEF Phases
  <2> QED BY <2>1, <2>10, <2>11, <2>12, OneSweepMoves
<1>7. CASE PostSucceeds(s) \/ PostFails(s)
  <2>1. OnlyMoves(s) /\ Touches({})
    <3>1. CASE PostSucceeds(s)
      BY <1>1, <3>1 DEF PostSucceeds, OnlyMoves, Touches, docVars, TypeOK
    <3>2. CASE PostFails(s)
      BY <1>1, <3>2 DEF PostFails, OnlyMoves, Touches, docVars, TypeOK
    <3> QED BY <1>7, <3>1, <3>2
  <2>2. /\ pc[s] = "post" /\ pc'[s] \in {"record", "release"} /\ batch' = batch
        /\ UNCHANGED <<group, todo, postAge, pushed, claimAge>>
    BY <1>1, <1>7 DEF PostSucceeds, PostFails, docVars, TypeOK
  <2>3. c + 1 <= BatchCap /\ postAge[s] \in 0 .. Timeout
    BY <1>1, <2>2 DEF Phases, TypeOK
  <2>4. (BatchCap - c - 1) * Timeout + Timeout <= (BatchCap - c) * Timeout
    BY <1>1, <2>3, NewBounds
  <2>5. /\ Spent(s) = (BatchCap - c - 1) * Timeout + postAge[s]
        /\ Spent(s)' = (BatchCap - c) * Timeout
    BY <2>2 DEF Spent
  <2>6. (BatchCap - c - 1) * Timeout \in Nat
    BY <1>1, <2>3, MoreDocuments
  <2>7. Spent(s) <= Spent(s)' /\ Spent(s)' \in Nat
    <3> HIDE DEF c
    <3> QED BY <1>1, <1>2, <2>3, <2>4, <2>5, <2>6
  <2>8. Leased(s)'
    BY <1>1, <2>2, <2>7 DEF Leased
  <2>9. Phases(s)'
    BY <1>1, <2>2 DEF Phases
  <2> QED BY <2>1, <2>2, <2>8, <2>9, OneSweepMoves
<1>8. ASSUME NEW n \in Notice, MarkOne(s, n) \/ ReleaseOne(s, n)
      PROVE  (\A t \in Server : Phases(t)' /\ Leased(t)') /\ ClaimsDisjoint'
  <2>1. /\ n \in todo[s] /\ todo'[s] = todo[s] \ {n} /\ pc[s] \in {"record", "skip", "release"}
        /\ UNCHANGED <<pc, batch, group, postAge>>
        /\ pc[s] # "release" => pushed'[n]
    BY <1>1, <1>8 DEF MarkOne, ReleaseOne, MarkPushed, TypeOK
  <2>2. Touches({n})
    BY <1>1, <1>8 DEF MarkOne, ReleaseOne, MarkPushed, ReleaseClaim, Touches, TypeOK
  <2>3. OnlyMoves(s)
    BY <1>1, <1>8 DEF MarkOne, ReleaseOne, OnlyMoves, TypeOK
  <2>4. n \notin batch[s] /\ batch[s] \cup group[s] \subseteq Notice /\ todo[s] \subseteq group[s]
    BY <1>1, <2>1 DEF Phases, TypeOK
  <2>5. Spent(s)' = Spent(s)
    BY <2>1 DEF Spent
  <2>6. Leased(s)' /\ Holding(s)' \subseteq Holding(s)
    BY <1>1, <2>1, <2>2, <2>4, <2>5 DEF Leased, Touches
  <2>7. Phases(s)'
    BY <1>1, <2>1, <2>2, <2>4 DEF Phases, Touches
  <2> QED BY <2>1, <2>2, <2>3, <2>6, <2>7, TodoIsPrivate, OneSweepMoves
<1>9. ASSUME NEW n \in Notice, RecordFails(s, n)
      PROVE  (\A t \in Server : Phases(t)' /\ Leased(t)') /\ ClaimsDisjoint'
  <2>1. /\ n \in todo[s] /\ todo'[s] = group[s] /\ pc[s] = "record" /\ pc'[s] = "release"
        /\ UNCHANGED <<batch, group, postAge>>
    BY <1>1, <1>9 DEF RecordFails, TypeOK
  <2>2. Touches({n}) /\ (pushed'[n] \/ (pushed' = pushed /\ claimAge' = claimAge))
    BY <1>1, <1>9 DEF RecordFails, MarkPushed, docVars, Touches, TypeOK
  <2>3. OnlyMoves(s)
    BY <1>1, <1>9 DEF RecordFails, OnlyMoves, TypeOK
  <2>4. /\ n \notin batch[s] /\ batch[s] \cup group[s] \subseteq Notice
        /\ \A m \in group[s] \ todo[s] : pushed[m]
    BY <1>1, <2>1 DEF Phases, TypeOK
  <2>5. Spent(s)' = Spent(s)
    BY <2>1 DEF Spent
  <2>6. Holding(s)' \subseteq Holding(s)
    BY <2>1, <2>2, <2>4 DEF Touches
  <2>7. Leased(s)'
    BY <1>1, <2>1, <2>2, <2>4, <2>5, <2>6 DEF Leased, Touches
  <2>8. Phases(s)'
    BY <1>1, <2>1 DEF Phases
  <2> QED BY <2>1, <2>2, <2>3, <2>6, <2>7, <2>8, TodoIsPrivate, OneSweepMoves
<1>10. CASE GroupEnds(s) \/ SweepEnds(s)
  <2>1. OnlyMoves(s) /\ Touches({})
    <3>1. CASE GroupEnds(s)
      BY <1>1, <3>1 DEF GroupEnds, OnlyMoves, Touches, docVars, TypeOK
    <3>2. CASE SweepEnds(s)
      BY <1>1, <3>2 DEF SweepEnds, OnlyMoves, Touches, docVars, TypeOK
    <3> QED BY <1>10, <3>1, <3>2
  <2>2. /\ pc[s] # "claim" /\ pc[s] # "post" /\ pc'[s] \in {"dispatch", "idle"}
        /\ UNCHANGED <<batch, todo, pushed, claimAge>>
        /\ todo[s] = {} /\ group'[s] = {}
        /\ pc'[s] = "idle" => batch[s] = {}
    BY <1>1, <1>10 DEF GroupEnds, SweepEnds, docVars, Phases, TypeOK
  <2>3. Spent(s)' = Spent(s)
    BY <2>2 DEF Spent
  <2>4. Leased(s)'
    BY <1>1, <2>2, <2>3 DEF Leased
  <2>5. Phases(s)'
    BY <2>2 DEF Phases
  <2> QED BY <2>1, <2>2, <2>4, <2>5, OneSweepMoves
<1> QED BY <1>3, <1>4, <1>5, <1>6, <1>7, <1>8, <1>9, <1>10 DEF SweepStep

\* A sweep that is given up holds nothing.
LEMMA AbandonHolds ==
    ASSUME TypeOK, NEW s \in Server, Abandon(s)
    PROVE  OnlyMoves(s) /\ Holding(s)' = {} /\ Phases(s)' /\ Leased(s)'
<1>1. OnlyMoves(s)
  BY DEF Abandon, OnlyMoves, TypeOK
<1>2. pc'[s] = "idle" /\ batch'[s] = {} /\ group'[s] = {} /\ todo'[s] = {}
  BY DEF Abandon, TypeOK
<1> QED BY <1>1, <1>2 DEF Holding, Phases, Leased

\* The lease invariant survives a fault: only the failed write can have
\* touched a document, and no other sweep holds that document.
LEMMA FaultKeepsLease ==
    ASSUME LeaseCovers, LeaseInv, NEW s \in Server, FaultStep(s)
    PROVE  (\A t \in Server : Phases(t)' /\ Leased(t)') /\ ClaimsDisjoint'
<1>1. TypeOK
  BY DEF LeaseInv
<1>2. Abandon(s)
  BY DEF FaultStep, ClaimFails, Crash, LoopFails
<1>3. OnlyMoves(s) /\ Holding(s)' = {} /\ Phases(s)' /\ Leased(s)'
  BY <1>1, <1>2, AbandonHolds
<1>4. ASSUME Touches({})
      PROVE  (\A t \in Server : Phases(t)' /\ Leased(t)') /\ ClaimsDisjoint'
  BY <1>3, <1>4, OneSweepMoves
<1>5. CASE ClaimFails(s)
  <2>1. CASE UNCHANGED claimAge
    BY <1>4, <1>5, <2>1 DEF ClaimFails, Touches
  <2>2. ASSUME NEW n \in Notice, Claimable(n), claimAge' = [claimAge EXCEPT ![n] = 0]
        PROVE  (\A t \in Server : Phases(t)' /\ Leased(t)') /\ ClaimsDisjoint'
    <3>1. Touches({n})
      BY <1>1, <1>5, <2>2 DEF ClaimFails, Touches, TypeOK
    <3>2. \A t \in Server : Holding(t) \cap {n} = {}
      BY <2>2, ClaimableIsFree
    <3> QED BY <1>3, <3>1, <3>2, OneSweepMoves
  <2> QED BY <1>5, <2>1, <2>2 DEF ClaimFails
<1>6. ASSUME NEW n \in Notice, LoopFails(s, n)
      PROVE  (\A t \in Server : Phases(t)' /\ Leased(t)') /\ ClaimsDisjoint'
  <2>1. n \in todo[s]
    BY <1>6 DEF LoopFails
  <2>2. Touches({n})
    BY <1>1, <1>6 DEF LoopFails, MarkPushed, ReleaseClaim, docVars, Touches, TypeOK
  <2> QED BY <1>3, <2>1, <2>2, TodoIsPrivate, OneSweepMoves
<1>7. CASE Crash(s)
  BY <1>4, <1>7 DEF Crash, docVars, Touches
<1> QED BY <1>5, <1>6, <1>7 DEF FaultStep

\* Time passes: a sweep that waits for the function has spent one tick more,
\* its claims are one tick older, and every other sweep holds nothing.
LEMMA TickKeepsLease ==
    ASSUME LeaseCovers, LeaseInv, Tick
    PROVE  (\A t \in Server : Phases(t)' /\ Leased(t)') /\ ClaimsDisjoint'
<1>1. TypeOK /\ Lease \in Nat /\ Timeout \in Nat /\ BatchCap \in Nat
  BY DispatchAssumption DEF LeaseInv
<1>2. UNCHANGED <<pc, batch, group, todo, pushed>>
  BY DEF Tick
<1>3. \A t \in Server : Holding(t)' = Holding(t)
  BY <1>2 DEF Holding
<1>4. ClaimsDisjoint'
  BY <1>3 DEF ClaimsDisjoint, LeaseInv
<1>5. ASSUME NEW t \in Server PROVE Phases(t)'
  BY <1>2 DEF Phases, Holding, LeaseInv
<1>6. ASSUME NEW t \in Server PROVE Leased(t)'
  <2>1. CASE pc[t] # "post"
    <3>1. batch[t] \cup todo[t] = {}
      BY <2>1 DEF Tick
    <3> QED BY <1>3, <3>1 DEF Leased, Holding
  <2>2. CASE pc[t] = "post"
    <3> DEFINE x == (BatchCap - Cardinality(batch[t]) - 1) * Timeout
    <3>1. postAge'[t] = postAge[t] + 1 /\ postAge[t] \in 0 .. Timeout
      BY <1>1, <2>2 DEF Tick, TypeOK
    <3>2. Spent(t) = x + postAge[t] /\ Spent(t)' = x + postAge'[t]
      BY <1>2, <2>2 DEF Spent
    <3>3. Spent(t) \in 0 .. Lease
      BY <1>1, SpentWithinLease DEF LeaseInv
    <3>4. x \in Nat
      <4>1. /\ Cardinality(batch[t]) \in 0 .. BatchCap
            /\ Cardinality(batch[t]) + 1 <= BatchCap
        BY <1>1, <2>2, SpentWithinLease DEF LeaseInv, Phases
      <4>2. BatchCap - Cardinality(batch[t]) - 1 \in Nat
        BY <1>1, <4>1
      <4> QED BY <4>2, MoreDocuments
    <3>5. Spent(t)' = Spent(t) + 1
      <4> HIDE DEF x
      <4> QED BY <3>1, <3>2, <3>4
    <3>6. ASSUME NEW n \in Holding(t)
          PROVE  ~pushed'[n] /\ claimAge'[n] \in 0 .. Spent(t)'
      <4>1. n \in Notice /\ ~pushed[n] /\ claimAge[n] \in 0 .. Spent(t)
        BY <1>1 DEF LeaseInv, Leased, Holding, TypeOK
      <4>2. claimAge[n] \in 0 .. Lease
        BY <1>1, <3>3, <4>1
      <4>3. claimAge'[n] = claimAge[n] + 1
        BY <4>1, <4>2 DEF Tick
      <4> QED BY <1>2, <3>3, <3>5, <4>1, <4>3
    <3> QED BY <1>3, <3>6 DEF Leased
  <2> QED BY <2>1, <2>2
<1> QED BY <1>4, <1>5, <1>6

LEMMA LeaseStep == ASSUME LeaseCovers, LeaseInv, [Next]_vars PROVE LeaseInv'
<1>1. TypeOK'
  BY TypeStep DEF LeaseInv
<1>2. ASSUME UNCHANGED <<pushed, claimAge, sweepVars>>
      PROVE  (\A t \in Server : Phases(t)' /\ Leased(t)') /\ ClaimsDisjoint'
  <2>1. UNCHANGED <<pushed, claimAge, pc, batch, group, todo, postAge>>
    BY <1>2 DEF sweepVars
  <2>2. ASSUME NEW t \in Server
        PROVE  Holding(t)' = Holding(t) /\ Spent(t)' = Spent(t)
    BY <2>1 DEF Holding, Spent
  <2>3. ASSUME NEW t \in Server PROVE Phases(t)' /\ Leased(t)'
    BY <2>1, <2>2 DEF LeaseInv, Phases, Leased
  <2>4. ClaimsDisjoint'
    BY <2>2 DEF LeaseInv, ClaimsDisjoint
  <2> QED BY <2>3, <2>4
<1>3. ASSUME Environment \/ UNCHANGED vars
      PROVE  UNCHANGED <<pushed, claimAge, sweepVars>>
  BY <1>3 DEF Environment, Summarise, Withdraw, vars, sweepVars
<1>4. (\A t \in Server : Phases(t)' /\ Leased(t)') /\ ClaimsDisjoint'
  BY <1>2, <1>3, SweepKeepsLease, FaultKeepsLease, TickKeepsLease DEF Next
<1> QED BY <1>1, <1>4 DEF LeaseInv

LEMMA LeaseInit == ASSUME Init PROVE LeaseInv
<1>1. TypeOK
  BY TypeInit
<1>2. \A s \in Server : Holding(s) = {}
  BY DEF Init, Holding
<1> QED BY <1>1, <1>2 DEF Init, LeaseInv, Phases, Leased, ClaimsDisjoint

\* When the lease outlasts a full batch of calls that all run into their
\* abort, no two sweeps ever hold the same document, whatever crashes or
\* fails: the code's three settings need
\*     sweepBatchCap * fcmTimeoutMs <= claimLeaseMs.
THEOREM LeaseExcludes == LeaseCovers => (Spec => []ClaimsDisjoint)
<1> SUFFICES ASSUME LeaseCovers PROVE Spec => []ClaimsDisjoint
  OBVIOUS
<1>1. Init => LeaseInv
  BY LeaseInit
<1>2. LeaseInv /\ [Next]_vars => LeaseInv'
  BY LeaseStep
<1>3. LeaseInv => ClaimsDisjoint
  BY DEF LeaseInv
<1> QED BY <1>1, <1>2, <1>3, PTL DEF Spec

\* Under the same condition the function is never called for a notice that is
\* recorded as pushed.
THEOREM NoRepushWithinLease == LeaseCovers => (Spec => []NoRepush)
<1> SUFFICES ASSUME LeaseCovers PROVE Spec => []NoRepush
  OBVIOUS
<1>1. Init => LeaseInv
  BY LeaseInit
<1>2. LeaseInv /\ [Next]_vars => LeaseInv'
  BY LeaseStep
<1>3. LeaseInv => NoRepush
  BY DEF LeaseInv, Phases, NoRepush
<1> QED BY <1>1, <1>2, <1>3, PTL DEF Spec

\* Under the same condition a claim is never cleared under the sweep that
\* still counts on it, although no update checks whose claim it clears.
THEOREM ClaimsKept == LeaseCovers => (Spec => []HeldIsLeased)
<1> SUFFICES ASSUME LeaseCovers PROVE Spec => []HeldIsLeased
  OBVIOUS
<1>1. Init => LeaseInv
  BY LeaseInit
<1>2. LeaseInv /\ [Next]_vars => LeaseInv'
  BY LeaseStep
<1>3. LeaseInv => HeldIsLeased
  BY DEF LeaseInv, Leased, Holding, HeldIsLeased, Unclaimed
<1> QED BY <1>1, <1>2, <1>3, PTL DEF Spec
-----------------------------------------------------------------------------
(* What a notice was claimed and called for *)

\* In a step of one sweep the others stand still, and no step takes a delivery
\* or a record back.
LEMMA OneActs ==
    ASSUME TypeOK, NEW s \in Server, StartSweep(s) \/ SweepStep(s) \/ FaultStep(s)
    PROVE  /\ OnlyMoves(s)
           /\ \A n \in Notice : deliveries[n] > 0 => deliveries'[n] > 0
           /\ \A n \in Notice : pushed[n] => pushed'[n]
<1> USE DEF TypeOK
<1>1. CASE StartSweep(s)
  BY <1>1 DEF StartSweep, OnlyMoves, docVars, history
<1>2. CASE SweepStep(s)
  <2>1. CASE ClaimEnds(s) \/ GroupEnds(s) \/ SweepEnds(s)
    BY <2>1 DEF ClaimEnds, GroupEnds, SweepEnds, OnlyMoves, docVars, history
  <2>2. CASE PostSucceeds(s)
    BY <2>2 DEF PostSucceeds, Delivered, CountUp, OnlyMoves, docVars
  <2>3. CASE PostFails(s)
    BY <2>3 DEF PostFails, Delivered, CountUp, OnlyMoves, docVars, history
  <2>4. ASSUME NEW n \in Notice, ClaimNext(s, n) \/ StartGroup(s, n) \/ ReleaseOne(s, n)
        PROVE  OnlyMoves(s) /\ UNCHANGED <<deliveries, pushed>>
    BY <2>4 DEF ClaimNext, StartGroup, ReleaseOne, ReleaseClaim, OnlyMoves, docVars, history
  <2>5. ASSUME NEW n \in Notice, MarkOne(s, n) \/ RecordFails(s, n)
        PROVE  OnlyMoves(s) /\ UNCHANGED deliveries
               /\ \A m \in Notice : pushed[m] => pushed'[m]
    BY <2>5 DEF MarkOne, RecordFails, MarkPushed, OnlyMoves, docVars, history
  <2> QED
    BY <1>2, <2>1, <2>2, <2>3, <2>4, <2>5 DEF SweepStep
<1>3. CASE FaultStep(s)
  <2>1. OnlyMoves(s)
    BY <1>3, AbandonHolds DEF FaultStep, ClaimFails, Crash, LoopFails
  <2>2. CASE ClaimFails(s)
    BY <2>1, <2>2 DEF ClaimFails, history
  <2>3. CASE Crash(s)
    BY <2>1, <2>3 DEF Crash, Delivered, CountUp, docVars, history
  <2>4. ASSUME NEW n \in Notice, LoopFails(s, n)
        PROVE  UNCHANGED deliveries /\ \A m \in Notice : pushed[m] => pushed'[m]
    BY <2>4 DEF LoopFails, MarkPushed, ReleaseClaim, docVars, history
  <2> QED
    BY <1>3, <2>1, <2>2, <2>3, <2>4 DEF FaultStep
<1> QED BY <1>1, <1>2, <1>3

\* A notice that is still to be pushed has an attempt left for the sweep that
\* holds it, and has used no more than its attempts.
CapInv ==
    /\ LeaseInv
    /\ AttemptsCapped
    /\ \A s \in Server : \A n \in Holding(s) : attempts[n] < MaxAttempts

\* A claim pays for one attempt: only the sweep that holds a notice counts it
\* up, and then holds it no longer.
LEMMA CapStep == ASSUME LeaseCovers, CapInv, [Next]_vars PROVE CapInv'
<1>1. LeaseInv /\ LeaseInv' /\ TypeOK
  BY LeaseStep DEF CapInv, LeaseInv
<1> DEFINE Left == \A s \in Server : \A n \in Holding(s) : attempts[n] < MaxAttempts
<1>2. CASE Environment \/ Tick \/ UNCHANGED vars
  <2>1. UNCHANGED <<batch, todo, pushed, attempts>>
    BY <1>2 DEF Environment, Summarise, Withdraw, Tick, vars, sweepVars
  <2> QED BY <1>1, <2>1 DEF CapInv, AttemptsCapped, Holding
<1>3. ASSUME NEW s \in Server, StartSweep(s) \/ SweepStep(s) \/ FaultStep(s)
      PROVE  AttemptsCapped' /\ Left'
  <2>1. /\ OnlyMoves(s)
        /\ \A n \in Notice : pushed[n] => pushed'[n]
        /\ \A t \in Server : Holding(t) \subseteq Notice
    BY <1>1, <1>3, OneActs DEF TypeOK, Holding
  <2>2. \A t \in Server \ {s} : Holding(t)' \subseteq Holding(t)
    BY <1>1, <2>1 DEF OnlyMoves, Holding, TypeOK
  <2>3. ASSUME UNCHANGED attempts,
               \A n \in Holding(s)' : attempts[n] < MaxAttempts
        PROVE  AttemptsCapped' /\ Left'
    BY <1>1, <2>1, <2>2, <2>3 DEF CapInv, AttemptsCapped
  <2>4. ASSUME NEW n \in todo[s],
               attempts' = [attempts EXCEPT ![n] = @ + 1],
               pushed'[n] \/ UNCHANGED pushed,
               Holding(s)' \subseteq Holding(s) \ {n}
        PROVE  AttemptsCapped' /\ Left'
    <3>1. n \in Notice /\ (pushed[n] \/ n \in Holding(s))
      BY <1>1 DEF Holding, TypeOK
    <3>2. AttemptsCapped'
      <4> SUFFICES ASSUME NEW m \in Notice, ~pushed'[m]
                   PROVE  attempts'[m] <= MaxAttempts
        BY DEF AttemptsCapped
      <4>1. ~pushed[m] /\ attempts[m] \in Nat /\ MaxAttempts \in Nat
        BY <1>1, <2>1, DispatchAssumption DEF TypeOK
      <4>2. CASE m = n
        <5>1. attempts[n] < MaxAttempts
          BY <3>1, <4>1, <4>2 DEF CapInv
        <5> QED BY <1>1, <2>4, <3>1, <4>1, <4>2, <5>1 DEF TypeOK
      <4>3. CASE m # n
        BY <1>1, <2>4, <4>1, <4>3 DEF TypeOK, CapInv, AttemptsCapped
      <4> QED BY <4>2, <4>3
    <3>3. Left'
      <4> SUFFICES ASSUME NEW t \in Server, NEW m \in Holding(t)'
                   PROVE  attempts'[m] < MaxAttempts
        OBVIOUS
      <4>1. m \in Holding(t) /\ m \in Notice
        BY <2>1, <2>2, <2>4
      <4>2. m # n
        <5>1. CASE t = s
          BY <2>4, <5>1
        <5>2. CASE t # s /\ n \in Holding(s)
          BY <1>1, <4>1, <5>2 DEF LeaseInv, ClaimsDisjoint
        <5>3. CASE t # s /\ pushed[n]
          BY <1>1, <4>1, <5>3 DEF LeaseInv, Leased
        <5> QED BY <3>1, <5>1, <5>2, <5>3
      <4> QED BY <1>1, <2>4, <4>1, <4>2 DEF TypeOK, CapInv
    <3> QED BY <3>2, <3>3
  <2>5. CASE StartSweep(s)
    <3>1. UNCHANGED attempts /\ Holding(s)' = Holding(s)
      BY <2>5 DEF StartSweep, docVars, Holding
    <3> QED BY <2>3, <3>1 DEF CapInv
  <2>6. CASE SweepStep(s)
    <3>1. CASE ClaimEnds(s) \/ GroupEnds(s) \/ SweepEnds(s) \/ PostSucceeds(s) \/ PostFails(s)
      <4>1. UNCHANGED attempts /\ Holding(s)' = Holding(s)
        BY <3>1 DEF ClaimEnds, GroupEnds, SweepEnds, PostSucceeds, PostFails, docVars, Holding
      <4> QED BY <2>3, <4>1 DEF CapInv
    <3>2. ASSUME NEW n \in Notice, ClaimNext(s, n) PROVE AttemptsCapped' /\ Left'
      <4>1. /\ UNCHANGED attempts /\ attempts[n] < MaxAttempts
            /\ Holding(s)' \subseteq Holding(s) \cup {n}
        BY <1>1, <3>2 DEF ClaimNext, Claimable, Holding, TypeOK
      <4> QED BY <2>3, <4>1 DEF CapInv
    <3>3. ASSUME NEW n \in Notice, StartGroup(s, n) PROVE AttemptsCapped' /\ Left'
      <4>1. UNCHANGED attempts /\ Holding(s)' \subseteq Holding(s)
        BY <1>1, <3>3 DEF StartGroup, GroupOf, Holding, docVars, TypeOK
      <4> QED BY <2>3, <4>1 DEF CapInv
    <3>4. ASSUME NEW n \in Notice, MarkOne(s, n) \/ ReleaseOne(s, n)
          PROVE  AttemptsCapped' /\ Left'
      <4>1. /\ n \in todo[s] /\ attempts' = [attempts EXCEPT ![n] = @ + 1]
            /\ pushed'[n] \/ UNCHANGED pushed
            /\ UNCHANGED batch /\ todo'[s] = todo[s] \ {n}
        BY <1>1, <3>4 DEF MarkOne, ReleaseOne, MarkPushed, ReleaseClaim, TypeOK
      <4>2. n \notin batch[s]
        BY <1>1, <4>1 DEF LeaseInv, Phases
      <4>3. Holding(s)' \subseteq Holding(s) \ {n}
        BY <1>1, <2>1, <4>1, <4>2 DEF Holding, TypeOK
      <4> QED BY <2>4, <4>1, <4>3
    <3>5. ASSUME NEW n \in Notice, RecordFails(s, n) PROVE AttemptsCapped' /\ Left'
      <4>1. /\ n \in todo[s] /\ UNCHANGED batch /\ todo'[s] = group[s]
            /\ \A m \in group[s] \ todo[s] : pushed[m]
        BY <1>1, <3>5 DEF RecordFails, TypeOK, LeaseInv, Phases
      <4>2. Holding(s)' \subseteq Holding(s)
        BY <1>1, <2>1, <4>1 DEF Holding, TypeOK
      <4>3. CASE MarkPushed(n)
        <5>1. attempts' = [attempts EXCEPT ![n] = @ + 1] /\ pushed'[n]
          BY <1>1, <4>3 DEF MarkPushed, TypeOK
        <5>2. n \notin batch[s]
          BY <1>1, <4>1 DEF LeaseInv, Phases
        <5>3. Holding(s)' \subseteq Holding(s) \ {n}
          BY <4>1, <4>2, <5>1, <5>2 DEF Holding
        <5> QED BY <2>4, <4>1, <5>1, <5>3
      <4>4. CASE UNCHANGED docVars
        BY <2>3, <4>2, <4>4 DEF CapInv, docVars
      <4> QED BY <3>5, <4>3, <4>4 DEF RecordFails
    <3> QED BY <2>6, <3>1, <3>2, <3>3, <3>4, <3>5 DEF SweepStep
  <2>7. CASE FaultStep(s)
    <3>1. Holding(s)' = {}
      BY <1>1, <2>7, AbandonHolds DEF FaultStep, ClaimFails, Crash, LoopFails
    <3>2. CASE ClaimFails(s) \/ Crash(s)
      BY <2>3, <3>1, <3>2 DEF ClaimFails, Crash, docVars
    <3>3. ASSUME NEW n \in Notice, LoopFails(s, n) PROVE AttemptsCapped' /\ Left'
      <4>1. n \in todo[s] /\ (UNCHANGED docVars \/ MarkPushed(n) \/ ReleaseClaim(n))
        BY <3>3 DEF LoopFails
      <4>2. CASE UNCHANGED docVars
        BY <2>3, <3>1, <4>2 DEF docVars
      <4>3. CASE MarkPushed(n) \/ ReleaseClaim(n)
        <5>1. /\ attempts' = [attempts EXCEPT ![n] = @ + 1]
              /\ pushed'[n] \/ UNCHANGED pushed
          BY <1>1, <4>1, <4>3 DEF MarkPushed, ReleaseClaim, TypeOK
        <5> QED BY <2>4, <3>1, <4>1, <5>1
      <4> QED BY <4>1, <4>2, <4>3
    <3> QED BY <2>7, <3>2, <3>3 DEF FaultStep
  <2> QED BY <1>3, <2>5, <2>6, <2>7
<1> QED BY <1>1, <1>2, <1>3 DEF Next, CapInv

\* When the lease covers a sweep, pushAttempts of a notice that is still to be
\* pushed stays within the cap, although the claim only reads it and the release
\* counts it up.
THEOREM AttemptsStayCapped == LeaseCovers => (Spec => []AttemptsCapped)
<1> SUFFICES ASSUME LeaseCovers PROVE Spec => []AttemptsCapped
  OBVIOUS
<1>1. Init => CapInv
  <2>1. Init => LeaseInv
    BY LeaseInit
  <2>2. ASSUME Init PROVE \A s \in Server : Holding(s) = {}
    BY <2>2 DEF Init, Holding
  <2> QED BY <2>1, <2>2, DispatchAssumption DEF Init, CapInv, AttemptsCapped
<1>2. CapInv /\ [Next]_vars => CapInv'
  BY CapStep
<1>3. CapInv => AttemptsCapped
  BY DEF CapInv
<1> QED BY <1>1, <1>2, <1>3, PTL DEF Spec

\* A delivery of a notice that its sweep has not counted yet.
Uncounted(n) == \E s \in Server : pc[s] \in {"record", "release"} /\ n \in todo[s]

\* As long as a notice is not recorded, each of its deliveries is counted in
\* pushAttempts, ended in a fault, or is about to be counted.
Paid(n) ==
    /\ deliveries[n] <= MaxAttempts + faults
    /\ ~pushed[n] => \/ deliveries[n] <= attempts[n] + faults
                     \/ Uncounted(n) /\ deliveries[n] <= attempts[n] + faults + 1

PaidInv == CapInv /\ \A n \in Notice : Paid(n)

\* A step that delivers nothing and takes nothing back, and that counts what it
\* no longer holds, or is a fault.
LEMMA PaidKept ==
    ASSUME TypeOK, TypeOK', NEW n \in Notice, Paid(n), deliveries'[n] = deliveries[n],
           attempts'[n] >= attempts[n], faults' >= faults, pushed[n] => pushed'[n],
           \/ Uncounted(n) => Uncounted(n)'
           \/ pushed'[n]
           \/ attempts'[n] > attempts[n]
           \/ faults' > faults
    PROVE  Paid(n)'
<1>1. /\ deliveries[n] \in Nat /\ attempts[n] \in Nat /\ attempts'[n] \in Nat
      /\ faults \in Nat /\ faults' \in Nat /\ MaxAttempts \in Nat
  BY DispatchAssumption DEF TypeOK
<1>2. deliveries'[n] <= MaxAttempts + faults'
  BY <1>1 DEF Paid
<1>3. ASSUME ~pushed'[n]
      PROVE  \/ deliveries'[n] <= attempts'[n] + faults'
             \/ Uncounted(n)' /\ deliveries'[n] <= attempts'[n] + faults' + 1
  <2>1. CASE deliveries[n] <= attempts[n] + faults
    BY <1>1, <2>1
  <2>2. CASE Uncounted(n) /\ deliveries[n] <= attempts[n] + faults + 1
    BY <1>1, <1>3, <2>2
  <2> QED BY <1>3, <2>1, <2>2 DEF Paid
<1> QED BY <1>2, <1>3 DEF Paid

\* A call is made for a notice with an attempt left, all of whose earlier
\* deliveries are counted.
LEMMA CallIsPaid ==
    ASSUME PaidInv, NEW s \in Server, pc[s] = "post", NEW n \in group[s]
    PROVE  n \in Notice /\ attempts[n] < MaxAttempts /\ deliveries[n] <= attempts[n] + faults
<1>1. n \in Notice /\ n \in todo[s] /\ ~pushed[n] /\ n \in Holding(s)
  BY DEF PaidInv, CapInv, LeaseInv, TypeOK, Phases, Holding
<1>2. ~Uncounted(n)
  BY <1>1 DEF Uncounted, PaidInv, CapInv, LeaseInv, ClaimsDisjoint, Holding
<1> QED BY <1>1, <1>2 DEF PaidInv, CapInv, Paid

\* A delivery leaves its notice with an attempt to count, or is a fault.
LEMMA PaidDelivery ==
    ASSUME PaidInv, TypeOK', NEW s \in Server, NEW n \in Notice, OnlyMoves(s),
           pc[s] = "post", NEW T, Delivered(group[s], T), UNCHANGED <<pushed, attempts>>,
           \/ UNCHANGED <<faults, todo>> /\ pc'[s] \in {"record", "release"}
           \/ faults' = faults + 1
    PROVE  Paid(n)'
<1>1. TypeOK /\ TypeOK' /\ Paid(n)
  BY DEF PaidInv, CapInv, LeaseInv
<1>2. /\ deliveries[n] \in Nat /\ attempts[n] \in Nat /\ faults \in Nat /\ MaxAttempts \in Nat
  BY <1>1, DispatchAssumption DEF TypeOK
<1>3. CASE n \in group[s]
  <2>1. deliveries'[n] = deliveries[n] + 1
    BY <1>3 DEF Delivered, CountUp
  <2>2. attempts[n] < MaxAttempts /\ deliveries[n] <= attempts[n] + faults
    BY <1>3, CallIsPaid
  <2>3. CASE UNCHANGED <<faults, todo>> /\ pc'[s] \in {"record", "release"}
    <3>1. n \in todo[s]
      BY <1>3 DEF PaidInv, CapInv, LeaseInv, Phases
    <3>2. Uncounted(n)'
      BY <2>3, <3>1 DEF Uncounted
    <3> QED BY <1>2, <2>1, <2>2, <2>3, <3>2 DEF Paid
  <2>4. CASE faults' = faults + 1
    BY <1>2, <2>1, <2>2, <2>4 DEF Paid
  <2> QED BY <2>3, <2>4
<1>4. CASE n \notin group[s]
  <2>1. deliveries'[n] = deliveries[n]
    BY <1>4 DEF Delivered, CountUp
  <2>2. CASE UNCHANGED <<faults, todo>> /\ pc'[s] \in {"record", "release"}
    <3>1. Uncounted(n) => Uncounted(n)'
      BY <2>2 DEF Uncounted, OnlyMoves
    <3> QED BY <1>1, <1>2, <2>1, <2>2, <3>1, PaidKept
  <2>3. CASE faults' = faults + 1
    BY <1>1, <1>2, <2>1, <2>3, PaidKept
  <2> QED BY <2>2, <2>3
<1> QED BY <1>3, <1>4

\* Every step keeps the account of each notice.
LEMMA PaidStep ==
    ASSUME LeaseCovers, PaidInv, [Next]_vars, NEW n \in Notice PROVE Paid(n)'
<1>1. TypeOK /\ TypeOK' /\ Paid(n)
  BY TypeStep DEF PaidInv, CapInv, LeaseInv
<1>2. /\ deliveries[n] \in Nat /\ attempts[n] \in Nat /\ faults \in Nat
  BY <1>1 DEF TypeOK
<1>3. CASE Environment \/ Tick \/ UNCHANGED vars
  <2>1. UNCHANGED <<pc, todo, pushed, attempts, deliveries, faults>>
    BY <1>3 DEF Environment, Summarise, Withdraw, Tick, vars, sweepVars, history
  <2> QED BY <1>1, <2>1 DEF Paid, Uncounted
<1>4. ASSUME NEW s \in Server, StartSweep(s) \/ SweepStep(s) \/ FaultStep(s)
      PROVE  Paid(n)'
  <2>1. /\ OnlyMoves(s)
        /\ \A m \in Notice : pushed[m] => pushed'[m]
    BY <1>1, <1>4, OneActs
  <2>2. ASSUME UNCHANGED <<deliveries, attempts, faults>>,
               (pc[s] \in {"record", "release"} /\ n \in todo[s])
                 => (pc'[s] \in {"record", "release"} /\ n \in todo'[s])
        PROVE  Paid(n)'
    <3>1. Uncounted(n) => Uncounted(n)'
      BY <2>1, <2>2 DEF Uncounted, OnlyMoves
    <3> QED BY <1>1, <1>2, <2>1, <2>2, <3>1, PaidKept
  <2>3. ASSUME NEW m \in Notice, UNCHANGED <<deliveries, faults, pc>>,
               attempts' = [attempts EXCEPT ![m] = @ + 1], todo'[s] = todo[s] \ {m}
        PROVE  Paid(n)'
    <3>1. CASE n = m
      BY <1>1, <1>2, <2>1, <2>3, <3>1, PaidKept DEF TypeOK
    <3>2. CASE n # m
      <4>1. attempts'[n] = attempts[n]
        BY <1>1, <2>3, <3>2 DEF TypeOK
      <4>2. Uncounted(n) => Uncounted(n)'
        BY <2>1, <2>3, <3>2 DEF Uncounted, OnlyMoves
      <4> QED BY <1>1, <1>2, <2>1, <2>3, <4>1, <4>2, PaidKept
    <3> QED BY <3>1, <3>2
  <2>4. CASE StartSweep(s)
    BY <2>2, <2>4 DEF StartSweep, docVars, history
  <2>5. CASE SweepStep(s)
    <3>1. CASE ClaimEnds(s) \/ GroupEnds(s) \/ SweepEnds(s)
      BY <2>2, <3>1 DEF ClaimEnds, GroupEnds, SweepEnds, docVars, history
    <3>2. CASE PostSucceeds(s)
      <4>1. /\ pc[s] = "post" /\ pc'[s] = "record" /\ UNCHANGED <<todo, faults, pushed, attempts>>
            /\ \E T : Delivered(group[s], T)
        BY <1>1, <3>2 DEF PostSucceeds, docVars, TypeOK
      <4> QED BY <1>1, <2>1, <4>1, PaidDelivery
    <3>3. CASE PostFails(s)
      <4>1. /\ pc[s] = "post" /\ pc'[s] = "release" /\ UNCHANGED <<todo, faults, pushed, attempts>>
        BY <1>1, <3>3 DEF PostFails, docVars, TypeOK
      <4>2. UNCHANGED deliveries \/ \E T : Delivered(group[s], T)
        BY <3>3 DEF PostFails, history
      <4> QED BY <1>1, <2>1, <2>2, <4>1, <4>2, PaidDelivery
    <3>4. ASSUME NEW m \in Notice, ClaimNext(s, m) \/ StartGroup(s, m) PROVE Paid(n)'
      BY <2>2, <3>4 DEF ClaimNext, StartGroup, docVars, history
    <3>5. ASSUME NEW m \in Notice, MarkOne(s, m) \/ ReleaseOne(s, m) PROVE Paid(n)'
      <4>1. /\ UNCHANGED <<deliveries, faults, pc>>
            /\ attempts' = [attempts EXCEPT ![m] = @ + 1] /\ todo'[s] = todo[s] \ {m}
        BY <1>1, <3>5 DEF MarkOne, ReleaseOne, MarkPushed, ReleaseClaim, history, TypeOK
      <4> QED BY <2>3, <4>1
    <3>6. ASSUME NEW m \in Notice, RecordFails(s, m) PROVE Paid(n)'
      <4>1. /\ UNCHANGED <<deliveries, faults>> /\ pc'[s] = "release"
            /\ todo[s] \subseteq todo'[s]
            /\ UNCHANGED attempts \/ attempts' = [attempts EXCEPT ![m] = @ + 1]
        BY <1>1, <3>6 DEF RecordFails, MarkPushed, docVars, TypeOK, PaidInv, CapInv, LeaseInv, Phases
      <4>2. Uncounted(n) => Uncounted(n)'
        BY <2>1, <4>1 DEF Uncounted, OnlyMoves
      <4>3. attempts'[n] >= attempts[n]
        <5>1. attempts'[n] \in {attempts[n], attempts[n] + 1}
          BY <1>1, <4>1 DEF TypeOK
        <5> QED BY <1>2, <5>1
      <4> QED BY <1>1, <1>2, <2>1, <4>1, <4>2, <4>3, PaidKept
    <3> QED BY <2>5, <3>1, <3>2, <3>3, <3>4, <3>5, <3>6 DEF SweepStep
  <2>6. CASE FaultStep(s)
    <3>1. faults' = faults + 1
      BY <2>6 DEF FaultStep, ClaimFails, LoopFails, Crash, Fault
    <3>2. ASSUME UNCHANGED deliveries, attempts'[n] >= attempts[n] PROVE Paid(n)'
      BY <1>1, <1>2, <2>1, <3>1, <3>2, PaidKept
    <3>3. CASE ClaimFails(s)
      BY <1>2, <3>2, <3>3 DEF ClaimFails, history
    <3>4. ASSUME NEW m \in Notice, LoopFails(s, m) PROVE Paid(n)'
      <4>1. UNCHANGED deliveries
        BY <3>4 DEF LoopFails, history
      <4>2. UNCHANGED attempts \/ attempts' = [attempts EXCEPT ![m] = @ + 1]
        BY <3>4 DEF LoopFails, MarkPushed, ReleaseClaim, docVars
      <4>3. attempts'[n] \in {attempts[n], attempts[n] + 1}
        BY <1>1, <4>2 DEF TypeOK
      <4>4. attempts'[n] >= attempts[n]
        BY <1>2, <4>3
      <4> QED BY <3>2, <4>1, <4>4
    <3>5. CASE Crash(s)
      <4>1. UNCHANGED <<pushed, attempts>>
        BY <3>5 DEF Crash, docVars
      <4>2. UNCHANGED deliveries \/ (pc[s] = "post" /\ \E T : Delivered(group[s], T))
        BY <3>5 DEF Crash, history
      <4>3. CASE UNCHANGED deliveries
        BY <1>2, <3>2, <4>1, <4>3
      <4>4. CASE pc[s] = "post" /\ \E T : Delivered(group[s], T)
        BY <1>1, <2>1, <3>1, <4>1, <4>4, PaidDelivery
      <4> QED BY <4>2, <4>3, <4>4
    <3> QED BY <2>6, <3>3, <3>4, <3>5 DEF FaultStep
  <2> QED BY <1>4, <2>4, <2>5, <2>6
<1> QED BY <1>3, <1>4 DEF Next

\* When the lease covers a sweep, subscribers get a notice at most MaxAttempts
\* times, and once more for each crash or failed write that ended a sweep: what
\* the cap on pushAttempts is worth to them.
THEOREM DeliveriesStayCapped == LeaseCovers => (Spec => []DeliveriesCapped)
<1> SUFFICES ASSUME LeaseCovers PROVE Spec => []DeliveriesCapped
  OBVIOUS
<1>1. Init => PaidInv
  <2>1. Init => LeaseInv
    BY LeaseInit
  <2>2. ASSUME Init PROVE \A s \in Server : Holding(s) = {}
    BY <2>2 DEF Init, Holding
  <2> QED BY <2>1, <2>2, DispatchAssumption DEF Init, PaidInv, CapInv, AttemptsCapped, Paid
<1>2. PaidInv /\ [Next]_vars => PaidInv'
  BY CapStep, PaidStep DEF PaidInv
<1>3. PaidInv => DeliveriesCapped
  BY DEF PaidInv, Paid, DeliveriesCapped
<1> QED BY <1>1, <1>2, <1>3, PTL DEF Spec
-----------------------------------------------------------------------------
(* What was announced, with or without a sufficient lease *)

\* No group of equal content reaches more boards than one call can name.
UnionFits ==
    \A G \in SUBSET Notice :
        (\A m, n \in G : DedupKeyOf[m] = DedupKeyOf[n])
            => Cardinality(TopicUnion(G)) <= TopicCap

Reached(n) == TopicsOf[n] \subseteq announced[n]

AnnouncedInv ==
    /\ TypeOK
    /\ PushedMeansAnnounced
    /\ \A s \in Server :
         /\ \A m, n \in group[s] : DedupKeyOf[m] = DedupKeyOf[n]
         /\ todo[s] \subseteq group[s]
         /\ pc[s] \in {"record", "skip"} => \A n \in group[s] : Reached(n)

\* A call that is not cut reaches the topics of every member of the group.
LEMMA CallReaches ==
    ASSUME UnionFits, AnnouncedInv, NEW s \in Server,
           NEW T \in Payloads(group[s]), Delivered(group[s], T)
    PROVE  \A n \in group[s] : Reached(n)'
<1>1. group[s] \in SUBSET Notice /\ TypeOK
  BY DEF AnnouncedInv, TypeOK
<1>2. T = TopicUnion(group[s])
  BY <1>1 DEF UnionFits, AnnouncedInv, Payloads
<1>3. ASSUME NEW n \in group[s] PROVE Reached(n)'
  <2>1. TopicsOf[n] \subseteq T
    BY <1>2 DEF TopicUnion
  <2>2. announced'[n] = announced[n] \cup T
    BY <1>1, <1>3 DEF Delivered
  <2> QED BY <2>1, <2>2 DEF Reached
<1> QED BY <1>3

\* Every step keeps it, whatever the lease.
LEMMA AnnouncedStep == ASSUME UnionFits, AnnouncedInv, [Next]_vars PROVE AnnouncedInv'
<1>1. TypeOK /\ TypeOK'
  BY TypeStep DEF AnnouncedInv
<1> DEFINE Group(t) == /\ \A m, n \in group[t] : DedupKeyOf[m] = DedupKeyOf[n]
                       /\ todo[t] \subseteq group[t]
                       /\ pc[t] \in {"record", "skip"} => \A n \in group[t] : Reached(n)
<1>2. CASE Environment \/ Tick \/ UNCHANGED vars
  <2>1. UNCHANGED <<pc, group, todo, pushed, announced>>
    BY <1>2 DEF Environment, Summarise, Withdraw, Tick, vars, sweepVars, history
  <2> QED BY <1>1, <2>1 DEF AnnouncedInv, PushedMeansAnnounced, Reached
<1>3. ASSUME NEW s \in Server, StartSweep(s) \/ SweepStep(s) \/ FaultStep(s)
      PROVE  AnnouncedInv'
  <2>1. OnlyMoves(s)
    BY <1>1, <1>3, OneActs
  <2>2. \A n \in Notice : Reached(n) => Reached(n)'
    <3>1. \/ UNCHANGED announced
          \/ \E G, T : Delivered(G, T)
      BY <1>3 DEF StartSweep, SweepStep, FaultStep, ClaimEnds, PostSucceeds, PostFails,
                  GroupEnds, SweepEnds, ClaimNext, StartGroup, MarkOne, RecordFails,
                  ReleaseOne, ClaimFails, Crash, LoopFails, history
    <3>2. ASSUME NEW n \in Notice PROVE announced[n] \subseteq announced'[n]
      BY <3>1 DEF Delivered
    <3> QED BY <3>2 DEF Reached
  <2>3. ASSUME NEW t \in Server \ {s} PROVE Group(t)'
    <3>1. /\ Group(t) /\ group[t] \subseteq Notice
          /\ pc'[t] = pc[t] /\ group'[t] = group[t] /\ todo'[t] = todo[t]
      BY <1>1, <2>1 DEF AnnouncedInv, OnlyMoves, TypeOK
    <3> QED BY <2>2, <3>1
  <2>4. ASSUME Group(s)',
               \A n \in Notice : pushed'[n] => pushed[n] \/ Reached(n)
        PROVE  AnnouncedInv'
    <3>1. PushedMeansAnnounced'
      BY <2>2, <2>4 DEF AnnouncedInv, PushedMeansAnnounced, Reached
    <3> QED BY <1>1, <2>3, <2>4, <3>1 DEF AnnouncedInv
  <2>5. Group(s) /\ group[s] \subseteq Notice
    BY <1>1 DEF AnnouncedInv, TypeOK
  <2>6. CASE StartSweep(s)
    BY <1>1, <2>4, <2>5, <2>6 DEF StartSweep, docVars, TypeOK
  <2>7. CASE SweepStep(s)
    <3>1. CASE ClaimEnds(s) \/ SweepEnds(s) \/ PostFails(s)
      <4>1. UNCHANGED <<pushed, group, todo>> /\ pc'[s] \notin {"record", "skip"}
        BY <1>1, <3>1 DEF ClaimEnds, SweepEnds, PostFails, docVars, TypeOK
      <4>2. Group(s)'
        BY <2>5, <4>1
      <4> QED BY <2>4, <4>1, <4>2
    <3>7. CASE GroupEnds(s)
      <4>1. UNCHANGED pushed /\ pc'[s] = "dispatch" /\ todo'[s] = {} /\ group'[s] = {}
        BY <1>1, <3>7 DEF GroupEnds, docVars, TypeOK
      <4>2. Group(s)'
        BY <4>1
      <4> QED BY <2>4, <4>1, <4>2
    <3>2. CASE PostSucceeds(s)
      <4>1. PICK T \in Payloads(group[s]) : Delivered(group[s], T)
        BY <3>2 DEF PostSucceeds
      <4>2. \A n \in group[s] : Reached(n)'
        BY <4>1, CallReaches
      <4>3. UNCHANGED <<pushed, group, todo>>
        BY <3>2 DEF PostSucceeds, docVars
      <4>4. Group(s)'
        BY <2>5, <4>2, <4>3
      <4> QED BY <2>4, <4>3, <4>4
    <3>3. ASSUME NEW n \in Notice, ClaimNext(s, n) \/ ReleaseOne(s, n) PROVE AnnouncedInv'
      <4>1. /\ UNCHANGED <<pushed, announced, pc, group>>
            /\ todo'[s] \subseteq todo[s]
        BY <1>1, <3>3 DEF ClaimNext, ReleaseOne, ReleaseClaim, history, TypeOK
      <4>2. Group(s)'
        BY <2>5, <4>1 DEF Reached
      <4> QED BY <2>4, <4>1, <4>2
    <3>4. ASSUME NEW n \in Notice, StartGroup(s, n) PROVE AnnouncedInv'
      <4>1. /\ group'[s] = GroupOf(batch[s], n) /\ todo'[s] = group'[s]
            /\ pc'[s] = IF TopicUnion(group'[s]) = {} THEN "skip" ELSE "post"
            /\ UNCHANGED <<pushed, announced>>
        BY <1>1, <3>4 DEF StartGroup, docVars, history, TypeOK
      <4>2. \A k, m \in group'[s] : DedupKeyOf[k] = DedupKeyOf[m]
        BY <4>1 DEF GroupOf
      <4>3. pc'[s] = "skip" => \A m \in group'[s] : Reached(m)'
        BY <4>1 DEF TopicUnion, Reached
      <4>4. Group(s)'
        BY <4>1, <4>2, <4>3
      <4> QED BY <2>4, <4>1, <4>4
    <3>5. ASSUME NEW n \in Notice, MarkOne(s, n) PROVE AnnouncedInv'
      <4>1. /\ UNCHANGED <<announced, pc, group>>
            /\ pc[s] \in {"record", "skip"} /\ n \in todo[s]
            /\ todo'[s] \subseteq todo[s]
            /\ \A m \in Notice : pushed'[m] => pushed[m] \/ m = n
        BY <1>1, <3>5 DEF MarkOne, MarkPushed, history, TypeOK
      <4>2. Group(s)' /\ Reached(n)
        BY <2>5, <4>1 DEF Reached
      <4> QED BY <2>4, <4>1, <4>2
    <3>6. ASSUME NEW n \in Notice, RecordFails(s, n) PROVE AnnouncedInv'
      <4>1. /\ UNCHANGED <<announced, group>>
            /\ pc[s] = "record" /\ pc'[s] = "release" /\ n \in todo[s]
            /\ todo'[s] = group[s]
            /\ \A m \in Notice : pushed'[m] => pushed[m] \/ m = n
        BY <1>1, <3>6 DEF RecordFails, MarkPushed, docVars, TypeOK
      <4>2. Group(s)' /\ Reached(n)
        BY <2>5, <4>1 DEF Reached
      <4> QED BY <2>4, <4>1, <4>2
    <3> QED BY <2>7, <3>1, <3>2, <3>3, <3>4, <3>5, <3>6, <3>7 DEF SweepStep
  <2>8. CASE FaultStep(s)
    <3>1. pc'[s] = "idle" /\ group'[s] = {} /\ todo'[s] = {}
      BY <1>1, <2>8 DEF FaultStep, ClaimFails, Crash, LoopFails, Abandon, TypeOK
    <3>2. Group(s)'
      BY <3>1
    <3>3. CASE ClaimFails(s) \/ Crash(s)
      BY <2>4, <3>2, <3>3 DEF ClaimFails, Crash, docVars
    <3>4. ASSUME NEW n \in Notice, LoopFails(s, n) PROVE AnnouncedInv'
      <4>1. /\ n \in todo[s]
            /\ UNCHANGED pushed \/ (pc[s] = "skip" /\ MarkPushed(n))
        BY <3>4 DEF LoopFails, ReleaseClaim, docVars
      <4>2. MarkPushed(n) => \A m \in Notice : pushed'[m] => pushed[m] \/ m = n
        BY <1>1 DEF MarkPushed, TypeOK
      <4>3. pc[s] = "skip" => Reached(n)
        BY <2>5, <4>1
      <4> QED BY <2>4, <3>2, <4>1, <4>2, <4>3
    <3> QED BY <2>8, <3>3, <3>4 DEF FaultStep
  <2> QED BY <1>3, <2>6, <2>7, <2>8
<1> QED BY <1>2, <1>3 DEF Next

\* If the topics of no group pass the cap of the function, a notice is settled
\* only after every topic of its own board got a delivery - whatever the lease,
\* the timeouts and the faults, and although a member of a group is recorded
\* on the strength of a call that names the whole group.
THEOREM SettledIsAnnounced == UnionFits => (Spec => []PushedMeansAnnounced)
<1> SUFFICES ASSUME UnionFits PROVE Spec => []PushedMeansAnnounced
  OBVIOUS
<1>1. Init => AnnouncedInv
  BY TypeInit DEF Init, AnnouncedInv, PushedMeansAnnounced
<1>2. AnnouncedInv /\ [Next]_vars => AnnouncedInv'
  BY AnnouncedStep
<1>3. AnnouncedInv => PushedMeansAnnounced
  BY DEF AnnouncedInv
<1> QED BY <1>1, <1>2, <1>3, PTL DEF Spec

-----------------------------------------------------------------------------
(* The refinement: as long as the lease covers a sweep, NoticeDispatch     *)
(* implements PushOnce and repeats a push only when the record of a        *)
(* delivery was lost.                                                      *)


\* What a sweep knows of the group it is dealing with: its members have equal
\* content; it skips the call only for boards without a topic, and records only
\* what the function was called for.
Known(s) ==
    /\ \A m, n \in group[s] : DedupKeyOf[m] = DedupKeyOf[n]
    /\ pc[s] = "skip" => \A n \in group[s] : TopicsOf[n] = {}
    /\ pc[s] = "record" => \A n \in group[s] : deliveries[n] > 0

\* Its delivery is about to be recorded.
Recording(n) == \E s \in Server : pc[s] = "record" /\ n \in todo[s]

\* A delivery beyond the lost ones is recorded, or about to be.
Counted(n) ==
    /\ deliveries[n] <= lost[n] + 1
    /\ deliveries[n] <= lost[n] \/ pushed[n] \/ Recording(n)

OnceInv == LeaseInv /\ (\A s \in Server : Known(s)) /\ (\A n \in Notice : Counted(n))

AbstractStep == [Abstract!Next]_(Abstract!vars)

\* What a step that neither delivers nor settles is to the abstract promise.
LEMMA Stutters ==
    ASSUME UNCHANGED <<deliveries, pushed>> PROVE AbstractStep
BY DEF AbstractStep, Abstract!vars

\* Calling the function for the group of a sweep is the abstract delivery.
LEMMA DeliverStep ==
    ASSUME OnceInv, NEW s \in Server, pc[s] = "post", NEW T,
           Delivered(group[s], T), UNCHANGED pushed
    PROVE  AbstractStep
<1>1. group[s] \in SUBSET Notice
  BY DEF OnceInv, LeaseInv, TypeOK
<1>2. \A n \in group[s] : ~pushed[n]
  BY DEF OnceInv, LeaseInv, Phases
<1>3. Abstract!Deliver(group[s])
  BY <1>2 DEF Abstract!Deliver, Delivered, CountUp, OnceInv, Known
<1> QED
  BY <1>1, <1>3 DEF AbstractStep, Abstract!Next

\* Recording a member of the group is the abstract settlement.
LEMMA SettleStep ==
    ASSUME OnceInv, NEW s \in Server, pc[s] \in {"record", "skip"},
           NEW n \in todo[s], MarkPushed(n), UNCHANGED deliveries
    PROVE  AbstractStep
<1>1. n \in Notice /\ n \in group[s] /\ ~pushed[n]
  BY DEF OnceInv, LeaseInv, TypeOK, Phases
<1>2. n \in {m \in Notice : TopicsOf[m] # {}} => deliveries[n] > 0
  BY <1>1 DEF OnceInv, Known
<1>3. Abstract!Settle(n)
  BY <1>1, <1>2 DEF Abstract!Settle, MarkPushed
<1> QED
  BY <1>1, <1>3 DEF AbstractStep, Abstract!Next

\* Every step is a step of the promise, or leaves it alone.
LEMMA StepImplements == ASSUME OnceInv, [Next]_vars PROVE AbstractStep
<1>1. CASE UNCHANGED vars
  BY <1>1, Stutters DEF vars
<1>2. CASE Environment \/ Tick
  BY <1>2, Stutters DEF Environment, Summarise, Withdraw, Tick, history
<1>3. ASSUME NEW s \in Server, StartSweep(s) \/ SweepStep(s) PROVE AbstractStep
  <2>1. CASE StartSweep(s) \/ ClaimEnds(s) \/ GroupEnds(s) \/ SweepEnds(s)
    BY <2>1, Stutters DEF StartSweep, ClaimEnds, GroupEnds, SweepEnds, docVars, history
  <2>2. CASE PostSucceeds(s)
    BY <2>2, DeliverStep DEF PostSucceeds, docVars
  <2>3. CASE PostFails(s)
    BY <2>3, DeliverStep, Stutters DEF PostFails, docVars, history
  <2>4. ASSUME NEW n \in Notice, ClaimNext(s, n) \/ StartGroup(s, n) \/ ReleaseOne(s, n)
        PROVE  AbstractStep
    BY <2>4, Stutters DEF ClaimNext, StartGroup, ReleaseOne, ReleaseClaim, docVars, history
  <2>5. ASSUME NEW n \in Notice, MarkOne(s, n) PROVE AbstractStep
    BY <2>5, SettleStep DEF MarkOne, history
  <2>6. ASSUME NEW n \in Notice, RecordFails(s, n) PROVE AbstractStep
    BY <2>6, SettleStep, Stutters DEF RecordFails, docVars
  <2> QED
    BY <1>3, <2>1, <2>2, <2>3, <2>4, <2>5, <2>6 DEF SweepStep
<1>4. ASSUME NEW s \in Server, FaultStep(s) PROVE AbstractStep
  <2>1. CASE ClaimFails(s)
    BY <2>1, Stutters DEF ClaimFails, history
  <2>2. CASE Crash(s)
    <3>1. UNCHANGED pushed
      BY <2>2 DEF Crash, docVars
    <3>2. \/ UNCHANGED deliveries
          \/ pc[s] = "post" /\ \E T \in Payloads(group[s]) : Delivered(group[s], T)
      BY <2>2 DEF Crash, history
    <3> QED
      BY <3>1, <3>2, DeliverStep, Stutters
  <2>3. ASSUME NEW n \in Notice, LoopFails(s, n) PROVE AbstractStep
    <3>1. UNCHANGED deliveries /\ n \in todo[s]
      BY <2>3 DEF LoopFails, history
    <3>2. UNCHANGED pushed \/ (pc[s] = "skip" /\ MarkPushed(n))
      BY <2>3 DEF LoopFails, ReleaseClaim, docVars
    <3> QED
      BY <3>1, <3>2, SettleStep, Stutters
  <2> QED
    BY <1>4, <2>1, <2>2, <2>3 DEF FaultStep
<1> QED
  BY <1>1, <1>2, <1>3, <1>4 DEF Next
-----------------------------------------------------------------------------
(* OnceInv is inductive, as long as the lease covers a sweep *)

\* What is about to be recorded stays so, unless the recording sweep moves on.
LEMMA RecordingKept ==
    ASSUME NEW s \in Server, OnlyMoves(s), NEW n,
           (pc[s] = "record" /\ n \in todo[s]) => (pc'[s] = "record" /\ n \in todo'[s])
    PROVE  Recording(n) => Recording(n)'
BY DEF Recording, OnlyMoves

\* Every step keeps what the sweeps know.
LEMMA KnownStep ==
    ASSUME OnceInv, [Next]_vars PROVE \A t \in Server : Known(t)'
<1>1. TypeOK /\ \A t \in Server : Known(t)
  BY DEF OnceInv, LeaseInv
<1>2. CASE Environment \/ Tick \/ UNCHANGED vars
  <2>1. UNCHANGED <<pc, group, deliveries>>
    BY <1>2 DEF Environment, Summarise, Withdraw, Tick, vars, sweepVars, history
  <2> QED BY <1>1, <2>1 DEF Known
<1>3. ASSUME NEW s \in Server, StartSweep(s) \/ SweepStep(s) \/ FaultStep(s),
             NEW t \in Server
      PROVE  Known(t)'
  <2>1. /\ OnlyMoves(s)
        /\ \A n \in Notice : deliveries[n] > 0 => deliveries'[n] > 0
    BY <1>1, <1>3, OneActs
  <2>2. group[t] \subseteq Notice /\ Known(t)
    BY <1>1 DEF TypeOK
  <2>3. CASE t # s
    BY <2>1, <2>2, <2>3 DEF OnlyMoves, Known
  <2>4. ASSUME t = s, pc'[s] \notin {"skip", "record"}, group'[s] \in {group[s], {}}
        PROVE  Known(t)'
    BY <2>2, <2>4 DEF Known
  <2>5. CASE t = s /\ StartSweep(s)
    BY <1>1, <2>4, <2>5 DEF StartSweep, TypeOK
  <2>6. CASE t = s /\ SweepStep(s)
    <3>1. CASE ClaimEnds(s) \/ GroupEnds(s) \/ SweepEnds(s) \/ PostFails(s)
      BY <1>1, <2>4, <2>6, <3>1 DEF ClaimEnds, GroupEnds, SweepEnds, PostFails, TypeOK
    <3>2. CASE PostSucceeds(s)
      <4>1. pc'[s] = "record" /\ group' = group
        BY <1>1, <3>2 DEF PostSucceeds, TypeOK
      <4>2. \A n \in group[s] : deliveries'[n] > 0
        BY <1>1, <2>2, <2>6, <3>2 DEF PostSucceeds, Delivered, CountUp, TypeOK
      <4> QED BY <2>2, <2>6, <4>1, <4>2 DEF Known
    <3>3. ASSUME NEW n \in Notice, ClaimNext(s, n) \/ ReleaseOne(s, n) \/ RecordFails(s, n)
          PROVE  Known(t)'
      BY <1>1, <2>4, <2>6, <3>3 DEF ClaimNext, ReleaseOne, RecordFails, TypeOK
    <3>4. ASSUME NEW n \in Notice, StartGroup(s, n) PROVE Known(t)'
      <4>1. /\ group'[s] = GroupOf(batch[s], n)
            /\ pc'[s] = IF TopicUnion(group'[s]) = {} THEN "skip" ELSE "post"
        BY <1>1, <3>4 DEF StartGroup, TypeOK
      <4>2. \A k, m \in group'[s] : DedupKeyOf[k] = DedupKeyOf[m]
        BY <4>1 DEF GroupOf
      <4>3. TopicUnion(group'[s]) = {} => \A m \in group'[s] : TopicsOf[m] = {}
        BY DEF TopicUnion
      <4> QED BY <2>6, <4>1, <4>2, <4>3 DEF Known
    <3>5. ASSUME NEW n \in Notice, MarkOne(s, n) PROVE Known(t)'
      BY <2>2, <2>6, <3>5 DEF MarkOne, history, Known
    <3> QED BY <2>6, <3>1, <3>2, <3>3, <3>4, <3>5 DEF SweepStep
  <2>7. CASE t = s /\ FaultStep(s)
    BY <1>1, <2>4, <2>7 DEF FaultStep, ClaimFails, Crash, LoopFails, Abandon, TypeOK
  <2> QED BY <1>3, <2>3, <2>5, <2>6, <2>7
<1> QED BY <1>2, <1>3 DEF Next

\* No other sweep is about to record what a sweep is calling the function for.
LEMMA CallIsAlone ==
    ASSUME OnceInv, NEW s \in Server, pc[s] = "post", NEW n \in group[s]
    PROVE  n \in Notice /\ deliveries[n] <= lost[n]
<1>1. n \in Notice /\ n \in todo[s] /\ ~pushed[n] /\ n \in Holding(s)
  BY DEF OnceInv, LeaseInv, TypeOK, Phases, Holding
<1>2. ~Recording(n)
  BY <1>1 DEF Recording, OnceInv, LeaseInv, ClaimsDisjoint, Holding
<1> QED BY <1>1, <1>2 DEF OnceInv, Counted

\* A step that leaves the counters of a notice alone, takes back no record and
\* does not give up recording it.
LEMMA CountedKept ==
    ASSUME NEW n \in Notice, Counted(n),
           deliveries'[n] = deliveries[n], lost'[n] = lost[n],
           pushed[n] => pushed'[n], Recording(n) => pushed'[n] \/ Recording(n)'
    PROVE  Counted(n)'
BY DEF Counted

\* A sweep gives up a record it was about to make: the delivery is lost.
LEMMA CountedLost ==
    ASSUME TypeOK, OnceInv, NEW s \in Server, NEW n \in Notice, OnlyMoves(s),
           pc[s] = "record", UNCHANGED deliveries,
           \A m \in Notice : pushed[m] => pushed'[m],
           \/ lost' = CountUp(lost, todo[s])
           \/ \E m \in todo[s] : pushed'[m] /\ lost' = CountUp(lost, todo[s] \ {m})
    PROVE  Counted(n)'
<1>1. Counted(n) /\ deliveries[n] \in Nat /\ lost[n] \in Nat
  BY DEF OnceInv, TypeOK
<1>2. CASE n \in todo[s]
  <2>1. lost'[n] = lost[n] + 1 \/ (lost'[n] = lost[n] /\ pushed'[n])
    BY <1>2 DEF CountUp
  <2> QED BY <1>1, <2>1 DEF Counted
<1>3. CASE n \notin todo[s]
  <2>1. lost'[n] = lost[n]
    BY <1>3 DEF CountUp
  <2> QED BY <1>1, <1>3, <2>1, RecordingKept, CountedKept
<1> QED BY <1>2, <1>3

\* A delivery whose answer will never be seen is lost at once.
LEMMA CountedUnseen ==
    ASSUME TypeOK, OnceInv, NEW s \in Server, NEW n \in Notice, OnlyMoves(s),
           pc[s] = "post", NEW T, Delivered(group[s], T), UNCHANGED pushed,
           lost' = CountUp(lost, group[s])
    PROVE  Counted(n)'
<1>1. Counted(n) /\ deliveries[n] \in Nat /\ lost[n] \in Nat
  BY DEF OnceInv, TypeOK
<1>2. CASE n \in group[s]
  <2>1. deliveries'[n] = deliveries[n] + 1 /\ lost'[n] = lost[n] + 1
    BY <1>2 DEF Delivered, CountUp
  <2>2. deliveries[n] <= lost[n]
    BY <1>2, CallIsAlone
  <2> QED BY <1>1, <2>1, <2>2 DEF Counted
<1>3. CASE n \notin group[s]
  <2>1. deliveries'[n] = deliveries[n] /\ lost'[n] = lost[n]
    BY <1>3 DEF Delivered, CountUp
  <2> QED BY <1>1, <2>1, RecordingKept, CountedKept
<1> QED BY <1>2, <1>3

\* Every step keeps the count of each notice.
LEMMA CountedStep ==
    ASSUME OnceInv, [Next]_vars, NEW n \in Notice PROVE Counted(n)'
<1>1. TypeOK /\ Counted(n)
  BY DEF OnceInv, LeaseInv
<1>2. CASE Environment \/ Tick \/ UNCHANGED vars
  <2>1. UNCHANGED <<pc, todo, pushed, deliveries, lost>>
    BY <1>2 DEF Environment, Summarise, Withdraw, Tick, vars, sweepVars, history
  <2> QED BY <1>1, <2>1 DEF Counted, Recording
<1>3. ASSUME NEW s \in Server, StartSweep(s) \/ SweepStep(s) \/ FaultStep(s)
      PROVE  Counted(n)'
  <2>1. /\ OnlyMoves(s)
        /\ \A m \in Notice : pushed[m] => pushed'[m]
    BY <1>1, <1>3, OneActs
  <2>2. ASSUME UNCHANGED <<deliveries, lost>>,
               pc[s] # "record" \/ n \notin todo[s]
        PROVE  Counted(n)'
    BY <1>1, <2>1, <2>2, RecordingKept, CountedKept
  <2>3. CASE StartSweep(s)
    BY <2>2, <2>3 DEF StartSweep, history
  <2>4. CASE SweepStep(s)
    <3>1. CASE ClaimEnds(s) \/ GroupEnds(s) \/ SweepEnds(s)
      BY <2>2, <3>1 DEF ClaimEnds, GroupEnds, SweepEnds, history
    <3>2. CASE PostSucceeds(s)
      <4>1. /\ pc[s] = "post" /\ pc'[s] = "record" /\ UNCHANGED <<todo, lost>>
            /\ \E T : Delivered(group[s], T)
        BY <1>1, <3>2 DEF PostSucceeds, TypeOK
      <4>2. CASE n \in group[s]
        <5>1. n \in todo[s] /\ deliveries[n] <= lost[n]
          BY <4>1, <4>2, CallIsAlone DEF OnceInv, LeaseInv, Phases
        <5>2. deliveries'[n] = deliveries[n] + 1
          BY <4>1, <4>2 DEF Delivered, CountUp
        <5>3. Recording(n)'
          BY <4>1, <5>1 DEF Recording
        <5>4. deliveries[n] \in Nat /\ lost[n] \in Nat /\ lost'[n] = lost[n]
          BY <1>1, <4>1 DEF TypeOK
        <5> QED BY <5>1, <5>2, <5>3, <5>4 DEF Counted
      <4>3. CASE n \notin group[s]
        <5>1. deliveries'[n] = deliveries[n]
          BY <4>1, <4>3 DEF Delivered, CountUp
        <5> QED BY <1>1, <2>1, <4>1, <5>1, RecordingKept, CountedKept
      <4> QED BY <4>2, <4>3
    <3>3. CASE PostFails(s)
      <4>1. pc[s] = "post" /\ UNCHANGED pushed
        BY <3>3 DEF PostFails, docVars
      <4>2. \/ UNCHANGED <<deliveries, lost>>
            \/ (\E T : Delivered(group[s], T)) /\ lost' = CountUp(lost, group[s])
        BY <3>3 DEF PostFails, history
      <4> QED BY <1>1, <2>1, <2>2, <4>1, <4>2, CountedUnseen
    <3>4. ASSUME NEW m \in Notice, ClaimNext(s, m) \/ StartGroup(s, m) \/ ReleaseOne(s, m)
          PROVE  Counted(n)'
      BY <2>2, <3>4 DEF ClaimNext, StartGroup, ReleaseOne, history
    <3>5. ASSUME NEW m \in Notice, MarkOne(s, m) PROVE Counted(n)'
      <4>1. /\ UNCHANGED <<deliveries, lost, pc>>
            /\ pushed'[m] /\ todo'[s] = todo[s] \ {m}
        BY <1>1, <3>5 DEF MarkOne, MarkPushed, history, TypeOK
      <4>2. CASE n = m
        BY <1>1, <4>1, <4>2, CountedKept
      <4>3. CASE n # m
        BY <1>1, <2>1, <4>1, <4>3, RecordingKept, CountedKept
      <4> QED BY <4>2, <4>3
    <3>6. ASSUME NEW m \in Notice, RecordFails(s, m) PROVE Counted(n)'
      <4>1. /\ pc[s] = "record" /\ UNCHANGED deliveries /\ m \in todo[s]
            /\ \/ lost' = CountUp(lost, todo[s])
               \/ MarkPushed(m) /\ lost' = CountUp(lost, todo[s] \ {m})
        BY <3>6 DEF RecordFails
      <4>2. MarkPushed(m) => pushed'[m]
        BY <1>1 DEF MarkPushed, TypeOK
      <4> QED BY <1>1, <2>1, <4>1, <4>2, CountedLost
    <3> QED BY <2>4, <3>1, <3>2, <3>3, <3>4, <3>5, <3>6 DEF SweepStep
  <2>5. CASE FaultStep(s)
    <3>1. ASSUME NEW m \in Notice, ClaimFails(s) \/ LoopFails(s, m) PROVE Counted(n)'
      BY <2>2, <3>1 DEF ClaimFails, LoopFails, history
    <3>2. CASE Crash(s) /\ pc[s] = "post"
      <4>1. UNCHANGED pushed
        BY <3>2 DEF Crash, docVars
      <4>2. \/ UNCHANGED <<deliveries, lost>>
            \/ (\E T : Delivered(group[s], T)) /\ lost' = CountUp(lost, group[s])
        BY <3>2 DEF Crash, history
      <4> QED BY <1>1, <2>1, <2>2, <3>2, <4>1, <4>2, CountedUnseen
    <3>3. CASE Crash(s) /\ pc[s] = "record"
      <4>1. UNCHANGED deliveries /\ lost' = CountUp(lost, todo[s])
        BY <3>3 DEF Crash
      <4> QED BY <1>1, <2>1, <3>3, <4>1, CountedLost
    <3>4. CASE Crash(s) /\ pc[s] \notin {"post", "record"}
      BY <2>2, <3>4 DEF Crash, history
    <3> QED BY <2>5, <3>1, <3>2, <3>3, <3>4 DEF FaultStep
  <2> QED BY <1>3, <2>3, <2>4, <2>5
<1> QED BY <1>2, <1>3 DEF Next

\* Every step keeps the invariant, when the lease covers a sweep.
LEMMA OnceStep == ASSUME LeaseCovers, OnceInv, [Next]_vars PROVE OnceInv'
<1>1. LeaseInv'
  BY LeaseStep DEF OnceInv
<1> QED BY <1>1, KnownStep, CountedStep DEF OnceInv

\* The invariant holds at the start.
LEMMA OnceInit == ASSUME Init PROVE OnceInv
<1>1. LeaseInv
  BY LeaseInit
<1>2. \A s \in Server : Known(s)
  BY DEF Init, Known
<1>3. \A n \in Notice : Counted(n)
  BY DEF Init, Counted
<1> QED BY <1>1, <1>2, <1>3 DEF OnceInv

\* When the lease covers a sweep, subscribers see a notice again only for
\* every time its record was lost: by an answer that did not come, a crash or
\* a failed write.
THEOREM RepeatsExplained == LeaseCovers => (Spec => []DuplicatesExplained)
<1> SUFFICES ASSUME LeaseCovers PROVE Spec => []DuplicatesExplained
  OBVIOUS
<1>1. Init => OnceInv
  BY OnceInit
<1>2. OnceInv /\ [Next]_vars => OnceInv'
  BY OnceStep
<1>3. OnceInv => DuplicatesExplained
  BY DEF OnceInv, Counted, DuplicatesExplained
<1> QED BY <1>1, <1>2, <1>3, PTL DEF Spec

\* When the lease covers a sweep, the dispatch of any number of processes
\* keeps the promise of PushOnce: it calls the function only for notices of
\* equal content that are not settled, and settles each once, after a call or
\* for want of topics.
THEOREM DispatchImplements == LeaseCovers => (Spec => ImplementsPushOnce)
<1> SUFFICES ASSUME LeaseCovers PROVE Spec => ImplementsPushOnce
  OBVIOUS
<1>1. Init => OnceInv /\ Abstract!Init
  BY OnceInit DEF Init, Abstract!Init
<1>2. OnceInv /\ [Next]_vars => OnceInv'
  BY OnceStep
<1>3. OnceInv /\ [Next]_vars => [Abstract!Next]_(Abstract!vars)
  BY StepImplements DEF AbstractStep
<1> QED BY <1>1, <1>2, <1>3, PTL DEF Spec, ImplementsPushOnce, Abstract!Spec

-----------------------------------------------------------------------------
(* How often a notice goes out, with or without a sufficient lease.  Once  *)
(* it is recorded, no sweep takes it up again: what can still be delivered *)
(* is what the other sweeps hold, a copy each.                             *)

\* The sets of a sweep, with or without a lease.
Sets(s) ==
    /\ pc[s] \in {"idle", "claim", "dispatch"} => group[s] = {}
    /\ todo[s] \subseteq group[s]
    /\ batch[s] \cap group[s] = {}
    /\ pc[s] = "post" => todo[s] = group[s]

\* The sweeps that may still call the function for a notice, and those that have
\* and are about to record it.
Calls(s, n) == n \in batch[s] \/ (pc[s] = "post" /\ n \in group[s])
Records(s, n) == pc[s] = "record" /\ n \in todo[s]
Callers(n) == {s \in Server : Calls(s, n)}
Recorders(n) == {s \in Server : Records(s, n)}

Copies(n) ==
    IF pushed[n] THEN deliveries[n] + Cardinality(Callers(n)) <= lost[n] + Cardinality(Server)
                 ELSE deliveries[n] <= lost[n] + Cardinality(Recorders(n))
CopyInv == TypeOK /\ (\A s \in Server : Sets(s)) /\ (\A n \in Notice : Copies(n))

LEMMA SetsStep ==
    ASSUME TypeOK, \A s \in Server : Sets(s), [Next]_vars, NEW t \in Server
    PROVE  Sets(t)'
<1> USE DEF TypeOK
<1>0. Sets(t) /\ batch[t] \subseteq Notice /\ group[t] \subseteq Notice
  OBVIOUS
<1>1. CASE UNCHANGED <<pc, batch, group, todo>>
  BY <1>0, <1>1 DEF Sets
<1>2. CASE Environment \/ Tick \/ UNCHANGED vars
  BY <1>1, <1>2 DEF Environment, Summarise, Withdraw, Tick, vars, sweepVars
<1>3. ASSUME NEW s \in Server, s # t, StartSweep(s) \/ SweepStep(s) \/ FaultStep(s)
      PROVE  Sets(t)'
  BY <1>0, <1>3, OneActs DEF OnlyMoves, Sets
<1>4. CASE StartSweep(t)
  BY <1>0, <1>4 DEF StartSweep, Sets
<1>5. CASE SweepStep(t)
  <2>1. CASE ClaimEnds(t) \/ SweepEnds(t) \/ GroupEnds(t)
    BY <1>0, <2>1 DEF ClaimEnds, SweepEnds, GroupEnds, Sets
  <2>2. CASE PostSucceeds(t) \/ PostFails(t)
    BY <1>0, <2>2 DEF PostSucceeds, PostFails, Sets
  <2>3. ASSUME NEW n \in Notice, ClaimNext(t, n) PROVE Sets(t)'
    BY <1>0, <2>3 DEF ClaimNext, Sets
  <2>4. ASSUME NEW n \in Notice, StartGroup(t, n) PROVE Sets(t)'
    BY <1>0, <2>4 DEF StartGroup, GroupOf, Sets
  <2>5. ASSUME NEW n \in Notice, MarkOne(t, n) \/ RecordFails(t, n) \/ ReleaseOne(t, n)
        PROVE  Sets(t)'
    BY <1>0, <2>5 DEF MarkOne, RecordFails, ReleaseOne, Sets
  <2> QED
    BY <1>5, <2>1, <2>2, <2>3, <2>4, <2>5 DEF SweepStep
<1>6. CASE FaultStep(t)
  <2>1. group'[t] = {} /\ todo'[t] = {} /\ pc'[t] = "idle"
    BY <1>6 DEF FaultStep, ClaimFails, Crash, LoopFails, Abandon
  <2> QED
    BY <2>1 DEF Sets
<1> QED
  BY <1>2, <1>3, <1>4, <1>5, <1>6 DEF Next

\* What a step may do to a notice, s being the sweep whose step it is.
Rests(s, n) ==      \* it is neither called for nor recorded
    /\ deliveries'[n] = deliveries[n] /\ lost'[n] = lost[n] /\ pushed'[n] = pushed[n]
    /\ Records(s, n)' <=> Records(s, n)
    /\ pushed[n] /\ Calls(s, n)' => Calls(s, n)
IsHeard(s, n) ==    \* it is delivered, and the sweep knows
    /\ deliveries'[n] = deliveries[n] + 1 /\ lost'[n] = lost[n] /\ pushed'[n] = pushed[n]
    /\ Calls(s, n) /\ ~Records(s, n) /\ ~Calls(s, n)' /\ Records(s, n)'
IsLost(s, n) ==     \* a delivery, of now or of before, is lost
    /\ deliveries'[n] <= deliveries[n] + 1 /\ lost'[n] = lost[n] + 1
    /\ pushed'[n] = pushed[n]
    /\ deliveries'[n] = deliveries[n] \/ (Records(s, n)' <=> Records(s, n))
    /\ Calls(s, n)' => Calls(s, n)
IsPushed(s, n) ==   \* it is recorded
    /\ deliveries'[n] = deliveries[n] /\ lost'[n] = lost[n] /\ pushed'[n]
    /\ Calls(s, n)' => Calls(s, n)
Fate(s, n) == Rests(s, n) \/ IsHeard(s, n) \/ IsLost(s, n) \/ IsPushed(s, n)

LEMMA FateOfSweep ==
    ASSUME TypeOK, NEW s \in Server, Sets(s), NEW n \in Notice,
           StartSweep(s) \/ SweepStep(s) \/ FaultStep(s)
    PROVE  Fate(s, n)
<1> USE DEF TypeOK
<1>1. CASE StartSweep(s) \/ ClaimEnds(s) \/ GroupEnds(s) \/ SweepEnds(s)
  <2>1. Rests(s, n)
    BY <1>1 DEF StartSweep, ClaimEnds, GroupEnds, SweepEnds, Rests, Records, Calls, Sets,
                docVars, history
  <2> QED
    BY <2>1 DEF Fate
<1>2. CASE PostSucceeds(s)
  <2>1. /\ pc[s] = "post" /\ pc'[s] = "record" /\ UNCHANGED <<pushed, batch, group, todo, lost>>
        /\ deliveries' = CountUp(deliveries, group[s])
    BY <1>2 DEF PostSucceeds, Delivered, docVars
  <2>2. CASE n \in group[s]
    <3>1. IsHeard(s, n)
      BY <2>1, <2>2 DEF IsHeard, Records, Calls, Sets, CountUp
    <3> QED
      BY <3>1 DEF Fate
  <2>3. CASE n \notin group[s]
    <3>1. Rests(s, n)
      BY <2>1, <2>3 DEF Rests, Records, Calls, Sets, CountUp
    <3> QED
      BY <3>1 DEF Fate
  <2> QED
    BY <2>2, <2>3
<1>3. CASE PostFails(s)
  <2>1. pc[s] = "post" /\ pc'[s] = "release" /\ UNCHANGED <<pushed, batch, group, todo>>
    BY <1>3 DEF PostFails, docVars
  <2>2. \/ UNCHANGED <<deliveries, lost>>
        \/ /\ deliveries' = CountUp(deliveries, group[s])
           /\ lost' = CountUp(lost, group[s])
    BY <1>3 DEF PostFails, Delivered, history
  <2>3. Rests(s, n) \/ IsLost(s, n)
    BY <2>1, <2>2 DEF Rests, IsLost, Records, Calls, CountUp
  <2> QED
    BY <2>3 DEF Fate
<1>4. ASSUME NEW m \in Notice, ClaimNext(s, m) PROVE Fate(s, n)
  <2>1. Rests(s, n)
    BY <1>4 DEF ClaimNext, Claimable, Rests, Records, Calls, history
  <2> QED
    BY <2>1 DEF Fate
<1>5. ASSUME NEW m \in Notice, StartGroup(s, m) PROVE Fate(s, n)
  <2>1. Rests(s, n)
    BY <1>5 DEF StartGroup, GroupOf, Rests, Records, Calls, docVars, history
  <2> QED
    BY <2>1 DEF Fate
<1>6. ASSUME NEW m \in Notice, MarkOne(s, m) PROVE Fate(s, n)
  <2>1. Rests(s, n) \/ IsPushed(s, n)
    BY <1>6 DEF MarkOne, MarkPushed, Rests, IsPushed, Records, Calls, history
  <2> QED
    BY <2>1 DEF Fate
<1>7. ASSUME NEW m \in Notice, ReleaseOne(s, m) PROVE Fate(s, n)
  <2>1. Rests(s, n)
    BY <1>7 DEF ReleaseOne, ReleaseClaim, Rests, Records, Calls, history
  <2> QED
    BY <2>1 DEF Fate
<1>8. ASSUME NEW m \in Notice, RecordFails(s, m) PROVE Fate(s, n)
  <2>1. /\ pc[s] = "record" /\ pc'[s] = "release" /\ m \in todo[s]
        /\ UNCHANGED <<batch, group, deliveries>>
        /\ \/ pushed' = [pushed EXCEPT ![m] = TRUE] /\ lost' = CountUp(lost, todo[s] \ {m})
           \/ UNCHANGED pushed /\ lost' = CountUp(lost, todo[s])
    BY <1>8 DEF RecordFails, MarkPushed, docVars
  <2>2. Rests(s, n) \/ IsLost(s, n) \/ IsPushed(s, n)
    BY <2>1 DEF Rests, IsLost, IsPushed, Records, Calls, CountUp
  <2> QED
    BY <2>2 DEF Fate
<1>9. CASE FaultStep(s)
  <2>1. pc'[s] = "idle" /\ batch'[s] = {}
    BY <1>9 DEF FaultStep, ClaimFails, Crash, LoopFails, Abandon
  <2>2. CASE ClaimFails(s)
    <3>1. Rests(s, n)
      BY <2>1, <2>2 DEF ClaimFails, Rests, Records, Calls, history
    <3> QED
      BY <3>1 DEF Fate
  <2>3. ASSUME NEW m \in Notice, LoopFails(s, m) PROVE Fate(s, n)
    <3>1. Rests(s, n) \/ IsPushed(s, n)
      BY <2>1, <2>3 DEF LoopFails, MarkPushed, ReleaseClaim, Rests, IsPushed, Records, Calls,
                        docVars, history
    <3> QED
      BY <3>1 DEF Fate
  <2>4. CASE Crash(s)
    <3>1. UNCHANGED pushed
      BY <2>4 DEF Crash, docVars
    <3>2. \/ pc[s] # "record" /\ UNCHANGED <<deliveries, lost>>
          \/ /\ pc[s] = "post" /\ deliveries' = CountUp(deliveries, group[s])
             /\ lost' = CountUp(lost, group[s])
          \/ pc[s] = "record" /\ UNCHANGED deliveries /\ lost' = CountUp(lost, todo[s])
      BY <2>4 DEF Crash, Delivered, history
    <3>3. Rests(s, n) \/ IsLost(s, n)
      BY <2>1, <3>1, <3>2 DEF Rests, IsLost, Records, Calls, CountUp
    <3> QED
      BY <3>3 DEF Fate
  <2> QED
    BY <1>9, <2>2, <2>3, <2>4 DEF FaultStep
<1> QED
  BY <1>1, <1>2, <1>3, <1>4, <1>5, <1>6, <1>7, <1>8, <1>9 DEF SweepStep

\* The sweeps that may call for a notice and those that may record it are two
\* disjoint sets of processes.
LEMMA CallersAndRecorders ==
    ASSUME IsFiniteSet(Server), \A s \in Server : Sets(s), NEW n \in Notice
    PROVE  /\ IsFiniteSet(Callers(n)) /\ Cardinality(Callers(n)) \in Nat
           /\ IsFiniteSet(Recorders(n)) /\ Cardinality(Recorders(n)) \in Nat
           /\ Cardinality(Server) \in Nat
           /\ Cardinality(Callers(n)) + Cardinality(Recorders(n)) <= Cardinality(Server)
<1>1. Callers(n) \subseteq Server /\ Recorders(n) \subseteq Server
  BY DEF Callers, Recorders
<1>2. Callers(n) \cap Recorders(n) = {}
  BY DEF Callers, Recorders, Calls, Records, Sets
<1>3. IsFiniteSet(Callers(n)) /\ IsFiniteSet(Recorders(n))
  BY <1>1, FS_Subset
<1>4. /\ Cardinality(Callers(n)) \in Nat /\ Cardinality(Recorders(n)) \in Nat
      /\ Cardinality(Server) \in Nat
  BY <1>3, FS_CardinalityType
<1>5. Cardinality(Callers(n) \cup Recorders(n)) = Cardinality(Callers(n)) + Cardinality(Recorders(n))
  <2>1. Cardinality(Callers(n) \cap Recorders(n)) = 0
    BY <1>2, FS_EmptySet
  <2>2. Cardinality(Callers(n) \cup Recorders(n)) =
          Cardinality(Callers(n)) + Cardinality(Recorders(n))
            - Cardinality(Callers(n) \cap Recorders(n))
    BY <1>3, FS_Union
  <2> QED
    BY ONLY <1>4, <2>1, <2>2
<1>6. Cardinality(Callers(n) \cup Recorders(n)) <= Cardinality(Server)
  <2>1. Callers(n) \cup Recorders(n) \subseteq Server
    BY <1>1
  <2> QED
    BY <2>1, FS_Subset
<1> QED
  BY <1>3, <1>4, <1>5, <1>6

\* A step of one sweep adds that sweep to the callers or the recorders of a
\* notice, or takes it from them, and moves no other.
LEMMA CallersMove ==
    ASSUME NEW s \in Server, OnlyMoves(s), NEW n \in Notice
    PROVE  /\ (Calls(s, n)' => Calls(s, n)) => Callers(n)' \subseteq Callers(n)
           /\ Calls(s, n) /\ ~Calls(s, n)' => Callers(n)' = Callers(n) \ {s}
           /\ (Records(s, n)' <=> Records(s, n)) => Recorders(n)' = Recorders(n)
           /\ ~Records(s, n) /\ Records(s, n)' => Recorders(n)' = Recorders(n) \cup {s}
           /\ Recorders(n) \ {s} \subseteq Recorders(n)'
<1>1. \A t \in Server \ {s} : (Calls(t, n)' <=> Calls(t, n)) /\ (Records(t, n)' <=> Records(t, n))
  BY DEF OnlyMoves, Calls, Records
<1>2. /\ Callers(n)' = {t \in Server : Calls(t, n)'}
      /\ Recorders(n)' = {t \in Server : Records(t, n)'}
  BY DEF Callers, Recorders
<1> QED
  BY <1>1, <1>2 DEF Callers, Recorders

LEMMA CopiesKept ==
    ASSUME IsFiniteSet(Server), CopyInv, \A s \in Server : Sets(s)', TypeOK',
           NEW s \in Server, OnlyMoves(s), NEW n \in Notice, Fate(s, n)
    PROVE  Copies(n)'
<1> DEFINE C == Cardinality(Callers(n))
           R == Cardinality(Recorders(n))
           K == Cardinality(Server)
           D == deliveries[n]
           L == lost[n]
<1>1. C \in Nat /\ R \in Nat /\ K \in Nat /\ C + R <= K
  BY CallersAndRecorders DEF CopyInv
<1>2. IsFiniteSet(Callers(n)) /\ IsFiniteSet(Recorders(n))
  BY CallersAndRecorders DEF CopyInv
<1>3. IsFiniteSet(Callers(n)') /\ IsFiniteSet(Recorders(n)') /\ C' \in Nat /\ R' \in Nat
  <2>1. Callers(n)' \subseteq Server /\ Recorders(n)' \subseteq Server
    BY DEF Callers, Recorders
  <2>2. IsFiniteSet(Callers(n)') /\ IsFiniteSet(Recorders(n)')
    BY <2>1, FS_Subset
  <2> QED
    BY <2>2, FS_CardinalityType
<1>4. D \in Nat /\ D' \in Nat /\ L \in Nat /\ L' \in Nat
  BY DEF CopyInv, TypeOK
<1>5. (pushed[n] => D + C <= L + K) /\ (~pushed[n] => D <= L + R)
  BY DEF CopyInv, Copies
<1>6. (Calls(s, n)' => Calls(s, n)) => C' <= C
  BY <1>2, CallersMove, FS_Subset
<1>7. Calls(s, n) /\ ~Calls(s, n)' => C' = C - 1
  <2>1. Calls(s, n) => s \in Callers(n)
    BY DEF Callers
  <2> QED
    BY <1>2, <2>1, CallersMove, FS_RemoveElement
<1>8. (Records(s, n)' <=> Records(s, n)) => R' = R
  BY CallersMove
<1>9. ~Records(s, n) /\ Records(s, n)' => R' = R + 1
  <2>1. ~Records(s, n) => s \notin Recorders(n)
    BY DEF Recorders
  <2> QED
    BY <1>2, <2>1, CallersMove, FS_AddElement
<1>10. R <= R' + 1
  <2> DEFINE M == Cardinality(Recorders(n) \ {s})
  <2>1. R = M \/ R = M + 1
    <3>1. CASE s \notin Recorders(n)
      <4>1. Recorders(n) \ {s} = Recorders(n)
        BY <3>1
      <4> QED
        BY ONLY <4>1
    <3>2. CASE s \in Recorders(n)
      <4>1. M = R - 1
        BY <1>2, <3>2, FS_RemoveElement
      <4> QED
        BY ONLY <1>1, <4>1
    <3> QED
      BY <3>1, <3>2
  <2>2. M <= R'
    BY <1>3, CallersMove, FS_Subset
  <2>3. M \in Nat
    BY <1>2, FS_RemoveElement, FS_CardinalityType
  <2> QED
    BY ONLY <1>1, <1>3, <2>1, <2>2, <2>3
<1>11. ASSUME ~pushed'[n] PROVE D' <= L' + R'
  <2>1. D <= L + R
    BY <1>5, <1>11 DEF Fate, Rests, IsHeard, IsLost, IsPushed
  <2>2. \/ D' = D /\ L' = L /\ R' = R
        \/ D' = D + 1 /\ L' = L /\ R' = R + 1
        \/ D' <= D + 1 /\ L' = L + 1 /\ (D' = D \/ R' = R)
    BY <1>8, <1>9, <1>11 DEF Fate, Rests, IsHeard, IsLost, IsPushed
  <2> QED
    BY ONLY <1>1, <1>3, <1>4, <1>10, <2>1, <2>2
<1>12. ASSUME pushed'[n] PROVE D' + C' <= L' + K
  <2>1. D + C <= L + K
    BY <1>1, <1>4, <1>5
  <2>2. \/ D' = D /\ L' = L /\ C' <= C
        \/ D' = D + 1 /\ L' = L /\ C' = C - 1
        \/ D' <= D + 1 /\ L' = L + 1 /\ C' <= C
    BY <1>6, <1>7, <1>12 DEF Fate, Rests, IsHeard, IsLost, IsPushed
  <2> QED
    BY ONLY <1>1, <1>3, <1>4, <2>1, <2>2
<1> QED
  BY <1>11, <1>12 DEF Copies

LEMMA CopyStep == ASSUME IsFiniteSet(Server), CopyInv, [Next]_vars PROVE CopyInv'
<1>1. TypeOK'
  BY TypeStep DEF CopyInv
<1>2. \A t \in Server : Sets(t)'
  BY SetsStep DEF CopyInv
<1>3. ASSUME NEW n \in Notice PROVE Copies(n)'
  <2>1. CASE Environment \/ Tick \/ UNCHANGED vars
    <3>1. UNCHANGED <<pushed, deliveries, lost, pc, batch, group, todo>>
      BY <2>1 DEF Environment, Summarise, Withdraw, Tick, vars, sweepVars, history
    <3>2. Callers(n)' = Callers(n) /\ Recorders(n)' = Recorders(n)
      BY <3>1 DEF Callers, Recorders, Calls, Records
    <3> QED
      BY <3>1, <3>2 DEF CopyInv, Copies
  <2>2. ASSUME NEW s \in Server, StartSweep(s) \/ SweepStep(s) \/ FaultStep(s)
        PROVE  Copies(n)'
    <3>1. OnlyMoves(s)
      BY <2>2, OneActs DEF CopyInv
    <3>2. Fate(s, n)
      BY <2>2, FateOfSweep DEF CopyInv
    <3> QED
      BY <1>1, <1>2, <3>1, <3>2, CopiesKept
  <2> QED
    BY <2>1, <2>2 DEF Next
<1> QED
  BY <1>1, <1>2, <1>3 DEF CopyInv

LEMMA CopyInit == ASSUME IsFiniteSet(Server), Init PROVE CopyInv
<1>1. TypeOK
  BY TypeInit
<1>2. \A s \in Server : Sets(s)
  BY DEF Init, Sets
<1>3. \A n \in Notice : Copies(n)
  <2>1. \A n \in Notice : Recorders(n) = {}
    BY DEF Init, Recorders, Records
  <2> QED
    BY <2>1, FS_EmptySet DEF Init, Copies
<1> QED
  BY <1>1, <1>2, <1>3 DEF CopyInv

\* However short the lease is against the calls, a notice goes out at most once
\* per process beyond the deliveries whose record was lost: a recorded notice is
\* not claimed again, so only a copy taken before can still be sent.
THEOREM RepeatsBounded == IsFiniteSet(Server) => (Spec => []DuplicatesBounded)
<1> SUFFICES ASSUME IsFiniteSet(Server) PROVE Spec => []DuplicatesBounded
  OBVIOUS
<1>1. Init => CopyInv
  BY CopyInit
<1>2. CopyInv /\ [Next]_vars => CopyInv'
  BY CopyStep
<1>3. ASSUME CopyInv PROVE DuplicatesBounded
  <2> SUFFICES ASSUME NEW n \in Notice
               PROVE  deliveries[n] <= lost[n] + Cardinality(Server)
    BY DEF DuplicatesBounded
  <2>1. /\ Cardinality(Callers(n)) \in Nat /\ Cardinality(Recorders(n)) \in Nat
        /\ Cardinality(Server) \in Nat
        /\ Cardinality(Callers(n)) + Cardinality(Recorders(n)) <= Cardinality(Server)
    BY <1>3, CallersAndRecorders DEF CopyInv
  <2>2. deliveries[n] \in Nat /\ lost[n] \in Nat
    BY <1>3 DEF CopyInv, TypeOK
  <2>3. IF pushed[n] THEN deliveries[n] + Cardinality(Callers(n)) <= lost[n] + Cardinality(Server)
                     ELSE deliveries[n] <= lost[n] + Cardinality(Recorders(n))
    BY <1>3 DEF CopyInv, Copies
  <2> QED
    BY ONLY <2>1, <2>2, <2>3
<1> QED
  BY <1>1, <1>2, <1>3, PTL DEF Spec
=============================================================================
