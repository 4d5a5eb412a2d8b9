--------------------------- MODULE NoticeDispatch ---------------------------
(***************************************************************************)
(* Push dispatch of crawled notices: several server processes sweep one    *)
(* Mongo collection.  A sweep first claims a whole batch, one              *)
(* findOneAndUpdate at a time, under a time lease; then it calls the push  *)
(* Cloud Function once per group of notices with equal content, and        *)
(* records the outcome with one update per document.  There is no order    *)
(* in the claim query, so claimed documents are a set and groups are taken *)
(* in any order.                                                           *)
(*                                                                         *)
(* Time is counted in ticks and kept as ages, never as dates: claimAge is  *)
(* the age of dispatchClaimedAt (it stops counting once the lease is       *)
(* over), postAge the age of the outstanding function call.  A database    *)
(* operation takes less than a tick (DbPrompt, in Tick); a function call   *)
(* takes up to Timeout ticks, after which fcm-client aborts it.            *)
(***************************************************************************)
EXTENDS Integers, FiniteSets

CONSTANTS
    Server,       \* processes running a dispatcher: api replicas, the poller
    Poller,       \* the one whose cron (the safety net) fires forever
    Notice,       \* notice documents
    DedupKeyOf,   \* dedupKeyOf: equal exactly for equal title + contentHash
    Topic,        \* FCM topics
    TopicsOf,     \* buildTopics: the topics of a notice's board
    TopicCap,     \* most topics the function accepts in one call
    BatchCap,     \* sweepBatchCap, in documents
    MaxAttempts,  \* claims stop once pushAttempts reaches it
    Lease,        \* claimLeaseMs, in ticks
    Timeout,      \* fcmTimeoutMs, in ticks
    MaxFaults     \* bound: crashes and failed database calls that end a sweep

ASSUME DispatchAssumption ==
    /\ Poller \in Server
    /\ IsFiniteSet(Topic)
    /\ TopicsOf \in [Notice -> SUBSET Topic]
    /\ TopicCap \in Nat \ {0}
    /\ BatchCap \in Nat \ {0}
    /\ MaxAttempts \in Nat \ {0}
    /\ Lease \in Nat
    /\ Timeout \in Nat
    /\ MaxFaults \in Nat

VARIABLES
    \* the notices collection
    doc,          \* how far the crawler and the summariser are with the document
    pushed,       \* pushedAt is set
    attempts,     \* pushAttempts
    claimAge,     \* age of dispatchClaimedAt, or Unclaimed when it is null
    \* one sweep per process (sweepInFlight); all of it is lost in a crash
    pc,
    batch,        \* claimed, and not yet in a group
    group,        \* the group being dispatched
    todo,         \* its members not yet updated by the loop that is running
    postAge,      \* age of the outstanding function call
    \* for the properties only
    deliveries,   \* how often the function delivered the notice
    lost,         \* deliveries whose record (pushedAt) was lost
    announced,    \* the topics the notice was delivered to
    faults        \* faults so far

docVars   == <<doc, pushed, attempts, claimAge>>
sweepVars == <<pc, batch, group, todo, postAge>>
history   == <<deliveries, lost, announced>>
vars      == <<doc, pushed, attempts, claimAge, pc, batch, group, todo,
               postAge, deliveries, lost, announced, faults>>

Unclaimed == -1
Expired   == Lease + 1

\* "withdrawn" is isDeleted, or a date before the 14-day floor: a date is
\* immutable and the floor only moves forward, so neither comes back.
DocState == {"unsummarised", "eligible", "withdrawn"}
PC == {"idle", "claim", "dispatch", "post", "record", "skip", "release"}

TypeOK ==
    /\ doc \in [Notice -> DocState]
    /\ pushed \in [Notice -> BOOLEAN]
    /\ attempts \in [Notice -> Nat]
    /\ claimAge \in [Notice -> Unclaimed .. Expired]
    /\ pc \in [Server -> PC]
    /\ batch \in [Server -> SUBSET Notice]
    /\ \A s \in Server : /\ IsFiniteSet(batch[s])
                         /\ Cardinality(batch[s]) <= BatchCap
    /\ group \in [Server -> SUBSET Notice]
    /\ todo \in [Server -> SUBSET Notice]
    /\ postAge \in [Server -> 0 .. Timeout]
    /\ deliveries \in [Notice -> Nat]
    /\ lost \in [Notice -> Nat]
    /\ announced \in [Notice -> SUBSET Topic]
    /\ faults \in 0 .. MaxFaults

Init ==
    /\ doc = [n \in Notice |-> "unsummarised"]
    /\ pushed = [n \in Notice |-> FALSE]
    /\ attempts = [n \in Notice |-> 0]
    /\ claimAge = [n \in Notice |-> Unclaimed]
    /\ pc = [s \in Server |-> "idle"]
    /\ batch = [s \in Server |-> {}]
    /\ group = [s \in Server |-> {}]
    /\ todo = [s \in Server |-> {}]
    /\ postAge = [s \in Server |-> 0]
    /\ deliveries = [n \in Notice |-> 0]
    /\ lost = [n \in Notice |-> 0]
    /\ announced = [n \in Notice |-> {}]
    /\ faults = 0

-----------------------------------------------------------------------------
(* Operators *)

\* f with the members of S counted up by one.
CountUp(f, S) == [n \in Notice |-> IF n \in S THEN f[n] + 1 ELSE f[n]]

\* Wrong filters for claimNext, to see that the properties notice: it ignores
\* a lease that is running, it never takes over an expired one, it takes a
\* pushed notice again, it allows one attempt too many.
ClaimableIgnoringLease(n) ==
    doc[n] = "eligible" /\ ~pushed[n] /\ attempts[n] < MaxAttempts
ClaimableNoTakeover(n) ==
    ClaimableIgnoringLease(n) /\ claimAge[n] = Unclaimed
ClaimableTwice(n) ==
    /\ doc[n] = "eligible"
    /\ attempts[n] < MaxAttempts
    /\ claimAge[n] = Unclaimed \/ claimAge[n] > Lease
ClaimableOnceMore(n) ==
    /\ doc[n] = "eligible"
    /\ ~pushed[n]
    /\ attempts[n] <= MaxAttempts
    /\ claimAge[n] = Unclaimed \/ claimAge[n] > Lease

\* The filter of claimNext.
Claimable(n) ==
    /\ doc[n] = "eligible"
    /\ ~pushed[n]
    /\ attempts[n] < MaxAttempts
    /\ claimAge[n] = Unclaimed \/ claimAge[n] > Lease

\* One group of groupByDedupKey, started from one of its members.
GroupOf(S, n) == {m \in S : DedupKeyOf[m] = DedupKeyOf[n]}

\* Wrong: the topics of one member stand for the group.
TopicsOfOne(G) == IF G = {} THEN {} ELSE TopicsOf[CHOOSE n \in G : TRUE]

TopicUnion(G) == UNION {TopicsOf[n] : n \in G}

\* The topic lists a call may carry: the union, cut to the cap.  Which topics
\* survive the cut depends on the order of the members, which is arbitrary.
Payloads(G) ==
    IF Cardinality(TopicUnion(G)) <= TopicCap
    THEN {TopicUnion(G)}
    ELSE {T \in SUBSET TopicUnion(G) : Cardinality(T) = TopicCap}

\* The documents s has claimed and still means to call the function for or
\* to record: what its leases are there to protect.
Holding(s) == batch[s] \cup {n \in todo[s] : ~pushed[n]}

Fault == faults < MaxFaults /\ faults' = faults + 1

-----------------------------------------------------------------------------
(* The crawler, the summariser and time *)

\* External: the AI service stores a summary, which sets aiSummaryAt.
Summarise(n) ==
    /\ doc[n] = "unsummarised"
    /\ doc' = [doc EXCEPT ![n] = "eligible"]
    /\ UNCHANGED <<pushed, attempts, claimAge, sweepVars, history, faults>>

\* External: the crawler soft-deletes the notice, or it grows too old.
Withdraw(n) ==
    /\ doc[n] # "withdrawn"
    /\ doc' = [doc EXCEPT ![n] = "withdrawn"]
    /\ UNCHANGED <<pushed, attempts, claimAge, sweepVars, history, faults>>

\* DbPrompt: a sweep that holds documents lets time pass only while it waits
\* for the function, and no longer than the abort timer allows.
Tick ==
    /\ \A s \in Server : /\ pc[s] = "post" => postAge[s] < Timeout
                         /\ pc[s] # "post" => batch[s] \cup todo[s] = {}
    /\ claimAge' = [n \in Notice |->
                      IF claimAge[n] \in 0 .. Lease THEN claimAge[n] + 1
                                                    ELSE claimAge[n]]
    /\ postAge' = [s \in Server |-> IF pc[s] = "post" THEN postAge[s] + 1
                                                      ELSE postAge[s]]
    /\ UNCHANGED <<doc, pushed, attempts, pc, batch, group, todo, history, faults>>

-----------------------------------------------------------------------------
(* sweepPending, phase 1: claim the batch *)

\* A crawler ping or the cron; while a sweep runs the process answers
\* "in-progress" and changes nothing.
StartSweep(s) ==
    /\ pc[s] = "idle"
    /\ pc' = [pc EXCEPT ![s] = "claim"]
    /\ UNCHANGED <<docVars, batch, group, todo, postAge, history, faults>>

ClaimNext(s, n) ==
    /\ pc[s] = "claim"
    /\ Cardinality(batch[s]) < BatchCap
    /\ Claimable(n)
    /\ claimAge' = [claimAge EXCEPT ![n] = 0]
    /\ batch' = [batch EXCEPT ![s] = @ \cup {n}]
    /\ UNCHANGED <<doc, pushed, attempts, pc, group, todo, postAge, history, faults>>

ClaimEnds(s) ==
    /\ pc[s] = "claim"
    /\ Cardinality(batch[s]) >= BatchCap \/ ~\E n \in Notice : Claimable(n)
    /\ pc' = [pc EXCEPT ![s] = "dispatch"]
    /\ UNCHANGED <<docVars, batch, group, todo, postAge, history, faults>>

-----------------------------------------------------------------------------
(* sweepPending, phase 2: dispatchGroup, one group after the other *)

\* Starts the next group.  Without topics there is nothing to call.
StartGroup(s, n) ==
    /\ pc[s] = "dispatch"
    /\ n \in batch[s]
    /\ LET G == GroupOf(batch[s], n)
       IN /\ group' = [group EXCEPT ![s] = G]
          /\ todo' = [todo EXCEPT ![s] = G]
          /\ batch' = [batch EXCEPT ![s] = @ \ G]
          /\ pc' = [pc EXCEPT ![s] = IF TopicUnion(G) = {} THEN "skip" ELSE "post"]
    /\ postAge' = [postAge EXCEPT ![s] = 0]
    /\ UNCHANGED <<docVars, history, faults>>

\* The function delivered the call to the subscribers of topics T.
Delivered(G, T) ==
    /\ deliveries' = CountUp(deliveries, G)
    /\ announced' = [n \in Notice |-> IF n \in G THEN announced[n] \cup T
                                                 ELSE announced[n]]

\* The function delivered, and its 2xx answer arrived in time.
PostSucceeds(s) ==
    /\ pc[s] = "post"
    /\ \E T \in Payloads(group[s]) : Delivered(group[s], T)
    /\ pc' = [pc EXCEPT ![s] = "record"]
    /\ UNCHANGED <<docVars, batch, group, todo, postAge, lost, faults>>

\* The call failed or was aborted.  The function may have delivered all the
\* same, before or after the abort: only the answer is lost.
PostFails(s) ==
    /\ pc[s] = "post"
    /\ \/ UNCHANGED history
       \/ /\ \E T \in Payloads(group[s]) : Delivered(group[s], T)
          /\ lost' = CountUp(lost, group[s])
    /\ pc' = [pc EXCEPT ![s] = "release"]
    /\ UNCHANGED <<docVars, batch, group, todo, postAge, faults>>

\* Wrong: the record only gives the claim back.
MarkUnclaimed(n) ==
    /\ claimAge' = [claimAge EXCEPT ![n] = Unclaimed]
    /\ UNCHANGED <<doc, pushed, attempts>>

\* $set pushedAt, dispatchClaimedAt: null; $inc pushAttempts - filtered by _id.
MarkPushed(n) ==
    /\ pushed' = [pushed EXCEPT ![n] = TRUE]
    /\ claimAge' = [claimAge EXCEPT ![n] = Unclaimed]
    /\ attempts' = [attempts EXCEPT ![n] = @ + 1]
    /\ UNCHANGED doc

\* One turn of the loop after the call, or of the loop for no topics.
MarkOne(s, n) ==
    /\ pc[s] \in {"record", "skip"}
    /\ n \in todo[s]
    /\ MarkPushed(n)
    /\ todo' = [todo EXCEPT ![s] = @ \ {n}]
    /\ UNCHANGED <<pc, batch, group, postAge, history, faults>>

\* updateOne throws inside the try: the catch block now releases the WHOLE
\* group, members already recorded included.  The write may have been applied.
RecordFails(s, n) ==
    /\ pc[s] = "record"
    /\ n \in todo[s]
    /\ \/ /\ MarkPushed(n)
          /\ lost' = CountUp(lost, todo[s] \ {n})
       \/ /\ lost' = CountUp(lost, todo[s])
          /\ UNCHANGED docVars
    /\ pc' = [pc EXCEPT ![s] = "release"]
    /\ todo' = [todo EXCEPT ![s] = group[s]]
    /\ UNCHANGED <<batch, group, postAge, deliveries, announced, faults>>

\* Wrong: the release also clears pushedAt.
ReleaseUnpushed(n) ==
    /\ pushed' = [pushed EXCEPT ![n] = FALSE]
    /\ claimAge' = [claimAge EXCEPT ![n] = Unclaimed]
    /\ attempts' = [attempts EXCEPT ![n] = @ + 1]
    /\ UNCHANGED doc

\* The catch block: $set dispatchClaimedAt: null; $inc pushAttempts.
ReleaseClaim(n) ==
    /\ claimAge' = [claimAge EXCEPT ![n] = Unclaimed]
    /\ attempts' = [attempts EXCEPT ![n] = @ + 1]
    /\ UNCHANGED <<doc, pushed>>

ReleaseOne(s, n) ==
    /\ pc[s] = "release"
    /\ n \in todo[s]
    /\ ReleaseClaim(n)
    /\ todo' = [todo EXCEPT ![s] = @ \ {n}]
    /\ UNCHANGED <<pc, batch, group, postAge, history, faults>>

GroupEnds(s) ==
    /\ pc[s] \in {"record", "skip", "release"}
    /\ todo[s] = {}
    /\ pc' = [pc EXCEPT ![s] = "dispatch"]
    /\ group' = [group EXCEPT ![s] = {}]
    /\ UNCHANGED <<docVars, batch, todo, postAge, history, faults>>

SweepEnds(s) ==
    /\ pc[s] = "dispatch"
    /\ batch[s] = {}
    /\ pc' = [pc EXCEPT ![s] = "idle"]
    /\ UNCHANGED <<docVars, batch, group, todo, postAge, history, faults>>

-----------------------------------------------------------------------------
(* Faults that end a sweep early; every claim still held keeps its lease *)

Abandon(s) ==
    /\ pc' = [pc EXCEPT ![s] = "idle"]
    /\ batch' = [batch EXCEPT ![s] = {}]
    /\ group' = [group EXCEPT ![s] = {}]
    /\ todo' = [todo EXCEPT ![s] = {}]
    /\ UNCHANGED postAge

\* findOneAndUpdate throws, possibly after its claim was applied.
ClaimFails(s) ==
    /\ pc[s] = "claim"
    /\ Fault
    /\ \/ UNCHANGED claimAge
       \/ \E n \in Notice : /\ Cardinality(batch[s]) < BatchCap
                            /\ Claimable(n)
                            /\ claimAge' = [claimAge EXCEPT ![n] = 0]
    /\ Abandon(s)
    /\ UNCHANGED <<doc, pushed, attempts, history>>

\* updateOne throws outside the try, in the loop for no topics or in the
\* catch block: the error leaves sweepPending.
LoopFails(s, n) ==
    /\ pc[s] \in {"skip", "release"}
    /\ n \in todo[s]
    /\ Fault
    /\ \/ UNCHANGED docVars
       \/ pc[s] = "skip" /\ MarkPushed(n)
       \/ pc[s] = "release" /\ ReleaseClaim(n)
    /\ Abandon(s)
    /\ UNCHANGED history

\* The process dies and restarts.  A call under way may still be delivered; a
\* delivered call that was not recorded yet never will be.
Crash(s) ==
    /\ pc[s] # "idle"
    /\ Fault
    /\ CASE pc[s] = "post" ->
              \/ UNCHANGED history
              \/ /\ \E T \in Payloads(group[s]) : Delivered(group[s], T)
                 /\ lost' = CountUp(lost, group[s])
         [] pc[s] = "record" ->
              /\ lost' = CountUp(lost, todo[s])
              /\ UNCHANGED <<deliveries, announced>>
         [] OTHER -> UNCHANGED history
    /\ Abandon(s)
    /\ UNCHANGED docVars

-----------------------------------------------------------------------------
Environment == \E n \in Notice : Summarise(n) \/ Withdraw(n)

SweepStep(s) ==
    \/ ClaimEnds(s)
    \/ PostSucceeds(s)
    \/ PostFails(s)
    \/ GroupEnds(s)
    \/ SweepEnds(s)
    \/ \E n \in Notice : \/ ClaimNext(s, n)
                         \/ StartGroup(s, n)
                         \/ MarkOne(s, n)
                         \/ RecordFails(s, n)
                         \/ ReleaseOne(s, n)

FaultStep(s) ==
    \/ ClaimFails(s)
    \/ Crash(s)
    \/ \E n \in Notice : LoopFails(s, n)

Next ==
    \/ Environment
    \/ Tick
    \/ \E s \in Server : StartSweep(s) \/ SweepStep(s) \/ FaultStep(s)

Spec == Init /\ [][Next]_vars

\* setInterval fires the poller's cron forever; a running sweep goes on until
\* it ends or crashes (a function call ends at the latest with its abort);
\* time passes.  Nothing makes a ping or the crawler's work happen.
Fairness ==
    /\ WF_vars(Tick)
    /\ WF_vars(StartSweep(Poller))
    /\ \A s \in Server : WF_vars(SweepStep(s))

FairSpec == Spec /\ Fairness

-----------------------------------------------------------------------------
(* Properties *)

\* No document is held by two sweeps at once: what one process has claimed and
\* not yet dealt with is in no other process's batch or group.
ClaimsDisjoint ==
    \A s, t \in Server : s # t => Holding(s) \cap Holding(t) = {}

\* No call is under way for a notice that is recorded as pushed: a push is not
\* repeated once its outcome is in the database, neither by a later call nor by
\* one that runs beside the first.
NoRepush ==
    \A s \in Server : pc[s] = "post" => \A n \in group[s] : ~pushed[n]

\* A sweep never starts a call for a notice that another one has recorded as
\* pushed while it waited in the batch: single flight and the claim, as the
\* poller's comment says, prevent double dispatch.
NoDoubleDispatch ==
    [][\A s \in Server : \A n \in batch[s] :
          StartGroup(s, n) => \A m \in group'[s] : ~pushed[m]]_vars

\* A document some sweep has yet to dispatch carries a claim.
HeldIsLeased ==
    \A s \in Server : \A n \in batch[s] : claimAge[n] # Unclaimed

\* A notice is recorded as pushed only when every topic of its own board got
\* a delivery - a member of a group, too, although the call carries another
\* member's deep link.  (Under a topic cap that the union stays within.)
PushedMeansAnnounced ==
    \A n \in Notice : pushed[n] => TopicsOf[n] \subseteq announced[n]

\* Subscribers see a notice twice only if the record of a delivery was lost:
\* an answer that never came, a crash or a failed write after the call.
DuplicatesExplained ==
    \A n \in Notice : deliveries[n] <= lost[n] + 1

\* pushAttempts of a notice that is still to be pushed never passes the cap.  It
\* counts records and releases, not calls: a call that a crash or a failed
\* release ends is never counted.
AttemptsCapped ==
    \A n \in Notice : ~pushed[n] => attempts[n] <= MaxAttempts

\* Subscribers get a notice at most MaxAttempts times, and once more for each
\* crash or failed write that ended a sweep before it could count its call -
\* however many answers are lost, records fail and members of a group are
\* released again.
DeliveriesCapped ==
    \A n \in Notice : deliveries[n] <= MaxAttempts + faults

\* Even when sweeps outlive their leases, a notice goes out at most once per
\* process beyond the deliveries whose record was lost: once it is recorded,
\* only the sweeps that already hold a stale copy can send it again.
DuplicatesBounded ==
    \A n \in Notice : deliveries[n] <= lost[n] + Cardinality(Server)

\* Every eligible notice is eventually pushed, out of attempts or withdrawn:
\* no lease, crash or lost write keeps it from the sweeps for ever.
EventuallyResolved ==
    \A n \in Notice :
        doc[n] = "eligible" ~> \/ pushed[n]
                               \/ attempts[n] >= MaxAttempts
                               \/ doc[n] = "withdrawn"

\* The abstract promise, see PushOnce.
Abstract == INSTANCE PushOnce
                WITH HasSubscribers <- {n \in Notice : TopicsOf[n] # {}}
ImplementsPushOnce == Abstract!Spec
=============================================================================
