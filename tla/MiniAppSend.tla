----------------------------- MODULE MiniAppSend -----------------------------
(***************************************************************************)
(* A mini app's broadcast: ops ask a replica to send an announcement; the  *)
(* replica writes it to the feed, calls the push Cloud Function with the   *)
(* entry's id, patches what the function reported onto the entry, and      *)
(* replies.  Only the call is inside the try whose failure is replied as   *)
(* "undelivered".  Ops act on the reply: they send an announcement again   *)
(* only while none of its sends is unanswered or was replied "delivered".  *)
(*                                                                         *)
(* Sends are numbered in the order of sentAt, which a send takes when it   *)
(* starts.  A send runs in one process, which may crash; its call may be   *)
(* aborted by the timer or fail on the way, and the function may still     *)
(* push, or have pushed, whatever became of the process that called it.    *)
(* Replies pass a gateway which gives up on its own timer.                 *)
(***************************************************************************)
EXTENDS Integers, FiniteSets

CONSTANTS
    Announcement,   \* what ops want to announce, for one mini app
    WellFormed,     \* those whose draft buildDoc accepts
    FeedLimit,      \* config.miniapps.feedLimit
    MaxSend         \* bound: sends in all

ASSUME SendAssumption ==
    /\ WellFormed \subseteq Announcement
    /\ FeedLimit \in Nat
    /\ MaxSend \in Nat

Send == 1 .. MaxSend

VARIABLES
    started,    \* number of sends so far
    of,         \* the announcement of a send
    pc,         \* where its process is; all of it is lost in a crash
    reply,      \* what ops got for it
    \* the collection sent_notifications
    feed,       \* the sends that have an entry
    recorded,   \* those whose entry's delivery is not null
    \* the Cloud Function
    call,       \* the call of a send
    pushed,     \* the sends whose announcement went to the subscribers
    \* for the properties only
    heard       \* the sends whose process got the function's success

vars == <<started, of, pc, reply, feed, recorded, call, pushed, heard>>

PC == {"idle", "insert", "post", "record", "done", "dead"}

\* "refused" is a 400, "failed" a 500 (the insert threw); "unknown" is the
\* gateway's 504, or a connection that broke.
Reply == {"none", "refused", "failed", "undelivered", "delivered", "unknown"}

\* "out" is with the function, or lost on the way to it.
Call == {"none", "out", "ok", "error"}

TypeOK ==
    /\ started \in 0 .. MaxSend
    /\ of \in [Send -> Announcement]
    /\ pc \in [Send -> PC]
    /\ reply \in [Send -> Reply]
    /\ feed \subseteq Send
    /\ recorded \subseteq feed
    /\ call \in [Send -> Call]
    /\ pushed \subseteq Send
    /\ heard \subseteq Send
    /\ \A i \in Send : /\ i > started => pc[i] = "idle"
                       /\ pc[i] \in {"post", "record"} => i \in feed

Init ==
    /\ started = 0
    /\ of \in [Send -> Announcement]
    /\ pc = [i \in Send |-> "idle"]
    /\ reply = [i \in Send |-> "none"]
    /\ feed = {}
    /\ recorded = {}
    /\ call = [i \in Send |-> "none"]
    /\ pushed = {}
    /\ heard = {}

-----------------------------------------------------------------------------
(* The process of a send *)

Goes(i, there) == pc' = [pc EXCEPT ![i] = there]

\* A reply reaches ops unless the gateway has given up.
Replies(i, what) ==
    reply' = [reply EXCEPT ![i] = IF @ = "none" THEN what ELSE @]

Sends(a) == {i \in 1 .. started : of[i] = a}

\* What an ops team that reads the replies will send, for the first time or again.
Wanted(a) == \A i \in Sends(a) : reply[i] \notin {"none", "delivered", "refused"}

\* The controller and buildDoc: a malformed draft leaves no trace.
Start(i) ==
    /\ i = started + 1
    /\ Wanted(of[i])
    /\ started' = i
    /\ IF of[i] \in WellFormed
       THEN Goes(i, "insert") /\ UNCHANGED reply
       ELSE Goes(i, "done") /\ Replies(i, "refused")
    /\ UNCHANGED <<of, feed, recorded, call, pushed, heard>>

\* insertSentNotification is awaited, then the call goes out.
Insert(i) ==
    /\ pc[i] = "insert"
    /\ feed' = feed \cup {i}
    /\ call' = [call EXCEPT ![i] = "out"]
    /\ Goes(i, "post")
    /\ UNCHANGED <<started, of, reply, recorded, pushed, heard>>

\* The insert throws; it may have been written all the same.
InsertThrows(i) ==
    /\ pc[i] = "insert"
    /\ feed' \in {feed, feed \cup {i}}
    /\ Replies(i, "failed")
    /\ Goes(i, "done")
    /\ UNCHANGED <<started, of, recorded, call, pushed, heard>>

\* postToFcmFunction returns.
Delivered(i) ==
    /\ pc[i] = "post"
    /\ call[i] = "ok"
    /\ heard' = heard \cup {i}
    /\ Goes(i, "record")
    /\ UNCHANGED <<started, of, reply, feed, recorded, call, pushed>>

\* It throws: a status that is not 2xx, a network error, or the abort timer.  The
\* entry stays, and stays without a delivery.
WithdrawnOnFailure(i) == feed \ {i}              \* wrong: the entry is deleted
KeptOnFailure(i) == feed
RecordedOnFailure(i) == recorded \cup {i}        \* wrong: a delivery to nobody
NotRecordedOnFailure(i) == recorded

Undelivered(i) ==
    /\ pc[i] = "post"
    /\ feed' = KeptOnFailure(i)
    /\ recorded' = NotRecordedOnFailure(i)
    /\ Replies(i, "undelivered")
    /\ Goes(i, "done")
    /\ UNCHANGED <<started, of, call, pushed, heard>>

\* recordDelivery returns or throws; thrown, it may have been written.
ReplyInOneTry(written) ==                        \* wrong: recorded inside the try
    IF written THEN "delivered" ELSE "undelivered"
ReplyTo(written) == "delivered"

Record(i, written) ==
    /\ pc[i] = "record"
    /\ recorded' \in IF written THEN {recorded \cup {i}}
                     ELSE {recorded, recorded \cup {i}}
    /\ Replies(i, ReplyTo(written))
    /\ Goes(i, "done")
    /\ UNCHANGED <<started, of, feed, call, pushed, heard>>

Crash(i) ==
    /\ pc[i] \in {"insert", "post", "record"}
    /\ \/ UNCHANGED feed
       \/ pc[i] = "insert" /\ feed' = feed \cup {i}
    /\ \/ UNCHANGED recorded
       \/ pc[i] = "record" /\ recorded' = recorded \cup {i}
    /\ Goes(i, "dead")
    /\ Replies(i, "unknown")
    /\ UNCHANGED <<started, of, call, pushed, heard>>

\* proxy_read_timeout; the process goes on.
GatewayGivesUp(i) ==
    /\ pc[i] \in {"insert", "post", "record"}
    /\ reply[i] = "none"
    /\ Replies(i, "unknown")
    /\ UNCHANGED <<started, of, pc, feed, recorded, call, pushed, heard>>

-----------------------------------------------------------------------------
(* The Cloud Function *)

Pushes(i) ==
    /\ call[i] = "out"
    /\ pushed' = pushed \cup {i}
    /\ UNCHANGED <<started, of, pc, reply, feed, recorded, call, heard>>

\* It reports success only after it pushed; an error may follow a push.
Answers(i) ==
    /\ call[i] = "out"
    /\ \/ i \in pushed /\ call' = [call EXCEPT ![i] = "ok"]
       \/ call' = [call EXCEPT ![i] = "error"]
    /\ UNCHANGED <<started, of, pc, reply, feed, recorded, pushed, heard>>

-----------------------------------------------------------------------------
Proceed(i) ==
    \/ Insert(i)
    \/ InsertThrows(i)
    \/ Delivered(i)
    \/ Undelivered(i)
    \/ \E written \in BOOLEAN : Record(i, written)

Next ==
    \E i \in Send :
        \/ Start(i)
        \/ Proceed(i)
        \/ Crash(i)
        \/ GatewayGivesUp(i)
        \/ Pushes(i)
        \/ Answers(i)

Spec == Init /\ [][Next]_vars

-----------------------------------------------------------------------------
(* Properties *)

\* listSentNotifications: the newest FeedLimit entries.
Listed == {i \in feed : Cardinality({j \in feed : j > i}) < FeedLimit}

\* Whoever was pushed an announcement finds it in the feed, however the send
\* ended and whatever its failure was taken for, unless newer ones fill it.
PushedIsListed ==
    \A i \in pushed :
        i \in Listed \/ Cardinality({j \in feed : j > i}) >= FeedLimit

\* The entry and the reply say what happened: a delivery is recorded or replied
\* only for a push the process heard of, which took place; "undelivered" and
\* "failed" are never the reply to one, and nothing was pushed after "failed".
RepliesHonest ==
    /\ recorded \subseteq heard
    /\ heard \subseteq pushed
    /\ \A i \in Send :
          /\ reply[i] = "delivered" => i \in heard
          /\ reply[i] \in {"undelivered", "failed"} => i \notin heard
          /\ reply[i] \in {"failed", "refused"} => i \notin pushed

\* A broadcast that reached everyone is not sent a second time because writing
\* the record failed: when ops repeat a send whose delivery the process heard
\* of, the reply to that send was lost on the way.
RepeatedUnheardOnly ==
    \A i, j \in 1 .. started :
        i < j /\ of[i] = of[j] /\ i \in heard => reply[i] = "unknown"
=============================================================================
