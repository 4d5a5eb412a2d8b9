------------------------------ MODULE PushOnce ------------------------------
(***************************************************************************)
(* What notice dispatch promises, with no servers, leases or clocks: the   *)
(* Cloud Function is called for a set of notices with the same content,    *)
(* none of which is settled yet, and a notice is settled for good only     *)
(* after a call for it went out - or at once when it has no subscribers.   *)
(* A call may be repeated as long as the notice is not settled (the        *)
(* acknowledgement was lost), never afterwards.                            *)
(***************************************************************************)
EXTENDS Integers

CONSTANTS
    Notice,          \* notice documents
    DedupKeyOf,      \* content key of a notice: title and content hash
    HasSubscribers   \* the notices whose board maps to at least one topic

VARIABLES
    deliveries,      \* how often the function delivered the notice
    pushed           \* whether the notice is settled (pushedAt is set)

vars == <<deliveries, pushed>>

Init ==
    /\ deliveries = [n \in Notice |-> 0]
    /\ pushed = [n \in Notice |-> FALSE]

Deliver(G) ==
    /\ \A n \in G : ~pushed[n]
    /\ \A m, n \in G : DedupKeyOf[m] = DedupKeyOf[n]
    /\ deliveries' = [n \in Notice |-> IF n \in G THEN deliveries[n] + 1
                                                 ELSE deliveries[n]]
    /\ UNCHANGED pushed

Settle(n) ==
    /\ ~pushed[n]
    /\ n \in HasSubscribers => deliveries[n] > 0
    /\ pushed' = [pushed EXCEPT ![n] = TRUE]
    /\ UNCHANGED deliveries

Next ==
    \/ \E G \in SUBSET Notice : Deliver(G)
    \/ \E n \in Notice : Settle(n)

Spec == Init /\ [][Next]_vars
=============================================================================
