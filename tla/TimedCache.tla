------------------------------ MODULE TimedCache ------------------------------
(***************************************************************************)
(* What createCachedLoader promises to a module that builds on it: there   *)
(* is one load at a time, none while the value is fresh; a load that       *)
(* succeeds puts a value in service for a TTL and a window; one that fails *)
(* keeps a value that is in service and holds the next load off for a TTL, *)
(* or until the window is over; and nothing else but clear() touches the   *)
(* slot.  What the value is, and how a load gets it, is left open.         *)
(***************************************************************************)
EXTENDS Integers

CONSTANTS
    TTL,      \* how long a loaded value is fresh
    Window    \* how long it may be served after that; 0: no window

VARIABLES
    held,     \* there is a value
    fresh,    \* ticks left until it is no longer fresh
    stale,    \* ticks left until its window is over
    loading   \* a load is under way

vars == <<held, fresh, stale, loading>>

Init == ~held /\ fresh = 0 /\ stale = 0 /\ ~loading

InService == held /\ stale > 0

Begin ==
    /\ ~loading
    /\ ~(held /\ fresh > 0)
    /\ loading'
    /\ UNCHANGED <<held, fresh, stale>>

Succeed ==
    /\ loading /\ ~loading'
    /\ held'
    /\ fresh' = TTL
    /\ stale' = IF Window > 0 THEN TTL + Window ELSE 0

Fail ==
    /\ loading /\ ~loading'
    /\ fresh' = IF ~InService THEN fresh ELSE IF stale < TTL THEN stale ELSE TTL
    /\ UNCHANGED <<held, stale>>

Clear == ~held' /\ fresh' = 0 /\ stale' = 0 /\ ~loading'

Tick ==
    /\ fresh' = IF fresh > 0 THEN fresh - 1 ELSE 0
    /\ stale' = IF stale > 0 THEN stale - 1 ELSE 0
    /\ UNCHANGED <<held, loading>>

Next == Begin \/ Succeed \/ Fail \/ Clear \/ Tick

Spec == Init /\ [][Next]_vars
=============================================================================
