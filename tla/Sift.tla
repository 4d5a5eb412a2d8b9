--------------------------------- MODULE Sift ---------------------------------
(***************************************************************************)
(* Array.prototype.filter and Array.prototype.sort: the elements of a      *)
(* sequence that pass a test, in their order, and all of them by a number. *)
(* Both are said by places, and not by recursion over the sequence, so     *)
(* that what they return can be proved.                                    *)
(***************************************************************************)
EXTENDS Integers, FiniteSets

\* The k-th of a set of places.
Nth(places, k) ==
    CHOOSE i \in places : Cardinality({j \in places : j <= i}) = k
AtPlaces(s, places) == [k \in 1 .. Cardinality(places) |-> s[Nth(places, k)]]

Sift(s, Test(_)) == AtPlaces(s, {i \in DOMAIN s : Test(s[i])})

\* The sequence as a stable sort by a number leaves it: the k-th is the one with
\* k places before it, those of a lesser number and its own elders.
SortedByNumber(s, number) ==
    LET Before(j, i) == number[j] < number[i] \/ (number[j] = number[i] /\ j < i)
    IN [k \in DOMAIN s |->
          s[CHOOSE i \in DOMAIN s : Cardinality({j \in DOMAIN s : Before(j, i)}) = k - 1]]
=============================================================================
