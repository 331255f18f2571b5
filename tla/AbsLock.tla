------------------------------ MODULE AbsLock ------------------------------
(***************************************************************************)
(* What a lock promises: it is free or has one owner, and it passes from   *)
(* one owner to another only by being given back first.                    *)
(***************************************************************************)
CONSTANTS Thread, None

VARIABLE owner

Init == owner = None

Acquire(t) == owner = None /\ owner' = t
Release == owner # None /\ owner' = None

Next == Release \/ \E t \in Thread : Acquire(t)

Spec == Init /\ [][Next]_owner
=============================================================================
