---------------------------- MODULE RelativeTimer ----------------------------
(***************************************************************************)
(* A timer of the MAC the way TinyMacNode and TinyMacClient see it: the    *)
(* ticks left until it is due, Off when its callback is NULL.              *)
(***************************************************************************)
EXTENDS Integers

CONSTANT Delays      \* ticks that timers are set to; 0 only outside a tick

VARIABLES left, fired

Off == -1

Elapse(t) == IF t > 0 THEN t - 1 ELSE t

Init == left = Off /\ fired = FALSE

SetOrCancel ==
    /\ left' \in Delays \cup {Off}
    /\ fired' = FALSE

\* The tick may set the timer, then despatches it, and the callback may set it
\* again, for a later tick.
Tick ==
    \E armed \in {left} \cup (Delays \ {0}) :
        /\ fired' = (armed = 0)
        /\ left' \in {Elapse(t) : t \in IF armed = 0 THEN {Off} \cup (Delays \ {0})
                                       ELSE {armed}}

\* Whatever else goes on.
Rest == fired' = FALSE /\ UNCHANGED left

Next == SetOrCancel \/ Tick \/ Rest

Spec == Init /\ [][Next]_<<left, fired>>
=============================================================================
