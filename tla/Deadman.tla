------------------------------ MODULE Deadman -------------------------------
(***************************************************************************)
(* What every firmware of this robot promises of its motors, whatever it   *)
(* is driven by: a dead man's switch.  Driving begins with an order and    *)
(* goes on only while orders keep coming; LIMIT is the longest it may      *)
(* outlive the last one.  Stopping is always allowed.                      *)
(***************************************************************************)
EXTENDS Integers

CONSTANT LIMIT   \* driving never reaches this age of the last order

VARIABLES
    driving,   \* the firmware may be sending setpoints
    age        \* time since the last order it accepted, saturated at LIMIT

deadmanVars == <<driving, age>>

Init == ~driving /\ age \in 0 .. LIMIT

\* A fresh order: the only step that starts driving or makes it young again.
Order == driving' = TRUE /\ age' = 0

\* Stopping: for a fault, a stop order, silence or a restart.
Stop == driving' = FALSE /\ age' \in 0 .. LIMIT

\* Time passes; while driving it stops short of the limit.
Pass ==
    /\ age' = IF age < LIMIT THEN age + 1 ELSE LIMIT
    /\ driving => age' < LIMIT
    /\ UNCHANGED driving

Next == Order \/ Stop \/ Pass

Spec == Init /\ [][Next]_deadmanVars

\* Nothing drives on an order that is LIMIT old.
NeverOutlives == driving => age < LIMIT
=============================================================================
