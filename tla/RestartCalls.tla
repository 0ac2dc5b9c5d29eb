---------------------------- MODULE RestartCalls ----------------------------
(***************************************************************************)
(* What the recovery controller may rely on when it asks for a restart:    *)
(* what is reported as done has been done, what is reported as failed may  *)
(* have been done or be done later, and no call does it twice.             *)
(***************************************************************************)
CONSTANT Numbers          \* the calls, numbered

VARIABLES
    asked,              \* the calls that asked Docker
    performed,          \* the calls whose restart took place
    reported            \* the calls that reported success

vars == <<asked, performed, reported>>

Init ==
    /\ asked = {}
    /\ performed = {}
    /\ reported = {}

Ask(n) ==
    /\ n \notin asked
    /\ asked' = asked \cup {n}
    /\ UNCHANGED <<performed, reported>>

Perform(n) ==
    /\ n \in asked \ performed
    /\ performed' = performed \cup {n}
    /\ UNCHANGED <<asked, reported>>

Report(n) ==
    /\ n \in performed \ reported
    /\ reported' = reported \cup {n}
    /\ UNCHANGED <<asked, performed>>

Next == \E n \in Numbers : Ask(n) \/ Perform(n) \/ Report(n)

Spec == Init /\ [][Next]_vars
=============================================================================
