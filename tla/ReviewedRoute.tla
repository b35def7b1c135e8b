--------------------------- MODULE ReviewedRoute ---------------------------
(***************************************************************************)
(* What an operator is promised of reviewed motion, whatever lies between: *)
(* a route moves the arm at most once, only after its review was shown,    *)
(* and is reported as executed only when it moved.  GatewaySession         *)
(* implements it.                                                          *)
(***************************************************************************)
EXTENDS Naturals

CONSTANT Ids                     \* routes ever previewed

VARIABLES shown, moves, told     \* reviews shown, moves of each, reports made

Init == shown = {} /\ moves = [i \in Ids |-> 0] /\ told = {}

Show(i) == shown' = shown \cup {i} /\ UNCHANGED <<moves, told>>

Move(i) == i \in shown /\ moves[i] = 0 /\ moves' = [moves EXCEPT ![i] = 1] /\ UNCHANGED <<shown, told>>

Tell(i) == moves[i] = 1 /\ told' = told \cup {i} /\ UNCHANGED <<shown, moves>>

Next == \E i \in Ids : Show(i) \/ Move(i) \/ Tell(i)

Spec == Init /\ [][Next]_<<shown, moves, told>>
=============================================================================
