---------------------------- MODULE MCOrderTable ----------------------------
(* OrderTable for TLC: ids that collide near the end of the table, whether *)
(* it has four, eight or sixteen slots, so that probes wrap around.        *)
EXTENDS OrderTable

MCId  == 1 .. 5
MCRef == {10, 11}
MCMix == <<15, 15, 7, 14, 3>>

(* The latest call has no say in the future; every step of every call is   *)
(* compared with the abstract one whether or not its state is new.         *)
View == tableVars

=============================================================================
