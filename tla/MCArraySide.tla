----------------------------- MODULE MCArraySide ----------------------------
(* ArraySide for TLC: the range of a tick price is seven values wide, so   *)
(* that a window of three reaches both ends of it.                         *)
EXTENDS ArraySide

MCIntMin == -3
MCIntMax == 3
MCQty    == {0, 1, 2}

(* The latest call has no say in the future; every step of every call is   *)
(* compared with the map's whether or not the state it reaches is new.     *)
View == sideVars

=============================================================================
