------------------------------ MODULE MCL3Book ------------------------------
(* L3Book for TLC: three orders at two prices. *)
EXTENDS L3Book

MCId  == 1 .. 3
MCKey == {"bid 1", "ask 2"}
MCQty == 0 .. 2

(* The latest call has no say in the future; every step of every call is   *)
(* compared with the abstract one whether or not its state is new.         *)
View == bookVars

=============================================================================
