--------------------------- MODULE MCNumberedFeed ---------------------------
(* NumberedFeed for TLC under the futures rule: two levels whose           *)
(* quantities change at every id but 2 and 4, which a futures stream may   *)
(* skip, so that missing or repeating any other shows in the book.         *)
EXTENDS NumberedFeed

MCPrice == {1}

MCSparseBook ==
  [i \in 0 .. MaxId |->
     [k \in Keys |-> IF k[1] = "bid" THEN (i + 1) \div 4 ELSE (i + 3) \div 4]]

=============================================================================
