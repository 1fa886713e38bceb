----------------------------- MODULE OrderIndex -----------------------------
(***************************************************************************)
(* What L3Book asks of its table of orders: a map from the ids of the live *)
(* orders to their places in the arena.  OrderTable implements it.         *)
(***************************************************************************)
CONSTANTS Id, Ref                       \* order ids, places in the arena

VARIABLES index,                        \* function from the live ids to Ref
          call                          \* history: the latest call, with its
                                        \* arguments

indexVars == <<index, call>>

IndexInit ==
  /\ index = [i \in {} |-> 0]
  /\ call = <<"clear">>

IndexInsert(id, ref) ==
  /\ id \notin DOMAIN index
  /\ index' = [i \in DOMAIN index \cup {id} |-> IF i = id THEN ref ELSE index[i]]
  /\ call' = <<"insert", id, ref>>

IndexErase(id) ==
  /\ id \in DOMAIN index
  /\ index' = [i \in DOMAIN index \ {id} |-> index[i]]
  /\ call' = <<"erase", id>>

IndexClear ==
  /\ index' = [i \in {} |-> 0]
  /\ call' = <<"clear">>

IndexNext ==
  \/ \E id \in Id, ref \in Ref : IndexInsert(id, ref)
  \/ \E id \in Id : IndexErase(id)
  \/ IndexClear

IndexSpec == IndexInit /\ [][IndexNext]_indexVars

=============================================================================
