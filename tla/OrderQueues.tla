----------------------------- MODULE OrderQueues ----------------------------
(***************************************************************************)
(* What an order-by-order book promises: at every price a queue of orders  *)
(* in time priority.  L3Book implements it with an arena of linked nodes.  *)
(* A call that returns false leaves the queues as they are.                *)
(***************************************************************************)
EXTENDS Integers, Sequences, SequencesExt

CONSTANTS Id,                           \* order ids
          Key,                          \* places of a level: side and price
          Qty                           \* quantities a call may name

VARIABLES queues,                       \* queue at each key, front first
          call                          \* history: the latest call that was
                                        \* carried out, with its arguments

queueVars == <<queues, call>>

Resting(id, q) == [id |-> id, qty |-> q]

Holds(k, id) == \E i \in DOMAIN queues[k] : queues[k][i].id = id

Place(k, id) == CHOOSE i \in DOMAIN queues[k] : queues[k][i].id = id

Size(k, id) == queues[k][Place(k, id)].qty

(* An order leaves the queue at k. *)
Leave(k, id) ==
  /\ Holds(k, id)
  /\ queues' = [queues EXCEPT ![k] = RemoveAt(@, Place(k, id))]

(* A size that shrinks, by a change or a trade, keeps its place in the     *)
(* queue.                                                                  *)
Resize(k, id, q) ==
  /\ Holds(k, id) /\ q \in 1 .. Size(k, id)
  /\ queues' = [queues EXCEPT ![k][Place(k, id)].qty = q]

(* A size that grows goes to the back. *)
Requeue(k, id, q) ==
  /\ Holds(k, id) /\ q > Size(k, id)
  /\ queues' = [queues EXCEPT ![k] = Append(RemoveAt(@, Place(k, id)), Resting(id, q))]

-----------------------------------------------------------------------------
(* The calls. *)

QueuesInit ==
  /\ queues = [k \in Key |-> <<>>]
  /\ call = <<"clear">>

QueueAdd(id, k, q) ==
  /\ q > 0 /\ \A l \in Key : ~Holds(l, id)
  /\ queues' = [queues EXCEPT ![k] = Append(@, Resting(id, q))]
  /\ call' = <<"add", id, k, q>>

QueueRemove(id) ==
  /\ \E k \in Key : Leave(k, id)
  /\ call' = <<"remove", id>>

QueueModify(id, q) ==
  /\ \E k \in Key : \/ q = 0 /\ Leave(k, id)
                    \/ Resize(k, id, q)
                    \/ Requeue(k, id, q)
  /\ call' = <<"modify", id, q>>

QueueExecute(id, traded) ==
  /\ traded > 0
  /\ \E k \in Key : \/ Leave(k, id) /\ traded >= Size(k, id)
                    \/ Resize(k, id, Size(k, id) - traded)
  /\ call' = <<"execute", id, traded>>

QueuesClear ==
  /\ queues' = [k \in Key |-> <<>>]
  /\ call' = <<"clear">>

QueuesNext ==
  \/ \E id \in Id, q \in Qty :
       \/ \E k \in Key : QueueAdd(id, k, q)
       \/ QueueModify(id, q)
       \/ QueueExecute(id, q)
  \/ \E id \in Id : QueueRemove(id)
  \/ QueuesClear

QueuesSpec == QueuesInit /\ [][QueuesNext]_queueVars

=============================================================================
