------------------------------- MODULE L3Book -------------------------------
(***************************************************************************)
(* The order-by-order book (l3.hpp): an arena of orders with a free list,  *)
(* an intrusive doubly linked list of the orders at each price, and the    *)
(* running totals of each level.  References count from 1 and NoOrder is   *)
(* 0.  The table from ids to references is the map OrderIndex promises and *)
(* OrderTable implements.                                                  *)
(*                                                                         *)
(* link_back and unlink work on a record of the two containers they        *)
(* change, so that modify, which calls both, composes them.                *)
(***************************************************************************)
EXTENDS Integers, Sequences, FiniteSets, SequencesExt

CONSTANTS Id,                           \* order ids
          Key,                          \* places of a level: side and price
          Qty                           \* quantities a call may name

ASSUME L3Assumption == Qty \subseteq Nat

VARIABLES orders,                       \* orders_, the arena
          free_list,                    \* free_list_, used from its end
          levels,                       \* bids_ and asks_: the levels there are
          index,                        \* the table: live ids to references
          live_orders,                  \* live_orders_
          call                          \* history: the latest call that did
                                        \* not return false

bookVars == <<orders, free_list, levels, index, live_orders>>
vars == <<bookVars, call>>

NoOrder  == 0
NewLevel == [qty |-> 0, orders |-> 0, head |-> NoOrder, tail |-> NoOrder]

Drop(f, x)   == [y \in DOMAIN f \ {x} |-> f[y]]
Put(f, x, v) == [y \in DOMAIN f \cup {x} |-> IF y = x THEN v ELSE f[y]]

Init ==
  /\ orders = <<>> /\ free_list = <<>>
  /\ levels = [k \in {} |-> NewLevel]
  /\ index = [i \in {} |-> NoOrder]
  /\ live_orders = 0
  /\ call = <<"clear">>

-----------------------------------------------------------------------------
(* Lists.  s is a record of orders and levels. *)

level_for(s, k) == IF k \in DOMAIN s.levels THEN s.levels[k] ELSE NewLevel

(* Link an order in at the back of the queue at its price. *)
link_back(s, ref) ==
  LET o     == s.orders[ref]
      level == level_for(s, o.key)
      own   == [s.orders EXCEPT ![ref].prev = level.tail, ![ref].next = NoOrder]
  IN  [orders |-> IF level.tail = NoOrder THEN own
                  ELSE [own EXCEPT ![level.tail].next = ref],
       levels |-> Put(s.levels, o.key,
                      [qty    |-> level.qty + o.qty,
                       orders |-> level.orders + 1,
                       head   |-> IF level.tail = NoOrder THEN ref ELSE level.head,
                       tail   |-> ref])]

(* Mutant: the order behind keeps its link to the one taken out. *)
unlink_OneWay(s, ref) ==
  LET o     == s.orders[ref]
      level == s.levels[o.key]
      ahead == IF o.prev = NoOrder THEN s.orders
               ELSE [s.orders EXCEPT ![o.prev].next = o.next]
  IN  [orders |-> [ahead EXCEPT ![ref].prev = NoOrder, ![ref].next = NoOrder],
       levels |-> IF level.orders = 1 THEN Drop(s.levels, o.key)
                  ELSE [s.levels EXCEPT
                          ![o.key] = [qty    |-> level.qty - o.qty,
                                      orders |-> level.orders - 1,
                                      head   |-> IF o.prev = NoOrder THEN o.next ELSE level.head,
                                      tail   |-> IF o.next = NoOrder THEN o.prev ELSE level.tail]]]

(* Take an order out of the queue at its price; an empty level goes too. *)
unlink(s, ref) ==
  LET o      == s.orders[ref]
      level  == s.levels[o.key]
      ahead  == IF o.prev = NoOrder THEN s.orders
                ELSE [s.orders EXCEPT ![o.prev].next = o.next]
      behind == IF o.next = NoOrder THEN ahead
                ELSE [ahead EXCEPT ![o.next].prev = o.prev]
      rest   == [qty    |-> level.qty - o.qty,
                 orders |-> level.orders - 1,
                 head   |-> IF o.prev = NoOrder THEN o.next ELSE level.head,
                 tail   |-> IF o.next = NoOrder THEN o.prev ELSE level.tail]
  IN  IF o.key \notin DOMAIN s.levels THEN s
      ELSE [orders |-> [behind EXCEPT ![ref].prev = NoOrder, ![ref].next = NoOrder],
            levels |-> IF rest.orders = 0 THEN Drop(s.levels, o.key)
                                          ELSE Put(s.levels, o.key, rest)]

Lists == [orders |-> orders, levels |-> levels]

SetLists(s) == orders' = s.orders /\ levels' = s.levels

(* What modify and execute do to the total of an order's level. *)
Resized(s, ref, q) ==
  LET o == s.orders[ref]
  IN  [orders |-> [s.orders EXCEPT ![ref].qty = q],
       levels |-> Put(s.levels, o.key,
                      [level_for(s, o.key) EXCEPT !.qty = @ + q - o.qty])]

-----------------------------------------------------------------------------
(* Operations.  A call that returns false changes nothing: no action. *)

(* Take the last reference freed, or a new one at the end of the arena. *)
add(id, k, q) ==
  LET recycled == free_list # <<>>
      ref      == IF recycled THEN Last(free_list) ELSE Len(orders) + 1
      order    == [id |-> id, key |-> k, qty |-> q,
                   prev |-> NoOrder, next |-> NoOrder, live |-> TRUE]
      arena    == IF recycled THEN [orders EXCEPT ![ref] = order]
                              ELSE Append(orders, order)
  IN  /\ q > 0 /\ id \notin DOMAIN index
      /\ SetLists(link_back([orders |-> arena, levels |-> levels], ref))
      /\ free_list' = IF recycled THEN Front(free_list) ELSE free_list
      /\ index' = Put(index, id, ref)
      /\ live_orders' = live_orders + 1

(* Mutant: the slot is recycled while its order is still in its queue. *)
remove_Linked(id) ==
  LET ref == index[id]
  IN  /\ id \in DOMAIN index
      /\ orders' = [orders EXCEPT ![ref].live = FALSE]
      /\ index' = Drop(index, id)
      /\ free_list' = Append(free_list, ref)
      /\ live_orders' = live_orders - 1
      /\ UNCHANGED levels

remove(id) ==
  LET ref == index[id]
      s   == unlink(Lists, ref)
  IN  /\ id \in DOMAIN index
      /\ orders' = [s.orders EXCEPT ![ref].live = FALSE]
      /\ levels' = s.levels
      /\ index' = Drop(index, id)
      /\ free_list' = Append(free_list, ref)
      /\ live_orders' = live_orders - 1

(* Mutant: any change of size loses the place in the queue. *)
modify_AlwaysRequeues(id, q) ==
  /\ id \in DOMAIN index
  /\ \/ q = 0 /\ remove(id)
     \/ /\ q > 0
        /\ LET ref == index[id]
               s   == Resized(Lists, ref, q)
           IN  SetLists(link_back(unlink(s, ref), ref))
        /\ UNCHANGED <<free_list, index, live_orders>>

(* A smaller size keeps the place in the queue, a larger one loses it. *)
modify(id, q) ==
  /\ id \in DOMAIN index
  /\ \/ q = 0 /\ remove(id)
     \/ /\ q > 0
        /\ LET ref == index[id]
               s   == Resized(Lists, ref, q)
           IN  SetLists(IF q > orders[ref].qty THEN link_back(unlink(s, ref), ref)
                                               ELSE s)
        /\ UNCHANGED <<free_list, index, live_orders>>

(* A trade takes from the order and keeps its place. *)
execute(id, traded) ==
  /\ id \in DOMAIN index /\ traded > 0
  /\ LET ref == index[id]
     IN  \/ traded >= orders[ref].qty /\ remove(id)
         \/ /\ traded < orders[ref].qty
            /\ SetLists(Resized(Lists, ref, orders[ref].qty - traded))
            /\ UNCHANGED <<free_list, index, live_orders>>

clear ==
  /\ orders' = <<>> /\ free_list' = <<>>
  /\ levels' = [k \in {} |-> NewLevel]
  /\ index' = [i \in {} |-> NoOrder]
  /\ live_orders' = 0

Next ==
  \/ \E id \in Id, q \in Qty :
       \/ \E k \in Key : add(id, k, q) /\ call' = <<"add", id, k, q>>
       \/ modify(id, q) /\ call' = <<"modify", id, q>>
       \/ execute(id, q) /\ call' = <<"execute", id, q>>
  \/ \E id \in Id : remove(id) /\ call' = <<"remove", id>>
  \/ clear /\ call' = <<"clear">>

Spec == Init /\ [][Next]_vars

-----------------------------------------------------------------------------
(* Reads. *)

(* The references met from ref on, following next, at most n of them. *)
Walk(ref, n) ==
  LET next   == [r \in 0 .. Len(orders) |-> IF r = NoOrder THEN r ELSE orders[r].next]
      cursor[i \in 0 .. n] == IF i = 0 THEN ref ELSE next[cursor[i - 1]]
      length == Cardinality({i \in 0 .. n - 1 : cursor[i] # NoOrder})
  IN  [i \in 1 .. length |-> cursor[i - 1]]

(* for_each_order: the queue at a key, as references. *)
Queue(k) == IF k \in DOMAIN levels THEN Walk(levels[k].head, Len(orders) + 1)
                                   ELSE <<>>

TotalQty(refs) ==
  LET upto[i \in 0 .. Len(refs)] ==
        IF i = 0 THEN 0 ELSE upto[i - 1] + orders[refs[i]].qty
  IN  upto[Len(refs)]

(* queue_ahead: the quantity in front of a live order. *)
queue_ahead(id) ==
  LET q     == Queue(orders[index[id]].key)
      ahead == {i \in DOMAIN q : \A j \in 1 .. i : q[j] # index[id]}
  IN  TotalQty(SubSeq(q, 1, Cardinality(ahead)))

-----------------------------------------------------------------------------

Refs == 0 .. Len(orders)

(* The types; no resting order is empty and every link stays in the arena. *)
TypeOK ==
  /\ orders \in Seq([id : Id, key : Key, qty : Nat \ {0},
                     prev : Refs, next : Refs, live : BOOLEAN])
  /\ free_list \in Seq(Refs \ {NoOrder})
  /\ DOMAIN levels \subseteq Key
  /\ \A k \in DOMAIN levels :
       levels[k] \in [qty : Nat, orders : Nat, head : Refs, tail : Refs]
  /\ DOMAIN index \subseteq Id
  /\ \A id \in DOMAIN index : index[id] \in Refs \ {NoOrder}
  /\ live_orders \in Nat

(* Each level's totals are those of the orders queued there, the list      *)
(* reads the same from either end, and no level is left behind empty.      *)
LevelsMatchQueues ==
  \A k \in DOMAIN levels :
    LET q == Queue(k)
    IN  /\ q # <<>>
        /\ levels[k].qty = TotalQty(q) /\ levels[k].orders = Len(q)
        /\ levels[k].tail = Last(q)
        /\ \A i \in DOMAIN q :
             /\ orders[q[i]].key = k
             /\ orders[q[i]].prev = IF i = 1 THEN NoOrder ELSE q[i - 1]

Queued == UNION {ToSet(Queue(k)) : k \in DOMAIN levels}

(* Every slot of the arena either holds a live order, queued and found by  *)
(* its id, or waits on the free list exactly once: nothing leaks, and no   *)
(* slot is recycled while a queue or the table still reaches it.           *)
ArenaPartitioned ==
  /\ IsInjective(free_list)
  /\ Queued = {index[id] : id \in DOMAIN index}
  /\ ToSet(free_list) = DOMAIN orders \ Queued
  /\ \A id \in DOMAIN index : orders[index[id]].id = id
  /\ \A r \in DOMAIN orders : orders[r].live = (r \in Queued)
  /\ live_orders = Cardinality(Queued)

(* The arena and what reaches into it agree: types, queues and slots. *)
ArenaConsistent == TypeOK /\ LevelsMatchQueues /\ ArenaPartitioned

(* What for_each_order shows at every key: the orders' ids and sizes.      *)
Showing ==
  [k \in Key |->
    LET q == Queue(k)
    IN  [i \in DOMAIN q |-> [id |-> orders[q[i]].id, qty |-> orders[q[i]].qty]]]

Queues == INSTANCE OrderQueues WITH queues <- Showing

(* The linked arena is a set of queues in time priority: every call that   *)
(* does not return false does to the queue of its order what the same call *)
(* does there, and nothing else.                                           *)
ImplementsQueues == Queues!QueuesSpec

(* The quantity ahead of a resting order never grows, unless its own size  *)
(* does: no other order's arrival, change, trade or cancellation costs it  *)
(* priority.                                                               *)
PriorityIsKept ==
  [][\A id \in DOMAIN index \cap DOMAIN index' :
       \/ queue_ahead(id)' <= queue_ahead(id)
       \/ orders'[index'[id]].qty > orders[index[id]].qty]_vars

=============================================================================
