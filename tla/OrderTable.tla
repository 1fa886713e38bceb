----------------------------- MODULE OrderTable -----------------------------
(***************************************************************************)
(* The open-addressed table that finds an order by its id (the private     *)
(* half of L3Book in l3.hpp): linear probing, tombstones for erased ids,   *)
(* doubling at 70% load.  Mix stands for the mixing function, any function *)
(* from ids to hashes.  The id and place an erased slot still holds are    *)
(* never read and left out.                                                *)
(***************************************************************************)
EXTENDS Integers, FiniteSets, FiniteSetsExt

CONSTANTS Id, Ref,                      \* order ids, places in the arena
          NoRef,                        \* kNoOrder
          Mix,                          \* mix
          InitialSize,                  \* slots of a new table
          MaxSize                       \* bound: slots of the largest table

ASSUME TableAssumption ==
  /\ NoRef \notin Ref
  /\ Mix \in [Id -> Nat]
  /\ InitialSize \in Nat /\ InitialSize > 1
  /\ MaxSize \in Nat /\ MaxSize >= InitialSize

VARIABLES table,                        \* table_
          used,                         \* table_used_: slots ever written
          call                          \* history: the latest call, with its
                                        \* arguments

tableVars == <<table, used>>
vars == <<tableVars, call>>

Never     == [state |-> "never"]        \* a slot that was never used
Tombstone == [state |-> "tombstone"]
Occupied(id, ref) == [state |-> "occupied", id |-> id, ref |-> ref]
Slots     == {Never, Tombstone} \cup {Occupied(id, ref) : id \in Id, ref \in Ref}

Size(t)     == Cardinality(DOMAIN t)
NewTable(n) == [i \in 0 .. n - 1 |-> Never]

Init ==
  /\ table = NewTable(InitialSize)
  /\ used = 0
  /\ call = <<"clear">>

-----------------------------------------------------------------------------

(* The slot looked at after n others. *)
Probe(t, id, n) == (Mix[id] + n) % Size(t)

Holds(slot, id) == slot.state = "occupied" /\ slot.id = id

(* Mutant: a tombstone ends the search. *)
Lookup_StopsAtTombstone(t, id) ==
  LET stops == {n \in 0 .. Size(t) - 1 :
                  LET slot == t[Probe(t, id, n)]
                  IN  slot.state # "occupied" \/ Holds(slot, id)}
  IN  IF stops = {} THEN -1
      ELSE IF Holds(t[Probe(t, id, Min(stops))], id) THEN Probe(t, id, Min(stops))
      ELSE -1

(* Where the search for an id ends: the slot that holds it, or -1 when a   *)
(* slot that was never used comes first or every slot has been tried.      *)
Lookup(t, id) ==
  LET stops == {n \in 0 .. Size(t) - 1 :
                  LET slot == t[Probe(t, id, n)]
                  IN  slot = Never \/ Holds(slot, id)}
  IN  IF stops = {} THEN -1
      ELSE IF t[Probe(t, id, Min(stops))] = Never THEN -1
      ELSE Probe(t, id, Min(stops))

find_ref(id) ==
  LET i == Lookup(table, id) IN IF i = -1 THEN NoRef ELSE table[i].ref

(* The first slot on the probe path of an id that no live order occupies.  *)
FreeSlot(t, id) ==
  Probe(t, id, Min({n \in 0 .. Size(t) - 1 :
                      t[Probe(t, id, n)].state # "occupied"}))

(* The live slots of t carried over, in slot order, to a table of n slots. *)
Rehashed(t, n) ==
  LET carry[i \in 0 .. Size(t)] ==
        IF i = 0 THEN NewTable(n)
        ELSE IF t[i - 1].state = "occupied"
               THEN [carry[i - 1] EXCEPT ![FreeSlot(carry[i - 1], t[i - 1].id)] = t[i - 1]]
               ELSE carry[i - 1]
  IN  carry[Size(t)]

Live(t) == {i \in DOMAIN t : t[i].state = "occupied"}

(* Mutant: only live orders count as load. *)
MustGrow_LiveOnly == (Cardinality(Live(table)) + 1) * 10 >= Size(table) * 7

(* Would one more slot bring the table to 70%?  Tombstones count. *)
MustGrow == (used + 1) * 10 >= Size(table) * 7

(* insert_ref, called for an id that was not found.  A rehash counts the   *)
(* used slots afresh.                                                      *)
insert_ref(id, ref) ==
  LET t == IF MustGrow THEN Rehashed(table, 2 * Size(table)) ELSE table
      u == IF MustGrow THEN Cardinality(Live(table)) ELSE used
      i == FreeSlot(t, id)
  IN  /\ find_ref(id) = NoRef
      /\ Size(t) <= MaxSize
      /\ used' = IF t[i] = Tombstone THEN u ELSE u + 1
      /\ table' = [t EXCEPT ![i] = Occupied(id, ref)]

(* erase_ref, called for an id that was found.  The slot stays used. *)
erase_ref(id) ==
  /\ find_ref(id) # NoRef
  /\ table' = [table EXCEPT ![Lookup(table, id)] = Tombstone]
  /\ UNCHANGED used

(* L3Book::clear keeps the capacity. *)
clear ==
  /\ table' = NewTable(Size(table))
  /\ used' = 0

Next ==
  \/ \E id \in Id, ref \in Ref : insert_ref(id, ref) /\ call' = <<"insert", id, ref>>
  \/ \E id \in Id : erase_ref(id) /\ call' = <<"erase", id>>
  \/ clear /\ call' = <<"clear">>

Spec == Init /\ [][Next]_vars

-----------------------------------------------------------------------------

(* The types; the count of used slots stays within the table. *)
TypeOK ==
  /\ Size(table) \in InitialSize .. MaxSize
  /\ table \in [0 .. Size(table) - 1 -> Slots]
  /\ used \in 0 .. Size(table)

Found == {id \in Id : find_ref(id) # NoRef}

Index == INSTANCE OrderIndex WITH index <- [id \in Found |-> find_ref(id)]

(* Searching the table gives at every moment what a map would that was     *)
(* given the same calls: no tombstone, collision, wrap-around or rehash    *)
(* loses an insertion, hides a live order, revives an erased one or mixes  *)
(* two up.                                                                 *)
ImplementsIndex == Index!IndexSpec

(* The table always has slots that were never used, at least three in ten, *)
(* so that every unsuccessful probe ends early and insertion terminates.   *)
(* The count of used slots that decides on growth is right for that.       *)
ProbesEnd ==
  /\ TypeOK
  /\ used = Cardinality({i \in DOMAIN table : table[i] # Never})
  /\ used * 10 < Size(table) * 7

=============================================================================
