---------------------------- MODULE NumberedFeed ----------------------------
(***************************************************************************)
(* A feed of a venue that numbers its updates and publishes no checksum    *)
(* (Binance spot and futures, Coinbase full), and the venue itself.        *)
(*                                                                         *)
(* The venue's book runs through the states VenueBook[0], VenueBook[1],    *)
(* ...  An event covers the ids first_id..final_id and carries the final   *)
(* quantity of every level that moved.  The path from the venue to the     *)
(* feed may lose, repeat, delay and reorder events, and may deliver a REST *)
(* snapshot of any past state at any time, old ones after new ones: the    *)
(* feed is handed any event of the set sent, and a snapshot of any id up   *)
(* to head.                                                                *)
(***************************************************************************)
EXTENDS Feed

CONSTANTS MaxId,                        \* bound on the venue's ids
          VenueBook                     \* the venue's book after each id

(* A numbered stream is a full book: nothing is trimmed. *)
ASSUME VenueAssumption ==
  /\ MaxId \in Nat
  /\ VenueBook \in [0 .. MaxId -> Books]
  /\ Depth = 0

VARIABLES head,                         \* id of the venue's latest event
          sent                          \* ids of every event published

vars == <<head, sent, feedVars>>

EventIds == [first_id : 1 .. MaxId, final_id : 1 .. MaxId, prev_id : 0 .. MaxId]

(* The types of the feed and of what the venue has published. *)
TypeOK ==
  /\ FeedTypeOK
  /\ head \in 0 .. MaxId
  /\ sent \subseteq EventIds

Init ==
  /\ FeedInit
  /\ head = 0
  /\ sent = {}

-----------------------------------------------------------------------------

(* The levels an event carries: those that moved over the ids it covers.   *)
Moved(e) == {k \in Keys : \E i, j \in e.first_id - 1 .. e.final_id :
                            VenueBook[i][k] # VenueBook[j][k]}

UpdateMessage(e, ts) ==
  [has_ids |-> TRUE, ids |-> e, has_checksum |-> FALSE, checksum |-> <<>>,
   ts |-> ts, levels |-> [k \in Moved(e) |-> VenueBook[e.final_id][k]]]

(* A REST depth response: the whole book as of id, without a timestamp. *)
SnapshotMessage(id) ==
  [has_ids |-> TRUE, ids |-> [first_id |-> id, final_id |-> id, prev_id |-> id],
   has_checksum |-> FALSE, checksum |-> <<>>, ts |-> 0,
   levels |-> VenueBook[id]]

(* How each venue numbers the event after head.  Spot covers every id;     *)
(* futures may skip ids that did not touch this book; strict increments    *)
(* once per event.                                                         *)
NumberedAfterHead(e) ==
  /\ e.prev_id = head
  /\ head < e.first_id /\ e.first_id <= e.final_id
  /\ Policy # "BinanceFutures" => e.first_id = head + 1
  /\ Policy = "StrictIncrement" => e.final_id = e.first_id
  /\ \A i \in head .. e.first_id - 1 : VenueBook[i] = VenueBook[head]

Publish(e) ==
  /\ NumberedAfterHead(e)
  /\ head' = e.final_id
  /\ sent' = sent \cup {e}
  /\ UNCHANGED feedVars

DeliverUpdate(e) ==
  /\ apply_update_message(UpdateMessage(e, 0))
  /\ UNCHANGED <<head, sent>>

DeliverSnapshot(id) ==
  /\ apply_snapshot_message(SnapshotMessage(id))
  /\ UNCHANGED <<head, sent>>

(* A damaged frame, a refused REST body, a heartbeat, an error frame. *)
DeliverJunk ==
  /\ \/ HandleUndecodable("MalformedMessage")
     \/ HandleUndecodable("PrecisionLoss")
     \/ apply_snapshot_undecodable
     \/ HandleIgnored
     \/ HandleVenueError
  /\ UNCHANGED <<head, sent>>

Reconnect ==
  /\ Invalidate("StaleFeed")
  /\ UNCHANGED <<head, sent>>

Next ==
  \/ \E e \in EventIds : Publish(e)
  \/ \E e \in sent : DeliverUpdate(e)
  \/ \E id \in 0 .. head : DeliverSnapshot(id)
  \/ DeliverJunk
  \/ Reconnect

Spec == Init /\ [][Next]_vars

-----------------------------------------------------------------------------

(* What the venue's numbering makes true of every event published: no id   *)
(* lies between an event and the one before it, except on futures, where   *)
(* the ids in between left this book alone.                                *)
SentWellNumbered ==
  \A e \in sent :
    /\ e.first_id <= e.final_id /\ e.final_id <= head
    /\ e.prev_id < e.first_id
    /\ Policy = "BinanceFutures" \/ e.prev_id = e.first_id - 1
    /\ Policy = "StrictIncrement" => e.first_id = e.final_id
    /\ VenueBook[e.prev_id] = VenueBook[e.first_id - 1]

(* The events published cover every id up to head, without overlap. *)
SentTilesIds ==
  /\ \A e, f \in sent : e = f \/ e.final_id <= f.prev_id \/ f.final_id <= e.prev_id
  /\ \A i \in 1 .. head : \E e \in sent : e.prev_id < i /\ i <= e.final_id

(* Once past the snapshot, the feed stands at the end of an event. *)
StandsOnEvent ==
  synced /\ tracker.straddled =>
    \E e \in sent : e.final_id = tracker.last_final_id

(* A synchronised feed holds exactly the book the venue had at the id the  *)
(* feed stands at: whatever was lost, repeated, reordered or stale on the  *)
(* way, no missed update and no doubly applied one is ever served.         *)
SyncedBookExact ==
  synced => /\ tracker.have_snapshot
            /\ Position(tracker) \in 0 .. head
            /\ book = VenueBook[Position(tracker)]

(* Between two snapshots the feed only moves forward: a replayed or late   *)
(* event never takes a synchronised book back.                             *)
NeverBackwards ==
  [][\/ \E id \in 0 .. head : DeliverSnapshot(id)
     \/ synced /\ synced' => Position(tracker') >= Position(tracker)]_vars

(* Only a snapshot revives an unsynchronised feed, and until one comes its *)
(* book is frozen: no update is applied onto a book known to be wrong.     *)
FrozenUntilSnapshot ==
  [][\/ \E id \in 0 .. head : DeliverSnapshot(id)
     \/ ~synced => ~synced' /\ book' = book]_vars

(* The feed declares a gap only when the venue has published at least two  *)
(* events past the feed's position, so that one really is missing.  On     *)
(* futures the first event after a snapshot is excepted: there the         *)
(* documented rule refuses an event that starts right after the snapshot.  *)
GapIsReal ==
  [][/\ recorded' = {"SequenceGap"}
     /\ recorded # {"SequenceGap"}
     /\ Policy # "BinanceFutures" \/ tracker.straddled
     => \E e, f \in sent : /\ e # f
                           /\ e.final_id > Position(tracker)
                           /\ f.final_id > Position(tracker)]_vars

=============================================================================
