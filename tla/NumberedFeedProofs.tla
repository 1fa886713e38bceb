------------------------- MODULE NumberedFeedProofs -------------------------
(***************************************************************************)
(* Proofs about NumberedFeed for every venue history, every policy, every  *)
(* set of prices and every number of ids.                                  *)
(***************************************************************************)
EXTENDS NumberedFeed, TLAPS

(* The facts about constants every step uses. *)
LEMMA Constants ==
  /\ Policy \in Policies /\ Price \subseteq Nat /\ Depth = 0
  /\ MaxId \in Nat /\ VenueBook \in [0 .. MaxId -> Books]
  BY PolicyAssumption, PriceAssumption, VenueAssumption DEF Policies

(* A level of a non-negative quantity at a key of the book is never        *)
(* refused.                                                                *)
LEMMA NoneRefused ==
  ASSUME NEW S \in SUBSET Keys, NEW lv \in [S -> Nat]
  PROVE  RefusedLevels(lv) = {}
<1>1. \A k \in Keys : k[2] \in Nat
  BY PriceAssumption DEF Keys
<1>2. \A k \in S : ~(k[2] < 0 \/ lv[k] < 0)
  BY <1>1
<1>3. DOMAIN lv = S
  OBVIOUS
<1>4. QED
  BY <1>2, <1>3 DEF RefusedLevels

(* A snapshot's levels on an empty book give the venue's book. *)
LEMMA SnapshotRebuilds ==
  ASSUME NEW id \in 0 .. MaxId
  PROVE  /\ RefusedLevels(VenueBook[id]) = {}
         /\ ApplyLevels(EmptyBook, VenueBook[id]) = VenueBook[id]
<1>1. VenueBook[id] \in [Keys -> Nat]
  BY Constants DEF Books
<1>2. RefusedLevels(VenueBook[id]) = {}
  BY <1>1, NoneRefused
<1>3. QED
  BY <1>1, <1>2 DEF ApplyLevels

(* An event's levels take the venue's book at any id from the one before   *)
(* the event to its last to the book at its last id: updates are absolute, *)
(* so an overlap is harmless.                                              *)
LEMMA EventAdvances ==
  ASSUME NEW e \in EventIds, e.first_id <= e.final_id,
         NEW j \in e.first_id - 1 .. e.final_id
  PROVE  LET lv == [k \in Moved(e) |-> VenueBook[e.final_id][k]]
         IN  /\ RefusedLevels(lv) = {}
             /\ ApplyLevels(VenueBook[j], lv) = VenueBook[e.final_id]
<1> DEFINE lv == [k \in Moved(e) |-> VenueBook[e.final_id][k]]
<1>1. /\ e.first_id \in 1 .. MaxId /\ e.final_id \in 1 .. MaxId
      /\ j \in 0 .. MaxId
      /\ e.final_id \in e.first_id - 1 .. e.final_id
  BY Constants DEF EventIds
<1>2. VenueBook[j] \in [Keys -> Nat] /\ VenueBook[e.final_id] \in [Keys -> Nat]
  BY <1>1, Constants DEF Books
<1>3. Moved(e) \subseteq Keys
  BY DEF Moved
<1>4. RefusedLevels(lv) = {}
  BY <1>2, <1>3, NoneRefused
<1>5. ASSUME NEW k \in Keys, k \notin Moved(e)
      PROVE  VenueBook[j][k] = VenueBook[e.final_id][k]
  BY <1>1, <1>5 DEF Moved
<1>6. ASSUME NEW k \in Keys
      PROVE  ApplyLevels(VenueBook[j], lv)[k] = VenueBook[e.final_id][k]
  BY <1>3, <1>4, <1>5, <1>6 DEF ApplyLevels
<1>7. ApplyLevels(VenueBook[j], lv) = VenueBook[e.final_id]
  <2>1. ApplyLevels(VenueBook[j], lv) = [k \in Keys |-> VenueBook[e.final_id][k]]
    BY <1>6 DEF ApplyLevels
  <2>2. QED
    BY <2>1, <1>2
<1>8. QED
  BY <1>4, <1>7

-----------------------------------------------------------------------------
(* Types of the operators the actions are built from. *)

(* The tracker's methods return trackers. *)
LEMMA TrackerTypes ==
  /\ NewTracker \in Trackers
  /\ \A id \in Nat : on_snapshot(id) \in Trackers
  /\ \A t \in Trackers : invalidate(t) \in Trackers
  /\ \A t \in Trackers, ids \in UpdateIds :
       /\ Classify(t, ids) \in {"Apply", "DiscardStale", "ResyncRequired"}
       /\ on_update(t, ids) \in Trackers
<1>1. NewTracker \in Trackers
  BY DEF NewTracker, Trackers
<1>2. \A id \in Nat : on_snapshot(id) \in Trackers
  BY DEF on_snapshot, Trackers
<1>3. \A t \in Trackers : invalidate(t) \in Trackers
  BY DEF invalidate, Trackers
<1>4. ASSUME NEW t \in Trackers, NEW ids \in UpdateIds
      PROVE  /\ Classify(t, ids) \in {"Apply", "DiscardStale", "ResyncRequired"}
             /\ on_update(t, ids) \in Trackers
  <2>1. Classify(t, ids) \in {"Apply", "DiscardStale", "ResyncRequired"}
    <3> DEFINE fits == IF t.straddled THEN Continuous(t, ids) ELSE Straddles(t, ids)
    <3> DEFINE stale == IF t.straddled THEN ids.final_id <= t.last_final_id
                                       ELSE ids.final_id < Anchor(t)
    <3>1. CASE ~t.have_snapshot
      BY <3>1 DEF Classify
    <3>2. CASE t.have_snapshot /\ fits
      BY <3>2 DEF Classify
    <3>3. CASE t.have_snapshot /\ ~fits /\ stale
      BY <3>3 DEF Classify
    <3>4. CASE t.have_snapshot /\ ~fits /\ ~stale
      BY <3>4 DEF Classify
    <3>5. QED
      BY <3>1, <3>2, <3>3, <3>4
  <2>2. CASE Classify(t, ids) = "Apply"
    <3>1. on_update(t, ids) = [t EXCEPT !.straddled = TRUE, !.last_final_id = ids.final_id]
      BY <2>2 DEF on_update
    <3>2. QED
      BY <3>1, <2>1 DEF Trackers, UpdateIds
  <2>3. CASE Classify(t, ids) = "DiscardStale"
    <3>1. on_update(t, ids) = t
      BY <2>3 DEF on_update
    <3>2. QED
      BY <3>1, <2>1
  <2>4. CASE Classify(t, ids) = "ResyncRequired"
    <3>1. on_update(t, ids) = [t EXCEPT !.have_snapshot = FALSE]
      BY <2>4 DEF on_update
    <3>2. QED
      BY <3>1, <2>1 DEF Trackers
  <2>5. QED
    BY <2>1, <2>2, <2>3, <2>4
<1>5. QED
  BY <1>1, <1>2, <1>3, <1>4

-----------------------------------------------------------------------------
(* The invariant. *)

IInv == TypeOK /\ SentWellNumbered /\ SyncedBookExact

(* The outcome of handling a numbered, unchecksummed message whose levels  *)
(* turn the book into result.                                              *)
LEMMA AppliedMessage ==
  ASSUME NEW b, NEW t \in Trackers, NEW m, NEW result \in Books,
         m.has_checksum = FALSE, m.ts \in Nat,
         RefusedLevels(m.levels) = {},
         ApplyLevels(b, m.levels) = result,
         stats \subseteq Counters, log \subseteq DivergenceKinds,
         ApplyAndVerify(b, t, m)
  PROVE  /\ book' = result /\ tracker' = t /\ synced' = TRUE
         /\ status' = "Applied" /\ recorded' = {}
         /\ FeedTypeOK'
<1>1. TakeLevels(b, m.levels) = result
  BY Constants DEF TakeLevels, Trim
<1>2. ChecksumMatches(result, m)
  BY DEF ChecksumMatches
<1>3. /\ book' = result /\ last_ts' = m.ts /\ synced' = TRUE /\ tracker' = t
      /\ Report("Applied", {"applied"}, {})
  BY <1>1, <1>2 DEF ApplyAndVerify
<1>4. /\ status' = "Applied" /\ recorded' = {} /\ log' = log
      /\ stats' = stats \cup {"applied"}
  BY <1>3 DEF Report
<1>5. FeedTypeOK'
  BY <1>3, <1>4 DEF FeedTypeOK, Statuses, Counters
<1>6. QED
  BY <1>3, <1>4, <1>5

(* A feed that has just been built, and a venue with no event yet. *)
LEMMA InitInv == Init => IInv
<1> SUFFICES ASSUME Init PROVE IInv
  OBVIOUS
<1>1. EmptyBook \in Books
  BY DEF EmptyBook, Books
<1>2. TypeOK
  <2>1. head \in 0 .. MaxId
    BY Constants DEF Init
  <2>2. FeedTypeOK
    BY <1>1, TrackerTypes DEF Init, FeedInit, FeedTypeOK, Statuses
  <2>3. QED
    BY <2>1, <2>2 DEF Init, TypeOK
<1>3. QED
  BY <1>2 DEF Init, FeedInit, IInv, SentWellNumbered, SyncedBookExact

(* A published event leaves the feed alone and is well numbered. *)
LEMMA PublishInv ==
  ASSUME IInv, NEW e \in EventIds, Publish(e)
  PROVE  IInv'
<1> USE DEF IInv
<1>1. /\ head \in Nat /\ head' = e.final_id /\ head < e.first_id
      /\ e.first_id <= e.final_id /\ e.prev_id = head
      /\ e.first_id \in 1 .. MaxId /\ e.final_id \in 1 .. MaxId
  BY Constants DEF Publish, NumberedAfterHead, TypeOK, EventIds
<1>2. TypeOK'
  BY <1>1, Constants DEF Publish, TypeOK, FeedTypeOK, feedVars
<1>3. /\ Policy = "BinanceFutures" \/ e.prev_id = e.first_id - 1
      /\ Policy = "StrictIncrement" => e.first_id = e.final_id
      /\ VenueBook[e.prev_id] = VenueBook[e.first_id - 1]
  <2>1. e.first_id - 1 \in head .. e.first_id - 1
    BY <1>1
  <2>2. QED
    BY <2>1, <1>1 DEF Publish, NumberedAfterHead
<1>4. SentWellNumbered'
  <2> SUFFICES ASSUME NEW f \in sent'
               PROVE  /\ f.first_id <= f.final_id /\ f.final_id <= head'
                      /\ f.prev_id < f.first_id
                      /\ Policy = "BinanceFutures" \/ f.prev_id = f.first_id - 1
                      /\ Policy = "StrictIncrement" => f.first_id = f.final_id
                      /\ VenueBook[f.prev_id] = VenueBook[f.first_id - 1]
    BY DEF SentWellNumbered
  <2>1. CASE f = e
    BY <2>1, <1>1, <1>3
  <2>2. CASE f \in sent
    <3>1. f.final_id \in Nat
      BY <2>2 DEF TypeOK, EventIds
    <3>2. QED
      BY <2>2, <3>1, <1>1 DEF SentWellNumbered
  <2>3. QED
    BY <2>1, <2>2 DEF Publish
<1>5. SyncedBookExact'
  <2>1. UNCHANGED <<book, tracker, synced>>
    BY DEF Publish, feedVars
  <2>2. Position(tracker)' = Position(tracker)
    BY <2>1 DEF Position
  <2>3. QED
    BY <2>1, <2>2, <1>1 DEF SyncedBookExact
<1>6. QED
  BY <1>2, <1>4, <1>5

(* A snapshot of any past id leaves the feed exact at that id. *)
LEMMA SnapshotInv ==
  ASSUME IInv, NEW id \in 0 .. head, DeliverSnapshot(id)
  PROVE  IInv' /\ synced' /\ Position(tracker') = id /\ ~tracker'.straddled
<1> DEFINE m == SnapshotMessage(id)
<1>1. id \in 0 .. MaxId /\ id \in Nat
  BY Constants DEF IInv, TypeOK
<1>2. VenueBook[id] \in Books
  BY <1>1, Constants
<1>3. on_snapshot(id) \in Trackers
  BY <1>1, TrackerTypes
<1>4. ApplyAndVerify(EmptyBook, on_snapshot(id), m)
  BY DEF DeliverSnapshot, apply_snapshot_message, SnapshotMessage
<1>5. /\ m.has_checksum = FALSE /\ m.ts \in Nat /\ m.levels = VenueBook[id]
  BY DEF SnapshotMessage
<1>6. /\ book' = VenueBook[id] /\ tracker' = on_snapshot(id) /\ synced' = TRUE
      /\ FeedTypeOK'
  BY <1>2, <1>3, <1>4, <1>5, <1>1, SnapshotRebuilds, AppliedMessage
  DEF IInv, TypeOK, FeedTypeOK
<1>7. Position(tracker') = id /\ tracker'.have_snapshot /\ ~tracker'.straddled
  BY <1>6 DEF Position, on_snapshot
<1>8. UNCHANGED <<head, sent>>
  BY DEF DeliverSnapshot
<1>9. QED
  BY <1>6, <1>7, <1>8 DEF IInv, TypeOK, SentWellNumbered, SyncedBookExact

(* An event the tracker tells the feed to apply starts where the feed      *)
(* stands, or overlaps it: its levels lead from there to its last id.      *)
LEMMA ApplyAdvances ==
  ASSUME IInv, synced, NEW e \in sent, Classify(tracker, e) = "Apply"
  PROVE  LET lv == [k \in Moved(e) |-> VenueBook[e.final_id][k]]
         IN  /\ RefusedLevels(lv) = {}
             /\ ApplyLevels(book, lv) = VenueBook[e.final_id]
             /\ e.final_id >= Position(tracker)
<1> DEFINE p == Position(tracker)
<1>1. /\ e \in EventIds /\ tracker \in Trackers /\ book = VenueBook[p]
      /\ tracker.have_snapshot /\ p \in 0 .. head /\ head \in 0 .. MaxId
  BY DEF IInv, TypeOK, FeedTypeOK, SyncedBookExact
<1>2. /\ e.first_id \in 1 .. MaxId /\ e.final_id \in 1 .. MaxId
      /\ e.prev_id \in 0 .. MaxId
      /\ tracker.snapshot_id \in Nat /\ tracker.last_final_id \in Nat
      /\ tracker.straddled \in BOOLEAN
  BY <1>1, Constants DEF EventIds, Trackers
<1>3. /\ e.first_id <= e.final_id /\ e.prev_id < e.first_id
      /\ Policy = "BinanceFutures" \/ e.prev_id = e.first_id - 1
      /\ Policy = "StrictIncrement" => e.first_id = e.final_id
      /\ VenueBook[e.prev_id] = VenueBook[e.first_id - 1]
  BY DEF IInv, SentWellNumbered
<1>4. IF tracker.straddled THEN Continuous(tracker, e) ELSE Straddles(tracker, e)
  BY <1>1 DEF Classify
<1>5. \E j \in e.first_id - 1 .. e.final_id : VenueBook[p] = VenueBook[j]
  <2>1. CASE tracker.straddled
    <3>1. p = tracker.last_final_id
      BY <2>1 DEF Position
    <3>2. p = e.prev_id
      BY <1>2, <1>3, <1>4, <2>1, <3>1 DEF Continuous
    <3>3. e.first_id - 1 \in e.first_id - 1 .. e.final_id
      BY <1>2, <1>3
    <3>4. QED
      BY <3>2, <3>3, <1>3
  <2>2. CASE ~tracker.straddled
    <3>1. p = tracker.snapshot_id
      BY <2>2 DEF Position
    <3>2. p \in e.first_id - 1 .. e.final_id
      BY <1>2, <1>3, <1>4, <2>2, <3>1, Constants
      DEF Straddles, Anchor, Policies
    <3>3. QED
      BY <3>2
  <2>3. QED
    BY <2>1, <2>2, <1>2
<1>6. e.final_id >= p
  <2>1. CASE tracker.straddled
    BY <2>1, <1>2, <1>3, <1>4 DEF Continuous, Position
  <2>2. CASE ~tracker.straddled
    BY <2>2, <1>2, <1>3, <1>4, Constants
    DEF Straddles, Anchor, Policies, Position
  <2>3. QED
    BY <2>1, <2>2, <1>2
<1>7. PICK j \in e.first_id - 1 .. e.final_id : VenueBook[p] = VenueBook[j]
  BY <1>5
<1>8. QED
  BY <1>1, <1>3, <1>6, <1>7, EventAdvances

(* The four ways an update can end. *)
LEMMA UpdateCases ==
  ASSUME IInv, NEW e \in sent, DeliverUpdate(e)
  PROVE  LET m == UpdateMessage(e, 0)
         IN  \/ /\ ~synced /\ Report("NeedsSnapshot", {}, {})
                /\ UNCHANGED <<book, tracker, synced, last_ts>>
             \/ /\ synced /\ Classify(tracker, e) = "DiscardStale"
                /\ Report("Ignored", {}, {})
                /\ tracker' = tracker
                /\ UNCHANGED <<book, synced, last_ts>>
             \/ /\ synced /\ Classify(tracker, e) = "ResyncRequired"
                /\ request_resync(on_update(tracker, e), {"SequenceGap"})
                /\ UNCHANGED <<book, last_ts>>
             \/ /\ synced /\ Classify(tracker, e) = "Apply"
                /\ ApplyAndVerify(book, on_update(tracker, e), m)
<1>1. UpdateMessage(e, 0).has_ids = TRUE /\ UpdateMessage(e, 0).ids = e
  BY DEF UpdateMessage
<1>2. Classify(tracker, e) = "DiscardStale" => on_update(tracker, e) = tracker
  BY DEF on_update
<1>3. QED
  BY <1>1, <1>2 DEF DeliverUpdate, apply_update_message

(* An update is refused, discarded, or leads to the venue's book. *)
LEMMA UpdateInv ==
  ASSUME IInv, NEW e \in sent, DeliverUpdate(e)
  PROVE  IInv' /\ (synced /\ synced' => Position(tracker') >= Position(tracker))
<1> DEFINE m == UpdateMessage(e, 0)
<1>1. UNCHANGED <<head, sent>>
  BY DEF DeliverUpdate
<1>2. /\ tracker \in Trackers /\ e \in EventIds /\ e \in UpdateIds
      /\ e.final_id \in 1 .. MaxId /\ e.final_id <= head
      /\ FeedTypeOK /\ Position(tracker) \in Nat
  BY Constants
  DEF IInv, TypeOK, FeedTypeOK, SentWellNumbered, EventIds, UpdateIds,
      Trackers, Position
<1>3. SentWellNumbered'
  BY <1>1 DEF IInv, SentWellNumbered
<1>4. CASE /\ synced' = synced /\ tracker' = tracker /\ book' = book
           /\ FeedTypeOK'
  BY <1>1, <1>2, <1>3, <1>4 DEF IInv, TypeOK, SyncedBookExact
<1>5. CASE /\ ~synced /\ Report("NeedsSnapshot", {}, {})
           /\ UNCHANGED <<book, tracker, synced, last_ts>>
  <2>1. FeedTypeOK'
    BY <1>2, <1>5 DEF Report, FeedTypeOK, Statuses
  <2>2. QED
    BY <1>4, <1>5, <2>1
<1>6. CASE /\ synced /\ Classify(tracker, e) = "DiscardStale"
           /\ Report("Ignored", {}, {})
           /\ tracker' = tracker
           /\ UNCHANGED <<book, synced, last_ts>>
  <2>1. FeedTypeOK'
    BY <1>2, <1>6 DEF Report, FeedTypeOK, Statuses
  <2>2. QED
    BY <1>4, <1>6, <2>1
<1>7. CASE /\ synced /\ Classify(tracker, e) = "ResyncRequired"
           /\ request_resync(on_update(tracker, e), {"SequenceGap"})
           /\ UNCHANGED <<book, last_ts>>
  <2>1. tracker' \in Trackers /\ synced' = FALSE
    BY <1>2, <1>7, TrackerTypes DEF request_resync
  <2>2. FeedTypeOK'
    BY <1>2, <1>7, <2>1
    DEF request_resync, Report, FeedTypeOK, Statuses, Counters, DivergenceKinds
  <2>3. QED
    BY <1>1, <1>3, <2>1, <2>2 DEF IInv, TypeOK, SyncedBookExact
<1>8. CASE /\ synced /\ Classify(tracker, e) = "Apply"
           /\ ApplyAndVerify(book, on_update(tracker, e), m)
  <2>1. on_update(tracker, e)
          = [tracker EXCEPT !.straddled = TRUE, !.last_final_id = e.final_id]
    BY <1>8 DEF on_update
  <2>2. /\ on_update(tracker, e) \in Trackers
        /\ on_update(tracker, e).have_snapshot = tracker.have_snapshot
        /\ Position(on_update(tracker, e)) = e.final_id
    BY <1>2, <2>1 DEF Trackers, Position, UpdateIds
  <2>3. /\ m.has_checksum = FALSE /\ m.ts \in Nat
        /\ m.levels = [k \in Moved(e) |-> VenueBook[e.final_id][k]]
    BY DEF UpdateMessage
  <2>4. /\ RefusedLevels(m.levels) = {}
        /\ ApplyLevels(book, m.levels) = VenueBook[e.final_id]
        /\ e.final_id >= Position(tracker)
    BY <1>8, <2>3, ApplyAdvances
  <2>5. VenueBook[e.final_id] \in Books
    BY <1>2, Constants
  <2> DEFINE t2     == on_update(tracker, e)
             result == VenueBook[e.final_id]
  <2>9. /\ stats \subseteq Counters /\ log \subseteq DivergenceKinds
        /\ ApplyAndVerify(book, t2, m)
    BY <1>2, <1>8 DEF FeedTypeOK
  <2>10. /\ t2 \in Trackers /\ result \in Books
         /\ m.has_checksum = FALSE /\ m.ts \in Nat
         /\ RefusedLevels(m.levels) = {} /\ ApplyLevels(book, m.levels) = result
    BY <2>2, <2>3, <2>4, <2>5
  <2>6. book' = result /\ tracker' = t2 /\ FeedTypeOK'
    <3> HIDE DEF m, t2, result
    <3>1. QED
      BY <2>9, <2>10, AppliedMessage
  <2>7. SyncedBookExact'
    <3>1. tracker.have_snapshot
      BY <1>8 DEF IInv, SyncedBookExact
    <3>2. Position(tracker') = e.final_id /\ tracker'.have_snapshot
      BY <2>2, <2>6, <3>1
    <3>3. e.final_id \in 0 .. head'
      BY <1>1, <1>2, Constants
    <3>4. QED
      BY <2>6, <3>2, <3>3 DEF SyncedBookExact
  <2>8. QED
    BY <1>1, <1>3, <2>2, <2>4, <2>6, <2>7 DEF IInv, TypeOK
<1>9. QED
  BY <1>5, <1>6, <1>7, <1>8, UpdateCases

(* A frame that says nothing of the book leaves it and sync alone. *)
LEMMA JunkInv ==
  ASSUME IInv, DeliverJunk
  PROVE  IInv' /\ UNCHANGED <<book, tracker, synced>>
<1>1. UNCHANGED <<book, tracker, synced, last_ts, head, sent>>
  BY DEF DeliverJunk, HandleUndecodable, HandleIgnored, HandleVenueError,
         apply_snapshot_undecodable
<1>2. FeedTypeOK'
  BY <1>1
  DEF IInv, TypeOK, FeedTypeOK, DeliverJunk, HandleUndecodable, HandleIgnored,
      HandleVenueError, apply_snapshot_undecodable, Report, Statuses, Counters,
      DivergenceKinds
<1>3. QED
  BY <1>1, <1>2 DEF IInv, TypeOK, SentWellNumbered, SyncedBookExact

(* A reconnect only gives up synchronisation. *)
LEMMA ReconnectInv ==
  ASSUME IInv, Reconnect
  PROVE  IInv' /\ ~synced'
<1>1. UNCHANGED <<book, last_ts, status, head, sent>> /\ synced' = FALSE
  BY DEF Reconnect, Invalidate
<1>2. tracker' \in Trackers
  BY TrackerTypes DEF Reconnect, Invalidate, IInv, TypeOK, FeedTypeOK
<1>3. FeedTypeOK'
  BY <1>1, <1>2
  DEF IInv, TypeOK, FeedTypeOK, Reconnect, Invalidate, Counters, DivergenceKinds
<1>4. QED
  BY <1>1, <1>3 DEF IInv, TypeOK, SentWellNumbered, SyncedBookExact

(* Every step preserves the inductive invariant. *)
LEMMA NextInv == IInv /\ [Next]_vars => IInv'
<1> SUFFICES ASSUME IInv, [Next]_vars PROVE IInv'
  OBVIOUS
<1>1. ASSUME NEW e \in EventIds, Publish(e) PROVE IInv'
  BY <1>1, PublishInv
<1>2. ASSUME NEW e \in sent, DeliverUpdate(e) PROVE IInv'
  BY <1>2, UpdateInv
<1>3. ASSUME NEW id \in 0 .. head, DeliverSnapshot(id) PROVE IInv'
  BY <1>3, SnapshotInv
<1>4. CASE DeliverJunk
  BY <1>4, JunkInv
<1>5. CASE Reconnect
  BY <1>5, ReconnectInv
<1>6. CASE UNCHANGED vars
  BY <1>6
  DEF vars, feedVars, IInv, TypeOK, FeedTypeOK, SentWellNumbered, SyncedBookExact
<1>7. QED
  BY <1>1, <1>2, <1>3, <1>4, <1>5, <1>6 DEF Next

-----------------------------------------------------------------------------
(* The theorems. *)

(* The inductive invariant holds in every reachable state. *)
LEMMA Invariance == Spec => []IInv
  BY InitInv, NextInv, PTL DEF Spec

(* Every variable of the feed and the venue keeps its type. *)
THEOREM TypeCorrect == Spec => []TypeOK
<1>1. IInv => TypeOK
  BY DEF IInv
<1>2. QED
  BY <1>1, Invariance, PTL

(* A feed that calls itself synchronised holds exactly the book the venue  *)
(* had at the id the feed stands at, whatever the path to the venue lost,  *)
(* repeated, delayed or reordered.                                         *)
THEOREM SyncedIsExact == Spec => []SyncedBookExact
<1>1. IInv => SyncedBookExact
  BY DEF IInv
<1>2. QED
  BY <1>1, Invariance, PTL

(* Between two snapshots the feed only moves forward. *)
THEOREM OnlyForward == Spec => NeverBackwards
<1>1. ASSUME IInv, [Next]_vars
      PROVE  [\/ \E id \in 0 .. head : DeliverSnapshot(id)
              \/ synced /\ synced' => Position(tracker') >= Position(tracker)]_vars
  <2> SUFFICES ASSUME synced, synced', Next,
                      ~\E id \in 0 .. head : DeliverSnapshot(id)
               PROVE  Position(tracker') >= Position(tracker)
    BY <1>1
  <2>1. Position(tracker) \in Nat
    BY <1>1 DEF IInv, TypeOK, FeedTypeOK, Trackers, Position
  <2>2. ASSUME NEW e \in EventIds, Publish(e)
        PROVE  Position(tracker') >= Position(tracker)
    BY <2>1, <2>2 DEF Publish, feedVars
  <2>3. ASSUME NEW e \in sent, DeliverUpdate(e)
        PROVE  Position(tracker') >= Position(tracker)
    BY <1>1, <2>3, UpdateInv
  <2>4. CASE DeliverJunk
    BY <1>1, <2>1, <2>4, JunkInv
  <2>5. CASE Reconnect
    BY <1>1, <2>5, ReconnectInv
  <2>6. QED
    BY <2>2, <2>3, <2>4, <2>5 DEF Next
<1>2. QED
  BY <1>1, Invariance, PTL DEF Spec, NeverBackwards

-----------------------------------------------------------------------------
(* Gaps are real.  The venue's events tile the ids, so the event that      *)
(* holds the id after the feed's position is another than the one that did *)
(* not fit.                                                                *)

TInv == IInv /\ SentTilesIds /\ StandsOnEvent

(* A published event extends the tiling of the ids up to head. *)
LEMMA PublishTiles ==
  ASSUME TInv, NEW e \in EventIds, Publish(e)
  PROVE  SentTilesIds' /\ StandsOnEvent'
<1>1. /\ head \in Nat /\ head' = e.final_id /\ sent' = sent \cup {e}
      /\ e.prev_id = head /\ e.final_id \in Nat
      /\ UNCHANGED <<synced, tracker>>
  BY DEF TInv, IInv, TypeOK, EventIds, Publish, NumberedAfterHead, feedVars
<1>2. \A f \in sent : f.final_id <= head /\ f.final_id \in Nat /\ f.prev_id \in Nat
  BY DEF TInv, IInv, TypeOK, EventIds, SentWellNumbered
<1>3. \A f, g \in sent' : f = g \/ f.final_id <= g.prev_id \/ g.final_id <= f.prev_id
  BY <1>1, <1>2 DEF TInv, SentTilesIds
<1>4. ASSUME NEW i \in 1 .. head'
      PROVE  \E f \in sent' : f.prev_id < i /\ i <= f.final_id
  <2>1. CASE i \in 1 .. head
    BY <2>1, <1>1 DEF TInv, SentTilesIds
  <2>2. CASE i \notin 1 .. head
    BY <2>2, <1>1
  <2>3. QED
    BY <2>1, <2>2
<1>5. StandsOnEvent'
  BY <1>1 DEF TInv, StandsOnEvent
<1>6. QED
  BY <1>3, <1>4, <1>5 DEF SentTilesIds

(* An applied update leaves the feed at the end of a published event. *)
LEMMA UpdateStands ==
  ASSUME TInv, NEW e \in sent, DeliverUpdate(e)
  PROVE  StandsOnEvent'
<1> DEFINE m == UpdateMessage(e, 0)
<1>0. UNCHANGED sent /\ IInv /\ tracker \in Trackers
  BY DEF DeliverUpdate, TInv, IInv, TypeOK, FeedTypeOK
<1>1. CASE ~synced' \/ (synced' = synced /\ tracker' = tracker)
  BY <1>0, <1>1 DEF TInv, StandsOnEvent
<1>2. CASE /\ synced /\ Classify(tracker, e) = "Apply"
           /\ ApplyAndVerify(book, on_update(tracker, e), m)
  <2>1. on_update(tracker, e)
          = [tracker EXCEPT !.straddled = TRUE, !.last_final_id = e.final_id]
    BY <1>2 DEF on_update
  <2>2. tracker' = on_update(tracker, e) \/ tracker' = invalidate(on_update(tracker, e))
    BY <1>2 DEF ApplyAndVerify
  <2>3. on_update(tracker, e).last_final_id = e.final_id
    BY <1>0, <2>1 DEF Trackers
  <2>4. tracker'.last_final_id = e.final_id
    <3>1. on_update(tracker, e) \in Trackers
      BY <1>0, TrackerTypes, Constants DEF IInv, TypeOK, EventIds, UpdateIds
    <3>2. QED
      BY <2>2, <2>3, <3>1 DEF invalidate, Trackers
  <2>5. QED
    BY <1>0, <2>4 DEF StandsOnEvent
<1>3. QED
  BY <1>0, <1>1, <1>2, UpdateCases DEF request_resync

(* The published events tile the ids, and the feed stands on one. *)
LEMMA TilesInvariant == Spec => []TInv
<1>1. Init => TInv
  <2>1. Init => SentTilesIds /\ StandsOnEvent
    BY DEF Init, FeedInit, SentTilesIds, StandsOnEvent
  <2>2. QED
    BY <2>1, InitInv DEF TInv
<1>2. TInv /\ [Next]_vars => TInv'
  <2> SUFFICES ASSUME TInv, [Next]_vars PROVE SentTilesIds' /\ StandsOnEvent'
    BY NextInv DEF TInv
  <2>0. IInv
    BY DEF TInv
  <2>1. ASSUME NEW e \in EventIds, Publish(e)
        PROVE  SentTilesIds' /\ StandsOnEvent'
    BY <2>1, PublishTiles
  <2>2. ASSUME UNCHANGED <<head, sent>>, StandsOnEvent'
        PROVE  SentTilesIds' /\ StandsOnEvent'
    BY <2>2 DEF TInv, SentTilesIds
  <2>3. ASSUME NEW e \in sent, DeliverUpdate(e)
        PROVE  SentTilesIds' /\ StandsOnEvent'
    BY <2>2, <2>3, UpdateStands DEF DeliverUpdate
  <2>4. ASSUME NEW id \in 0 .. head, DeliverSnapshot(id)
        PROVE  SentTilesIds' /\ StandsOnEvent'
    <3>1. StandsOnEvent'
      BY <2>0, <2>4, SnapshotInv DEF StandsOnEvent
    <3>2. QED
      BY <2>2, <2>4, <3>1 DEF DeliverSnapshot
  <2>5. CASE DeliverJunk
    BY <2>0, <2>2, <2>5, JunkInv DEF DeliverJunk, TInv, StandsOnEvent
  <2>6. CASE Reconnect
    BY <2>0, <2>2, <2>6, ReconnectInv DEF Reconnect, StandsOnEvent
  <2>7. CASE UNCHANGED vars
    BY <2>2, <2>7 DEF vars, feedVars, TInv, StandsOnEvent
  <2>8. QED
    BY <2>1, <2>3, <2>4, <2>5, <2>6, <2>7 DEF Next
<1>3. QED
  BY <1>1, <1>2, PTL DEF Spec

(* An event that calls for a resync is not the one that holds the id right *)
(* after the feed's position.                                              *)
LEMMA MisfitIsLater ==
  ASSUME TInv, synced, NEW e \in sent, Classify(tracker, e) = "ResyncRequired",
         Policy # "BinanceFutures" \/ tracker.straddled
  PROVE  \E f \in sent : /\ e # f
                         /\ e.final_id > Position(tracker)
                         /\ f.final_id > Position(tracker)
<1> DEFINE p == Position(tracker)
<1>1. /\ e \in EventIds /\ tracker \in Trackers /\ tracker.have_snapshot
      /\ p \in 0 .. head /\ head \in Nat
  BY Constants DEF TInv, IInv, TypeOK, FeedTypeOK, SyncedBookExact
<1>2. \A f \in sent :
        /\ f.first_id \in Nat /\ f.final_id \in Nat /\ f.prev_id \in Nat
        /\ f.first_id <= f.final_id /\ f.final_id <= head
        /\ f.prev_id < f.first_id
        /\ Policy = "BinanceFutures" \/ f.prev_id = f.first_id - 1
        /\ Policy = "StrictIncrement" => f.first_id = f.final_id
  BY DEF TInv, IInv, TypeOK, EventIds, SentWellNumbered
<1>3. tracker.snapshot_id \in Nat /\ tracker.last_final_id \in Nat
  BY <1>1 DEF Trackers
<1>4. CASE tracker.straddled
  <2>1. p = tracker.last_final_id
    BY <1>4 DEF Position
  <2>2. ~Continuous(tracker, e) /\ ~(e.final_id <= tracker.last_final_id)
    BY <1>1, <1>4 DEF Classify
  <2>3. e.prev_id # p
    BY <1>2, <2>1, <2>2, <1>3, Constants DEF Continuous, Policies
  <2>4. PICK g \in sent : g.final_id = p
    BY <1>4, <2>1 DEF TInv, StandsOnEvent
  <2>5. p + 1 \in 1 .. head
    BY <1>1, <1>2, <1>3, <2>1, <2>2
  <2>6. PICK f \in sent : f.prev_id < p + 1 /\ p + 1 <= f.final_id
    BY <2>5 DEF TInv, SentTilesIds
  <2>7. e.final_id <= g.prev_id \/ g.final_id <= e.prev_id
    <3>1. e # g
      BY <2>1, <2>2, <2>4, <1>2
    <3>2. QED
      BY <3>1 DEF TInv, SentTilesIds
  <2>8. e.prev_id > p
    <3>1. e.final_id > p /\ g.prev_id < p
      BY <1>2, <1>3, <2>1, <2>2, <2>4
    <3>2. QED
      BY <3>1, <1>1, <1>2, <2>3, <2>4, <2>7
  <2>9. f # e /\ f.final_id > p /\ e.final_id > p
    BY <1>1, <1>2, <2>6, <2>8
  <2>10. QED
    BY <2>9
<1>5. CASE ~tracker.straddled
  <2>1. p = tracker.snapshot_id
    BY <1>5 DEF Position
  <2>2. ~Straddles(tracker, e) /\ ~(e.final_id < Anchor(tracker))
    BY <1>1, <1>5 DEF Classify
  <2>3. Anchor(tracker) = p + 1
    BY <1>5, <2>1 DEF Anchor
  <2>4. e.final_id > p /\ e.prev_id > p
    BY <1>1, <1>2, <1>3, <1>5, <2>1, <2>2, <2>3, Constants DEF Straddles, Policies
  <2>5. p + 1 \in 1 .. head
    BY <1>1, <1>2, <2>4
  <2>6. PICK f \in sent : f.prev_id < p + 1 /\ p + 1 <= f.final_id
    BY <2>5 DEF TInv, SentTilesIds
  <2>7. f # e /\ f.final_id > p
    BY <1>1, <1>2, <2>4, <2>6
  <2>8. QED
    BY <2>4, <2>7
<1>6. QED
  BY <1>4, <1>5, <1>1 DEF Trackers

(* A gap is declared only when an event really is missing. *)
THEOREM GapsAreReal == Spec => GapIsReal
<1> DEFINE A == /\ recorded' = {"SequenceGap"}
                /\ recorded # {"SequenceGap"}
                /\ Policy # "BinanceFutures" \/ tracker.straddled
           C == \E e, f \in sent : /\ e # f
                                   /\ e.final_id > Position(tracker)
                                   /\ f.final_id > Position(tracker)
<1>1. ASSUME TInv, [Next]_vars PROVE [A => C]_vars
  <2> SUFFICES ASSUME Next, A PROVE C
    BY <1>1
  <2>1. ASSUME NEW e \in EventIds, Publish(e) PROVE C
    BY <2>1 DEF Publish, feedVars
  <2>2. ASSUME NEW e \in sent, DeliverUpdate(e) PROVE C
    <3> DEFINE m == UpdateMessage(e, 0)
    <3>1. synced /\ Classify(tracker, e) = "ResyncRequired"
      <4>1. IInv
        BY <1>1 DEF TInv
      <4>2. CASE /\ synced /\ Classify(tracker, e) = "Apply"
                 /\ ApplyAndVerify(book, on_update(tracker, e), m)
        <5>1. /\ m.has_checksum = FALSE
              /\ m.levels = [k \in Moved(e) |-> VenueBook[e.final_id][k]]
          BY DEF UpdateMessage
        <5>2. RefusedLevels(m.levels) = {}
          BY <4>1, <4>2, <5>1, ApplyAdvances
        <5>3. \A b : ChecksumMatches(b, m)
          BY <5>1 DEF ChecksumMatches
        <5>4. recorded' = {}
          BY <4>2, <5>1, <5>2, <5>3 DEF ApplyAndVerify, Report
        <5>5. QED
          BY <5>4
      <4>3. QED
        BY <2>2, <4>1, <4>2, UpdateCases DEF Report
    <3>2. QED
      BY <1>1, <2>2, <3>1, MisfitIsLater
  <2>3. ASSUME NEW id \in 0 .. head, DeliverSnapshot(id) PROVE C
    <3> DEFINE m == SnapshotMessage(id)
    <3>1. /\ m.has_checksum = FALSE /\ m.levels = VenueBook[id]
          /\ id \in 0 .. MaxId
      BY <1>1, Constants DEF SnapshotMessage, TInv, IInv, TypeOK
    <3>2. RefusedLevels(m.levels) = {} /\ \A b : ChecksumMatches(b, m)
      BY <3>1, SnapshotRebuilds DEF ChecksumMatches
    <3>3. recorded' = {}
      BY <2>3, <3>1, <3>2
      DEF DeliverSnapshot, apply_snapshot_message, ApplyAndVerify, Report
    <3>4. QED
      BY <3>3
  <2>4. CASE DeliverJunk
    BY <2>4 DEF DeliverJunk, HandleUndecodable, HandleIgnored, HandleVenueError,
                apply_snapshot_undecodable, Report
  <2>5. CASE Reconnect
    BY <2>5 DEF Reconnect, Invalidate
  <2>6. QED
    BY <2>1, <2>2, <2>3, <2>4, <2>5 DEF Next
<1>2. QED
  BY <1>1, TilesInvariant, PTL DEF Spec, GapIsReal

(* Only a snapshot revives an unsynchronised feed; until one comes its     *)
(* book is frozen.                                                         *)
THEOREM UnsyncedIsFrozen == Spec => FrozenUntilSnapshot
<1> DEFINE C == \/ \E id \in 0 .. head : DeliverSnapshot(id)
                \/ ~synced => ~synced' /\ book' = book
<1>1. ASSUME [Next]_vars PROVE [C]_vars
  <2>1. ASSUME NEW e \in EventIds, Publish(e) PROVE C
    BY <2>1 DEF Publish, feedVars
  <2>2. ASSUME NEW e \in sent, DeliverUpdate(e) PROVE C
    <3> DEFINE m == UpdateMessage(e, 0)
    <3>1. CASE synced
      BY <3>1
    <3>2. CASE ~synced
      BY <2>2, <3>2 DEF DeliverUpdate, apply_update_message
    <3>3. QED
      BY <3>1, <3>2
  <2>3. ASSUME NEW id \in 0 .. head, DeliverSnapshot(id) PROVE C
    BY <2>3
  <2>4. CASE DeliverJunk
    BY <2>4 DEF DeliverJunk, HandleUndecodable, HandleIgnored, HandleVenueError,
                apply_snapshot_undecodable
  <2>5. CASE Reconnect
    BY <2>5 DEF Reconnect, Invalidate
  <2>6. CASE UNCHANGED vars
    BY <2>6
  <2>7. QED
    BY <1>1, <2>1, <2>2, <2>3, <2>4, <2>5, <2>6 DEF Next
<1>2. QED
  BY <1>1, PTL DEF Spec, FrozenUntilSnapshot

=============================================================================
