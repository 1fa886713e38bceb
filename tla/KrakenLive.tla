----------------------------- MODULE KrakenLive -----------------------------
(***************************************************************************)
(* The live verifier against Kraken (run_kraken_live and verdict in        *)
(* tools/crossbook_verify.cpp): one feed, one ordered connection, a venue  *)
(* that serves the top Depth levels with a checksum over ChecksumDepth of  *)
(* them, and the resubscription the tool performs when the feed asks for a *)
(* snapshot.  Frames and subscription requests wait in two FIFO channels,  *)
(* so updates of the old subscription are still in flight when the tool    *)
(* has asked for a new one.                                                *)
(***************************************************************************)
EXTENDS Feed

CONSTANTS VenueBooks,                   \* the books the venue runs through
          MaxInFlight,                  \* bound: frames and requests queued
          MaxDamaged                    \* bound: frames that do not decode

(* Prices are machine integers, hence finitely many.  A checksum covers    *)
(* the top ten levels, and the tool subscribes to ten unless told to       *)
(* subscribe to more.                                                      *)
ASSUME KrakenAssumption ==
  /\ IsFiniteSet(Price)
  /\ ChecksumDepth > 0
  /\ Depth = 0 \/ ChecksumDepth <= Depth
  /\ VenueBooks \subseteq Books
  /\ MaxDamaged \in Nat

VARIABLES venue,                        \* the venue's full book
          subscribed,                   \* does the venue send us updates?
          frames,                       \* venue -> tool, in order
          requests,                     \* tool -> venue, in order
          have_feed,                    \* the tool has built its Feed
          running,                      \* the receive loop still runs
          exit,                         \* the verdict, "none" while running
          damaged,                      \* frames damaged so far
          truth                         \* venue's book as of the latest book
                                        \* frame consumed (history variable)

venueVars == <<venue, subscribed>>
toolVars  == <<have_feed, running, exit>>
vars == <<feedVars, venueVars, frames, requests, toolVars, damaged, truth>>

FrameKinds == {"snapshot", "update"}

(* The types of the feed, the venue, the channels and the loop. *)
TypeOK ==
  /\ FeedTypeOK
  /\ venue \in VenueBooks
  /\ subscribed \in BOOLEAN
  /\ \A i \in DOMAIN frames : frames[i].kind \in FrameKinds
  /\ requests \in Seq({"subscribe", "unsubscribe"})
  /\ have_feed \in BOOLEAN /\ running \in BOOLEAN
  /\ exit \in {"none", "pass", "fail", "error"}
  /\ damaged \in 0 .. MaxDamaged
  /\ truth \in VenueBooks

Init ==
  /\ FeedInit
  /\ venue \in VenueBooks
  /\ subscribed = FALSE
  /\ frames = <<>>
  /\ requests = <<"subscribe">>
  /\ have_feed = FALSE /\ running = TRUE /\ exit = "none"
  /\ damaged = 0
  /\ truth = venue

-----------------------------------------------------------------------------
(* The venue. *)

(* What the venue tells about its window when its book moves from v to w:  *)
(* levels that are new or changed in the window, and levels of the window  *)
(* that are gone from the book.  A level pushed out of the window by a     *)
(* better one is not mentioned.                                            *)
WindowDelta(v, w) ==
  LET before == Trim(v, Depth)
      after  == Trim(w, Depth)
      news   == {k \in Keys : after[k] # before[k] /\ (after[k] > 0 \/ w[k] = 0)}
  IN  [k \in news |-> after[k]]

(* The levels of a snapshot. *)
Window(v) ==
  LET w == Trim(v, Depth) IN [k \in {k \in Keys : w[k] > 0} |-> w[k]]

BookFrame(kind, v, levels) ==
  [kind |-> kind, has_ids |-> FALSE, ids |-> <<>>, ts |-> 1,
   has_checksum |-> TRUE, checksum |-> ChecksumPayload(v, ChecksumDepth),
   levels |-> levels, full |-> v]

Room == Len(frames) + Len(requests) < MaxInFlight

(* The market moves; a subscriber is told. *)
VenueMoves(w) ==
  /\ running /\ Room
  /\ w # venue
  /\ venue' = w
  /\ frames' = IF subscribed
                 THEN Append(frames, BookFrame("update", w, WindowDelta(venue, w)))
                 ELSE frames
  /\ UNCHANGED <<feedVars, subscribed, requests, toolVars, damaged, truth>>

(* A subscription is answered with a snapshot; a second one, taken while   *)
(* the first still stands, may be refused.                                 *)
VenueTakesRequest ==
  /\ running /\ requests # <<>>
  /\ requests' = Tail(requests)
  /\ subscribed' = (Head(requests) = "subscribe")
  /\ \/ /\ Head(requests) = "subscribe"
        /\ frames' = Append(frames, BookFrame("snapshot", venue, Window(venue)))
     \/ /\ Head(requests) = "unsubscribe" \/ subscribed
        /\ frames' = frames
  /\ UNCHANGED <<feedVars, venue, toolVars, damaged, truth>>

-----------------------------------------------------------------------------
(* The tool's receive loop. *)

(* Mutant: wait for a snapshot that nobody has asked for.                 *)
Resubscribe_Never == requests' = requests

Both == <<"unsubscribe", "subscribe">>

(* What of the two goes out: a send that times out leaves the connection   *)
(* up, and the loop does not look.                                         *)
Sendings == {Both, <<"unsubscribe">>, <<"subscribe">>, <<>>}

(* Kraken has no resnapshot request: drop the subscription, take a new     *)
(* one, each time the feed says it needs a snapshot.                       *)
Resubscribe ==
  IF status' = "NeedsSnapshot" THEN \E sent \in Sendings : requests' = requests \o sent
                               ELSE requests' = requests

(* A first snapshot without levels tells no scales: it is passed over, as  *)
(* every frame but a snapshot is, unless the command line gave them.       *)
PassedOver(m) == m.kind # "snapshot" \/ DOMAIN m.levels = {}

(* One frame through the loop.  The feed is built on the first snapshot.   *)
Poll ==
  /\ running /\ frames # <<>>
  /\ frames' = Tail(frames)
  /\ LET m == Head(frames)
     IN  \/ /\ ~have_feed /\ PassedOver(m)
            /\ UNCHANGED <<feedVars, have_feed, requests, truth>>
         \/ /\ m.kind = "snapshot"
            /\ have_feed' = TRUE /\ truth' = m.full
            /\ apply_snapshot_message(m)
            /\ Resubscribe
         \/ /\ have_feed /\ m.kind = "update"
            /\ have_feed' = TRUE /\ truth' = m.full
            /\ apply_update_message(m)
            /\ Resubscribe
  /\ UNCHANGED <<venueVars, running, exit, damaged>>

(* The frame at the head does not decode.  Without a feed it is passed     *)
(* over, unless it still reads as a book snapshot: then it is what the     *)
(* feed is built on, and refused by it.                                    *)
PollDamaged ==
  /\ running /\ frames # <<>> /\ damaged < MaxDamaged
  /\ damaged' = damaged + 1
  /\ frames' = Tail(frames)
  /\ \/ /\ ~have_feed
        /\ UNCHANGED <<feedVars, have_feed, requests>>
     \/ /\ have_feed \/ Head(frames).kind = "snapshot"
        /\ have_feed' = TRUE
        /\ HandleUndecodable("MalformedMessage")
        /\ Resubscribe
  /\ UNCHANGED <<venueVars, running, exit, truth>>

(* A heartbeat, an acknowledgement or an error frame of the venue. *)
PollOther ==
  /\ running /\ have_feed
  /\ HandleIgnored \/ HandleVenueError
  /\ UNCHANGED <<venueVars, frames, requests, toolVars, damaged, truth>>

(* Mutant: a frame that did not decode does not count against the run. *)
Verdict_IgnoresRejected ==
  IF have_feed /\ "checksums_verified" \in stats
       /\ stats \cap {"checksum_mismatches", "resyncs_requested"} = {}
    THEN "pass" ELSE "fail"

(* The exit status: what verdict() says of the counters. *)
Verdict ==
  CASE ~have_feed -> "error"
    [] have_feed /\ stats \cap {"applied", "checksums_verified"} = {} -> "fail"
    [] have_feed /\ stats \cap {"checksum_mismatches", "rejected",
                                "resyncs_requested"} # {} -> "fail"
    [] OTHER -> IF "checksums_verified" \in stats THEN "pass" ELSE "fail"

(* Interrupted, past the deadline, or the peer closed; or the connection   *)
(* or the capture file failed, which is an error whatever was verified.    *)
Stop ==
  /\ running
  /\ running' = FALSE
  /\ exit' \in {Verdict, "error"}
  /\ UNCHANGED <<feedVars, venueVars, frames, requests, have_feed, damaged, truth>>

Done == ~running /\ UNCHANGED vars

Next ==
  \/ \E w \in VenueBooks : VenueMoves(w)
  \/ VenueTakesRequest
  \/ Poll
  \/ PollDamaged
  \/ PollOther
  \/ Stop
  \/ Done

Spec == Init /\ [][Next]_vars

(* The loop polls for ever, and not each time with a request lost; the     *)
(* venue serves the requests, and the market does not stand still for      *)
(* ever.                                                                   *)
Fairness ==
  /\ SF_vars(Poll /\ (status' = "NeedsSnapshot" => requests' = requests \o Both))
  /\ WF_vars(VenueTakesRequest)
  /\ WF_vars(\E w \in VenueBooks : VenueMoves(w))

FairSpec == Spec /\ Fairness

-----------------------------------------------------------------------------

(* On a stream of which every frame decoded, the local book is the venue's *)
(* window level for level after every book frame, so that no checksum ever *)
(* fails: applying the deltas and trimming rebuilds the window although    *)
(* the venue never mentions the levels that fall out of it.                *)
CleanStreamExact ==
  /\ TypeOK
  /\ damaged = 0 => /\ "ChecksumMismatch" \notin log
                    /\ synced => book = Trim(truth, Depth)

(* After a frame that was applied, a synchronised book agrees with the     *)
(* venue on every level the checksum covers, on each side, also when       *)
(* earlier frames were damaged.                                            *)
SyncedTopMatches ==
  synced /\ status = "Applied" =>
    Trim(book, ChecksumDepth) = Trim(truth, ChecksumDepth)

(* An exit status of success is earned: something was verified, the book   *)
(* is in sync, and it is the venue's window.                               *)
PassIsEarned ==
  exit = "pass" => synced /\ book = Trim(truth, Depth)

(* The venue has been told to stop and, as far as it knows, nothing else. *)
Abandoned == ~subscribed /\ requests = <<>> /\ frames = <<>>

(* A feed that has lost sync gets it back: the resubscriptions it triggers *)
(* converge although stale updates are still in flight and requests are    *)
(* lost, as long as the venue is not told half of it, to stop.             *)
RecoversSync == (have_feed /\ ~synced) ~> (synced \/ ~running \/ Abandoned)

(* The comment on resubscribing: "the recovery is to drop the subscription *)
(* and take a new one", so the loop does not end up without either.        *)
TakesNewSubscription == (have_feed /\ ~synced) ~> (synced \/ ~running)

=============================================================================
