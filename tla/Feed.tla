-------------------------------- MODULE Feed --------------------------------
(***************************************************************************)
(* The feed handler of one instrument on one venue (feed.hpp): decode,     *)
(* check continuity, apply, trim, verify, recover.  One action per entry   *)
(* point of the class and per outcome of the decoder.  The frames come     *)
(* from an environment: NumberedFeed composes this module with a venue     *)
(* that numbers its updates, KrakenLive with one that checksums them and   *)
(* the tool that resubscribes, DecodedFeed with the decoders and an owner  *)
(* that watches for silence.                                               *)
(*                                                                         *)
(* Monitoring counters are abstracted to whether they are zero: stats is   *)
(* the set of counters that are not, log the set of divergence kinds ever  *)
(* recorded, recorded the kinds the latest call recorded.  That is all     *)
(* the tools' verdict reads of them.                                       *)
(***************************************************************************)
EXTENDS SequenceTracker, L2Book

CONSTANTS Depth,                        \* levels subscribed per side, 0: all
          ChecksumDepth                 \* levels per side a checksum covers

ASSUME DepthAssumption == Depth \in Nat /\ ChecksumDepth \in Nat

VARIABLES book,                         \* book_
          tracker,                      \* tracker_
          synced,                       \* synced_
          last_ts,                      \* last_ts_, 0: unknown
          status,                       \* what the latest call returned
          stats,                        \* counters of stats_ that are not 0
          log,                          \* divergence kinds of log_
          recorded                      \* kinds the latest call recorded

feedVars == <<book, tracker, synced, last_ts, status, stats, log, recorded>>

Statuses == {"None", "Applied", "Ignored", "NeedsSnapshot", "Rejected"}

Counters == {"applied", "rejected", "resyncs_requested",
             "checksums_verified", "checksum_mismatches"}

DivergenceKinds == {"ChecksumMismatch", "SequenceGap", "PrecisionLoss",
                    "MalformedMessage", "StaleFeed", "VenueError"}

FeedTypeOK ==
  /\ book \in Books
  /\ tracker \in Trackers
  /\ synced \in BOOLEAN
  /\ last_ts \in Nat
  /\ status \in Statuses
  /\ stats \subseteq Counters
  /\ log \subseteq DivergenceKinds
  /\ recorded \subseteq DivergenceKinds

FeedInit ==
  /\ book = EmptyBook
  /\ tracker = NewTracker
  /\ synced = FALSE
  /\ last_ts = 0
  /\ status = "None"
  /\ stats = {}
  /\ log = {}
  /\ recorded = {}

-----------------------------------------------------------------------------

(* The part of every call that reports: status, counters, divergences. *)
Report(s, counters, kinds) ==
  /\ status' = s
  /\ stats' = stats \cup counters
  /\ log' = log \cup kinds
  /\ recorded' = kinds

(* A frame the decoder refused.  It says nothing of the book. *)
HandleUndecodable(kind) ==
  /\ Report("Rejected", {"rejected"}, {kind})
  /\ UNCHANGED <<book, tracker, synced, last_ts>>

(* A heartbeat, an acknowledgement, another channel. *)
HandleIgnored ==
  /\ Report("Ignored", {}, {})
  /\ UNCHANGED <<book, tracker, synced, last_ts>>

(* The venue said no. *)
HandleVenueError ==
  /\ Report("Rejected", {"rejected"}, {"VenueError"})
  /\ UNCHANGED <<book, tracker, synced, last_ts>>

(* Mutant: the checksum is never compared. *)
ChecksumMatches_Always(b, m) == TRUE

(* verify_checksum: does this book give the checksum the message carries?  *)
ChecksumMatches(b, m) ==
  m.has_checksum => ChecksumPayload(b, ChecksumDepth) = m.checksum

(* Mutant: levels that left the subscribed window stay. *)
TakeLevels_Untrimmed(b, lv) == ApplyLevels(b, lv)

(* The levels of a message applied one by one, then the trim to Depth. *)
TakeLevels(b, lv) == Trim(ApplyLevels(b, lv), Depth)

(* Apply a message's levels onto b, trim, verify, and resync on mismatch.  *)
(* t is the tracker once the message's ids have been taken in.             *)
ApplyAndVerify(b, t, m) ==
  LET result   == TakeLevels(b, m.levels)
      ok       == ChecksumMatches(result, m)
      refused  == IF RefusedLevels(m.levels) = {} THEN {}
                                                  ELSE {"MalformedMessage"}
      verified == IF m.has_checksum THEN {"checksums_verified"} ELSE {}
  IN  /\ book' = result
      /\ last_ts' = m.ts
      /\ synced' = ok
      /\ tracker' = IF ok THEN t ELSE invalidate(t)
      /\ IF ok
           THEN Report("Applied", {"applied"} \cup verified, refused)
           ELSE Report("NeedsSnapshot",
                       {"applied", "checksum_mismatches", "resyncs_requested"}
                         \cup verified,
                       refused \cup {"ChecksumMismatch"})

(* A snapshot replaces the book, whether it came in the stream (handle) or *)
(* over REST (apply_snapshot).                                             *)
apply_snapshot_message(m) ==
  ApplyAndVerify(EmptyBook,
                 IF m.has_ids THEN on_snapshot(m.ids.final_id) ELSE tracker,
                 m)

(* A REST body that did not decode is not an empty book. *)
apply_snapshot_undecodable == HandleUndecodable("MalformedMessage")

request_resync(t, kinds) ==
  /\ synced' = FALSE
  /\ tracker' = invalidate(t)
  /\ Report("NeedsSnapshot", {"resyncs_requested"}, kinds)

(* Mutant: an unnumbered or continuous update revives an unsynced book. *)
apply_update_message_Unguarded(m) == ApplyAndVerify(book, tracker, m)

(* An update: dropped while unsynced, classified if it is numbered. *)
apply_update_message(m) ==
  LET verdict == IF m.has_ids THEN Classify(tracker, m.ids) ELSE "Apply"
      t       == IF m.has_ids THEN on_update(tracker, m.ids) ELSE tracker
  IN  \/ /\ ~synced
         /\ Report("NeedsSnapshot", {}, {})
         /\ UNCHANGED <<book, tracker, synced, last_ts>>
      \/ /\ synced /\ verdict = "DiscardStale"
         /\ Report("Ignored", {}, {})
         /\ tracker' = t
         /\ UNCHANGED <<book, synced, last_ts>>
      \/ /\ synced /\ verdict = "ResyncRequired"
         /\ request_resync(t, {"SequenceGap"})
         /\ UNCHANGED <<book, last_ts>>
      \/ /\ synced /\ verdict = "Apply"
         /\ ApplyAndVerify(book, t, m)

(* Feed::invalidate, called by the owner on a reconnect or by the          *)
(* staleness check.  It returns nothing, so status stays.                  *)
Invalidate(reason) ==
  LET kinds == IF synced THEN {reason} ELSE {}
  IN  /\ synced' = FALSE
      /\ tracker' = invalidate(tracker)
      /\ stats' = stats \cup {"resyncs_requested"}
      /\ log' = log \cup kinds
      /\ recorded' = kinds
      /\ UNCHANGED <<book, last_ts, status>>

(* check_staleness returns true: too long since the latest timestamp. *)
IsStale(now, max_gap) ==
  synced /\ last_ts # 0 /\ max_gap > 0 /\ now - last_ts > max_gap

(* Mutant: the caller is told, the feed stays synchronised. *)
check_staleness_Forgetful(now, max_gap) == UNCHANGED feedVars

check_staleness(now, max_gap) ==
  \/ IsStale(now, max_gap) /\ Invalidate("StaleFeed")
  \/ ~IsStale(now, max_gap) /\ UNCHANGED feedVars

=============================================================================
