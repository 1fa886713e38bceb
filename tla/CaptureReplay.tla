--------------------------- MODULE CaptureReplay ---------------------------
(***************************************************************************)
(* The verifier records what it verifies and verifies what was recorded    *)
(* (tools/crossbook_verify.cpp with capture.hpp and replay.hpp).  First    *)
(* the live tool of KrakenLive, which writes every frame to the capture    *)
(* before it handles it and may be killed with any prefix of the file on   *)
(* disk.  Then a new process loads the file, reads the subscribed depth    *)
(* off it, and feeds it to a feed of its own: at once (--replay), paced    *)
(* (--speed) or at every rate of a ladder (--sweep).                       *)
(*                                                                         *)
(* The variables of Feed belong to the process that runs.  Scales are      *)
(* abstracted: damage spares the spelling of prices and quantities.        *)
(***************************************************************************)
EXTENDS KrakenLive, Capture, OpenLoop

CONSTANTS Arrival,                      \* arrival times of the frames
          MaxRecords,                   \* bound: frames recorded
          WarmupShare                   \* one event in so many is warm-up: 20

ASSUME CaptureReplayAssumption ==
  /\ MaxRecords \in Nat /\ Arrival \in [1 .. MaxRecords -> Nat]
  /\ WarmupShare \in Nat \ {0}

VARIABLES phase,                        \* "live", "loaded", a mode, "done"
          written,                      \* the frames recorded, each with what
                                        \* the live tool made of it
          cut,                          \* bytes of the file that are on disk
          loaded,                       \* what parse made of them
          depth,                        \* the depth read off the capture
          handled                       \* frames handled, as places in written

fileVars == <<phase, written, cut, loaded, depth, handled>>
allVars  == <<vars, paceVars, fileVars>>

Modes == {"plain", "paced", "sweep"}

CaptureInit ==
  /\ Init
  /\ PaceInit
  /\ phase = "live"
  /\ written = <<>> /\ cut = 0 /\ loaded = Refused
  /\ depth = 0 /\ handled = <<>>

-----------------------------------------------------------------------------
(* The live tool, recording. *)

(* Mutant: recording starts once there is a feed. *)
Recorded_OnceFed(m, damage) ==
  /\ Len(written) < MaxRecords
  /\ written' = IF have_feed
                  THEN Append(written, [m |-> m, damage |-> damage, book |-> book',
                                        synced |-> synced', stats |-> stats',
                                        verdict |-> Verdict'])
                  ELSE written
  /\ UNCHANGED <<paceVars, phase, cut, loaded, depth, handled>>

(* The frame is recorded, and what the tool made of it noted.  damage is   *)
(* "none", "levels" for a frame that does not decode although its levels   *)
(* can be read, or "empty" for an empty message.                           *)
Recorded(m, damage) ==
  /\ Len(written) < MaxRecords
  /\ written' = Append(written, [m |-> m, damage |-> damage, book |-> book',
                                 synced |-> synced', stats |-> stats',
                                 verdict |-> Verdict'])
  /\ UNCHANGED <<paceVars, phase, cut, loaded, depth, handled>>

RecordFrame == Poll /\ Recorded(Head(frames), "none")

RecordDamaged ==
  /\ PollDamaged
  /\ \/ Recorded(Head(frames), "levels")
     \/ have_feed' = have_feed /\ Recorded(Head(frames), "empty")

(* Not a book frame; without a feed it is passed over. *)
RecordOther(kind) ==
  /\ running
  /\ \/ ~have_feed /\ UNCHANGED feedVars
     \/ have_feed /\ kind = "ack" /\ HandleIgnored
     \/ have_feed /\ kind = "error" /\ HandleVenueError
  /\ UNCHANGED <<venueVars, frames, requests, toolVars, damaged, truth>>
  /\ Recorded([kind |-> kind], "none")

LiveVenue ==
  /\ VenueTakesRequest \/ \E w \in VenueBooks : VenueMoves(w)
  /\ UNCHANGED <<paceVars, fileVars>>

-----------------------------------------------------------------------------
(* The file.  The bytes of frame i say which frame it is; a snapshot has a *)
(* newline among them.                                                     *)

Payload(i) ==
  CASE written[i].damage = "empty"      -> <<>>
    [] written[i].m.kind = "snapshot"   -> <<Byte("frame", i), Newline>>
    [] written[i].m.kind = "update"     -> <<Byte("frame", i), Byte("frame", i)>>
    [] OTHER                            -> <<Byte("frame", i)>>

File ==
  FoldLeft(LAMBDA bytes, i : bytes \o write(Arrival[i], Payload(i)), open,
           [i \in DOMAIN written |-> i])

(* The frame a loaded record is, for the i-th of the loaded frames. *)
LoadedFrame(i) ==
  LET p == loaded.frames[i].payload
  IN  IF p = <<>> THEN [damage |-> "empty"] ELSE written[p[1].value]

(* The most levels on a side of a frame. *)
LevelsPerSide(m) ==
  Max({Cardinality({k \in DOMAIN m.levels : k[1] = s}) : s \in Sides})

(* infer_scales answers for a frame whose levels can be read and that has  *)
(* some.                                                                   *)
infer_scales(f) ==
  /\ f.damage # "empty" /\ f.m.kind \in FrameKinds
  /\ LevelsPerSide(f.m) > 0

Inferring == {i \in DOMAIN loaded.frames : infer_scales(LoadedFrame(i))}

(* The recorder has ended or was killed, with c bytes of its file on disk. *)
Load ==
  /\ phase = "live"
  /\ phase' = "loaded" /\ running' = FALSE
  /\ LET file == File
     IN  /\ cut' \in 0 .. Len(file)
         /\ loaded' = parse(SubSeq(file, 1, cut'))
  /\ venue' = truth /\ subscribed' = FALSE
  /\ frames' = <<>> /\ requests' = <<>>
  /\ UNCHANGED <<feedVars, have_feed, exit, damaged, truth, paceVars, written,
                 depth, handled>>

(* The new process has a new feed. *)
NewFeed ==
  /\ book' = EmptyBook /\ tracker' = NewTracker /\ synced' = FALSE
  /\ last_ts' = 0 /\ status' = "None"
  /\ stats' = {} /\ log' = {} /\ recorded' = {}
  /\ have_feed' = TRUE /\ damaged' = 0

Warmup == Min({Len(loaded.frames) \div WarmupShare, 500})

(* run_replay: a capture that does not load, is empty or has no levels is  *)
(* an error; the first frame that has some tells the depth.                *)
run_replay(mode) ==
  /\ phase = "loaded"
  /\ NewFeed
  /\ cut' = 0
  /\ LET ev == loaded.frames
     IN  \/ /\ Inferring = {}
            /\ phase' = "done" /\ exit' = "error"
            /\ UNCHANGED <<depth, paceVars>>
         \/ /\ Inferring # {}
            /\ phase' = mode
            /\ depth' = LevelsPerSide(LoadedFrame(Min(Inferring)).m)
            /\ \/ mode = "sweep" /\ CanSweep(ev) /\ StartRung(ev, 1, Warmup)
               \/ mode = "paced" /\ StartRun(ev, 1, 0)
               \/ /\ mode = "plain" \/ (mode = "sweep" /\ ~CanSweep(ev))
                  /\ UNCHANGED <<clock, run, meter, completions>>
            /\ UNCHANGED <<exit, points>>
  /\ UNCHANGED <<venueVars, frames, requests, running, truth, written, loaded, handled>>

(* The replaying feed keeps d levels per side. *)
Replaying(d) == INSTANCE Feed WITH Depth <- d

(* Feed::handle on a loaded frame. *)
Handle(f) ==
  \E d \in 1 .. Cardinality(Price) :
    /\ d = depth
    /\ \/ f.damage # "none" /\ HandleUndecodable("MalformedMessage")
       \/ /\ f.damage = "none"
          /\ \/ f.m.kind = "snapshot" /\ Replaying(d)!apply_snapshot_message(f.m)
             \/ f.m.kind = "update" /\ Replaying(d)!apply_update_message(f.m)
             \/ f.m.kind = "ack" /\ HandleIgnored
             \/ f.m.kind = "error" /\ HandleVenueError

(* The place in the capture of the k-th event of a run. *)
Place(k) == ((k - 1) % Len(loaded.frames)) + 1

HandleNext(i) ==
  /\ Handle(LoadedFrame(i))
  /\ handled' = Append(handled, i)
  /\ UNCHANGED <<venueVars, frames, requests, toolVars, damaged, truth,
                 phase, written, cut, loaded, depth>>

ReplayPlain ==
  /\ phase = "plain"
  /\ Len(handled) < Len(loaded.frames)
  /\ HandleNext(Len(handled) + 1)
  /\ UNCHANGED paceVars

ReplayPaced ==
  /\ phase \in {"paced", "sweep"}
  /\ ServeEvent
  /\ HandleNext(Place(run.at + 1))

NextRung ==
  /\ phase = "sweep" /\ run # NoRun
  /\ EndRung(loaded.frames, Warmup)
  /\ UNCHANGED <<vars, fileVars>>

(* run_replay_with returns what verdict says of the feed. *)
ReplayEnds ==
  /\ \/ phase = "plain" /\ Len(handled) = Len(loaded.frames)
     \/ phase = "paced" /\ RunIsOver
     \/ phase = "sweep" /\ run = NoRun
  /\ phase' = "done"
  /\ exit' = Verdict
  /\ UNCHANGED <<feedVars, venueVars, frames, requests, have_feed, running,
                 damaged, truth, paceVars, written, cut, loaded, depth, handled>>

Ended == phase = "done" /\ UNCHANGED allVars

CaptureNext ==
  \/ RecordFrame
  \/ RecordDamaged
  \/ \E kind \in {"ack", "error"} : RecordOther(kind)
  \/ LiveVenue
  \/ Load
  \/ \E mode \in Modes : run_replay(mode)
  \/ ReplayPlain
  \/ ReplayPaced
  \/ NextRung
  \/ ReplayEnds
  \/ Ended

CaptureSpec == CaptureInit /\ [][CaptureNext]_allVars

-----------------------------------------------------------------------------

(* Bytes of the file up to the end of frame i, its newline included. *)
BytesThrough(i) ==
  Len(open) + MapThenSumSet(LAMBDA j : Len(write(Arrival[j], Payload(j))), 1 .. i)

(* Wherever the recorder was cut off, the capture loads as exactly the     *)
(* frames whose bytes had reached the disk, in order, byte for byte and    *)
(* with their arrival times; only a file without a whole header line is    *)
(* refused.                                                                *)
LoadedExact ==
  phase = "loaded" =>
    LET whole == {i \in DOMAIN written : BytesThrough(i) - 1 <= cut}
    IN  IF cut < Len(open) THEN ~loaded.ok
        ELSE loaded = [ok     |-> TRUE,
                       frames |-> [i \in 1 .. Cardinality(whole) |->
                                     [ts |-> Arrival[i], payload |-> Payload(i)]]]

Snapshots == {i \in DOMAIN written :
                written[i].m.kind = "snapshot" /\ written[i].damage = "none"}

(* A replay that found the subscribed depth stands, after each frame,      *)
(* where the live feed stood after it, book and sync, and has counted the  *)
(* same but for refusals.  A sweep, which feeds one feed the capture over  *)
(* and over and breaks off anywhere, is back in step from the first        *)
(* snapshot of each copy on.                                               *)
ReplayAgrees ==
  depth = Depth /\ handled # <<>> =>
    LET i == Last(handled)
    IN  /\ IsInjective(handled) \/ (\E s \in Snapshots : s <= i) =>
             book = written[i].book /\ synced = written[i].synced
        /\ IsInjective(handled) =>
             stats \ {"rejected"} = written[i].stats \ {"rejected"}

(* The tool's promise: "The same binary replays a capture file offline and *)
(* must produce the same answer, byte for byte".  A whole recording,       *)
(* replayed at once to its end, exits successfully if and only if the live *)
(* tool would have, stopped at that point.                                 *)
ReplaySameAnswer ==
  phase = "done" /\ handled # <<>> /\ handled = [i \in DOMAIN written |-> i] =>
    (exit = "pass") = (written[Len(written)].verdict = "pass")

(* A replay or a sweep that exits successfully, whatever depth it took for *)
(* the subscribed one, has handled frames that the live tool verified too, *)
(* none of them damaged or an error, and its book agrees with the venue on *)
(* the levels the checksum covers.                                         *)
ReplayPassIsEarned ==
  phase = "done" /\ exit = "pass" =>
    LET reached == Max(ToSet(handled))
        books   == SelectSeq(handled, LAMBDA i : written[i].m.kind \in FrameKinds)
    IN  /\ synced
        /\ written[reached].verdict = "pass"
        /\ \A i \in 1 .. reached :
             written[i].damage = "none" /\ written[i].m.kind # "error"
        /\ Trim(book, ChecksumDepth) = Trim(written[Last(books)].m.full, ChecksumDepth)

=============================================================================
