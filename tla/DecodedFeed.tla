----------------------------- MODULE DecodedFeed -----------------------------
(***************************************************************************)
(* A feed behind its decoder, from the frame on the wire to the book, with *)
(* an owner that watches for silence (Feed::check_staleness) and, on       *)
(* Binance, fetches REST snapshots.  One of three decoders is in use.      *)
(* Frames are whatever a venue, or a venue that changed its format, may    *)
(* send: Frames(d, i) for decoder d with a good timestamp of second i.     *)
(* The local clock shows second Epoch + now.                               *)
(***************************************************************************)
EXTENDS Feed, Decoders

CONSTANTS Decoder,                      \* decoders: kraken, binance, sbe
          Frames(_, _),                 \* frames by decoder and timestamp
          RestBodies,                   \* answers to a snapshot request
          Epoch,                        \* local time just before the run
          MaxGap,                       \* max_gap_ns of the owner
          MaxClock,                     \* bound on the clock
          MaxLatency                    \* age of a message when it arrives

ASSUME DecodedAssumption ==
  /\ Decoder \subseteq {"kraken", "binance", "sbe"}
  /\ (Market = "Futures") = (Policy = "BinanceFutures")

VARIABLES decoder,                      \* the decoder this feed was built with
          message,                      \* message_, reused by every call
          latest,                       \* what the latest call was given
          now,                          \* seconds since Epoch
          arrived,                      \* time of the latest applied message
          checked                       \* has the owner checked at this time?

vars == <<feedVars, decoder, message, latest, now, arrived, checked>>

(* The feed's types, and a clock within its bound. *)
TypeOK == FeedTypeOK /\ decoder \in Decoder /\ now \in 1 .. MaxClock

Init ==
  /\ FeedInit
  /\ decoder \in Decoder
  /\ message = FreshMessage
  /\ latest = <<>>
  /\ now = 1 /\ arrived = 0 /\ checked = FALSE

-----------------------------------------------------------------------------

(* The levels of a message as Feed applies them, one by one: at each price *)
(* the last entry the book does not refuse counts.  Those it refuses, for  *)
(* a negative price or quantity, change nothing but are reported; they     *)
(* stand together under a price that no level has.                         *)
LevelMap(levels) ==
  LET KeyOf(i) == <<levels[i].side, levels[i].price>>
      refused  == {i \in DOMAIN levels : levels[i].price < 0 \/ levels[i].qty < 0}
      taken    == DOMAIN levels \ refused
      Final(k) == CHOOSE i \in taken :
                    KeyOf(i) = k /\ \A j \in taken : KeyOf(j) = k => j <= i
      marks    == {<<levels[i].side, -1>> : i \in refused}
  IN  [k \in marks \cup {KeyOf(i) : i \in taken} |->
         IF k \in marks THEN 0 ELSE levels[Final(k)].qty]

Normal(msg) == [msg EXCEPT !.levels = LevelMap(@)]

Decode(f) == CASE decoder = "kraken"  -> KrakenDecode(message, f)
               [] decoder = "binance" -> BinanceDecode(message, f)
               [] decoder = "sbe"     -> SbeDecode(message, f)

(* Feed::handle: an error is looked at before the kind. *)
handle(f) ==
  /\ message' = Decode(f)
  /\ \/ /\ message'.error \in {"PrecisionLoss", "NonCanonical"}
        /\ HandleUndecodable("PrecisionLoss")
     \/ /\ message'.error \notin {"Ok", "PrecisionLoss", "NonCanonical"}
        /\ HandleUndecodable("MalformedMessage")
     \/ /\ message'.error = "Ok" /\ message'.kind = "Ignored"
        /\ HandleIgnored
     \/ /\ message'.error = "Ok" /\ message'.kind = "VenueError"
        /\ HandleVenueError
     \/ /\ message'.error = "Ok" /\ message'.kind = "Snapshot"
        /\ apply_snapshot_message(Normal(message'))
     \/ /\ message'.error = "Ok" /\ message'.kind = "Update"
        /\ apply_update_message(Normal(message'))

(* apply_snapshot of what decode_snapshot makes of a REST answer. *)
apply_snapshot(body) ==
  /\ message' = decode_snapshot(message, body)
  /\ \/ message'.error # "Ok" /\ apply_snapshot_undecodable
     \/ message'.error = "Ok" /\ apply_snapshot_message(Normal(message'))

Arrived == arrived' = IF status' = "Applied" THEN now ELSE arrived

Arrive ==
  /\ \E i \in {i \in 1 .. now : now - i <= MaxLatency} :
       \E f \in Frames(decoder, i) :
         handle(f) /\ latest' = <<[via |-> decoder, frame |-> f]>>
  /\ Arrived
  /\ UNCHANGED <<decoder, now, checked>>

Fetch ==
  /\ decoder = "binance"
  /\ \E b \in RestBodies :
       apply_snapshot(b) /\ latest' = <<[via |-> "rest", frame |-> b]>>
  /\ Arrived
  /\ UNCHANGED <<decoder, now, checked>>

Tick ==
  /\ now < MaxClock
  /\ now' = now + 1
  /\ checked' = FALSE /\ latest' = <<>>
  /\ UNCHANGED <<feedVars, decoder, message, arrived>>

Check ==
  /\ check_staleness(Epoch + now, MaxGap)
  /\ checked' = TRUE /\ latest' = <<>>
  /\ UNCHANGED <<decoder, message, now, arrived>>

Next == Arrive \/ Fetch \/ Tick \/ Check

Spec == Init /\ [][Next]_vars

-----------------------------------------------------------------------------
(* What a frame says, read off the frame and not off the decoder. *)

Via == latest[1].via
Frame == latest[1].frame

(* The part of the latest frame that is about a book: the first entry not  *)
(* about another instrument, the payload inside an envelope, or the frame. *)
Body ==
  IF Via = "kraken"
    THEN LET es == Frame.data.val
         IN  es[CHOOSE i \in DOMAIN es :
                  /\ es[i].symbol # "foreign"
                  /\ \A j \in 1 .. i - 1 : es[j].symbol = "foreign"]
  ELSE IF Via = "binance" THEN PayloadFields(Frame)
  ELSE Frame

ListOf(array) == IF array.is = "good" THEN array.val ELSE <<>>

(* The levels of one side as pairs of tokens. *)
TokensOf(array, side) ==
  CASE Via = "kraken" ->
         [i \in DOMAIN ListOf(array) |->
            <<side, ListOf(array)[i].price.val, ListOf(array)[i].qty.val>>]
    [] Via \in {"binance", "rest"} ->
         [i \in DOMAIN ListOf(array) |->
            <<side, ListOf(array)[i].val[1].val, ListOf(array)[i].val[2].val>>]
    [] Via = "sbe" ->
         [i \in DOMAIN array.levels |->
            <<side, Token("none", array.levels[i].price, 0, Frame.price_exp, TRUE),
                    Token("none", array.levels[i].qty, 0, Frame.qty_exp, TRUE)>>]

Wire == TokensOf(Body.bids, "bid") \o TokensOf(Body.asks, "ask")

(* Does mantissa m at this scale have exactly the value of token t? *)
SameValue(t, scale, m) ==
  LET signed == IF t.sign = "minus" THEN -t.digits ELSE t.digits
      Pow(n) == IF n > 0 THEN kPow10[n] ELSE 1
  IN  m * kPow10[t.frac] * Pow(-t.exponent) = signed * kPow10[scale] * Pow(t.exponent)

Accepted == latest # <<>> /\ message.error = "Ok" /\ message.kind \in {"Snapshot", "Update"}

(* What a decoder accepts is the frame, level for level, in order and with *)
(* the exact values; and on the text venues each mantissa has the digits   *)
(* the venue spelled, which is what its checksum is computed from.         *)
DecodedExact ==
  Accepted =>
    /\ Len(message.levels) = Len(Wire)
    /\ \A i \in DOMAIN Wire :
         LET lv == message.levels[i]
         IN  /\ lv.side = Wire[i][1]
             /\ SameValue(Wire[i][2], PriceScale, lv.price)
             /\ SameValue(Wire[i][3], QtyScale, lv.qty)
             /\ Via # "sbe" => /\ lv.price \in {Wire[i][2].digits, -Wire[i][2].digits}
                               /\ lv.qty \in {Wire[i][3].digits, -Wire[i][3].digits}

(* What a decoder accepts is about our instrument and all of it has come,  *)
(* and ids and checksum are this frame's own: none is left over from the   *)
(* message before, and none is made up.                                    *)
DecodedOwn ==
  Accepted =>
    /\ Via # "rest" => Body.symbol # "foreign"
    /\ Via = "sbe" => Frame.size >= HeaderBytes + Frame.block_length + GroupBytes(Frame.bids)
                                    + GroupBytes(Frame.asks) + 1 + Frame.symbol_length
    /\ message.has_ids = (Via # "kraken")
    /\ message.has_checksum = (Via = "kraken" /\ Body.checksum.is # "absent")
    /\ message.has_checksum => message.checksum = Body.checksum.val
    /\ message.has_ids =>
         message.ids.final_id = CASE Via = "binance" -> Body.final_id.val
                                  [] Via = "sbe"     -> Body.last_id
                                  [] Via = "rest"    -> Body.last_update_id.val

Entries(array) == IF Via = "sbe" THEN array.levels ELSE ListOf(array)

(* Is this field a number, spelled the one way the scale allows? *)
Spelled(field, scale) ==
  /\ field.is = "good"
  /\ field.val.plain /\ field.val.frac = scale /\ field.val.exponent = 0
  /\ field.val.digits \in 0 .. MaxMantissa
  /\ field.val.sign = "minus" => field.val.digits > 0

(* Is this binary mantissa a whole number of units, and not too many? *)
Exact(n, exponent, scale) ==
  \E m \in 0 .. MaxMantissa : SameValue(Token("none", n, 0, exponent, TRUE), scale, m)

ReadableLevel(lv) ==
  CASE Via = "kraken" -> /\ lv.object
                         /\ Spelled(lv.price, PriceScale) /\ Spelled(lv.qty, QtyScale)
    [] Via \in {"binance", "rest"} ->
         /\ lv.is = "good" /\ Len(lv.val) >= 2
         /\ Spelled(lv.val[1], PriceScale) /\ Spelled(lv.val[2], QtyScale)
    [] Via = "sbe" -> /\ lv.price >= 0 /\ lv.qty >= 0
                      /\ Exact(lv.price, Frame.price_exp, PriceScale)
                      /\ Exact(lv.qty, Frame.qty_exp, QtyScale)

(* A side that is not there has no levels; one that is must be all there. *)
ReadableSide(array) ==
  /\ Via # "sbe" => array.is # "bad"
  /\ \A i \in DOMAIN Entries(array) : ReadableLevel(Entries(array)[i])

(* A time of day in UTC after 1970; no calendar is consulted. *)
ReadableTime(field) ==
  /\ field.is = "good"
  /\ LET c == field.val
     IN  /\ c.shape /\ c.zone = "Z" /\ c.fraction # "empty"
         /\ c.month \in 1 .. 12 /\ c.day \in 1 .. 31
         /\ c.hour \in 0 .. 23 /\ c.minute \in 0 .. 59 /\ c.second \in 0 .. 60
         /\ c.year \in 1970 .. 1970 + MaxSeconds \div (365 * 86400)

(* What decides where a message belongs: on Kraken its time and checksum,  *)
(* elsewhere its ids.                                                      *)
ReadablePlace ==
  CASE Via = "kraken"  -> Body.checksum.is # "bad" /\ ReadableTime(Body.timestamp)
    [] Via = "binance" -> /\ Body.first_id.is = "good" /\ Body.final_id.is = "good"
                          /\ Market = "Futures" => Body.prev_id.is = "good"
    [] Via = "rest"    -> Body.last_update_id.is = "good"
    [] Via = "sbe"     -> Body.last_id >= 0 /\ (Body.template = "diff" => Body.first_id >= 0)

(* The layout: an object on the text venues, with none but objects among   *)
(* Kraken's entries; on SBE our schema, with room for the fields we know.  *)
ReadableFrame ==
  CASE Via = "kraken" -> /\ Frame.json = "object" /\ Frame.data.is = "good"
                         /\ \A i \in DOMAIN Frame.data.val : Frame.data.val[i].object
    [] Via \in {"binance", "rest"} -> Frame.json = "object"
    [] Via = "sbe" -> /\ Frame.schema = "ours"
                      /\ Frame.block_length >= IF Frame.template = "diff" THEN 26 ELSE 18
                      /\ Frame.bids.stride >= 16 /\ Frame.asks.stride >= 16

(* Is something wrong with the part of the frame that concerns us?  Its    *)
(* layout, its time, checksum or ids, or a level is not legible, a level   *)
(* does not fit the scale, or there are too many of them.                  *)
Spoiled ==
  \/ ~ReadableFrame
  \/ ~ReadablePlace
  \/ ~ReadableSide(Body.bids) \/ ~ReadableSide(Body.asks)
  \/ Len(Entries(Body.bids)) + Len(Entries(Body.asks)) > MaxLevels

(* All or nothing: a frame with one unreadable part, be it the last level, *)
(* leaves book, sync, tracker and time as they were, whatever was read     *)
(* before that part.                                                       *)
SpoiledNeverApplied ==
  [][latest' # <<>> /\ <<book, tracker, synced, last_ts>>' # <<book, tracker, synced, last_ts>>
       => ~Spoiled']_vars

(* The types hold, and once the owner has checked, a feed that is synced    *)
(* has heard from the venue within MaxGap; the one exception is a Binance  *)
(* feed whose latest message carried no readable time.                     *)
SilenceNoticed ==
  /\ TypeOK
  /\ checked /\ synced => \/ now - arrived <= MaxGap
                          \/ decoder # "kraken" /\ last_ts = 0

(* "ts stays 0, which staleness detection already treats as unusable       *)
(* rather than immortally fresh": once the owner has checked, no feed that *)
(* has been silent for longer than MaxGap is still served.                 *)
SilentFeedNotServed == checked /\ synced => now - arrived <= MaxGap

(* A feed is declared stale only if it was silent: a message younger than  *)
(* MaxGap, counting its latency, never costs the book, also over the end   *)
(* of a month.                                                             *)
StaleOnlyIfSilent ==
  [][recorded' = {"StaleFeed"} /\ synced
       => now - arrived > MaxGap - MaxLatency]_vars

=============================================================================
