------------------------------ MODULE Decoders ------------------------------
(***************************************************************************)
(* The three decoders (venues/kraken.hpp, binance.hpp, binance_sbe.hpp):   *)
(* from a frame of the venue to the DecodedMessage that Feed acts on.  A   *)
(* JSON frame is the record of the members a decoder looks at, each a      *)
(* Field that may be missing or unreadable; an SBE frame is its declared   *)
(* lengths, its values and the number of bytes that really came.  The      *)
(* message is one object that each call reuses: every decode operator      *)
(* takes the message the previous call left and starts by resetting it.    *)
(***************************************************************************)
EXTENDS Fixed, Sequences, SequencesExt

CONSTANTS PriceScale, QtyScale,         \* spec_
          MaxLevels,                    \* kMaxLevelsPerMessage
          Market                        \* market_: "Spot" or "Futures"

(* A member of a JSON object. *)
Absent    == [is |-> "absent"]
Bad       == [is |-> "bad"]
Good(v)   == [is |-> "good", val |-> v]

NoIds == [first_id |-> 0, final_id |-> 0, prev_id |-> 0]

FreshMessage ==
  [kind |-> "Ignored", error |-> "Ok", ts |-> 0, has_ids |-> FALSE, ids |-> NoIds,
   has_checksum |-> FALSE, checksum |-> <<>>, levels |-> <<>>]

(* Mutant: a checksum stays until the next one comes. *)
reset_KeepsChecksum(msg) ==
  [FreshMessage EXCEPT !.has_checksum = msg.has_checksum, !.checksum = msg.checksum]

reset(msg) == FreshMessage

(* Mutant: a failure after the first levels ends the reading, not the      *)
(* message.                                                                *)
fail_KeepsRead(msg, e) == IF msg.levels = <<>> THEN [msg EXCEPT !.error = e] ELSE msg

fail(msg, e) == [msg EXCEPT !.error = e, !.levels = <<>>]

(* A level is added unless an earlier step has failed: price and quantity  *)
(* exact at the instrument's scale, then both spelled canonically.         *)
TakeLevel(msg, side, price, qty) ==
  LET p == parse_fixed(price.val, PriceScale)
      q == parse_fixed(qty.val, QtyScale)
      ErrorOf(r) == IF r.error = "PrecisionLoss" THEN r.error ELSE "Malformed"
  IN  CASE msg.error # "Ok" -> msg
        [] OTHER ->
           IF Len(msg.levels) >= MaxLevels THEN fail(msg, "TooManyLevels")
           ELSE IF price.is # "good" \/ qty.is # "good" THEN fail(msg, "Malformed")
           ELSE IF p.error # "Ok" THEN fail(msg, ErrorOf(p))
           ELSE IF q.error # "Ok" THEN fail(msg, ErrorOf(q))
           ELSE IF ~ /\ is_canonical_at_scale(price.val, PriceScale, p.mantissa)
                     /\ is_canonical_at_scale(qty.val, QtyScale, q.mantissa)
             THEN fail(msg, "NonCanonical")
           ELSE [msg EXCEPT !.levels =
                   Append(@, [side |-> side, price |-> p.mantissa, qty |-> q.mantissa])]

-----------------------------------------------------------------------------
(* Kraken. *)

(* Levels are objects with a price and a qty; a side may be missing. *)
KrakenSide(msg, array, side) ==
  LET Take(m, lv) == IF lv.object THEN TakeLevel(m, side, lv.price, lv.qty)
                     ELSE IF m.error = "Ok" THEN fail(m, "Malformed") ELSE m
  IN  CASE array.is = "absent" -> msg
        [] array.is = "bad"    -> IF msg.error = "Ok" THEN fail(msg, "Malformed") ELSE msg
        [] array.is = "good"   -> FoldLeft(Take, msg, array.val)

decode_checksum(msg, checksum) ==
  CASE checksum.is = "absent" -> msg
    [] checksum.is = "bad"    -> fail(msg, "BadChecksum")
    [] checksum.is = "good"   -> [msg EXCEPT !.has_checksum = TRUE,
                                             !.checksum = checksum.val]

decode_timestamp(msg, timestamp) ==
  IF timestamp.is = "good" /\ parse_rfc3339_nanos(timestamp.val).error = "Ok"
    THEN [msg EXCEPT !.ts = parse_rfc3339_nanos(timestamp.val).mantissa]
    ELSE fail(msg, "BadTimestamp")

decode_entry(msg, e) ==
  LET m1 == decode_checksum(msg, e.checksum)
      m2 == IF m1.error = "Ok" THEN decode_timestamp(m1, e.timestamp) ELSE m1
      m3 == IF m2.error = "Ok" THEN KrakenSide(m2, e.bids, "bid") ELSE m2
  IN  IF m3.error = "Ok" THEN KrakenSide(m3, e.asks, "ask") ELSE m3

(* The entries of a frame that may be for our instrument. *)
IsOurs(e) == e.object /\ e.symbol # "foreign"

(* The first entry that is ours, or that does not say; 0 if none is. *)
SelectEntry(entries) == SelectInSeq(entries, IsOurs)

(* The walk stops at the first entry that is no object, and fails; an      *)
(* entry decoded on the way there makes no difference to that.             *)
KrakenEntries(msg, entries) ==
  LET i      == SelectEntry(entries)
      broken == \E j \in DOMAIN entries : ~entries[j].object
      m      == decode_entry(msg, entries[i])
  IN  CASE i = 0 /\ broken  -> fail(msg, "Malformed")
        [] i = 0 /\ ~broken -> [msg EXCEPT !.kind = "Ignored", !.levels = <<>>]
        [] i > 0 -> IF \E j \in 1 .. i - 1 : ~entries[j].object
                      THEN fail(msg, "Malformed")
                    ELSE IF m.error # "Ok" THEN fail(m, m.error)
                    ELSE IF broken THEN fail(m, "Malformed")
                    ELSE m

KrakenDecode(msg, f) ==
  LET fresh == reset(msg)
      typed == [fresh EXCEPT !.kind = IF f.type = "snapshot" THEN "Snapshot" ELSE "Update"]
  IN  CASE f.json = "broken" -> fail(fresh, "Malformed")
        [] f.json = "other"  -> fresh
        [] f.json = "object" ->
           IF f.error = "text" \/ f.success = "false"
             THEN [fresh EXCEPT !.kind = "VenueError"]
           ELSE IF f.channel # "book" \/ f.type \notin {"snapshot", "update"}
             THEN fresh
           ELSE IF f.data.is # "good" THEN fail(typed, "Malformed")
           ELSE KrakenEntries(typed, f.data.val)

-----------------------------------------------------------------------------
(* Binance, JSON. *)

(* Levels are arrays whose first two elements count. *)
BinanceSide(msg, array, side) ==
  LET Take(m, lv) ==
        IF lv.is = "good" /\ Len(lv.val) >= 2
          THEN TakeLevel(m, side, lv.val[1], lv.val[2])
          ELSE IF m.error = "Ok" THEN fail(m, "Malformed") ELSE m
  IN  CASE array.is = "absent" -> msg
        [] array.is = "bad"    -> IF msg.error = "Ok" THEN fail(msg, "Malformed") ELSE msg
        [] array.is = "good"   -> FoldLeft(Take, msg, array.val)

BinanceSides(msg, p) == BinanceSide(BinanceSide(msg, p.bids, "bid"), p.asks, "ask")

(* Is the symbol ours, in either case?  Other instruments are routed past. *)
equals_ignore_case(symbol) == symbol \in {"ours", "OURS"}

(* One member walk over the frame; an envelope hides the members beside it. *)
PayloadFields(f) == IF f.envelope.is = "good" THEN f.envelope.val ELSE f.fields

(* Ids, then sides.  Futures continuity needs pu as well. *)
BinanceUpdate(msg, p) ==
  LET timed == [msg EXCEPT !.kind = "Update",
                           !.ts = IF p.event_ms.is = "good" /\ p.event_ms.val <= MaxSeconds
                                    THEN p.event_ms.val ELSE 0]
      ids   == [first_id |-> p.first_id.val, final_id |-> p.final_id.val,
                prev_id |-> IF Market = "Futures" THEN p.prev_id.val ELSE 0]
  IN  IF \/ p.first_id.is # "good" \/ p.final_id.is # "good"
         \/ Market = "Futures" /\ p.prev_id.is # "good"
        THEN fail(timed, "BadSequence")
        ELSE BinanceSides([timed EXCEPT !.ids = ids, !.has_ids = TRUE], p)

BinanceDecode(msg, f) ==
  LET fresh == reset(msg)
      p     == PayloadFields(f)
  IN  CASE f.json = "broken" -> fail(fresh, "Malformed")
        [] f.json = "other"  -> fresh
        [] f.json = "object" ->
           IF p.event = "none"
             THEN [fresh EXCEPT !.kind = IF p.code = "number" /\ p.msg
                                           THEN "VenueError" ELSE "Ignored"]
           ELSE IF p.event # "depthUpdate" THEN fresh
           ELSE IF p.symbol # "none" /\ ~equals_ignore_case(p.symbol) THEN fresh
           ELSE BinanceUpdate(fresh, p)

(* A REST depth response: undated, all its ids are lastUpdateId. *)
decode_snapshot(msg, b) ==
  LET kinded == [reset(msg) EXCEPT !.kind = "Snapshot"]
      n      == b.last_update_id.val
  IN  CASE b.json = "broken" -> fail(kinded, "Malformed")
        [] b.json = "other"  -> fail(kinded, "BadSequence")
        [] b.json = "object" ->
           IF b.last_update_id.is # "good" THEN fail(kinded, "BadSequence")
           ELSE BinanceSides([kinded EXCEPT !.ids = [first_id |-> n, final_id |-> n,
                                                     prev_id |-> n],
                                            !.has_ids = TRUE], b)

-----------------------------------------------------------------------------
(* Binance, SBE.  Lengths are in bytes: a header, a root block that a newer *)
(* schema may lengthen, two groups, each with its dimensions, and a symbol *)
(* after them.                                                             *)

HeaderBytes == 8
DimensionBytes == 4
MinStride == 16
MinBlock(diff) == IF diff THEN 26 ELSE 18

GroupBytes(g) == DimensionBytes + g.stride * Len(g.levels)

peek_group(f, at, g) ==
  /\ f.size - at >= DimensionBytes
  /\ g.stride >= MinStride
  /\ f.size - at >= GroupBytes(g)

peek_symbol(f, at) == at < f.size /\ f.size - at - 1 >= f.symbol_length

(* Unlike the JSON decoders this one also withdraws the kind. *)
SbeFail(msg, e) == [fail(msg, e) EXCEPT !.kind = "Ignored"]

SbeLevel(msg, side, f, lv) ==
  LET p == rescale(lv.price, f.price_exp, PriceScale)
      q == rescale(lv.qty, f.qty_exp, QtyScale)
  IN  IF msg.error # "Ok" THEN msg
      ELSE IF lv.price < 0 \/ lv.qty < 0 THEN SbeFail(msg, "Malformed")
      ELSE IF p.error # "Ok" \/ q.error # "Ok" THEN SbeFail(msg, "PrecisionLoss")
      ELSE [msg EXCEPT !.levels =
              Append(@, [side |-> side, price |-> p.mantissa, qty |-> q.mantissa])]

decode_group(msg, f, g, side) ==
  FoldLeft(LAMBDA m, lv : SbeLevel(m, side, f, lv), msg, g.levels)

(* Everything that fixes the layout is checked before a level is read. *)
decode_depth(msg, f, diff) ==
  LET bids   == HeaderBytes + f.block_length
      asks   == bids + GroupBytes(f.bids)
      first  == IF diff THEN f.first_id ELSE f.last_id
      booked == [msg EXCEPT !.kind = IF diff THEN "Update" ELSE "Snapshot",
                            !.ts = IF f.event_us \in 1 .. MaxSeconds THEN f.event_us ELSE 0,
                            !.ids = [first_id |-> first, final_id |-> f.last_id, prev_id |-> 0],
                            !.has_ids = TRUE]
  IN  IF f.block_length < MinBlock(diff) \/ f.size < bids THEN SbeFail(msg, "Malformed")
      ELSE IF first < 0 \/ f.last_id < 0 THEN SbeFail(msg, "BadSequence")
      ELSE IF ~ /\ peek_group(f, bids, f.bids)
                /\ peek_group(f, asks, f.asks)
                /\ peek_symbol(f, asks + GroupBytes(f.asks))
        THEN SbeFail(msg, "Malformed")
      ELSE IF f.symbol # "none" /\ ~equals_ignore_case(f.symbol) THEN msg
      ELSE IF Len(f.bids.levels) + Len(f.asks.levels) > MaxLevels
        THEN SbeFail(msg, "TooManyLevels")
      ELSE decode_group(decode_group(booked, f, f.bids, "bid"), f, f.asks, "ask")

SbeDecode(msg, f) ==
  LET fresh == reset(msg)
  IN  IF f.size < HeaderBytes \/ f.schema # "ours" THEN SbeFail(fresh, "Malformed")
      ELSE IF f.template = "other" THEN fresh
      ELSE decode_depth(fresh, f, f.template = "diff")

=============================================================================
