------------------------------ MODULE Capture ------------------------------
(***************************************************************************)
(* The capture file (capture.hpp): a header line, then for each frame a    *)
(* line with its arrival time and length, its bytes as they came, and a    *)
(* newline.  A file is a sequence of bytes.  A word or a number counts as  *)
(* one byte: cut short it has no newline after it, and that is all the     *)
(* reader asks.                                                            *)
(***************************************************************************)
EXTENDS Integers, Sequences, SequencesExt

Byte(type, value) == [type |-> type, value |-> value]
Newline   == Byte("newline", 0)
Space     == Byte("space", 0)
Number(n) == Byte("number", n)
Magic     == Byte("magic", 0)
Word      == Byte("word", 0)            \* a venue or a symbol

-----------------------------------------------------------------------------
(* CaptureWriter. *)

open == <<Magic, Space, Word, Space, Word, Space, Number(0), Newline>>

write(ts, payload) ==
  <<Number(ts), Space, Number(Len(payload)), Newline>> \o payload \o <<Newline>>

-----------------------------------------------------------------------------
(* Capture. *)

(* The first b of text at or after from, 0 when there is none. *)
find(text, b, from) == SelectInSubSeq(text, from, Len(text), LAMBDA c : c = b)

(* -1 for anything but a number. *)
parse_i64(field) ==
  IF Len(field) = 1 /\ field[1].type = "number" THEN field[1].value ELSE -1

HeaderReads(line) ==
  /\ IsPrefix(<<Magic, Space>>, line)
  /\ Len(line) >= 5
  /\ line[3] = Word /\ line[4] = Space /\ line[5] = Word

Refused == [ok |-> FALSE, frames |-> <<>>]

(* Mutant: a frame needs the newline after it to count as complete. *)
Truncated_WithNewline(text, eol, len) == eol + len >= Len(text)

(* The frame's bytes are not all there. *)
Truncated(text, eol, len) == eol + len > Len(text)

(* The records from pos on, after the frames read so far. *)
RECURSIVE Records(_, _, _)
Records(text, pos, frames) ==
  LET eol   == find(text, Newline, pos)
      line  == SubSeq(text, pos, eol - 1)
      space == find(line, Space, 1)
      ts    == parse_i64(SubSeq(line, 1, space - 1))
      len   == parse_i64(SubSeq(line, space + 1, Len(line)))
      frame == [ts |-> ts, payload |-> SubSeq(text, eol + 1, eol + len)]
  IN  CASE pos > Len(text) \/ eol = 0 -> [ok |-> TRUE, frames |-> frames]
        [] space = 0 \/ len < 0       -> Refused
        [] Truncated(text, eol, len)  -> [ok |-> TRUE, frames |-> frames]
        [] OTHER -> Records(text, eol + len + 2, Append(frames, frame))

parse(text) ==
  LET eol == find(text, Newline, 1)
  IN  IF eol = 0 \/ ~HeaderReads(SubSeq(text, 1, eol - 1)) THEN Refused
      ELSE Records(text, eol + 1, <<>>)

=============================================================================
