------------------------------ MODULE AudioIO ------------------------------
(***************************************************************************)
(* transform/audio_io.cpp: the in-memory files that libsndfile reads and   *)
(* writes through callbacks.  A file is a sequence of units, of the header *)
(* or one sample each; libsndfile's own calls are modelled as far as they  *)
(* move the position (wav files, 16-bit samples).                          *)
(***************************************************************************)
EXTENDS Integers, Sequences, SequencesExt

CONSTANTS HeaderUnit,   \* a unit of a file's header
          HeaderSize    \* how many of them

ASSUME HeaderSizePositive == HeaderSize \in Nat \ {0}

Header == [i \in 1..HeaderSize |-> HeaderUnit]

(***************************************************************************)
(* The callbacks.  A context is the file and the position in it.           *)
(***************************************************************************)
Destination(ctx, offset, whence) ==
  CASE whence = "SET" -> offset
    [] whence = "CUR" -> ctx.position + offset
    [] whence = "END" -> Len(ctx.buffer) + offset

ReadSeek(ctx, offset, whence) ==
  LET to == Destination(ctx, offset, whence)
  IN  [ctx EXCEPT !.position = IF to < 0 THEN 0
                               ELSE IF to > Len(ctx.buffer) THEN Len(ctx.buffer) ELSE to]

\* What read_read copies out, and the context after it.
ReadUnits(ctx, count) == SubSeq(ctx.buffer, ctx.position + 1,
  IF ctx.position + count < Len(ctx.buffer) THEN ctx.position + count ELSE Len(ctx.buffer))
AfterRead(ctx, count) == [ctx EXCEPT !.position = @ + Len(ReadUnits(ctx, count))]

\* vector::resize with zeros; it is only ever asked for more.
Resized(buffer, size) ==
  buffer \o [i \in 1..(IF size > Len(buffer) THEN size - Len(buffer) ELSE 0) |-> {}]

WriteSeek(ctx, offset, whence) ==
  LET to == Destination(ctx, offset, whence)
  IN  [position |-> to, buffer |-> Resized(ctx.buffer, to)]

\* A write inside the file overwrites, one at its end makes it longer.
WriteUnits(ctx, units) ==
  LET grown == Resized(ctx.buffer, ctx.position + Len(units))
      there == (ctx.position + 1)..(ctx.position + Len(units))
  IN  [position |-> ctx.position + Len(units),
       buffer |-> [i \in DOMAIN grown |->
                     IF i \in there THEN units[i - ctx.position] ELSE grown[i]]]

-----------------------------------------------------------------------------
(***************************************************************************)
(* What libsndfile does with them.                                         *)
(***************************************************************************)

\* Writing, and at the end rewriting, a file's header: from wherever the position is, to
\* the start, and back unless nothing was written yet.
WithHeader(ctx) ==
  LET written == WriteUnits(WriteSeek(ctx, 0, "SET"), Header)
  IN  IF ctx.position > 0 THEN WriteSeek(written, ctx.position, "SET") ELSE written

\* Reading the header, then `announced' samples; what the file does not hold stays zero.
DecodedData(file, announced) ==
  LET start == [position |-> 0, buffer |-> file]
      behind == ReadSeek(AfterRead(start, HeaderSize), HeaderSize, "SET")
      units == ReadUnits(behind, announced)
  IN  [k \in 0..(announced - 1) |-> IF k < Len(units) THEN units[k + 1] ELSE {}]
=============================================================================
