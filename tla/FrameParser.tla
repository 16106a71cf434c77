---------------------------- MODULE FrameParser ----------------------------
(***************************************************************************)
(* FrameParser of e2e_stream_test.py: frames found in a stream that comes  *)
(* in chunks of any size, with a resynchronisation on garbage, and a       *)
(* reference that scans the whole stream at once.                          *)
(*                                                                         *)
(* The real frame is a header (BATH, sequence number, time stamp, length)  *)
(* and bytes that repeat the sequence number.  Here it is a magic of two   *)
(* bytes, a number and one such byte: the rest of the header has no part   *)
(* in the search.                                                          *)
(***************************************************************************)
EXTENDS Integers, Sequences

CONSTANT Byte

Magic      == <<"B", "A">>
HeaderSize == 3
FrameSize  == 4

Drop(s, k) == SubSeq(s, k + 1, Len(s))

\* _validate_frame of the FrameSize bytes from position i on.
ValidAt(s, i) ==
    /\ SubSeq(s, i, i + 1) = Magic
    /\ s[i + 3] = s[i + 2]

\* bytearray.find(FRAME_MAGIC): the first position, or 0.
Find(s) ==
    LET at == {i \in 1..(Len(s) - 1) : SubSeq(s, i, i + 1) = Magic}
    IN  IF at = {} THEN 0 ELSE CHOOSE i \in at : \A j \in at : i <= j

\* Without a magic only its own beginning may be left, at the end.
KeepMagicStart(s) == Drop(s, Len(s) - (Len(Magic) - 1))

\* Slip: the search goes on behind the whole of an invalid candidate.
SkipFrame(s) == Drop(s, FrameSize)

\* An invalid candidate loses its first byte only.
SkipByte(s) == Drop(s, 1)

\* The loop of feed: what is left of a buffer, and the numbers of the frames found.
Parse[buffer \in Seq(Byte)] ==
    LET start == Find(buffer)
        rest  == Drop(buffer, start - 1)
        after == Parse[Drop(rest, FrameSize)]
    IN  IF Len(buffer) < HeaderSize THEN [left |-> buffer, frames |-> <<>>]
        ELSE IF start = 0 THEN [left |-> KeepMagicStart(buffer), frames |-> <<>>]
        ELSE IF Len(rest) < FrameSize THEN [left |-> rest, frames |-> <<>>]
        ELSE IF ~ValidAt(rest, 1) THEN Parse[SkipByte(rest)]
        ELSE [left |-> after.left, frames |-> <<rest[3]>> \o after.frames]

Feed(buffer, chunk) == Parse[buffer \o chunk]

\* The reference: the frames of a whole stream, read from left to right; a frame
\* starts wherever a valid one lies outside those before it.
FramesOf[stream \in Seq(Byte)] ==
    IF Len(stream) < FrameSize THEN <<>>
    ELSE IF ValidAt(stream, 1)
         THEN <<stream[3]>> \o FramesOf[Drop(stream, FrameSize)]
         ELSE FramesOf[Drop(stream, 1)]
=============================================================================
