----------------------------- MODULE E2eStream -----------------------------
(***************************************************************************)
(* The data handler of e2e_stream_test.py behind the client: its parser is *)
(* fed what the reader thread hands over, in the pieces in which it does.  *)
(***************************************************************************)
EXTENDS BleAtClient

\* A stream may be cut behind any byte, and what the line carries become stream data.
ASSUME ByteAssumption ==
    {"A", "B", "+", "0", "r", "n", "IND"} \subseteq Byte

Parser == INSTANCE FrameParser

VARIABLES
    buffer,   \* FrameParser._buffer
    frames    \* the numbers of the frames it has found

handler == <<buffer, frames>>

\* on_stream_data, in the reader thread, for what was delivered in the step.  A new
\* client has a new parser.
Handle ==
    LET new    == Drop(delivered', Len(delivered))
        parsed == Parser!Feed(buffer, new)
    IN  IF pc' = "started" THEN buffer' = <<>> /\ frames' = <<>>
        ELSE IF new = <<>> THEN UNCHANGED handler
        ELSE buffer' = parsed.left /\ frames' = frames \o parsed.frames

E2eInit == Init /\ buffer = <<>> /\ frames = <<>>
E2eNext == Next /\ Handle
\* Both threads run, the firmware answers, and a program that failed is started again.
E2eSpec ==
    /\ E2eInit /\ [][E2eNext]_<<vars, handler>>
    /\ WF_vars(Firmware /\ Handle) /\ WF_vars(Reader /\ Handle)
    /\ WF_vars(Caller /\ Handle) /\ WF_vars(StartedAgain /\ Handle)

\* The frames found are those of the data as a whole: where reads cut the stream, and
\* garbage that looks like a header, neither hide a frame nor make one up.
FramesExact == frames = Parser!FramesOf[delivered]
=============================================================================
