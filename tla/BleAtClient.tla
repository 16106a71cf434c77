---------------------------- MODULE BleAtClient ----------------------------
(***************************************************************************)
(* The Python client (ble_at.py) and the serial line: its reader thread,   *)
(* which hands over what it reads as lines or as stream data, its caller,  *)
(* which changes the mode and recovers it, and a firmware that answers.    *)
(*                                                                         *)
(* The line carries symbols.  A text line is one symbol and the two line   *)
(* endings, but the exit line +IND=DATAMODE,0 has two, so that it can be   *)
(* cut; a byte of the peer's stream may be one of these.  What the reader  *)
(* and the caller do between two calls that block or that the other thread *)
(* can observe is one action.                                              *)
(***************************************************************************)
EXTENDS Integers, Sequences

CONSTANTS
    Byte,          \* what a stream is made of
    PeerStreams,   \* what the peer may notify, one byte after the other
    MaxSessions,   \* bound: sessions of data mode
    MaxFaults      \* bound: links lost, escapes missed, clients killed, indications
                   \* that come unasked

OkLine  == <<"OK", "r", "n">>
ErrLine == <<"ERR", "r", "n">>
IndLine == <<"IND", "r", "n">>            \* any other indication
Entered == <<"D1", "r", "n">>             \* +IND=DATAMODE,1
Exited  == <<"+", "0", "r", "n">>         \* _EXIT_EVENT

\* A line of the protocol in the stream is taken for one of the firmware's, since both
\* come in band: a stream holds no answer, and beginnings of the exit line but not the
\* line, however it ends.
ASSUME StreamAssumption ==
    /\ PeerStreams # {} /\ PeerStreams \subseteq Seq(Byte)
    /\ \A s \in PeerStreams :
          /\ \A i \in 1..Len(s) : s[i] \notin {"OK", "ERR", "D1"}
          /\ \A i \in 1..(Len(s) - 2) :
                ~(s[i] = "+" /\ s[i + 1] = "0" /\ s[i + 2] \in {"r", "n"})
ASSUME BoundAssumption == MaxSessions \in Nat /\ MaxFaults \in Nat

VARIABLES
    \* The firmware and the line.
    in_data,       \* it is in data mode
    half_line,     \* its line buffer holds `+++`
    peer,          \* what the peer has still to notify
    request,       \* what the caller has written and the firmware not yet read
    input,         \* bytes on their way to the reader
    \* The reader thread.
    reading,       \* what its read was called for: "control" or "data"; or what it
                   \* does with what it read: "handle", "rest"; or "no" read
    chunk,         \* what it read
    line_buffer,   \* _line_buffer
    exit_buffer,   \* exit_buffer
    \* Shared by the two threads.
    data_mode,     \* _data_mode
    exit_pending,  \* _exit_pending
    lines,         \* _line_queue
    \* The caller.
    pc,            \* where it is
    recovering     \* "first", "last": which sync of recover_control_mode; else "no"

\* Bounds and history.
VARIABLES
    sessions, faults,
    delivered,     \* the data handed over by this client
    mark,          \* how much of that before the session
    heard,         \* what the firmware has sent since the CR of +IND=DATAMODE,1
    missed,        \* how much of it was read before _data_mode was set
    exited         \* the reader has seen the exit line

firmware == <<in_data, half_line, peer, request, input>>
reader   == <<reading, chunk, line_buffer, exit_buffer>>
flags    == <<data_mode, exit_pending>>
caller   == <<pc, recovering>>
bounds   == <<sessions, faults>>
history  == <<delivered, mark, heard, missed, exited>>
vars     == <<firmware, reader, flags, lines, caller, bounds, history>>

Drop(s, k)      == SubSeq(s, k + 1, Len(s))
Take(s, k)      == SubSeq(s, 1, k)
IsPrefix(s, t)  == Len(s) <= Len(t) /\ Take(t, Len(s)) = s

Init ==
    /\ in_data = FALSE /\ half_line = FALSE /\ request = "none" /\ input = <<>>
    /\ peer \in PeerStreams
    /\ reading = "no" /\ chunk = <<>> /\ line_buffer = <<>> /\ exit_buffer = <<>>
    /\ data_mode = FALSE /\ exit_pending = FALSE /\ lines = <<>>
    /\ pc = "started" /\ recovering = "no"
    /\ sessions = 0 /\ faults = 0
    /\ delivered = <<>> /\ mark = 0 /\ heard = <<>> /\ missed = 0 /\ exited = FALSE

----------------------------------------------------------------------------
\* The firmware, as DataPlane, UartTx and AtHost have it.

\* What it sends belongs to the session until the reader has seen the exit line.
Say(text) ==
    /\ input' = input \o text
    /\ heard' = IF heard # <<>> /\ ~exited THEN heard \o text ELSE heard
    /\ UNCHANGED <<delivered, mark, missed, exited>>

ClientIdle == UNCHANGED <<reader, flags, lines, caller>>

\* AT, or what is left of an escape and AT; in data mode it is payload for the peer.
AnswerAt ==
    /\ request = "AT" /\ request' = "none"
    /\ Say(IF in_data THEN <<>> ELSE IF half_line THEN ErrLine ELSE OkLine)
    /\ half_line' = (half_line /\ in_data)
    /\ UNCHANGED <<in_data, peer, bounds>> /\ ClientIdle

\* AT+ENTERDATAMODE, on a connection that is ready.
AnswerEnter ==
    /\ request = "ENTER" /\ request' = "none"
    /\ IF half_line
       THEN in_data' = FALSE /\ Say(ErrLine)
       ELSE /\ in_data' = TRUE
            /\ input' = input \o OkLine \o Entered
            /\ heard' = <<"n">>
            /\ UNCHANGED <<delivered, mark, missed, exited>>
    /\ half_line' = FALSE
    /\ UNCHANGED <<peer, bounds>> /\ ClientIdle

\* `+++` leaves data mode; in control mode it waits for a line ending.
AnswerEscape ==
    /\ request = "+++" /\ request' = "none"
    /\ in_data' = FALSE
    /\ half_line' = (half_line \/ ~in_data)
    /\ Say(IF in_data THEN Exited ELSE <<>>)
    /\ UNCHANGED <<peer, bounds>> /\ ClientIdle

Fault ==
    /\ faults < MaxFaults
    /\ faults' = faults + 1
    /\ UNCHANGED sessions

\* Its receive path was behind, and the bytes before the escape came without a gap.
EscapeMissed ==
    /\ request = "+++" /\ request' = "none"
    /\ in_data
    /\ Fault
    /\ UNCHANGED <<in_data, half_line, peer, input, history>> /\ ClientIdle

\* The link is lost: data mode ends with an indication, but without the exit line.
LinkLost ==
    /\ in_data /\ in_data' = FALSE
    /\ Fault
    /\ Say(IndLine)
    /\ UNCHANGED <<half_line, peer, request>> /\ ClientIdle

\* The peer notifies a byte of its stream; in control mode, something becomes a line.
Notify ==
    /\ in_data /\ peer # <<>>
    /\ peer' = Tail(peer)
    /\ Say(<<Head(peer)>>)
    /\ UNCHANGED <<in_data, half_line, request, bounds>> /\ ClientIdle

\* (An error line that answers nothing is left out: it takes a procedure of the link that
\* is still under way, and connect() is over.)
Indicate ==
    /\ ~in_data
    /\ Fault
    /\ Say(IndLine)
    /\ UNCHANGED <<in_data, half_line, peer, request>> /\ ClientIdle

----------------------------------------------------------------------------
\* The reader.
Others == UNCHANGED <<in_data, half_line, peer, request, caller, bounds>>

\* The top of _reader_loop: the flag decides what read is called for.
ReadBegins ==
    /\ reading = "no"
    /\ reading' = IF data_mode THEN "data" ELSE "control"
    /\ UNCHANGED <<input, chunk, line_buffer, exit_buffer, flags, lines, history>>
    /\ Others

ReadTimesOut ==
    /\ reading \in {"control", "data"} /\ input = <<>>
    /\ reading' = "no"
    /\ UNCHANGED <<input, chunk, line_buffer, exit_buffer, flags, lines, history>>
    /\ Others

LineOf(text) ==
    CASE text = <<"OK">>     -> "OK"
      [] text = <<"ERR">>    -> "ERR"
      [] text = <<"D1">>     -> "D1"
      [] text = <<"+", "0">> -> "D0"
      [] OTHER               -> "other"

\* _process_control_bytes, for one byte.
AsControl(byte) ==
    IF byte \in {"r", "n"}
    THEN /\ lines' = IF line_buffer = <<>> THEN lines ELSE Append(lines, LineOf(line_buffer))
         /\ line_buffer' = <<>>
    ELSE line_buffer' = Append(line_buffer, byte) /\ UNCHANGED lines

\* read(1) returns.
ReadControl ==
    /\ reading = "control" /\ input # <<>>
    /\ AsControl(Head(input))
    /\ input' = Tail(input)
    /\ reading' = "no"
    /\ UNCHANGED <<chunk, exit_buffer, flags, history>> /\ Others

\* read(256) returns what has come so far.
ReadData ==
    /\ reading = "data"
    /\ \E k \in 1..Len(input) :
          chunk' = Take(input, k) /\ input' = Drop(input, k)
    /\ reading' = "handle"
    /\ UNCHANGED <<line_buffer, exit_buffer, flags, lines, history>> /\ Others

Deliver(data) ==
    /\ delivered' = delivered \o data
    /\ UNCHANGED <<mark, heard, missed>>

\* _pending_exit_prefix_len, with the slip that asks for the longest beginning of the
\* buffer instead of its end.
HeldAtFront(buffer) ==
    LET fits == {k \in 1..(Len(Exited) - 1) : IsPrefix(buffer, Exited) /\ Len(buffer) = k}
    IN  IF fits = {} THEN 0 ELSE CHOOSE k \in fits : \A j \in fits : j <= k

PendingExitPrefixLen(buffer) ==
    LET fits == {k \in 1..(Len(Exited) - 1) :
                    k <= Len(buffer)
                    /\ Drop(buffer, Len(buffer) - k) = Take(Exited, k)}
    IN  IF fits = {} THEN 0 ELSE CHOOSE k \in fits : \A j \in fits : j <= k

\* exit_buffer.find(_EXIT_EVENT): the first position, or 0.
FindExit(buffer) ==
    LET at == {i \in 1..(Len(buffer) - 3) : SubSeq(buffer, i, i + 3) = Exited}
    IN  IF at = {} THEN 0 ELSE CHOOSE i \in at : \A j \in at : i <= j

\* Not leaving data mode: the chunk is data.
HandleStream ==
    /\ reading = "handle" /\ ~exit_pending
    /\ Deliver(chunk)
    /\ chunk' = <<>> /\ reading' = "no"
    /\ UNCHANGED <<input, line_buffer, exit_buffer, flags, lines, exited>> /\ Others

\* exit_buffer.extend(chunk)
Extended == exit_buffer \o chunk

\* Slip: what is handed over stays in the buffer.
FlushKeeps ==
    /\ reading = "handle" /\ exit_pending /\ FindExit(Extended) = 0
    /\ LET flush == Len(Extended) - PendingExitPrefixLen(Extended)
       IN  Deliver(Take(Extended, flush)) /\ exit_buffer' = Extended
    /\ chunk' = <<>> /\ reading' = "no"
    /\ UNCHANGED <<input, line_buffer, flags, lines, exited>> /\ Others

\* _handle_exit_pending_chunk without the exit line: data, but for what may be its
\* beginning.
HandleNoExit ==
    /\ reading = "handle" /\ exit_pending /\ FindExit(Extended) = 0
    /\ LET flush == Len(Extended) - PendingExitPrefixLen(Extended)
       IN  Deliver(Take(Extended, flush)) /\ exit_buffer' = Drop(Extended, flush)
    /\ chunk' = <<>> /\ reading' = "no"
    /\ UNCHANGED <<input, line_buffer, flags, lines, exited>> /\ Others

\* With the line: what is before it is data, the flags are cleared, the line reported.
HandleExit ==
    /\ reading = "handle" /\ exit_pending /\ FindExit(Extended) # 0
    /\ LET at == FindExit(Extended)
       IN  Deliver(Take(Extended, at - 1)) /\ chunk' = Drop(Extended, at + 3)
    /\ exit_buffer' = <<>>
    /\ exit_pending' = FALSE /\ data_mode' = FALSE
    /\ lines' = Append(lines, "D0")
    /\ exited' = TRUE
    /\ reading' = IF chunk' = <<>> THEN "no" ELSE "rest"
    /\ UNCHANGED <<input, line_buffer>> /\ Others

\* What is behind it is text.
HandleRest ==
    /\ reading = "rest"
    /\ AsControl(Head(chunk))
    /\ chunk' = Tail(chunk)
    /\ reading' = IF chunk' = <<>> THEN "no" ELSE "rest"
    /\ UNCHANGED <<input, exit_buffer, flags, history>> /\ Others

Reader ==
    \/ ReadBegins \/ ReadTimesOut \/ ReadControl \/ ReadData
    \/ HandleStream \/ HandleNoExit \/ HandleExit \/ HandleRest

----------------------------------------------------------------------------
\* The caller.  Each step is what it does between two waits, or between two steps the
\* reader can come between.

Waits(place) == pc = place /\ UNCHANGED <<firmware, reader, flags, bounds, history>>

\* _line_queue.get: lines that do not fit are dropped.
Gets(place, line) ==
    /\ Waits(place)
    /\ lines # <<>> /\ Head(lines) = line
    /\ lines' = Tail(lines)

Skips(place, expected) ==
    /\ Waits(place)
    /\ lines # <<>> /\ Head(lines) \notin expected
    /\ lines' = Tail(lines)
    /\ UNCHANGED caller

\* A wait ends without a line only when none is to come: the timeouts are seconds, an
\* answer takes milliseconds, an escape one second.
NothingComes ==
    /\ request = "none" /\ input = <<>> /\ lines = <<>>
    /\ reading \notin {"handle", "rest"}

TimesOut(place) ==
    /\ Waits(place)
    /\ NothingComes
    /\ UNCHANGED lines

Writes(what) == request' = what /\ UNCHANGED <<in_data, half_line, peer>>

\* reset_input_buffer drops what has come so far.
ResetInput ==
    /\ \E k \in 0..Len(input) : input' = Drop(input, k)
    /\ UNCHANGED <<in_data, half_line, peer, request>>

\* sync_control_mode in three steps: the check and the reset of the input; the
\* rest of the reset and AT; the wait for +OK, which takes all the time that the
\* attempts have together.
SyncBegins ==
    /\ \/ pc = "started" /\ recovering' = "first"
       \/ pc = "escaped" /\ recovering' = "last"
       \/ pc = "exit_seen" /\ UNCHANGED recovering
    /\ ~data_mode
    /\ ResetInput
    /\ pc' = "sync"
    /\ UNCHANGED <<reader, flags, lines, bounds, history>>

SyncWrites ==
    /\ pc = "sync"
    /\ line_buffer' = <<>> /\ lines' = <<>>
    /\ Writes("AT") /\ UNCHANGED input
    /\ pc' = "sync_wait"
    /\ UNCHANGED <<reading, chunk, exit_buffer, flags, recovering, bounds, history>>

SyncDone ==
    \/ Skips("sync_wait", {"OK"})
    \/ Gets("sync_wait", "OK") /\ pc' = "control" /\ recovering' = "no"

\* Slip: an exception of the first sync is not caught.
SyncFailsForGood ==
    /\ TimesOut("sync_wait")
    /\ pc' = "failed"
    /\ UNCHANGED recovering

\* recover_control_mode goes on to the escape after its first sync.
SyncFails ==
    /\ TimesOut("sync_wait")
    /\ pc' = IF recovering = "first" THEN "recover" ELSE "failed"
    /\ UNCHANGED recovering

RecoverResets ==
    /\ pc = "recover"
    /\ ResetInput
    /\ line_buffer' = <<>> /\ lines' = <<>>
    /\ exit_pending' = FALSE /\ data_mode' = FALSE
    /\ pc' = "guard"
    /\ UNCHANGED <<reading, chunk, exit_buffer, recovering, bounds, history>>

RecoverEscapes ==
    /\ pc = "guard"
    /\ Writes("+++") /\ UNCHANGED input
    /\ pc' = "escape_wait"
    /\ UNCHANGED <<reader, flags, lines, recovering, bounds, history>>

\* Slip: the answer, or the lack of one, is taken for control.
RecoverTrusts ==
    \/ Skips("escape_wait", {"D0", "ERR"})
    \/ /\ \/ Gets("escape_wait", "D0") \/ Gets("escape_wait", "ERR")
          \/ TimesOut("escape_wait")
       /\ pc' = "control" /\ recovering' = "no"

\* With an answer or without, the second sync follows.
RecoverEscaped ==
    \/ Skips("escape_wait", {"D0", "ERR"})
    \/ /\ \/ Gets("escape_wait", "D0") \/ Gets("escape_wait", "ERR")
          \/ TimesOut("escape_wait")
       /\ pc' = "escaped" /\ UNCHANGED recovering

\* enter_data_mode: +OK, +IND=DATAMODE,1, and only then the flag.
EnterWrites ==
    /\ pc = "control" /\ sessions < MaxSessions
    /\ sessions' = sessions + 1
    /\ Writes("ENTER") /\ UNCHANGED input
    /\ mark' = Len(delivered) /\ exited' = FALSE
    /\ pc' = "enter_wait"
    /\ UNCHANGED <<reader, flags, lines, recovering, faults, delivered, heard, missed>>

EnterOk ==
    \/ Skips("enter_wait", {"OK", "ERR"})
    \/ Gets("enter_wait", "OK") /\ pc' = "entered_wait" /\ UNCHANGED recovering
    \/ Gets("enter_wait", "ERR") /\ pc' = "failed" /\ UNCHANGED recovering

EnterDone ==
    \/ Skips("entered_wait", {"D1"})
    \/ /\ pc = "entered_wait"
       /\ lines # <<>> /\ Head(lines) = "D1"
       /\ lines' = Tail(lines)
       /\ data_mode' = TRUE
       /\ missed' = Len(heard) - Len(input)
       /\ pc' = "streaming"
       /\ UNCHANGED <<firmware, reader, exit_pending, recovering, bounds,
                      delivered, mark, heard, exited>>

\* exit_data_mode: the reader is told before the escape is written.
ExitBegins ==
    /\ pc = "streaming"
    /\ exit_pending' = TRUE
    /\ pc' = "exit"
    /\ UNCHANGED <<firmware, reader, data_mode, lines, recovering, bounds, history>>

ExitWrites ==
    /\ pc = "exit"
    /\ Writes("+++") /\ UNCHANGED input
    /\ pc' = "exit_wait"
    /\ UNCHANGED <<reader, flags, lines, recovering, bounds, history>>

ExitSeen ==
    \/ Skips("exit_wait", {"D0"})
    \/ Gets("exit_wait", "D0") /\ pc' = "exit_seen" /\ UNCHANGED recovering

\* The flags stay set.  recover_control_mode is of no use then: its first sync raises
\* RuntimeError.  The caller may try to leave again.
ExitFails ==
    /\ TimesOut("exit_wait")
    /\ pc' = "failed"
    /\ UNCHANGED recovering

ExitAgain ==
    /\ pc = "failed" /\ data_mode
    /\ pc' = "exit"
    /\ UNCHANGED <<firmware, reader, flags, lines, recovering, bounds, history>>

Caller ==
    \/ SyncBegins \/ SyncWrites \/ SyncDone \/ SyncFails
    \/ RecoverResets \/ RecoverEscapes \/ RecoverEscaped
    \/ EnterOk \/ EnterDone \/ ExitWrites \/ ExitSeen \/ ExitFails

\* A new client: what is on the line may be lost, or be what the firmware still has.
NewClient ==
    /\ request = "none"
    /\ ResetInput
    /\ reading' = "no" /\ chunk' = <<>> /\ line_buffer' = <<>> /\ exit_buffer' = <<>>
    /\ data_mode' = FALSE /\ exit_pending' = FALSE /\ lines' = <<>>
    /\ pc' = "started" /\ recovering' = "no"
    /\ delivered' = <<>> /\ mark' = 0 /\ heard' = <<>> /\ missed' = 0 /\ exited' = FALSE

\* The program ends on an exception, and is started again.
StartedAgain == pc = "failed" /\ NewClient /\ UNCHANGED bounds

\* It is killed between commands, or while it streams or waits for the exit line.
Killed ==
    /\ pc \in {"control", "streaming", "exit_wait"}
    /\ NewClient
    /\ Fault

----------------------------------------------------------------------------
Firmware    == AnswerAt \/ AnswerEnter \/ AnswerEscape
Environment == Notify \/ Indicate \/ LinkLost \/ EscapeMissed
Next ==
    \/ Firmware \/ Environment \/ Reader \/ Caller
    \/ EnterWrites \/ ExitBegins \/ ExitAgain \/ StartedAgain \/ Killed

Spec == Init /\ [][Next]_vars

----------------------------------------------------------------------------
Places == {"started", "sync", "sync_wait", "recover", "guard", "escape_wait",
           "escaped", "control", "enter_wait", "entered_wait", "streaming", "exit",
           "exit_wait", "exit_seen", "failed"}

TypeOK ==
    /\ in_data \in BOOLEAN /\ half_line \in BOOLEAN
    /\ request \in {"none", "AT", "ENTER", "+++"}
    /\ reading \in {"no", "control", "data", "handle", "rest"}
    /\ chunk # <<>> => reading \in {"handle", "rest"}
    /\ IsPrefix(exit_buffer, Exited) /\ Len(exit_buffer) < Len(Exited)
    /\ data_mode \in BOOLEAN /\ exit_pending \in BOOLEAN
    /\ \A i \in DOMAIN lines : lines[i] \in {"OK", "ERR", "D0", "D1", "other"}
    /\ pc \in Places
    /\ recovering \in {"no", "first", "last"}
    /\ sessions \in 0..MaxSessions /\ faults \in 0..MaxFaults

\* From the moment _data_mode is set, every byte the firmware sends becomes data, once
\* and in order, up to the exit line and nothing of that - however reads cut the line
\* and whatever beginnings of it are in the stream.  One byte may still go to the read
\* that was under way.
StreamExact ==
    \E late \in 0..1 :
        LET session == Drop(heard, missed + late)
            data    == Drop(delivered, mark)
        IN  /\ data_mode => /\ data \o exit_buffer \o chunk \o input = session
                            /\ FindExit(data) = 0
            /\ exited => IsPrefix(data \o Exited, session)

\* Who has seen the exit line may use the control mode at once: both flags are clear, so
\* that sync_control_mode raises no RuntimeError, and nothing is held back that a later
\* exit would take for stream.  And who recovered or left data mode, and has control,
\* finds the firmware in control mode with an empty line, and its own reader too.
ControlMeansControl ==
    /\ pc = "exit_seen" => ~data_mode /\ ~exit_pending /\ exit_buffer = <<>>
    /\ pc = "control" => ~in_data /\ ~half_line /\ ~data_mode /\ ~exit_pending

\* However a client ended, in data mode, in the middle of an escape or of a line, its
\* successors get control again: the first may fail, on a line that begins with an
\* earlier escape.
ComesBack == pc = "started" ~> pc = "control"
=============================================================================
