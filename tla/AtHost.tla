------------------------------- MODULE AtHost -------------------------------
(***************************************************************************)
(* at_host.c: the parser of the AT control plane, and a host that talks to *)
(* it as ble_at.py does: one command at a time, its answer awaited, the    *)
(* payload of AT+SEND written after the prompt; a host that was restarted  *)
(* polls with AT until it reads +OK.  Bytes reach at_host_rx_bytes in      *)
(* chunks of any length.                                                   *)
(*                                                                         *)
(* A byte stands for itself where lines and payloads must be told apart    *)
(* ("A", "T", "cr", "lf"); the text of any other command is one item, and  *)
(* so is a payload byte "x".                                               *)
(***************************************************************************)
EXTENDS Naturals, Sequences

CONSTANTS
    LineMax,     \* capacity of line_buffer
    Chunk,       \* CONTROL_UART_RX_CHUNK
    SendLens,    \* AT+SEND commands and the payload lengths they ask for
    SplitsEnding \* whether a chunk may end between "cr" and "lf"

Endings == {"cr", "lf"}
Operation == <<"op">>
Overlong == [i \in 1..(LineMax + 1) |-> "x"]

ASSUME ChunkAssumption == Chunk \in Nat /\ Chunk >= 2 /\ LineMax \in Nat \ {0}
ASSUME SendAssumption ==
    /\ \A s \in DOMAIN SendLens : SendLens[s] \in Nat \ {0}
    /\ DOMAIN SendLens \cap (Endings \union {"A", "T", "x", "op"}) = {}
ASSUME SplitAssumption == SplitsEnding \in BOOLEAN

VARIABLES
    parser,      \* g_state: line_buffer, line_overflow, payload_mode, ...
    left,        \* bytes of this call of at_host_rx_bytes still to be looked at
    skip,        \* its skip_payload_line_ending
    wire,        \* written by the host and not yet handled
    answers,     \* transmitted and not yet read by the host
    sent,        \* what op_send_payload was last given, since the last command
    host,        \* "idle", "answer", "prompt", "sync": what the host waits for
    asked,       \* the payload length of the host's last AT+SEND
    given,       \* the payload it wrote, since the last command
    restarted    \* history: the host has been restarted

device == <<parser, left, skip>>
vars == <<parser, left, skip, wire, answers, sent, host, asked, given, restarted>>

Init ==
    /\ parser = [line |-> <<>>, overflow |-> FALSE, payload_mode |-> FALSE,
                 expected |-> 0, payload |-> <<>>]
    /\ left = 0 /\ skip = FALSE
    /\ wire = <<>> /\ answers = <<>> /\ sent = <<>>
    /\ host = "idle" /\ asked = 0 /\ given = <<>>
    /\ restarted = FALSE

----------------------------------------------------------------------------
\* at_host_rx_bytes, a byte at a time.

Answer(a) == answers' = Append(answers, a)

\* How much a call may be given of what is on the wire.
ChunkLens ==
    {n \in 1..Chunk :
        /\ n <= Len(wire)
        /\ n < Len(wire) /\ ~SplitsEnding => ~(wire[n] = "cr" /\ wire[n + 1] = "lf")}

BeginCall ==
    /\ left = 0
    /\ left' \in ChunkLens
    /\ skip' = FALSE
    /\ UNCHANGED <<parser, wire, answers, sent, host, asked, given, restarted>>

\* The next byte of the call.
ch == Head(wire)

TakeByte ==
    /\ left > 0
    /\ left' = left - 1
    /\ wire' = Tail(wire)
    /\ UNCHANGED <<host, asked, given, restarted>>

\* Slip: the line ending behind AT+SEND is never skipped.
SkipsNothing == FALSE

\* The line ending behind AT+SEND, in the call that handled the command.
Skips == skip /\ parser.payload = <<>> /\ ch \in Endings

SkipEnding ==
    /\ TakeByte
    /\ parser.payload_mode /\ Skips
    /\ UNCHANGED <<parser, skip, answers, sent>>

PayloadByte ==
    /\ TakeByte
    /\ parser.payload_mode /\ ~Skips
    /\ Len(parser.payload) + 1 < parser.expected
    /\ parser' = [parser EXCEPT !.payload = Append(@, ch)]
    /\ skip' = FALSE
    /\ UNCHANGED <<answers, sent>>

\* Slip: an error leaves the payload mode on.
SendPayloadKeepsMode(payload, ok) ==
    /\ parser' = [parser EXCEPT !.payload_mode = ~ok, !.payload = <<>>,
                                !.expected = IF ok THEN 0 ELSE @]
    /\ sent' = payload
    /\ Answer(IF ok THEN "ok" ELSE "err")

\* process_send_payload, answered as op_send_payload does.
SendPayload(payload, ok) ==
    /\ parser' = [parser EXCEPT !.payload_mode = FALSE, !.payload = <<>>, !.expected = 0]
    /\ sent' = payload
    /\ Answer(IF ok THEN "ok" ELSE "err")

LastPayloadByte ==
    /\ TakeByte
    /\ parser.payload_mode /\ ~Skips
    /\ Len(parser.payload) + 1 = parser.expected
    /\ \E ok \in BOOLEAN : SendPayload(Append(parser.payload, ch), ok)
    /\ skip' = FALSE

\* Slip: the room for the terminating NUL is forgotten.
LineByteNoNul ==
    /\ TakeByte
    /\ ~parser.payload_mode /\ ch \notin Endings
    /\ parser' = IF Len(parser.line) > LineMax THEN [parser EXCEPT !.overflow = TRUE]
                 ELSE [parser EXCEPT !.line = Append(@, ch)]
    /\ UNCHANGED <<skip, answers, sent>>

\* LineMax counts the characters that fit with their terminating NUL.
LineByte ==
    /\ TakeByte
    /\ ~parser.payload_mode /\ ch \notin Endings
    /\ parser' = IF Len(parser.line) >= LineMax THEN [parser EXCEPT !.overflow = TRUE]
                 ELSE [parser EXCEPT !.line = Append(@, ch)]
    /\ UNCHANGED <<skip, answers, sent>>

\* Slip: line_overflow is not cleared at the end of the line.
ForgetLineKeepsOverflow == [parser EXCEPT !.line = <<>>]

\* The end of every path of a line ending.
ForgetLine == [parser EXCEPT !.line = <<>>, !.overflow = FALSE]

\* A line ending with no line in front of it, or one that was too long.
EndNoLine ==
    /\ TakeByte
    /\ ~parser.payload_mode /\ ch \in Endings
    /\ \/ parser.overflow /\ Answer("err")
       \/ ~parser.overflow /\ parser.line = <<>> /\ UNCHANGED answers
    /\ parser' = ForgetLine
    /\ UNCHANGED <<skip, sent>>

IsSend(line) == Len(line) = 1 /\ line[1] \in DOMAIN SendLens

\* process_command on a line that is not AT+SEND: AT, an operation, or no command.
\* (A line of white space alone is not answered; x is none.)
Command ==
    /\ TakeByte
    /\ ~parser.payload_mode /\ ch \in Endings
    /\ ~parser.overflow /\ parser.line # <<>> /\ ~IsSend(parser.line)
    /\ \/ parser.line \in {<<"A", "T">>, Operation} /\ Answer("ok")
       \/ parser.line # <<"A", "T">> /\ Answer("err")
    /\ parser' = ForgetLine
    /\ skip' = FALSE
    /\ UNCHANGED sent

\* process_command on AT+SEND.
SendCommand ==
    /\ TakeByte
    /\ ~parser.payload_mode /\ ch \in Endings
    /\ ~parser.overflow /\ IsSend(parser.line)
    /\ Answer("prompt")
    /\ parser' = [ForgetLine EXCEPT !.payload_mode = TRUE, !.payload = <<>>,
                                    !.expected = SendLens[parser.line[1]]]
    /\ skip' = TRUE
    /\ UNCHANGED sent

RxBytes ==
    \/ BeginCall
    \/ SkipEnding \/ PayloadByte \/ LastPayloadByte
    \/ LineByte \/ EndNoLine \/ Command \/ SendCommand

----------------------------------------------------------------------------
\* The host (ble_at.py).  What a call answers is transmitted after it.

\* _write_line.
WriteLine(line) == wire' = wire \o line \o <<"cr", "lf">>

HostCommands ==
    /\ host = "idle" /\ left = 0
    /\ \/ /\ \E line \in {<<"A", "T">>, Operation, Overlong} : WriteLine(line)
          /\ host' = "answer"
          /\ asked' = 0
       \/ /\ \E s \in DOMAIN SendLens : WriteLine(<<s>>) /\ asked' = SendLens[s]
          /\ host' = "prompt"
    /\ sent' = <<>> /\ given' = <<>>
    /\ UNCHANGED <<device, answers, restarted>>

\* send: the payload is written after the prompt, other answers are passed over.  Its
\* first and last bytes may be those of line endings.
HostSends ==
    /\ host = "prompt" /\ left = 0 /\ answers # <<>>
    /\ answers' = Tail(answers)
    /\ IF Head(answers) = "prompt"
       THEN /\ given' \in {p \in [1..asked -> {"x", "lf"}] : \A i \in 2..(asked - 1) : p[i] = "x"}
            /\ wire' = wire \o given'
            /\ host' = "answer"
       ELSE UNCHANGED <<given, wire, host>>
    /\ UNCHANGED <<device, sent, asked, restarted>>

\* _wait_ok.
HostReadsAnswer ==
    /\ host = "answer" /\ left = 0 /\ answers # <<>>
    /\ answers' = Tail(answers)
    /\ host' = IF Head(answers) \in {"ok", "err"} THEN "idle" ELSE host
    /\ UNCHANGED <<device, wire, sent, asked, given, restarted>>

\* The host stops between any two steps; a new one opens the port and calls
\* sync_control_mode, which drops what has been received.
HostRestarts ==
    /\ host # "sync" /\ left = 0
    /\ host' = "sync"
    /\ answers' = <<>>
    /\ restarted' = TRUE
    /\ UNCHANGED <<device, wire, sent, asked, given>>

\* sync_control_mode: AT, again after each timeout.
HostPolls ==
    /\ host = "sync" /\ left = 0 /\ wire = <<>> /\ answers = <<>>
    /\ WriteLine(<<"A", "T">>)
    /\ UNCHANGED <<device, answers, sent, host, asked, given, restarted>>

HostReadsPoll ==
    /\ host = "sync" /\ left = 0 /\ answers # <<>>
    /\ answers' = Tail(answers)
    /\ host' = IF Head(answers) = "ok" THEN "idle" ELSE host
    /\ UNCHANGED <<device, wire, sent, asked, given, restarted>>

HostNext == HostCommands \/ HostSends \/ HostReadsAnswer \/ HostRestarts
SyncNext == HostPolls \/ HostReadsPoll

Next == RxBytes \/ HostNext \/ SyncNext

Spec == Init /\ [][Next]_vars

\* The callback handles what arrives, and a host that polls keeps polling and reading.
FairSpec == Spec /\ WF_vars(RxBytes) /\ WF_vars(SyncNext)

----------------------------------------------------------------------------
Item == Endings \union DOMAIN SendLens \union {"A", "T", "x", "op"}

\* Types, and the bounds of the two buffers.
TypeOK ==
    /\ parser \in [line : Seq(Item), overflow : BOOLEAN, payload_mode : BOOLEAN,
                   expected : Nat, payload : Seq(Item)]
    /\ Len(parser.line) <= LineMax
    /\ IF parser.payload_mode
       THEN parser.expected \in {SendLens[s] : s \in DOMAIN SendLens}
            /\ Len(parser.payload) < parser.expected
       ELSE parser.expected = 0 /\ parser.payload = <<>>
    /\ wire \in Seq(Item)
    /\ left \in 0..Len(wire) /\ skip \in BOOLEAN
    /\ answers \in Seq({"ok", "err", "prompt"})
    /\ sent \in Seq(Item) /\ given \in Seq(Item)
    /\ host \in {"idle", "answer", "prompt", "sync"}
    /\ asked \in {0} \union {SendLens[s] : s \in DOMAIN SendLens}
    /\ restarted \in BOOLEAN

\* A host that has its answer, and was never restarted, can send its next command:
\* nothing of the last one is left in the parser, on the wire or among the answers
\* (one answer per command, resets of line, overflow and payload mode on every path).
AtRest ==
    host = "idle" /\ ~restarted =>
        /\ parser.line = <<>> /\ ~parser.overflow /\ ~parser.payload_mode
        /\ wire = <<>> /\ answers = <<>>

\* README, "AT+SEND=0,4", ">", "PING": op_send_payload is given what the host wrote
\* after the prompt, line endings in the payload included.
PayloadIntact == ~restarted => sent \in {<<>>, given}

\* A restarted host that polls with AT reads +OK in the end, whatever line, payload or
\* answer its predecessor left unfinished.
Recovers == host = "sync" ~> host = "idle"

=============================================================================
