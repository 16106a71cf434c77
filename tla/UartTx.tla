------------------------------- MODULE UartTx -------------------------------
(***************************************************************************)
(* The way to the host: control lines in ctrl_tx_ring, the data mode       *)
(* stream in ble_to_host_ring, the transmit interrupt that serves them,    *)
(* DTR, and the activation of data mode once the control lines have been   *)
(* transmitted.                                                            *)
(*                                                                         *)
(* A line is a body and a line ending, each put to the ring on its own and *)
(* cut off where the ring is full; a body is one item.  An item of the     *)
(* stream is its position among all the notified bytes.                    *)
(***************************************************************************)
EXTENDS Naturals, Sequences

CONSTANTS
    CtrlSize,     \* CTRL_TX_RING_SIZE
    StreamSize,   \* BLE_TO_HOST_RING_SIZE
    TxChunk,      \* UART_TX_CHUNK
    MaxNotify,    \* bytes of a notification
    MaxLines,     \* bound: control lines queued
    MaxBytes      \* bound: bytes notified

ASSUME SizesAssumption ==
    /\ CtrlSize \in Nat /\ StreamSize \in Nat
    /\ TxChunk \in Nat \ {0} /\ MaxNotify \in Nat \ {0}
    /\ MaxLines \in Nat /\ MaxBytes \in Nat

VARIABLES
    mode,           \* "data" or "control": app_state
    conn,           \* a link is up; current_conn is not NULL
    pending_enter,  \* data_mode_pending_enter
    ctrl,           \* ctrl_tx_ring
    stream,         \* ble_to_host_ring
    dtr,            \* control_dtr_ready
    tx_irq,         \* the transmit interrupt is enabled
    host            \* everything the host has received

\* History variables.
VARIABLES
    lines,          \* control lines queued so far
    bytes,          \* bytes notified so far
    start,          \* bytes notified when the last data mode session began
    cut             \* a control line has been cut off

session == <<mode, conn, pending_enter, start>>
count   == <<lines, bytes>>
vars == <<session, ctrl, stream, dtr, tx_irq, host, count, cut>>

Init ==
    /\ mode = "control" /\ conn = FALSE /\ pending_enter = FALSE
    /\ ctrl = <<>> /\ stream = <<>>
    /\ dtr = TRUE /\ tx_irq = FALSE
    /\ host = <<>>
    /\ lines = 0 /\ bytes = 0 /\ start = 0 /\ cut = FALSE

----------------------------------------------------------------------------
\* Helpers.

Body(l) == <<l, "body">>
Eol(l)  == <<l, "eol">>
Byte(n) == <<"stream", n>>

\* Slip: bytes are put whatever the room.
PutUnlimited(ring, size, s) == ring \o s

\* ring_put_bytes: the longest prefix that fits.
Put(ring, size, s) ==
    LET room == size - Len(ring)
    IN  ring \o SubSeq(s, 1, IF Len(s) <= room THEN Len(s) ELSE room)

\* Slip: queueing does not wake the transmitter.
KickNever == UNCHANGED tx_irq

\* kick_uart_tx.
KickUartTx == tx_irq' = (dtr \/ tx_irq)

\* The ring after queue_ctrl_line: the body is put, then the line ending.
PutLine(ring, l) == Put(Put(ring, CtrlSize, <<Body(l)>>), CtrlSize, <<Eol(l)>>)

\* k lines more leave r in the ring.
Queued(k, r) ==
    /\ lines + k <= MaxLines
    /\ lines' = lines + k
    /\ ctrl' = r
    /\ cut' = (cut \/ Len(r) < Len(ctrl) + 2 * k)
    /\ KickUartTx

QueueLine(l) == Queued(1, PutLine(ctrl, l))

----------------------------------------------------------------------------
\* What queues bytes for the host.

\* The connected callback.
Connected ==
    /\ ~conn
    /\ conn' = TRUE
    /\ QueueLine("BLMC")
    /\ UNCHANGED <<mode, pending_enter, start, stream, dtr, host, bytes>>

\* An answer, or the indication of a notification received outside data mode.
ControlLine ==
    /\ mode = "control"
    /\ QueueLine("line")
    /\ UNCHANGED <<session, stream, dtr, host, bytes>>

\* le_param_updated, profile_mtu_updated and profile_error report in any mode.
LinkEvent ==
    /\ conn
    /\ QueueLine("event")
    /\ UNCHANGED <<session, stream, dtr, host, bytes>>

\* profile_payload_received in data mode: queue_data_bytes.
Notify ==
    /\ mode = "data" /\ conn
    /\ \E n \in 1..MaxNotify :
          /\ bytes + n <= MaxBytes
          /\ bytes' = bytes + n
          /\ stream' = Put(stream, StreamSize, [i \in 1..n |-> Byte(bytes + i)])
    /\ KickUartTx
    /\ UNCHANGED <<session, ctrl, dtr, host, lines, cut>>

\* AT+ENTERDATAMODE: op_enter_data_mode, then its two lines.
OpEnterDataMode ==
    /\ mode = "control" /\ conn /\ ~pending_enter
    /\ pending_enter' = TRUE
    /\ Queued(2, PutLine(PutLine(ctrl, "ok"), "DATAMODE,1"))
    /\ UNCHANGED <<mode, conn, start, stream, dtr, host, bytes>>

\* Slip: the ring is not reset.
ExitKeepsStream ==
    /\ mode = "data"
    /\ mode' = "control" /\ pending_enter' = FALSE
    /\ QueueLine("DATAMODE,0")
    /\ UNCHANGED <<conn, start, stream, dtr, host, bytes>>

\* Slip: clear_data_mode_session is asked not to reset the mode, as disconnected asks it.
ExitKeepsMode ==
    /\ mode = "data"
    /\ pending_enter' = FALSE /\ stream' = <<>>
    /\ QueueLine("DATAMODE,0")
    /\ UNCHANGED <<mode, conn, start, dtr, host, bytes>>

\* exit_data_mode; clear_data_mode_session resets ble_to_host_ring.
ExitDataMode ==
    /\ mode = "data"
    /\ mode' = "control" /\ pending_enter' = FALSE
    /\ stream' = <<>>
    /\ QueueLine("DATAMODE,0")
    /\ UNCHANGED <<conn, start, dtr, host, bytes>>

\* The disconnected callback.
Disconnected ==
    /\ conn
    /\ conn' = FALSE
    /\ mode' = "control" /\ pending_enter' = FALSE
    /\ stream' = <<>>
    /\ QueueLine("BLMD")
    /\ UNCHANGED <<start, dtr, host, bytes>>

----------------------------------------------------------------------------
\* The transmit interrupt.

\* activate_pending_data_mode_if_ready, with c left in ctrl_tx_ring.
Activates(c) == pending_enter /\ mode = "control" /\ conn /\ c = <<>>

\* The state an activation leads to, or no change.
ActivateIf(yes) ==
    /\ mode' = IF yes THEN "data" ELSE mode
    /\ pending_enter' = (pending_enter /\ ~yes)
    /\ start' = IF yes THEN bytes ELSE start
    /\ UNCHANGED conn

\* Nothing to transmit: the interrupt is disabled.
ServiceIdle ==
    /\ tx_irq
    /\ ctrl = <<>>
    /\ mode = "data" \/ Activates(ctrl) => stream = <<>>
    /\ ActivateIf(Activates(ctrl))
    /\ tx_irq' = FALSE
    /\ UNCHANGED <<ctrl, stream, dtr, host, count, cut>>

\* A chunk of control lines; uart_fifo_fill takes all or part of it.
ServiceCtrl ==
    /\ tx_irq
    /\ \E n \in 1..TxChunk :
          /\ n <= Len(ctrl)
          /\ host' = host \o SubSeq(ctrl, 1, n)
          /\ ctrl' = SubSeq(ctrl, n + 1, Len(ctrl))
    /\ ActivateIf(Activates(ctrl'))
    /\ UNCHANGED <<stream, dtr, tx_irq, count, cut>>

\* With no control line waiting, data mode transmits a chunk of the stream.
ServiceStream ==
    /\ tx_irq
    /\ ctrl = <<>>
    /\ mode = "data" \/ Activates(ctrl)
    /\ \E n \in 1..TxChunk :
          /\ n <= Len(stream)
          /\ host' = host \o SubSeq(stream, 1, n)
          /\ stream' = SubSeq(stream, n + 1, Len(stream))
    /\ ActivateIf(Activates(ctrl))
    /\ UNCHANGED <<ctrl, dtr, tx_irq, count, cut>>

----------------------------------------------------------------------------
\* usb_message_cb: the host sets the control lines, DTR low or high.
DtrLost ==
    /\ dtr' = FALSE /\ tx_irq' = FALSE
    /\ UNCHANGED <<session, ctrl, stream, host, count, cut>>

\* Slip: the transmitter is not kicked.
DtrBackUnnoticed ==
    /\ dtr' = TRUE
    /\ UNCHANGED <<session, ctrl, stream, tx_irq, host, count, cut>>

DtrBack ==
    /\ dtr' = TRUE /\ tx_irq' = TRUE
    /\ UNCHANGED <<session, ctrl, stream, host, count, cut>>

----------------------------------------------------------------------------
QueueNext == Connected \/ ControlLine \/ LinkEvent \/ Notify \/ OpEnterDataMode \/ ExitDataMode
             \/ Disconnected
ServiceNext == ServiceIdle \/ ServiceCtrl \/ ServiceStream
DtrNext == DtrLost \/ DtrBack

Next == QueueNext \/ ServiceNext \/ DtrNext

Spec == Init /\ [][Next]_vars

\* The callback of an enabled interrupt runs; the host reads what it is sent.
FairSpec == Spec /\ WF_vars(ServiceNext)

----------------------------------------------------------------------------
Line == {"BLMC", "BLMD", "line", "event", "ok", "DATAMODE,1", "DATAMODE,0"}
CtrlItem == Line \X {"body", "eol"}
StreamItem == {"stream"} \X (1..MaxBytes)

\* Types and ranges.
TypeOK ==
    /\ mode \in {"control", "data"} /\ conn \in BOOLEAN /\ pending_enter \in BOOLEAN
    /\ ctrl \in Seq(CtrlItem) /\ Len(ctrl) <= CtrlSize
    /\ stream \in Seq(StreamItem) /\ Len(stream) <= StreamSize
    /\ dtr \in BOOLEAN /\ tx_irq \in BOOLEAN
    /\ host \in Seq(CtrlItem \union StreamItem)
    /\ lines \in 0..MaxLines /\ bytes \in 0..MaxBytes /\ start \in 0..MaxBytes
    /\ cut \in BOOLEAN

\* Nothing waits for the host without the interrupt that transmits it, and no data mode
\* waits without the one that activates it: neither DTR, nor a ring found empty, nor a
\* mode change loses the wakeup.
NoLostKick ==
    dtr /\ (ctrl # <<>> \/ (mode = "data" /\ stream # <<>>) \/ pending_enter) => tx_irq

\* Positions of the markers that open and close the stream in what the host received.
Opens(i)  == host[i] = Eol("DATAMODE,1")
Closes(i) == host[i] \in {Eol("DATAMODE,0"), Eol("BLMD")}
InStream(i) == host[i][1] = "stream"

\* The host receives bytes of the stream only between +IND=DATAMODE,1 and the line that
\* ends the session: both rings, the activation and the exit keep that order (while no
\* control line has been cut off).  It receives them in order, each at most once.
StreamWithinMarkers ==
    /\ ~cut => \A i \in DOMAIN host : InStream(i) =>
                  \E o \in 1..(i - 1) : Opens(o) /\ \A c \in o..i : ~Closes(c)
    /\ \A i, j \in DOMAIN host :
          i < j /\ InStream(i) /\ InStream(j) => host[i][2] < host[j][2]

\* What data mode transmits was notified in this session: nothing of an earlier one is
\* left in ble_to_host_ring.
StreamIsFresh == \A i \in DOMAIN stream : mode = "data" /\ stream[i][2] > start

\* A requested data mode is activated while the connection stands and the port is open.
PendingActivates == pending_enter ~> (mode = "data" \/ ~conn \/ ~dtr)

\* README, Data Mode: "Every BLE notify payload is forwarded unchanged to the same CDC
\* port", "Text events ... are no longer emitted".
DataModeIsBinary ==
    [][mode = "data" /\ mode' = "data" =>
          \A i \in DOMAIN host' \ DOMAIN host : host'[i][1] = "stream"]_vars

=============================================================================
