----------------------------- MODULE DataPlane -----------------------------
(***************************************************************************)
(* The host-to-peripheral data plane of main.c: bytes read from the USB    *)
(* CDC UART in data mode, the escape filter, host_to_ble_ring, the BLE     *)
(* write pump with its coalesce and retry timers, UART receive flow        *)
(* control, and entering and leaving data mode.                            *)
(*                                                                         *)
(* Interleaving.  Every handler runs on a cooperative thread (USB, system  *)
(* work queue, Bluetooth receive) or in the UART callback, and gives up    *)
(* the processor only inside a call into the Bluetooth stack.  A handler   *)
(* is therefore one action, except ble_write_work_handler, which is split  *)
(* around profile_manager_send, and the UART callback, which is split per  *)
(* byte for readability but blocks every other action while it runs.       *)
(*                                                                         *)
(* Data.  A payload byte is its position in the stream of the connection;  *)
(* a run of '+' the escape filter holds back has no position until it is   *)
(* flushed as payload.                                                     *)
(***************************************************************************)
EXTENDS RingBuf

CONSTANTS
    Size,         \* HOST_TO_BLE_RING_SIZE
    RxChunk,      \* CONTROL_UART_RX_CHUNK
    PayloadLens,  \* the payload lengths MTU exchanges lead to
    SendResults,  \* outcomes of profile_manager_send: "ok", "busy", "error"
    MaxOffered    \* bound: payload bytes the host offers on one connection

ASSUME SizesAssumption ==
    /\ Size \in Nat /\ RxChunk \in Nat
    /\ 1 <= RxChunk /\ RxChunk <= Size
    /\ MaxOffered \in Nat
ASSUME PayloadAssumption ==
    /\ PayloadLens \subseteq Nat \ {0}
    /\ PayloadLens # {}
ASSUME ResultsAssumption == SendResults \subseteq {"ok", "busy", "error"}

VARIABLES
    app_state,         \* enum app_state, as far as the data plane tells it apart
    current_conn,      \* current_conn # NULL, with the connection established
    can_write,         \* profile_manager_can_enter_data_mode()
    payload_len,       \* profile_manager_get_payload_len()
    pending_enter,     \* data_mode_pending_enter
    ring,              \* host_to_ble_ring
    escape_count,      \* escape_state.count; escape_state.active is count > 0
    quiet,             \* the guard time has passed since last_host_rx_time_ms
    control_rx_paused,
    rx_irq,            \* the UART receive interrupt is enabled
    rx_left,           \* bytes of the callback's buffer still to be handled
    in_rx,             \* the UART callback is handling a buffer
    write_work,        \* ble_write_work is queued
    retry,             \* ble_write_retry_work is armed or queued
    coalesce,          \* ble_write_coalesce_work is armed or queued
    guard_timer,       \* escape_guard_work is armed or queued
    flush_due,         \* data_mode_tx_flush_due
    pump,              \* where ble_write_work_handler is
    chunk,             \* the bytes it has handed to profile_manager_send
    chunk_live         \* and the connection they were claimed on still stands

\* History variables: what the properties compare the state with.
VARIABLES
    offered,           \* payload bytes of this connection put to the ring so far
    peer,              \* the bytes the peripheral has received
    dropped,           \* bytes the ring refused in the current or last handler
    overflow,          \* the ring has refused a byte on this connection
    failed             \* a send has failed on this connection

link     == <<app_state, current_conn, can_write, payload_len, pending_enter>>
escape   == <<escape_count, quiet, guard_timer>>
uartRx   == <<control_rx_paused, rx_irq>>
rxLoop   == <<rx_left, in_rx>>
timers   == <<write_work, retry, coalesce, flush_due>>
pumping  == <<pump, chunk, chunk_live>>
history  == <<offered, peer, dropped, overflow, failed>>
vars == <<link, ring, escape, uartRx, rxLoop, timers, pumping, history>>

----------------------------------------------------------------------------
\* Helpers the handlers share.

DataMode == app_state = "DATA_MODE"

Space == RingSpace(ring, Size)

\* Slip (for the mutation runs): the interrupt is never enabled again.
RefreshNeverEnables(mode, r, paused, irq) ==
    LET low == mode = "DATA_MODE" /\ RingSpace(r, Size) < RxChunk
    IN  /\ control_rx_paused' = low
        /\ rx_irq' = IF low THEN FALSE ELSE irq

\* refresh_uart_rx_flow_control, called with the mode and ring it then sees:
\* outside data mode reception is only re-enabled if the flag says it is paused.
RefreshUartRx(mode, r, paused, irq) ==
    LET low == mode = "DATA_MODE" /\ RingSpace(r, Size) < RxChunk
    IN  /\ control_rx_paused' = low
        /\ rx_irq' = IF low THEN (IF paused THEN irq ELSE FALSE)
                            ELSE (IF paused THEN TRUE ELSE irq)

\* ring_put_bytes of the next k bytes of the stream: the longest prefix that fits.
\* lostBefore is what the handler has already lost.
NextBytes(k) == [i \in 1..k |-> offered + i]

\* Slip: what does not fit whole is not put at all.
OfferWhole(k, lostBefore) ==
    LET lost == IF k > Space THEN k ELSE 0
    IN  /\ ring' = IF lost = 0 THEN RingPut(ring, Size, NextBytes(k)) ELSE ring
        /\ offered' = offered + k
        /\ dropped' = lostBefore + lost
        /\ overflow' = (overflow \/ lost > 0)

Offer(k, lostBefore) ==
    LET lost == k - AtMost(k, Space)
    IN  /\ ring' = RingPut(ring, Size, NextBytes(k))
        /\ offered' = offered + k
        /\ dropped' = lostBefore + lost
        /\ overflow' = (overflow \/ lost > 0)

\* Slip: `>` for `>=`, so exactly one full write wakes nothing.
ScheduleSkipsExactFit(r) ==
    IF ~(DataMode /\ current_conn /\ can_write)
    THEN UNCHANGED timers
    ELSE /\ flush_due' = FALSE
         /\ coalesce' = (0 < RingSize(r) /\ RingSize(r) < payload_len)
         /\ write_work' = (write_work \/ RingSize(r) > payload_len)
         /\ UNCHANGED retry

\* schedule_data_mode_ble_tx with r in the ring.
ScheduleDataModeBleTx(r) ==
    IF ~(DataMode /\ current_conn /\ can_write)
    THEN UNCHANGED timers
    ELSE /\ flush_due' = FALSE
         /\ coalesce' = (0 < RingSize(r) /\ RingSize(r) < payload_len)
         /\ write_work' = (write_work \/ RingSize(r) >= payload_len)
         /\ UNCHANGED retry

\* clear_data_mode_session, without the mode change and ble_to_host_ring.
ClearDataModeSession ==
    /\ pending_enter' = FALSE
    /\ flush_due' = FALSE
    /\ escape_count' = 0
    /\ retry' = FALSE
    /\ coalesce' = FALSE
    /\ guard_timer' = FALSE

----------------------------------------------------------------------------
Init ==
    /\ app_state = "IDLE"
    /\ current_conn = FALSE
    /\ can_write = FALSE
    /\ payload_len \in PayloadLens
    /\ pending_enter = FALSE
    /\ ring = RingEmpty
    /\ escape_count = 0
    /\ quiet = FALSE
    /\ control_rx_paused = FALSE
    /\ rx_irq = TRUE
    /\ rx_left = 0
    /\ in_rx = FALSE
    /\ write_work = FALSE
    /\ retry = FALSE
    /\ coalesce = FALSE
    /\ guard_timer = FALSE
    /\ flush_due = FALSE
    /\ pump = "idle"
    /\ chunk = <<>>
    /\ chunk_live = FALSE
    /\ offered = 0
    /\ peer = <<>>
    /\ dropped = 0
    /\ overflow = FALSE
    /\ failed = FALSE

----------------------------------------------------------------------------
\* The link, as far as the data plane sees it.

\* A connection the host asked for is established and its profile resolved:
\* profile_ready.  The host asks over the UART, so reception must be enabled.
LinkReady ==
    /\ ~in_rx /\ rx_irq
    /\ ~current_conn
    /\ current_conn' = TRUE
    /\ can_write' = TRUE
    /\ payload_len' \in PayloadLens
    /\ app_state' = "CONTROL_READY"
    /\ UNCHANGED <<pending_enter, ring, escape, uartRx, rxLoop, timers, pumping, history>>

\* notify_handler without data: the subscription is gone, ready becomes false.
ProfileLost ==
    /\ ~in_rx
    /\ can_write
    /\ can_write' = FALSE
    /\ UNCHANGED <<app_state, current_conn, payload_len, pending_enter, ring, escape, uartRx, rxLoop, timers, pumping, history>>

\* update_payload_len, from exchange_handler or AT+SETMTU.
UpdatePayloadLen ==
    /\ ~in_rx
    /\ \E n \in PayloadLens \ {payload_len} : payload_len' = n
    /\ UNCHANGED <<app_state, current_conn, can_write, pending_enter, ring, escape, uartRx, rxLoop, timers, pumping, history>>

\* The disconnected callback: the connection's ring contents and session end.
Disconnected ==
    /\ ~in_rx
    /\ current_conn
    /\ current_conn' = FALSE
    /\ can_write' = FALSE
    /\ payload_len' \in PayloadLens
    /\ ring' = RingEmpty
    /\ ClearDataModeSession
    /\ app_state' = "IDLE"
    /\ RefreshUartRx("IDLE", RingEmpty, FALSE, rx_irq)
    /\ chunk_live' = FALSE
    /\ offered' = 0 /\ peer' = <<>> /\ dropped' = 0
    /\ overflow' = FALSE /\ failed' = FALSE
    /\ UNCHANGED <<quiet, rxLoop, write_work, pump, chunk>>

----------------------------------------------------------------------------
\* Entering and leaving data mode.

\* op_enter_data_mode, the AT command AT+ENTERDATAMODE.
OpEnterDataMode ==
    /\ ~in_rx /\ rx_irq
    /\ current_conn
    /\ ~DataMode /\ ~pending_enter
    /\ can_write
    /\ pending_enter' = TRUE
    /\ UNCHANGED <<app_state, current_conn, can_write, payload_len, ring, escape, uartRx, rxLoop, timers, pumping, history>>

\* activate_pending_data_mode_if_ready, once ctrl_tx_ring has drained.  What
\* host_to_ble_ring still holds stays in it, and its timers are cancelled.
Activate ==
    /\ ~in_rx
    /\ pending_enter /\ ~DataMode /\ current_conn
    /\ pending_enter' = FALSE
    /\ flush_due' = FALSE
    /\ escape_count' = 0
    /\ retry' = FALSE
    /\ coalesce' = FALSE
    /\ quiet' = FALSE
    /\ app_state' = "DATA_MODE"
    /\ RefreshUartRx("DATA_MODE", ring, control_rx_paused, rx_irq)
    /\ UNCHANGED <<current_conn, can_write, payload_len, ring, rxLoop, write_work, guard_timer, pumping, history>>

\* exit_data_mode: the mode follows the connection, and refresh runs after the
\* session has cleared control_rx_paused.
ExitDataMode ==
    /\ ClearDataModeSession
    /\ app_state' = IF current_conn THEN "CONTROL_READY" ELSE "IDLE"
    /\ RefreshUartRx("CONTROL_READY", ring, FALSE, rx_irq)
    /\ UNCHANGED <<ring, quiet, write_work, offered, dropped, overflow>>

\* Time.  The guard time (hundreds of ms) outlasts the coalesce delay (1 ms) and
\* any queued work, so it cannot pass while one of them is due.
GuardElapse ==
    /\ ~in_rx /\ ~quiet /\ DataMode
    /\ ~coalesce /\ ~write_work /\ pump = "idle"
    /\ quiet' = TRUE
    /\ UNCHANGED <<link, ring, escape_count, guard_timer, uartRx, rxLoop, timers, pumping, history>>

\* escape_guard_work_handler, armed by the last '+' and due a guard time later.
\* Three pluses leave data mode.
EscapeRecognized ==
    /\ ~in_rx
    /\ guard_timer /\ quiet
    /\ escape_count = 3
    /\ ExitDataMode
    /\ UNCHANGED <<current_conn, can_write, payload_len, rxLoop, pumping, peer, failed>>

\* Fewer become payload (flush_escape_candidate_as_payload), and the flush itself
\* counts as host activity.  Nothing refreshes the flow control here.
EscapeAbandoned ==
    /\ ~in_rx
    /\ guard_timer /\ quiet
    /\ escape_count \in {1, 2}
    /\ Offer(escape_count, 0)
    /\ ScheduleDataModeBleTx(ring')
    /\ escape_count' = 0
    /\ quiet' = FALSE
    /\ guard_timer' = FALSE
    /\ UNCHANGED <<link, uartRx, rxLoop, pumping, peer, failed>>

----------------------------------------------------------------------------
\* control_uart_isr, the receive half in data mode.

\* The ring cannot take a whole buffer: reception is paused.
RxPause ==
    /\ ~in_rx /\ rx_irq /\ DataMode
    /\ Space < RxChunk
    /\ control_rx_paused' = TRUE
    /\ rx_irq' = FALSE
    /\ UNCHANGED <<link, ring, escape, rxLoop, timers, pumping, history>>

\* uart_fifo_read returns up to a buffer of bytes; handle_data_mode_rx starts.
RoomForBuffer == Space >= RxChunk

RxRead ==
    /\ ~in_rx /\ rx_irq /\ DataMode
    /\ RoomForBuffer
    /\ \E n \in 1..RxChunk :
          /\ offered + escape_count + n <= MaxOffered
          /\ rx_left' = n
    /\ in_rx' = TRUE
    /\ dropped' = 0
    /\ UNCHANGED <<link, ring, escape, uartRx, timers, pumping, offered, peer, overflow, failed>>

NextRxByte == in_rx /\ rx_left > 0 /\ rx_left' = rx_left - 1 /\ in_rx' = in_rx

\* A '+' that starts or extends a candidate is held back and arms the guard timer.
HoldPlus(count) ==
    /\ escape_count' = count
    /\ quiet' = FALSE
    /\ guard_timer' = TRUE

EscapeStarts ==
    /\ NextRxByte
    /\ escape_count = 0 /\ quiet
    /\ HoldPlus(1)
    /\ UNCHANGED <<link, ring, uartRx, timers, pumping, history>>

EscapeExtends ==
    /\ NextRxByte
    /\ escape_count \in {1, 2}
    /\ HoldPlus(escape_count + 1)
    /\ UNCHANGED <<link, ring, uartRx, timers, pumping, history>>

\* A payload byte: any byte with no candidate pending (a '+' without the quiet
\* before it included), a byte other than '+' after one or two pluses, any byte
\* after three.  What was held back is flushed first.
PayloadByte ==
    /\ NextRxByte
    /\ Offer(escape_count + 1, dropped)
    /\ IF escape_count > 0
       THEN ScheduleDataModeBleTx(RingPut(ring, Size, NextBytes(escape_count)))
       ELSE UNCHANGED timers
    /\ escape_count' = 0
    /\ quiet' = FALSE
    /\ guard_timer' = FALSE
    /\ UNCHANGED <<link, uartRx, pumping, peer, failed>>

\* A fourth '+' flushes three, and the flush sets last_host_rx_time_ms to its own
\* time.  If the clock ticked after `now` was read, now - last_host_rx_time_ms is
\* negative, and as uint64_t not below the guard time: a candidate starts.
FourthPlusStartsAnew ==
    /\ NextRxByte
    /\ escape_count = 3
    /\ Offer(3, dropped)
    /\ ScheduleDataModeBleTx(ring')
    /\ HoldPlus(1)
    /\ UNCHANGED <<link, uartRx, pumping, peer, failed>>

\* Slip: the end of a buffer schedules no transmission.
RxDoneWakesNobody ==
    /\ in_rx /\ rx_left = 0
    /\ in_rx' = FALSE
    /\ RefreshUartRx(app_state, ring, control_rx_paused, rx_irq)
    /\ UNCHANGED <<link, ring, escape, rx_left, timers, pumping, history>>

RxDone ==
    /\ in_rx /\ rx_left = 0
    /\ in_rx' = FALSE
    /\ ScheduleDataModeBleTx(ring)
    /\ RefreshUartRx(app_state, ring, control_rx_paused, rx_irq)
    /\ UNCHANGED <<link, ring, escape, rx_left, pumping, history>>

----------------------------------------------------------------------------
\* The BLE write pump.

CoalesceFires ==
    /\ ~in_rx
    /\ coalesce
    /\ coalesce' = FALSE
    /\ flush_due' = TRUE
    /\ write_work' = TRUE
    /\ UNCHANGED <<link, ring, escape, uartRx, rxLoop, retry, pumping, history>>

RetryFires ==
    /\ ~in_rx
    /\ retry
    /\ retry' = FALSE
    /\ write_work' = TRUE
    /\ UNCHANGED <<link, ring, escape, uartRx, rxLoop, coalesce, flush_due, pumping, history>>

PumpStart ==
    /\ ~in_rx
    /\ write_work /\ pump = "idle"
    /\ write_work' = FALSE
    /\ pump' = "loop"
    /\ UNCHANGED <<link, ring, escape, uartRx, rxLoop, retry, coalesce, flush_due, chunk, chunk_live, history>>

MayPump == current_conn /\ can_write

\* Slip: the expired coalesce delay is not taken into account.
DeferredForever == DataMode /\ RingSize(ring) < payload_len

\* Too little for a full write, and the coalesce delay has not passed.
Deferred == DataMode /\ RingSize(ring) < payload_len /\ ~flush_due

PumpStops ==
    /\ ~in_rx /\ pump = "loop"
    /\ \/ ~MayPump /\ UNCHANGED flush_due
       \/ MayPump /\ RingSize(ring) = 0 /\ flush_due' = FALSE
    /\ pump' = "idle"
    /\ UNCHANGED <<link, ring, escape, uartRx, rxLoop, write_work, retry, coalesce, chunk, chunk_live, history>>

PumpDefers ==
    /\ ~in_rx /\ pump = "loop"
    /\ MayPump /\ RingSize(ring) > 0
    /\ Deferred
    /\ coalesce' = TRUE
    /\ pump' = "idle"
    /\ UNCHANGED <<link, ring, escape, uartRx, rxLoop, write_work, retry, flush_due, chunk, chunk_live, history>>

\* ring_buf_get_claim, then profile_manager_send is entered: its own checks
\* repeat what MayPump and the claim length have just established.
PumpClaims ==
    /\ ~in_rx /\ pump = "loop"
    /\ MayPump /\ RingSize(ring) > 0
    /\ ~Deferred
    /\ LET k == RingClaimLen(ring, Size, payload_len)
       IN  /\ ring' = RingClaim(ring, k)
           /\ chunk' = RingClaimed(ring, k)
    /\ chunk_live' = TRUE
    /\ pump' = "sending"
    /\ UNCHANGED <<link, escape, uartRx, rxLoop, timers, history>>

\* Slips: the claim is given back instead of consumed; a full write is consumed
\* whatever was claimed.
GiveBackClaim == RingFinish(ring, Size, 0)
FinishPayloadLen == RingFinish(ring, Size, payload_len)

\* profile_manager_send accepted the chunk: it reaches the peripheral if its
\* connection still stands, and is consumed from the ring.
FinishClaim == RingFinish(ring, Size, Len(chunk))

SendAccepted ==
    /\ ~in_rx /\ pump = "sending"
    /\ "ok" \in SendResults
    /\ ring' = FinishClaim
    /\ peer' = IF chunk_live THEN peer \o chunk ELSE peer
    /\ flush_due' = FALSE
    /\ RefreshUartRx(app_state, ring', control_rx_paused, rx_irq)
    /\ pump' = "loop"
    /\ chunk' = <<>> /\ chunk_live' = FALSE
    /\ UNCHANGED <<link, escape, rxLoop, write_work, retry, coalesce, offered, dropped, overflow, failed>>

\* It was refused.  The handler returns without ring_buf_get_finish: the bytes stay
\* claimed.  A transient refusal (-ENOMEM, -EAGAIN, -EBUSY, -EACCES) arms a retry.
SendRefused ==
    /\ ~in_rx /\ pump = "sending"
    /\ \/ "busy" \in SendResults /\ retry' = TRUE
       \/ "error" \in SendResults /\ retry' = retry
    /\ failed' = (failed \/ chunk_live)
    /\ pump' = "idle"
    /\ chunk' = <<>> /\ chunk_live' = FALSE
    /\ UNCHANGED <<link, ring, escape, uartRx, rxLoop, write_work, coalesce, flush_due, offered, peer, dropped, overflow>>

----------------------------------------------------------------------------
LinkNext   == LinkReady \/ ProfileLost \/ UpdatePayloadLen \/ Disconnected
ModeNext   == OpEnterDataMode \/ Activate \/ EscapeRecognized \/ EscapeAbandoned
RxByteNext == EscapeStarts \/ EscapeExtends \/ PayloadByte \/ FourthPlusStartsAnew
RxNext     == RxPause \/ RxRead \/ RxByteNext \/ RxDone
PumpNext   == PumpStart \/ PumpStops \/ PumpDefers \/ PumpClaims \/ SendAccepted \/ SendRefused

Next == LinkNext \/ ModeNext \/ GuardElapse \/ RxNext \/ CoalesceFires \/ RetryFires \/ PumpNext

Spec == Init /\ [][Next]_vars

\* The callback runs to its end, armed timers expire, queued work is run and a
\* call into the stack returns.  The host, the link and the guard time owe nothing.
Fairness ==
    /\ WF_vars(RxByteNext) /\ WF_vars(RxDone)
    /\ WF_vars(CoalesceFires) /\ WF_vars(RetryFires)
    /\ WF_vars(PumpNext)

FairSpec == Spec /\ Fairness

----------------------------------------------------------------------------
\* Types and ranges.
ByteSeq == Seq(1..MaxOffered)

RingType(r) ==
    /\ r \in [bytes : ByteSeq, claimed : Nat, off : 0..(Size - 1)]
    /\ Len(r.bytes) <= Size
    /\ r.claimed <= Len(r.bytes)

LinkTypes ==
    /\ app_state \in {"IDLE", "CONTROL_READY", "DATA_MODE"}
    /\ current_conn \in BOOLEAN /\ can_write \in BOOLEAN
    /\ payload_len \in PayloadLens
    /\ pending_enter \in BOOLEAN

EscapeTypes == escape_count \in 0..3 /\ quiet \in BOOLEAN /\ guard_timer \in BOOLEAN

UartTypes == control_rx_paused \in BOOLEAN /\ rx_irq \in BOOLEAN

RxTypes == rx_left \in 0..RxChunk /\ in_rx \in BOOLEAN

TimerTypes ==
    /\ write_work \in BOOLEAN /\ retry \in BOOLEAN
    /\ coalesce \in BOOLEAN /\ flush_due \in BOOLEAN

PumpTypes ==
    /\ pump \in {"idle", "loop", "sending"}
    /\ chunk \in ByteSeq
    /\ chunk_live \in BOOLEAN

HistoryTypes ==
    /\ offered \in 0..MaxOffered
    /\ peer \in ByteSeq
    /\ dropped \in Nat
    /\ overflow \in BOOLEAN /\ failed \in BOOLEAN

TypeOK ==
    /\ LinkTypes /\ RingType(ring) /\ EscapeTypes /\ UartTypes
    /\ RxTypes /\ TimerTypes /\ PumpTypes /\ HistoryTypes

\* Bytes waiting in data mode are never forgotten: as long as no send has failed,
\* unclaimed bytes mean that the pump runs or that one of its triggers is due
\* (schedule_data_mode_ble_tx, the coalesce timer and the pump's own rescheduling
\* leave no gap between them).
NoLostWakeup ==
    (DataMode /\ MayPump /\ ~failed /\ RingSize(ring) > 0) =>
        (in_rx \/ write_work \/ coalesce \/ pump # "idle")

\* What has reached the peripheral followed by what the ring holds is the stream of
\* this connection in order, each byte once, until a send fails; and the whole of
\* it as long as the ring has refused none (claims, wrap-around, disconnection in
\* the middle of a send and completions of an ended connection included).
StreamInOrder ==
    LET s == peer \o ring.bytes
    IN  ~failed =>
          /\ \A i, j \in 1..Len(s) : i < j => s[i] < s[j]
          /\ ~overflow => Len(s) = offered

\* Pausing when less than a buffer fits does not make the path lossless: held back
\* pluses have no room set aside.  But no handler ever loses more than those three.
DropBound == dropped <= 3

\* In data mode the flag and the interrupt agree, whatever paused or resumed
\* reception: a flag left set with the interrupt on would lose the resume, one left
\* clear with the interrupt off would lose the host.
PausedMatchesIrq == DataMode => (control_rx_paused <=> ~rx_irq)

\* README, Data Mode: "Every byte from USB CDC is sent as raw binary payload":
\* what the peripheral has received is a prefix of what the host sent.
PeerGetsPrefix == ~overflow => \A i \in 1..Len(peer) : peer[i] = i

\* README, Known Limits: "On data-mode exit, control-plane recovery takes priority":
\* outside data mode the host's commands are received.
ControlPlaneReachable == ~DataMode => rx_irq

\* Every byte offered is delivered while the link stands, the ring refuses none and
\* no send fails: no coalescing, mode change or MTU update strands one.
DeliveredEventually ==
    \A n \in 1..MaxOffered :
        (offered >= n /\ MayPump) ~> (Len(peer) >= n \/ overflow \/ failed \/ ~MayPump)

\* Paused reception resumes while the link stands and no send fails.
ReceptionResumes ==
    (DataMode /\ ~rx_irq) ~> (rx_irq \/ failed \/ ~DataMode \/ ~MayPump)

\* Outside data mode nothing of a session is left for the next one to send first
\* (clear_data_mode_session does not reset host_to_ble_ring): a host that has been
\* quiet for the guard time has been drained, unless a send failed.
SessionStartsEmpty == (~DataMode /\ MayPump /\ ~failed) => RingSize(ring) = 0

\* The data plane implements the byte stream: the bytes taken over are those the
\* peripheral has and those the ring still holds, in this order.
Stream == INSTANCE ByteStream WITH
    Byte <- 1..MaxOffered,
    open <- current_conn,
    intact <- ~failed,
    stream <- peer \o ring.bytes,
    delivered <- Len(peer)

ImplementsByteStream == Stream!Spec

=============================================================================
