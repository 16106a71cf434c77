# A verification development for central_uart

The repository is an nRF52840 firmware that turns a USB serial port into a BLE
central: an AT command host (`apps/nrf52840_ble_at_host`), with a *data mode*
in which the port becomes a transparent byte bridge to one GATT peripheral, and
a Python client for it (`python/ble_at.py`). This directory holds TLA+ models
of the firmware's stateful parts, the TLC runs that check them on small
instances, and TLAPS proofs of what holds for every instance.

## The system

| Part | Source | State | Operations |
| --- | --- | --- | --- |
| Data plane, host to peripheral | `main.c` 377-614, 1070-1105 | `host_to_ble_ring`, `control_rx_paused`, escape filter, write/retry/coalesce work | receive callback, escape guard, pump, its timers, entering and leaving data mode, disconnection |
| UART transmit path | `main.c` 147-189, 1011-1065, 1107-1132 | `ctrl_tx_ring`, `ble_to_host_ring`, transmit interrupt, DTR, `data_mode_pending_enter` | queueing lines and notifications, transmit interrupt, activation, DTR changes |
| BLE link | `main.c` 616-1003 | `app_state`, `current_conn`, `scan_stop_work` | AT operations, scan timer, `connected`, `disconnected` |
| Profile manager | `profile_manager.c` | `g_state`: handles, `ready`, payload length, busy flags | discovery, subscription, MTU exchange, writes |
| Settings store | `settings.c` | `g_config` and its keys in flash | three updates, boot |
| AT parser | `at_host.c` | line and payload buffers | `at_host_rx_bytes`, one branch per command |
| Scan cache | `main.c` 191-353, `ble_at.py` 162-193 | `scanned_devices`, filter, the lines on their way, what `scan()` has collected | `device_found`, `AT+STARTSCAN`, the end of a scan, `scan()` |
| Escape timing | `main.c` 410-458, 493-541 | `escape_state`, `last_host_rx_time_ms`, guard timer | received bytes, `escape_guard_work_handler` |
| Helpers | `app_common.c` | none | address and UUID conversion |
| USB start-up | `main.c` 1134-1231 | semaphores | straight-line |
| Python client | `python/ble_at.py` | line queue, `_data_mode`, `_exit_pending`, exit buffer | reader thread, commands, `enter_data_mode`, `exit_data_mode`, `recover_control_mode` |
| End-to-end test | `python/examples/e2e_stream_test.py` | frame parser, outstanding frames | `feed`, statistics |

They interact through shared variables of `main.c` and through calls: the AT
parser calls `at_host_ops`, the profile manager calls back into `main.c`, the
receive and transmit callbacks of the UART move bytes between the port and the
three rings, the pump calls `profile_manager_send`. The client and the firmware
share nothing but the bytes on the port.

### Who runs when

Commands and received bytes are handled in the UART callback; the pump, the
scan timer and the escape guard on the system work queue; link and GATT
callbacks on the Bluetooth receive thread. These threads are cooperative: one
gives up the CPU only inside calls into the Bluetooth stack or to flash. So a
handler is one action, except where it makes such a call:

- the pump is split around `profile_manager_send` (main.c:580), and another
  step can come between claiming a chunk and consuming it;
- `scan_stop_work_handler` is split around `bt_le_scan_stop` (282) and
  `op_connect` around `bt_conn_le_create` (689); the stack completes its
  controller commands in order, so a create returns after a stop under way;
- the receive callback is split byte by byte, with everything else held off
  until it ends, only to keep its actions small;
- a settings update is split before each save of a key.

The client has two threads, its caller and `_reader_loop`. They are preemptive,
and their actions end wherever the other can see a difference: each read, each
of the flags the reader looks at, each line put to the queue.

### What is hard about it

The hazards are listed in `PROJECT.json`, each at its line. The main ones: a
wakeup decided from lengths and flags that another thread changes (pump,
coalesce timer, transmit interrupt, flow control); a chunk claimed before, and
consumed after, a call during which the link can be lost; callbacks of a lost
link running before `disconnected()` and each changing `app_state`; a NULL
attribute that may be the end, an error or an abort; the order of the two
rings at the entry to and exit from data mode; updates cut short between two
saves; a clock read twice in one handler; an exit line that arrives in pieces,
inside a stream that may look like it; a client that starts on whatever its
predecessor left in the firmware.

## The modules

| Module | Models | Composed from |
| --- | --- | --- |
| `RingBuf` | Zephyr's ring buffer as `main.c` uses it: put, claim, finish, reset (external code) | |
| `DataPlane` | the host to peripheral direction | `RingBuf` |
| `ByteStream` | what that direction promises: a stream of bytes per connection | |
| `UartTx` | the direction to the host | |
| `EscapeTime` | the escape filter against the clock | |
| `BleLink` | `app_state`, connection and profile manager together | |
| `LinkSession` | the order of events a host can rely on | |
| `SettingsStore` | `settings.c`, power losses, and the link whose parameters a command updates | |
| `AtHost` | `at_host.c` and a host that talks to it | |
| `ScanCache` | scanning, the cache, and the client's `scan()` | |
| `BleAtClient` | the client's two threads, the line, and a firmware that answers | |
| `FrameParser` | the frame parser of the end-to-end test, and a reference for it | |
| `E2eStream` | the test's data handler behind the client | `BleAtClient`, `FrameParser` |
| `MCAtHost`, `MCSettingsStore`, `MCScanCache`, `MCE2eStream` | the values of an instance | the module of that name |
| `DataPlaneProofs`, `UartTxProofs`, `EscapeTimeProofs`, `BleLinkProofs`, `SettingsStoreProofs`, `ScanCacheProofs`, `AtHostProofs`, `BleAtClientProofs` | theorems | the module of that name (the last: and `E2eStream`, `FrameParser`) |

Each variable carries the name of the code's variable where there is one;
*history variables* record what the properties speak of and are declared apart.
Each action is named after its handler. An operator headed *Slip* is a
plausible mistake in the definition that follows it; no specification uses
one, and `PROJECT.json` says which property each is meant to break.

**DataPlane.** A byte is its number among the bytes the host has sent. The
escape filter holds back up to three pluses; whether the guard time has passed
is the Boolean `quiet` instead of a clock, with the one timing assumption that
the guard time (1000 ms) outlasts the 1 ms coalesce timer and queued work
(`GuardElapse`). `profile_manager_send` is external to it and returns any of
`SendResults`. The bytes the peer receives, those lost to a full ring, and
whether a send has failed are history.

**EscapeTime.** The same filter, with `k_uptime_get()`, `last_host_rx_time_ms`
and the guard timer as numbers of ticks, and without the ring: the bytes it
lets through are recorded. The work queue may be late by `MaxLate`. The clock
may tick between the two readings that `handle_data_mode_rx` makes of it
(`FourthPlusStartsAnew`); the unsigned comparison of main.c:518 is
`GuardPassed`.

**UartTx.** A control line is a body and a line ending, put to the ring one
after the other and each cut off on its own, as `queue_ctrl_line` does. One
item of `ctrl_tx_ring` stands for a whole body; the transmit interrupt moves
any number of items up to a chunk, since `uart_fifo_fill` may take part of
what it is offered (it takes at least a byte when the transmitter is ready).

**BleLink.** A handle is named by the profile against which it was matched, so
that a change of profile during or after discovery is visible. `att` is the set
of procedures the stack has outstanding, `link` its view of the connection. The
stack is external: it calls back once per procedure, aborts what is outstanding
when the link is lost and then calls `disconnected`, in that order.
`auto_subscribe`, `auto_mtu` and `allow_data_mode` are TRUE: no command changes
them. `bt_conn_disconnect` fails only when the link is going already. The stack
looks up the CCC by itself (`BT_GATT_AUTO_DISCOVER_CCC_HANDLE`): `att` has the
steps `"ccc"` and `"subscribe"`, and a CCC that is missing (`CccMissing`) is
reported by `notify(NULL)` alone, as is a subscription that is dropped.

**AtHost.** Bytes stand for themselves only where lines and payloads must be
told apart: the two line endings and the letters of `AT`, which decide whether
what a restarted host writes is taken for a command or for the payload its
predecessor still owed. Any other command is one item. `BeginCall` is a call of
`at_host_rx_bytes` for a chunk of any length, `left` what it has not looked at
yet; one turn of its loop is one action, by what the byte is to the parser.
What a call answers is transmitted after it, so the host moves between calls.
`SplitsEnding` says whether a chunk may end between CR and LF. The host is
`ble_at.py` (`_write_line`, `send`, `_wait_ok`, `sync_control_mode`): it awaits
each answer, may stop between any two steps, and its successor polls with `AT`.

**SettingsStore.** Three groups of keys (profile 3, MTU 1, connection
parameters 4). Flash stores one key atomically (NVS); between saves a reboot or
a failing save can intervene. `promised` records the updates answered with
`+OK`; `link` is the parameters the standing connection runs with, which
`op_set_conn_params` updates before the configuration.

**ScanCache.** `scanned_devices` is the sequence of its valid entries. An
advertising report is a sequence of fields, named, malformed or other; a name
is a sequence of characters, cut off at `NameMax`. `lines` is all that is on
its way to the caller of `scan()` and `connect()`: lines of a scan it gave up
on are still in front of the answer to the next one, and so are the error lines
of the link's callbacks (`ErrorSaid`), which answer nothing. `Say` may cut a
line off anywhere, as `queue_ctrl_line` does when `ctrl_tx_ring` is full; what
stands without its ending is `torn`, and the next line joins it. When the ring
is full is left open. Of link and timer, which are the subject of `BleLink`,
there is what speaks to the host. `misled` remembers whether another answer was
in the queue when the caller wrote its command.

**BleAtClient.** `input` is the serial line towards the client. A text line is
a symbol and two line endings; the exit line has two symbols, so that reads can
cut it in three places, and the peer's stream may contain beginnings of it. It
may not contain the exit line or an answer (`StreamAssumption`): the protocol
signals in band, and the client takes either for the firmware's. The reader's
loop is split at its reads and between the effects its caller can see, and text
is handled byte by byte, also what follows the exit line in a chunk.
`read(256)` returns any part of what has come. The caller is at a place
`pc`; a wait ends without a line only when none is to come, since the timeouts
are seconds and answers take milliseconds. `sync_control_mode` waits for all
its attempts together: they end when the time does, so there is one. The
firmware answers as `DataPlane`, `UartTx` and `AtHost` have it, in one step;
its faults (a lost link, a missed escape, an indication nobody asked for) and a
killed client count towards `MaxFaults`. An `+ERR` nobody asked for is left out,
since it takes a procedure of the link still under way and `connect()` is over
when `enter_data_mode` is called; what remains is an automatic MTU exchange
that ends after `+IND=BLMN`, and fails. `_wait_ok` would take its line for the
answer, and the program would end and be started again; `sync_control_mode`
waits for `+OK` only.

**FrameParser, E2eStream.** A frame is a magic of two bytes, a number and one
payload byte that repeats it; `Parse` is the loop of `feed`, `FramesOf` a
reference that reads a whole stream from left to right, without a buffer and
without a search. Both are recursive functions of a byte sequence. `E2eStream`
feeds it what the reader delivers, in the same step.

## The runs

| Run | Bounds | What it shows |
| --- | --- | --- |
| `data_plane` | ring of 3 bytes, receive buffer 2, payload lengths 2 and 3, 6 bytes from the host, sends ok/busy/error | safety, liveness, and that it implements `ByteStream` |
| `refused_send` | ring 5, 6 bytes | **violated**: after a refused write the bytes behind it are sent |
| `paused_at_exit` | ring 5, 6 bytes | **violated**: leaving data mode while paused leaves the receive interrupt off |
| `escape_time` | guard time 2 ticks, lateness 1, 8 ticks, 7 bytes | which `+++` leaves data mode and which does not, how long bytes are held back, that none is lost |
| `uart_tx` | control ring of 5 items, stream ring of 2 bytes, chunk 3, 6 lines, 3 notified bytes | safety and activation of data mode |
| `uart_tx_binary` | the same | **violated**: text lines appear inside the binary stream |
| `ble_link` | two profiles, two configured MTUs, three link MTUs, scan stops that may fail | consistency of state, connection, profile and flags; `LinkSession`; sessions resolve unless the subscription is given up in silence, and nothing else is silent; scans end unless a stop is refused |
| `settings` | two profiles, three MTUs (one refused), three parameter sets | acknowledged updates survive reboots; which configurations can still connect; when link and configuration agree |
| `at_host` | line buffer of 3 bytes, chunks up to 4, `AT+SEND` of 1 and of 5 bytes, any number of commands and restarts | commands leave nothing behind, payloads arrive as written, a restarted host recovers |
| `at_host_split` | the same, chunks end anywhere | **violated**: the LF behind `AT+SEND` becomes payload |
| `scan_cache` | three devices (exchangeable: symmetry), two slots, names up to two characters, reports with a hidden and with a too long name; one error line that answers nothing, one line cut off | the cache is exact; `scan()` returns its own scan's devices and all of them, unless answers, results or its end go astray, and then no others |
| `e2e_stream` | streams with frames, garbage and beginnings of the exit line; one session in the whole run, two faults | the stream is delivered exactly, control means control, frames are found exactly, a client comes back |

Why these bounds are enough. In the data plane the interesting distances are:
a short, a full and a longer-than-a-chunk ring; a buffer that fits and one that
does not; three held-back pluses flushed into a full ring; and a second
session after a first. A ring of three with chunks of two and three and six
bytes reaches all of them, wrap-around included. In `EscapeTime` a guard time
of two ticks tells less than, equal to and more than it apart, seven bytes
hold two escapes, or one behind a stray plus, and eight ticks the quiet on both
sides of them. In `UartTx` six lines and three bytes allow two data mode
sessions, a control ring that overflows between a body and its ending, and a
stream that overflows. `BleLink` has no unbounded counter: the run
explores it completely, over any number of connections. `ScanCache` counts only
what goes wrong with lines, enough for answers that are late by one command and
for a line that joins what a cut-off one has left; scans there are any number
of, and one device more than slots.
`SettingsStore` has no such counter. In `AtHost` the
line buffer just holds a command and not the overlong line, a chunk can end at
any byte of a command, and the payload of five outlasts one poll (`AT`, CR,
LF), so that polls are swallowed whole and in part. Two faults let a client be
killed in data mode and its successor's escape be missed.

The bounds stop the environment (bytes the host sends, lines that are queued),
never a step the program owes.

### Fairness

- `DataPlane`: the work queue runs what is submitted and timers expire; the
  receive callback runs and ends. The host owes nothing. Once a send has been
  refused nothing is promised: the pump retries for ever, on a claim that is
  not given back (finding 1), so `DeliveredEventually` and `ReceptionResumes`
  excuse a connection with a refused send.
- `UartTx`: an enabled transmit interrupt is served and the host reads. A host
  that sends commands without end could postpone the activation for ever; the
  bound on lines excludes it.
- `AtHost`: received bytes are handled, and a host that polls keeps polling and
  reading. It may still be restarted; a host in `sync` that is replaced is
  again in `sync`.
- `BleLink`: the scan timer expires, calls into the stack return, and discovery
  procedures end (ATT has a 30 s transaction timeout). Connection attempts,
  peripherals and the host owe nothing.
- `E2eStream`: the client's two threads run, the firmware answers what it has
  read, and a program that ended on an exception is started again. Faults, and
  the peer, owe nothing.

### What the runs found

1. `refused_send`. After a refused `profile_manager_send` (main.c:593-598) the
   claim is not given back with a finish of 0, so the retry sends the bytes
   *behind* the refused ones and then consumes the refused ones. `ByteStream`
   therefore promises a connection only up to its first refused write.
2. `paused_at_exit`. `clear_data_mode_session` clears `control_rx_paused`
   (main.c:200) before `refresh_uart_rx_flow_control` looks at it: commands are
   no longer read after leaving data mode with reception paused.
3. `uart_tx_binary`. MTU, link parameter and error callbacks write text lines
   into data mode's binary stream.
4. `at_host_split`. `skip_payload_line_ending` is local to a call (at_host.c:504):
   if the receive callback reads up to the CR of `AT+SEND`, the LF it reads next
   is the first byte of the payload, and the payload's last byte is left for the
   next line.

### What the code does, and a property says by leaving it out

- `AT+SETSVCUUID` on a standing connection is not followed by a new discovery
  (main.c:763); the handles remain those of the old profile.
- A power loss between saves of the connection parameters can leave a
  configuration with which `AT+STARTCON` always fails and which no command can
  repair without a connection. `ConnectableUnlessTorn` says that nothing else
  leads there, `RefusedParamsStay` that nothing but a new acknowledged update
  leads out.
- A configuration refused by the range check, or not saved, has already been
  applied to the link (main.c:820): `LinkMatchesConfig` excuses it.
- A stray plus spoils the quiet before an escape: its flush a guard time later
  counts as activity of the host (main.c:421). README's "quiet for about
  1000 ms" is then not enough; `EscapeNotMissed` promises every other escape.
- A fourth plus that arrives in the tick in which the first three are flushed
  starts a new candidate without any quiet before it: `ExitIsDeliberate` has
  three more pluses as its only exception.
- `AT+STARTSCAN` during a scan joins it. The caller may have thrown away its
  first results: `ResultsExact` promises all devices only to the others.
- A characteristic without a CCC, or a discovery of it that fails, leaves the
  host without a line: `notify_handler` clears `ready` (profile_manager.c:76)
  and tells nobody, and `connect()` waits for its timeout. `SessionResolves`
  excuses it, `SilenceIsUnsubscribed` says that nothing else is silent.
- After an `+ERR` that nobody asked for (main.c:933, 953), the client takes each
  answer for that to the next command: `scan()` raises and leaves its lines, and
  the next `scan()` takes the old `+OK` and returns the old scan's devices.
  `ResultsExact` excuses every command that finds an answer already in the
  queue; only `sync_control_mode`, which empties it, sets this right.
- A line that is cut off (main.c:162) may be an answer, a result or `+IND=SCED`,
  and may take the next line with it: `scan()` then raises, times out or returns
  too few devices. It still returns no other scan's (`ResultsExact`).
- A device with a comma in its name makes `scan()` raise `ValueError`
  (`ScanRaises`) whenever it is in range.
- `recover_control_mode` fails once over a line that begins with an earlier
  `+++`, since `+++AT` is answered with `+ERR`; the next try succeeds
  (`ComesBack`).
- A client that lost its link in data mode waits for an exit line that never
  comes. Its flags stay set and `recover_control_mode` raises `RuntimeError`.
- Bytes of the stream read before the caller sets `_data_mode` become text
  lines; `StreamExact` counts from the moment it is set, give or take the byte
  of a read under way.

## The proofs

Everything below holds for every value of the constants, from their named
assumptions only. Each module proves one inductive invariant; the checked
properties alone are not inductive.

`DataPlaneProofs`, for every ring size, buffer size, set of payload lengths,
outcome of the sends and bound:

- `TypeCorrect`: the type invariant with room for the host's bytes;
- `DropsBounded`: no handler loses more than three bytes. While a buffer is
  handled one must know that what is left of it, what is held back and what is
  already lost fit the space plus three (`Lossless`), which the check for a
  whole buffer of space establishes;
- `FlowControlConsistent`: in data mode the pause flag and the interrupt agree.
  It needs that outside data mode nothing is flagged as paused - the very
  reset that makes finding 2 possible;
- `NothingForgotten`: unclaimed bytes are never left without the pump, a timer
  or a handler that will schedule one. The invariant `WakeInv` adds when the
  pump's claim equals its chunk (`Claimed`), who is due (`Woken`) and that a
  quiet host, or another mode, means an empty ring (`Settled`): the last is
  where the timing assumption on the guard enters;
- `NoLeftover`: a session starts with an empty ring, unless a send was refused.

That `DataPlane` implements `ByteStream` builds on these invariants and adds
`StreamInv`:

- `StreamKeepsOrder`: what the peripheral has, followed by what the ring holds,
  is the host's bytes in order, each once, until a send is refused. A put
  appends to that sequence (`OfferCarries`), a send moves the border in it
  (`SendCarries`), and a send that returns after its connection has ended
  consumes nothing (`LateSend`), because by then nothing is claimed. That the
  chunk under way is the oldest of the ring is `ChunkIsClaim`;
- `ByteStreamImplemented`: with it, every step is one of `ByteStream` or leaves
  the stream alone.

`UartTxProofs`, for every size of rings, chunk and notifications, from
`UartInv`:

- `NoKickLost`, `TypeCorrect`;
- `MarkersEnclose`: the stream appears between its markers, in order and at
  most once. `MarkerInv` follows the opening marker from the control ring to
  the host (`Marked`) and says which bytes may be in the stream's ring until
  then; `OrderInv` orders what was received before what is in the ring;
- `SessionsApart`: `FreshInv` keeps the bytes of an ended session out of the
  ring when the next one begins.

`EscapeTimeProofs`, for every guard time, lateness and length of the session,
from `FilterInv`:

- `DeliberateExit`, `NoEscapeMissed`, `BriefHold`, `FilterFaithful`,
  `TypeCorrect`. `ClockInv` relates the timer to `last_host_rx_time_ms`,
  `HeldInv` the candidate to the last bytes received, `QuietInv` and
  `CandidateInv` what quiet went before it: the property at the exit is about
  a byte three steps back, and must be carried along since then.

`BleLinkProofs`, for every set of profiles, configured and exchanged MTUs, and
whether or not the stack refuses to stop a scan, from `LinkInv`:

- `TypeCorrect`, and with it that `payload_len` never leaves 20..256;
- `ConnectionConsistent`: `app_state`, `current_conn` and the stack agree;
- `ReadyProfileResolved`, `BusyFlagsExact`, `ChunksFitMtu`;
- `NoOtherSilence`: a link that was announced, and whose host has been told
  nothing more, has its discovery under way, or its subscription was given up;
- `LinkSessionImplemented`: the refinement of `LinkSession`, by showing that
  each step of `BleLink` is a step of the session or leaves its phase alone.

  A scan or a create under way needs `Owner` (no connection while creating, none
  of the stack's procedures without a link); a discovery that ends needs
  `Progress` (one step at a time, and what the steps before it found); an
  aborted write must not report a failure after the profile was reported ready,
  which is in `Told`.

`SettingsStoreProofs`, for every set of profiles, MTUs and parameters, whenever
saves fail and power is lost: `AcknowledgedSurvives` (from `PromiseInv`),
`ConnectableAgain` and `RefusalLasts` (from `ParamsInv`), `LinkFollowsConfig`,
`TypeCorrect`.

`ScanCacheProofs`, for every set of devices and reports, every number of slots,
and any number of error lines and cut-off lines, from `ScanInv`:
`CacheFaithful`, `ResultsFaithful`, `AddressesReturn`, `TypeCorrect`. The queue
may hold lines of an abandoned scan in front of an answer; `Fresh` says which
lines `scan()` will collect: those behind the first `+OK`. If no answer was in
the queue when the command was written, that is never a line of before it, so
`OnlyAnnounced` holds: what is fresh or collected this scan has announced. A
line that joined another's beginning is no result line (`TornKept`).
`AllAnnounced`, without lines cut off and for a scan that was not joined: the
fresh lines and the results together are all that was announced, and nothing is
announced behind `+SCED`. `AddressesReturn` is about a conversion both ways (what
`scan()` prints, `connect()` can be given), and is proved only.

`AtHostProofs`, for every capacity of the line buffer, chunk and set of payload
lengths:

- `BuffersBounded`, over chunks of any length and whatever the host does;
- `CommandLeavesNothing` and `PayloadArrives`, for a host that was never
  restarted and with `SplitsEnding` FALSE (finding 4 is what happens otherwise).
  `Phase` names the six stages host and parser go through together. The
  assumption is used in one place, at the CR (`EndOfLine`): the LF behind it is
  in the same call, and is skipped or ends an empty line before the host sees
  the answer.

`BleAtClientProofs`, for every set of streams without an answer or an exit line
in them, and any number of sessions and faults, from `Inv`:

- `StreamComplete`: in data mode, what was handed over, the exit buffer, the
  chunk and the line are what the firmware has sent since the flag was set
  (`Carried`), give or take the byte of a read that was under way. That only the
  exit line's beginning is held back, and nothing of it handed over, rests on
  `OneExit` (the line is heard once, as a whole) and `EndsBefore`, and on what
  `_pending_exit_prefix_len` and `find` return (`PrefixHeld`, `ExitSearched`);
- `ControlRegained`: an answer is one of the symbols in a pipe from the
  firmware over the line, the chunk and the line buffer to the queue, and
  `AnswerInv` says which are in it at each place of the caller. What makes an
  `+OK` the answer to the `AT` before it is `OkIsLast`: behind an `+OK` there
  are only indications, and `AT` is written after queue and line buffer were
  emptied. `RequestInv` says when a request may still be under way;
- `EnterInv` connects the two: from the answer to `AT+ENTERDATAMODE` until the
  flag is set, `+IND=DATAMODE,1` is ahead in the line, in the line buffer or
  behind, and what follows it is what the session has heard;
- `TypeCorrect`; `HandlerFollows`: the test's data handler adds no behaviour, so
  that these hold under `E2eSpec`, which the run checks.

- `FramesFound`: the frames found are those of the data handed over, for streams
  of any length in pieces of any size. `FrameInv` says more than `FramesExact`:
  the frames found and what is left in the buffer stand for all that was read,
  *whatever comes next* (`Covers`), and fewer bytes are left than a frame has. A
  piece preserves it because the loop of `feed` does (`Resumes`): bytes without a
  magic hold no frame (`SkippedFrames`), a candidate is as valid with more bytes
  behind it as without (`ValidJoined`), and an invalid one loses one byte on both
  sides. Induction on the stream is by a shortest counterexample (`Shortest`,
  from `Least`), since the library's induction theorems take an operator as a
  parameter; that the recursive functions satisfy their equations at all is
  `Recursion`, proved the same way.

Only model-checked: liveness everywhere, which is out of the prover's reach.

## What is not modelled

Formatting and parsing of lines, addresses and UUIDs, which command a line
holds (`AtHost` tells apart `AT`, `AT+SEND` and the rest); statistics of the
firmware and of the test; the optional PHY and data length requests; LEDs, USB
enumeration and start-up before DTR, which is straight-line; the example
scripts `scan.py`, `loop_test.py` and `stress.py`; the pacing of the test's
sender: frames it counts as outstanding that an earlier run left in the peer
can stall its `echo_gated` mode, which is a matter of its arguments and not of
a protocol; `drain_stream` and `read_stream`, which take from a queue that
nothing else reads; the contents of the firmware directory.

## Plan

1. Done: every component with state of its own, and the proofs above.
2. Composition of `DataPlane` and `UartTx` with `BleLink` at the mode changes;
   each of them has the other's part of it as an environment now, and the
   client has all three as one firmware.
3. `AtHost` as a refinement of a reader of whole commands.
