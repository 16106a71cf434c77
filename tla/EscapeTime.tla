----------------------------- MODULE EscapeTime -----------------------------
(***************************************************************************)
(* The escape filter of main.c against the clock: which `+++` leaves data  *)
(* mode, and when.  DataPlane has the same filter without times, where     *)
(* what it flushes shares a ring with everything else; here the bytes that *)
(* leave the filter are simply recorded, and last_host_rx_time_ms, the     *)
(* guard timer and the clock have values.                                  *)
(*                                                                         *)
(* Time is counted in ticks of k_uptime_get().  The handlers do not yield, *)
(* so each is one action; but the clock may tick between two readings of   *)
(* it in one handler, and the work queue may run an expired timer late.    *)
(***************************************************************************)
EXTENDS Integers, Sequences

CONSTANTS
    Guard,     \* stream_guard_time_ms, in ticks
    MaxLate,   \* bound: how long the work queue may take to run an expired timer
    MaxTime,   \* bound: the clock
    MaxBytes   \* bound: bytes the host sends in a session

ASSUME TimesAssumption ==
    /\ Guard \in Nat \ {0}
    /\ MaxLate \in Nat /\ MaxTime \in Nat /\ MaxBytes \in Nat

VARIABLES
    uptime,        \* k_uptime_get()
    data_mode,     \* app_state = APP_STATE_DATA_MODE
    count,         \* escape_state.count; escape_state.active is count > 0
    last_host_rx,  \* last_host_rx_time_ms
    timer          \* when escape_guard_work expires, or Off

\* History variables.
VARIABLES
    entered,       \* when the session began
    sent,          \* the bytes of the session, each a plus or not
    at,            \* when each of them was handled
    payload,       \* the bytes the filter has let through
    flushed,       \* when the guard timer last flushed a candidate, or Never
    exit           \* how the last session ended: "escape", "lost" or "none" yet

filter  == <<count, last_host_rx, timer>>
history == <<entered, sent, at, payload, flushed, exit>>
vars    == <<uptime, data_mode, filter, history>>

Off   == -1
Never == -1

Plus  == "+"
Other == "x"
Pluses(k) == [i \in 1..k |-> Plus]

\* Slip: `>` for `>=`.
GuardPassedStrictly(t, last) == t < last \/ t - last > Guard

\* (uint64_t)(t - last_host_rx) >= guard: the difference of two int64_t is huge,
\* not negative, when t is the earlier of the two.
GuardPassed(t, last) == t < last \/ t - last >= Guard

----------------------------------------------------------------------------
Init ==
    /\ uptime = 0
    /\ data_mode = FALSE
    /\ count = 0
    /\ last_host_rx = 0
    /\ timer = Off
    /\ entered = 0
    /\ sent = <<>> /\ at = <<>>
    /\ payload = <<>>
    /\ flushed = Never
    /\ exit = "none"

\* An expired timer is handled at most MaxLate ticks later.
Tick ==
    /\ uptime < MaxTime
    /\ timer # Off => uptime < timer + MaxLate
    /\ uptime' = uptime + 1
    /\ UNCHANGED <<data_mode, filter, history>>

\* activate_pending_data_mode_if_ready: the session starts unquiet.
Activate ==
    /\ ~data_mode
    /\ data_mode' = TRUE
    /\ count' = 0
    /\ last_host_rx' = uptime
    /\ entered' = uptime
    /\ sent' = <<>> /\ at' = <<>> /\ payload' = <<>>
    /\ flushed' = Never /\ exit' = "none"
    /\ UNCHANGED <<uptime, timer>>

----------------------------------------------------------------------------
\* handle_data_mode_rx for the next byte of the host, with now = uptime.

Receive(b) ==
    /\ data_mode /\ Len(sent) < MaxBytes
    /\ sent' = Append(sent, b)
    /\ at' = Append(at, uptime)
    /\ UNCHANGED <<data_mode, entered, flushed, exit>>

\* A plus that starts or extends a candidate is held back and arms the guard timer,
\* at a time t not before now.
Hold(k, t) ==
    /\ count' = k
    /\ last_host_rx' = uptime
    /\ timer' = t + Guard

\* Slip: a candidate may start at any time.
StartsUnguarded ==
    /\ Receive(Plus)
    /\ count = 0
    /\ Hold(1, uptime)
    /\ UNCHANGED <<uptime, payload>>

CandidateStarts ==
    /\ Receive(Plus)
    /\ count = 0
    /\ GuardPassed(uptime, last_host_rx)
    /\ Hold(1, uptime)
    /\ UNCHANGED <<uptime, payload>>

\* Slip: the timer cancelled for the new byte is not armed again.
GrowsUnarmed ==
    /\ Receive(Plus)
    /\ count \in {1, 2}
    /\ count' = count + 1
    /\ last_host_rx' = uptime
    /\ timer' = Off
    /\ UNCHANGED <<uptime, payload>>

CandidateGrows ==
    /\ Receive(Plus)
    /\ count \in {1, 2}
    /\ Hold(count + 1, uptime)
    /\ UNCHANGED <<uptime, payload>>

\* Slip: the byte that ends a candidate overtakes it.
PassOvertaking(b) ==
    /\ payload' = Append(payload, b) \o Pluses(count)
    /\ count' = 0
    /\ timer' = IF count > 0 THEN Off ELSE timer
    /\ last_host_rx' = uptime

\* What is held back, then the byte itself, become payload.
Pass(b) ==
    /\ payload' = Append(payload \o Pluses(count), b)
    /\ count' = 0
    /\ timer' = IF count > 0 THEN Off ELSE timer
    /\ last_host_rx' = uptime

\* A byte that can neither start nor extend a candidate.  The flush reads the
\* clock again, but last_host_rx is then set back to now.
PayloadByte ==
    \E b \in {Plus, Other} :
        /\ Receive(b)
        /\ b = Plus => \/ count = 0 /\ ~GuardPassed(uptime, last_host_rx)
                       \/ count = 3
        /\ Pass(b)
        /\ UNCHANGED uptime

\* A fourth plus, when the clock ticks between `now` and the flush of the first
\* three: now lies before last_host_rx_time_ms, and a new candidate starts.
FourthPlusStartsAnew ==
    /\ Receive(Plus)
    /\ count = 3
    /\ uptime < MaxTime
    /\ GuardPassed(uptime, uptime + 1)
    /\ payload' = payload \o Pluses(3)
    /\ Hold(1, uptime + 1)
    /\ uptime' = uptime + 1

----------------------------------------------------------------------------
\* escape_guard_work_handler.
Expired == timer # Off /\ uptime >= timer

Leave(how) ==
    /\ data_mode' = FALSE
    /\ count' = 0 /\ timer' = Off
    /\ exit' = how
    /\ UNCHANGED <<uptime, last_host_rx, entered, sent, at, payload, flushed>>

\* Three pluses, and the guard time has passed since the last: exit_data_mode.  The
\* handler would be armed again if it had not, but no byte comes without arming it.
Recognized ==
    /\ Expired /\ count = 3
    /\ GuardPassed(uptime, last_host_rx)
    /\ Leave("escape")

\* Fewer become payload, and the flush counts as activity of the host.
Abandoned ==
    /\ Expired /\ count \in {1, 2}
    /\ payload' = payload \o Pluses(count)
    /\ count' = 0 /\ timer' = Off
    /\ last_host_rx' = uptime
    /\ flushed' = uptime
    /\ UNCHANGED <<uptime, data_mode, entered, sent, at, exit>>

\* The link is lost: clear_data_mode_session drops what is held back.
Disconnected == data_mode /\ Leave("lost")

Byte == CandidateStarts \/ CandidateGrows \/ PayloadByte \/ FourthPlusStartsAnew
Next == Tick \/ Activate \/ Byte \/ Recognized \/ Abandoned \/ Disconnected

Spec == Init /\ [][Next]_vars

----------------------------------------------------------------------------
Times == 0..MaxTime

TypeOK ==
    /\ uptime \in Times
    /\ data_mode \in BOOLEAN
    /\ count \in 0..3
    /\ last_host_rx \in Times
    /\ timer \in Nat \cup {Off}
    /\ entered \in Times
    /\ sent \in Seq({Plus, Other}) /\ Len(sent) <= MaxBytes
    /\ at \in Seq(Times) /\ Len(at) = Len(sent)
    /\ payload \in Seq({Plus, Other})
    /\ flushed \in Times \cup {Never}
    /\ exit \in {"none", "escape", "lost"}

\* The host was quiet for the guard time before its i-th byte.
QuietBefore(i) ==
    at[i] - (IF i = 1 THEN entered ELSE at[i - 1]) >= Guard

\* The last k bytes of the host are pluses.
EndsInPluses(k) ==
    /\ Len(sent) >= k
    /\ \A i \in (Len(sent) - k + 1)..Len(sent) : sent[i] = Plus

\* Data mode is left only after `+++` and a guard time of quiet on both sides of it.
\* The quiet before may be missing only if three pluses went before: a fourth plus
\* in the tick of the flush starts a candidate with no quiet at all.
ExitIsDeliberate ==
    exit = "escape" =>
        /\ EndsInPluses(3)
        /\ uptime - at[Len(at)] >= Guard
        /\ QuietBefore(Len(at) - 2) \/ EndsInPluses(6)

\* A guard time, the lateness of the work queue, and a tick if the clock ticked in the
\* handler that armed the timer.
HeldAtMost == Guard + MaxLate + 1

\* The quiet before the i-th byte does not count as such: a plus before it was still
\* held back, or the guard timer flushed one less than a guard time ago.
StrayPlusBefore(i) ==
    \/ flushed # Never /\ at[i] - flushed < Guard
    \/ i > 1 /\ sent[i - 1] = Plus /\ at[i] - at[i - 1] <= HeldAtMost

\* `+++` after the guard time of quiet is always a candidate whose timer runs, unless
\* a stray plus spoils the quiet: the filter misses no other escape.
EscapeNotMissed ==
    (data_mode /\ EndsInPluses(3) /\ QuietBefore(Len(at) - 2)
               /\ ~StrayPlusBefore(Len(at) - 2)) => count = 3

\* What the filter holds back is decided at most HeldAtMost after its last byte:
\* the guard timer always runs when something is held, and is always the latest one.
HeldBriefly ==
    count > 0 => /\ timer # Off
                 /\ uptime <= at[Len(at)] + HeldAtMost

\* The filter neither loses, invents nor reorders a byte: the payload and what is held
\* back are what the host sent, and a recognised escape takes away its three pluses.
PayloadIsStream ==
    /\ data_mode => payload \o Pluses(count) = sent
    /\ exit = "escape" => payload \o Pluses(3) = sent
=============================================================================
