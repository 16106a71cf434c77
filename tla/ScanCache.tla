------------------------------ MODULE ScanCache ------------------------------
(***************************************************************************)
(* Scanning for peripherals: AT+STARTSCAN, device_found and scanned_devices*)
(* of main.c, together with scan() of ble_at.py, which collects the lines  *)
(* they give rise to, and connect(), which shares its queue of lines.      *)
(*                                                                         *)
(* A command is handled when it is written.  Its caller takes the first    *)
(* +OK or +ERR in the queue for the answer: usually it is, but the link's  *)
(* callbacks say +ERR too, without being asked, and such a line may be in  *)
(* front of it.  Lines are cut off when ctrl_tx_ring is full; those that   *)
(* get through reach the queue in order.  A deadline (10 s) passes only    *)
(* when no line is on its way.                                             *)
(*                                                                         *)
(* Every entry is written once and stays until the next scan, so the used  *)
(* part of scanned_devices is a sequence.  Signal strength is reported at  *)
(* the first sighting only and is left out.                                *)
(***************************************************************************)
EXTENDS Naturals, Sequences, FiniteSets

CONSTANTS
    Addrs,        \* the addresses peripherals advertise
    TypeOf,       \* the type of each: BT_ADDR_LE_...
    Adverts,      \* contents of advertising reports: sequences of AD fields
    Prefixes,     \* name prefixes the caller scans for; <<>> is none
    Slots,        \* MAX_SCANNED_DEVICES
    NameMax,      \* BLE_HOST_NAME_MAX_LEN - 1
    StartResults, \* outcomes of bt_le_scan_start: "ok", "error"
    StopResults,  \* outcomes of bt_le_scan_stop: "ok" (-EALREADY too), "error"
    MaxErrors,    \* bound: error lines that answer nothing
    MaxCuts       \* bound: lines cut off

ASSUME SlotsAssumption == Slots \in Nat /\ NameMax \in Nat
ASSUME BoundAssumption == MaxErrors \in Nat /\ MaxCuts \in Nat

VARIABLES
    app_state,
    scan_filter_name,
    scanned_devices,  \* the valid entries, in the order they were filled
    next_scan_index,
    scan_stop_work,   \* the scan timer is armed
    stopping,         \* its handler is inside bt_le_scan_stop
    link,             \* the stack's view: "down", "initiating", "up"
    errors            \* error lines so far that answer nothing

\* From the firmware to the caller.
VARIABLES
    lines,            \* what the caller has yet to read
    torn,             \* what a line without its ending began with, "none" if none
    cuts              \* lines cut off so far

\* The caller: where it is, the prefix it asked for, and what scan() has collected.
VARIABLES call, results

\* History variables.
VARIABLES
    sighted,          \* devices with a matching report since the scan began
    joined,           \* the caller's scan found another one under way
    misled            \* when its command was written, another answer was in the queue

scan   == <<app_state, scan_filter_name, scanned_devices, next_scan_index>>
timer  == <<scan_stop_work, stopping>>
radio  == <<link, errors>>
queue  == <<lines, torn, cuts>>
caller == <<call, results>>
seen   == <<sighted, joined, misled>>
vars   == <<scan, timer, radio, queue, caller, seen>>

----------------------------------------------------------------------------
\* Names are sequences of characters, cut off by snprintk and memcpy.
Cut(name) == SubSeq(name, 1, IF Len(name) < NameMax THEN Len(name) ELSE NameMax)

\* parse_device_name: the first name field, complete or shortened; a field whose
\* length is wrong ends the search.
ParseDeviceName(ad) ==
    LET named == {i \in DOMAIN ad : /\ ad[i].type = "name"
                                    /\ \A j \in 1..(i - 1) : ad[j].type # "malformed"}
    IN  IF named = {} THEN <<>>
        ELSE Cut(ad[CHOOSE i \in named : \A j \in named : i <= j].text)

\* matches_scan_filter: strncmp over the length of the filter.
MatchesScanFilter(name) ==
    /\ Len(name) >= Len(scan_filter_name)
    /\ SubSeq(name, 1, Len(scan_filter_name)) = scan_filter_name

Listed == {scanned_devices[i].addr : i \in DOMAIN scanned_devices}

\* Slip: the last slot is not used.
FreeSlotShort == Len(scanned_devices) + 1 < Slots

FreeSlot == Len(scanned_devices) < Slots

\* ble_host_addr_type_to_wlt and ble_host_addr_type_from_wlt: the numbers of the
\* host's protocol; what has none is printed as random.
WltTypes == <<"PUBLIC", "RANDOM", "PUBLIC_ID", "RANDOM_ID">>

KnownTypes == {WltTypes[i] : i \in DOMAIN WltTypes}

ToWlt(type) == IF type \in KnownTypes THEN (CHOOSE i \in 1..4 : WltTypes[i] = type) - 1 ELSE 1

FromWlt(wlt) == WltTypes[wlt + 1]

\* The lines: at_host_notify_scan_result, at_host_notify_scan_complete, answers.
SCDA(e) == [kind |-> "SCDA", index |-> e.index, addr |-> e.addr, name |-> e.name,
            addr_type |-> ToWlt(TypeOf[e.addr])]
SCED == [kind |-> "SCED"]
OK   == [kind |-> "OK"]
ERR  == [kind |-> "ERR"]
BLMC == [kind |-> "BLMC"]
BLMN == [kind |-> "BLMN"]

\* A line nobody waits for, and a result line that is not as it should be.
IGNORED == [kind |-> "IGNORED"]
BROKEN  == [kind |-> "BROKEN"]

Answers == {OK, ERR}

\* What the client makes of a line that begins like line and goes on like another: it
\* looks at the beginning only (startswith), but for result lines, which it splits.
Beginning(line) ==
    CASE line.kind \in {"OK", "ERR", "BLMN"} -> line.kind
      [] line.kind = "SCDA" -> "BROKEN"
      [] OTHER -> "IGNORED"

\* queue_ctrl_line: a line joins what stands in front of it without a line ending; one
\* that does not fit is cut off anywhere, and its ending does not fit either.
Say(line) ==
    \/ /\ lines' = Append(lines, IF torn = "none" THEN line ELSE [kind |-> torn])
       /\ torn' = "none"
       /\ UNCHANGED cuts
    \/ /\ cuts < MaxCuts
       /\ cuts' = cuts + 1
       /\ torn' \in IF torn = "none" THEN {"none", "IGNORED", Beginning(line)} ELSE {torn}
       /\ UNCHANGED lines

----------------------------------------------------------------------------
Init ==
    /\ app_state = "IDLE"
    /\ scan_filter_name = <<>>
    /\ scanned_devices = <<>> /\ next_scan_index = 0
    /\ scan_stop_work = FALSE /\ stopping = FALSE
    /\ link = "down" /\ errors = 0
    /\ lines = <<>> /\ torn = "none" /\ cuts = 0
    /\ call = "none" /\ results = {}
    /\ sighted = {} /\ joined = FALSE /\ misled = FALSE

----------------------------------------------------------------------------
\* scan() writes AT+STARTSCAN; op_start_scan.

Calls(op) ==
    /\ call = "none"
    /\ call' = op
    /\ results' = {}
    /\ misled' = \E i \in DOMAIN lines : lines[i] \in Answers

StartRefused ==
    /\ Calls("scan_ok")
    /\ app_state \notin {"IDLE", "SCANNING"}
    /\ Say(ERR)
    /\ UNCHANGED <<scan, timer, radio, sighted, joined>>

\* A scan under way goes on as it is, with the filter and the time it has.
StartJoins ==
    /\ Calls("scan_ok")
    /\ app_state = "SCANNING"
    /\ joined' = TRUE
    /\ Say(OK)
    /\ UNCHANGED <<scan, timer, radio, sighted>>

ClearScanCache == scanned_devices' = <<>> /\ next_scan_index' = 0

StartScan ==
    /\ Calls("scan_ok")
    /\ app_state = "IDLE"
    /\ ClearScanCache
    /\ \E prefix \in Prefixes : scan_filter_name' = Cut(prefix)
    /\ sighted' = {} /\ joined' = FALSE
    /\ \/ /\ "ok" \in StartResults
          /\ app_state' = "SCANNING"
          /\ scan_stop_work' = TRUE
          /\ Say(OK)
       \/ /\ "error" \in StartResults
          /\ Say(ERR)
          /\ UNCHANGED <<app_state, scan_stop_work>>
    /\ UNCHANGED <<stopping, radio>>

----------------------------------------------------------------------------
\* device_found, for a connectable report or a scan response that passes the filter.

Sighting(a, ad) ==
    /\ app_state = "SCANNING"
    /\ MatchesScanFilter(ParseDeviceName(ad))
    /\ sighted' = sighted \cup {a}

\* The first report of a device takes a slot and is announced.
DeviceListed ==
    \E a \in Addrs, ad \in Adverts :
        /\ Sighting(a, ad)
        /\ a \notin Listed /\ FreeSlot
        /\ LET entry == [addr |-> a, name |-> ParseDeviceName(ad), index |-> next_scan_index]
           IN  /\ scanned_devices' = Append(scanned_devices, entry)
               /\ Say(SCDA(entry))
        /\ next_scan_index' = next_scan_index + 1
        /\ UNCHANGED <<app_state, scan_filter_name, timer, radio, caller, joined, misled>>

\* Without a free slot it is forgotten.  (A known device's report changes its signal
\* strength only, not the name it was first seen with.)
DeviceForgotten ==
    \E a \in Addrs, ad \in Adverts :
        /\ Sighting(a, ad)
        /\ a \notin Listed /\ ~FreeSlot
        /\ UNCHANGED <<scan, timer, radio, queue, caller, joined, misled>>

----------------------------------------------------------------------------
\* The end of a scan: stop_scan_internal.

\* scan_stop_work_handler enters bt_le_scan_stop, which gives up the CPU.
ScanStopBegins ==
    /\ scan_stop_work
    /\ scan_stop_work' = FALSE
    /\ stopping' = TRUE
    /\ UNCHANGED <<scan, radio, queue, caller, seen>>

ScanStops ==
    /\ stopping /\ "ok" \in StopResults
    /\ stopping' = FALSE
    /\ app_state' = "IDLE"
    /\ Say(SCED)
    /\ UNCHANGED <<scan_filter_name, scanned_devices, next_scan_index, scan_stop_work, radio,
                   caller, seen>>

\* Refused, the scan goes on, and nothing will stop it but AT+STARTCON.
ScanStopFails ==
    /\ stopping /\ "error" \in StopResults
    /\ stopping' = FALSE
    /\ UNCHANGED <<scan, scan_stop_work, radio, queue, caller, seen>>

----------------------------------------------------------------------------
\* The link, as far as it speaks to the host (BleLink has the rest of it).

\* connect() writes AT+STARTCON: op_connect ends a scan without SCED.  Between the two
\* halves of the timer's handler it is the subject of BleLink.  Refused at once, by
\* bt_le_scan_stop, or by bt_conn_le_create after the scan has ended.
Connect ==
    /\ ~stopping
    /\ Calls("connect_ok")
    /\ scan_stop_work' = FALSE
    /\ \/ /\ app_state # "IDLE"
          /\ app_state = "SCANNING" => "error" \in StopResults
          /\ Say(ERR)
          /\ UNCHANGED <<app_state, link>>
       \/ /\ app_state \in {"IDLE", "SCANNING"}
          /\ \/ app_state' = "CONNECTING" /\ link' = "initiating" /\ Say(OK)
             \/ app_state' = "IDLE" /\ Say(ERR) /\ UNCHANGED link
    /\ UNCHANGED <<scan_filter_name, scanned_devices, next_scan_index, stopping, errors,
                   sighted, joined>>

LinkSays(line) ==
    /\ Say(line)
    /\ UNCHANGED <<scan_filter_name, scanned_devices, next_scan_index, timer, caller, seen>>

\* at_host_notify_function_error: an error line that answers no command.
ErrorSaid ==
    /\ errors < MaxErrors
    /\ errors' = errors + 1
    /\ LinkSays(ERR)

\* The connected callback, with an error and without.
ConnectFails ==
    /\ link = "initiating"
    /\ link' = "down" /\ app_state' = "IDLE"
    /\ ErrorSaid

Connected ==
    /\ link = "initiating"
    /\ link' = "up"
    /\ LinkSays(BLMC)
    /\ UNCHANGED <<app_state, errors>>

\* profile_ready, at most once in a connection.
ProfileReady ==
    /\ link = "up" /\ app_state = "CONNECTING"
    /\ app_state' = "CONTROL_READY"
    /\ LinkSays(BLMN)
    /\ UNCHANGED radio

\* profile_error: discovery has failed, or a write that was answered with +OK.
ProfileError ==
    /\ link = "up"
    /\ app_state' = "CONTROL_READY" /\ UNCHANGED link
    /\ ErrorSaid

\* The disconnected callback; +IND=BLMD is awaited by nobody.
Disconnected ==
    /\ link = "up"
    /\ link' = "down" /\ app_state' = "IDLE"
    /\ LinkSays(IGNORED)
    /\ UNCHANGED errors

----------------------------------------------------------------------------
\* ble_at.py: _read_until takes the queued lines one by one and drops those its
\* predicate does not ask for.

Line == Head(lines)
TakeLine == lines # <<>> /\ lines' = Tail(lines) /\ UNCHANGED <<torn, cuts>>

Answered == IF call = "scan_ok" THEN "reading" ELSE "connect_blmc"

\* Slip: the answer is taken to be the next line.
WaitOkTakesAny ==
    /\ call \in {"scan_ok", "connect_ok"}
    /\ TakeLine
    /\ call' = Answered
    /\ UNCHANGED <<scan, timer, radio, results, seen>>

\* _wait_ok, in scan() and connect(): +ERR raises RuntimeError.
WaitOk ==
    /\ call \in {"scan_ok", "connect_ok"}
    /\ TakeLine
    /\ call' = IF Line = OK THEN Answered ELSE IF Line = ERR THEN "none" ELSE call
    /\ UNCHANGED <<scan, timer, radio, results, seen>>

\* connect() waits for +IND=BLMC, then for +IND=BLMN, over everything else.
WaitLink ==
    /\ call \in {"connect_blmc", "connect_blmn"}
    /\ TakeLine
    /\ call' = CASE call = "connect_blmc" /\ Line = BLMC -> "connect_blmn"
                 [] call = "connect_blmn" /\ Line = BLMN -> "none"
                 [] OTHER -> call
    /\ UNCHANGED <<scan, timer, radio, results, seen>>

\* The line is split at its commas, the last field being what is left: with a comma
\* in the name, that field is no number.
Splits(line) ==
    /\ line # BROKEN
    /\ line.kind = "SCDA" => \A i \in DOMAIN line.name : line.name[i] # ","

\* The loop of scan(): a line seen before is skipped, SCED ends it.
CollectResults ==
    /\ call = "reading"
    /\ TakeLine
    /\ Splits(Line)
    /\ call' = IF Line = SCED THEN "returned" ELSE call
    /\ results' = IF Line.kind = "SCDA" THEN results \cup {Line} ELSE results
    /\ UNCHANGED <<scan, timer, radio, seen>>

\* ValueError: the scan itself goes on.
ScanRaises ==
    /\ call = "reading"
    /\ TakeLine
    /\ ~Splits(Line)
    /\ call' = "none"
    /\ UNCHANGED <<scan, timer, radio, results, seen>>

ScanReturns ==
    /\ call = "returned"
    /\ call' = "none"
    /\ UNCHANGED <<scan, timer, radio, queue, results, seen>>

\* TimeoutError, in any of the waits: the scan, or the connection, goes on.
TimesOut ==
    /\ call \notin {"none", "returned"} /\ lines = <<>>
    /\ call' = "none"
    /\ UNCHANGED <<scan, timer, radio, queue, results, seen>>

----------------------------------------------------------------------------
FirmwareNext == DeviceListed \/ DeviceForgotten \/ ScanStopBegins \/ ScanStops \/ ScanStopFails
CommandNext  == StartRefused \/ StartJoins \/ StartScan \/ Connect
LinkNext     == ConnectFails \/ Connected \/ ProfileReady \/ ProfileError \/ Disconnected
CallerNext   == WaitOk \/ WaitLink \/ CollectResults \/ ScanRaises \/ ScanReturns \/ TimesOut

Next == FirmwareNext \/ CommandNext \/ LinkNext \/ CallerNext

Spec == Init /\ [][Next]_vars

----------------------------------------------------------------------------
\* An entry of the cache, with the names that advertising reports can hold; the lines.
Entry == [addr : Addrs, name : {ParseDeviceName(ad) : ad \in Adverts}, index : 0..(Slots - 1)]
ResultLines == {SCDA(e) : e \in Entry}
Lines == ResultLines \cup {SCED, OK, ERR, BLMC, BLMN, IGNORED, BROKEN}

TypeOK ==
    /\ app_state \in {"IDLE", "SCANNING", "CONNECTING", "CONTROL_READY"}
    /\ scanned_devices \in Seq(Entry) /\ Len(scanned_devices) <= Slots
    /\ next_scan_index = Len(scanned_devices)
    /\ scan_stop_work \in BOOLEAN /\ stopping \in BOOLEAN
    /\ link \in {"down", "initiating", "up"} /\ errors \in 0..MaxErrors
    /\ lines \in Seq(Lines) /\ cuts \in 0..MaxCuts
    /\ torn \in {"none", "OK", "ERR", "BLMN", "BROKEN", "IGNORED"}
    /\ call \in {"none", "scan_ok", "reading", "returned",
                "connect_ok", "connect_blmc", "connect_blmn"}
    /\ results \subseteq ResultLines
    /\ sighted \subseteq Addrs /\ joined \in BOOLEAN /\ misled \in BOOLEAN

Announced == {SCDA(scanned_devices[i]) : i \in DOMAIN scanned_devices}

\* Whatever the reports, a device has one entry and one index, its name passes the
\* filter of the scan, and no device with a matching report is missed until the slots
\* are used up.
CacheExact ==
    /\ Cardinality(Listed) = Len(scanned_devices)
    /\ \A i \in DOMAIN scanned_devices :
          /\ scanned_devices[i].index = i - 1
          /\ MatchesScanFilter(scanned_devices[i].name)
    /\ app_state = "SCANNING" =>
          /\ Listed \subseteq sighted
          /\ Len(scanned_devices) < Slots => Listed = sighted

\* A scan() whose command found no answer in front of its own never collects a device of
\* an earlier scan, although lines of one that it gave up on may still be on their way,
\* whole or cut off; and one that also started its scan and returns has every device
\* that was listed, if no line was cut off.
ResultsExact ==
    ~misled =>
        /\ call \in {"reading", "returned"} => results \subseteq Announced
        /\ (call = "returned" /\ ~joined /\ cuts = 0) => results = Announced

\* AT+STARTCON with the address type as printed reaches the device, if its type is
\* among those the protocol knows.
ResultsReachable ==
    \A r \in results : TypeOf[r.addr] \in KnownTypes => FromWlt(r.addr_type) = TypeOf[r.addr]

=============================================================================
