---------------------------- MODULE ScanCacheProofs ----------------------------
(***************************************************************************)
(* The scan cache and the scan() that reads it, for every set of devices,  *)
(* contents of reports, number of slots and outcome of the stack's calls,  *)
(* and however many lines are cut off or answer nothing: the cache is      *)
(* exact, and so is what scan() returns.                                   *)
(*                                                                         *)
(* Lines of a scan its caller has given up on may stand in the queue in    *)
(* front of the answer to the next one.  The proof is about which lines    *)
(* count (Fresh): those behind the first +OK, which is the answer if no    *)
(* other was in the queue when the command was written.                    *)
(***************************************************************************)
EXTENDS ScanCache, FiniteSetTheorems, SequenceTheorems, TLAPS

\* Half a line is there only if its ending was cut off.
TornInv == cuts = 0 => torn = "none"

\* The i-th line is one scan() will collect; it will collect some.
Fresh(i) == call = "reading" \/ (call = "scan_ok" /\ \E k \in 1..(i - 1) : lines[k] = OK)
Collecting == call = "reading" \/ (call = "scan_ok" /\ \E k \in 1..Len(lines) : lines[k] = OK)

\* What is or will be collected has been announced by this scan.
OnlyAnnounced ==
    ~misled =>
        /\ call = "scan_ok" => results = {}
        /\ call \in {"reading", "returned"} => results \subseteq Announced
        /\ \A i \in 1..Len(lines) :
              Fresh(i) /\ lines[i].kind = "SCDA" => lines[i] \in Announced

\* All that this scan has announced is or will be collected, and the scan is over when
\* its last line is.
AllAnnounced ==
    (~joined /\ ~misled /\ cuts = 0) =>
        /\ Collecting =>
              /\ \A r \in Announced :
                    r \in results \/ \E i \in 1..Len(lines) : Fresh(i) /\ lines[i] = r
              /\ \A i \in 1..Len(lines) :
                    Fresh(i) /\ lines[i] = SCED =>
                        /\ app_state # "SCANNING"
                        /\ \A j \in i..Len(lines) : lines[j].kind # "SCDA"
        /\ call = "returned" => app_state # "SCANNING" /\ Announced \subseteq results

ScanInv ==
    TypeOK /\ IsFiniteSet(Listed) /\ CacheExact /\ TornInv /\ OnlyAnnounced /\ AllAnnounced

----------------------------------------------------------------------------
\* The lines are told apart by their kind.
LEMMA Kinds ==
    /\ \A l \in {SCED, OK, ERR, BLMC, BLMN, IGNORED, BROKEN} : l \in Lines /\ l.kind # "SCDA"
    /\ \A l \in {SCED, ERR, BLMC, BLMN, IGNORED, BROKEN} : l # OK
    /\ \A l \in {ERR, BLMC, BLMN, IGNORED, BROKEN} : l # SCED
    /\ \A e \in Entry : SCDA(e) \in Lines /\ SCDA(e).kind = "SCDA"
    /\ \A r \in ResultLines : r.kind = "SCDA"
    /\ \A l \in Lines : l.kind = "SCDA" => l \in ResultLines
<1>1. /\ SCED.kind = "SCED" /\ OK.kind = "OK" /\ ERR.kind = "ERR" /\ BLMC.kind = "BLMC"
      /\ BLMN.kind = "BLMN" /\ IGNORED.kind = "IGNORED" /\ BROKEN.kind = "BROKEN"
  BY DEF SCED, OK, ERR, BLMC, BLMN, IGNORED, BROKEN
<1>2. \A e \in Entry : SCDA(e).kind = "SCDA"
  BY DEF SCDA
<1>3. \A r \in ResultLines : r.kind = "SCDA"
  BY <1>2 DEF ResultLines
<1>4. \A l \in Lines : l.kind = "SCDA" => l \in ResultLines
  BY <1>1 DEF Lines
<1>5. \A l \in {SCED, OK, ERR, BLMC, BLMN, IGNORED, BROKEN} : l \in Lines /\ l.kind # "SCDA"
  BY <1>1 DEF Lines
<1>6. \A e \in Entry : SCDA(e) \in Lines
  BY DEF Lines, ResultLines
<1>7. \A l \in {SCED, ERR, BLMC, BLMN, IGNORED, BROKEN} : l # OK
  BY <1>1
<1>8. \A l \in {ERR, BLMC, BLMN, IGNORED, BROKEN} : l # SCED
  BY <1>1
<1> QED
  BY <1>2, <1>3, <1>4, <1>5, <1>6, <1>7, <1>8

\* Half a line stays no more than that, and makes no result line of what joins it.
LEMMA TornKept ==
    ASSUME TypeOK, NEW l \in Lines, Say(l)
    PROVE  /\ torn' \in {"none", "OK", "ERR", "BLMN", "BROKEN", "IGNORED"}
           /\ cuts' \in 0..MaxCuts
           /\ cuts' = 0 => cuts = 0 /\ lines' # lines
           /\ TornInv => TornInv'
           /\ torn # "none" => [kind |-> torn] \in Lines /\ [kind |-> torn].kind # "SCDA"
<1>1. /\ torn \in {"none", "OK", "ERR", "BLMN", "BROKEN", "IGNORED"}
      /\ cuts \in Nat /\ cuts <= MaxCuts /\ MaxCuts \in Nat
      /\ lines \in Seq(Lines)
  BY BoundAssumption DEF TypeOK
<1>2. Beginning(l) \in {"OK", "ERR", "BLMN", "BROKEN", "IGNORED"}
  BY DEF Beginning
<1>3. torn # "none" => [kind |-> torn] \in Lines /\ [kind |-> torn].kind # "SCDA"
  BY <1>1 DEF Lines, OK, ERR, BLMN, BROKEN, IGNORED
<1>4. CASE /\ lines' = Append(lines, IF torn = "none" THEN l ELSE [kind |-> torn])
           /\ torn' = "none" /\ cuts' = cuts
  <2>1. lines' # lines
    <3> DEFINE x == IF torn = "none" THEN l ELSE [kind |-> torn]
    <3>1. x \in Lines
      BY <1>3
    <3> HIDE DEF x
    <3>2. Len(Append(lines, x)) = Len(lines) + 1 /\ Len(lines) \in Nat
      BY <1>1, <3>1, AppendProperties
    <3>3. lines' = Append(lines, x)
      BY <1>4 DEF x
    <3> QED
      BY <3>2, <3>3
  <2> QED
    BY <1>1, <1>3, <1>4, <2>1 DEF TornInv
<1>5. CASE /\ cuts < MaxCuts /\ cuts' = cuts + 1
           /\ torn' \in IF torn = "none" THEN {"none", "IGNORED", Beginning(l)} ELSE {torn}
           /\ lines' = lines
  <2>1. cuts' \in 0..MaxCuts /\ cuts' # 0
    BY <1>1, <1>5
  <2>2. torn' \in {"none", "OK", "ERR", "BLMN", "BROKEN", "IGNORED"}
    BY <1>1, <1>2, <1>5
  <2> QED
    BY <1>3, <2>1, <2>2 DEF TornInv
<1> QED
  BY <1>4, <1>5 DEF Say

\* A line said comes last, unless it is cut off.
LEMMA Said ==
    ASSUME TypeOK, NEW l \in Lines, Say(l)
    PROVE  /\ lines' \in Seq(Lines) /\ Len(lines) \in Nat
           /\ Len(lines') \in {Len(lines), Len(lines) + 1}
           /\ \A i \in 1..Len(lines) : i \in 1..Len(lines') /\ lines'[i] = lines[i]
           /\ \A i \in 1..Len(lines') :
                 \/ i \in 1..Len(lines)
                 \/ i = Len(lines) + 1 /\ (lines'[i] = l \/ lines'[i].kind # "SCDA")
           /\ (TornInv /\ cuts' = 0) =>
                 Len(lines') = Len(lines) + 1 /\ lines'[Len(lines) + 1] = l
<1>1. lines \in Seq(Lines) /\ Len(lines) \in Nat
  BY DEF TypeOK
<1>2. CASE lines' = lines
  BY <1>1, <1>2, TornKept
<1>3. CASE lines' # lines
  <2>1. PICK x \in Lines :
           /\ lines' = Append(lines, x)
           /\ x = l \/ x.kind # "SCDA"
           /\ (torn = "none" => x = l)
    BY <1>3, TornKept DEF Say
  <2>2. /\ lines' \in Seq(Lines) /\ Len(lines') = Len(lines) + 1
        /\ \A i \in 1..Len(lines) : lines'[i] = lines[i]
        /\ lines'[Len(lines) + 1] = x
    BY <1>1, <2>1, AppendProperties
  <2>3. (TornInv /\ cuts' = 0) => x = l
    BY <2>1, TornKept DEF TornInv
  <2>4. /\ \A i \in 1..Len(lines) : i \in 1..Len(lines')
        /\ \A i \in 1..Len(lines') : i \in 1..Len(lines) \/ i = Len(lines) + 1
    BY <1>1, <2>2
  <2> QED
    BY <1>1, <2>1, <2>2, <2>3, <2>4
<1> QED
  BY <1>2, <1>3

\* The steps that say a line which is no answer and no result: the end of a scan, and the
\* link's callbacks.
Speaks == ScanStops \/ LinkNext

LEMMA Spoken ==
    ASSUME Speaks
    PROVE  /\ \E l \in {SCED, ERR, BLMC, BLMN, IGNORED} :
                 Say(l) /\ (l = SCED => app_state' = "IDLE")
           /\ app_state' = "SCANNING" => app_state = "SCANNING"
           /\ TypeOK => app_state' \in {"IDLE", "SCANNING", "CONNECTING", "CONTROL_READY"}
           /\ TypeOK => link' \in {"down", "initiating", "up"} /\ errors' \in 0..MaxErrors
           /\ TypeOK => scan_stop_work' \in BOOLEAN /\ stopping' \in BOOLEAN
           /\ UNCHANGED <<scan_filter_name, scanned_devices, next_scan_index, caller, seen>>
<1>0. TypeOK => errors \in Nat /\ MaxErrors \in Nat
  BY BoundAssumption DEF TypeOK
<1>1. CASE ScanStops
  BY <1>1 DEF ScanStops, radio, TypeOK
<1>2. CASE ConnectFails \/ ProfileError
  <2>1. /\ Say(ERR) /\ errors < MaxErrors /\ errors' = errors + 1
        /\ UNCHANGED <<scan_filter_name, scanned_devices, next_scan_index, timer, caller, seen>>
    BY <1>2 DEF ConnectFails, ProfileError, ErrorSaid, LinkSays
  <2>2. app_state' \in {"IDLE", "CONTROL_READY"} /\ (link' = "down" \/ link' = link)
    BY <1>2 DEF ConnectFails, ProfileError
  <2>3. TypeOK => errors' \in 0..MaxErrors
    BY <2>1, <1>0
  <2>4. ERR # SCED
    BY Kinds
  <2> QED
    BY <2>1, <2>2, <2>3, <2>4 DEF timer, TypeOK
<1>3. CASE Connected \/ ProfileReady \/ Disconnected
  <2>1. PICK l \in {BLMC, BLMN, IGNORED} :
           /\ Say(l)
           /\ UNCHANGED <<scan_filter_name, scanned_devices, next_scan_index, timer, caller, seen>>
    BY <1>3 DEF Connected, ProfileReady, Disconnected, LinkSays
  <2>2. errors' = errors /\ (link' \in {"up", "down"} \/ link' = link)
        /\ (app_state' \in {"IDLE", "CONTROL_READY"} \/ app_state' = app_state)
    BY <1>3 DEF Connected, ProfileReady, Disconnected, radio
  <2>3. l # SCED
    BY Kinds
  <2> QED
    BY <2>1, <2>2, <2>3 DEF timer, TypeOK
<1> QED
  BY <1>1, <1>2, <1>3 DEF Speaks, LinkNext

\* The steps of the caller that take a line.
Reads == WaitOk \/ WaitLink \/ CollectResults \/ ScanRaises

\* A line taken is the first.
LEMMA Taken ==
    ASSUME TypeOK, TakeLine
    PROVE  /\ lines' \in Seq(Lines) /\ Len(lines') = Len(lines) - 1
           /\ Len(lines) \in Nat \ {0}
           /\ Line = lines[1] /\ Line \in Lines
           /\ \A i \in 1..Len(lines') : lines'[i] = lines[i + 1]
<1>1. lines \in Seq(Lines) /\ lines # <<>> /\ lines' = Tail(lines)
  BY DEF TypeOK, TakeLine
<1> QED
  BY <1>1 DEF Line

\* A device listed is a new entry at the end of the cache.
LEMMA EntryListed ==
    ASSUME TypeOK, DeviceListed
    PROVE  \E e \in Entry :
              /\ scanned_devices' = Append(scanned_devices, e)
              /\ scanned_devices' \in Seq(Entry) /\ Len(scanned_devices') = Len(scanned_devices) + 1
              /\ \A i \in 1..Len(scanned_devices) : scanned_devices'[i] = scanned_devices[i]
              /\ scanned_devices'[Len(scanned_devices) + 1] = e
              /\ e.addr \in Addrs \ Listed /\ e.index = Len(scanned_devices)
              /\ MatchesScanFilter(e.name)
              /\ sighted' = sighted \cup {e.addr}
              /\ Say(SCDA(e)) /\ Len(scanned_devices) < Slots
              /\ next_scan_index' = next_scan_index + 1
<1>1. PICK a \in Addrs, ad \in Adverts :
         /\ Sighting(a, ad) /\ a \notin Listed /\ FreeSlot
         /\ LET entry == [addr |-> a, name |-> ParseDeviceName(ad), index |-> next_scan_index]
            IN  /\ scanned_devices' = Append(scanned_devices, entry)
                /\ Say(SCDA(entry))
         /\ next_scan_index' = next_scan_index + 1
  BY DEF DeviceListed
<1> DEFINE e == [addr |-> a, name |-> ParseDeviceName(ad), index |-> next_scan_index]
<1>2. /\ scanned_devices \in Seq(Entry) /\ next_scan_index = Len(scanned_devices)
      /\ Len(scanned_devices) \in Nat /\ Len(scanned_devices) < Slots /\ Slots \in Nat
  BY <1>1, SlotsAssumption DEF TypeOK, FreeSlot
<1>3. e \in Entry
  BY <1>2 DEF Entry
<1>4. e.addr = a /\ e.name = ParseDeviceName(ad) /\ e.index = Len(scanned_devices)
  BY <1>2
<1>5. scanned_devices' = Append(scanned_devices, e) /\ Say(SCDA(e))
  BY <1>1
<1>6. sighted' = sighted \cup {a} /\ MatchesScanFilter(ParseDeviceName(ad))
  BY <1>1 DEF Sighting
<1> HIDE DEF e
<1>7. /\ scanned_devices' \in Seq(Entry) /\ Len(scanned_devices') = Len(scanned_devices) + 1
      /\ \A i \in 1..Len(scanned_devices) : scanned_devices'[i] = scanned_devices[i]
      /\ scanned_devices'[Len(scanned_devices) + 1] = e
  BY <1>2, <1>3, <1>5, AppendProperties
<1> QED
  BY <1>1, <1>2, <1>3, <1>4, <1>5, <1>6, <1>7

----------------------------------------------------------------------------
LEMMA CommandTypes == TypeOK /\ CommandNext => TypeOK'
<1> SUFFICES ASSUME TypeOK, CommandNext PROVE TypeOK'
  OBVIOUS
<1>1. Len(scanned_devices) \in Nat /\ <<>> \in Seq(Entry) /\ Len(<<>>) = 0 /\ 0 <= Slots
  BY SlotsAssumption DEF TypeOK
<1>2. PICK l \in {OK, ERR} : Say(l)
  BY DEF CommandNext, StartRefused, StartJoins, StartScan, Connect
<1>3. lines' \in Seq(Lines) /\ cuts' \in 0..MaxCuts
      /\ torn' \in {"none", "OK", "ERR", "BLMN", "BROKEN", "IGNORED"}
  BY <1>2, Said, TornKept, Kinds
<1>4. call' \in {"scan_ok", "connect_ok"} /\ results' = {} /\ misled' \in BOOLEAN
  BY DEF CommandNext, StartRefused, StartJoins, StartScan, Connect, Calls
<1>5. scanned_devices' \in Seq(Entry) /\ Len(scanned_devices') <= Slots
      /\ next_scan_index' = Len(scanned_devices')
  BY <1>1 DEF CommandNext, StartRefused, StartJoins, StartScan, Connect, ClearScanCache,
              scan, TypeOK
<1>6. app_state' \in {"IDLE", "SCANNING", "CONNECTING", "CONTROL_READY"}
  BY DEF CommandNext, StartRefused, StartJoins, StartScan, Connect, scan, TypeOK
<1>7. scan_stop_work' \in BOOLEAN /\ stopping' \in BOOLEAN
  BY DEF CommandNext, StartRefused, StartJoins, StartScan, Connect, timer, TypeOK
<1>8. link' \in {"down", "initiating", "up"} /\ errors' \in 0..MaxErrors
  BY DEF CommandNext, StartRefused, StartJoins, StartScan, Connect, radio, TypeOK
<1>9. sighted' \subseteq Addrs /\ joined' \in BOOLEAN
  BY DEF CommandNext, StartRefused, StartJoins, StartScan, Connect, TypeOK
<1> QED
  BY <1>3, <1>4, <1>5, <1>6, <1>7, <1>8, <1>9 DEF TypeOK

LEMMA TypesKept == TypeOK /\ [Next]_vars => TypeOK'
<1> SUFFICES ASSUME TypeOK, [Next]_vars PROVE TypeOK'
  OBVIOUS
<1>1. CASE CommandNext
  BY <1>1, CommandTypes
<1>2. CASE DeviceListed
  <2>1. PICK e \in Entry :
           /\ scanned_devices' \in Seq(Entry) /\ Len(scanned_devices') = Len(scanned_devices) + 1
           /\ e.addr \in Addrs \ Listed /\ sighted' = sighted \cup {e.addr}
           /\ Say(SCDA(e)) /\ Len(scanned_devices) < Slots
           /\ next_scan_index' = next_scan_index + 1
    BY <1>2, EntryListed
  <2>2. lines' \in Seq(Lines) /\ cuts' \in 0..MaxCuts
        /\ torn' \in {"none", "OK", "ERR", "BLMN", "BROKEN", "IGNORED"}
    BY <2>1, Said, TornKept, Kinds
  <2>3. UNCHANGED <<app_state, scan_stop_work, stopping, link, errors, call, results,
                    joined, misled>>
    BY <1>2 DEF DeviceListed, timer, radio, caller
  <2>4. Len(scanned_devices') <= Slots /\ next_scan_index' = Len(scanned_devices')
    BY <2>1, SlotsAssumption DEF TypeOK
  <2> QED
    BY <2>1, <2>2, <2>3, <2>4 DEF TypeOK
<1>3. CASE DeviceForgotten
  <2>1. /\ UNCHANGED <<scan, timer, radio, queue, caller, joined, misled>>
        /\ \E a \in Addrs : sighted' = sighted \cup {a}
    BY <1>3 DEF DeviceForgotten, Sighting
  <2> QED
    BY <2>1 DEF scan, timer, radio, queue, caller, TypeOK
<1>4. CASE ScanStopBegins \/ ScanStopFails
  <2>1. /\ UNCHANGED <<scan, radio, queue, caller, seen>>
        /\ scan_stop_work' \in BOOLEAN /\ stopping' \in BOOLEAN
    BY <1>4 DEF ScanStopBegins, ScanStopFails, TypeOK
  <2>2. UNCHANGED <<app_state, scanned_devices, next_scan_index, link, errors, lines, torn,
                    cuts, call, results, sighted, joined, misled>>
    BY <2>1 DEF scan, radio, queue, caller, seen
  <2> QED
    BY <2>1, <2>2 DEF TypeOK
<1>5. CASE Speaks
  <2>1. \E l \in {SCED, ERR, BLMC, BLMN, IGNORED} : Say(l)
    BY <1>5, Spoken
  <2>2. lines' \in Seq(Lines) /\ cuts' \in 0..MaxCuts
        /\ torn' \in {"none", "OK", "ERR", "BLMN", "BROKEN", "IGNORED"}
    BY <2>1, Said, TornKept, Kinds
  <2>3. /\ app_state' \in {"IDLE", "SCANNING", "CONNECTING", "CONTROL_READY"}
        /\ link' \in {"down", "initiating", "up"} /\ errors' \in 0..MaxErrors
        /\ scan_stop_work' \in BOOLEAN /\ stopping' \in BOOLEAN
        /\ UNCHANGED <<scanned_devices, next_scan_index, caller, seen>>
    BY <1>5, Spoken
  <2> QED
    BY <2>2, <2>3 DEF caller, seen, TypeOK
<1>6. CASE Reads
  <2>1. TakeLine /\ UNCHANGED <<scan, timer, radio, seen>>
    BY <1>6 DEF Reads, WaitOk, WaitLink, CollectResults, ScanRaises
  <2>2. lines' \in Seq(Lines) /\ Line \in Lines /\ UNCHANGED <<torn, cuts>>
    BY <2>1, Taken DEF TakeLine
  <2>3. Line.kind = "SCDA" => Line \in ResultLines
    BY <2>2, Kinds
  <2>4. call' \in {"none", "scan_ok", "reading", "returned",
                   "connect_ok", "connect_blmc", "connect_blmn"}
    BY <1>6 DEF Reads, WaitOk, WaitLink, CollectResults, ScanRaises, Answered, TypeOK
  <2>5. results' \subseteq ResultLines
    BY <2>3, <1>6 DEF Reads, WaitOk, WaitLink, CollectResults, ScanRaises, TypeOK
  <2> QED
    BY <2>1, <2>2, <2>4, <2>5 DEF TypeOK, scan, timer, radio, seen
<1>7. CASE ScanReturns \/ TimesOut
  <2>1. call' = "none" /\ UNCHANGED <<scan, timer, radio, queue, results, seen>>
    BY <1>7 DEF ScanReturns, TimesOut
  <2> QED
    BY <2>1 DEF scan, timer, radio, queue, seen, TypeOK
<1>8. CASE UNCHANGED vars
  BY <1>8 DEF vars, scan, timer, radio, queue, caller, seen, TypeOK
<1> QED
  BY <1>1, <1>2, <1>3, <1>4, <1>5, <1>6, <1>7, <1>8
     DEF Next, FirmwareNext, CallerNext, Speaks, Reads

\* A device takes one slot, and as long as there is one.
LEMMA CacheKept ==
    TypeOK /\ IsFiniteSet(Listed) /\ CacheExact /\ [Next]_vars
        => IsFiniteSet(Listed)' /\ CacheExact'
<1> SUFFICES ASSUME TypeOK, IsFiniteSet(Listed), CacheExact, [Next]_vars
             PROVE  IsFiniteSet(Listed)' /\ CacheExact'
  OBVIOUS
<1>1. /\ scanned_devices \in Seq(Entry) /\ Len(scanned_devices) \in Nat
      /\ DOMAIN scanned_devices = 1..Len(scanned_devices) /\ Slots \in Nat
  BY SlotsAssumption DEF TypeOK
<1>2. ASSUME UNCHANGED <<scanned_devices, scan_filter_name, sighted>>,
             app_state' = "SCANNING" => app_state = "SCANNING"
      PROVE  IsFiniteSet(Listed)' /\ CacheExact'
  BY <1>2 DEF Listed, CacheExact, MatchesScanFilter
<1>3. CASE StartScan
  <2>1. scanned_devices' = <<>> /\ sighted' = {}
    BY <1>3 DEF StartScan, ClearScanCache
  <2>2. DOMAIN scanned_devices' = {} /\ Len(scanned_devices') = 0
    BY <2>1
  <2>3. Listed' = {}
    BY <2>2 DEF Listed
  <2> QED
    BY <2>1, <2>2, <2>3, FS_EmptySet DEF CacheExact
<1>4. CASE DeviceListed
  <2>1. PICK e \in Entry :
           /\ scanned_devices' \in Seq(Entry) /\ Len(scanned_devices') = Len(scanned_devices) + 1
           /\ \A i \in 1..Len(scanned_devices) : scanned_devices'[i] = scanned_devices[i]
           /\ scanned_devices'[Len(scanned_devices) + 1] = e
           /\ e.addr \in Addrs \ Listed /\ e.index = Len(scanned_devices)
           /\ MatchesScanFilter(e.name)
           /\ sighted' = sighted \cup {e.addr} /\ Len(scanned_devices) < Slots
    BY <1>4, EntryListed
  <2>2. UNCHANGED <<app_state, scan_filter_name>> /\ app_state = "SCANNING"
    BY <1>4 DEF DeviceListed, Sighting
  <2>3. DOMAIN scanned_devices' = 1..(Len(scanned_devices) + 1)
    BY <2>1
  <2>4. Listed' = Listed \cup {e.addr}
    <3>1. ASSUME NEW x PROVE x \in Listed' <=> x \in Listed \cup {e.addr}
      <4>1. x \in Listed' <=> \E i \in 1..(Len(scanned_devices) + 1) : scanned_devices'[i].addr = x
        BY <2>3 DEF Listed
      <4>2. x \in Listed <=> \E i \in 1..Len(scanned_devices) : scanned_devices[i].addr = x
        BY <1>1 DEF Listed
      <4>3. \A i \in 1..(Len(scanned_devices) + 1) :
               i \in 1..Len(scanned_devices) \/ i = Len(scanned_devices) + 1
        BY <1>1
      <4>4. Len(scanned_devices) + 1 \in 1..(Len(scanned_devices) + 1)
            /\ \A i \in 1..Len(scanned_devices) : i \in 1..(Len(scanned_devices) + 1)
        BY <1>1
      <4> QED
        BY <4>1, <4>2, <4>3, <4>4, <2>1
    <3> QED
      BY <3>1
  <2>5. IsFiniteSet(Listed') /\ Cardinality(Listed') = Len(scanned_devices')
    BY <2>1, <2>4, FS_AddElement DEF CacheExact
  <2>6. ASSUME NEW i \in 1..(Len(scanned_devices) + 1)
        PROVE  (scanned_devices[i].index = i - 1 /\ MatchesScanFilter(scanned_devices[i].name))'
    <3>1. CASE i \in 1..Len(scanned_devices)
      <4>1. scanned_devices'[i] = scanned_devices[i]
        BY <3>1, <2>1
      <4>2. scanned_devices[i].index = i - 1 /\ MatchesScanFilter(scanned_devices[i].name)
        BY <3>1, <1>1 DEF CacheExact
      <4> QED
        BY <4>1, <4>2, <2>2 DEF MatchesScanFilter
    <3>2. CASE i = Len(scanned_devices) + 1
      <4>1. scanned_devices'[i] = e /\ e.index = i - 1
        BY <3>2, <2>1, <1>1
      <4> QED
        BY <4>1, <2>1, <2>2 DEF MatchesScanFilter
    <3> QED
      BY <3>1, <3>2, <1>1
  <2>7. Listed = sighted
    BY <2>1, <2>2 DEF CacheExact
  <2>8. Listed' = sighted'
    BY <2>1, <2>4, <2>7
  <2> QED
    BY <2>3, <2>5, <2>6, <2>8 DEF CacheExact
<1>5. CASE DeviceForgotten
  <2>1. /\ UNCHANGED <<app_state, scanned_devices, scan_filter_name>>
        /\ sighted \subseteq sighted' /\ ~(Len(scanned_devices) < Slots)
        /\ app_state = "SCANNING"
    BY <1>5 DEF DeviceForgotten, Sighting, FreeSlot, scan
  <2> QED
    BY <2>1 DEF CacheExact, Listed, MatchesScanFilter
<1>6. CASE StartRefused \/ StartJoins \/ Connect
  BY <1>6, <1>2 DEF StartRefused, StartJoins, Connect, scan
<1>7. CASE Speaks
  BY <1>7, <1>2, Spoken DEF seen
<1>8. CASE ScanStopBegins \/ ScanStopFails
  BY <1>8, <1>2 DEF ScanStopBegins, ScanStopFails, scan, seen
<1>9. CASE CallerNext
  BY <1>9, <1>2 DEF CallerNext, WaitOk, WaitLink, CollectResults, ScanRaises, ScanReturns,
                    TimesOut, scan, seen
<1>10. CASE UNCHANGED vars
  BY <1>10, <1>2 DEF vars, scan, seen
<1> QED
  BY <1>3, <1>4, <1>5, <1>6, <1>7, <1>8, <1>9, <1>10
     DEF Next, FirmwareNext, CommandNext, Speaks

----------------------------------------------------------------------------
\* Only a line that is said touches what stands without its ending.
LEMMA TornInvKept == TypeOK /\ TornInv /\ [Next]_vars => TornInv'
<1> SUFFICES ASSUME TypeOK, TornInv, [Next]_vars PROVE TornInv'
  OBVIOUS
<1>1. ASSUME NEW l \in Lines, Say(l) PROVE TornInv'
  BY <1>1, TornKept
<1>2. ASSUME UNCHANGED <<torn, cuts>> PROVE TornInv'
  BY <1>2 DEF TornInv
<1>3. CASE CommandNext
  <2>1. PICK l \in {OK, ERR} : Say(l)
    BY <1>3 DEF CommandNext, StartRefused, StartJoins, StartScan, Connect
  <2> QED
    BY <2>1, <1>1, Kinds
<1>4. CASE DeviceListed
  BY <1>4, <1>1, EntryListed, Kinds
<1>5. CASE Speaks
  BY <1>5, <1>1, Spoken, Kinds
<1>6. CASE DeviceForgotten \/ ScanStopBegins \/ ScanStopFails \/ UNCHANGED vars
  BY <1>6, <1>2 DEF DeviceForgotten, ScanStopBegins, ScanStopFails, vars, queue
<1>7. CASE CallerNext
  BY <1>7, <1>2 DEF CallerNext, WaitOk, WaitLink, CollectResults, ScanRaises, ScanReturns,
                    TimesOut, TakeLine, queue
<1> QED
  BY <1>3, <1>4, <1>5, <1>6, <1>7 DEF Next, FirmwareNext, Speaks

----------------------------------------------------------------------------
\* A line said changes what is fresh nowhere else, and becomes fresh behind the answer.
LEMMA FreshSaid ==
    ASSUME TypeOK, NEW l \in Lines, Say(l), call' = call
    PROVE  /\ \A i \in 1..Len(lines) : Fresh(i)' <=> Fresh(i)
           /\ (TornInv /\ cuts' = 0 /\ l # OK) =>
                 /\ \A n : n = Len(lines) + 1 => (Fresh(n)' <=> Collecting)
                 /\ Collecting' <=> Collecting
<1>1. /\ Len(lines) \in Nat
      /\ \A i \in 1..Len(lines) : i \in 1..Len(lines') /\ lines'[i] = lines[i]
  BY Said
<1>2. ASSUME NEW i \in 1..Len(lines)
      PROVE  Fresh(i)' <=> Fresh(i)
  <2>1. \A k \in 1..(i - 1) : lines'[k] = lines[k]
    BY <1>1
  <2> QED
    BY <2>1, call' = call DEF Fresh
<1>3. ASSUME TornInv, cuts' = 0, l # OK
      PROVE  Collecting' <=> Collecting
  <2>1. /\ \A k \in 1..Len(lines') : k \in 1..Len(lines) \/ k = Len(lines) + 1
        /\ lines'[Len(lines) + 1] = l
    BY <1>3, Said
  <2>2. (\E k \in 1..Len(lines') : lines'[k] = OK) <=> (\E k \in 1..Len(lines) : lines[k] = OK)
    BY <2>1, <1>1, <1>3
  <2> QED
    BY <2>2, call' = call DEF Collecting
<1>4. ASSUME NEW n, n = Len(lines) + 1
      PROVE  Fresh(n)' <=> Collecting
  <2> PICK m \in Nat : m = n
    BY <1>1, <1>4
  <2>1. (m - 1 = Len(lines)) /\ \A k \in 1..(m - 1) : lines'[k] = lines[k]
    BY <1>1, <1>4
  <2>2. Fresh(m)' <=> (call' = "reading" \/ (call' = "scan_ok" /\ \E k \in 1..(m - 1) : lines'[k] = OK))
    BY DEF Fresh
  <2>3. Fresh(m)' <=> Collecting
    BY <2>1, <2>2, call' = call DEF Collecting
  <2> QED
    BY <2>3
<1> QED
  BY <1>2, <1>3, <1>4

\* A line taken was not fresh or is read; the others are as fresh as before, unless the
\* call has ended.
LEMMA FreshTaken ==
    ASSUME TypeOK, Reads
    PROVE  /\ \A i \in 1..Len(lines') : Fresh(i)' => Fresh(i + 1)
           /\ Collecting' =>
                 /\ Collecting
                 /\ \A i \in 1..Len(lines') : Fresh(i + 1) => Fresh(i)'
                 /\ call = "reading" <=> Fresh(1)
<1>1. /\ Len(lines') = Len(lines) - 1 /\ Len(lines) \in Nat \ {0}
      /\ Line = lines[1] /\ \A i \in 1..Len(lines') : lines'[i] = lines[i + 1]
  BY Taken DEF Reads, WaitOk, WaitLink, CollectResults, ScanRaises
<1>2. OK # ERR /\ Line \in Lines
  BY Taken, Kinds DEF Reads, WaitOk, WaitLink, CollectResults, ScanRaises
<1>3. ASSUME NEW i \in 1..Len(lines')
      PROVE  (\E k \in 1..(i - 1) : lines'[k] = OK) <=> (\E k \in 2..i : lines[k] = OK)
  <2>1. \A k \in 1..(i - 1) : k + 1 \in 2..i /\ lines'[k] = lines[k + 1]
    BY <1>1
  <2>2. \A k \in 2..i : k - 1 \in 1..(i - 1) /\ lines'[k - 1] = lines[k]
    BY <1>1
  <2> QED
    BY <2>1, <2>2
<1>4. \A i \in 1..Len(lines') : (i + 1) - 1 = i /\ 1 \in 1..i /\ \A k \in 2..i : k \in 1..i
  BY <1>1
<1>5. \A i \in 1..Len(lines') :
         Fresh(i + 1) <=> call = "reading" \/ (call = "scan_ok" /\ \E k \in 1..i : lines[k] = OK)
  BY <1>4 DEF Fresh
<1>6. ~(\E k \in 1..(1 - 1) : lines[k] = OK)
  OBVIOUS
<1>7. Fresh(1) <=> call = "reading"
  BY <1>6 DEF Fresh
<1>8. CASE call = "reading"
  <2>1. call' \in {"reading", "returned", "none"}
    BY <1>8 DEF Reads, WaitOk, WaitLink, CollectResults, ScanRaises
  <2> QED
    BY <2>1, <1>5, <1>7, <1>8 DEF Fresh, Collecting
<1>9. CASE call # "reading" /\ Line = OK
  <2>1. /\ call' = "reading" => call = "scan_ok"
        /\ call' # "scan_ok"
    BY <1>9 DEF Reads, WaitOk, WaitLink, CollectResults, ScanRaises, Answered
  <2>2. 1 \in 1..Len(lines) /\ lines[1] = OK
    BY <1>1, <1>9
  <2> QED
    BY <2>1, <2>2, <1>4, <1>5, <1>7, <1>9 DEF Fresh, Collecting
<1>10. CASE call # "reading" /\ Line # OK
  <2>1. call' \in {"scan_ok", "reading"} => call' = call
    BY <1>10 DEF Reads, WaitOk, WaitLink, CollectResults, ScanRaises, Answered
  <2>2. \A i \in 1..Len(lines') :
           (\E k \in 1..i : lines[k] = OK) <=> (\E k \in 2..i : lines[k] = OK)
    <3>1. \A i \in 1..Len(lines') : \A k \in 1..i : k = 1 \/ k \in 2..i
      BY <1>1
    <3> QED
      BY <3>1, <1>1, <1>4, <1>10
  <2>3. (\E k \in 1..Len(lines') : lines'[k] = OK) => (\E k \in 1..Len(lines) : lines[k] = OK)
    <3>1. \A k \in 1..Len(lines') : k + 1 \in 1..Len(lines) /\ lines'[k] = lines[k + 1]
      BY <1>1
    <3> QED
      BY <3>1
  <2> QED
    BY <2>1, <2>2, <2>3, <1>3, <1>5, <1>7, <1>10 DEF Fresh, Collecting
<1> QED
  BY <1>8, <1>9, <1>10

----------------------------------------------------------------------------
\* A command begins with nothing collected, and no line of before it counts, if none was
\* an answer.
LEMMA NothingFresh ==
    ASSUME TypeOK, CommandNext, ~misled'
    PROVE  /\ \A i \in 1..Len(lines) : lines'[i] # OK
           /\ \A i \in 1..Len(lines') : ~Fresh(i)'
           /\ results' = {} /\ call' \in {"scan_ok", "connect_ok"}
<1>1. PICK l \in {OK, ERR} : Say(l)
  BY DEF CommandNext, StartRefused, StartJoins, StartScan, Connect
<1>2. /\ results' = {} /\ call' \in {"scan_ok", "connect_ok"}
      /\ misled' = \E i \in DOMAIN lines : lines[i] \in Answers
  BY DEF CommandNext, StartRefused, StartJoins, StartScan, Connect, Calls
<1>3. /\ Len(lines) \in Nat /\ Len(lines') \in {Len(lines), Len(lines) + 1}
      /\ \A i \in 1..Len(lines) : lines'[i] = lines[i]
  BY <1>1, Said, Kinds
<1>4. DOMAIN lines = 1..Len(lines)
  BY DEF TypeOK
<1>5. \A i \in 1..Len(lines) : lines'[i] # OK
  BY <1>2, <1>3, <1>4 DEF Answers
<1>6. \A i \in 1..Len(lines') : \A k \in 1..(i - 1) : k \in 1..Len(lines)
  BY <1>3
<1>7. \A i \in 1..Len(lines') : ~Fresh(i)'
  BY <1>2, <1>5, <1>6 DEF Fresh
<1> QED
  BY <1>2, <1>5, <1>7

\* The announced devices are those of the entries.
LEMMA AnnouncedListed ==
    ASSUME TypeOK, DeviceListed
    PROVE  \E e \in Entry : Say(SCDA(e)) /\ Announced' = Announced \cup {SCDA(e)}
<1>1. PICK e \in Entry :
         /\ scanned_devices' \in Seq(Entry) /\ Len(scanned_devices') = Len(scanned_devices) + 1
         /\ \A i \in 1..Len(scanned_devices) : scanned_devices'[i] = scanned_devices[i]
         /\ scanned_devices'[Len(scanned_devices) + 1] = e
         /\ Say(SCDA(e))
  BY EntryListed
<1>2. /\ scanned_devices \in Seq(Entry) /\ Len(scanned_devices) \in Nat
      /\ DOMAIN scanned_devices = 1..Len(scanned_devices)
      /\ DOMAIN scanned_devices' = 1..(Len(scanned_devices) + 1)
  BY <1>1 DEF TypeOK
<1>3. ASSUME NEW r
      PROVE  r \in Announced' <=> r \in Announced \cup {SCDA(e)}
  <2>1. r \in Announced' <=>
           \E i \in 1..(Len(scanned_devices) + 1) : SCDA(scanned_devices'[i]) = r
    BY <1>2 DEF Announced, SCDA
  <2>2. r \in Announced <=> \E i \in 1..Len(scanned_devices) : SCDA(scanned_devices[i]) = r
    BY <1>2 DEF Announced
  <2>3. \A i \in 1..(Len(scanned_devices) + 1) :
           i \in 1..Len(scanned_devices) \/ i = Len(scanned_devices) + 1
    BY <1>2
  <2>4. Len(scanned_devices) + 1 \in 1..(Len(scanned_devices) + 1)
        /\ \A i \in 1..Len(scanned_devices) : i \in 1..(Len(scanned_devices) + 1)
    BY <1>2
  <2> QED
    BY <2>1, <2>2, <2>3, <2>4, <1>1
<1> QED
  BY <1>1, <1>3

LEMMA AnnouncedKinds ==
    ASSUME TypeOK
    PROVE  \A r \in Announced : r.kind = "SCDA" /\ r # SCED
<1>1. \A i \in DOMAIN scanned_devices : scanned_devices[i] \in Entry
  BY DEF TypeOK
<1> QED
  BY <1>1, Kinds DEF Announced

\* Steps that neither say nor take a line.
LEMMA Quiet ==
    ASSUME DeviceForgotten \/ ScanStopBegins \/ ScanStopFails \/ UNCHANGED vars
    PROVE  UNCHANGED <<app_state, lines, cuts, call, results, joined, misled, scanned_devices>>
  BY DEF DeviceForgotten, ScanStopBegins, ScanStopFails, vars, scan, queue, caller, seen

LEMMA OnlyAnnouncedKept ==
    TypeOK /\ OnlyAnnounced /\ [Next]_vars => OnlyAnnounced'
<1> SUFFICES ASSUME TypeOK, OnlyAnnounced, [Next]_vars, ~misled' PROVE OnlyAnnounced'
  BY DEF OnlyAnnounced
<1>1. CASE CommandNext
  BY <1>1, NothingFresh DEF OnlyAnnounced
<1>2. ASSUME NEW l \in Lines, Say(l), UNCHANGED <<call, results, misled>>,
             Announced \subseteq Announced', l.kind = "SCDA" => l \in Announced'
      PROVE  OnlyAnnounced'
  <2>1. /\ \A i \in 1..Len(lines) : lines'[i] = lines[i]
        /\ \A i \in 1..Len(lines') :
              \/ i \in 1..Len(lines)
              \/ i = Len(lines) + 1 /\ (lines'[i] = l \/ lines'[i].kind # "SCDA")
    BY <1>2, Said
  <2>2. \A i \in 1..Len(lines) : Fresh(i)' <=> Fresh(i)
    BY <1>2, FreshSaid
  <2>3. ASSUME NEW i \in 1..Len(lines'), Fresh(i)', lines'[i].kind = "SCDA"
        PROVE  lines'[i] \in Announced'
    <3>1. CASE i \in 1..Len(lines)
      BY <3>1, <2>1, <2>2, <2>3, <1>2 DEF OnlyAnnounced
    <3>2. CASE i \notin 1..Len(lines)
      BY <3>2, <2>1, <2>3, <1>2
    <3> QED
      BY <3>1, <3>2
  <2> QED
    BY <2>3, <1>2 DEF OnlyAnnounced
<1>3. CASE DeviceListed
  <2>1. PICK e \in Entry : Say(SCDA(e)) /\ Announced' = Announced \cup {SCDA(e)}
    BY <1>3, AnnouncedListed
  <2>2. SCDA(e) \in Lines
    BY Kinds
  <2>3. UNCHANGED <<call, results, misled>>
    BY <1>3 DEF DeviceListed, caller
  <2> QED
    BY <2>1, <2>2, <2>3, <1>2
<1>4. CASE Speaks
  <2>1. PICK l \in {SCED, ERR, BLMC, BLMN, IGNORED} : Say(l)
    BY <1>4, Spoken
  <2>2. l \in Lines /\ l.kind # "SCDA"
    BY Kinds
  <2>3. UNCHANGED <<call, results, misled, scanned_devices>>
    BY <1>4, Spoken DEF caller, seen
  <2>4. Announced' = Announced
    BY <2>3 DEF Announced, SCDA
  <2> QED
    BY <2>1, <2>2, <2>3, <2>4, <1>2
<1>5. CASE Reads
  <2>1. TakeLine /\ UNCHANGED <<scanned_devices, misled>>
    BY <1>5 DEF Reads, WaitOk, WaitLink, CollectResults, ScanRaises, scan, seen
  <2>2. /\ Len(lines') = Len(lines) - 1 /\ Len(lines) \in Nat \ {0}
        /\ Line = lines[1] /\ \A i \in 1..Len(lines') : lines'[i] = lines[i + 1]
    BY <2>1, Taken
  <2>3. Announced' = Announced
    BY <2>1 DEF Announced, SCDA
  <2>4. \A i \in 1..Len(lines') : Fresh(i)' => Fresh(i + 1)
    BY <1>5, FreshTaken
  <2>5. ASSUME NEW i \in 1..Len(lines'), Fresh(i)', lines'[i].kind = "SCDA"
        PROVE  lines'[i] \in Announced'
    <3>1. i + 1 \in 1..Len(lines) /\ lines'[i] = lines[i + 1] /\ Fresh(i + 1)
      BY <2>2, <2>4, <2>5
    <3> QED
      BY <3>1, <2>1, <2>3, <2>5 DEF OnlyAnnounced
  <2>6. CASE call = "reading"
    <3>1. Fresh(1) /\ 1 \in 1..Len(lines)
      BY <2>2, <2>6 DEF Fresh
    <3>2. Line.kind = "SCDA" => Line \in Announced
      BY <3>1, <2>1, <2>2 DEF OnlyAnnounced
    <3>3. results \subseteq Announced
      BY <2>1, <2>6 DEF OnlyAnnounced
    <3>4. results' \subseteq Announced /\ call' # "scan_ok"
      BY <3>2, <3>3, <2>6, <1>5
         DEF Reads, WaitOk, WaitLink, CollectResults, ScanRaises
    <3> QED
      BY <3>4, <2>3, <2>5 DEF OnlyAnnounced
  <2>7. CASE call # "reading"
    <3>1. results' = results /\ (call' \in {"scan_ok", "reading"} => call = "scan_ok")
          /\ call' # "returned"
      BY <2>7, <1>5 DEF Reads, WaitOk, WaitLink, CollectResults, ScanRaises, Answered
    <3>2. call' \in {"scan_ok", "reading"} => results' = {}
      BY <3>1, <2>1 DEF OnlyAnnounced
    <3> QED
      BY <3>1, <3>2, <2>5 DEF OnlyAnnounced
  <2> QED
    BY <2>6, <2>7
<1>6. CASE ScanReturns \/ TimesOut
  <2>1. call' = "none"
    BY <1>6 DEF ScanReturns, TimesOut
  <2> QED
    BY <2>1 DEF OnlyAnnounced, Fresh
<1>7. CASE DeviceForgotten \/ ScanStopBegins \/ ScanStopFails \/ UNCHANGED vars
  <2>1. UNCHANGED <<lines, call, results, misled, scanned_devices>>
    BY <1>7, Quiet
  <2> QED
    BY <2>1 DEF OnlyAnnounced, Fresh, Announced, SCDA
<1> QED
  BY <1>1, <1>3, <1>4, <1>5, <1>6, <1>7 DEF Next, FirmwareNext, CallerNext, Speaks, Reads

\* What is announced is said at once; SCED ends the scan, and comes last in it.
LEMMA AllAnnouncedKept ==
    TypeOK /\ TornInv /\ AllAnnounced /\ [Next]_vars => AllAnnounced'
<1> SUFFICES ASSUME TypeOK, TornInv, AllAnnounced, [Next]_vars, ~joined', ~misled', cuts' = 0
             PROVE  AllAnnounced'
  BY DEF AllAnnounced
<1>1. CASE CommandNext
  <2>1. /\ \A i \in 1..Len(lines) : lines'[i] # OK
        /\ \A i \in 1..Len(lines') : ~Fresh(i)'
        /\ call' \in {"scan_ok", "connect_ok"}
    BY <1>1, NothingFresh
  <2>2. CASE StartScan
    <3>1. scanned_devices' = <<>>
      BY <2>2 DEF StartScan, ClearScanCache
    <3>2. DOMAIN scanned_devices' = {}
      BY <3>1
    <3>3. Announced' = {}
      BY <3>2 DEF Announced
    <3> QED
      BY <3>3, <2>1 DEF AllAnnounced
  <2>3. CASE StartJoins
    BY <2>3 DEF StartJoins
  <2>4. CASE StartRefused
    <3>1. Say(ERR) /\ ERR \in Lines /\ ERR # OK
      BY <2>4, Kinds DEF StartRefused
    <3>2. /\ \A i \in 1..Len(lines') : i \in 1..Len(lines) \/ i = Len(lines) + 1
          /\ lines'[Len(lines) + 1] = ERR
      BY <3>1, Said
    <3>3. \A i \in 1..Len(lines') : lines'[i] # OK
      BY <2>1, <3>1, <3>2
    <3>4. ~Collecting'
      BY <3>3, <2>1 DEF Collecting
    <3> QED
      BY <3>4, <2>1 DEF AllAnnounced
  <2>5. CASE Connect
    <3>1. call' = "connect_ok"
      BY <2>5 DEF Connect, Calls
    <3> QED
      BY <3>1 DEF AllAnnounced, Collecting
  <2> QED
    BY <1>1, <2>2, <2>3, <2>4, <2>5 DEF CommandNext
<1>2. CASE DeviceListed
  <2>1. PICK e \in Entry : Say(SCDA(e)) /\ Announced' = Announced \cup {SCDA(e)}
    BY <1>2, AnnouncedListed
  <2>2. SCDA(e) \in Lines /\ SCDA(e) # OK /\ SCDA(e) # SCED
    BY Kinds
  <2>3. UNCHANGED <<call, results, joined, misled, app_state>> /\ app_state = "SCANNING"
    BY <1>2 DEF DeviceListed, Sighting, caller
  <2>4. /\ Len(lines') = Len(lines) + 1 /\ Len(lines) \in Nat /\ cuts = 0
        /\ \A i \in 1..Len(lines) : lines'[i] = lines[i]
        /\ lines'[Len(lines) + 1] = SCDA(e)
    BY <2>1, <2>2, Said, TornKept
  <2>5. /\ \A i \in 1..Len(lines) : Fresh(i)' <=> Fresh(i)
        /\ \A n : n = Len(lines) + 1 => (Fresh(n)' <=> Collecting)
        /\ Collecting' <=> Collecting
    BY <2>1, <2>2, <2>3, FreshSaid
  <2>6. call # "returned"
    BY <2>3, <2>4 DEF AllAnnounced
  <2>7. ASSUME Collecting, NEW r \in Announced'
        PROVE  r \in results \/ \E i \in 1..Len(lines') : Fresh(i)' /\ lines'[i] = r
    <3>1. CASE r \in Announced
      <4>1. r \in results \/ \E i \in 1..Len(lines) : Fresh(i) /\ lines[i] = r
        BY <3>1, <2>3, <2>4, <2>7 DEF AllAnnounced
      <4>2. \A i \in 1..Len(lines) : i \in 1..Len(lines')
        BY <2>4
      <4> QED
        BY <4>1, <4>2, <2>4, <2>5
    <3>2. CASE r = SCDA(e)
      <4>1. PICK n \in 1..Len(lines') : n = Len(lines) + 1
        BY <2>4
      <4> QED
        BY <4>1, <3>2, <2>4, <2>5, <2>7
    <3> QED
      BY <3>1, <3>2, <2>1
  <2>8. ASSUME Collecting, NEW i \in 1..Len(lines'), Fresh(i)', lines'[i] = SCED
        PROVE  FALSE
    <3>1. i \in 1..Len(lines)
      BY <2>2, <2>4, <2>8
    <3>2. Fresh(i) /\ lines[i] = SCED
      BY <3>1, <2>4, <2>5, <2>8
    <3> QED
      BY <3>1, <3>2, <2>3, <2>4, <2>8 DEF AllAnnounced
  <2> QED
    BY <2>3, <2>5, <2>6, <2>7, <2>8 DEF AllAnnounced
<1>3. CASE Speaks
  <2>1. PICK l \in {SCED, ERR, BLMC, BLMN, IGNORED} :
           Say(l) /\ (l = SCED => app_state' = "IDLE")
    BY <1>3, Spoken
  <2>2. l \in Lines /\ l # OK /\ l.kind # "SCDA"
    BY Kinds
  <2>3. /\ UNCHANGED <<call, results, scanned_devices, joined, misled>>
        /\ app_state # "SCANNING" => app_state' # "SCANNING"
    BY <1>3, Spoken DEF caller, seen
  <2>4. Announced' = Announced
    BY <2>3 DEF Announced, SCDA
  <2>5. /\ Len(lines') = Len(lines) + 1 /\ Len(lines) \in Nat /\ cuts = 0
        /\ \A i \in 1..Len(lines) : lines'[i] = lines[i]
        /\ lines'[Len(lines) + 1] = l
    BY <2>1, <2>2, Said, TornKept
  <2>6. /\ \A i \in 1..Len(lines) : Fresh(i)' <=> Fresh(i)
        /\ Collecting' <=> Collecting
    BY <2>1, <2>2, <2>3, FreshSaid
  <2>7. ASSUME Collecting, NEW r \in Announced'
        PROVE  r \in results \/ \E i \in 1..Len(lines') : Fresh(i)' /\ lines'[i] = r
    <3>1. r \in results \/ \E i \in 1..Len(lines) : Fresh(i) /\ lines[i] = r
      BY <2>3, <2>4, <2>5, <2>7 DEF AllAnnounced
    <3>2. \A i \in 1..Len(lines) : i \in 1..Len(lines')
      BY <2>5
    <3> QED
      BY <3>1, <3>2, <2>5, <2>6
  <2>8. ASSUME Collecting, NEW i \in 1..Len(lines'), Fresh(i)', lines'[i] = SCED
        PROVE  app_state' # "SCANNING" /\ \A j \in i..Len(lines') : lines'[j].kind # "SCDA"
    <3>1. CASE i \in 1..Len(lines)
      <4>1. Fresh(i) /\ lines[i] = SCED
        BY <3>1, <2>5, <2>6, <2>8
      <4>2. app_state # "SCANNING" /\ \A j \in i..Len(lines) : lines[j].kind # "SCDA"
        BY <3>1, <4>1, <2>3, <2>5, <2>8 DEF AllAnnounced
      <4>3. \A j \in i..Len(lines') :
               (j \in i..Len(lines) /\ j \in 1..Len(lines)) \/ j = Len(lines) + 1
        BY <3>1, <2>5
      <4> QED
        BY <4>2, <4>3, <2>2, <2>3, <2>5
    <3>2. CASE i = Len(lines) + 1
      <4>1. l = SCED
        BY <3>2, <2>5, <2>8
      <4>2. \A j \in i..Len(lines') : j = Len(lines) + 1
        BY <3>2, <2>5
      <4> QED
        BY <4>1, <4>2, <2>1, <2>2, <2>5
    <3> QED
      BY <3>1, <3>2, <2>5
  <2>9. call = "returned" => app_state' # "SCANNING" /\ Announced' \subseteq results'
    BY <2>3, <2>4, <2>5 DEF AllAnnounced
  <2> QED
    BY <2>3, <2>6, <2>7, <2>8, <2>9 DEF AllAnnounced
<1>4. CASE Reads
  <2>1. TakeLine /\ UNCHANGED <<scanned_devices, joined, misled, cuts, app_state>>
    BY <1>4 DEF Reads, WaitOk, WaitLink, CollectResults, ScanRaises, TakeLine, scan, seen
  <2>2. /\ Len(lines') = Len(lines) - 1 /\ Len(lines) \in Nat \ {0}
        /\ Line = lines[1] /\ \A i \in 1..Len(lines') : lines'[i] = lines[i + 1]
        /\ 1 \in 1..Len(lines)
    BY <2>1, Taken
  <2>3. Announced' = Announced
    BY <2>1 DEF Announced, SCDA
  <2>4. /\ \A i \in 1..Len(lines') : Fresh(i)' => Fresh(i + 1)
        /\ Collecting' =>
              /\ Collecting
              /\ \A i \in 1..Len(lines') : Fresh(i + 1) => Fresh(i)'
              /\ call = "reading" <=> Fresh(1)
    BY <1>4, FreshTaken
  <2>5. \A r \in Announced : r.kind = "SCDA"
    BY AnnouncedKinds
  <2>6. ASSUME Collecting', NEW r \in Announced'
        PROVE  r \in results' \/ \E i \in 1..Len(lines') : Fresh(i)' /\ lines'[i] = r
    <3>1. Collecting /\ call' # "none" /\ r \in Announced
      BY <2>3, <2>4, <2>6 DEF Collecting
    <3>2. r \in results \/ \E i \in 1..Len(lines) : Fresh(i) /\ lines[i] = r
      BY <3>1, <2>1 DEF AllAnnounced
    <3>3. results \subseteq results'
      BY <1>4 DEF Reads, WaitOk, WaitLink, CollectResults, ScanRaises
    <3>4. ASSUME NEW i \in 1..Len(lines), Fresh(i), lines[i] = r, i = 1
          PROVE  r \in results'
      <4>1. call = "reading" /\ Line = r /\ Line.kind = "SCDA"
        BY <3>1, <3>4, <2>2, <2>4, <2>5, <2>6
      <4>2. CollectResults
        BY <4>1, <3>1, <1>4 DEF Reads, WaitOk, WaitLink, ScanRaises
      <4> QED
        BY <4>1, <4>2 DEF CollectResults
    <3>5. ASSUME NEW i \in 1..Len(lines), Fresh(i), lines[i] = r, i # 1
          PROVE  \E k \in 1..Len(lines') : Fresh(k)' /\ lines'[k] = r
      <4>1. PICK k \in 1..Len(lines') : i = k + 1
        <5>1. i - 1 \in 1..Len(lines') /\ i = (i - 1) + 1
          BY <3>5, <2>2
        <5> QED
          BY <5>1
      <4> QED
        BY <4>1, <3>5, <2>2, <2>4, <2>6
    <3> QED
      BY <3>2, <3>3, <3>4, <3>5
  <2>7. ASSUME Collecting', NEW i \in 1..Len(lines'), Fresh(i)', lines'[i] = SCED
        PROVE  app_state' # "SCANNING" /\ \A j \in i..Len(lines') : lines'[j].kind # "SCDA"
    <3>1. i + 1 \in 1..Len(lines) /\ Fresh(i + 1) /\ lines[i + 1] = SCED /\ Collecting
      BY <2>2, <2>4, <2>7
    <3>2. app_state # "SCANNING" /\ \A j \in (i + 1)..Len(lines) : lines[j].kind # "SCDA"
      BY <3>1, <2>1 DEF AllAnnounced
    <3>3. \A j \in i..Len(lines') : j \in 1..Len(lines') /\ j + 1 \in (i + 1)..Len(lines)
      BY <2>2
    <3> QED
      BY <3>2, <3>3, <2>1, <2>2
  <2>8. ASSUME call' = "returned"
        PROVE  app_state' # "SCANNING" /\ Announced' \subseteq results'
    <3>1. CollectResults /\ Line = SCED /\ call = "reading"
      BY <2>8, <1>4 DEF Reads, WaitOk, WaitLink, CollectResults, ScanRaises, Answered
    <3>2. Fresh(1) /\ lines[1] = SCED /\ Collecting
      BY <3>1, <2>2 DEF Fresh, Collecting
    <3>3. app_state # "SCANNING" /\ \A j \in 1..Len(lines) : lines[j].kind # "SCDA"
      BY <3>2, <2>1, <2>2 DEF AllAnnounced
    <3>4. \A r \in Announced : r \in results \/ \E i \in 1..Len(lines) : Fresh(i) /\ lines[i] = r
      BY <3>2, <2>1 DEF AllAnnounced
    <3>5. Announced \subseteq results
      BY <3>3, <3>4, <2>5
    <3>6. results \subseteq results'
      BY <3>1 DEF CollectResults
    <3> QED
      BY <3>3, <3>5, <3>6, <2>1, <2>3
  <2> QED
    BY <2>6, <2>7, <2>8 DEF AllAnnounced
<1>5. CASE ScanReturns \/ TimesOut
  <2>1. call' = "none"
    BY <1>5 DEF ScanReturns, TimesOut
  <2> QED
    BY <2>1 DEF AllAnnounced, Collecting
<1>6. CASE DeviceForgotten \/ ScanStopBegins \/ ScanStopFails \/ UNCHANGED vars
  <2>1. UNCHANGED <<app_state, lines, cuts, call, results, joined, misled, scanned_devices>>
    BY <1>6, Quiet
  <2>2. Announced' = Announced /\ (Collecting' <=> Collecting)
    BY <2>1 DEF Announced, SCDA, Collecting
  <2>3. \A i \in 1..Len(lines) : Fresh(i)' <=> Fresh(i)
    BY <2>1 DEF Fresh
  <2> QED
    BY <2>1, <2>2, <2>3 DEF AllAnnounced
<1> QED
  BY <1>1, <1>2, <1>3, <1>4, <1>5, <1>6 DEF Next, FirmwareNext, CallerNext, Speaks, Reads

----------------------------------------------------------------------------
LEMMA ScanInit == Init => ScanInv
<1> SUFFICES ASSUME Init PROVE ScanInv
  OBVIOUS
<1>1. /\ scanned_devices = <<>> /\ lines = <<>> /\ call = "none" /\ results = {}
      /\ app_state = "IDLE"
  BY DEF Init
<1>2. /\ DOMAIN scanned_devices = {} /\ Len(scanned_devices) = 0 /\ Len(lines) = 0
      /\ scanned_devices \in Seq(Entry) /\ lines \in Seq(Lines)
  BY <1>1
<1>3. TypeOK
  <2>1. scanned_devices \in Seq(Entry) /\ Len(scanned_devices) <= Slots
        /\ next_scan_index = Len(scanned_devices) /\ lines \in Seq(Lines)
    BY <1>2, SlotsAssumption DEF Init
  <2>2. /\ app_state = "IDLE" /\ scan_stop_work = FALSE /\ stopping = FALSE
        /\ call = "none" /\ results = {} /\ sighted = {} /\ joined = FALSE
        /\ misled = FALSE /\ link = "down" /\ errors = 0 /\ torn = "none" /\ cuts = 0
    BY DEF Init
  <2>3. 0 \in 0..MaxErrors /\ 0 \in 0..MaxCuts
    BY BoundAssumption
  <2> QED
    BY <2>1, <2>2, <2>3 DEF TypeOK
<1>4. Listed = {}
  BY <1>2 DEF Listed
<1>5. IsFiniteSet(Listed) /\ CacheExact
  BY <1>1, <1>2, <1>4, FS_EmptySet DEF CacheExact
<1>6. TornInv /\ OnlyAnnounced /\ AllAnnounced
  BY <1>1, <1>2 DEF Init, TornInv, OnlyAnnounced, AllAnnounced, Collecting
<1> QED
  BY <1>3, <1>5, <1>6 DEF ScanInv

LEMMA ScanStep == ScanInv /\ [Next]_vars => ScanInv'
  BY TypesKept, CacheKept, TornInvKept, OnlyAnnouncedKept, AllAnnouncedKept DEF ScanInv

LEMMA ScanAlways == Spec => []ScanInv
  BY ScanInit, ScanStep, PTL DEF Spec

\* The cache, the queue and the caller keep their types, and next_scan_index never runs
\* past the table: entries and indices are allocated together.
THEOREM TypeCorrect == Spec => []TypeOK
<1>1. ScanInv => TypeOK
  BY DEF ScanInv
<1> QED
  BY <1>1, ScanAlways, PTL

\* device_found and op_start_scan keep the cache exact: one entry and one index for each
\* device, no device twice, and none missed while a slot is free.
THEOREM CacheFaithful == Spec => []CacheExact
<1>1. ScanInv => CacheExact
  BY DEF ScanInv
<1> QED
  BY <1>1, ScanAlways, PTL

\* scan() of ble_at.py returns the devices of its own scan, whatever lines earlier scans
\* left in its queue, whatever the link says unasked and wherever lines are cut off, if no
\* answer was left there; and all of them, if besides it did not join a scan under way
\* and no line was cut off.
THEOREM ResultsFaithful == Spec => []ResultsExact
<1>1. ScanInv => ResultsExact
  BY DEF ScanInv, OnlyAnnounced, AllAnnounced, ResultsExact
<1> QED
  BY <1>1, ScanAlways, PTL

\* ble_host_addr_type_from_wlt undoes ble_host_addr_type_to_wlt for the types that the
\* protocol knows, so connect() can be given what scan() returned.
THEOREM AddressesReturn == Spec => []ResultsReachable
<1>1. \A t \in KnownTypes : FromWlt(ToWlt(t)) = t
  <2>1. DOMAIN WltTypes = 1..4
    BY DEF WltTypes
  <2>2. ASSUME NEW t \in KnownTypes
        PROVE  FromWlt(ToWlt(t)) = t
    <3> DEFINE i == CHOOSE i \in 1..4 : WltTypes[i] = t
    <3>1. i \in 1..4 /\ WltTypes[i] = t
      BY <2>1 DEF KnownTypes
    <3>2. ToWlt(t) = i - 1
      BY DEF ToWlt
    <3>3. (i - 1) + 1 = i
      BY <3>1
    <3> QED
      BY <3>1, <3>2, <3>3 DEF FromWlt
  <2> QED
    BY <2>2
<1>2. \A r \in ResultLines : TypeOf[r.addr] \in KnownTypes => FromWlt(r.addr_type) = TypeOf[r.addr]
  <2>1. \A e \in Entry : SCDA(e).addr = e.addr /\ SCDA(e).addr_type = ToWlt(TypeOf[e.addr])
    BY DEF SCDA
  <2> QED
    BY <1>1, <2>1 DEF ResultLines
<1>3. TypeOK => ResultsReachable
  BY <1>2 DEF TypeOK, ResultsReachable
<1> QED
  BY <1>3, TypeCorrect, PTL

=============================================================================
