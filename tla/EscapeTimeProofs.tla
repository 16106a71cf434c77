-------------------------- MODULE EscapeTimeProofs --------------------------
(***************************************************************************)
(* The escape filter against the clock, for every guard time, lateness of  *)
(* the work queue and number of bytes: which `+++` leaves data mode, that  *)
(* no other is missed, that nothing is held back for long, and that the    *)
(* filter loses nothing.                                                   *)
(*                                                                         *)
(* The properties speak of the whole session; the handlers know only       *)
(* count, last_host_rx and the timer.  FilterInv says how these follow     *)
(* from the bytes of the session and their times.                          *)
(***************************************************************************)
EXTENDS EscapeTime, SequenceTheorems, TLAPS

\* When the host was last heard of.
LastHeard == IF Len(sent) = 0 THEN entered ELSE at[Len(sent)]

ModeInv ==
    /\ data_mode => exit = "none"
    /\ ~data_mode => count = 0
    /\ count = 0 <=> timer = Off

ClockInv ==
    /\ \A i \in 1..Len(sent) : at[i] <= uptime
    /\ entered <= uptime
    /\ last_host_rx <= uptime
    /\ data_mode => LastHeard <= last_host_rx

\* The quiet that a candidate begins with, or the three pluses that spare it.
Begun == QuietBefore(Len(sent) - count + 1) \/ EndsInPluses(count + 3)

\* What is held back: the last bytes of the host, and the timer of the latest.
HeldInv ==
    count > 0 =>
        /\ EndsInPluses(count)
        /\ at[Len(sent)] + Guard <= timer /\ timer <= at[Len(sent)] + Guard + 1
        /\ uptime <= timer + MaxLate
        /\ Begun

\* With nothing held back, only a flush makes last_host_rx later than the last byte.
QuietInv ==
    (data_mode /\ count = 0) =>
        last_host_rx <= LastHeard \/ (flushed # Never /\ last_host_rx <= flushed)

\* Pluses after a quiet that nothing spoils are a candidate from the first on.
Promising(k) ==
    /\ data_mode /\ EndsInPluses(k)
    /\ QuietBefore(Len(sent) - k + 1)
    /\ ~StrayPlusBefore(Len(sent) - k + 1)

CandidateInv == \A k \in 1..3 : Promising(k) => count = k

FilterInv ==
    /\ TypeOK /\ ModeInv /\ ClockInv /\ HeldInv /\ QuietInv /\ CandidateInv
    /\ ExitIsDeliberate

----------------------------------------------------------------------------
\* The next byte extends the session and leaves what was before it.
LEMMA ByteExtends ==
    ASSUME TypeOK, NEW b \in {Plus, Other}, Receive(b)
    PROVE  /\ Len(sent') = Len(sent) + 1 /\ Len(at') = Len(sent')
           /\ Len(sent') <= MaxBytes
           /\ sent' \in Seq({Plus, Other}) /\ at' \in Seq(Times)
           /\ \A i \in 1..Len(sent) : sent'[i] = sent[i] /\ at'[i] = at[i]
           /\ sent'[Len(sent) + 1] = b /\ at'[Len(sent) + 1] = uptime
           /\ Len(sent) \in Nat /\ Len(sent) = Len(at)
<1>1. sent \in Seq({Plus, Other}) /\ at \in Seq(Times) /\ Len(at) = Len(sent)
  BY DEF TypeOK
<1>2. uptime \in Times /\ Len(sent) < MaxBytes /\ Len(sent) \in Nat /\ MaxBytes \in Nat
  BY <1>1, TimesAssumption DEF TypeOK, Receive
<1>3. sent' = Append(sent, b) /\ at' = Append(at, uptime)
  BY DEF Receive
<1> QED
  BY <1>1, <1>2, <1>3

\* Pluses at the end, after one more byte.
LEMMA PlusesExtend ==
    ASSUME TypeOK, NEW b \in {Plus, Other}, Receive(b)
    PROVE  /\ \A k \in Nat : EndsInPluses(k + 1)' <=> (b = Plus /\ EndsInPluses(k))
           /\ \A k \in Nat : EndsInPluses(k)' /\ k > 0 => b = Plus
           /\ EndsInPluses(0)
<1> DEFINE n == Len(sent)
<1>1. /\ Len(sent') = n + 1 /\ n \in Nat
      /\ \A i \in 1..n : sent'[i] = sent[i]
      /\ sent'[n + 1] = b
  BY ByteExtends
<1>2. ASSUME NEW k \in Nat
      PROVE  EndsInPluses(k + 1)' <=> (b = Plus /\ EndsInPluses(k))
  <2>1. EndsInPluses(k + 1)' <=>
            n + 1 >= k + 1 /\ \A i \in (n + 1 - k)..(n + 1) : sent'[i] = Plus
    BY <1>1 DEF EndsInPluses
  <2>2. EndsInPluses(k) <=> n >= k /\ \A i \in (n - k + 1)..n : sent[i] = Plus
    BY DEF EndsInPluses
  <2> QED
    BY <1>1, <2>1, <2>2
<1>3. ASSUME NEW k \in Nat, EndsInPluses(k)', k > 0
      PROVE  b = Plus
  <2>1. k - 1 \in Nat /\ (k - 1) + 1 = k
    BY <1>3
  <2>2. EndsInPluses((k - 1) + 1)' <=> (b = Plus /\ EndsInPluses(k - 1))
    BY <2>1, <1>2
  <2> QED
    BY <2>1, <2>2, <1>3
<1>4. EndsInPluses(0)
  BY <1>1 DEF EndsInPluses
<1> QED
  BY <1>2, <1>3, <1>4

\* Fewer pluses end a session that more end.
LEMMA FewerPluses ==
    ASSUME TypeOK, NEW k \in Nat, NEW m \in Nat, m <= k, EndsInPluses(k)
    PROVE  EndsInPluses(m)
<1>1. Len(sent) \in Nat
  BY DEF TypeOK
<1> QED
  BY <1>1 DEF EndsInPluses

\* The quiet before an earlier byte is not changed by a later one.
LEMMA QuietExtends ==
    ASSUME TypeOK, NEW b \in {Plus, Other}, Receive(b), NEW i \in 1..Len(sent)
    PROVE  /\ QuietBefore(i)' <=> QuietBefore(i)
           /\ StrayPlusBefore(i)' <=> StrayPlusBefore(i)
<1>1. /\ \A j \in 1..Len(sent) : sent'[j] = sent[j] /\ at'[j] = at[j]
      /\ Len(sent) \in Nat
  BY ByteExtends
<1>2. entered' = entered /\ flushed' = flushed
  BY DEF Receive
<1>3. i = 1 \/ i - 1 \in 1..Len(sent)
  BY <1>1
<1> QED
  BY <1>1, <1>2, <1>3 DEF QuietBefore, StrayPlusBefore, HeldAtMost

----------------------------------------------------------------------------
LEMMA FilterInit == Init => FilterInv
<1> SUFFICES ASSUME Init PROVE FilterInv
  OBVIOUS
<1>1. TypeOK
  <2>1. data_mode \in BOOLEAN
    BY DEF Init
  <2>2. /\ uptime = 0 /\ count = 0 /\ last_host_rx = 0 /\ timer = Off /\ entered = 0
        /\ sent = <<>> /\ at = <<>> /\ payload = <<>> /\ flushed = Never /\ exit = "none"
    BY DEF Init
  <2> QED
    BY <2>1, <2>2, TimesAssumption DEF TypeOK, Times, Off, Never
<1> QED
  BY <1>1, TimesAssumption DEF Init, FilterInv, ModeInv, ClockInv, HeldInv, QuietInv, CandidateInv,
        Promising, ExitIsDeliberate, LastHeard, Off

\* The types are inductive by themselves.
LEMMA TypesKept == TypeOK /\ [Next]_vars => TypeOK'
<1> SUFFICES ASSUME TypeOK, [Next]_vars PROVE TypeOK'
  OBVIOUS
<1> USE TimesAssumption DEF Times, Off, Never
<1>1. ASSUME NEW b \in {Plus, Other}, Receive(b),
             uptime' \in Times, count' \in 0..3, last_host_rx' \in Times,
             timer' \in Nat \cup {Off}, payload' \in Seq({Plus, Other})
      PROVE  TypeOK'
  <2>1. /\ sent' \in Seq({Plus, Other}) /\ Len(sent') <= MaxBytes
        /\ at' \in Seq(Times) /\ Len(at') = Len(sent')
    BY <1>1, ByteExtends
  <2>2. UNCHANGED <<data_mode, entered, flushed, exit>>
    BY <1>1 DEF Receive
  <2> QED
    BY <1>1, <2>1, <2>2 DEF TypeOK
<1>2. \A k \in 0..3 : Pluses(k) \in Seq({Plus, Other})
  BY DEF Pluses
<1>3. CASE Tick
  BY <1>3 DEF Tick, TypeOK, filter, history
<1>4. CASE Activate
  BY <1>4 DEF Activate, TypeOK
<1>5. CASE CandidateStarts
  BY <1>5, <1>1 DEF CandidateStarts, Hold, TypeOK
<1>6. CASE CandidateGrows
  BY <1>6, <1>1 DEF CandidateGrows, Hold, TypeOK
<1>7. CASE PayloadByte
  <2>1. PICK b \in {Plus, Other} : Receive(b) /\ Pass(b) /\ UNCHANGED uptime
    BY <1>7 DEF PayloadByte
  <2>2. payload \o Pluses(count) \in Seq({Plus, Other})
    BY <1>2 DEF TypeOK
  <2>3. payload' \in Seq({Plus, Other})
    BY <2>1, <2>2 DEF Pass
  <2> QED
    BY <2>1, <2>3, <1>1 DEF Pass, TypeOK
<1>8. CASE FourthPlusStartsAnew
  <2>1. payload' \in Seq({Plus, Other})
    BY <1>8, <1>2 DEF FourthPlusStartsAnew, TypeOK
  <2> QED
    BY <1>8, <2>1, <1>1 DEF FourthPlusStartsAnew, Hold, TypeOK
<1>9. CASE Recognized
  <2>1. data_mode' \in BOOLEAN
    BY <1>9 DEF Recognized, Leave
  <2>2. /\ count' = 0 /\ timer' = Off /\ exit' \in {"escape", "lost"}
        /\ UNCHANGED <<uptime, last_host_rx, entered, sent, at, payload, flushed>>
    BY <1>9 DEF Recognized, Leave
  <2> QED
    BY <2>1, <2>2 DEF TypeOK
<1>10. CASE Abandoned
  <2>1. payload' \in Seq({Plus, Other})
    BY <1>10, <1>2 DEF Abandoned, TypeOK
  <2> QED
    BY <1>10, <2>1 DEF Abandoned, TypeOK
<1>11. CASE Disconnected
  <2>1. data_mode' \in BOOLEAN
    BY <1>11 DEF Disconnected, Leave
  <2>2. /\ count' = 0 /\ timer' = Off /\ exit' \in {"escape", "lost"}
        /\ UNCHANGED <<uptime, last_host_rx, entered, sent, at, payload, flushed>>
    BY <1>11 DEF Disconnected, Leave
  <2> QED
    BY <2>1, <2>2 DEF TypeOK
<1>12. CASE UNCHANGED vars
  BY <1>12 DEF vars, filter, history, TypeOK
<1> QED
  BY <1>3, <1>4, <1>5, <1>6, <1>7, <1>8, <1>9, <1>10, <1>11, <1>12 DEF Next, Byte

----------------------------------------------------------------------------
\* Every byte has a time.
LEMMA TimesOfBytes == TypeOK => \A i \in 1..Len(sent) : at[i] \in Nat
<1> SUFFICES ASSUME TypeOK, NEW i \in 1..Len(sent) PROVE at[i] \in Nat
  OBVIOUS
<1>1. at \in Seq(Times) /\ i \in 1..Len(at)
  BY DEF TypeOK
<1>2. at[i] \in Times
  BY <1>1, ElementOfSeq
<1> QED
  BY <1>2, TimesAssumption DEF Times

\* The session after one more byte: the clock, and what stands outside the filter.
LEMMA ByteClock ==
    ASSUME FilterInv, NEW b \in {Plus, Other}, Receive(b), uptime' \in Nat, uptime <= uptime'
    PROVE  /\ \A i \in 1..Len(sent') : at'[i] <= uptime'
           /\ entered' <= uptime' /\ LastHeard' = uptime
           /\ data_mode' /\ exit' = "none"
           /\ ExitIsDeliberate'
<1> DEFINE n == Len(sent)
<1>1. /\ Len(sent') = n + 1 /\ n \in Nat
      /\ \A i \in 1..n : at'[i] = at[i]
      /\ at'[n + 1] = uptime
  BY ByteExtends DEF FilterInv
<1>2. at \in Seq(Times) /\ Len(at) = n /\ uptime \in Nat /\ entered \in Nat
  BY DEF FilterInv, TypeOK, Times
<1>3. data_mode /\ data_mode' = data_mode /\ exit' = exit /\ entered' = entered
  BY DEF Receive
<1>4. exit = "none"
  BY <1>3 DEF FilterInv, ModeInv
<1>5. ASSUME NEW i \in 1..Len(sent')
      PROVE  at'[i] <= uptime'
  <2>1. CASE i \in 1..n
    <3>1. at[i] <= uptime /\ at[i] \in Nat
      BY <2>1, TimesOfBytes DEF FilterInv, ClockInv
    <3> QED
      BY <3>1, <2>1, <1>1, <1>2
  <2>2. CASE i = n + 1
    BY <2>2, <1>1, <1>2
  <2> QED
    BY <2>1, <2>2, <1>1
<1>6. entered' <= uptime'
  BY <1>2, <1>3 DEF FilterInv, ClockInv
<1>7. LastHeard' = uptime
  BY <1>1 DEF LastHeard
<1> QED
  BY <1>3, <1>4, <1>5, <1>6, <1>7 DEF ExitIsDeliberate

\* A promising run of pluses grows out of a promising one; and the first of them comes
\* when nothing is held back and the guard time has passed.
LEMMA PromisingExtends ==
    ASSUME FilterInv, NEW b \in {Plus, Other}, Receive(b)
    PROVE  /\ \A k \in 1..2 : Promising(k + 1)' => b = Plus /\ count = k
           /\ Promising(1)' => b = Plus /\ count = 0 /\ GuardPassed(uptime, last_host_rx)
<1> DEFINE n == Len(sent)
<1>1. /\ Len(sent') = n + 1 /\ n \in Nat
      /\ \A i \in 1..n : sent'[i] = sent[i] /\ at'[i] = at[i]
      /\ sent'[n + 1] = b /\ at'[n + 1] = uptime
  BY ByteExtends DEF FilterInv
<1>2. /\ at \in Seq(Times) /\ Len(at) = n /\ uptime \in Nat /\ entered \in Nat
      /\ last_host_rx \in Nat /\ count \in 0..3 /\ flushed \in Nat \cup {-1}
      /\ timer \in Nat \cup {-1}
      /\ Guard \in Nat /\ MaxLate \in Nat
  BY TimesAssumption DEF FilterInv, TypeOK, Times, Never, Off
<1>3. data_mode /\ entered' = entered /\ flushed' = flushed
  BY DEF Receive
<1>4. ASSUME NEW k \in 1..2, Promising(k + 1)'
      PROVE  b = Plus /\ count = k
  <2>1. b = Plus /\ EndsInPluses(k)
    BY <1>4, PlusesExtend DEF FilterInv, Promising
  <2>2. n >= k /\ n - k + 1 \in 1..n /\ Len(sent') - (k + 1) + 1 = n - k + 1
    BY <2>1, <1>1 DEF EndsInPluses
  <2> PICK i \in 1..n : i = n - k + 1
    BY <2>2
  <2>3. QuietBefore(i)' /\ ~StrayPlusBefore(i)'
    BY <1>4, <2>2 DEF Promising
  <2>4. QuietBefore(n - k + 1) /\ ~StrayPlusBefore(n - k + 1)
    BY <2>2, <2>3, QuietExtends DEF FilterInv
  <2>5. Promising(k)
    BY <2>1, <2>4, <1>3 DEF Promising
  <2> QED
    BY <2>1, <2>5 DEF FilterInv, CandidateInv
<1>5. ASSUME Promising(1)'
      PROVE  b = Plus /\ count = 0 /\ GuardPassed(uptime, last_host_rx)
  <2>1. b = Plus
    BY <1>5, PlusesExtend DEF FilterInv, Promising
  <2> PICK m \in Nat : m = n + 1
    BY <1>1
  <2>2. QuietBefore(m)' /\ ~StrayPlusBefore(m)'
    <3>1. Len(sent') - 1 + 1 = m
      BY <1>1
    <3> QED
      BY <1>5, <3>1 DEF Promising
  <2>3. uptime - LastHeard >= Guard
    BY <2>2, <1>1, <1>3 DEF QuietBefore, LastHeard
  <2>4. flushed # Never => uptime - flushed >= Guard
    BY <2>2, <1>1, <1>2, <1>3 DEF StrayPlusBefore, Never
  <2>5. n >= 1 /\ sent[n] = Plus => uptime - at[n] > HeldAtMost
    <3>1. HeldAtMost' = HeldAtMost
      BY DEF HeldAtMost
    <3>2. ~(n + 1 > 1 /\ sent'[n] = Plus /\ at'[n + 1] - at'[n] <= HeldAtMost)
      BY <2>2, <3>1, <1>1 DEF StrayPlusBefore
    <3>3. n >= 1 => at[n] \in Nat /\ at'[n] = at[n] /\ sent'[n] = sent[n]
      BY <1>1, TimesOfBytes DEF FilterInv
    <3> QED
      BY <3>2, <3>3, <1>1, <1>2 DEF HeldAtMost
  <2>6. count = 0
    <3> SUFFICES ASSUME count > 0 PROVE FALSE
      BY <1>2
    <3>1. EndsInPluses(count) /\ timer <= at[n] + Guard + 1 /\ uptime <= timer + MaxLate
      BY DEF FilterInv, HeldInv
    <3>2. n >= 1 /\ sent[n] = Plus
      BY <3>1, <1>1, <1>2 DEF EndsInPluses
    <3>3. at[n] \in Nat
      BY <3>2, <1>1, TimesOfBytes DEF FilterInv
    <3> QED
      BY <3>1, <3>2, <3>3, <2>5, <1>2 DEF HeldAtMost
  <2>7. last_host_rx <= LastHeard \/ (flushed # Never /\ last_host_rx <= flushed)
    BY <2>6, <1>3 DEF FilterInv, QuietInv
  <2>8. LastHeard \in Nat
    BY <1>1, <1>2, TimesOfBytes DEF LastHeard, FilterInv
  <2>9. uptime - last_host_rx >= Guard
    BY <2>3, <2>4, <2>7, <2>8, <1>2 DEF Never
  <2> QED
    BY <2>1, <2>6, <2>9 DEF GuardPassed
<1> QED
  BY <1>4, <1>5

\* A candidate begins after the guard time, or after three pluses.
LEMMA StartKept ==
    FilterInv /\ (CandidateStarts \/ FourthPlusStartsAnew) => FilterInv'
<1> SUFFICES ASSUME FilterInv, CandidateStarts \/ FourthPlusStartsAnew PROVE FilterInv'
  OBVIOUS
<1> USE TimesAssumption
<1> DEFINE n == Len(sent)
<1>1. TypeOK /\ TypeOK'
  BY TypesKept DEF FilterInv, Next, Byte
<1>2. Receive(Plus) /\ data_mode
  BY DEF CandidateStarts, FourthPlusStartsAnew, Receive
<1>3. PICK t \in {uptime, uptime + 1} :
          count' = 1 /\ last_host_rx' = uptime /\ timer' = t + Guard /\ uptime' = t
  BY DEF CandidateStarts, FourthPlusStartsAnew, Hold
<1>4. uptime \in Nat /\ entered \in Nat /\ last_host_rx \in Nat
  BY <1>1 DEF TypeOK, Times
<1>5. /\ \A i \in 1..Len(sent') : at'[i] <= uptime'
      /\ entered' <= uptime' /\ LastHeard' = uptime
      /\ data_mode' /\ exit' = "none"
      /\ ExitIsDeliberate'
  BY <1>2, <1>3, <1>4, ByteClock
<1>6. /\ Len(sent') = n + 1 /\ n \in Nat
      /\ \A i \in 1..n : sent'[i] = sent[i] /\ at'[i] = at[i]
      /\ sent'[n + 1] = Plus /\ at'[n + 1] = uptime
  BY <1>1, <1>2, ByteExtends
<1>7. ModeInv' /\ ClockInv' /\ QuietInv'
  BY <1>3, <1>4, <1>5 DEF ModeInv, ClockInv, QuietInv, Off
<1>8. HeldInv'
  <2>1. EndsInPluses(0 + 1)'
    BY <1>1, <1>2, PlusesExtend
  <2>2. Begun'
    <3>1. CASE CandidateStarts
      <4>1. uptime - last_host_rx >= Guard
        BY <3>1, <1>4 DEF CandidateStarts, GuardPassed, FilterInv, ClockInv
      <4>2. uptime - LastHeard >= Guard
        <5>1. LastHeard <= last_host_rx
          BY <1>2 DEF FilterInv, ClockInv
        <5>2. LastHeard \in Nat
          BY <1>1, <1>4, <1>6, TimesOfBytes DEF LastHeard
        <5> QED
          BY <4>1, <5>1, <5>2, <1>4
      <4>3. entered' = entered
        BY <1>2 DEF Receive
      <4> PICK m \in Nat : m = n + 1
        BY <1>6
      <4>4. QuietBefore(m)'
        BY <4>2, <4>3, <1>6 DEF QuietBefore, LastHeard
      <4>5. Len(sent') - count' + 1 = m
        BY <1>3, <1>6
      <4> QED
        BY <4>4, <4>5 DEF Begun
    <3>2. CASE FourthPlusStartsAnew
      <4>1. EndsInPluses(3)
        BY <3>2 DEF FourthPlusStartsAnew, FilterInv, HeldInv
      <4>2. EndsInPluses(3 + 1)'
        BY <4>1, <1>1, <1>2, PlusesExtend
      <4> QED
        BY <4>2, <1>3 DEF Begun
    <3> QED
      BY <3>1, <3>2
  <2>3. timer' = uptime + Guard \/ timer' = uptime + 1 + Guard
    BY <1>3
  <2> QED
    BY <2>1, <2>2, <2>3, <1>3, <1>4, <1>6 DEF HeldInv
<1>9. CandidateInv'
  <2>1. count = 0 \/ count = 3
    BY DEF CandidateStarts, FourthPlusStartsAnew
  <2>2. \A k \in 1..2 : ~Promising(k + 1)'
    BY <2>1, <1>2, PromisingExtends
  <2> SUFFICES ASSUME NEW k \in 1..3, Promising(k)' PROVE count' = k
    BY DEF CandidateInv
  <2>3. CASE k = 1
    BY <2>3, <1>3
  <2>4. CASE k = 1 + 1
    BY <2>4, <2>2
  <2>5. CASE k = 2 + 1
    BY <2>5, <2>2
  <2> QED
    BY <2>3, <2>4, <2>5
<1> QED
  BY <1>1, <1>5, <1>7, <1>8, <1>9 DEF FilterInv

\* It grows by the pluses that follow, up to three.
LEMMA GrowKept == FilterInv /\ CandidateGrows => FilterInv'
<1> SUFFICES ASSUME FilterInv, CandidateGrows PROVE FilterInv'
  OBVIOUS
<1> USE TimesAssumption
<1> DEFINE n == Len(sent)
<1>1. TypeOK /\ TypeOK'
  BY TypesKept DEF FilterInv, Next, Byte
<1>2. Receive(Plus) /\ data_mode
  BY DEF CandidateGrows, Receive
<1>3. /\ count \in 1..2 /\ count' = count + 1 /\ last_host_rx' = uptime
      /\ timer' = uptime + Guard /\ uptime' = uptime
  BY DEF CandidateGrows, Hold
<1>4. uptime \in Nat
  BY <1>1 DEF TypeOK, Times
<1>5. /\ \A i \in 1..Len(sent') : at'[i] <= uptime'
      /\ entered' <= uptime' /\ LastHeard' = uptime
      /\ data_mode' /\ exit' = "none"
      /\ ExitIsDeliberate'
  BY <1>2, <1>3, <1>4, ByteClock
<1>6. Len(sent') = n + 1 /\ n \in Nat /\ at'[n + 1] = uptime
  BY <1>1, <1>2, ByteExtends
<1>7. ModeInv' /\ ClockInv' /\ QuietInv'
  BY <1>3, <1>4, <1>5 DEF ModeInv, ClockInv, QuietInv, Off
<1>8. HeldInv'
  <2>1. EndsInPluses(count) /\ Begun
    BY <1>3 DEF FilterInv, HeldInv
  <2> PICK c \in Nat : c = count
    BY <1>3
  <2>2. EndsInPluses(c + 1)'
    BY <2>1, <1>1, <1>2, PlusesExtend
  <2>3. Begun'
    <3>1. CASE QuietBefore(n - count + 1)
      <4>1. n - count + 1 \in 1..n
        BY <2>1, <1>3, <1>6 DEF EndsInPluses
      <4> PICK i \in 1..n : i = n - count + 1
        BY <4>1
      <4>2. QuietBefore(i)'
        BY <3>1, <1>1, <1>2, QuietExtends
      <4>3. Len(sent') - count' + 1 = i
        BY <1>3, <1>6
      <4> QED
        BY <4>2, <4>3 DEF Begun
    <3>2. CASE EndsInPluses(count + 3)
      <4> PICK m \in Nat : m = count + 3
        BY <1>3
      <4>1. EndsInPluses(m + 1)'
        BY <3>2, <1>1, <1>2, PlusesExtend
      <4>2. count' + 3 = m + 1
        BY <1>3
      <4> QED
        BY <4>1, <4>2 DEF Begun
    <3> QED
      BY <2>1, <3>1, <3>2 DEF Begun
  <2>4. count' = c + 1
    BY <1>3
  <2> QED
    BY <2>2, <2>3, <2>4, <1>3, <1>4, <1>6 DEF HeldInv
<1>9. CandidateInv'
  <2>1. ~Promising(1)'
    BY <1>2, <1>3, PromisingExtends
  <2>2. \A k \in 1..2 : Promising(k + 1)' => count = k
    BY <1>2, PromisingExtends
  <2> SUFFICES ASSUME NEW k \in 1..3, Promising(k)' PROVE count' = k
    BY DEF CandidateInv
  <2>3. CASE k = 1
    BY <2>3, <2>1
  <2>4. CASE k = 1 + 1
    BY <2>4, <2>2, <1>3
  <2>5. CASE k = 2 + 1
    BY <2>5, <2>2, <1>3
  <2> QED
    BY <2>3, <2>4, <2>5
<1> QED
  BY <1>1, <1>5, <1>7, <1>8, <1>9 DEF FilterInv

\* Any other byte leaves nothing held back.
LEMMA PassKept == FilterInv /\ PayloadByte => FilterInv'
<1> SUFFICES ASSUME FilterInv, PayloadByte PROVE FilterInv'
  OBVIOUS
<1>1. TypeOK /\ TypeOK'
  BY TypesKept DEF FilterInv, Next, Byte
<1>2. PICK b \in {Plus, Other} :
          /\ Receive(b)
          /\ b = Plus => \/ count = 0 /\ ~GuardPassed(uptime, last_host_rx)
                         \/ count = 3
          /\ Pass(b)
          /\ UNCHANGED uptime
  BY DEF PayloadByte
<1>3. count' = 0 /\ last_host_rx' = uptime /\ uptime' = uptime /\ timer' = Off
  BY <1>1, <1>2 DEF Pass, FilterInv, ModeInv, TypeOK
<1>4. uptime \in Nat
  BY <1>1, TimesAssumption DEF TypeOK, Times
<1>5. /\ \A i \in 1..Len(sent') : at'[i] <= uptime'
      /\ entered' <= uptime' /\ LastHeard' = uptime
      /\ data_mode' /\ exit' = "none"
      /\ ExitIsDeliberate'
  BY <1>2, <1>3, <1>4, ByteClock
<1>6. ModeInv' /\ ClockInv' /\ QuietInv' /\ HeldInv'
  BY <1>3, <1>4, <1>5 DEF ModeInv, ClockInv, QuietInv, HeldInv
<1>7. CandidateInv'
  <2>1. ~Promising(1)'
    BY <1>2, PromisingExtends
  <2>2. \A k \in 1..2 : ~Promising(k + 1)'
    BY <1>2, PromisingExtends
  <2> SUFFICES ASSUME NEW k \in 1..3, Promising(k)' PROVE FALSE
    BY DEF CandidateInv
  <2>3. CASE k = 1
    BY <2>3, <2>1
  <2>4. CASE k = 1 + 1
    BY <2>4, <2>2
  <2>5. CASE k = 2 + 1
    BY <2>5, <2>2
  <2> QED
    BY <2>3, <2>4, <2>5
<1> QED
  BY <1>1, <1>5, <1>6, <1>7 DEF FilterInv

\* A recognised escape: the guard timer ran for the third plus, and ran out.
LEMMA RecognizedKept == FilterInv /\ Recognized => FilterInv'
<1> SUFFICES ASSUME FilterInv, Recognized PROVE FilterInv'
  OBVIOUS
<1>1. TypeOK /\ TypeOK'
  BY TypesKept DEF FilterInv, Next
<1>2. /\ data_mode' = FALSE /\ count' = 0 /\ timer' = Off
      /\ UNCHANGED <<uptime, last_host_rx, entered, sent, at, flushed>>
      /\ count = 3 /\ uptime >= timer
  BY DEF Recognized, Leave, Expired
<1>3. ModeInv' /\ ClockInv' /\ HeldInv' /\ QuietInv' /\ CandidateInv'
  BY <1>2 DEF FilterInv, ModeInv, ClockInv, HeldInv, QuietInv, CandidateInv, Promising
<1>4. ExitIsDeliberate'
  <2>1. EndsInPluses(3) /\ at[Len(sent)] + Guard <= timer /\ Begun
    BY <1>2 DEF FilterInv, HeldInv
  <2>2. Len(sent) = Len(at) /\ Len(sent) \in Nat /\ Len(sent) >= 3
    BY <2>1, <1>1 DEF TypeOK, EndsInPluses
  <2>3. at[Len(at)] \in Nat /\ uptime \in Nat /\ timer \in Int /\ Guard \in Nat
    BY <2>2, <1>1, TimesOfBytes, TimesAssumption DEF TypeOK, Times, Off
  <2>4. uptime - at[Len(at)] >= Guard
    BY <2>1, <2>2, <2>3, <1>2
  <2>5. QuietBefore(Len(at) - 2) \/ EndsInPluses(6)
    <3>1. Len(sent) - count + 1 = Len(at) - 2 /\ count + 3 = 6
      BY <2>2, <1>2
    <3> QED
      BY <2>1, <3>1 DEF Begun
  <2>6. EndsInPluses(3)' /\ (uptime - at[Len(at)] >= Guard)'
    BY <2>1, <2>4, <1>2 DEF EndsInPluses
  <2>7. (QuietBefore(Len(at) - 2) \/ EndsInPluses(6))'
    BY <2>5, <1>2 DEF EndsInPluses, QuietBefore
  <2> QED
    BY <2>6, <2>7 DEF ExitIsDeliberate
<1> QED
  BY <1>1, <1>3, <1>4 DEF FilterInv

\* A flushed candidate: what follows it within the guard time has no quiet before it.
LEMMA AbandonedKept == FilterInv /\ Abandoned => FilterInv'
<1> SUFFICES ASSUME FilterInv, Abandoned PROVE FilterInv'
  OBVIOUS
<1>1. TypeOK /\ TypeOK'
  BY TypesKept DEF FilterInv, Next
<1>2. /\ count \in {1, 2} /\ count' = 0 /\ timer' = Off
      /\ last_host_rx' = uptime /\ flushed' = uptime
      /\ UNCHANGED <<uptime, data_mode, entered, sent, at, exit>>
  BY DEF Abandoned
<1>3. data_mode /\ exit = "none"
  BY <1>2 DEF FilterInv, ModeInv
<1>4. uptime \in Nat /\ Guard \in Nat \ {0} /\ entered \in Nat /\ Len(sent) \in Nat
  BY <1>1, TimesAssumption DEF TypeOK, Times
<1>5. \A i \in 1..Len(sent) : at[i] \in Nat /\ at[i] <= uptime
  BY <1>1, TimesOfBytes DEF FilterInv, ClockInv
<1>6. LastHeard' <= uptime
  BY <1>2, <1>4, <1>5 DEF LastHeard, FilterInv, ClockInv
<1>7. ModeInv' /\ ClockInv' /\ HeldInv' /\ QuietInv' /\ ExitIsDeliberate'
  <2>1. ModeInv' /\ HeldInv' /\ ExitIsDeliberate'
    BY <1>2, <1>3 DEF ModeInv, HeldInv, ExitIsDeliberate
  <2>2. ClockInv'
    BY <1>2, <1>4, <1>5, <1>6 DEF FilterInv, ClockInv
  <2>3. QuietInv'
    BY <1>2, <1>4 DEF QuietInv, Never
  <2> QED
    BY <2>1, <2>2, <2>3
<1>8. CandidateInv'
  <2> SUFFICES ASSUME NEW k \in 1..3, Promising(k)' PROVE FALSE
    BY DEF CandidateInv
  <2>1. Len(sent') = Len(sent) /\ Len(sent) - k + 1 \in 1..Len(sent)
    BY <1>2, <1>4 DEF Promising, EndsInPluses
  <2> PICK i \in 1..Len(sent) : i = Len(sent) - k + 1
    BY <2>1
  <2>2. ~StrayPlusBefore(i)'
    BY <2>1 DEF Promising
  <2>3. at'[i] - flushed' < Guard /\ flushed' # Never
    BY <1>2, <1>4, <1>5 DEF Never
  <2> QED
    BY <2>2, <2>3 DEF StrayPlusBefore
<1> QED
  BY <1>1, <1>7, <1>8 DEF FilterInv

\* The clock may tick unless an expired timer has waited for too long.
LEMMA TickKept == FilterInv /\ Tick => FilterInv'
<1> SUFFICES ASSUME FilterInv, Tick PROVE FilterInv'
  OBVIOUS
<1>1. TypeOK /\ TypeOK'
  BY TypesKept DEF FilterInv, Next
<1>2. /\ uptime' = uptime + 1
      /\ timer # Off => uptime < timer + MaxLate
      /\ UNCHANGED <<data_mode, count, last_host_rx, timer>>
      /\ UNCHANGED <<entered, sent, at, flushed, exit>>
  BY DEF Tick, filter, history
<1>3. /\ uptime \in Nat /\ timer \in Nat \cup {Off} /\ Guard \in Nat /\ MaxLate \in Nat
      /\ last_host_rx \in Nat /\ entered \in Nat
      /\ Len(sent) \in Nat /\ Len(at) = Len(sent)
  BY <1>1, TimesAssumption DEF TypeOK, Times
<1>4. \A i \in 1..Len(sent) : at[i] \in Nat
  BY <1>1, TimesOfBytes
<1>5. LastHeard' = LastHeard /\ (Begun <=> Begun') /\ \A k \in Nat : EndsInPluses(k)' <=> EndsInPluses(k)
  BY <1>2 DEF LastHeard, Begun, QuietBefore, EndsInPluses
<1>6. ModeInv' /\ QuietInv'
  BY <1>2, <1>5 DEF FilterInv, ModeInv, QuietInv
<1>7. ClockInv'
  BY <1>2, <1>3, <1>4, <1>5 DEF FilterInv, ClockInv
<1>8. HeldInv'
  <2> SUFFICES ASSUME count > 0 PROVE HeldInv'
    BY <1>2 DEF HeldInv
  <2>1. timer \in Nat /\ uptime < timer + MaxLate
    BY <1>1, <1>2, <1>3 DEF FilterInv, ModeInv, TypeOK
  <2>2. EndsInPluses(count) /\ Begun
    BY DEF FilterInv, HeldInv
  <2>3. EndsInPluses(count)'
    BY <2>2, <1>2 DEF EndsInPluses
  <2> QED
    BY <2>1, <2>2, <2>3, <1>2, <1>3, <1>5 DEF FilterInv, HeldInv
<1>9. CandidateInv'
  BY <1>2 DEF FilterInv, CandidateInv, Promising, EndsInPluses, QuietBefore,
              StrayPlusBefore, HeldAtMost
<1>10. ExitIsDeliberate'
  <2> SUFFICES ASSUME exit = "escape" PROVE ExitIsDeliberate'
    BY <1>2 DEF ExitIsDeliberate
  <2>1. EndsInPluses(3) /\ uptime - at[Len(at)] >= Guard
    BY DEF FilterInv, ExitIsDeliberate
  <2>2. at[Len(at)] \in Nat
    BY <2>1, <1>3, <1>4 DEF EndsInPluses
  <2>3. uptime' - at[Len(at)] >= Guard
    BY <2>1, <2>2, <1>2, <1>3
  <2>4. (QuietBefore(Len(at) - 2) \/ EndsInPluses(6))'
    BY <1>2 DEF FilterInv, ExitIsDeliberate, QuietBefore, EndsInPluses
  <2>5. EndsInPluses(3)'
    BY <2>1, <1>2 DEF EndsInPluses
  <2> QED
    BY <2>3, <2>4, <2>5, <1>2 DEF ExitIsDeliberate
<1> QED
  BY <1>1, <1>6, <1>7, <1>8, <1>9, <1>10 DEF FilterInv

LEMMA ActivateKept == FilterInv /\ Activate => FilterInv'
<1> SUFFICES ASSUME FilterInv, Activate PROVE FilterInv'
  OBVIOUS
<1>1. TypeOK /\ TypeOK'
  BY TypesKept DEF FilterInv, Next
<1>2. /\ ~data_mode /\ count' = 0 /\ last_host_rx' = uptime /\ entered' = uptime
      /\ sent' = <<>> /\ exit' = "none" /\ UNCHANGED <<uptime, timer>>
  BY DEF Activate
<1>3. timer = Off /\ uptime \in Nat
  BY <1>1, <1>2, TimesAssumption DEF FilterInv, ModeInv, TypeOK, Times
<1>4. Len(sent') = 0 /\ LastHeard' = uptime
  BY <1>2 DEF LastHeard
<1>5. ModeInv' /\ ClockInv' /\ HeldInv' /\ QuietInv' /\ ExitIsDeliberate'
  BY <1>2, <1>3, <1>4 DEF ModeInv, ClockInv, HeldInv, QuietInv, ExitIsDeliberate
<1>6. CandidateInv'
  BY <1>4 DEF CandidateInv, Promising, EndsInPluses
<1> QED
  BY <1>1, <1>5, <1>6 DEF FilterInv

LEMMA DisconnectedKept == FilterInv /\ Disconnected => FilterInv'
<1> SUFFICES ASSUME FilterInv, Disconnected PROVE FilterInv'
  OBVIOUS
<1>1. TypeOK /\ TypeOK'
  BY TypesKept DEF FilterInv, Next
<1>2. /\ data_mode' = FALSE /\ count' = 0 /\ timer' = Off /\ exit' = "lost"
      /\ UNCHANGED <<uptime, last_host_rx, entered, sent, at, flushed>>
  BY DEF Disconnected, Leave
<1>3. /\ ModeInv' /\ ClockInv' /\ HeldInv' /\ QuietInv' /\ CandidateInv'
      /\ ExitIsDeliberate'
  BY <1>2 DEF FilterInv, ModeInv, ClockInv, HeldInv, QuietInv, CandidateInv, Promising,
              ExitIsDeliberate
<1> QED
  BY <1>1, <1>3 DEF FilterInv

LEMMA FilterStep == FilterInv /\ [Next]_vars => FilterInv'
<1> SUFFICES ASSUME FilterInv, [Next]_vars PROVE FilterInv'
  OBVIOUS
<1>1. CASE UNCHANGED vars
  <2>1. TypeOK' /\ ModeInv' /\ ClockInv'
    BY <1>1 DEF FilterInv, vars, filter, history, TypeOK, ModeInv, ClockInv, LastHeard
  <2>2. HeldInv' /\ QuietInv'
    BY <1>1 DEF FilterInv, vars, filter, history, HeldInv, QuietInv, LastHeard,
                Begun, QuietBefore, EndsInPluses
  <2>3. CandidateInv' /\ ExitIsDeliberate'
    BY <1>1 DEF FilterInv, vars, filter, history, CandidateInv, Promising, QuietBefore,
                EndsInPluses, StrayPlusBefore, HeldAtMost, ExitIsDeliberate
  <2> QED
    BY <2>1, <2>2, <2>3 DEF FilterInv
<1> QED
  BY <1>1, StartKept, GrowKept, PassKept, RecognizedKept, AbandonedKept, TickKept,
     ActivateKept, DisconnectedKept DEF Next, Byte

LEMMA FilterAlways == Spec => []FilterInv
  BY FilterInit, FilterStep, PTL DEF Spec

----------------------------------------------------------------------------
\* Every variable of the filter keeps its type: the candidate never counts more than
\* the three bytes escape_state.buf holds.
THEOREM TypeCorrect == Spec => []TypeOK
<1>1. FilterInv => TypeOK
  BY DEF FilterInv
<1> QED
  BY <1>1, FilterAlways, PTL

\* escape_guard_work_handler leaves data mode only for three pluses with the guard
\* time of quiet on both sides, whatever the host sends and however late the timer.
THEOREM DeliberateExit == Spec => []ExitIsDeliberate
<1>1. FilterInv => ExitIsDeliberate
  BY DEF FilterInv
<1> QED
  BY <1>1, FilterAlways, PTL

\* handle_data_mode_rx and the guard timer between them recognise every `+++` sent
\* after the guard time of quiet, unless a stray plus went before it.
THEOREM NoEscapeMissed == Spec => []EscapeNotMissed
<1>1. FilterInv => EscapeNotMissed
  <2> SUFFICES ASSUME FilterInv, data_mode, EndsInPluses(3), QuietBefore(Len(at) - 2),
                      ~StrayPlusBefore(Len(at) - 2)
               PROVE  count = 3
    BY DEF EscapeNotMissed
  <2>1. Len(sent) - 3 + 1 = Len(at) - 2
    BY DEF FilterInv, TypeOK
  <2>2. Promising(3)
    BY <2>1 DEF Promising
  <2> QED
    BY <2>2 DEF FilterInv, CandidateInv
<1> QED
  BY <1>1, FilterAlways, PTL

\* Held pluses never wait for longer than the guard timer, its lateness and a tick:
\* every path of handle_data_mode_rx that holds one back arms the timer again.
THEOREM BriefHold == Spec => []HeldBriefly
<1>1. FilterInv => HeldBriefly
  <2> SUFFICES ASSUME FilterInv, count > 0
               PROVE  timer # Off /\ uptime <= at[Len(at)] + HeldAtMost
    BY DEF HeldBriefly
  <2>1. timer # Off
    BY DEF FilterInv, ModeInv
  <2>2. /\ EndsInPluses(count)
        /\ timer <= at[Len(sent)] + Guard + 1 /\ uptime <= timer + MaxLate
    BY DEF FilterInv, HeldInv
  <2>3. /\ Len(sent) = Len(at) /\ Len(sent) \in Nat /\ count \in Nat
        /\ uptime \in Nat /\ timer \in Int /\ Guard \in Nat /\ MaxLate \in Nat
    BY TimesAssumption DEF FilterInv, TypeOK, Times, Off
  <2>4. at[Len(at)] \in Nat
    BY <2>2, <2>3, TimesOfBytes DEF EndsInPluses, FilterInv
  <2> QED
    BY <2>1, <2>2, <2>3, <2>4 DEF HeldAtMost
<1> QED
  BY <1>1, FilterAlways, PTL

----------------------------------------------------------------------------
\* One more plus held back is one more at the end of the stream.
LEMMA PlusesGrow ==
    ASSUME NEW s \in Seq({Plus, Other}), NEW k \in Nat
    PROVE  s \o Pluses(k + 1) = Append(s \o Pluses(k), Plus)
<1> DEFINE B == {Plus, Other}
<1>1. \A m \in Nat : Pluses(m) \in Seq(B) /\ Len(Pluses(m)) = m
  BY DEF Pluses
<1>2. Pluses(k + 1) = Append(Pluses(k), Plus)
  <2>1. Append(Pluses(k), Plus) \in Seq(B) /\ Pluses(k + 1) \in Seq(B)
    BY <1>1
  <2>2. /\ Len(Append(Pluses(k), Plus)) = k + 1
        /\ \A i \in 1..k : Append(Pluses(k), Plus)[i] = Plus
        /\ Append(Pluses(k), Plus)[k + 1] = Plus
    BY <1>1, AppendProperties DEF Pluses
  <2>3. Len(Pluses(k + 1)) = k + 1 /\ \A i \in 1..(k + 1) : Pluses(k + 1)[i] = Plus
    BY <1>1 DEF Pluses
  <2>4. \A i \in 1..(k + 1) : Pluses(k + 1)[i] = Append(Pluses(k), Plus)[i]
    BY <2>2, <2>3
  <2> QED
    BY <2>1, <2>2, <2>3, <2>4, SeqEqual
<1>3. Append(Pluses(k), Plus) = Pluses(k) \o <<Plus>>
  BY <1>1, AppendIsConcat
<1>4. Append(s \o Pluses(k), Plus) = (s \o Pluses(k)) \o <<Plus>>
  BY <1>1, ConcatProperties, AppendIsConcat
<1>5. (s \o Pluses(k)) \o <<Plus>> = s \o (Pluses(k) \o <<Plus>>)
  <2>1. <<Plus>> \in Seq(B) /\ Pluses(k) \in Seq(B)
    BY <1>1
  <2> HIDE DEF B
  <2>2. s \in Seq(B)
    BY DEF B
  <2> QED
    BY <2>1, <2>2, ConcatAssociative
<1> QED
  BY <1>2, <1>3, <1>4, <1>5

LEMMA NoPluses == \A s \in Seq({Plus, Other}) : s \o Pluses(0) = s
<1>1. Pluses(0) = <<>>
  BY DEF Pluses
<1> QED
  BY <1>1, ConcatEmptySeq

LEMMA PayloadStep ==
    FilterInv /\ PayloadIsStream /\ [Next]_vars => PayloadIsStream'
<1> SUFFICES ASSUME FilterInv, PayloadIsStream, [Next]_vars PROVE PayloadIsStream'
  OBVIOUS
<1>1. /\ payload \in Seq({Plus, Other}) /\ sent \in Seq({Plus, Other}) /\ count \in 0..3
      /\ data_mode => exit = "none"
      /\ data_mode => payload \o Pluses(count) = sent
      /\ payload' \in Seq({Plus, Other})
  BY TypesKept DEF FilterInv, TypeOK, ModeInv, PayloadIsStream
\* The byte is held back behind what the filter holds or has let through.
<1>2. ASSUME Receive(Plus), NEW k \in 0..2, count' = k + 1, payload' \o Pluses(k) = sent
      PROVE  PayloadIsStream'
  <2>1. data_mode' /\ exit' = "none" /\ sent' = Append(sent, Plus)
    BY <1>1, <1>2 DEF Receive
  <2>2. payload' \o Pluses(k + 1) = Append(payload' \o Pluses(k), Plus)
    <3>1. k \in Nat /\ payload' \in Seq({Plus, Other})
      BY <1>1
    <3> QED
      BY <3>1, PlusesGrow
  <2>3. payload' \o Pluses(count') = sent'
    BY <1>2, <2>1, <2>2
  <2> QED
    BY <2>1, <2>3 DEF PayloadIsStream, Pluses
<1>3. CASE Tick
  BY <1>3 DEF Tick, filter, history, PayloadIsStream, Pluses
<1>4. CASE Activate
  <2>1. payload' = <<>> /\ sent' = <<>> /\ count' = 0 /\ exit' = "none"
    BY <1>4 DEF Activate
  <2>2. <<>> \o Pluses(0) = <<>>
    BY NoPluses, EmptySeq
  <2> QED
    BY <2>1, <2>2 DEF PayloadIsStream, Pluses
<1>5. CASE CandidateStarts
  <2>1. Receive(Plus) /\ data_mode /\ count = 0 /\ count' = 0 + 1 /\ payload' = payload
    BY <1>5 DEF CandidateStarts, Receive, Hold
  <2> QED
    BY <2>1, <1>1, <1>2
<1>6. CASE CandidateGrows
  <2>1. Receive(Plus) /\ data_mode /\ count \in 0..2 /\ count' = count + 1 /\ payload' = payload
    BY <1>6 DEF CandidateGrows, Receive, Hold
  <2> QED
    BY <2>1, <1>1, <1>2
<1>7. CASE PayloadByte
  <2>1. PICK b \in {Plus, Other} : Receive(b) /\ Pass(b)
    BY <1>7 DEF PayloadByte
  <2>2. /\ data_mode /\ exit' = exit /\ sent' = Append(sent, b)
        /\ payload' = Append(payload \o Pluses(count), b) /\ count' = 0
    BY <2>1 DEF Receive, Pass
  <2>3. payload' = sent'
    BY <2>2, <1>1
  <2>4. payload' \o Pluses(0) = sent'
    BY <2>3, <1>1, NoPluses
  <2> QED
    BY <2>2, <2>4, <1>1 DEF PayloadIsStream, Pluses
<1>8. CASE FourthPlusStartsAnew
  <2>1. /\ Receive(Plus) /\ data_mode /\ count = 3 /\ count' = 0 + 1
        /\ payload' = payload \o Pluses(3)
    BY <1>8 DEF FourthPlusStartsAnew, Receive, Hold
  <2>2. payload' \o Pluses(0) = sent
    BY <2>1, <1>1, NoPluses
  <2> QED
    BY <2>1, <2>2, <1>2
<1>9. CASE Recognized
  <2>1. ~data_mode' /\ count = 3 /\ UNCHANGED <<sent, payload>>
    BY <1>9 DEF Recognized, Leave
  <2>2. data_mode
    BY <2>1 DEF FilterInv, ModeInv
  <2> QED
    BY <2>1, <2>2, <1>1 DEF PayloadIsStream, Pluses
<1>10. CASE Abandoned
  <2>1. /\ count > 0 /\ count' = 0 /\ payload' = payload \o Pluses(count)
        /\ sent' = sent /\ exit' = exit
    BY <1>10 DEF Abandoned
  <2>2. data_mode
    BY <2>1 DEF FilterInv, ModeInv
  <2>3. payload' \o Pluses(0) = sent
    BY <2>1, <2>2, <1>1, NoPluses
  <2> QED
    BY <2>1, <2>2, <2>3, <1>1 DEF PayloadIsStream, Pluses
<1>11. CASE Disconnected
  BY <1>11 DEF Disconnected, Leave, PayloadIsStream
<1>12. CASE UNCHANGED vars
  BY <1>12 DEF vars, filter, history, PayloadIsStream, Pluses
<1> QED
  BY <1>3, <1>4, <1>5, <1>6, <1>7, <1>8, <1>9, <1>10, <1>11, <1>12 DEF Next, Byte

\* flush_escape_candidate and the paths of handle_data_mode_rx that end a candidate put
\* the held pluses into the stream, in their place; only a recognised escape takes away
\* bytes, and it takes its own three.
THEOREM FilterFaithful == Spec => []PayloadIsStream
<1>1. Init => PayloadIsStream
  <2> SUFFICES ASSUME Init PROVE PayloadIsStream
    OBVIOUS
  <2>1. ~data_mode /\ exit = "none"
    BY DEF Init
  <2> QED
    BY <2>1 DEF PayloadIsStream
<1> QED
  BY <1>1, PayloadStep, FilterAlways, PTL DEF Spec

=============================================================================
