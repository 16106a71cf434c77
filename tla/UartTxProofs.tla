----------------------------- MODULE UartTxProofs -----------------------------
(***************************************************************************)
(* The way to the host, for every size of the rings, the chunk and the     *)
(* notifications: the transmit interrupt is never off while something      *)
(* waits for it, the stream of an earlier session never opens the next,    *)
(* and the bytes of the stream stay between the lines that announce and    *)
(* end it.                                                                 *)
(*                                                                         *)
(* The last needs the way of the opening marker, from ctrl_tx_ring to the  *)
(* host (Marked), and that the two rings keep to their own items (TypeOK). *)
(***************************************************************************)
EXTENDS UartTx, SequenceTheorems, TLAPS

\* A pending entry is one the transmit interrupt activates once ctrl_tx_ring is empty.
PendingInv ==
    /\ pending_enter => mode = "control" /\ conn
    /\ NoLostKick

\* Outside data mode ble_to_host_ring is empty; in it, it is fresh.
FreshInv ==
    /\ start <= bytes
    /\ mode = "control" => stream = <<>>
    /\ StreamIsFresh

\* Bytes are notified, queued and transmitted in the order of their positions.
OrderInv ==
    /\ \A i \in 1..Len(stream) : stream[i][2] <= bytes
    /\ \A i \in 1..Len(host) : InStream(i) => host[i][2] <= bytes
    /\ \A i, j \in 1..Len(stream) : i < j => stream[i][2] < stream[j][2]
    /\ \A i \in 1..Len(host), j \in 1..Len(stream) : InStream(i) => host[i][2] < stream[j][2]
    /\ \A i, j \in 1..Len(host) :
          i < j /\ InStream(i) /\ InStream(j) => host[i][2] < host[j][2]

Opening == Eol("DATAMODE,1")
Closing == {Eol("DATAMODE,0"), Eol("BLMD")}

\* From o on, s has the opening marker and no closing one.
OpenFrom(s, o) == s[o] = Opening /\ \A c \in o..Len(s) : s[c] \notin Closing

\* The marker has reached the host, or, before data mode, is on its way.
Marked ==
    \/ /\ \E o \in 1..Len(host) : OpenFrom(host, o)
       /\ \A c \in 1..Len(ctrl) : ctrl[c] \notin Closing
    \/ mode # "data" /\ \E o \in 1..Len(ctrl) : OpenFrom(ctrl, o)

\* The i-th item the host received comes after an opening marker that is still open.
Within(i) == \E o \in 1..(i - 1) : Opens(o) /\ \A c \in o..i : ~Closes(c)

MarkerInv ==
    ~cut => /\ \A i \in 1..Len(host) : InStream(i) => Within(i)
            /\ pending_enter \/ mode = "data" => Marked

UartInv == TypeOK /\ PendingInv /\ FreshInv /\ OrderInv /\ MarkerInv

----------------------------------------------------------------------------
\* r is ring with the first k items of s behind it.
Extended(S, ring, s, k, r) ==
    /\ r \in Seq(S) /\ Len(r) = Len(ring) + k
    /\ \A i \in 1..Len(ring) : r[i] = ring[i]
    /\ \A i \in 1..k : r[Len(ring) + i] = s[i]

\* ring_put_bytes appends a beginning of what it is given and never overfills the ring.
LEMMA PutPrefix ==
    ASSUME NEW S, NEW ring \in Seq(S), NEW s \in Seq(S), NEW size \in Nat, Len(ring) <= size
    PROVE  \E k \in 0..Len(s) :
              Extended(S, ring, s, k, Put(ring, size, s)) /\ Len(ring) + k <= size
<1> DEFINE room == size - Len(ring)
           k == IF Len(s) <= room THEN Len(s) ELSE room
           t == SubSeq(s, 1, k)
<1>1. Len(ring) \in Nat /\ Len(s) \in Nat
  OBVIOUS
<1>2. k \in 0..Len(s) /\ Len(ring) + k <= size
  BY <1>1
<1>3. t \in Seq(S) /\ Len(t) = k /\ \A i \in 1..k : t[i] = s[i]
  <2> HIDE DEF k
  <2> QED
    BY <1>1, <1>2
<1>4. Extended(S, ring, s, k, ring \o t)
  <2> HIDE DEF t, k
  <2> QED
    BY <1>1, <1>2, <1>3 DEF Extended
<1>5. Put(ring, size, s) = ring \o t
  BY DEF Put
<1> HIDE DEF t, k
<1> QED
  BY <1>2, <1>4, <1>5

LEMMA OneItem ==
    ASSUME NEW S, NEW x \in S
    PROVE  \E s \in Seq(S) : s = <<x>> /\ Len(s) = 1 /\ s[1] = x
<1>1. <<x>> \in Seq(S) /\ Len(<<x>>) = 1 /\ <<x>>[1] = x
  OBVIOUS
<1> QED
  BY <1>1

\* r is ring with the line l behind it, or as much of it as fits.
LineOrLess(ring, l, r) ==
    /\ r \in Seq(CtrlItem) /\ Len(r) <= CtrlSize
    /\ Len(r) \in Len(ring)..(Len(ring) + 2)
    /\ \A i \in 1..Len(ring) : r[i] = ring[i]
    /\ \A i \in (Len(ring) + 1)..Len(r) : r[i] \in {Body(l), Eol(l)}
    /\ Len(r) = Len(ring) + 2 => r[Len(ring) + 2] = Eol(l)

\* queue_ctrl_line: a line is cut off at its end or not at all.
LEMMA LinePut ==
    ASSUME NEW ring \in Seq(CtrlItem), Len(ring) <= CtrlSize, NEW l \in Line
    PROVE  LineOrLess(ring, l, PutLine(ring, l))
<1>1. CtrlSize \in Nat
  BY SizesAssumption
<1>2. Body(l) \in CtrlItem /\ Eol(l) \in CtrlItem
  BY DEF Body, Eol, CtrlItem
<1>3. PICK b \in Seq(CtrlItem) : b = <<Body(l)>> /\ Len(b) = 1 /\ b[1] = Body(l)
  BY <1>2, OneItem
<1>4. PICK e \in Seq(CtrlItem) : e = <<Eol(l)>> /\ Len(e) = 1 /\ e[1] = Eol(l)
  BY <1>2, OneItem
<1>5. PICK r1 : r1 = Put(ring, CtrlSize, b)
  OBVIOUS
<1>6. PICK k \in 0..1 : Extended(CtrlItem, ring, b, k, r1) /\ Len(ring) + k <= CtrlSize
  BY <1>1, <1>3, <1>5, PutPrefix
<1>7. PICK r2 : r2 = Put(r1, CtrlSize, e)
  OBVIOUS
<1>8. PICK m \in 0..1 : Extended(CtrlItem, r1, e, m, r2) /\ Len(r1) + m <= CtrlSize
  <2>1. r1 \in Seq(CtrlItem) /\ Len(r1) <= CtrlSize
    BY <1>6 DEF Extended
  <2> QED
    BY <2>1, <1>1, <1>4, <1>7, PutPrefix
<1>9. PutLine(ring, l) = r2
  BY <1>3, <1>4, <1>5, <1>7 DEF PutLine
<1>10. /\ Len(ring) \in Nat /\ Len(r1) = Len(ring) + k /\ Len(r2) = Len(r1) + m
       /\ \A i \in 1..Len(ring) : r1[i] = ring[i]
       /\ \A i \in 1..Len(r1) : r2[i] = r1[i]
       /\ k = 1 => r1[Len(ring) + 1] = Body(l)
       /\ m = 1 => r2[Len(r1) + 1] = Eol(l)
       /\ r2 \in Seq(CtrlItem) /\ Len(r2) <= CtrlSize
  BY <1>3, <1>4, <1>6, <1>8 DEF Extended
<1>11. ASSUME NEW i \in (Len(ring) + 1)..Len(r2)
       PROVE  r2[i] \in {Body(l), Eol(l)}
  <2>1. CASE i <= Len(r1)
    <3>1. i = Len(ring) + 1 /\ k = 1 /\ i \in 1..Len(r1)
      BY <2>1, <1>10
    <3> QED
      BY <3>1, <1>10
  <2>2. CASE i = Len(r1) + 1
    <3>1. m = 1
      BY <2>2, <1>10
    <3> QED
      BY <2>2, <3>1, <1>10
  <2> QED
    BY <2>1, <2>2, <1>10
<1>12. Len(r2) \in Len(ring)..(Len(ring) + 2) /\ \A i \in 1..Len(ring) : r2[i] = ring[i]
  BY <1>10
<1>13. Len(r2) = Len(ring) + 2 => r2[Len(ring) + 2] = Eol(l)
  BY <1>10
<1> QED
  BY <1>9, <1>10, <1>11, <1>12, <1>13 DEF LineOrLess

\* The first n items of the ring c have moved to the host.
Moved(T, S, h, c, n, h2, c2) ==
    /\ h2 \in Seq(T) /\ Len(h2) = Len(h) + n
    /\ \A i \in 1..Len(h) : h2[i] = h[i]
    /\ \A i \in 1..n : h2[Len(h) + i] = c[i]
    /\ c2 \in Seq(S) /\ Len(c2) = Len(c) - n
    /\ \A i \in 1..Len(c2) : c2[i] = c[n + i]

\* uart_fifo_fill of n items: they move from the ring to the host in their order.
LEMMA ItemsMoved ==
    ASSUME NEW T, NEW S \in SUBSET T, NEW h \in Seq(T), NEW c \in Seq(S),
           NEW n \in 1..Len(c)
    PROVE  Moved(T, S, h, c, n, h \o SubSeq(c, 1, n), SubSeq(c, n + 1, Len(c)))
<1> DEFINE t == SubSeq(c, 1, n)
           h2 == h \o t
           c2 == SubSeq(c, n + 1, Len(c))
<1>1. Len(h) \in Nat /\ Len(c) \in Nat
  OBVIOUS
<1>2. t \in Seq(S) /\ Len(t) = n /\ \A i \in 1..n : t[i] = c[i]
  BY <1>1
<1>3. t \in Seq(T)
  <2>1. \A i \in 1..Len(t) : t[i] \in T
    BY <1>2
  <2> QED
    BY <1>2, <2>1
<1>4. /\ h2 \in Seq(T) /\ Len(h2) = Len(h) + n
      /\ \A i \in 1..Len(h) : h2[i] = h[i]
      /\ \A i \in 1..n : h2[Len(h) + i] = t[i]
  <2> HIDE DEF t
  <2> QED
    BY <1>1, <1>2, <1>3
<1>5. /\ c2 \in Seq(S) /\ Len(c2) = Len(c) - n
      /\ \A i \in 1..Len(c2) : c2[i] = c[n + i]
  BY <1>1
<1>6. Moved(T, S, h, c, n, h2, c2)
  <2> HIDE DEF t, h2, c2
  <2> QED
    BY <1>2, <1>4, <1>5 DEF Moved
<1> QED
  BY <1>6

----------------------------------------------------------------------------
\* The ring of control lines after queue_ctrl_line, in the state of the program.
LEMMA LineQueued ==
    ASSUME TypeOK, NEW l \in Line, QueueLine(l)
    PROVE  /\ LineOrLess(ctrl, l, ctrl')
           /\ ctrl' \in Seq(CtrlItem) /\ Len(ctrl') <= CtrlSize
           /\ lines' \in 0..MaxLines /\ cut' \in BOOLEAN /\ tx_irq' \in BOOLEAN
           /\ dtr => tx_irq'
           /\ ~cut' => ~cut /\ Len(ctrl') = Len(ctrl) + 2
<1>1. LineOrLess(ctrl, l, ctrl')
  BY LinePut DEF TypeOK, QueueLine, Queued
<1>2. ctrl' \in Seq(CtrlItem) /\ Len(ctrl') <= CtrlSize /\ Len(ctrl') \in Len(ctrl)..(Len(ctrl) + 2)
  BY <1>1 DEF LineOrLess
<1>3. lines' \in 0..MaxLines
  BY SizesAssumption DEF TypeOK, QueueLine, Queued
<1>4. cut' = (cut \/ Len(ctrl') < Len(ctrl) + 2)
  BY DEF QueueLine, Queued
<1>5. cut' \in BOOLEAN /\ (~cut' => ~cut /\ ~(Len(ctrl') < Len(ctrl) + 2))
  BY <1>4 DEF TypeOK
<1>6. Len(ctrl) \in Nat
  BY DEF TypeOK
<1>7. tx_irq' = (dtr \/ tx_irq)
  BY DEF QueueLine, Queued, KickUartTx
<1>8. tx_irq' \in BOOLEAN /\ (dtr => tx_irq')
  BY <1>7 DEF TypeOK
<1> QED
  BY <1>1, <1>2, <1>3, <1>5, <1>6, <1>8

\* The two lines of AT+ENTERDATAMODE: the marker is the last of what is queued.
LEMMA EntryQueued ==
    ASSUME TypeOK, OpEnterDataMode
    PROVE  /\ ctrl' \in Seq(CtrlItem) /\ Len(ctrl') <= CtrlSize
           /\ lines' \in 0..MaxLines /\ cut' \in BOOLEAN /\ tx_irq' \in BOOLEAN
           /\ dtr => tx_irq'
           /\ ~cut' => /\ ~cut /\ Len(ctrl') \in Nat \ {0}
                       /\ ctrl'[Len(ctrl')] = Opening
<1>1. "ok" \in Line /\ "DATAMODE,1" \in Line
  BY DEF Line
<1>2. PICK r : r = PutLine(ctrl, "ok")
  OBVIOUS
<1>3. LineOrLess(ctrl, "ok", r)
  BY <1>1, <1>2, LinePut DEF TypeOK
<1>4. r \in Seq(CtrlItem) /\ Len(r) <= CtrlSize /\ Len(r) \in Len(ctrl)..(Len(ctrl) + 2)
  BY <1>3 DEF LineOrLess
<1>5. ctrl' = PutLine(r, "DATAMODE,1")
  BY <1>2 DEF OpEnterDataMode, Queued
<1>6. LineOrLess(r, "DATAMODE,1", ctrl')
  BY <1>1, <1>4, <1>5, LinePut
<1>7. /\ ctrl' \in Seq(CtrlItem) /\ Len(ctrl') <= CtrlSize
      /\ Len(ctrl') \in Len(r)..(Len(r) + 2)
      /\ Len(ctrl') = Len(r) + 2 => ctrl'[Len(r) + 2] = Opening
  BY <1>6 DEF LineOrLess, Opening
<1>8. lines' \in 0..MaxLines
  <2>1. lines + 2 <= MaxLines /\ lines' = lines + 2
    BY DEF OpEnterDataMode, Queued
  <2>2. lines \in 0..MaxLines /\ MaxLines \in Nat
    BY SizesAssumption DEF TypeOK
  <2> QED
    BY <2>1, <2>2
<1>9. cut' = (cut \/ Len(ctrl') < Len(ctrl) + 2 * 2)
  BY DEF OpEnterDataMode, Queued
<1>10. cut' \in BOOLEAN /\ (~cut' => ~cut /\ ~(Len(ctrl') < Len(ctrl) + 4))
  <2>1. cut \in BOOLEAN /\ 2 * 2 = 4
    BY DEF TypeOK
  <2> QED
    BY <1>9, <2>1
<1>11. Len(ctrl) \in Nat
  BY DEF TypeOK
<1>12. tx_irq' = (dtr \/ tx_irq)
  BY DEF OpEnterDataMode, Queued, KickUartTx
<1>13. tx_irq' \in BOOLEAN /\ (dtr => tx_irq')
  BY <1>12 DEF TypeOK
<1>14. ~cut' => Len(ctrl') = Len(r) + 2 /\ Len(r) + 2 \in Nat \ {0}
  BY <1>4, <1>7, <1>10, <1>11
<1> QED
  BY <1>7, <1>8, <1>10, <1>13, <1>14

\* A notification: the bytes that fit, in their order, behind what waits.
LEMMA BytesQueued ==
    ASSUME TypeOK, Notify
    PROVE  /\ bytes' \in Nat /\ bytes < bytes' /\ bytes' <= MaxBytes
           /\ stream' \in Seq(StreamItem) /\ Len(stream') <= StreamSize
           /\ Len(stream') \in Nat /\ Len(stream) <= Len(stream')
           /\ \A i \in 1..Len(stream) : stream'[i] = stream[i]
           /\ \A i \in (Len(stream) + 1)..Len(stream') :
                 stream'[i] = Byte(bytes + (i - Len(stream))) /\ bytes + (i - Len(stream)) <= bytes'
<1>1. /\ bytes \in Nat /\ stream \in Seq(StreamItem) /\ Len(stream) <= StreamSize
      /\ Len(stream) \in Nat /\ StreamSize \in Nat /\ MaxBytes \in Nat /\ MaxNotify \in Nat
  BY SizesAssumption DEF TypeOK
<1>2. PICK n \in 1..MaxNotify :
          /\ bytes + n <= MaxBytes /\ bytes' = bytes + n
          /\ stream' = Put(stream, StreamSize, [i \in 1..n |-> Byte(bytes + i)])
  BY DEF Notify
<1>3. PICK s : s = [i \in 1..n |-> Byte(bytes + i)]
  OBVIOUS
<1>4. s \in Seq(StreamItem) /\ Len(s) = n /\ \A i \in 1..n : s[i] = Byte(bytes + i)
  <2>1. \A i \in 1..n : Byte(bytes + i) \in StreamItem
    BY <1>1, <1>2 DEF Byte, StreamItem
  <2> QED
    BY <1>3, <2>1
<1>5. PICK k \in 0..n : Extended(StreamItem, stream, s, k, stream') /\ Len(stream) + k <= StreamSize
  BY <1>1, <1>2, <1>3, <1>4, PutPrefix
<1>6. /\ stream' \in Seq(StreamItem) /\ Len(stream') = Len(stream) + k
      /\ \A i \in 1..Len(stream) : stream'[i] = stream[i]
      /\ \A i \in 1..k : stream'[Len(stream) + i] = s[i]
  BY <1>5 DEF Extended
<1>7. ASSUME NEW i \in (Len(stream) + 1)..Len(stream')
      PROVE  stream'[i] = Byte(bytes + (i - Len(stream))) /\ bytes + (i - Len(stream)) <= bytes'
  <2>1. PICK j \in 1..k : j = i - Len(stream)
    BY <1>1, <1>6
  <2>2. i = Len(stream) + j /\ j \in 1..n /\ j = i - Len(stream)
    BY <2>1, <1>1, <1>2
  <2>3. stream'[Len(stream) + j] = Byte(bytes + j)
    BY <2>2, <1>4, <1>6
  <2>4. bytes + j <= bytes'
    BY <2>2, <1>1, <1>2
  <2> QED
    BY <2>2, <2>3, <2>4
<1> QED
  BY <1>1, <1>2, <1>5, <1>6, <1>7

\* A step of the transmitter, with n items of a ring moved to the host.
HostItem == CtrlItem \union StreamItem

LEMMA Transmitted ==
    ASSUME TypeOK
    PROVE  /\ \A n \in 1..Len(ctrl) :
                 host' = host \o SubSeq(ctrl, 1, n) /\ ctrl' = SubSeq(ctrl, n + 1, Len(ctrl))
                 => Moved(HostItem, CtrlItem, host, ctrl, n, host', ctrl')
           /\ \A n \in 1..Len(stream) :
                 host' = host \o SubSeq(stream, 1, n) /\ stream' = SubSeq(stream, n + 1, Len(stream))
                 => Moved(HostItem, StreamItem, host, stream, n, host', stream')
<1>1. CtrlItem \in SUBSET HostItem /\ StreamItem \in SUBSET HostItem
  BY DEF HostItem
<1>2. host \in Seq(HostItem) /\ ctrl \in Seq(CtrlItem) /\ stream \in Seq(StreamItem)
  BY DEF TypeOK, HostItem
<1> QED
  BY <1>1, <1>2, ItemsMoved

----------------------------------------------------------------------------
\* The rings keep to their items and sizes.
LEMMA TypesKept == TypeOK /\ [Next]_vars => TypeOK'
<1> SUFFICES ASSUME TypeOK, [Next]_vars PROVE TypeOK'
  OBVIOUS
<1> USE SizesAssumption
<1>1. ASSUME NEW l \in Line, QueueLine(l),
             mode' \in {"control", "data"}, conn' \in BOOLEAN, pending_enter' \in BOOLEAN,
             stream' = stream \/ stream' = <<>>, UNCHANGED <<start, dtr, host, bytes>>
      PROVE  TypeOK'
  <2>1. /\ ctrl' \in Seq(CtrlItem) /\ Len(ctrl') <= CtrlSize
        /\ lines' \in 0..MaxLines /\ cut' \in BOOLEAN /\ tx_irq' \in BOOLEAN
    BY <1>1, LineQueued
  <2>2. stream' \in Seq(StreamItem) /\ Len(stream') <= StreamSize
    <3>1. <<>> \in Seq(StreamItem) /\ Len(<<>>) = 0 /\ StreamSize \in Nat
      BY SizesAssumption
    <3>2. stream \in Seq(StreamItem) /\ Len(stream) <= StreamSize
      BY DEF TypeOK
    <3>3. CASE stream' = stream
      BY <3>2, <3>3
    <3>4. CASE stream' = <<>>
      BY <3>1, <3>4
    <3> QED
      BY <1>1, <3>3, <3>4
  <2> QED
    BY <1>1, <2>1, <2>2 DEF TypeOK
<1>2. /\ mode \in {"control", "data"} /\ conn \in BOOLEAN /\ pending_enter \in BOOLEAN
      /\ {"BLMC", "line", "event", "DATAMODE,0", "BLMD"} \subseteq Line
  BY DEF TypeOK, Line
<1>3. CASE Connected
  <2>1. QueueLine("BLMC") /\ conn' \in BOOLEAN
        /\ UNCHANGED <<mode, pending_enter, start, stream, dtr, host, bytes>>
    BY <1>3 DEF Connected
  <2> QED
    BY <2>1, <1>1, <1>2
<1>4. CASE ControlLine
  <2>1. QueueLine("line")
        /\ UNCHANGED <<mode, conn, pending_enter, start, stream, dtr, host, bytes>>
    BY <1>4 DEF ControlLine, session
  <2> QED
    BY <2>1, <1>1, <1>2
<1>5. CASE LinkEvent
  <2>1. QueueLine("event")
        /\ UNCHANGED <<mode, conn, pending_enter, start, stream, dtr, host, bytes>>
    BY <1>5 DEF LinkEvent, session
  <2> QED
    BY <2>1, <1>1, <1>2
<1>6. CASE Notify
  <2>1. /\ UNCHANGED <<mode, conn, pending_enter, start, ctrl, dtr, host, lines, cut>>
        /\ tx_irq' = (dtr \/ tx_irq)
    BY <1>6 DEF Notify, session, KickUartTx
  <2>2. /\ bytes' \in 0..MaxBytes /\ stream' \in Seq(StreamItem) /\ Len(stream') <= StreamSize
    BY <1>6, BytesQueued
  <2>3. tx_irq' \in BOOLEAN
    BY <2>1 DEF TypeOK
  <2> QED
    BY <2>1, <2>2, <2>3 DEF TypeOK
<1>7. CASE OpEnterDataMode
  <2>1. pending_enter' \in BOOLEAN /\ UNCHANGED <<mode, conn, start, stream, dtr, host, bytes>>
    BY <1>7 DEF OpEnterDataMode
  <2>2. /\ ctrl' \in Seq(CtrlItem) /\ Len(ctrl') <= CtrlSize
        /\ lines' \in 0..MaxLines /\ cut' \in BOOLEAN /\ tx_irq' \in BOOLEAN
    BY <1>7, EntryQueued
  <2> QED
    BY <2>1, <2>2 DEF TypeOK
<1>8. CASE ExitDataMode
  <2>1. /\ QueueLine("DATAMODE,0") /\ mode' = "control" /\ pending_enter' \in BOOLEAN /\ stream' = <<>>
        /\ UNCHANGED <<conn, start, dtr, host, bytes>>
    BY <1>8 DEF ExitDataMode
  <2> QED
    BY <2>1, <1>1, <1>2
<1>9. CASE Disconnected
  <2>1. /\ QueueLine("BLMD") /\ conn' \in BOOLEAN /\ mode' = "control" /\ pending_enter' \in BOOLEAN
        /\ stream' = <<>> /\ UNCHANGED <<start, dtr, host, bytes>>
    BY <1>9 DEF Disconnected
  <2> QED
    BY <2>1, <1>1, <1>2
<1>10. \A yes \in BOOLEAN : ActivateIf(yes) =>
          /\ mode' \in {"control", "data"} /\ pending_enter' \in BOOLEAN
          /\ start' \in 0..MaxBytes /\ conn' = conn
  BY DEF ActivateIf, TypeOK
<1>11. \A c : Activates(c) \in BOOLEAN
  BY DEF Activates
<1>12. CASE ServiceIdle
  <2>1. ActivateIf(Activates(ctrl)) /\ tx_irq' \in BOOLEAN
        /\ UNCHANGED <<ctrl, stream, dtr, host, lines, bytes, cut>>
    BY <1>12 DEF ServiceIdle, count
  <2> QED
    BY <2>1, <1>10, <1>11 DEF TypeOK
<1>13. CASE ServiceCtrl
  <2>1. PICK n \in 1..TxChunk :
            /\ n <= Len(ctrl)
            /\ host' = host \o SubSeq(ctrl, 1, n) /\ ctrl' = SubSeq(ctrl, n + 1, Len(ctrl))
    BY <1>13 DEF ServiceCtrl
  <2>2. ActivateIf(Activates(ctrl')) /\ UNCHANGED <<stream, dtr, tx_irq, lines, bytes, cut>>
    BY <1>13 DEF ServiceCtrl, count
  <2>3. n \in 1..Len(ctrl) /\ Len(ctrl) \in Nat /\ Len(ctrl) <= CtrlSize
    BY <2>1 DEF TypeOK
  <2>4. Moved(HostItem, CtrlItem, host, ctrl, n, host', ctrl')
    BY <2>1, <2>3, Transmitted
  <2>5. host' \in Seq(CtrlItem \union StreamItem) /\ ctrl' \in Seq(CtrlItem) /\ Len(ctrl') <= CtrlSize
    BY <2>3, <2>4 DEF Moved, HostItem
  <2> QED
    BY <2>2, <2>5, <1>10, <1>11 DEF TypeOK
<1>14. CASE ServiceStream
  <2>1. PICK n \in 1..TxChunk :
            /\ n <= Len(stream)
            /\ host' = host \o SubSeq(stream, 1, n) /\ stream' = SubSeq(stream, n + 1, Len(stream))
    BY <1>14 DEF ServiceStream
  <2>2. ActivateIf(Activates(ctrl)) /\ UNCHANGED <<ctrl, dtr, tx_irq, lines, bytes, cut>>
    BY <1>14 DEF ServiceStream, count
  <2>3. n \in 1..Len(stream) /\ Len(stream) \in Nat /\ Len(stream) <= StreamSize
    BY <2>1 DEF TypeOK
  <2>4. Moved(HostItem, StreamItem, host, stream, n, host', stream')
    BY <2>1, <2>3, Transmitted
  <2>5. host' \in Seq(CtrlItem \union StreamItem) /\ stream' \in Seq(StreamItem) /\ Len(stream') <= StreamSize
    BY <2>3, <2>4 DEF Moved, HostItem
  <2> QED
    BY <2>2, <2>5, <1>10, <1>11 DEF TypeOK
<1>15. CASE DtrNext
  <2>1. /\ dtr' \in BOOLEAN /\ tx_irq' \in BOOLEAN
        /\ UNCHANGED <<mode, conn, pending_enter, start, ctrl, stream, host, lines, bytes, cut>>
    BY <1>15 DEF DtrNext, DtrLost, DtrBack, session, count
  <2> QED
    BY <2>1 DEF TypeOK
<1>16. CASE UNCHANGED vars
  BY <1>16 DEF vars, session, count, TypeOK
<1> QED
  BY <1>3, <1>4, <1>5, <1>6, <1>7, <1>8, <1>9, <1>12, <1>13, <1>14, <1>15, <1>16
     DEF Next, QueueNext, ServiceNext

\* A step that queues a line leaves the interrupt on if DTR is: no wakeup is lost.
LEMMA PendingKept == TypeOK /\ PendingInv /\ [Next]_vars => PendingInv'
<1> SUFFICES ASSUME TypeOK, PendingInv, [Next]_vars PROVE PendingInv'
  OBVIOUS
<1>1. ASSUME NEW l \in Line, QueueLine(l)
      PROVE  dtr => tx_irq'
  BY <1>1, LineQueued
<1>2. {"BLMC", "line", "event", "DATAMODE,0", "BLMD"} \subseteq Line
  BY DEF Line
<1>3. /\ mode \in {"control", "data"} /\ dtr \in BOOLEAN /\ tx_irq \in BOOLEAN
      /\ pending_enter \in BOOLEAN
  BY DEF TypeOK
<1>4. CASE QueueNext
  <2>1. CASE Connected
    BY <2>1, <1>1, <1>2 DEF Connected, PendingInv, NoLostKick
  <2>2. CASE ControlLine
    BY <2>2, <1>1, <1>2 DEF ControlLine, session, PendingInv, NoLostKick
  <2>3. CASE LinkEvent
    BY <2>3, <1>1, <1>2 DEF LinkEvent, session, PendingInv, NoLostKick
  <2>4. CASE Notify
    BY <2>4, <1>3 DEF Notify, session, KickUartTx, PendingInv, NoLostKick
  <2>5. CASE OpEnterDataMode
    BY <2>5, EntryQueued DEF OpEnterDataMode, PendingInv, NoLostKick
  <2>6. CASE ExitDataMode
    BY <2>6, <1>1, <1>2 DEF ExitDataMode, PendingInv, NoLostKick
  <2>7. CASE Disconnected
    BY <2>7, <1>1, <1>2 DEF Disconnected, PendingInv, NoLostKick
  <2> QED
    BY <1>4, <2>1, <2>2, <2>3, <2>4, <2>5, <2>6, <2>7 DEF QueueNext
<1>5. CASE ServiceIdle
  <2>1. CASE Activates(ctrl)
    <3>1. ~pending_enter' /\ ctrl' = <<>> /\ stream' = <<>>
      BY <1>5, <2>1 DEF ServiceIdle, ActivateIf
    <3> QED
      BY <3>1 DEF PendingInv, NoLostKick
  <2>2. CASE ~Activates(ctrl)
    <3>1. /\ ctrl = <<>> /\ (mode = "data" => stream = <<>>)
          /\ UNCHANGED <<ctrl, stream, dtr, mode, pending_enter, conn>>
      <4>1. ActivateIf(FALSE) /\ ctrl = <<>> /\ (mode = "data" => stream = <<>>)
        BY <1>5, <2>2 DEF ServiceIdle, Activates
      <4>2. UNCHANGED <<ctrl, stream, dtr>>
        BY <1>5 DEF ServiceIdle
      <4>3. UNCHANGED <<mode, pending_enter, conn>>
        BY <4>1, <1>3 DEF ActivateIf
      <4> QED
        BY <4>1, <4>2, <4>3
    <3>2. ~pending_enter
      BY <2>2, <3>1 DEF Activates, PendingInv
    <3> QED
      BY <3>1, <3>2 DEF PendingInv, NoLostKick
  <2> QED
    BY <2>1, <2>2
<1>6. CASE ServiceCtrl \/ ServiceStream
  <2>1. tx_irq /\ tx_irq' = tx_irq
    BY <1>6 DEF ServiceCtrl, ServiceStream
  <2>2. PICK c : ActivateIf(Activates(c))
    BY <1>6 DEF ServiceCtrl, ServiceStream
  <2>3. pending_enter' => mode' = "control" /\ conn'
    BY <2>2 DEF ActivateIf, PendingInv, Activates
  <2> QED
    BY <2>1, <2>3 DEF PendingInv, NoLostKick
<1>7. CASE DtrNext
  BY <1>7 DEF DtrNext, DtrLost, DtrBack, session, PendingInv, NoLostKick
<1>8. CASE UNCHANGED vars
  BY <1>8 DEF vars, session, PendingInv, NoLostKick
<1> QED
  BY <1>4, <1>5, <1>6, <1>7, <1>8 DEF Next, ServiceNext

\* What a transmitting step leaves of the session: data mode starts only with the ring
\* of control lines empty.
LEMMA SessionStep ==
    ASSUME TypeOK, NEW c, ActivateIf(Activates(c))
    PROVE  \/ /\ Activates(c) /\ mode = "control" /\ mode' = "data"
              /\ pending_enter /\ ~pending_enter' /\ start' = bytes /\ conn' = conn /\ c = <<>>
           \/ ~Activates(c) /\ UNCHANGED <<mode, pending_enter, start, conn>>
<1>1. pending_enter \in BOOLEAN
  BY DEF TypeOK
<1>2. CASE Activates(c)
  <2>1. ActivateIf(TRUE)
    BY <1>2 DEF Activates
  <2> QED
    BY <2>1, <1>2, <1>1 DEF ActivateIf, Activates
<1>3. CASE ~Activates(c)
  <2>1. ActivateIf(FALSE)
    BY <1>3 DEF Activates
  <2> QED
    BY <2>1, <1>3, <1>1 DEF ActivateIf
<1> QED
  BY <1>2, <1>3

\* A session begins with an empty ring, and queues what is notified in it.
LEMMA FreshKept == TypeOK /\ FreshInv /\ [Next]_vars => FreshInv'
<1> SUFFICES ASSUME TypeOK, FreshInv, [Next]_vars PROVE FreshInv'
  OBVIOUS
<1>1. /\ mode \in {"control", "data"} /\ start \in Nat /\ bytes \in Nat
      /\ Len(stream) \in Nat /\ DOMAIN stream = 1..Len(stream)
      /\ start <= bytes
  BY SizesAssumption DEF TypeOK, FreshInv
<1>2. ASSUME UNCHANGED <<mode, start, stream, bytes>>
      PROVE  FreshInv'
  BY <1>2 DEF FreshInv, StreamIsFresh
<1>3. ASSUME stream' = <<>>, UNCHANGED <<start, bytes>> \/ (start' = bytes /\ bytes' = bytes)
      PROVE  FreshInv'
  BY <1>1, <1>3 DEF FreshInv, StreamIsFresh
<1>4. CASE QueueNext /\ ~Notify
  <2>1. CASE UNCHANGED <<mode, start, stream, bytes>>
    BY <2>1, <1>2
  <2>2. CASE stream' = <<>> /\ UNCHANGED <<start, bytes>>
    BY <2>2, <1>3
  <2> QED
    BY <1>4, <2>1, <2>2 DEF QueueNext, Connected, ControlLine, LinkEvent, OpEnterDataMode,
                            ExitDataMode, Disconnected, session
<1>5. CASE Notify
  <2>1. mode = "data" /\ UNCHANGED <<mode, start>>
    BY <1>5 DEF Notify, session
  <2>2. /\ bytes' \in Nat /\ bytes < bytes'
        /\ Len(stream') \in Nat /\ DOMAIN stream' = 1..Len(stream') /\ Len(stream) <= Len(stream')
        /\ \A i \in 1..Len(stream) : stream'[i] = stream[i]
        /\ \A i \in (Len(stream) + 1)..Len(stream') :
              stream'[i] = Byte(bytes + (i - Len(stream)))
    BY <1>5, BytesQueued
  <2>3. ASSUME NEW i \in 1..Len(stream')
        PROVE  stream'[i][2] > start
    <3>1. CASE i \in 1..Len(stream)
      BY <3>1, <2>2, <1>1 DEF FreshInv, StreamIsFresh
    <3>2. CASE i \in (Len(stream) + 1)..Len(stream')
      <4>1. stream'[i][2] = bytes + (i - Len(stream))
        BY <3>2, <2>2 DEF Byte
      <4> QED
        BY <4>1, <3>2, <1>1, <2>2
    <3> QED
      BY <3>1, <3>2, <1>1, <2>2
  <2>4. StreamIsFresh'
    BY <2>1, <2>2, <2>3 DEF StreamIsFresh
  <2> QED
    BY <2>1, <2>2, <2>4, <1>1 DEF FreshInv
<1>6. ASSUME NEW c, ActivateIf(Activates(c)), stream' = stream, bytes' = bytes
      PROVE  FreshInv'
  <2>1. CASE UNCHANGED <<mode, start>>
    BY <2>1, <1>6, <1>2
  <2>2. CASE mode = "control" /\ start' = bytes
    <3>1. stream = <<>>
      BY <2>2 DEF FreshInv
    <3> QED
      BY <3>1, <2>2, <1>6, <1>3
  <2> QED
    BY <2>1, <2>2, <1>6, SessionStep
<1>7. CASE ServiceIdle
  BY <1>7, <1>6 DEF ServiceIdle, count
<1>8. CASE ServiceCtrl
  BY <1>8, <1>6 DEF ServiceCtrl, count
<1>9. CASE ServiceStream
  <2>1. PICK n \in 1..TxChunk :
            /\ n <= Len(stream)
            /\ host' = host \o SubSeq(stream, 1, n) /\ stream' = SubSeq(stream, n + 1, Len(stream))
    BY <1>9 DEF ServiceStream
  <2>2. n \in 1..Len(stream) /\ stream # <<>>
    BY <2>1, <1>1, SizesAssumption
  <2>3. mode = "data"
    BY <2>2, <1>1 DEF FreshInv
  <2>4. UNCHANGED <<mode, start, bytes>>
    BY <2>3, <1>9, SessionStep DEF ServiceStream, count
  <2>5. Moved(HostItem, StreamItem, host, stream, n, host', stream')
    BY <2>1, <2>2, Transmitted
  <2>6. \A i \in 1..Len(stream') : n + i \in 1..Len(stream) /\ stream'[i] = stream[n + i]
    BY <2>2, <2>5, <1>1 DEF Moved
  <2>7. DOMAIN stream' = 1..Len(stream')
    BY <2>5 DEF Moved
  <2>8. StreamIsFresh'
    BY <2>3, <2>4, <2>6, <2>7, <1>1 DEF FreshInv, StreamIsFresh
  <2> QED
    BY <2>3, <2>4, <2>8, <1>1 DEF FreshInv
<1>10. CASE DtrNext
  BY <1>10, <1>2 DEF DtrNext, DtrLost, DtrBack, session, count
<1>11. CASE UNCHANGED vars
  BY <1>11, <1>2 DEF vars, session, count
<1> QED
  BY <1>4, <1>5, <1>7, <1>8, <1>9, <1>10, <1>11 DEF Next, ServiceNext

----------------------------------------------------------------------------
\* The two rings never hold each other's items, and no byte of the stream is a marker.
LEMMA ItemsApart ==
    TypeOK => /\ \A i \in 1..Len(ctrl) : ctrl[i][1] # "stream"
              /\ \A i \in 1..Len(stream) : stream[i][1] = "stream" /\ stream[i][2] \in Nat
              /\ \A i \in 1..Len(host) : host[i][1] = "stream" => host[i][2] \in Nat
<1> SUFFICES ASSUME TypeOK
             PROVE  /\ \A i \in 1..Len(ctrl) : ctrl[i][1] # "stream"
                    /\ \A i \in 1..Len(stream) : stream[i][1] = "stream" /\ stream[i][2] \in Nat
                    /\ \A i \in 1..Len(host) : host[i][1] = "stream" => host[i][2] \in Nat
  OBVIOUS
<1>1. MaxBytes \in Nat
  BY SizesAssumption
<1>2. \A x \in CtrlItem : x[1] # "stream"
  BY DEF CtrlItem, Line
<1>3. \A x \in StreamItem : x[1] = "stream" /\ x[2] \in Nat
  BY <1>1 DEF StreamItem
<1>4. /\ \A i \in 1..Len(ctrl) : ctrl[i] \in CtrlItem
      /\ \A i \in 1..Len(stream) : stream[i] \in StreamItem
      /\ \A i \in 1..Len(host) : host[i] \in CtrlItem \union StreamItem
  BY DEF TypeOK
<1> QED
  BY <1>2, <1>3, <1>4

\* Positions only grow on the way from the notification to the host.
LEMMA OrderKept == TypeOK /\ OrderInv /\ [Next]_vars => OrderInv'
<1> SUFFICES ASSUME TypeOK, OrderInv, [Next]_vars PROVE OrderInv'
  OBVIOUS
<1>1. /\ Len(stream) \in Nat /\ Len(host) \in Nat /\ Len(ctrl) \in Nat /\ bytes \in Nat
      /\ TxChunk \in Nat
  BY SizesAssumption DEF TypeOK
<1>2. ASSUME host' = host, bytes' = bytes, stream' = stream \/ stream' = <<>>
      PROVE  OrderInv'
  <2>1. CASE stream' = stream
    BY <1>2, <2>1 DEF OrderInv, InStream
  <2>2. CASE stream' = <<>>
    <3>1. Len(stream') = 0
      BY <2>2
    <3> QED
      BY <1>2, <3>1 DEF OrderInv, InStream
  <2> QED
    BY <1>2, <2>1, <2>2
<1>3. CASE QueueNext /\ ~Notify
  BY <1>3, <1>2 DEF QueueNext, Connected, ControlLine, LinkEvent, OpEnterDataMode,
                    ExitDataMode, Disconnected, session
<1>4. CASE Notify
  <2>1. host' = host
    BY <1>4 DEF Notify
  <2>2. /\ bytes' \in Nat /\ bytes < bytes'
        /\ Len(stream') \in Nat /\ Len(stream) <= Len(stream')
        /\ \A i \in 1..Len(stream) : stream'[i] = stream[i]
        /\ \A i \in (Len(stream) + 1)..Len(stream') :
              stream'[i] = Byte(bytes + (i - Len(stream))) /\ bytes + (i - Len(stream)) <= bytes'
    BY <1>4, BytesQueued
  <2>3. \A i \in 1..Len(stream) : /\ stream'[i][2] = stream[i][2]
                                  /\ stream[i][2] \in Nat /\ stream[i][2] <= bytes
    BY <2>2, ItemsApart DEF OrderInv
  <2>4. \A i \in (Len(stream) + 1)..Len(stream') :
           stream'[i][2] = bytes + (i - Len(stream)) /\ stream'[i][2] <= bytes'
    BY <2>2 DEF Byte
  <2>5. \A i \in 1..Len(host) : host[i][1] = "stream" => host[i][2] \in Nat /\ host[i][2] <= bytes
    BY ItemsApart DEF OrderInv, InStream
  <2>6. \A i \in 1..Len(stream') : stream'[i][2] <= bytes'
    BY <2>2, <2>3, <2>4, <1>1
  <2>7. ASSUME NEW i \in 1..Len(stream'), NEW j \in 1..Len(stream'), i < j
        PROVE  stream'[i][2] < stream'[j][2]
    <3>1. CASE j \in 1..Len(stream)
      BY <3>1, <2>7, <2>2, <2>3, <1>1 DEF OrderInv
    <3>2. CASE j \in (Len(stream) + 1)..Len(stream') /\ i \in 1..Len(stream)
      <4>1. stream'[j][2] = bytes + (j - Len(stream)) /\ j - Len(stream) >= 1
        BY <3>2, <2>4, <1>1, <2>2
      <4>2. stream'[i][2] \in Nat /\ stream'[i][2] <= bytes
        BY <3>2, <2>3
      <4>3. j - Len(stream) \in Nat
        BY <3>2, <1>1, <2>2
      <4> QED
        BY <4>1, <4>2, <4>3, <1>1
    <3>3. CASE j \in (Len(stream) + 1)..Len(stream') /\ i \in (Len(stream) + 1)..Len(stream')
      BY <3>3, <2>7, <2>4, <1>1, <2>2
    <3> QED
      BY <3>1, <3>2, <3>3, <1>1, <2>2
  <2>8. ASSUME NEW i \in 1..Len(host), NEW j \in 1..Len(stream'), host[i][1] = "stream"
        PROVE  host[i][2] < stream'[j][2]
    <3>1. CASE j \in 1..Len(stream)
      BY <3>1, <2>8, <2>3 DEF OrderInv, InStream
    <3>2. CASE j \in (Len(stream) + 1)..Len(stream')
      BY <3>2, <2>8, <2>4, <2>5, <1>1
    <3> QED
      BY <3>1, <3>2, <1>1, <2>2
  <2>9. \A i \in 1..Len(host) : host[i][1] = "stream" => host[i][2] <= bytes'
    BY <2>5, <2>2, <1>1
  <2> QED
    BY <2>1, <2>6, <2>7, <2>8, <2>9 DEF OrderInv, InStream
<1>5. CASE ServiceIdle
  BY <1>5, <1>2 DEF ServiceIdle, count
<1>6. CASE ServiceCtrl
  <2>1. PICK n \in 1..TxChunk :
            /\ n <= Len(ctrl)
            /\ host' = host \o SubSeq(ctrl, 1, n) /\ ctrl' = SubSeq(ctrl, n + 1, Len(ctrl))
    BY <1>6 DEF ServiceCtrl
  <2>2. n \in 1..Len(ctrl) /\ stream' = stream /\ bytes' = bytes
    BY <2>1, <1>1, <1>6 DEF ServiceCtrl, count
  <2>3. Moved(HostItem, CtrlItem, host, ctrl, n, host', ctrl')
    BY <2>1, <2>2, Transmitted
  <2>4. /\ Len(host') = Len(host) + n
        /\ \A i \in 1..Len(host) : host'[i] = host[i]
        /\ \A i \in 1..n : host'[Len(host) + i] = ctrl[i]
    BY <2>3 DEF Moved
  <2>5. ASSUME NEW i \in 1..Len(host'), host'[i][1] = "stream"
        PROVE  i \in 1..Len(host) /\ host'[i] = host[i]
    <3>1. CASE i \in 1..Len(host)
      BY <3>1, <2>4
    <3>2. CASE i \in (Len(host) + 1)..Len(host')
      <4>1. PICK k \in 1..n : i = Len(host) + k
        <5>1. i - Len(host) \in 1..n /\ i = Len(host) + (i - Len(host))
          BY <3>2, <2>2, <2>4, <1>1
        <5> QED
          BY <5>1
      <4>2. host'[i] = ctrl[k] /\ k \in 1..Len(ctrl)
        BY <4>1, <2>2, <2>4, <1>1
      <4> QED
        BY <4>2, <2>5, ItemsApart
    <3> QED
      BY <3>1, <3>2, <1>1, <2>2, <2>4
  <2> QED
    BY <2>2, <2>5 DEF OrderInv, InStream
<1>7. CASE ServiceStream
  <2>1. PICK n \in 1..TxChunk :
            /\ n <= Len(stream)
            /\ host' = host \o SubSeq(stream, 1, n) /\ stream' = SubSeq(stream, n + 1, Len(stream))
    BY <1>7 DEF ServiceStream
  <2>2. n \in 1..Len(stream) /\ bytes' = bytes
    BY <2>1, <1>1, <1>7 DEF ServiceStream, count
  <2>3. Moved(HostItem, StreamItem, host, stream, n, host', stream')
    BY <2>1, <2>2, Transmitted
  <2>4. /\ Len(host') = Len(host) + n
        /\ \A i \in 1..Len(host) : host'[i] = host[i]
        /\ \A i \in 1..n : host'[Len(host) + i] = stream[i]
        /\ Len(stream') = Len(stream) - n
        /\ \A i \in 1..Len(stream') : stream'[i] = stream[n + i]
    BY <2>3 DEF Moved
  <2>5. \A i \in 1..Len(stream') : n + i \in 1..Len(stream) /\ stream'[i] = stream[n + i]
    BY <2>2, <2>4, <1>1
  <2>6. ASSUME NEW i \in (Len(host) + 1)..Len(host')
        PROVE  i - Len(host) \in 1..n /\ i - Len(host) \in 1..Len(stream)
                /\ host'[i] = stream[i - Len(host)]
    <3>1. PICK k \in 1..n : k = i - Len(host)
      <4>1. i - Len(host) \in 1..n
        BY <2>2, <2>4, <1>1
      <4> QED
        BY <4>1
    <3>2. i = Len(host) + k
      BY <3>1, <1>1
    <3>3. host'[i] = stream[k] /\ k \in 1..Len(stream)
      BY <3>1, <3>2, <2>2, <2>4, <1>1
    <3> QED
      BY <3>1, <3>3
  <2>7. \A i \in 1..Len(stream') : stream'[i][2] <= bytes'
    BY <2>5, <2>2 DEF OrderInv
  <2>8. \A i \in 1..Len(host') : host'[i][1] = "stream" => host'[i][2] <= bytes'
    <3> SUFFICES ASSUME NEW i \in 1..Len(host'), host'[i][1] = "stream"
                 PROVE  host'[i][2] <= bytes'
      OBVIOUS
    <3>1. CASE i \in 1..Len(host)
      BY <3>1, <2>2, <2>4 DEF OrderInv, InStream
    <3>2. CASE i \in (Len(host) + 1)..Len(host')
      BY <3>2, <2>2, <2>6 DEF OrderInv
    <3> QED
      BY <3>1, <3>2, <1>1, <2>2, <2>4
  <2>9. ASSUME NEW i \in 1..Len(stream'), NEW j \in 1..Len(stream'), i < j
        PROVE  stream'[i][2] < stream'[j][2]
    <3>1. n + i < n + j /\ n + i \in 1..Len(stream) /\ n + j \in 1..Len(stream)
      BY <2>9, <2>5, <2>2, <2>4, <1>1
    <3> QED
      BY <3>1, <2>5 DEF OrderInv
  <2>10. ASSUME NEW i \in 1..Len(host'), NEW j \in 1..Len(stream'), host'[i][1] = "stream"
         PROVE  host'[i][2] < stream'[j][2]
    <3>1. n + j \in 1..Len(stream) /\ stream'[j] = stream[n + j]
      BY <2>5
    <3>2. CASE i \in 1..Len(host)
      <4>1. host'[i] = host[i] /\ host[i][1] = "stream"
        BY <3>2, <2>4, <2>10
      <4>2. host[i][2] < stream[n + j][2]
        BY <3>1, <3>2, <4>1 DEF OrderInv, InStream
      <4> QED
        BY <3>1, <4>1, <4>2
    <3>3. CASE i \in (Len(host) + 1)..Len(host')
      <4>1. PICK k \in 1..Len(stream) : k <= n /\ host'[i] = stream[k]
        BY <3>3, <2>6, <2>2
      <4>2. k < n + j
        BY <4>1, <2>2, <2>4, <1>1
      <4> QED
        BY <4>1, <4>2, <3>1 DEF OrderInv
    <3> QED
      BY <3>2, <3>3, <1>1, <2>2, <2>4
  <2>11. ASSUME NEW i \in 1..Len(host'), NEW j \in 1..Len(host'), i < j,
                host'[i][1] = "stream", host'[j][1] = "stream"
         PROVE  host'[i][2] < host'[j][2]
    <3>1. CASE j \in 1..Len(host)
      <4>1. i \in 1..Len(host)
        BY <3>1, <2>11, <1>1
      <4> QED
        BY <4>1, <3>1, <2>4, <2>11 DEF OrderInv, InStream
    <3>2. CASE j \in (Len(host) + 1)..Len(host') /\ i \in 1..Len(host)
      BY <3>2, <2>4, <2>6, <2>11 DEF OrderInv, InStream
    <3>3. CASE j \in (Len(host) + 1)..Len(host') /\ i \in (Len(host) + 1)..Len(host')
      <4>1. i - Len(host) < j - Len(host)
        BY <3>3, <2>11, <1>1, <2>2, <2>4
      <4> QED
        BY <4>1, <3>3, <2>6 DEF OrderInv
    <3> QED
      BY <3>1, <3>2, <3>3, <1>1, <2>2, <2>4
  <2> QED
    BY <2>7, <2>8, <2>9, <2>10, <2>11 DEF OrderInv, InStream
<1>8. CASE DtrNext
  BY <1>8, <1>2 DEF DtrNext, DtrLost, DtrBack, session, count
<1>9. CASE UNCHANGED vars
  BY <1>9, <1>2 DEF vars, session, count
<1> QED
  BY <1>3, <1>4, <1>5, <1>6, <1>7, <1>8, <1>9 DEF Next, ServiceNext

\* The opening marker goes to the host before the first byte of the stream, and the
\* closing one is queued with data mode already over.
LEMMA MarkerKept == TypeOK /\ MarkerInv /\ FreshInv /\ [Next]_vars => MarkerInv'
<1> SUFFICES ASSUME TypeOK, MarkerInv, FreshInv, [Next]_vars, ~cut' PROVE
        /\ \A i \in 1..Len(host') : InStream(i)' => Within(i)'
        /\ (pending_enter \/ mode = "data")' => Marked'
  BY DEF MarkerInv
<1>1. /\ Len(stream) \in Nat /\ Len(host) \in Nat /\ Len(ctrl) \in Nat /\ TxChunk \in Nat
      /\ mode \in {"control", "data"} /\ pending_enter \in BOOLEAN
  BY SizesAssumption DEF TypeOK
\* What was received stays received.
<1>2. ASSUME ~cut, host' = host
      PROVE  \A i \in 1..Len(host') : InStream(i)' => Within(i)'
  BY <1>2 DEF MarkerInv, InStream, Within, Opens, Closes
<1>3. ASSUME ~cut, UNCHANGED <<host, ctrl, mode, pending_enter>>
      PROVE  /\ \A i \in 1..Len(host') : InStream(i)' => Within(i)'
             /\ (pending_enter \/ mode = "data")' => Marked'
  BY <1>2, <1>3 DEF MarkerInv, Marked, OpenFrom
\* A line that closes nothing leaves the marker where it is.
<1>4. ASSUME NEW l \in Line, l # "DATAMODE,0", l # "BLMD", QueueLine(l),
             UNCHANGED <<host, mode, pending_enter>>
      PROVE  /\ \A i \in 1..Len(host') : InStream(i)' => Within(i)'
             /\ (pending_enter \/ mode = "data")' => Marked'
  <2>1. LineOrLess(ctrl, l, ctrl') /\ ~cut
    BY <1>4, LineQueued
  <2>2. /\ Len(ctrl') \in Nat /\ Len(ctrl) <= Len(ctrl')
        /\ \A i \in 1..Len(ctrl) : ctrl'[i] = ctrl[i]
        /\ \A i \in (Len(ctrl) + 1)..Len(ctrl') : ctrl'[i] \notin Closing
    <3>1. Body(l) \notin Closing /\ Eol(l) \notin Closing
      BY <1>4 DEF Closing, Body, Eol, Line
    <3>2. /\ Len(ctrl') \in Len(ctrl)..(Len(ctrl) + 2)
          /\ \A i \in 1..Len(ctrl) : ctrl'[i] = ctrl[i]
          /\ \A i \in (Len(ctrl) + 1)..Len(ctrl') : ctrl'[i] \in {Body(l), Eol(l)}
      BY <2>1 DEF LineOrLess
    <3>3. Len(ctrl') \in Nat /\ Len(ctrl) <= Len(ctrl')
      BY <3>2, <1>1
    <3>4. \A x \in {Body(l), Eol(l)} : x \notin Closing
      BY <3>1
    <3> QED
      BY <3>2, <3>3, <3>4
  <2>3. ASSUME pending_enter \/ mode = "data"
        PROVE  Marked'
    <3>1. Marked
      BY <2>1, <2>3 DEF MarkerInv
    <3>2. CASE /\ \E o \in 1..Len(host) : OpenFrom(host, o)
               /\ \A c \in 1..Len(ctrl) : ctrl[c] \notin Closing
      <4>1. ASSUME NEW c \in 1..Len(ctrl')
            PROVE  ctrl'[c] \notin Closing
        <5>1. CASE c \in 1..Len(ctrl)
          BY <5>1, <3>2, <2>2
        <5>2. CASE c \in (Len(ctrl) + 1)..Len(ctrl')
          BY <5>2, <2>2
        <5> QED
          BY <5>1, <5>2, <1>1, <2>2
      <4>2. \E o \in 1..Len(host') : OpenFrom(host, o)'
        BY <3>2, <1>4 DEF OpenFrom
      <4> QED
        BY <4>1, <4>2 DEF Marked
    <3>3. CASE mode # "data" /\ \E o \in 1..Len(ctrl) : OpenFrom(ctrl, o)
      <4>1. PICK o \in 1..Len(ctrl) : OpenFrom(ctrl, o)
        BY <3>3
      <4>2. o \in 1..Len(ctrl') /\ ctrl'[o] = Opening
        <5>1. o \in 1..Len(ctrl')
          BY <2>2, <1>1
        <5>2. ctrl'[o] = ctrl[o] /\ ctrl[o] = Opening
          BY <4>1, <2>2 DEF OpenFrom
        <5> QED
          BY <5>1, <5>2
      <4>3. ASSUME NEW c \in o..Len(ctrl')
            PROVE  ctrl'[c] \notin Closing
        <5>1. CASE c \in 1..Len(ctrl)
          <6>1. ctrl[c] \notin Closing
            BY <5>1, <4>1, <1>1 DEF OpenFrom
          <6> QED
            BY <5>1, <6>1, <2>2
        <5>2. CASE c \in (Len(ctrl) + 1)..Len(ctrl')
          BY <5>2, <2>2
        <5> QED
          BY <5>1, <5>2, <1>1, <2>2
      <4>4. OpenFrom(ctrl', o)
        BY <4>2, <4>3 DEF OpenFrom
      <4> QED
        BY <4>2, <4>4, <3>3, <1>4 DEF Marked
    <3> QED
      BY <3>1, <3>2, <3>3 DEF Marked
  <2> QED
    BY <2>1, <2>3, <1>2, <1>4
<1>5. CASE Connected \/ ControlLine \/ LinkEvent
  <2>1. \A l \in {"BLMC", "line", "event"} : l \in Line /\ l # "DATAMODE,0" /\ l # "BLMD"
    BY DEF Line
  <2>2. UNCHANGED <<host, mode, pending_enter>>
    BY <1>5 DEF Connected, ControlLine, LinkEvent, session
  <2>3. PICK l \in {"BLMC", "line", "event"} : QueueLine(l)
    BY <1>5 DEF Connected, ControlLine, LinkEvent
  <2> QED
    BY <2>1, <2>2, <2>3, <1>4
<1>6. CASE Notify
  BY <1>6, <1>3 DEF Notify, session
<1>7. CASE OpEnterDataMode
  <2>1. ~cut /\ Len(ctrl') \in Nat \ {0} /\ ctrl'[Len(ctrl')] = Opening
    BY <1>7, EntryQueued
  <2>2. host' = host /\ mode' # "data"
    BY <1>7 DEF OpEnterDataMode
  <2>3. Len(ctrl') \in 1..Len(ctrl') /\ OpenFrom(ctrl', Len(ctrl'))
    <3>1. Opening \notin Closing
      BY DEF Opening, Closing, Eol
    <3>2. \A c \in Len(ctrl')..Len(ctrl') : c = Len(ctrl')
      BY <2>1
    <3> QED
      BY <2>1, <3>1, <3>2 DEF OpenFrom
  <2>4. Marked'
    BY <2>2, <2>3 DEF Marked
  <2> QED
    BY <2>1, <2>2, <2>4, <1>2
<1>8. CASE ExitDataMode \/ Disconnected
  <2>1. host' = host /\ mode' = "control" /\ ~pending_enter'
    BY <1>8 DEF ExitDataMode, Disconnected
  <2>2. {"DATAMODE,0", "BLMD"} \subseteq Line
    BY DEF Line
  <2>3. PICK l \in {"DATAMODE,0", "BLMD"} : QueueLine(l)
    BY <1>8 DEF ExitDataMode, Disconnected
  <2>4. ~cut
    BY <2>2, <2>3, LineQueued
  <2> QED
    BY <2>1, <2>4, <1>2
<1>9. CASE ServiceIdle
  <2>1. /\ ctrl = <<>> /\ ActivateIf(Activates(ctrl))
        /\ UNCHANGED <<ctrl, stream, host, cut>>
    BY <1>9 DEF ServiceIdle
  <2>2. ASSUME (pending_enter \/ mode = "data")'
        PROVE  Marked'
    <3>1. pending_enter \/ mode = "data"
      BY <2>1, <2>2, SessionStep
    <3>2. Marked
      BY <3>1, <2>1 DEF MarkerInv
    <3>3. Len(ctrl) = 0
      BY <2>1
    <3>4. \E o \in 1..Len(host) : OpenFrom(host, o)
      BY <3>2, <3>3 DEF Marked
    <3> QED
      BY <3>3, <3>4, <2>1 DEF Marked, OpenFrom
  <2> QED
    BY <2>1, <2>2, <1>2
<1>10. CASE ServiceCtrl
  <2>1. PICK n \in 1..TxChunk :
            /\ n <= Len(ctrl)
            /\ host' = host \o SubSeq(ctrl, 1, n) /\ ctrl' = SubSeq(ctrl, n + 1, Len(ctrl))
    BY <1>10 DEF ServiceCtrl
  <2>2. n \in 1..Len(ctrl) /\ ~cut /\ ActivateIf(Activates(ctrl'))
    BY <2>1, <1>1, <1>10 DEF ServiceCtrl
  <2>3. Moved(HostItem, CtrlItem, host, ctrl, n, host', ctrl')
    BY <2>1, <2>2, Transmitted
  <2>4. /\ Len(host') = Len(host) + n
        /\ \A i \in 1..Len(host) : host'[i] = host[i]
        /\ \A i \in 1..n : host'[Len(host) + i] = ctrl[i]
        /\ Len(ctrl') = Len(ctrl) - n
        /\ \A i \in 1..Len(ctrl') : ctrl'[i] = ctrl[n + i]
    BY <2>3 DEF Moved
  <2>5. ASSUME NEW i \in (Len(host) + 1)..Len(host')
        PROVE  i - Len(host) \in 1..n /\ i - Len(host) \in 1..Len(ctrl)
               /\ host'[i] = ctrl[i - Len(host)]
    <3>1. i - Len(host) \in 1..n
      BY <2>2, <2>4, <1>1
    <3>2. PICK k \in 1..n : k = i - Len(host)
      BY <3>1
    <3>3. i = Len(host) + k
      BY <3>2, <1>1
    <3>4. host'[i] = ctrl[k] /\ k \in 1..Len(ctrl)
      BY <3>2, <3>3, <2>2, <2>4, <1>1
    <3> QED
      BY <3>2, <3>4
  <2>6. ASSUME NEW i \in 1..Len(host'), InStream(i)'
        PROVE  Within(i)'
    <3>1. i \in 1..Len(host)
      <4>1. CASE i \in (Len(host) + 1)..Len(host')
        BY <4>1, <2>5, <2>6, ItemsApart DEF InStream
      <4> QED
        BY <4>1, <1>1, <2>2, <2>4
    <3>2. Within(i)
      BY <3>1, <2>2, <2>4, <2>6 DEF MarkerInv, InStream
    <3>3. PICK o \in 1..(i - 1) : Opens(o) /\ \A c \in o..i : ~Closes(c)
      BY <3>2 DEF Within
    <3>4. Opens(o)' /\ \A c \in o..i : ~Closes(c)'
      <4>1. \A c \in o..i : c \in 1..Len(host) /\ host'[c] = host[c]
        BY <3>1, <2>4, <1>1
      <4>2. o \in o..i
        BY <3>1, <1>1
      <4> QED
        BY <3>3, <4>1, <4>2 DEF Opens, Closes
    <3> QED
      BY <3>4 DEF Within
  <2>7. ASSUME (pending_enter \/ mode = "data")'
        PROVE  Marked'
    <3>1. pending_enter \/ mode = "data"
      BY <2>2, <2>7, SessionStep
    <3>2. Marked
      BY <3>1, <2>2 DEF MarkerInv
    <3>3. CASE /\ \E o \in 1..Len(host) : OpenFrom(host, o)
               /\ \A c \in 1..Len(ctrl) : ctrl[c] \notin Closing
      <4>1. PICK o \in 1..Len(host) : OpenFrom(host, o)
        BY <3>3
      <4>2. host'[o] = Opening /\ o \in 1..Len(host')
        BY <4>1, <2>2, <2>4, <1>1 DEF OpenFrom
      <4>3. ASSUME NEW c \in o..Len(host')
            PROVE  host'[c] \notin Closing
        <5>1. CASE c \in 1..Len(host)
          <6>1. host[c] \notin Closing
            BY <5>1, <4>1, <1>1 DEF OpenFrom
          <6> QED
            BY <5>1, <6>1, <2>4
        <5>2. CASE c \in (Len(host) + 1)..Len(host')
          BY <5>2, <2>5, <3>3
        <5> QED
          BY <5>1, <5>2, <1>1, <2>2, <2>4
      <4>4. \A c \in 1..Len(ctrl') : ctrl'[c] \notin Closing
        <5>1. \A c \in 1..Len(ctrl') : n + c \in 1..Len(ctrl) /\ ctrl'[c] = ctrl[n + c]
          BY <2>2, <2>4, <1>1
        <5> QED
          BY <5>1, <3>3
      <4>5. OpenFrom(host', o)
        BY <4>2, <4>3 DEF OpenFrom
      <4> QED
        BY <4>2, <4>4, <4>5 DEF Marked
    <3>4. CASE mode # "data" /\ \E o \in 1..Len(ctrl) : OpenFrom(ctrl, o)
      <4>1. PICK o \in 1..Len(ctrl) : OpenFrom(ctrl, o)
        BY <3>4
      <4>2. CASE o <= n
        <5>1. PICK p \in 1..Len(host') : p = Len(host) + o
          <6>1. Len(host) + o \in 1..Len(host')
            BY <4>2, <2>2, <2>4, <1>1
          <6> QED
            BY <6>1
        <5>2. host'[p] = Opening
          BY <5>1, <4>1, <4>2, <2>2, <2>4, <1>1 DEF OpenFrom
        <5>3. ASSUME NEW c \in p..Len(host')
              PROVE  host'[c] \notin Closing
          <6>1. c \in (Len(host) + 1)..Len(host') /\ c - Len(host) >= o
            BY <5>1, <1>1, <2>2, <2>4
          <6>2. c - Len(host) \in o..Len(ctrl) /\ host'[c] = ctrl[c - Len(host)]
            BY <6>1, <2>5, <1>1
          <6> QED
            BY <6>2, <4>1 DEF OpenFrom
        <5>4. \A c \in 1..Len(ctrl') : n + c \in o..Len(ctrl) /\ ctrl'[c] = ctrl[n + c]
          BY <4>2, <2>2, <2>4, <1>1
        <5>5. \A c \in 1..Len(ctrl') : ctrl'[c] \notin Closing
          BY <5>4, <4>1 DEF OpenFrom
        <5>6. OpenFrom(host', p)
          BY <5>2, <5>3 DEF OpenFrom
        <5> QED
          BY <5>5, <5>6 DEF Marked
      <4>3. CASE o > n
        <5>1. PICK p \in 1..Len(ctrl') : p = o - n
          <6>1. o - n \in 1..Len(ctrl')
            BY <4>3, <2>2, <2>4, <1>1
          <6> QED
            BY <6>1
        <5>2. mode' # "data"
          <6>1. ctrl' # <<>>
            BY <5>1
          <6> QED
            BY <6>1, <3>4, <2>2, SessionStep
        <5>3. n + p = o /\ \A c \in p..Len(ctrl') : /\ c \in 1..Len(ctrl')
                                                     /\ n + c \in o..Len(ctrl)
          BY <5>1, <2>2, <2>4, <1>1
        <5>4. ctrl'[p] = Opening /\ \A c \in p..Len(ctrl') : ctrl'[c] \notin Closing
          BY <5>3, <4>1, <2>4 DEF OpenFrom
        <5>5. OpenFrom(ctrl', p)
          BY <5>4 DEF OpenFrom
        <5> QED
          BY <5>2, <5>5 DEF Marked
      <4> QED
        BY <4>2, <4>3, <2>2, <1>1
    <3> QED
      BY <3>2, <3>3, <3>4 DEF Marked
  <2> QED
    BY <2>6, <2>7
<1>11. CASE ServiceStream
  <2>1. PICK n \in 1..TxChunk :
            /\ n <= Len(stream)
            /\ host' = host \o SubSeq(stream, 1, n) /\ stream' = SubSeq(stream, n + 1, Len(stream))
    BY <1>11 DEF ServiceStream
  <2>2. n \in 1..Len(stream) /\ ~cut /\ ctrl = <<>> /\ ctrl' = ctrl
    BY <2>1, <1>1, <1>11 DEF ServiceStream
  <2>3. mode = "data"
    <3>1. Len(stream) # 0
      BY <2>2, <1>1
    <3> QED
      BY <3>1, <1>1 DEF FreshInv
  <2>4. mode' = mode
    BY <1>11, <2>3, SessionStep DEF ServiceStream
  <2>5. Moved(HostItem, StreamItem, host, stream, n, host', stream')
    BY <2>1, <2>2, Transmitted
  <2>6. /\ Len(host') = Len(host) + n
        /\ \A i \in 1..Len(host) : host'[i] = host[i]
        /\ \A i \in 1..n : host'[Len(host) + i] = stream[i]
    BY <2>5 DEF Moved
  <2>7. ASSUME NEW i \in (Len(host) + 1)..Len(host')
        PROVE  host'[i] \notin Closing
    <3>1. i - Len(host) \in 1..n
      BY <2>2, <2>6, <1>1
    <3>2. PICK k \in 1..n : k = i - Len(host)
      BY <3>1
    <3>3. i = Len(host) + k
      BY <3>2, <1>1
    <3>4. host'[i] = stream[k] /\ k \in 1..Len(stream)
      BY <3>2, <3>3, <2>2, <2>6, <1>1
    <3>5. host'[i][1] = "stream"
      BY <3>4, ItemsApart
    <3>6. \A x \in Closing : x[1] # "stream"
      <4>1. <<"DATAMODE,0", "eol">>[1] # "stream" /\ <<"BLMD", "eol">>[1] # "stream"
        OBVIOUS
      <4> QED
        BY <4>1 DEF Closing, Eol
    <3> QED
      BY <3>5, <3>6
  <2>8. PICK o \in 1..Len(host) : OpenFrom(host, o)
    <3>1. Marked
      BY <2>2, <2>3 DEF MarkerInv
    <3> QED
      BY <3>1, <2>3 DEF Marked
  <2>9. host'[o] = Opening /\ o \in 1..Len(host')
    BY <2>8, <2>2, <2>6, <1>1 DEF OpenFrom
  <2>10. ASSUME NEW c \in o..Len(host')
         PROVE  host'[c] \notin Closing
    <3>1. CASE c \in 1..Len(host)
      BY <3>1, <2>8, <2>6, <1>1 DEF OpenFrom
    <3>2. CASE c \in (Len(host) + 1)..Len(host')
      BY <3>2, <2>7
    <3> QED
      BY <3>1, <3>2, <1>1, <2>2, <2>6
  <2>11. ASSUME NEW i \in 1..Len(host'), InStream(i)'
         PROVE  Within(i)'
    <3>1. CASE i \in 1..Len(host)
      <4>1. Within(i)
        BY <3>1, <2>2, <2>6, <2>11 DEF MarkerInv, InStream
      <4>2. PICK q \in 1..(i - 1) : Opens(q) /\ \A c \in q..i : ~Closes(c)
        BY <4>1 DEF Within
      <4>3. Opens(q)' /\ \A c \in q..i : ~Closes(c)'
        <5>1. \A c \in q..i : c \in 1..Len(host) /\ host'[c] = host[c]
          BY <3>1, <2>6, <1>1
        <5>2. q \in q..i
          BY <3>1, <1>1
        <5> QED
          BY <4>2, <5>1, <5>2 DEF Opens, Closes
      <4> QED
        BY <4>3 DEF Within
    <3>2. CASE i \in (Len(host) + 1)..Len(host')
      <4>1. o \in 1..(i - 1)
        BY <3>2, <1>1, <2>2, <2>6
      <4>2. Opens(o)'
        BY <2>9 DEF Opens, Opening
      <4>3. \A c \in o..i : ~Closes(c)'
        <5>1. \A c \in o..i : c \in o..Len(host')
          BY <1>1, <2>2, <2>6
        <5> QED
          BY <5>1, <2>10 DEF Closes, Closing
      <4> QED
        BY <4>1, <4>2, <4>3 DEF Within
    <3> QED
      BY <3>1, <3>2, <1>1, <2>2, <2>6
  <2>12. Marked'
    <3>1. Len(ctrl') = 0
      BY <2>2
    <3>2. OpenFrom(host', o)
      BY <2>9, <2>10 DEF OpenFrom
    <3> QED
      BY <3>1, <3>2, <2>9 DEF Marked
  <2> QED
    BY <2>11, <2>12
<1>12. CASE DtrNext
  BY <1>12, <1>3 DEF DtrNext, DtrLost, DtrBack, session, count
<1>13. CASE UNCHANGED vars
  BY <1>13, <1>3 DEF vars, session, count
<1> QED
  BY <1>5, <1>6, <1>7, <1>8, <1>9, <1>10, <1>11, <1>12, <1>13
     DEF Next, QueueNext, ServiceNext

LEMMA UartInit == Init => UartInv
<1> SUFFICES ASSUME Init PROVE UartInv
  OBVIOUS
<1>1. /\ mode = "control" /\ ~conn /\ ~pending_enter /\ ctrl = <<>> /\ stream = <<>>
      /\ host = <<>> /\ bytes = 0 /\ start = 0 /\ lines = 0
      /\ dtr \in BOOLEAN /\ tx_irq \in BOOLEAN /\ cut \in BOOLEAN
      /\ conn \in BOOLEAN /\ pending_enter \in BOOLEAN
  BY DEF Init
<1>2. Len(ctrl) = 0 /\ Len(stream) = 0 /\ Len(host) = 0
  BY <1>1
<1>3. TypeOK
  BY <1>1, <1>2, SizesAssumption DEF TypeOK
<1>4. PendingInv /\ FreshInv /\ OrderInv /\ MarkerInv
  BY <1>1, <1>2 DEF PendingInv, NoLostKick, FreshInv, StreamIsFresh, OrderInv, MarkerInv
<1> QED
  BY <1>3, <1>4 DEF UartInv

LEMMA UartAlways == Spec => []UartInv
<1>1. UartInv /\ [Next]_vars => UartInv'
  BY TypesKept, PendingKept, FreshKept, OrderKept, MarkerKept DEF UartInv
<1> QED
  BY <1>1, UartInit, PTL DEF Spec

----------------------------------------------------------------------------
\* The rings hold what was put to them and never more than their size.
THEOREM TypeCorrect == Spec => []TypeOK
<1>1. UartInv => TypeOK
  BY DEF UartInv
<1> QED
  BY <1>1, UartAlways, PTL

\* Neither the transmit interrupt that disables itself, nor DTR, nor a mode change
\* leaves control lines, stream bytes or a pending data mode without a wakeup.
THEOREM NoKickLost == Spec => []NoLostKick
<1>1. UartInv => NoLostKick
  BY DEF UartInv, PendingInv
<1> QED
  BY <1>1, UartAlways, PTL

\* clear_data_mode_session leaves nothing in ble_to_host_ring that could open the next
\* session.
THEOREM SessionsApart == Spec => []StreamIsFresh
<1>1. UartInv => StreamIsFresh
  BY DEF UartInv, FreshInv
<1> QED
  BY <1>1, UartAlways, PTL

\* The host receives the stream in order, each byte at most once, and, unless a control
\* line was cut off, between the markers of its session only.
THEOREM MarkersEnclose == Spec => []StreamWithinMarkers
<1>1. UartInv => StreamWithinMarkers
  <2> SUFFICES ASSUME UartInv PROVE StreamWithinMarkers
    OBVIOUS
  <2>1. DOMAIN host = 1..Len(host)
    BY DEF UartInv, TypeOK
  <2> QED
    BY <2>1 DEF UartInv, MarkerInv, Within, OrderInv, StreamWithinMarkers
<1> QED
  BY <1>1, UartAlways, PTL

=============================================================================
