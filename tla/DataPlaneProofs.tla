-------------------------- MODULE DataPlaneProofs --------------------------
(***************************************************************************)
(* Theorems about the data plane, for every buffer size, chunk size, set   *)
(* of payload lengths, outcome of the sends and bound on the host's bytes. *)
(*                                                                         *)
(* The argument goes in layers, each invariant resting on the ones before: *)
(*   TypeInv    types, and room for the host's bytes within the bound      *)
(*   DropInv    while a buffer is handled, what is left of it, what is     *)
(*              held back and what is lost fit the ring's space plus three *)
(*   FlowInv    outside data mode reception is never flagged as paused     *)
(*   WakeInv    which unclaimed bytes have a handler to come: of the pump  *)
(*              while it runs, of a timer, or of the receive loop          *)
(*   StreamInv  what the peripheral has and what the ring holds are the    *)
(*              host's bytes in order                                      *)
(***************************************************************************)
EXTENDS DataPlane, SequenceTheorems, TLAPS

\* The bound on the host's bytes leaves room for what is still to be handled and
\* for what is held back.
RoomToOffer == offered + escape_count + rx_left <= MaxOffered

TypeInv == TypeOK /\ RoomToOffer

----------------------------------------------------------------------------
\* The empty sequence is a sequence of bytes: what ring_buf_reset leaves.
LEMMA EmptyBytes == <<>> \in ByteSeq /\ Len(<<>>) = 0
  BY DEF ByteSeq

\* A part of a byte sequence, its length and its elements.
LEMMA PartOfBytes ==
    ASSUME NEW s \in ByteSeq, NEW m \in Nat \ {0}, NEW n \in Nat,
           m <= n + 1, n <= Len(s)
    PROVE  /\ SubSeq(s, m, n) \in ByteSeq
           /\ Len(SubSeq(s, m, n)) = n - m + 1
           /\ \A i \in 1..(n - m + 1) : SubSeq(s, m, n)[i] = s[m + i - 1]
<1>1. ASSUME NEW i \in m..n
      PROVE  s[i] \in 1..MaxOffered
  <2>1. s \in Seq(1..MaxOffered) /\ i \in 1..Len(s)
    BY DEF ByteSeq
  <2> QED
    BY <2>1, ElementOfSeq
<1>2. /\ SubSeq(s, m, n) \in Seq(1..MaxOffered)
      /\ Len(SubSeq(s, m, n)) = IF m <= n THEN n - m + 1 ELSE 0
      /\ \A i \in 1..(n - m + 1) : SubSeq(s, m, n)[i] = s[m + i - 1]
  BY <1>1, SubSeqProperties
<1> QED
  BY <1>2 DEF ByteSeq

\* The operations of the ring keep it a ring: for every operation of RingBuf.
LEMMA RingPutType ==
    ASSUME NEW r, RingType(r), NEW s \in ByteSeq
    PROVE  /\ RingType(RingPut(r, Size, s))
           /\ RingPut(r, Size, s).bytes
                = r.bytes \o SubSeq(s, 1, AtMost(Len(s), RingSpace(r, Size)))
           /\ RingPut(r, Size, s).claimed = r.claimed
           /\ RingPut(r, Size, s).off = r.off
           /\ Len(RingPut(r, Size, s).bytes)
                = Len(r.bytes) + AtMost(Len(s), RingSpace(r, Size))
<1> DEFINE k == AtMost(Len(s), RingSpace(r, Size))
           t == SubSeq(s, 1, k)
<1>1. k \in 0..Len(s) /\ k <= Size - Len(r.bytes)
  BY SizesAssumption DEF AtMost, RingSpace, RingType, ByteSeq
<1>2. t \in ByteSeq /\ Len(t) = k
  <2>1. Len(s) \in Nat /\ k \in Nat /\ 1 <= k + 1 /\ k <= Len(s)
    BY <1>1 DEF ByteSeq
  <2> HIDE DEF k
  <2>2. Len(SubSeq(s, 1, k)) = k - 1 + 1 /\ SubSeq(s, 1, k) \in ByteSeq
    BY <2>1, PartOfBytes
  <2> QED
    BY <2>1, <2>2
<1>3. r.bytes \o t \in ByteSeq /\ Len(r.bytes \o t) = Len(r.bytes) + k
  BY <1>2 DEF RingType, ByteSeq
<1>4. RingPut(r, Size, s) = [r EXCEPT !.bytes = r.bytes \o t]
  BY DEF RingPut, RingType
<1> HIDE DEF k, t
<1>5. /\ RingPut(r, Size, s).bytes = r.bytes \o t
      /\ RingPut(r, Size, s).claimed = r.claimed
      /\ RingPut(r, Size, s).off = r.off
  BY <1>4 DEF RingType
<1>6. RingPut(r, Size, s) \in [bytes : ByteSeq, claimed : Nat, off : 0..(Size - 1)]
  BY <1>3, <1>4 DEF RingType
<1>7. RingType(RingPut(r, Size, s))
  BY <1>1, <1>3, <1>5, <1>6, SizesAssumption DEF RingType, ByteSeq
<1> QED
  BY <1>3, <1>5, <1>7 DEF k, t

\* A ring just reset is a ring.
LEMMA RingEmptyType == RingType(RingEmpty)
  BY EmptyBytes, SizesAssumption DEF RingEmpty, RingType

\* ring_buf_get_claim keeps the ring a ring and consumes nothing.
LEMMA RingClaimType ==
    ASSUME NEW r, RingType(r), NEW want \in Nat \ {0}, RingSize(r) > 0
    PROVE  LET k == RingClaimLen(r, Size, want)
           IN  /\ k \in 1..RingSize(r)
               /\ RingType(RingClaim(r, k))
               /\ RingClaim(r, k) = [r EXCEPT !.claimed = @ + k]
               /\ RingClaimed(r, k) \in ByteSeq
               /\ Len(RingClaimed(r, k)) = k
<1> DEFINE k == RingClaimLen(r, Size, want)
<1>1. RingAdvance(r.off, r.claimed, Size) \in 0..(Size - 1)
  BY SizesAssumption DEF RingAdvance, RingType, RingSize, ByteSeq
<1>2. k \in 1..RingSize(r)
  BY <1>1, SizesAssumption DEF RingClaimLen, AtMost, RingType, RingSize, ByteSeq
<1>3. RingType(RingClaim(r, k))
  BY <1>2, SizesAssumption DEF RingClaim, RingType, RingSize, ByteSeq
<1>4. RingClaimed(r, k) \in ByteSeq /\ Len(RingClaimed(r, k)) = k
  <2>1. r.bytes \in ByteSeq /\ r.claimed \in Nat /\ Len(r.bytes) \in Nat
    BY DEF RingType, ByteSeq
  <2> HIDE DEF k
  <2> QED
    BY <1>2, <2>1, PartOfBytes DEF RingClaimed, RingSize
<1> QED
  BY <1>2, <1>3, <1>4 DEF RingClaim

\* ring_buf_get_finish keeps the ring a ring, whatever it is told to consume.
LEMMA RingFinishType ==
    ASSUME NEW r, RingType(r), NEW k \in Nat
    PROVE  RingType(RingFinish(r, Size, k))
<1>1. CASE k > r.claimed
  BY <1>1 DEF RingFinish
<1>2. CASE k <= r.claimed
  <2>0. r.bytes \in ByteSeq /\ r.claimed \in Nat /\ Len(r.bytes) \in Nat
        /\ k <= Len(r.bytes)
    BY <1>2 DEF RingType, ByteSeq
  <2>1. SubSeq(r.bytes, k + 1, Len(r.bytes)) \in ByteSeq
    BY <1>2, <2>0, PartOfBytes
  <2>2. Len(SubSeq(r.bytes, k + 1, Len(r.bytes))) = Len(r.bytes) - k
    BY <1>2, <2>0, PartOfBytes
  <2>3. RingAdvance(r.off, k, Size) \in 0..(Size - 1)
    BY <1>2, SizesAssumption DEF RingAdvance, RingType, ByteSeq
  <2>4. RingFinish(r, Size, k) = [bytes   |-> SubSeq(r.bytes, k + 1, Len(r.bytes)),
                                  claimed |-> 0,
                                  off     |-> RingAdvance(r.off, k, Size)]
    BY <1>2, <2>0 DEF RingFinish
  <2>5. Len(r.bytes) <= Size
    BY DEF RingType
  <2> QED
    BY <2>0, <2>1, <2>2, <2>3, <2>4, <2>5, SizesAssumption DEF RingType
<1> QED
  BY <1>1, <1>2 DEF RingType, ByteSeq

----------------------------------------------------------------------------
\* What the shared helpers of the handlers do, whoever calls them.
LEMMA NextBytesType ==
    ASSUME TypeOK, NEW k \in Nat, offered + k <= MaxOffered
    PROVE  NextBytes(k) \in ByteSeq /\ Len(NextBytes(k)) = k
<1>1. \A i \in 1..k : offered + i \in 1..MaxOffered
  BY SizesAssumption DEF TypeOK, HistoryTypes
<1> QED
  BY <1>1 DEF NextBytes, ByteSeq

\* What Offer (ring_put_bytes) does to the ring and to the history, for k bytes.
LEMMA OfferEffect ==
    ASSUME TypeOK, NEW k \in Nat, offered + k <= MaxOffered, NEW before \in Nat,
           Offer(k, before)
    PROVE  /\ RingType(ring')
           /\ ring'.claimed = ring.claimed
           /\ ring'.bytes = ring.bytes \o SubSeq(NextBytes(k), 1, AtMost(k, Space))
           /\ AtMost(k, Space) \in 0..k
           /\ Len(ring'.bytes) = Len(ring.bytes) + AtMost(k, Space)
           /\ offered' = offered + k
           /\ dropped' = before + (k - AtMost(k, Space))
           /\ overflow' = (overflow \/ k - AtMost(k, Space) > 0)
           /\ dropped' \in Nat /\ overflow' \in BOOLEAN
<1>1. RingType(ring)
  BY DEF TypeOK
<1>2. Space \in Nat /\ AtMost(k, Space) \in 0..k
  BY <1>1, SizesAssumption DEF Space, RingSpace, RingType, ByteSeq, AtMost
<1>3. NextBytes(k) \in ByteSeq /\ Len(NextBytes(k)) = k
  BY NextBytesType
<1>4. ring' = RingPut(ring, Size, NextBytes(k))
  BY DEF Offer
<1>5. /\ RingType(RingPut(ring, Size, NextBytes(k)))
      /\ RingPut(ring, Size, NextBytes(k)).bytes
           = ring.bytes \o SubSeq(NextBytes(k), 1, AtMost(k, Space))
      /\ RingPut(ring, Size, NextBytes(k)).claimed = ring.claimed
      /\ Len(RingPut(ring, Size, NextBytes(k)).bytes)
           = Len(ring.bytes) + AtMost(k, Space)
  BY <1>1, <1>3, RingPutType DEF Space
<1>6. /\ offered' = offered + k
      /\ dropped' = before + (k - AtMost(k, Space))
      /\ overflow' = (overflow \/ k - AtMost(k, Space) > 0)
  BY DEF Offer
<1>7. dropped' \in Nat
  BY <1>2, <1>6
<1>8. overflow' \in BOOLEAN
  BY <1>6
<1> QED
  BY <1>2, <1>4, <1>5, <1>6, <1>7, <1>8

\* refresh_uart_rx_flow_control leaves two Booleans.
LEMMA RefreshTypes ==
    ASSUME NEW mode, NEW r, NEW paused \in BOOLEAN, NEW irq \in BOOLEAN,
           RefreshUartRx(mode, r, paused, irq)
    PROVE  control_rx_paused' \in BOOLEAN /\ rx_irq' \in BOOLEAN
  BY DEF RefreshUartRx

\* schedule_data_mode_ble_tx leaves the timers Booleans.
LEMMA ScheduleTypes ==
    ASSUME TypeOK, NEW r, ScheduleDataModeBleTx(r)
    PROVE  /\ write_work' \in BOOLEAN /\ retry' \in BOOLEAN
           /\ coalesce' \in BOOLEAN /\ flush_due' \in BOOLEAN
  BY DEF ScheduleDataModeBleTx, TypeOK, TimerTypes, timers

----------------------------------------------------------------------------

\* What an action leaves alone keeps its type.
LEMMA FrameTypes ==
    ASSUME TypeOK
    PROVE  /\ UNCHANGED link => LinkTypes'
           /\ UNCHANGED ring => RingType(ring)'
           /\ UNCHANGED escape => EscapeTypes'
           /\ UNCHANGED uartRx => UartTypes'
           /\ UNCHANGED rxLoop => RxTypes'
           /\ UNCHANGED timers => TimerTypes'
           /\ UNCHANGED pumping => PumpTypes'
           /\ UNCHANGED history => HistoryTypes'
<1>1. UNCHANGED link => LinkTypes'
  BY DEF TypeOK, LinkTypes, link
<1>2. UNCHANGED ring => RingType(ring)'
  BY DEF TypeOK, RingType, ByteSeq
<1>3. UNCHANGED escape => EscapeTypes'
  BY DEF TypeOK, EscapeTypes, escape
<1>4. UNCHANGED uartRx => UartTypes'
  BY DEF TypeOK, UartTypes, uartRx
<1>5. UNCHANGED rxLoop => RxTypes'
  BY DEF TypeOK, RxTypes, rxLoop
<1>6. UNCHANGED timers => TimerTypes'
  BY DEF TypeOK, TimerTypes, timers
<1>7. UNCHANGED pumping => PumpTypes'
  BY DEF TypeOK, PumpTypes, pumping, ByteSeq
<1>8. UNCHANGED history => HistoryTypes'
  BY DEF TypeOK, HistoryTypes, history, ByteSeq
<1> QED
  BY <1>1, <1>2, <1>3, <1>4, <1>5, <1>6, <1>7, <1>8

----------------------------------------------------------------------------
\* Every variable keeps its type, whatever interleaving of handlers.
LEMMA TypesKept == Spec => []TypeInv
<1> USE SizesAssumption, PayloadAssumption
<1>1. Init => TypeInv
  <2> SUFFICES ASSUME Init PROVE TypeInv
    OBVIOUS
  <2>1. RingType(ring)
    BY RingEmptyType DEF Init
  <2>2. LinkTypes /\ UartTypes /\ RxTypes /\ TimerTypes
    <3>1. rx_left \in 0..RxChunk
      BY DEF Init
    <3> QED
      BY <3>1 DEF Init, LinkTypes, UartTypes, RxTypes, TimerTypes
  <2>3. EscapeTypes
    <3>1. escape_count \in 0..3
      BY DEF Init
    <3> QED
      BY <3>1 DEF Init, EscapeTypes
  <2>4. PumpTypes
    BY EmptyBytes DEF Init, PumpTypes
  <2>5. HistoryTypes
    <3>1. offered \in 0..MaxOffered /\ dropped \in Nat
      BY DEF Init
    <3> QED
      BY <3>1, EmptyBytes DEF Init, HistoryTypes
  <2>6. RoomToOffer
    BY DEF Init, RoomToOffer
  <2> QED
    BY <2>1, <2>2, <2>3, <2>4, <2>5, <2>6 DEF TypeInv, TypeOK
<1>2. TypeInv /\ [Next]_vars => TypeInv'
  <2> SUFFICES ASSUME TypeInv, [Next]_vars
               PROVE  TypeInv'
    OBVIOUS
  <2>0. TypeOK /\ RingType(ring) /\ RoomToOffer
    BY DEF TypeInv, TypeOK
  <2> USE <2>0
  <2>1. CASE LinkReady
    <3> USE <2>1
    <3>1. UNCHANGED <<ring, escape, uartRx, rxLoop, timers, pumping, history>>
      BY DEF LinkReady
    <3>2. LinkTypes'
      BY DEF LinkReady, TypeOK, LinkTypes, link
    <3>3. RoomToOffer'
      BY <3>1 DEF RoomToOffer, escape, rxLoop, history
    <3> QED
      BY <3>1, <3>2, <3>3, FrameTypes DEF TypeInv, TypeOK
  <2>2. CASE ProfileLost
    <3> USE <2>2
    <3>1. UNCHANGED <<ring, escape, uartRx, rxLoop, timers, pumping, history>>
      BY DEF ProfileLost
    <3>2. LinkTypes'
      BY DEF ProfileLost, TypeOK, LinkTypes, link
    <3>3. RoomToOffer'
      BY <3>1 DEF RoomToOffer, escape, rxLoop, history
    <3> QED
      BY <3>1, <3>2, <3>3, FrameTypes DEF TypeInv, TypeOK
  <2>3. CASE UpdatePayloadLen
    <3> USE <2>3
    <3>1. UNCHANGED <<ring, escape, uartRx, rxLoop, timers, pumping, history>>
      BY DEF UpdatePayloadLen
    <3>2. LinkTypes'
      BY DEF UpdatePayloadLen, TypeOK, LinkTypes, link
    <3>3. RoomToOffer'
      BY <3>1 DEF RoomToOffer, escape, rxLoop, history
    <3> QED
      BY <3>1, <3>2, <3>3, FrameTypes DEF TypeInv, TypeOK
  <2>4. CASE Disconnected
    <3> USE <2>4
    <3>1. UNCHANGED <<rxLoop>>
      BY DEF Disconnected
    <3>2. LinkTypes'
      BY DEF Disconnected, ClearDataModeSession, TypeOK, LinkTypes, link
    <3>3. RingType(ring)'
      BY RingEmptyType DEF Disconnected
    <3>4. escape_count' \in 0..3
      BY DEF Disconnected, ClearDataModeSession, TypeOK, EscapeTypes
    <3>5. EscapeTypes'
      BY <3>4 DEF Disconnected, ClearDataModeSession, TypeOK, EscapeTypes, escape
    <3>6. UartTypes'
      BY RefreshTypes DEF Disconnected, ClearDataModeSession, TypeOK, UartTypes
    <3>7. TimerTypes'
      BY DEF Disconnected, ClearDataModeSession, TypeOK, TimerTypes, timers
    <3>8. PumpTypes'
      BY DEF Disconnected, ClearDataModeSession, TypeOK, PumpTypes, ByteSeq, pumping
    <3>9. offered' \in 0..MaxOffered /\ dropped' \in Nat
      BY DEF Disconnected
    <3>10. HistoryTypes'
      BY <3>9, EmptyBytes DEF Disconnected, HistoryTypes
    <3>11. RoomToOffer'
      BY DEF Disconnected, ClearDataModeSession, TypeOK, EscapeTypes, RxTypes, HistoryTypes, RoomToOffer, escape, rxLoop, history
    <3> QED
      BY <3>1, <3>2, <3>3, <3>4, <3>5, <3>6, <3>7, <3>8, <3>9, <3>10, <3>11, FrameTypes DEF TypeInv, TypeOK
  <2>5. CASE OpEnterDataMode
    <3> USE <2>5
    <3>1. UNCHANGED <<ring, escape, uartRx, rxLoop, timers, pumping, history>>
      BY DEF OpEnterDataMode
    <3>2. LinkTypes'
      BY DEF OpEnterDataMode, TypeOK, LinkTypes, link
    <3>3. RoomToOffer'
      BY <3>1 DEF RoomToOffer, escape, rxLoop, history
    <3> QED
      BY <3>1, <3>2, <3>3, FrameTypes DEF TypeInv, TypeOK
  <2>6. CASE Activate
    <3> USE <2>6
    <3>1. UNCHANGED <<ring, rxLoop, pumping, history>>
      BY DEF Activate
    <3>2. LinkTypes'
      BY DEF Activate, TypeOK, LinkTypes, link
    <3>3. escape_count' \in 0..3
      BY DEF Activate, TypeOK, EscapeTypes
    <3>4. EscapeTypes'
      BY <3>3 DEF Activate, TypeOK, EscapeTypes, escape
    <3>5. UartTypes'
      BY RefreshTypes DEF Activate, TypeOK, UartTypes
    <3>6. TimerTypes'
      BY DEF Activate, TypeOK, TimerTypes, timers
    <3>7. RoomToOffer'
      BY DEF Activate, TypeOK, EscapeTypes, RxTypes, HistoryTypes, RoomToOffer, escape, rxLoop, history
    <3> QED
      BY <3>1, <3>2, <3>3, <3>4, <3>5, <3>6, <3>7, FrameTypes DEF TypeInv, TypeOK
  <2>7. CASE EscapeRecognized
    <3> USE <2>7
    <3>1. UNCHANGED <<ring, rxLoop, pumping>>
      BY DEF EscapeRecognized, ExitDataMode
    <3>2. LinkTypes'
      BY DEF EscapeRecognized, ExitDataMode, ClearDataModeSession, TypeOK, LinkTypes, link
    <3>3. escape_count' \in 0..3
      BY DEF EscapeRecognized, ExitDataMode, ClearDataModeSession, TypeOK, EscapeTypes
    <3>4. EscapeTypes'
      BY <3>3 DEF EscapeRecognized, ExitDataMode, ClearDataModeSession, TypeOK, EscapeTypes, escape
    <3>5. UartTypes'
      BY RefreshTypes DEF EscapeRecognized, ExitDataMode, ClearDataModeSession, TypeOK, UartTypes
    <3>6. TimerTypes'
      BY DEF EscapeRecognized, ExitDataMode, ClearDataModeSession, TypeOK, TimerTypes, timers
    <3>7. HistoryTypes'
      BY DEF EscapeRecognized, ExitDataMode, ClearDataModeSession, TypeOK, HistoryTypes, ByteSeq, history
    <3>8. RoomToOffer'
      BY DEF EscapeRecognized, ExitDataMode, ClearDataModeSession, TypeOK, EscapeTypes, RxTypes, HistoryTypes, RoomToOffer, escape, rxLoop, history
    <3> QED
      BY <3>1, <3>2, <3>3, <3>4, <3>5, <3>6, <3>7, <3>8, FrameTypes DEF TypeInv, TypeOK
  <2>8. CASE EscapeAbandoned
    <3> USE <2>8
    <3>1. escape_count \in Nat /\ offered + escape_count <= MaxOffered
      BY DEF EscapeAbandoned, TypeOK, EscapeTypes, HistoryTypes, RoomToOffer, RxTypes
    <3>2. /\ RingType(ring') /\ offered' = offered + escape_count
          /\ dropped' \in Nat /\ overflow' \in BOOLEAN
      BY <3>1, OfferEffect DEF EscapeAbandoned, TypeOK, HistoryTypes
    <3>3. UNCHANGED <<link, uartRx, rxLoop, pumping>>
      BY DEF EscapeAbandoned
    <3>4. RingType(ring)'
      BY <3>2 DEF EscapeAbandoned
    <3>5. escape_count' \in 0..3
      BY <3>2 DEF EscapeAbandoned, TypeOK, EscapeTypes
    <3>6. EscapeTypes'
      BY <3>2, <3>5 DEF EscapeAbandoned, TypeOK, EscapeTypes, escape
    <3>7. TimerTypes'
      BY ScheduleTypes DEF EscapeAbandoned, TimerTypes
    <3>8. HistoryTypes'
      BY <3>1, <3>2 DEF EscapeAbandoned, TypeOK, HistoryTypes, RoomToOffer, EscapeTypes, RxTypes
    <3>9. RoomToOffer'
      BY <3>2 DEF EscapeAbandoned, TypeOK, EscapeTypes, RxTypes, HistoryTypes, RoomToOffer, escape, rxLoop, history
    <3> QED
      BY <3>3, <3>4, <3>5, <3>6, <3>7, <3>8, <3>9, FrameTypes DEF TypeInv, TypeOK
  <2>9. CASE GuardElapse
    <3> USE <2>9
    <3>1. UNCHANGED <<link, ring, uartRx, rxLoop, timers, pumping, history>>
      BY DEF GuardElapse
    <3>2. EscapeTypes'
      BY DEF GuardElapse, TypeOK, EscapeTypes, escape
    <3>3. RoomToOffer'
      BY DEF GuardElapse, TypeOK, EscapeTypes, RxTypes, HistoryTypes, RoomToOffer, escape, rxLoop, history
    <3> QED
      BY <3>1, <3>2, <3>3, FrameTypes DEF TypeInv, TypeOK
  <2>10. CASE RxPause
    <3> USE <2>10
    <3>1. UNCHANGED <<link, ring, escape, rxLoop, timers, pumping, history>>
      BY DEF RxPause
    <3>2. UartTypes'
      BY DEF RxPause, TypeOK, UartTypes, uartRx
    <3>3. RoomToOffer'
      BY <3>1 DEF RoomToOffer, escape, rxLoop, history
    <3> QED
      BY <3>1, <3>2, <3>3, FrameTypes DEF TypeInv, TypeOK
  <2>11. CASE RxRead
    <3> USE <2>11
    <3>1. UNCHANGED <<link, ring, escape, uartRx, timers, pumping>>
      BY DEF RxRead
    <3>2. RxTypes'
      BY DEF RxRead, TypeOK, RxTypes, rxLoop
    <3>3. HistoryTypes'
      BY DEF RxRead, TypeOK, HistoryTypes, ByteSeq, history
    <3>4. RoomToOffer'
      BY DEF RxRead, TypeOK, EscapeTypes, RxTypes, HistoryTypes, RoomToOffer, escape, rxLoop, history
    <3> QED
      BY <3>1, <3>2, <3>3, <3>4, FrameTypes DEF TypeInv, TypeOK
  <2>12. CASE EscapeStarts
    <3> USE <2>12
    <3>1. UNCHANGED <<link, ring, uartRx, timers, pumping, history>>
      BY DEF EscapeStarts
    <3>2. escape_count' \in 0..3
      BY DEF EscapeStarts, NextRxByte, HoldPlus, TypeOK, EscapeTypes
    <3>3. EscapeTypes'
      BY <3>2 DEF EscapeStarts, NextRxByte, HoldPlus, TypeOK, EscapeTypes, escape
    <3>4. RxTypes'
      BY DEF EscapeStarts, NextRxByte, HoldPlus, TypeOK, RxTypes, rxLoop
    <3>5. RoomToOffer'
      BY DEF EscapeStarts, NextRxByte, HoldPlus, TypeOK, EscapeTypes, RxTypes, HistoryTypes, RoomToOffer, escape, rxLoop, history
    <3> QED
      BY <3>1, <3>2, <3>3, <3>4, <3>5, FrameTypes DEF TypeInv, TypeOK
  <2>13. CASE EscapeExtends
    <3> USE <2>13
    <3>1. UNCHANGED <<link, ring, uartRx, timers, pumping, history>>
      BY DEF EscapeExtends
    <3>2. escape_count' \in 0..3
      BY DEF EscapeExtends, NextRxByte, HoldPlus, TypeOK, EscapeTypes
    <3>3. EscapeTypes'
      BY <3>2 DEF EscapeExtends, NextRxByte, HoldPlus, TypeOK, EscapeTypes, escape
    <3>4. RxTypes'
      BY DEF EscapeExtends, NextRxByte, HoldPlus, TypeOK, RxTypes, rxLoop
    <3>5. RoomToOffer'
      BY DEF EscapeExtends, NextRxByte, HoldPlus, TypeOK, EscapeTypes, RxTypes, HistoryTypes, RoomToOffer, escape, rxLoop, history
    <3> QED
      BY <3>1, <3>2, <3>3, <3>4, <3>5, FrameTypes DEF TypeInv, TypeOK
  <2>14. CASE PayloadByte
    <3> USE <2>14
    <3>1. escape_count \in Nat /\ offered + escape_count + 1 <= MaxOffered
      BY DEF PayloadByte, NextRxByte, TypeOK, EscapeTypes, HistoryTypes, RoomToOffer, RxTypes
    <3>2. /\ RingType(ring') /\ offered' = offered + escape_count + 1
          /\ dropped' \in Nat /\ overflow' \in BOOLEAN
      BY <3>1, OfferEffect DEF PayloadByte, TypeOK, HistoryTypes
    <3>3. UNCHANGED <<link, uartRx, pumping>>
      BY DEF PayloadByte
    <3>4. RingType(ring)'
      BY <3>2 DEF PayloadByte, NextRxByte
    <3>5. escape_count' \in 0..3
      BY <3>2 DEF PayloadByte, NextRxByte, TypeOK, EscapeTypes
    <3>6. EscapeTypes'
      BY <3>2, <3>5 DEF PayloadByte, NextRxByte, TypeOK, EscapeTypes, escape
    <3>7. RxTypes'
      BY <3>2 DEF PayloadByte, NextRxByte, TypeOK, RxTypes, rxLoop
    <3>8. TimerTypes'
      BY ScheduleTypes DEF PayloadByte, TypeOK, TimerTypes, timers
    <3>9. HistoryTypes'
      BY <3>1, <3>2 DEF PayloadByte, NextRxByte, TypeOK, HistoryTypes, RoomToOffer, EscapeTypes, RxTypes
    <3>10. RoomToOffer'
      BY <3>2 DEF PayloadByte, NextRxByte, TypeOK, EscapeTypes, RxTypes, HistoryTypes, RoomToOffer, escape, rxLoop, history
    <3> QED
      BY <3>3, <3>4, <3>5, <3>6, <3>7, <3>8, <3>9, <3>10, FrameTypes DEF TypeInv, TypeOK
  <2>15. CASE FourthPlusStartsAnew
    <3> USE <2>15
    <3>1. escape_count \in Nat /\ offered + 3 <= MaxOffered
      BY DEF FourthPlusStartsAnew, NextRxByte, HoldPlus, TypeOK, EscapeTypes, HistoryTypes, RoomToOffer, RxTypes
    <3>2. /\ RingType(ring') /\ offered' = offered + 3
          /\ dropped' \in Nat /\ overflow' \in BOOLEAN
      BY <3>1, OfferEffect DEF FourthPlusStartsAnew, TypeOK, HistoryTypes
    <3>3. UNCHANGED <<link, uartRx, pumping>>
      BY DEF FourthPlusStartsAnew
    <3>4. RingType(ring)'
      BY <3>2 DEF FourthPlusStartsAnew, NextRxByte, HoldPlus
    <3>5. escape_count' \in 0..3
      BY <3>2 DEF FourthPlusStartsAnew, NextRxByte, HoldPlus, TypeOK, EscapeTypes
    <3>6. EscapeTypes'
      BY <3>2, <3>5 DEF FourthPlusStartsAnew, NextRxByte, HoldPlus, TypeOK, EscapeTypes, escape
    <3>7. RxTypes'
      BY <3>2 DEF FourthPlusStartsAnew, NextRxByte, HoldPlus, TypeOK, RxTypes, rxLoop
    <3>8. TimerTypes'
      BY ScheduleTypes DEF FourthPlusStartsAnew, TimerTypes
    <3>9. HistoryTypes'
      BY <3>1, <3>2 DEF FourthPlusStartsAnew, NextRxByte, HoldPlus, TypeOK, HistoryTypes, RoomToOffer, EscapeTypes, RxTypes
    <3>10. RoomToOffer'
      BY <3>2 DEF FourthPlusStartsAnew, NextRxByte, HoldPlus, TypeOK, EscapeTypes, RxTypes, HistoryTypes, RoomToOffer, escape, rxLoop, history
    <3> QED
      BY <3>3, <3>4, <3>5, <3>6, <3>7, <3>8, <3>9, <3>10, FrameTypes DEF TypeInv, TypeOK
  <2>16. CASE RxDone
    <3> USE <2>16
    <3>1. UNCHANGED <<link, ring, escape, pumping, history>>
      BY DEF RxDone
    <3>2. UartTypes'
      BY RefreshTypes DEF RxDone, TypeOK, UartTypes
    <3>3. RxTypes'
      BY DEF RxDone, TypeOK, RxTypes, rxLoop
    <3>4. TimerTypes'
      BY ScheduleTypes DEF RxDone, TimerTypes
    <3>5. RoomToOffer'
      BY DEF RxDone, TypeOK, EscapeTypes, RxTypes, HistoryTypes, RoomToOffer, escape, rxLoop, history
    <3> QED
      BY <3>1, <3>2, <3>3, <3>4, <3>5, FrameTypes DEF TypeInv, TypeOK
  <2>17. CASE CoalesceFires
    <3> USE <2>17
    <3>1. UNCHANGED <<link, ring, escape, uartRx, rxLoop, pumping, history>>
      BY DEF CoalesceFires
    <3>2. TimerTypes'
      BY DEF CoalesceFires, TypeOK, TimerTypes, timers
    <3>3. RoomToOffer'
      BY <3>1 DEF RoomToOffer, escape, rxLoop, history
    <3> QED
      BY <3>1, <3>2, <3>3, FrameTypes DEF TypeInv, TypeOK
  <2>18. CASE RetryFires
    <3> USE <2>18
    <3>1. UNCHANGED <<link, ring, escape, uartRx, rxLoop, pumping, history>>
      BY DEF RetryFires
    <3>2. TimerTypes'
      BY DEF RetryFires, TypeOK, TimerTypes, timers
    <3>3. RoomToOffer'
      BY <3>1 DEF RoomToOffer, escape, rxLoop, history
    <3> QED
      BY <3>1, <3>2, <3>3, FrameTypes DEF TypeInv, TypeOK
  <2>19. CASE PumpStart
    <3> USE <2>19
    <3>1. UNCHANGED <<link, ring, escape, uartRx, rxLoop, history>>
      BY DEF PumpStart
    <3>2. TimerTypes'
      BY DEF PumpStart, TypeOK, TimerTypes, timers
    <3>3. PumpTypes'
      BY DEF PumpStart, TypeOK, PumpTypes, ByteSeq, pumping
    <3>4. RoomToOffer'
      BY <3>1 DEF RoomToOffer, escape, rxLoop, history
    <3> QED
      BY <3>1, <3>2, <3>3, <3>4, FrameTypes DEF TypeInv, TypeOK
  <2>20. CASE PumpStops
    <3> USE <2>20
    <3>1. UNCHANGED <<link, ring, escape, uartRx, rxLoop, history>>
      BY DEF PumpStops
    <3>2. TimerTypes'
      BY DEF PumpStops, TypeOK, TimerTypes, timers
    <3>3. PumpTypes'
      BY DEF PumpStops, TypeOK, PumpTypes, ByteSeq, pumping
    <3>4. RoomToOffer'
      BY <3>1 DEF RoomToOffer, escape, rxLoop, history
    <3> QED
      BY <3>1, <3>2, <3>3, <3>4, FrameTypes DEF TypeInv, TypeOK
  <2>21. CASE PumpDefers
    <3> USE <2>21
    <3>1. UNCHANGED <<link, ring, escape, uartRx, rxLoop, history>>
      BY DEF PumpDefers
    <3>2. TimerTypes'
      BY DEF PumpDefers, TypeOK, TimerTypes, timers
    <3>3. PumpTypes'
      BY DEF PumpDefers, TypeOK, PumpTypes, ByteSeq, pumping
    <3>4. RoomToOffer'
      BY <3>1 DEF RoomToOffer, escape, rxLoop, history
    <3> QED
      BY <3>1, <3>2, <3>3, <3>4, FrameTypes DEF TypeInv, TypeOK
  <2>22. CASE PumpClaims
    <3> USE <2>22
    <3> DEFINE k == RingClaimLen(ring, Size, payload_len)
    <3>1. payload_len \in Nat \ {0}
      BY DEF TypeOK, LinkTypes
    <3>2. RingType(RingClaim(ring, k)) /\ RingClaimed(ring, k) \in ByteSeq
      BY <3>1, RingClaimType DEF PumpClaims
    <3>3. UNCHANGED <<link, escape, uartRx, rxLoop, timers, history>>
      BY DEF PumpClaims
    <3>4. RingType(ring)'
      BY <3>2 DEF PumpClaims
    <3>5. PumpTypes'
      BY <3>2 DEF PumpClaims, TypeOK, PumpTypes, ByteSeq, pumping
    <3>6. RoomToOffer'
      BY <3>3 DEF RoomToOffer, escape, rxLoop, history
    <3> QED
      BY <3>3, <3>4, <3>5, <3>6, FrameTypes DEF TypeInv, TypeOK
  <2>23. CASE SendAccepted
    <3> USE <2>23
    <3>1. Len(chunk) \in Nat /\ peer \o chunk \in ByteSeq /\ <<>> \in ByteSeq
      BY EmptyBytes DEF TypeOK, PumpTypes, HistoryTypes, ByteSeq
    <3>2. RingType(ring')
      BY <3>1, RingFinishType DEF SendAccepted, FinishClaim
    <3>3. UNCHANGED <<link, escape, rxLoop>>
      BY DEF SendAccepted
    <3>4. RingType(ring)'
      BY <3>2 DEF SendAccepted
    <3>5. UartTypes'
      BY RefreshTypes DEF SendAccepted, TypeOK, UartTypes
    <3>6. TimerTypes'
      BY <3>1, <3>2 DEF SendAccepted, TypeOK, TimerTypes, timers
    <3>7. PumpTypes'
      BY <3>1, <3>2 DEF SendAccepted, TypeOK, PumpTypes, ByteSeq, pumping
    <3>8. HistoryTypes'
      BY <3>1, <3>2 DEF SendAccepted, TypeOK, HistoryTypes, ByteSeq, history
    <3>9. RoomToOffer'
      BY DEF SendAccepted, TypeOK, EscapeTypes, RxTypes, HistoryTypes, RoomToOffer, escape, rxLoop, history
    <3> QED
      BY <3>3, <3>4, <3>5, <3>6, <3>7, <3>8, <3>9, FrameTypes DEF TypeInv, TypeOK
  <2>24. CASE SendRefused
    <3> USE <2>24
    <3>1. UNCHANGED <<link, ring, escape, uartRx, rxLoop>>
      BY DEF SendRefused
    <3>2. TimerTypes'
      BY DEF SendRefused, TypeOK, TimerTypes, timers
    <3>3. PumpTypes'
      BY EmptyBytes DEF SendRefused, TypeOK, PumpTypes
    <3>4. HistoryTypes'
      BY DEF SendRefused, TypeOK, HistoryTypes, ByteSeq, history
    <3>5. RoomToOffer'
      BY DEF SendRefused, TypeOK, EscapeTypes, RxTypes, HistoryTypes, RoomToOffer, escape, rxLoop, history
    <3> QED
      BY <3>1, <3>2, <3>3, <3>4, <3>5, FrameTypes DEF TypeInv, TypeOK
  <2>25. CASE UNCHANGED vars
    <3>1. UNCHANGED <<link, ring, escape, uartRx, rxLoop, timers, pumping, history>>
      BY <2>25 DEF vars
    <3>2. RoomToOffer'
      BY <3>1 DEF RoomToOffer, escape, rxLoop, history
    <3> QED
      BY <3>1, <3>2, FrameTypes DEF TypeInv, TypeOK
  <2> QED
    BY <2>1, <2>2, <2>3, <2>4, <2>5, <2>6, <2>7, <2>8, <2>9, <2>10, <2>11, <2>12, <2>13, <2>14, <2>15, <2>16, <2>17, <2>18, <2>19, <2>20, <2>21, <2>22, <2>23, <2>24, <2>25
    DEF Next, LinkNext, ModeNext, RxNext, RxByteNext, PumpNext
<1> QED
  BY <1>1, <1>2, PTL DEF Spec

----------------------------------------------------------------------------
\* While a buffer is handled, what is left of it, the pluses held back and the
\* bytes already lost fit the space of the ring plus three: every byte handled
\* either takes space or is lost, and there was room for the buffer at the start.
Lossless == rx_left + escape_count + dropped <= Space + 3

DropInv == TypeInv /\ (in_rx => Lossless) /\ DropBound

\* The space of the ring is what its bytes leave of its size.
LEMMA SpaceType == TypeOK => Space \in Nat /\ Space = Size - Len(ring.bytes)
  BY SizesAssumption DEF TypeOK, Space, RingSpace, RingType, ByteSeq

\* The arithmetic of a put of a out of k bytes, and of a step of the receive loop.
LEMMA PutArithmetic ==
    ASSUME NEW sp \in Int, NEW k \in Int, NEW a \in Int, NEW x \in Int
    PROVE  /\ x + k + (sp - a) = (x + (k - a)) + sp
           /\ (a = k \/ a = sp) => (x + (k - a) # x => sp - a = 0)
           /\ 0 <= a => x + (k - a) <= x + k
  OBVIOUS

\* Space and length add up to the size, before and after a put.
LEMMA SpaceArithmetic ==
    ASSUME NEW size \in Int, NEW len \in Int, NEW a \in Int
    PROVE  size - (len + a) = (size - len) - a
  OBVIOUS

\* A receive step that takes a byte keeps the budget of the buffer it belongs to.
LEMMA BudgetArithmetic ==
    ASSUME NEW left \in Int, NEW left2 \in Int, NEW held \in Int, NEW held2 \in Int,
           NEW x \in Int, NEW x2 \in Int, NEW sp \in Int, NEW sp2 \in Int, NEW k \in Int
    PROVE  (/\ left2 + held2 + k = left + held
            /\ x + k + sp2 = x2 + sp
            /\ left + held + x <= sp + 3) => left2 + held2 + x2 <= sp2 + 3
  OBVIOUS

\* Without space left, the budget of a buffer caps what has been lost at three.
LEMMA FullArithmetic ==
    ASSUME NEW left \in Nat, NEW held \in Nat, NEW x \in Nat, NEW sp \in Nat
    PROVE  (left + held + x <= sp + 3 /\ sp = 0) => x <= 3
  OBVIOUS

\* One handler loses at most k - space bytes of k, and then the ring is full.
LEMMA OfferLoss ==
    ASSUME TypeOK, NEW k \in Nat, offered + k <= MaxOffered, NEW before \in Nat,
           Offer(k, before)
    PROVE  /\ before + k + Space' = dropped' + Space
           /\ dropped' # before => Space' = 0
           /\ dropped' <= before + k
           /\ Space' \in Nat
<1>1. /\ RingType(ring')
      /\ Len(ring'.bytes) = Len(ring.bytes) + AtMost(k, Space)
      /\ dropped' = before + (k - AtMost(k, Space))
      /\ AtMost(k, Space) \in 0..k
  BY OfferEffect
<1>2. Space \in Nat /\ Space = Size - Len(ring.bytes) /\ Len(ring.bytes) \in Nat
  BY SpaceType DEF TypeOK, RingType, ByteSeq
<1>3. Space' = Size - Len(ring'.bytes)
  BY DEF Space, RingSpace
<1>4. AtMost(k, Space) = k \/ AtMost(k, Space) = Space
  BY DEF AtMost
<1>5. /\ Space \in Int /\ k \in Int /\ AtMost(k, Space) \in Int
      /\ before \in Int /\ 0 <= AtMost(k, Space)
  BY <1>1, <1>2
<1>6. Space' \in Nat
  BY <1>1, <1>3, SizesAssumption DEF RingType, ByteSeq
<1>7. Space' = Space - AtMost(k, Space)
  <2>1. Size \in Int /\ Len(ring.bytes) \in Int
    BY <1>2, SizesAssumption
  <2>2. Size - (Len(ring.bytes) + AtMost(k, Space)) = (Size - Len(ring.bytes)) - AtMost(k, Space)
    BY <1>5, <2>1, SpaceArithmetic
  <2> QED
    BY Zenon, <1>1, <1>2, <1>3, <2>2
<1> DEFINE a == AtMost(k, Space)
<1>8. /\ before + k + (Space - a) = (before + (k - a)) + Space
      /\ (a = k \/ a = Space) => (before + (k - a) # before => Space - a = 0)
      /\ 0 <= a => before + (k - a) <= before + k
  BY <1>5, PutArithmetic
<1>9. dropped' = before + (k - a)
  BY <1>1
<1> QED
  BY Zenon, <1>4, <1>5, <1>6, <1>7, <1>8, <1>9

\* No handler loses more bytes than the three pluses the escape filter holds back.
THEOREM DropsBounded == Spec => []DropBound
<1> USE SizesAssumption
<1>1. Init => DropBound /\ (in_rx => Lossless)
  BY DEF Init, DropBound
<1>2. TypeInv /\ DropInv /\ TypeInv' /\ [Next]_vars => DropInv'
  <2> SUFFICES ASSUME TypeInv, DropInv, TypeInv', [Next]_vars
               PROVE  (in_rx' => Lossless') /\ DropBound'
    BY DEF DropInv
  <2>0. /\ TypeOK /\ TypeOK' /\ RoomToOffer
        /\ dropped <= 3
        /\ dropped \in Nat /\ escape_count \in 0..3 /\ rx_left \in 0..RxChunk
        /\ offered \in 0..MaxOffered
        /\ Space \in Nat
    BY SpaceType DEF TypeInv, DropInv, DropBound, TypeOK, HistoryTypes, EscapeTypes, RxTypes
  <2>00. in_rx => rx_left + escape_count + dropped <= Space + 3
    BY DEF DropInv, Lossless
  <2> USE <2>0
  <2>1. CASE EscapeAbandoned
    <3>1. offered + escape_count <= MaxOffered /\ escape_count \in Nat
      BY DEF RoomToOffer
    <3>2. dropped' <= 0 + escape_count
      BY <2>1, <3>1, OfferLoss DEF EscapeAbandoned
    <3>3. dropped' \in Nat
      BY DEF TypeOK, HistoryTypes
    <3>4. escape_count \in {1, 2}
      BY <2>1 DEF EscapeAbandoned
    <3>5. DropBound'
      <4>1. CASE escape_count = 1
        BY ONLY <3>2, <3>3, <4>1 DEF DropBound
      <4>2. CASE escape_count = 2
        BY ONLY <3>2, <3>3, <4>2 DEF DropBound
      <4> QED
        BY <3>4, <4>1, <4>2
    <3> QED
      BY <2>1, <3>5 DEF EscapeAbandoned, rxLoop
  <2>2. CASE RxRead
    <3>1. Space' = Space
      BY <2>2 DEF RxRead, Space
    <3>2. rx_left' \in 0..RxChunk /\ dropped' = 0 /\ escape_count' = escape_count
      BY <2>2 DEF RxRead, TypeOK, RxTypes, escape
    <3> QED
      BY <2>2, <3>1, <3>2 DEF RxRead, RoomForBuffer, Lossless, DropBound
  <2>3. CASE EscapeStarts \/ EscapeExtends
    <3>1. Space' = Space /\ dropped' = dropped
      BY <2>3 DEF EscapeStarts, EscapeExtends, Space, history
    <3>2. rx_left' = rx_left - 1 /\ escape_count' = escape_count + 1
      BY <2>3 DEF EscapeStarts, EscapeExtends, NextRxByte, HoldPlus
    <3>3. rx_left + escape_count + dropped <= Space + 3
      BY <2>00, <2>3 DEF EscapeStarts, EscapeExtends, NextRxByte
    <3>4. rx_left' + escape_count' = rx_left + escape_count
      BY <3>2
    <3> QED
      BY <3>1, <3>3, <3>4 DEF Lossless, DropBound
  <2>4. CASE PayloadByte
    <3>1. rx_left' = rx_left - 1 /\ rx_left > 0 /\ escape_count' = 0
      BY <2>4 DEF PayloadByte, NextRxByte
    <3>2. escape_count + 1 \in Nat /\ offered + (escape_count + 1) <= MaxOffered
      BY <3>1 DEF RoomToOffer
    <3>3. /\ dropped + (escape_count + 1) + Space' = dropped' + Space
          /\ dropped' # dropped => Space' = 0
          /\ Space' \in Nat
      BY <2>4, <3>2, OfferLoss DEF PayloadByte
    <3>4. dropped' \in Nat
      BY DEF TypeOK, HistoryTypes
    <3>5. rx_left + escape_count + dropped <= Space + 3
      BY <2>00, <2>4 DEF PayloadByte, NextRxByte
    <3>6. rx_left' + escape_count' + dropped' <= Space' + 3
      <4>1. rx_left' + escape_count' + (escape_count + 1) = rx_left + escape_count
        BY <3>1
      <4>2. /\ rx_left \in Int /\ rx_left' \in Int /\ escape_count \in Int
            /\ escape_count' \in Int /\ escape_count + 1 \in Int /\ dropped \in Int
            /\ dropped' \in Int /\ Space \in Int /\ Space' \in Int
        BY <3>1, <3>3, <3>4
      <4> QED
        BY ONLY <3>3, <3>5, <4>1, <4>2, BudgetArithmetic
    <3>7. rx_left' \in Nat /\ escape_count' \in Nat
      BY <3>1
    <3>8. dropped' <= 3
      <4>1. CASE dropped' = dropped
        BY <4>1
      <4>2. CASE dropped' # dropped
        BY Zenon, <3>3, <3>4, <3>6, <3>7, <4>2, FullArithmetic
      <4> QED
        BY <4>1, <4>2
    <3> QED
      BY <3>6, <3>8 DEF Lossless, DropBound
  <2>5. CASE FourthPlusStartsAnew
    <3>1. /\ rx_left' = rx_left - 1 /\ rx_left > 0
          /\ escape_count = 3 /\ escape_count' = 1
      BY <2>5 DEF FourthPlusStartsAnew, NextRxByte, HoldPlus
    <3>2. 3 \in Nat /\ offered + 3 <= MaxOffered
      BY <3>1 DEF RoomToOffer
    <3>3. /\ dropped + escape_count + Space' = dropped' + Space
          /\ dropped' # dropped => Space' = 0
          /\ Space' \in Nat
      BY <2>5, <3>1, <3>2, OfferLoss DEF FourthPlusStartsAnew
    <3>4. dropped' \in Nat
      BY DEF TypeOK, HistoryTypes
    <3>5. rx_left + escape_count + dropped <= Space + 3
      BY <2>00, <2>5 DEF FourthPlusStartsAnew, NextRxByte
    <3>6. rx_left' + escape_count' + dropped' <= Space' + 3
      <4>1. rx_left' + escape_count' + escape_count = rx_left + escape_count
        BY <3>1
      <4>2. /\ rx_left \in Int /\ rx_left' \in Int /\ escape_count \in Int
            /\ escape_count' \in Int /\ dropped \in Int
            /\ dropped' \in Int /\ Space \in Int /\ Space' \in Int
        BY <3>1, <3>3, <3>4
      <4> QED
        BY ONLY <3>3, <3>5, <4>1, <4>2, BudgetArithmetic
    <3>7. rx_left' \in Nat /\ escape_count' \in Nat
      BY <3>1
    <3>8. dropped' <= 3
      <4>1. CASE dropped' = dropped
        BY <4>1
      <4>2. CASE dropped' # dropped
        BY Zenon, <3>3, <3>4, <3>6, <3>7, <4>2, FullArithmetic
      <4> QED
        BY <4>1, <4>2
    <3> QED
      BY <3>6, <3>8 DEF Lossless, DropBound
  <2>6. CASE \/ LinkReady \/ ProfileLost \/ UpdatePayloadLen \/ Disconnected
             \/ OpEnterDataMode \/ Activate \/ EscapeRecognized \/ GuardElapse
             \/ RxPause \/ RxDone \/ CoalesceFires \/ RetryFires
             \/ PumpNext \/ UNCHANGED vars
    <3>1. ~in_rx' \/ UNCHANGED <<rx_left, in_rx, escape, ring, dropped>>
      <4>1. CASE UNCHANGED vars
        BY <4>1 DEF vars, rxLoop, history
      <4>2. CASE RxDone
        BY <4>2 DEF RxDone
      <4>3. CASE ~UNCHANGED vars /\ ~RxDone
        <5>1. ~in_rx /\ UNCHANGED rxLoop
          BY <2>6, <4>3 DEF LinkReady, ProfileLost, UpdatePayloadLen, Disconnected,
             OpEnterDataMode, Activate, EscapeRecognized, GuardElapse, RxPause, CoalesceFires,
             RetryFires, PumpNext, PumpStart, PumpStops, PumpDefers, PumpClaims, SendAccepted,
             SendRefused
        <5> QED
          BY <5>1 DEF rxLoop
      <4> QED
        BY <4>1, <4>2, <4>3
    <3>2. dropped' = dropped \/ dropped' = 0
      BY <2>6 DEF LinkReady, ProfileLost, UpdatePayloadLen, Disconnected, OpEnterDataMode,
         Activate, EscapeRecognized, ExitDataMode, GuardElapse, RxPause, RxDone,
         CoalesceFires, RetryFires, PumpNext, PumpStart, PumpStops, PumpDefers, PumpClaims,
         SendAccepted, SendRefused, vars, history
    <3>3. DropBound'
      BY <3>2 DEF DropBound
    <3>4. UNCHANGED <<rx_left, in_rx, escape, ring, dropped>> => (in_rx' => Lossless')
      BY <2>00 DEF Lossless, Space, escape
    <3> QED
      BY <3>1, <3>3, <3>4
  <2> QED
    BY <2>1, <2>2, <2>3, <2>4, <2>5, <2>6 DEF Next, LinkNext, ModeNext, RxNext, RxByteNext
<1> QED
  BY <1>1, <1>2, TypesKept, PTL DEF Spec, DropInv

----------------------------------------------------------------------------
\* Reception: outside data mode it is not flagged as paused, and a pending entry
\* into data mode was asked for over a UART that still receives.
FlowInv ==
    /\ PausedMatchesIrq
    /\ DataMode => current_conn
    /\ ~DataMode => ~control_rx_paused
    /\ pending_enter => (~DataMode /\ rx_irq)

\* In data mode the flag and the interrupt agree after every handler.
THEOREM FlowControlConsistent == Spec => []PausedMatchesIrq
<1>1. Init => FlowInv
  BY DEF Init, FlowInv, PausedMatchesIrq, DataMode
<1>2. TypeInv /\ FlowInv /\ [Next]_vars => FlowInv'
  <2> SUFFICES ASSUME TypeInv, FlowInv, [Next]_vars
               PROVE  FlowInv'
    OBVIOUS
  <2> USE DEF FlowInv, PausedMatchesIrq, DataMode
  <2>0. control_rx_paused \in BOOLEAN /\ rx_irq \in BOOLEAN
    BY DEF TypeInv, TypeOK, UartTypes
  <2>1. CASE Disconnected
    BY <2>1 DEF Disconnected, ClearDataModeSession, RefreshUartRx
  <2>2. CASE Activate
    BY <2>0, <2>2 DEF Activate, RefreshUartRx
  <2>3. CASE EscapeRecognized
    BY <2>0, <2>3 DEF EscapeRecognized, ExitDataMode, ClearDataModeSession, RefreshUartRx
  <2>4. CASE RxDone
    <3>1. UNCHANGED <<app_state, current_conn, pending_enter>>
      BY <2>4 DEF RxDone, link
    <3> QED
      BY <2>0, <2>4, <3>1 DEF RxDone, RefreshUartRx
  <2>5. CASE SendAccepted
    <3>1. UNCHANGED <<app_state, current_conn, pending_enter>>
      BY <2>5 DEF SendAccepted, link
    <3>2. RefreshUartRx(app_state, ring', control_rx_paused, rx_irq)
      BY <2>5 DEF SendAccepted
    <3> QED
      BY <2>0, <3>1, <3>2 DEF RefreshUartRx
  <2>6. CASE RxPause
    BY <2>6 DEF RxPause, link
  <2>7. CASE LinkReady
    BY <2>7 DEF LinkReady, uartRx
  <2>8. CASE OpEnterDataMode
    BY <2>8 DEF OpEnterDataMode, uartRx
  <2>9. CASE ProfileLost \/ UpdatePayloadLen
    BY <2>9 DEF ProfileLost, UpdatePayloadLen, uartRx
  <2>10. CASE \/ GuardElapse \/ EscapeAbandoned \/ RxRead \/ RxByteNext \/ CoalesceFires
              \/ RetryFires \/ PumpStart \/ PumpStops \/ PumpDefers \/ PumpClaims
              \/ SendRefused \/ UNCHANGED vars
    <3>1. UNCHANGED <<link, uartRx>>
      BY <2>10 DEF GuardElapse, EscapeAbandoned, RxRead, RxByteNext, EscapeStarts,
         EscapeExtends, PayloadByte, FourthPlusStartsAnew, CoalesceFires, RetryFires,
         PumpStart, PumpStops, PumpDefers, PumpClaims, SendRefused, vars
    <3> QED
      BY <3>1 DEF link, uartRx
  <2> QED
    BY <2>1, <2>2, <2>3, <2>4, <2>5, <2>6, <2>7, <2>8, <2>9, <2>10
    DEF Next, LinkNext, ModeNext, RxNext, PumpNext
<1>3. FlowInv => PausedMatchesIrq
  BY DEF FlowInv
<1> QED
  BY <1>1, <1>2, <1>3, TypesKept, PTL DEF Spec

----------------------------------------------------------------------------
\* The facts NoLostWakeup rests on.  Session: what cannot outlive the connection or
\* data mode.  Claimed: until a send fails, the claim is the chunk being sent.
\* Woken: unclaimed bytes in data mode have a handler coming, and a send that is
\* stuck on an ended connection does not count as one.  Settled: a host that has
\* been quiet for the guard time, or another mode, means that nothing is unclaimed.
Session ==
    /\ can_write => current_conn
    /\ ~current_conn => ring = RingEmpty /\ ~failed
    /\ (DataMode \/ in_rx) => current_conn
    /\ (in_rx \/ escape_count > 0) => DataMode
    /\ chunk_live => pump = "sending" /\ current_conn
    /\ pump = "sending" => Len(chunk) > 0

Claimed == ~failed => ring.claimed = IF chunk_live THEN Len(chunk) ELSE 0

Woken ==
    (DataMode /\ MayPump /\ ~failed /\ RingSize(ring) > 0) =>
        (in_rx \/ write_work \/ coalesce \/ pump = "loop" \/ chunk_live)

Settled == (MayPump /\ ~failed /\ (~DataMode \/ quiet)) => RingSize(ring) = 0

WakeInv == Session /\ Claimed /\ Woken /\ Settled

\* Consuming exactly the claim leaves what is unclaimed; consuming more than is
\* claimed does nothing.
LEMMA FinishKeepsUnclaimed ==
    ASSUME NEW r, RingType(r), NEW k \in Nat
    PROVE  /\ k = r.claimed => /\ RingSize(RingFinish(r, Size, k)) = RingSize(r)
                               /\ RingFinish(r, Size, k).claimed = 0
           /\ k > r.claimed => RingFinish(r, Size, k) = r
<1>1. CASE k = r.claimed
  <2>1. /\ r.bytes \in ByteSeq /\ r.claimed \in Nat /\ Len(r.bytes) \in Nat
        /\ k <= Len(r.bytes)
    BY <1>1 DEF RingType, ByteSeq
  <2>2. Len(SubSeq(r.bytes, k + 1, Len(r.bytes))) = Len(r.bytes) - k
    BY <2>1, PartOfBytes
  <2>3. RingFinish(r, Size, k) = [bytes   |-> SubSeq(r.bytes, k + 1, Len(r.bytes)),
                                  claimed |-> 0,
                                  off     |-> RingAdvance(r.off, k, Size)]
    BY <1>1, <2>1 DEF RingFinish
  <2> QED
    BY <1>1, <2>1, <2>2, <2>3 DEF RingSize
<1>2. CASE k # r.claimed
  BY <1>2 DEF RingFinish, RingType
<1> QED
  BY <1>1, <1>2

\* The size of the ring is a natural number.
LEMMA RingSizeType == TypeOK => RingSize(ring) \in Nat
  BY DEF TypeOK, RingType, RingSize, ByteSeq

\* What scheduling does about unclaimed bytes, in data mode on a usable link.
LEMMA ScheduleWakes ==
    ASSUME TypeOK, NEW r, RingType(r), DataMode, MayPump, RingSize(r) > 0,
           ScheduleDataModeBleTx(r)
    PROVE  write_work' \/ coalesce'
<1>1. payload_len \in Nat /\ RingSize(r) \in Nat
  BY PayloadAssumption DEF TypeOK, LinkTypes, RingType, RingSize, ByteSeq
<1>2. RingSize(r) >= payload_len \/ RingSize(r) < payload_len
  BY <1>1
<1> QED
  BY <1>2 DEF ScheduleDataModeBleTx, MayPump

\* Who owes the bytes in the ring, in every reachable state: the invariant behind the
\* two theorems below.
LEMMA PumpInvariant == Spec => [](TypeInv /\ WakeInv)
<1>1. Init => WakeInv
  BY RingEmptyType DEF Init, WakeInv, Session, Claimed, Woken, Settled, MayPump, RingEmpty,
     RingSize, DataMode
<1>2. TypeInv /\ TypeInv' /\ WakeInv /\ [Next]_vars => WakeInv'
  <2> SUFFICES ASSUME TypeInv, TypeInv', WakeInv, [Next]_vars
               PROVE  WakeInv'
    OBVIOUS
  <2>0. TypeOK /\ TypeOK' /\ Session /\ Claimed /\ Woken /\ Settled
        /\ RingSize(ring) \in Nat
    BY RingSizeType DEF TypeInv, WakeInv
  <2> USE <2>0 DEF MayPump, DataMode
  <2>1. CASE LinkReady
    <3>1. UNCHANGED <<ring, escape_count, in_rx, chunk, chunk_live, pump, failed>>
      BY <2>1 DEF LinkReady, escape, rxLoop, pumping, history
    <3>2. ring = RingEmpty /\ ~failed /\ ~chunk_live /\ ~DataMode /\ ~in_rx
      BY <2>1 DEF LinkReady, Session
    <3>3. RingSize(ring) = 0 /\ ring.claimed = 0
      BY <3>2 DEF RingSize, RingEmpty
    <3>4. Session' /\ Claimed'
      BY <2>1, <3>1, <3>2, <3>3 DEF LinkReady, Session, Claimed
    <3> QED
      BY <2>1, <3>1, <3>2, <3>3, <3>4 DEF LinkReady, WakeInv, Woken, Settled, RingSize
  <2>2. CASE ProfileLost \/ UpdatePayloadLen
    <3>1. UNCHANGED <<app_state, current_conn, ring, escape_count, quiet, in_rx, write_work,
                      coalesce, chunk, chunk_live, pump, failed>>
      BY <2>2 DEF ProfileLost, UpdatePayloadLen, escape, rxLoop, timers, pumping, history
    <3>2. can_write' => can_write
      BY <2>2 DEF ProfileLost, UpdatePayloadLen
    <3> QED
      BY <3>1, <3>2 DEF WakeInv, Session, Claimed, Woken, Settled
  <2>3. CASE Disconnected
    <3>1. /\ ~current_conn' /\ ~can_write' /\ ring' = RingEmpty /\ ~failed'
          /\ ~chunk_live' /\ ~in_rx' /\ escape_count' = 0 /\ app_state' = "IDLE"
      BY <2>3 DEF Disconnected, ClearDataModeSession, rxLoop
    <3>2. pump' = pump /\ chunk' = chunk
      BY <2>3 DEF Disconnected
    <3> QED
      BY <3>1, <3>2 DEF WakeInv, Session, Claimed, Woken, Settled, RingEmpty
  <2>4. CASE OpEnterDataMode \/ RxPause
    <3>1. UNCHANGED <<app_state, current_conn, can_write, ring, escape_count, quiet, in_rx,
                      write_work, coalesce, chunk, chunk_live, pump, failed>>
      BY <2>4 DEF OpEnterDataMode, RxPause, link, escape, rxLoop, timers, pumping, history
    <3> QED
      BY <3>1 DEF WakeInv, Session, Claimed, Woken, Settled
  <2>5. CASE Activate
    <3>1. /\ UNCHANGED <<current_conn, can_write, ring, in_rx, chunk, chunk_live, pump, failed>>
          /\ escape_count' = 0 /\ quiet' = FALSE /\ app_state' = "DATA_MODE"
          /\ current_conn /\ ~DataMode
      BY <2>5 DEF Activate, rxLoop, pumping, history
    <3> QED
      BY <3>1 DEF WakeInv, Session, Claimed, Woken, Settled
  <2>6. CASE EscapeRecognized
    <3>1. /\ UNCHANGED <<current_conn, can_write, ring, quiet, in_rx, chunk, chunk_live, pump,
                         failed>>
          /\ escape_count' = 0 /\ app_state' # "DATA_MODE"
          /\ quiet /\ ~in_rx
      BY <2>6 DEF EscapeRecognized, ExitDataMode, ClearDataModeSession, rxLoop, pumping
    <3> QED
      BY <3>1 DEF WakeInv, Session, Claimed, Woken, Settled
  <2>7. CASE EscapeAbandoned
    <3>1. /\ UNCHANGED <<app_state, current_conn, can_write, payload_len, in_rx, chunk,
                         chunk_live, pump, failed>>
          /\ escape_count' = 0 /\ ~quiet'
          /\ DataMode /\ escape_count \in Nat
      BY <2>7 DEF EscapeAbandoned, Session, link, rxLoop, pumping
    <3>2. offered + escape_count <= MaxOffered
      <4>1. offered \in Nat /\ escape_count \in Nat /\ rx_left \in Nat
        BY DEF TypeInv, TypeOK, HistoryTypes, EscapeTypes, RxTypes
      <4>2. offered + escape_count + rx_left <= MaxOffered
        BY DEF TypeInv, RoomToOffer
      <4> QED
        BY <4>1, <4>2, SizesAssumption
    <3>3. RingType(ring') /\ ring'.claimed = ring.claimed
      BY <2>7, <3>1, <3>2, OfferEffect DEF EscapeAbandoned
    <3>4. (MayPump /\ RingSize(ring') > 0) => (write_work' \/ coalesce')
      BY <2>7, <3>1, <3>3, ScheduleWakes DEF EscapeAbandoned
    <3>5. current_conn' /\ Session' /\ Claimed'
      BY <3>1, <3>3 DEF Session, Claimed
    <3> QED
      BY <3>1, <3>4, <3>5 DEF WakeInv, Woken, Settled
  <2>8. CASE GuardElapse
    <3>1. /\ UNCHANGED <<app_state, current_conn, can_write, ring, escape_count, in_rx,
                         write_work, coalesce, chunk, chunk_live, pump, failed>>
          /\ ~in_rx /\ DataMode /\ ~coalesce /\ ~write_work /\ pump = "idle"
      BY <2>8 DEF GuardElapse, link, rxLoop, timers, pumping, history
    <3>2. (MayPump /\ ~failed) => RingSize(ring) = 0
      BY <3>1 DEF Woken, Session
    <3> QED
      BY <3>1, <3>2 DEF WakeInv, Session, Claimed, Woken, Settled
  <2>9. CASE RxRead
    <3>1. /\ UNCHANGED <<app_state, current_conn, can_write, ring, escape_count, quiet,
                         chunk, chunk_live, pump, failed>>
          /\ in_rx' /\ DataMode
      BY <2>9 DEF RxRead, link, escape, pumping
    <3> QED
      BY <3>1 DEF WakeInv, Session, Claimed, Woken, Settled
  <2>10. CASE EscapeStarts \/ EscapeExtends
    <3>1. /\ UNCHANGED <<app_state, current_conn, can_write, ring, in_rx,
                         chunk, chunk_live, pump, failed>>
          /\ in_rx /\ ~quiet'
      BY <2>10 DEF EscapeStarts, EscapeExtends, NextRxByte, HoldPlus, link, pumping, history
    <3> QED
      BY <3>1 DEF WakeInv, Session, Claimed, Woken, Settled
  <2>11. CASE PayloadByte \/ FourthPlusStartsAnew
    <3>1. /\ UNCHANGED <<app_state, current_conn, can_write, in_rx,
                         chunk, chunk_live, pump, failed>>
          /\ in_rx /\ ~quiet'
      BY <2>11 DEF PayloadByte, FourthPlusStartsAnew, NextRxByte, HoldPlus, link, pumping
    <3>2. ring'.claimed = ring.claimed
      BY <2>11 DEF PayloadByte, FourthPlusStartsAnew, Offer, RingPut, TypeOK, RingType
    <3> QED
      BY <3>1, <3>2 DEF WakeInv, Session, Claimed, Woken, Settled
  <2>12. CASE RxDone
    <3>1. /\ UNCHANGED <<app_state, current_conn, can_write, payload_len, ring, escape_count,
                         quiet, chunk, chunk_live, pump, failed>>
          /\ ~in_rx' /\ DataMode
      BY <2>12 DEF RxDone, Session, link, escape, pumping, history
    <3>2. (MayPump /\ RingSize(ring) > 0) => (write_work' \/ coalesce')
      BY <2>12, <3>1, ScheduleWakes DEF RxDone, TypeOK
    <3> QED
      BY <3>1, <3>2 DEF WakeInv, Session, Claimed, Woken, Settled
  <2>13. CASE CoalesceFires \/ RetryFires \/ PumpStart
    <3>1. /\ UNCHANGED <<app_state, current_conn, can_write, ring, escape_count, quiet,
                         in_rx, chunk, chunk_live, failed>>
          /\ write_work' \/ pump' = "loop"
          /\ pump' = pump \/ (pump = "idle" /\ pump' = "loop")
      BY <2>13 DEF CoalesceFires, RetryFires, PumpStart, link, escape, rxLoop, pumping, history
    <3> QED
      BY <3>1 DEF WakeInv, Session, Claimed, Woken, Settled
  <2>14. CASE PumpStops \/ PumpDefers
    <3>1. /\ UNCHANGED <<app_state, current_conn, can_write, ring, escape_count, quiet,
                         in_rx, write_work, chunk, chunk_live, failed>>
          /\ pump = "loop" /\ pump' = "idle"
          /\ ~MayPump \/ RingSize(ring) = 0 \/ coalesce'
      BY <2>14 DEF PumpStops, PumpDefers, link, escape, rxLoop, history
    <3> QED
      BY <3>1 DEF WakeInv, Session, Claimed, Woken, Settled
  <2>15. CASE PumpClaims
    <3> DEFINE k == RingClaimLen(ring, Size, payload_len)
    <3>1. /\ UNCHANGED <<app_state, current_conn, can_write, escape_count, quiet, in_rx, failed>>
          /\ pump = "loop" /\ pump' = "sending" /\ chunk_live' /\ MayPump
          /\ ring' = RingClaim(ring, k) /\ chunk' = RingClaimed(ring, k)
          /\ RingSize(ring) > 0
      BY <2>15 DEF PumpClaims, link, escape, rxLoop, history
    <3>2. payload_len \in Nat \ {0} /\ RingType(ring)
      BY PayloadAssumption DEF TypeOK, LinkTypes
    <3>3. /\ k \in 1..RingSize(ring) /\ ring' = [ring EXCEPT !.claimed = @ + k]
          /\ Len(chunk') = k
      BY <3>1, <3>2, RingClaimType
    <3> HIDE DEF k
    <3>4. ~failed => ring'.claimed = Len(chunk')
      <4>1. ~chunk_live
        BY <3>1 DEF Session
      <4>2. ring'.claimed = ring.claimed + k
        BY <3>2, <3>3 DEF RingType
      <4>3. ~failed => ring.claimed = 0
        BY <4>1 DEF Claimed
      <4> QED
        BY <3>3, <4>2, <4>3
    <3>5. Len(chunk') > 0
      BY <3>3
    <3>6. Session' /\ Claimed' /\ Woken'
      BY <3>1, <3>4, <3>5 DEF Session, Claimed, Woken
    <3>7. Settled'
      BY <3>1 DEF Settled
    <3> QED
      BY <3>6, <3>7 DEF WakeInv
  <2>16. CASE SendAccepted
    <3>1. /\ UNCHANGED <<app_state, current_conn, can_write, escape_count, quiet, in_rx, failed>>
          /\ pump = "sending" /\ pump' = "loop" /\ ~chunk_live'
          /\ ring' = RingFinish(ring, Size, Len(chunk))
      BY <2>16 DEF SendAccepted, FinishClaim, link, escape, rxLoop
    <3>2. Len(chunk) \in Nat /\ RingType(ring) /\ ring.claimed \in Nat
      BY DEF TypeOK, PumpTypes, ByteSeq, RingType
    <3>3. ~failed => RingSize(ring') = RingSize(ring) /\ ring'.claimed = 0
      <4>1. CASE chunk_live
        BY <3>1, <3>2, <4>1, FinishKeepsUnclaimed DEF Claimed
      <4>2. CASE ~chunk_live
        <5>1. ~failed => ring.claimed = 0 /\ Len(chunk) > ring.claimed
          BY <3>1, <4>2 DEF Claimed, Session
        <5> QED
          BY <3>1, <3>2, <5>1, FinishKeepsUnclaimed
      <4> QED
        BY <4>1, <4>2
    <3>4. ~current_conn => ring' = RingEmpty
      <4>1. ~current_conn => ring = RingEmpty /\ ~chunk_live /\ ~failed
        BY DEF Session
      <4>2. ~current_conn => Len(chunk) > ring.claimed
        BY <3>1, <4>1 DEF Session, Claimed
      <4> QED
        BY <3>1, <3>2, <4>1, <4>2, FinishKeepsUnclaimed
    <3>5. Session'
      BY <3>1, <3>4 DEF Session
    <3> QED
      BY <3>1, <3>3, <3>5 DEF WakeInv, Claimed, Woken, Settled
  <2>17. CASE SendRefused
    <3>1. /\ UNCHANGED <<app_state, current_conn, can_write, ring, escape_count, quiet, in_rx,
                         write_work, coalesce>>
          /\ pump = "sending" /\ pump' = "idle" /\ ~chunk_live'
          /\ failed' = (failed \/ chunk_live)
      BY <2>17 DEF SendRefused, link, escape, rxLoop
    <3> QED
      BY <3>1 DEF WakeInv, Session, Claimed, Woken, Settled
  <2>18. CASE UNCHANGED vars
    <3>1. UNCHANGED <<app_state, current_conn, can_write, ring, escape_count, quiet, in_rx,
                      write_work, coalesce, chunk, chunk_live, pump, failed>>
      BY <2>18 DEF vars, link, escape, rxLoop, timers, pumping, history
    <3> QED
      BY <3>1 DEF WakeInv, Session, Claimed, Woken, Settled
  <2> QED
    BY <2>1, <2>2, <2>3, <2>4, <2>5, <2>6, <2>7, <2>8, <2>9, <2>10, <2>11, <2>12, <2>13,
       <2>14, <2>15, <2>16, <2>17, <2>18
    DEF Next, LinkNext, ModeNext, RxNext, RxByteNext, PumpNext
<1> QED
  BY <1>1, <1>2, TypesKept, PTL DEF Spec

\* In data mode no unclaimed byte is ever left without a handler that will send it,
\* whatever coalescing, mode changes, disconnections and slow sends interleave.
THEOREM NothingForgotten == Spec => []NoLostWakeup
<1>1. TypeInv /\ WakeInv => NoLostWakeup
  BY DEF TypeInv, TypeOK, PumpTypes, WakeInv, Woken, Session, NoLostWakeup
<1> QED
  BY <1>1, PumpInvariant, PTL

\* Leaving data mode leaves nothing in the ring for the next session to send first,
\* although clear_data_mode_session does not empty it: only a send that failed can
\* have kept bytes for the guard time.
THEOREM NoLeftover == Spec => []SessionStartsEmpty
<1>1. TypeInv /\ WakeInv => SessionStartsEmpty
  BY DEF WakeInv, Settled, SessionStartsEmpty
<1> QED
  BY <1>1, PumpInvariant, PTL

\* Every variable of the data plane keeps its type and its range: the ring's indices, a
\* candidate of at most three pluses, a claim no longer than the ring (main.c's state).
THEOREM TypeCorrect == Spec => []TypeOK
<1>1. TypeInv => TypeOK
  BY DEF TypeInv
<1> QED
  BY <1>1, TypesKept, PTL

----------------------------------------------------------------------------
\* The data plane implements the byte stream.  What the peripheral has and what the ring
\* still holds are one sequence: a put appends to it, a send moves the border.  That the
\* border moves by what was sent, although the link can be lost and the ring reset while
\* the send is under way, is in ChunkIsClaim, and rests on Claimed.

Carried == peer \o ring.bytes

\* Positions of the host's stream, the later ones behind, none that is still to come.
InOrder(s, last) ==
    /\ \A i, j \in 1..Len(s) : i < j => s[i] < s[j]
    /\ \A i \in 1..Len(s) : s[i] <= last

\* What is being sent is the oldest of the ring.
ChunkIsClaim == (~failed /\ chunk_live) => chunk = SubSeq(ring.bytes, 1, Len(chunk))

CarriedInv ==
    ~failed => /\ InOrder(Carried, offered)
               /\ ~overflow => Len(Carried) = offered

StreamInv == ChunkIsClaim /\ CarriedInv

----------------------------------------------------------------------------
\* Two byte sequences in a row.
LEMMA Joined ==
    ASSUME NEW s \in ByteSeq, NEW t \in ByteSeq
    PROVE  /\ s \o t \in ByteSeq
           /\ Len(s) \in Nat /\ Len(t) \in Nat /\ Len(s \o t) = Len(s) + Len(t)
           /\ \A i \in 1..Len(s) : (s \o t)[i] = s[i]
           /\ \A i \in (Len(s) + 1)..(Len(s) + Len(t)) : (s \o t)[i] = t[i - Len(s)]
           /\ SubSeq(s \o t, 1, Len(s)) = s
<1>1. s \in Seq(1..MaxOffered) /\ t \in Seq(1..MaxOffered)
  BY DEF ByteSeq
<1>2. /\ s \o t \in Seq(1..MaxOffered) /\ Len(s \o t) = Len(s) + Len(t)
      /\ Len(s) \in Nat /\ Len(t) \in Nat
      /\ \A i \in 1..Len(s) : (s \o t)[i] = s[i]
      /\ \A i \in (Len(s) + 1)..(Len(s) + Len(t)) : (s \o t)[i] = t[i - Len(s)]
  BY <1>1
<1>3. s \o t \in ByteSeq
  BY <1>2 DEF ByteSeq
<1>4. /\ SubSeq(s \o t, 1, Len(s)) \in ByteSeq
      /\ Len(SubSeq(s \o t, 1, Len(s))) = Len(s)
      /\ \A i \in 1..Len(s) : SubSeq(s \o t, 1, Len(s))[i] = (s \o t)[i]
  <2> DEFINE n == Len(s)
             u == s \o t
  <2>1. u \in ByteSeq /\ n \in Nat /\ 1 \in Nat \ {0} /\ 1 <= n + 1 /\ n <= Len(u)
    BY <1>2, <1>3
  <2> HIDE DEF n, u
  <2>2. /\ SubSeq(u, 1, n) \in ByteSeq
        /\ Len(SubSeq(u, 1, n)) = n - 1 + 1
        /\ \A i \in 1..(n - 1 + 1) : SubSeq(u, 1, n)[i] = u[1 + i - 1]
    BY <2>1, PartOfBytes
  <2>3. n - 1 + 1 = n /\ \A i \in 1..n : 1 + i - 1 = i
    BY <2>1
  <2>4. /\ SubSeq(u, 1, n) \in ByteSeq /\ Len(SubSeq(u, 1, n)) = n
        /\ \A i \in 1..n : SubSeq(u, 1, n)[i] = u[i]
    BY <2>2, <2>3
  <2> QED
    BY <2>4 DEF n, u
<1>5. SubSeq(s \o t, 1, Len(s)) = s
  BY <1>1, <1>2, <1>4, SeqEqual DEF ByteSeq
<1> QED
  BY <1>2, <1>3, <1>5

\* A byte sequence is its first k bytes and the rest.
LEMMA Cut ==
    ASSUME NEW s \in ByteSeq, NEW k \in Nat, k <= Len(s)
    PROVE  SubSeq(s, 1, k) \o SubSeq(s, k + 1, Len(s)) = s
<1> DEFINE a == SubSeq(s, 1, k)
           b == SubSeq(s, k + 1, Len(s))
<1>1. Len(s) \in Nat /\ k + 1 \in Nat \ {0}
  BY DEF ByteSeq
<1>2. a \in ByteSeq /\ Len(a) = k /\ \A i \in 1..k : a[i] = s[i]
  <2>1. Len(a) = k - 1 + 1 /\ a \in ByteSeq /\ \A i \in 1..(k - 1 + 1) : a[i] = s[1 + i - 1]
    BY <1>1, PartOfBytes
  <2> QED
    BY <2>1
<1>3. b \in ByteSeq /\ Len(b) = Len(s) - k /\ \A i \in 1..(Len(s) - k) : b[i] = s[k + i]
  <2>1. /\ Len(b) = Len(s) - (k + 1) + 1 /\ b \in ByteSeq
        /\ \A i \in 1..(Len(s) - (k + 1) + 1) : b[i] = s[k + 1 + i - 1]
    BY <1>1, PartOfBytes
  <2> HIDE DEF b
  <2>2. Len(s) - (k + 1) + 1 = Len(s) - k /\ \A i \in 1..(Len(s) - k) : k + 1 + i - 1 = k + i
    BY <1>1
  <2> QED
    BY <2>1, <2>2
<1> HIDE DEF a, b
<1>4. /\ a \o b \in ByteSeq /\ Len(a \o b) = Len(s)
      /\ \A i \in 1..k : (a \o b)[i] = a[i]
      /\ \A i \in (k + 1)..Len(s) : (a \o b)[i] = b[i - k]
  <2>1. /\ a \o b \in ByteSeq /\ Len(a \o b) = Len(a) + Len(b)
        /\ \A i \in 1..Len(a) : (a \o b)[i] = a[i]
        /\ \A i \in (Len(a) + 1)..(Len(a) + Len(b)) : (a \o b)[i] = b[i - Len(a)]
    BY <1>2, <1>3, Joined
  <2>2. Len(a) = k /\ Len(a) + Len(b) = Len(s)
    BY <1>1, <1>2, <1>3
  <2> QED
    BY <2>1, <2>2
<1>5. \A i \in 1..Len(s) : (a \o b)[i] = s[i]
  <2>1. ASSUME NEW i \in 1..Len(s) PROVE (a \o b)[i] = s[i]
    <3>1. CASE i \in 1..k
      BY <3>1, <1>2, <1>4
    <3>2. CASE i \in (k + 1)..Len(s)
      <4>1. i - k \in 1..(Len(s) - k) /\ k + (i - k) = i
        BY <3>2, <1>1
      <4> QED
        BY <3>2, <4>1, <1>3, <1>4
    <3>3. i \in 1..k \/ i \in (k + 1)..Len(s)
      BY <1>1
    <3> QED
      BY <3>1, <3>2, <3>3
  <2> QED
    BY <2>1
<1>6. a \o b \in Seq(1..MaxOffered) /\ s \in Seq(1..MaxOffered)
  BY <1>4 DEF ByteSeq
<1>7. a \o b = s
  BY <1>4, <1>5, <1>6, SeqEqual
<1> QED
  BY <1>7 DEF a, b

LEMMA JoinedTwice ==
    ASSUME NEW s \in ByteSeq, NEW t \in ByteSeq, NEW u \in ByteSeq
    PROVE  s \o (t \o u) = (s \o t) \o u
<1>1. s \in Seq(1..MaxOffered) /\ t \in Seq(1..MaxOffered) /\ u \in Seq(1..MaxOffered)
  BY DEF ByteSeq
<1> DEFINE S == 1..MaxOffered
<1>2. s \in Seq(S) /\ t \in Seq(S) /\ u \in Seq(S)
  BY <1>1
<1> HIDE DEF S
<1>3. (s \o t) \o u = s \o (t \o u)
  BY <1>2, ConcatAssociative
<1> QED
  BY <1>3

LEMMA CarriedType == TypeOK => peer \in ByteSeq /\ ring.bytes \in ByteSeq /\ Carried \in ByteSeq
<1> SUFFICES ASSUME TypeOK PROVE peer \in ByteSeq /\ ring.bytes \in ByteSeq /\ Carried \in ByteSeq
  OBVIOUS
<1>1. peer \in ByteSeq /\ ring.bytes \in ByteSeq
  BY DEF TypeOK, HistoryTypes, RingType
<1> QED
  BY <1>1, Joined DEF Carried

\* Bytes put to the ring are later ones, behind what is carried already.
LEMMA OfferCarries ==
    ASSUME TypeOK, TypeOK', NEW k \in Nat, offered + k <= MaxOffered, NEW before \in Nat,
           Offer(k, before), peer' = peer
    PROVE  /\ Carried \in ByteSeq /\ Carried' \in ByteSeq
           /\ Len(Carried) <= Len(Carried') /\ SubSeq(Carried', 1, Len(Carried)) = Carried
           /\ InOrder(Carried, offered) => InOrder(Carried, offered)'
           /\ ~overflow' => ~overflow /\ (Len(Carried) = offered => Len(Carried') = offered')
           /\ \A n \in 0..Len(ring.bytes) : SubSeq(ring'.bytes, 1, n) = SubSeq(ring.bytes, 1, n)
<1> DEFINE a == AtMost(k, Space)
           t == SubSeq(NextBytes(k), 1, a)
<1>1. /\ ring'.bytes = ring.bytes \o t
      /\ a \in 0..k
      /\ offered' = offered + k
      /\ overflow' = (overflow \/ k - a > 0)
  BY OfferEffect
<1>2. t \in ByteSeq /\ Len(t) = a /\ \A i \in 1..a : t[i] = offered + i
  <2>1. NextBytes(k) \in ByteSeq /\ Len(NextBytes(k)) = k
    BY NextBytesType
  <2>2. /\ t \in ByteSeq /\ Len(t) = a - 1 + 1
        /\ \A i \in 1..(a - 1 + 1) : t[i] = NextBytes(k)[1 + i - 1]
    <3> HIDE DEF a
    <3>1. a \in Nat /\ 1 <= a + 1 /\ a <= Len(NextBytes(k))
      BY <1>1, <2>1
    <3> QED
      BY <2>1, <3>1, PartOfBytes
  <2> HIDE DEF a, t
  <2>3. a - 1 + 1 = a /\ \A i \in 1..a : 1 + i - 1 = i /\ i \in 1..k
    BY <1>1
  <2>4. \A i \in 1..k : NextBytes(k)[i] = offered + i
    BY DEF NextBytes
  <2> QED
    BY <2>2, <2>3, <2>4
<1> HIDE DEF a, t
<1>3. peer \in ByteSeq /\ ring.bytes \in ByteSeq /\ Carried \in ByteSeq /\ offered \in Nat
  BY CarriedType DEF TypeOK, HistoryTypes
<1>4. Carried' = Carried \o t
  <2>1. peer \o (ring.bytes \o t) = (peer \o ring.bytes) \o t
    BY <1>2, <1>3, JoinedTwice
  <2> QED
    BY <1>1, <2>1, peer' = peer DEF Carried
<1>5. /\ Len(Carried) \in Nat /\ Len(Carried') = Len(Carried) + a /\ Carried' \in ByteSeq
      /\ \A i \in 1..Len(Carried) : Carried'[i] = Carried[i]
      /\ \A i \in (Len(Carried) + 1)..(Len(Carried) + a) : Carried'[i] = t[i - Len(Carried)]
      /\ SubSeq(Carried', 1, Len(Carried)) = Carried
  <2>1. /\ Carried \o t \in ByteSeq
        /\ Len(Carried) \in Nat /\ Len(Carried \o t) = Len(Carried) + Len(t)
        /\ \A i \in 1..Len(Carried) : (Carried \o t)[i] = Carried[i]
        /\ \A i \in (Len(Carried) + 1)..(Len(Carried) + Len(t)) :
              (Carried \o t)[i] = t[i - Len(Carried)]
        /\ SubSeq(Carried \o t, 1, Len(Carried)) = Carried
    BY <1>2, <1>3, Joined
  <2> QED
    BY <1>2, <1>4, <2>1
<1>6. ASSUME InOrder(Carried, offered)
      PROVE  InOrder(Carried, offered)'
  <2>1. \A i \in (Len(Carried) + 1)..(Len(Carried) + a) :
           Carried'[i] = offered + (i - Len(Carried))
    <3>1. \A i \in (Len(Carried) + 1)..(Len(Carried) + a) : i - Len(Carried) \in 1..a
      BY <1>1, <1>5
    <3> QED
      BY <3>1, <1>2, <1>5
  <2>2. \A i \in 1..Len(Carried) : Carried'[i] \in Nat /\ Carried'[i] <= offered
    <3>1. \A i \in 1..Len(Carried) : Carried[i] \in 1..MaxOffered
      <4>1. Carried \in Seq(1..MaxOffered)
        BY <1>3 DEF ByteSeq
      <4> QED
        BY <4>1, ElementOfSeq
    <3> QED
      BY <3>1, <1>5, <1>6, SizesAssumption DEF InOrder
  <2>3. \A i \in 1..Len(Carried') :
           i \in 1..Len(Carried) \/ i \in (Len(Carried) + 1)..(Len(Carried) + a)
    BY <1>1, <1>5
  <2>4. ASSUME NEW i \in 1..Len(Carried'), NEW j \in 1..Len(Carried'), i < j
        PROVE  Carried'[i] < Carried'[j]
    <3>1. CASE j \in 1..Len(Carried)
      <4>1. i \in 1..Len(Carried)
        BY <2>4, <3>1, <1>5
      <4> QED
        BY <2>4, <3>1, <4>1, <1>5, <1>6 DEF InOrder
    <3>2. CASE j \in (Len(Carried) + 1)..(Len(Carried) + a)
      <4>1. Carried'[j] = offered + (j - Len(Carried))
        BY <3>2, <2>1
      <4>2. CASE i \in 1..Len(Carried)
        BY <3>2, <4>1, <4>2, <2>2, <1>1, <1>3, <1>5
      <4>3. CASE i \in (Len(Carried) + 1)..(Len(Carried) + a)
        <5>1. Carried'[i] = offered + (i - Len(Carried))
          BY <4>3, <2>1
        <5> QED
          BY <2>4, <3>2, <4>1, <4>3, <5>1, <1>1, <1>3, <1>5
      <4> QED
        BY <4>2, <4>3, <2>3
    <3> QED
      BY <3>1, <3>2, <2>3
  <2>5. ASSUME NEW i \in 1..Len(Carried')
        PROVE  Carried'[i] <= offered'
    <3>1. CASE i \in 1..Len(Carried)
      BY <3>1, <2>2, <1>1, <1>3
    <3>2. CASE i \in (Len(Carried) + 1)..(Len(Carried) + a)
      <4>1. Carried'[i] = offered + (i - Len(Carried)) /\ i - Len(Carried) <= a
        BY <3>2, <2>1, <1>1, <1>5
      <4> QED
        BY <4>1, <3>2, <1>1, <1>3, <1>5
    <3> QED
      BY <3>1, <3>2, <2>3
  <2> QED
    BY <2>4, <2>5 DEF InOrder
<1>7. ASSUME ~overflow'
      PROVE  ~overflow /\ (Len(Carried) = offered => Len(Carried') = offered')
  <2>1. ~overflow /\ ~(k - a > 0)
    BY <1>1, <1>7
  <2>2. a = k
    BY <1>1, <2>1
  <2> QED
    BY <2>1, <2>2, <1>1, <1>3, <1>5
<1>8. ASSUME NEW n \in 0..Len(ring.bytes)
      PROVE  SubSeq(ring'.bytes, 1, n) = SubSeq(ring.bytes, 1, n)
  <2>1. /\ ring.bytes \o t \in ByteSeq /\ Len(ring.bytes) \in Nat
        /\ Len(ring.bytes \o t) = Len(ring.bytes) + a
        /\ \A i \in 1..Len(ring.bytes) : (ring.bytes \o t)[i] = ring.bytes[i]
    BY <1>2, <1>3, Joined
  <2>2. n \in Nat /\ 1 <= n + 1 /\ n <= Len(ring.bytes) /\ n <= Len(ring.bytes \o t)
    BY <1>1, <1>8, <2>1
  <2>3. /\ SubSeq(ring.bytes, 1, n) \in ByteSeq /\ Len(SubSeq(ring.bytes, 1, n)) = n - 1 + 1
        /\ \A i \in 1..(n - 1 + 1) : SubSeq(ring.bytes, 1, n)[i] = ring.bytes[1 + i - 1]
    BY <1>3, <2>2, PartOfBytes
  <2>4. /\ SubSeq(ring.bytes \o t, 1, n) \in ByteSeq
        /\ Len(SubSeq(ring.bytes \o t, 1, n)) = n - 1 + 1
        /\ \A i \in 1..(n - 1 + 1) : SubSeq(ring.bytes \o t, 1, n)[i] = (ring.bytes \o t)[1 + i - 1]
    <3> DEFINE u == ring.bytes \o t
    <3>1. u \in ByteSeq /\ n <= Len(u)
      BY <2>1, <2>2
    <3> HIDE DEF u
    <3>2. /\ SubSeq(u, 1, n) \in ByteSeq /\ Len(SubSeq(u, 1, n)) = n - 1 + 1
          /\ \A i \in 1..(n - 1 + 1) : SubSeq(u, 1, n)[i] = u[1 + i - 1]
      BY <3>1, <2>2, PartOfBytes
    <3> QED
      BY <3>2 DEF u
  <2>5. \A i \in 1..(n - 1 + 1) : 1 + i - 1 \in 1..Len(ring.bytes)
    BY <2>2
  <2>6. SubSeq(ring.bytes \o t, 1, n) = SubSeq(ring.bytes, 1, n)
    BY <2>1, <2>3, <2>4, <2>5, SeqEqual DEF ByteSeq
  <2> QED
    BY <2>6, <1>1
<1>9. Len(Carried) <= Len(Carried')
  BY <1>1, <1>5
<1> QED
  BY <1>3, <1>5, <1>6, <1>7, <1>8, <1>9

\* Sending the claim moves it from the ring to the peripheral, and changes nothing else.
LEMMA SendCarries ==
    ASSUME TypeOK, WakeInv, ChunkIsClaim, ~failed, chunk_live, ring' = FinishClaim,
           peer' = peer \o chunk
    PROVE  /\ Carried' = Carried
           /\ Len(peer') \in (Len(peer) + 1)..Len(Carried)
<1> DEFINE k == Len(chunk)
<1>1. ring.claimed = k /\ k > 0
  BY DEF WakeInv, Claimed, Session
<1>2. /\ ring.bytes \in ByteSeq /\ peer \in ByteSeq /\ chunk \in ByteSeq
      /\ k \in Nat /\ k <= Len(ring.bytes) /\ Len(ring.bytes) \in Nat
  BY <1>1 DEF TypeOK, RingType, HistoryTypes, PumpTypes, ByteSeq
<1>3. ring'.bytes = SubSeq(ring.bytes, k + 1, Len(ring.bytes))
  BY <1>1, <1>2 DEF FinishClaim, RingFinish
<1>4. chunk = SubSeq(ring.bytes, 1, k)
  BY DEF ChunkIsClaim
<1> HIDE DEF k
<1>5. ring'.bytes \in ByteSeq
  BY <1>2, <1>3, PartOfBytes
<1>6. chunk \o ring'.bytes = ring.bytes
  <2>1. SubSeq(ring.bytes, 1, k) \o SubSeq(ring.bytes, k + 1, Len(ring.bytes)) = ring.bytes
    BY <1>2, Cut
  <2> QED
    BY <1>3, <1>4, <2>1
<1>7. Carried' = Carried
  <2>1. Carried' = (peer \o chunk) \o ring'.bytes
    BY peer' = peer \o chunk DEF Carried
  <2>2. peer \o (chunk \o ring'.bytes) = (peer \o chunk) \o ring'.bytes
    BY <1>2, <1>5, JoinedTwice
  <2> QED
    BY <1>6, <2>1, <2>2 DEF Carried
<1>8. Len(Carried) = Len(peer) + Len(ring.bytes) /\ Len(peer') = Len(peer) + Len(chunk)
      /\ Len(peer) \in Nat
  BY <1>2, Joined DEF Carried
<1>9. Len(peer') \in (Len(peer) + 1)..Len(Carried)
  BY <1>1, <1>2, <1>8 DEF k
<1> QED
  BY <1>7, <1>9

\* A completion that belongs to an ended connection consumes nothing.
LEMMA LateSend ==
    ASSUME TypeOK, WakeInv, ~failed, ~chunk_live, pump = "sending"
    PROVE  FinishClaim = ring
<1>1. ring.claimed = 0 /\ Len(chunk) > 0
  BY DEF WakeInv, Claimed, Session
<1> QED
  BY <1>1 DEF FinishClaim, RingFinish

----------------------------------------------------------------------------
\* Every step keeps the invariant, and is a step of the byte stream or leaves it alone.
LEMMA StreamStep ==
    TypeInv /\ TypeInv' /\ WakeInv /\ StreamInv /\ [Next]_vars
        => StreamInv' /\ [Stream!Next]_(Stream!vars)
<1> SUFFICES ASSUME TypeInv, TypeInv', WakeInv, StreamInv, [Next]_vars
             PROVE  StreamInv' /\ [Stream!Next]_(Stream!vars)
  OBVIOUS
<1>0. /\ TypeOK /\ TypeOK' /\ Session /\ ChunkIsClaim /\ CarriedInv
      /\ current_conn \in BOOLEAN /\ failed \in BOOLEAN /\ offered \in Nat
      /\ Carried \in ByteSeq
  BY CarriedType DEF TypeInv, TypeOK, LinkTypes, HistoryTypes, WakeInv, StreamInv
\* Steps that touch neither the stream nor the chunk.
<1>1. ASSUME UNCHANGED <<ring, peer, offered, overflow, failed, chunk, chunk_live>>
      PROVE  StreamInv' /\ Carried' = Carried
  <2>1. Carried' = Carried
    BY <1>1 DEF Carried
  <2>2. CarriedInv'
    BY <1>0, <1>1, <2>1 DEF CarriedInv, InOrder
  <2> QED
    BY <1>0, <1>1, <2>1, <2>2 DEF StreamInv, ChunkIsClaim
<1>2. ASSUME UNCHANGED <<ring, peer, offered, overflow, failed, chunk, chunk_live, current_conn>>
      PROVE  StreamInv' /\ [Stream!Next]_(Stream!vars)
  <2>1. UNCHANGED Stream!vars
    BY <1>2 DEF Stream!vars
  <2> QED
    BY <1>1, <1>2, <2>1
<1>3. CASE LinkReady
  <2>1. /\ UNCHANGED <<ring, peer, offered, overflow, failed, chunk, chunk_live>>
        /\ ~current_conn /\ current_conn' = TRUE
    BY <1>3 DEF LinkReady, pumping, history
  <2>2. Stream!Open
    BY <2>1 DEF Stream!Open
  <2> QED
    BY <1>1, <2>1, <2>2 DEF Stream!Next
<1>4. CASE Disconnected
  <2>1. /\ current_conn /\ current_conn' = FALSE /\ chunk_live' = FALSE
        /\ failed' = FALSE /\ peer' = <<>> /\ ring'.bytes = <<>> /\ offered' = 0
    BY <1>4 DEF Disconnected, RingEmpty
  <2>2. Carried' = <<>> /\ Len(<<>>) = 0
    BY <2>1 DEF Carried
  <2>3. StreamInv'
    BY <2>1, <2>2 DEF StreamInv, ChunkIsClaim, CarriedInv, InOrder
  <2>4. Stream!Close
    BY <2>1, <2>2 DEF Stream!Close, Carried
  <2> QED
    BY <2>3, <2>4 DEF Stream!Next
\* Bytes put to the ring.
<1>5. ASSUME NEW k \in Nat, NEW before \in Nat, offered + k <= MaxOffered, Offer(k, before),
             current_conn, UNCHANGED <<current_conn, peer, failed, chunk, chunk_live>>
      PROVE  StreamInv' /\ [Stream!Next]_(Stream!vars)
  <2>1. /\ Carried \in ByteSeq /\ Carried' \in ByteSeq
        /\ Len(Carried) <= Len(Carried') /\ SubSeq(Carried', 1, Len(Carried)) = Carried
        /\ InOrder(Carried, offered) => InOrder(Carried, offered)'
        /\ ~overflow' => ~overflow /\ (Len(Carried) = offered => Len(Carried') = offered')
        /\ \A n \in 0..Len(ring.bytes) : SubSeq(ring'.bytes, 1, n) = SubSeq(ring.bytes, 1, n)
    BY <1>0, <1>5, OfferCarries
  <2>2. CarriedInv'
    BY <1>0, <1>5, <2>1 DEF CarriedInv
  <2>3. ChunkIsClaim'
    <3> SUFFICES ASSUME ~failed, chunk_live PROVE chunk = SubSeq(ring'.bytes, 1, Len(chunk))
      BY <1>5 DEF ChunkIsClaim
    <3>1. ring.claimed = Len(chunk)
      BY DEF WakeInv, Claimed
    <3>2. Len(chunk) \in 0..Len(ring.bytes)
      BY <1>0, <3>1 DEF TypeOK, RingType, ByteSeq
    <3> QED
      BY <1>0, <2>1, <3>2 DEF ChunkIsClaim
  <2>4. CASE failed
    <3>1. Stream!Broken
      BY <1>5, <2>4 DEF Stream!Broken
    <3> QED
      BY <2>2, <2>3, <3>1 DEF Stream!Next, StreamInv
  <2>5. CASE ~failed
    <3>1. Stream!TakeOver
      BY <1>5, <2>1, <2>5 DEF Stream!TakeOver, Carried, ByteSeq
    <3> QED
      BY <2>2, <2>3, <3>1 DEF Stream!Next, StreamInv
  <2> QED
    BY <2>4, <2>5
<1>6. CASE EscapeAbandoned
  <2>1. /\ Offer(escape_count, 0) /\ escape_count \in {1, 2}
        /\ UNCHANGED <<current_conn, peer, failed, chunk, chunk_live>>
    BY <1>6 DEF EscapeAbandoned, link, pumping
  <2>2. current_conn
    BY <1>0, <2>1 DEF Session
  <2>3. escape_count \in Nat /\ 0 \in Nat /\ offered + escape_count <= MaxOffered
    BY <1>0, <2>1, SizesAssumption DEF TypeInv, RoomToOffer, TypeOK, RxTypes
  <2> QED
    BY <1>5, <2>1, <2>2, <2>3
<1>7. CASE PayloadByte
  <2>1. /\ Offer(escape_count + 1, dropped) /\ in_rx /\ rx_left > 0
        /\ UNCHANGED <<current_conn, peer, failed, chunk, chunk_live>>
    BY <1>7 DEF PayloadByte, NextRxByte, link, pumping
  <2>2. current_conn
    BY <1>0, <2>1 DEF Session
  <2>3. /\ escape_count + 1 \in Nat /\ dropped \in Nat
        /\ offered + (escape_count + 1) <= MaxOffered
    BY <1>0, <2>1, SizesAssumption
       DEF TypeInv, RoomToOffer, TypeOK, RxTypes, EscapeTypes, HistoryTypes
  <2> QED
    BY <1>5, <2>1, <2>2, <2>3
<1>8. CASE FourthPlusStartsAnew
  <2>1. /\ Offer(3, dropped) /\ escape_count = 3 /\ in_rx /\ rx_left > 0
        /\ UNCHANGED <<current_conn, peer, failed, chunk, chunk_live>>
    BY <1>8 DEF FourthPlusStartsAnew, NextRxByte, link, pumping
  <2>2. current_conn
    BY <1>0, <2>1 DEF Session
  <2>3. 3 \in Nat /\ dropped \in Nat /\ offered + 3 <= MaxOffered
    BY <1>0, <2>1, SizesAssumption DEF TypeInv, RoomToOffer, TypeOK, RxTypes, HistoryTypes
  <2> QED
    BY <1>5, <2>1, <2>2, <2>3
<1>9. CASE PumpClaims
  <2>1. /\ pump = "loop" /\ RingSize(ring) > 0
        /\ UNCHANGED <<peer, offered, overflow, failed, current_conn>>
        /\ ring' = RingClaim(ring, RingClaimLen(ring, Size, payload_len))
        /\ chunk' = RingClaimed(ring, RingClaimLen(ring, Size, payload_len))
    BY <1>9 DEF PumpClaims, link, history
  <2>2. payload_len \in Nat \ {0} /\ RingType(ring)
    BY <1>0, PayloadAssumption DEF TypeOK, LinkTypes
  <2> DEFINE k == RingClaimLen(ring, Size, payload_len)
  <2>3. /\ k \in 1..RingSize(ring) /\ ring' = [ring EXCEPT !.claimed = @ + k]
        /\ Len(chunk') = k
    BY <2>1, <2>2, RingClaimType
  <2> HIDE DEF k
  <2>4. ring'.bytes = ring.bytes
    BY <2>2, <2>3 DEF RingType
  <2>5. ~failed => chunk' = SubSeq(ring.bytes, 1, Len(chunk'))
    <3> SUFFICES ASSUME ~failed PROVE chunk' = SubSeq(ring.bytes, 1, Len(chunk'))
      OBVIOUS
    <3>1. ring.claimed = 0
      BY <2>1 DEF WakeInv, Claimed, Session
    <3>2. 0 + 1 = 1 /\ 0 + k = k
      BY <1>0, <2>3, RingSizeType
    <3> QED
      BY <2>1, <2>3, <3>1, <3>2 DEF RingClaimed, k
  <2>6. Carried' = Carried
    BY <2>1, <2>4 DEF Carried
  <2>7. StreamInv'
    BY <1>0, <2>1, <2>4, <2>5, <2>6 DEF StreamInv, ChunkIsClaim, CarriedInv, InOrder
  <2>8. UNCHANGED Stream!vars
    BY <2>1, <2>4 DEF Stream!vars
  <2> QED
    BY <2>7, <2>8
<1>10. CASE SendAccepted
  <2>1. /\ pump = "sending" /\ ring' = FinishClaim /\ chunk_live' = FALSE
        /\ peer' = IF chunk_live THEN peer \o chunk ELSE peer
        /\ UNCHANGED <<current_conn, offered, overflow, failed>>
    BY <1>10 DEF SendAccepted, link
  <2>2. CASE failed
    <3>1. current_conn
      BY <1>0, <2>2 DEF Session
    <3>2. Stream!Broken
      BY <2>1, <2>2, <3>1 DEF Stream!Broken
    <3> QED
      BY <2>1, <2>2, <3>2 DEF Stream!Next, StreamInv, ChunkIsClaim, CarriedInv
  <2>3. CASE ~failed /\ chunk_live
    <3>1. Carried' = Carried /\ Len(peer') \in (Len(peer) + 1)..Len(Carried)
      BY <1>0, <2>1, <2>3, SendCarries
    <3>2. current_conn
      BY <1>0, <2>3 DEF Session
    <3>3. Stream!Deliver
      BY <2>1, <2>3, <3>1, <3>2 DEF Stream!Deliver, Carried
    <3>4. StreamInv'
      BY <1>0, <2>1, <3>1 DEF StreamInv, ChunkIsClaim, CarriedInv, InOrder
    <3> QED
      BY <3>3, <3>4 DEF Stream!Next
  <2>4. CASE ~failed /\ ~chunk_live
    <3>1. ring' = ring /\ peer' = peer
      BY <1>0, <2>1, <2>4, LateSend
    <3>2. UNCHANGED Stream!vars /\ Carried' = Carried
      BY <2>1, <3>1 DEF Stream!vars, Carried
    <3>3. StreamInv'
      BY <1>0, <2>1, <3>2 DEF StreamInv, ChunkIsClaim, CarriedInv, InOrder
    <3> QED
      BY <3>2, <3>3
  <2> QED
    BY <2>2, <2>3, <2>4
<1>11. CASE SendRefused
  <2>1. /\ chunk_live' = FALSE /\ failed' = (failed \/ chunk_live)
        /\ UNCHANGED <<current_conn, ring, peer, offered, overflow>>
    BY <1>11 DEF SendRefused, link
  <2>2. Carried' = Carried
    BY <2>1 DEF Carried
  <2>3. StreamInv'
    BY <1>0, <2>1, <2>2 DEF StreamInv, ChunkIsClaim, CarriedInv, InOrder
  <2>4. CASE ~failed /\ chunk_live
    <3>1. Stream!Break
      BY <1>0, <2>1, <2>4 DEF Stream!Break, Session
    <3> QED
      BY <2>3, <3>1 DEF Stream!Next
  <2>5. CASE failed \/ ~chunk_live
    <3>1. failed' = failed
      BY <1>0, <2>1, <2>5
    <3>2. UNCHANGED Stream!vars
      BY <2>1, <3>1 DEF Stream!vars
    <3> QED
      BY <2>3, <3>2
  <2> QED
    BY <2>4, <2>5
<1>12. CASE ProfileLost \/ UpdatePayloadLen \/ OpEnterDataMode \/ Activate \/ EscapeRecognized
  BY <1>12, <1>2 DEF ProfileLost, UpdatePayloadLen, OpEnterDataMode, Activate,
                     EscapeRecognized, ExitDataMode, pumping, history
<1>13. CASE GuardElapse \/ RxPause \/ RxRead \/ EscapeStarts \/ EscapeExtends \/ RxDone
  BY <1>13, <1>2 DEF GuardElapse, RxPause, RxRead, EscapeStarts, EscapeExtends, RxDone,
                     link, pumping, history
<1>14. CASE CoalesceFires \/ RetryFires \/ PumpStart \/ PumpStops \/ PumpDefers
  BY <1>14, <1>2 DEF CoalesceFires, RetryFires, PumpStart, PumpStops, PumpDefers,
                     link, pumping, history
<1>15. CASE UNCHANGED vars
  BY <1>15, <1>2 DEF vars, link, pumping, history
<1> QED
  BY <1>3, <1>4, <1>6, <1>7, <1>8, <1>9, <1>10, <1>11, <1>12, <1>13, <1>14, <1>15
  DEF Next, LinkNext, ModeNext, RxNext, RxByteNext, PumpNext

LEMMA StreamInit == Init => StreamInv /\ Stream!Init
<1> SUFFICES ASSUME Init PROVE StreamInv /\ Stream!Init
  OBVIOUS
<1>1. /\ peer = <<>> /\ ring.bytes = <<>> /\ offered = 0 /\ ~chunk_live /\ failed = FALSE
      /\ current_conn = FALSE
  BY DEF Init, RingEmpty
<1>2. Carried = <<>> /\ Len(<<>>) = 0
  BY <1>1 DEF Carried
<1>3. StreamInv
  BY <1>1, <1>2 DEF StreamInv, ChunkIsClaim, CarriedInv, InOrder
<1>4. Stream!Init
  BY <1>1, <1>2 DEF Stream!Init, Carried
<1> QED
  BY <1>3, <1>4

LEMMA StreamAlways == Spec => [](TypeInv /\ WakeInv /\ StreamInv)
  BY StreamInit, StreamStep, PumpInvariant, PTL DEF Spec

\* What has reached the peripheral and what host_to_ble_ring holds are the host's bytes
\* in order, each once, until a send is refused: although ble_write_work_handler finishes
\* its claim after a call in which the link can end and the ring be reset and filled.
THEOREM StreamKeepsOrder == Spec => []StreamInOrder
<1>1. StreamInv => StreamInOrder
  BY DEF StreamInv, CarriedInv, InOrder, Carried, StreamInOrder
<1> QED
  BY <1>1, StreamAlways, PTL

\* The receive callback, the escape filter, the pump and the disconnected callback
\* together implement the byte stream of a connection.
THEOREM ByteStreamImplemented == Spec => ImplementsByteStream
  BY StreamInit, StreamStep, StreamAlways, PTL DEF Spec, ImplementsByteStream, Stream!Spec

=============================================================================
