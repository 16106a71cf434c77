----------------------------- MODULE ByteStream -----------------------------
(***************************************************************************)
(* What the data plane promises the host: a connection carries a stream of *)
(* bytes.  Bytes the bridge has taken over are appended to the stream, and *)
(* the peripheral receives an ever longer prefix of it: nothing reordered, *)
(* repeated, altered or left out.  The promise of a connection ends with   *)
(* its first refused write; the next connection starts intact again.       *)
(***************************************************************************)
EXTENDS Naturals, Sequences

CONSTANT Byte

VARIABLES
    open,       \* a connection stands
    intact,     \* no write of this connection has been refused
    stream,     \* the bytes taken over on this connection
    delivered   \* how many of them the peripheral has received

vars == <<open, intact, stream, delivered>>

Init ==
    /\ open = FALSE
    /\ intact = TRUE
    /\ stream = <<>>
    /\ delivered = 0

Open ==
    /\ ~open /\ open' = TRUE
    /\ UNCHANGED <<intact, stream, delivered>>

Close ==
    /\ open /\ open' = FALSE
    /\ intact' = TRUE
    /\ stream' = <<>>
    /\ delivered' = 0

TakeOver ==
    /\ open /\ intact
    /\ stream' \in Seq(Byte)
    /\ Len(stream) <= Len(stream')
    /\ SubSeq(stream', 1, Len(stream)) = stream
    /\ UNCHANGED <<open, intact, delivered>>

Deliver ==
    /\ open /\ intact
    /\ delivered' \in (delivered + 1)..Len(stream)
    /\ UNCHANGED <<open, intact, stream>>

Break ==
    /\ open /\ intact /\ intact' = FALSE
    /\ UNCHANGED <<open, stream, delivered>>

\* Once broken the connection promises nothing.
Broken == open /\ ~intact /\ open' = TRUE /\ intact' = FALSE

Next == Open \/ Close \/ TakeOver \/ Deliver \/ Break \/ Broken

Spec == Init /\ [][Next]_vars

=============================================================================
