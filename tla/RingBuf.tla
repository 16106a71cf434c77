------------------------------ MODULE RingBuf ------------------------------
(***************************************************************************)
(* Zephyr's byte ring buffer, as main.c uses it (ring_buf_put, _get_claim, *)
(* _get_finish, _size_get, _space_get, _reset).  A buffer is a record:     *)
(*   bytes    what lies between the read position get_tail and put_tail    *)
(*   claimed  get_head - get_tail: bytes handed out by _get_claim and not  *)
(*            yet given back or consumed by _get_finish                    *)
(*   off      index of get_tail in the storage, where the claim may wrap   *)
(* Claims accumulate: a second claim starts where the first one ended, and *)
(* only _get_finish moves get_head back to get_tail, which is why main.c   *)
(* calls it with 0 when the UART took nothing (service_uart_tx).           *)
(***************************************************************************)
EXTENDS Naturals, Sequences

AtMost(a, b) == IF a <= b THEN a ELSE b

\* ring_buf_reset, and the buffer RING_BUF_DECLARE defines.
RingEmpty == [bytes |-> <<>>, claimed |-> 0, off |-> 0]

\* ring_buf_size_get: what a reader may still claim.
RingSize(r) == Len(r.bytes) - r.claimed

\* ring_buf_space_get: claimed bytes occupy the buffer until they are finished.
RingSpace(r, cap) == cap - Len(r.bytes)

\* ring_buf_put stores the longest prefix of s that fits.
RingPut(r, cap, s) ==
    [r EXCEPT !.bytes = @ \o SubSeq(s, 1, AtMost(Len(s), RingSpace(r, cap)))]

\* Advancing an index of the storage by k.
RingAdvance(off, k, cap) == IF off + k >= cap THEN off + k - cap ELSE off + k

\* ring_buf_get_claim returns contiguous storage: at most `want` bytes, at most
\* what is unclaimed, and never past the end of the storage.
RingClaimLen(r, cap, want) ==
    AtMost(AtMost(want, RingSize(r)), cap - RingAdvance(r.off, r.claimed, cap))

RingClaimed(r, k) == SubSeq(r.bytes, r.claimed + 1, r.claimed + k)

RingClaim(r, k) == [r EXCEPT !.claimed = @ + k]

\* ring_buf_get_finish: -EINVAL and no effect for more than is claimed; otherwise
\* k bytes are consumed FROM THE TAIL and every other claim is given back.
RingFinish(r, cap, k) ==
    IF k > r.claimed
    THEN r
    ELSE [bytes   |-> SubSeq(r.bytes, k + 1, Len(r.bytes)),
          claimed |-> 0,
          off     |-> RingAdvance(r.off, k, cap)]

=============================================================================
