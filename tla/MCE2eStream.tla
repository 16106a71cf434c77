---------------------------- MODULE MCE2eStream ----------------------------
(* Streams in which reads can cut a magic, a frame follows garbage that    *)
(* looks like a header, and beginnings of the exit line precede it.        *)
EXTENDS E2eStream

MCBytes == {"B", "A", "1", "2", "+", "0", "n", "r", "IND", "OK", "D1"}

MCPeerStreams ==
    {<<"B", "B", "A", "1", "1", "+">>,
     <<"B", "A", "B", "A", "2", "2", "+", "0">>}
=============================================================================
