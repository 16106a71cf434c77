------------------------------ MODULE MCAtHost ------------------------------
(***************************************************************************)
(* AT+SEND commands for one byte, and for more than a poll of four bytes.  *)
(***************************************************************************)
EXTENDS AtHost

MCSendLens == [S1 |-> 1, S5 |-> 5]

=============================================================================
