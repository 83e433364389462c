------------------------------ MODULE MCSerialRx ------------------------------
(* An instance of SerialRx with a FIFO of a few characters.                *)
EXTENDS SerialRx

CONSTANTS b1, b2

=============================================================================
