----------------------------- MODULE MCPcf8574 -----------------------------
(* Instances of Pcf8574 for TLC.                                           *)
EXTENDS Pcf8574

SomeBits == {0, 1}
SomeCalls == Call
OnlyBitCalls == {k \in Call : k.kind \in {"set", "clear"}}
=============================================================================
