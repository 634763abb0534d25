---------------------------- MODULE MCDiscreteIO ----------------------------
(* Instances of DiscreteIO for TLC.                                        *)
EXTENDS DiscreteIO

\* Two words with different bytes, which change each byte both ways.
SomeCommands == {[p \in Port |-> IF p = q THEN Top ELSE 0] : q \in Port}
=============================================================================
