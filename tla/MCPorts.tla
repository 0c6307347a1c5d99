------------------------------ MODULE MCPorts ------------------------------
(* Small instances of Ports for TLC. *)
EXTENDS Ports

\* Ports that are never 5, 10 or 15 apart; the last has no valid default GOTV port.
ApartPorts == {27015, 27016, 27017, 27018, 27036, 65533}
=============================================================================
