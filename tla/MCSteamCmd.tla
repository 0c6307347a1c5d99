------------------------------ MODULE MCSteamCmd ------------------------------
(* Small instances of SteamCmd for TLC. *)
EXTENDS SteamCmd
=============================================================================
