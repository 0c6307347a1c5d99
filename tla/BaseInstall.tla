---------------------------- MODULE BaseInstall ----------------------------
(***************************************************************************)
(* What downloadCS2ViaSteamCMD promises its callers: the base tree changes *)
(* only while some call is at work, a call that ends well has found the    *)
(* cs2 binary in it, and a call that ends, ends once.                      *)
(***************************************************************************)
CONSTANTS Callers, Parts, Binary

VARIABLES base, phase

Init == base \in SUBSET Parts /\ phase = [c \in Callers |-> "idle"]

Start(c) ==
    /\ phase[c] = "idle"
    /\ phase' = [phase EXCEPT ![c] = "working"]
    /\ UNCHANGED base

Change(c) ==
    /\ phase[c] = "working"
    /\ base' \in SUBSET Parts
    /\ UNCHANGED phase

Succeed(c) ==
    /\ phase[c] = "working" /\ Binary \in base
    /\ phase' = [phase EXCEPT ![c] = "installed"]
    /\ UNCHANGED base

Fail(c) ==
    /\ phase[c] = "working"
    /\ phase' = [phase EXCEPT ![c] = "failed"]
    /\ UNCHANGED base

Return(c) ==
    /\ phase[c] \in {"installed", "failed"}
    /\ phase' = [phase EXCEPT ![c] = "idle"]
    /\ UNCHANGED base

Next == \E c \in Callers : Start(c) \/ Change(c) \/ Succeed(c) \/ Fail(c) \/ Return(c)

Spec == Init /\ [][Next]_<<base, phase>>
=============================================================================
