------------------------------- MODULE Ports -------------------------------
(***************************************************************************)
(* The network ports of the instances: the game, GOTV and Steam port that  *)
(* deployServer writes into docker-compose.yml, and the firewall rules that *)
(* it opens and removeServer closes.  All containers share the host's       *)
(* network, so ports of different instances meet.                           *)
(*                                                                         *)
(* A rule stands for its tcp and its udp line.  ufw is there and its        *)
(* commands succeed; when ufwProbe finds none, nothing is opened or closed. *)
(***************************************************************************)
EXTENDS Integers, FiniteSets

CONSTANTS
    GamePorts,    \* the game ports the platform uses
    CustomGotv,   \* the GOTV ports it may ask for; 0 asks for the default
    Overlap       \* commands may overlap

Valid == {n \in Nat : 1024 <= n /\ n <= 65535}

ASSUME PortsAssumption ==
    /\ GamePorts \subseteq Valid /\ CustomGotv \subseteq Nat \ {0}
    /\ Overlap \in BOOLEAN

VARIABLES
    inst,       \* the instances, by game port
    gotv,       \* gotv[p]: the GOTV port in p's docker-compose.yml
    allowed,    \* the ports that the agent's rules let through
    opening,    \* the ports of deploys that have yet to open their rules
    closing     \* the ports of removals that have yet to close their rules

vars == <<inst, gotv, allowed, opening, closing>>

DefaultGotv(p) == p + 5

\* (mutant of SteamPort) the port next to the game port
SteamPortNear(p) == p + 1

SteamPort(p) == p - 10

Init ==
    /\ inst = {} /\ allowed = {} /\ opening = {} /\ closing = {}
    /\ gotv = [p \in GamePorts |-> DefaultGotv(p)]

MayBegin == Overlap \/ (opening = {} /\ closing = {})

\* (mutant of Deploy) the GOTV port is not checked
DeployAnyGotv(p, wanted) ==
    LET g == IF wanted = 0 THEN DefaultGotv(p) ELSE wanted
    IN /\ MayBegin
       /\ inst' = inst \cup {p}
       /\ gotv' = [gotv EXCEPT ![p] = g]
       /\ opening' = opening \cup {p}
       /\ UNCHANGED <<allowed, closing>>

\* deployServer: a port out of range ends the deploy before it writes or opens.
Deploy(p, wanted) ==
    LET g == IF wanted = 0 THEN DefaultGotv(p) ELSE wanted
    IN /\ MayBegin /\ g \in Valid
       /\ inst' = inst \cup {p}
       /\ gotv' = [gotv EXCEPT ![p] = g]
       /\ opening' = opening \cup {p}
       /\ UNCHANGED <<allowed, closing>>

\* (mutant of OpenRules) the rule of the GOTV port is forgotten
OpenGameOnly(p) ==
    /\ p \in opening
    /\ allowed' = allowed \cup {p}
    /\ opening' = opening \ {p}
    /\ UNCHANGED <<inst, gotv, closing>>

\* ... then ensureUFWPorts.
OpenRules(p) ==
    /\ p \in opening
    /\ allowed' = allowed \cup {p, gotv[p]}
    /\ opening' = opening \ {p}
    /\ UNCHANGED <<inst, gotv, closing>>

\* removeServer: compose down and RemoveAll.  Without a compose file it fails.
RemoveFiles(p) ==
    /\ MayBegin /\ p \in inst
    /\ inst' = inst \ {p}
    /\ closing' = closing \cup {p}
    /\ UNCHANGED <<gotv, allowed, opening>>

\* (mutant of CloseRules) the rule of the GOTV port stays
CloseGameOnly(p) ==
    /\ p \in closing
    /\ allowed' = allowed \ {p}
    /\ closing' = closing \ {p}
    /\ UNCHANGED <<inst, gotv, opening>>

\* ... then closeUFWPorts, for the GOTV port that a default deploy has.
CloseRules(p) ==
    /\ p \in closing
    /\ allowed' = allowed \ {p, DefaultGotv(p)}
    /\ closing' = closing \ {p}
    /\ UNCHANGED <<inst, gotv, opening>>

Next ==
    \E p \in GamePorts : \/ \E wanted \in CustomGotv \cup {0} : Deploy(p, wanted)
                         \/ OpenRules(p) \/ RemoveFiles(p) \/ CloseRules(p)

Spec == Init /\ [][Next]_vars

-----------------------------------------------------------------------------
(* Properties                                                              *)

\* Every variable keeps its type; no instance has a GOTV port out of range.
TypeOK ==
    /\ inst \subseteq GamePorts /\ opening \subseteq GamePorts /\ closing \subseteq GamePorts
    /\ gotv \in [GamePorts -> Nat]
    /\ allowed \subseteq Valid
    /\ \A p \in inst \cup opening : gotv[p] \in Valid

\* "Ensure firewall ports are open for this instance": the removal of another
\* instance closes no port of one that is deployed.
OpenWhileDeployed == \A p \in inst \ opening : p \in allowed /\ gotv[p] \in allowed

\* Every open port belongs to an instance, or to one whose rules are about to be
\* closed: nothing is left open behind a removal.
NoRuleLeft ==
    \A a \in allowed : \/ \E p \in inst : a \in {p, gotv[p]}
                       \/ \E p \in closing : a \in {p, DefaultGotv(p)}

\* "Derive a unique steamport from the game port": no two instances use the same
\* port of the host, whatever the one uses it for.
Sockets(p) == {p, gotv[p], SteamPort(p)}
NoClash == \A p, q \in inst : p # q => Sockets(p) \cap Sockets(q) = {}

\* Game ports for which the code's arithmetic is safe: no two are 5, 10 or 15 apart.
Apart == \A p, q \in GamePorts : q - p \notin {5, 10, 15}
=============================================================================
