----------------------------- MODULE Instances -----------------------------
(***************************************************************************)
(* What the commands promise about the instances: the container and the    *)
(* files of an instance change only through a command that concerns it,    *)
(* until that command ends or the agent is restarted.                      *)
(***************************************************************************)
CONSTANTS Ports, Goroutines

VARIABLES
    container, data,   \* container[p], data[p]: what instance p has
    busy               \* busy[g]: the instances that concern the command of g

Init == busy = [g \in Goroutines |-> {}]

\* g takes up a command.
Begin(g) ==
    /\ busy[g] = {}
    /\ \E ps \in SUBSET Ports : busy' = [busy EXCEPT ![g] = ps]
    /\ UNCHANGED <<container, data>>

\* A step of the command, which may be its last, or its last for some instance.
Work(g) ==
    /\ \A p \in Ports \ busy[g] : container'[p] = container[p] /\ data'[p] = data[p]
    /\ \E ps \in SUBSET busy[g] : busy' = [busy EXCEPT ![g] = ps]

\* Everything that is under way is forgotten.
Restart ==
    /\ busy' = [g \in Goroutines |-> {}]
    /\ UNCHANGED <<container, data>>

Next == (\E g \in Goroutines : Begin(g) \/ Work(g)) \/ Restart

Spec == Init /\ [][Next]_<<container, data, busy>>
=============================================================================
