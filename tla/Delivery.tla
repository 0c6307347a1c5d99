------------------------------ MODULE Delivery ------------------------------
(***************************************************************************)
(* What the agent's outbound path promises, without connections, threads   *)
(* or timers: a command that was accepted is answered at most once, the    *)
(* answers and heartbeats that wait are handed to the network in the order *)
(* in which they were accepted, a message is refused only when Cap others  *)
(* already wait, and only the message at the head can be lost.             *)
(* It promises no more than that: nothing is ever retried.                 *)
(***************************************************************************)
EXTENDS Naturals, Sequences

CONSTANTS Jobs,   \* the commands
          Beat,   \* a heartbeat
          Cap     \* how many messages may wait before one is refused

VARIABLES job,    \* job[c]: how far command c has come
          outbox  \* the messages accepted and neither sent nor lost, oldest first

vars == <<job, outbox>>

Init == /\ job = [c \in Jobs |-> "idle"]
        /\ outbox = <<>>

\* The command arrives and its handler starts.
Accept(c) == /\ job[c] = "idle"
             /\ job' = [job EXCEPT ![c] = "running"]
             /\ UNCHANGED outbox

\* The handler ends and its answer joins the messages that wait.
Answer(c) == /\ job[c] = "running"
             /\ Len(outbox) <= Cap
             /\ job' = [job EXCEPT ![c] = "queued"]
             /\ outbox' = Append(outbox, c)

\* The handler ends while Cap messages wait: its answer is discarded.
Refuse(c) == /\ job[c] = "running"
             /\ Len(outbox) >= Cap
             /\ job' = [job EXCEPT ![c] = "dropped"]
             /\ UNCHANGED outbox

Heartbeat == /\ Len(outbox) <= Cap
             /\ outbox' = Append(outbox, Beat)
             /\ UNCHANGED job

\* The oldest message leaves: it is handed to the network, or it is lost.
Leave(fate) == /\ outbox # <<>>
               /\ outbox' = Tail(outbox)
               /\ job' = IF Head(outbox) = Beat THEN job
                         ELSE [job EXCEPT ![Head(outbox)] = fate]

Next == \/ \E c \in Jobs : Accept(c) \/ Answer(c) \/ Refuse(c)
        \/ Heartbeat
        \/ \E fate \in {"written", "lost"} : Leave(fate)

Spec == Init /\ [][Next]_vars
=============================================================================
