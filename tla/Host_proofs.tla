----------------------------- MODULE Host_proofs -----------------------------
(***************************************************************************)
(* What holds of the commands for any number of instances, commands at a   *)
(* time and restarts: types, and that commands leave the instances alone   *)
(* that do not concern them, and come to an end.  Without restarts, that   *)
(* update_base pays back.  As long as no command removes what another has  *)
(* checked, that markers and deploys can be trusted.                       *)
(***************************************************************************)
EXTENDS Host, FiniteSetTheorems, TLAPS

SyncPcs == {"sync", "wipe", "copy", "verify", "mark"}

\* Where each kind of command can be ...
OpAt(op, pc) ==
    /\ pc = "idle" <=> op = "none"
    /\ pc \in {"check", "down", "unmark", "configure"} => op = "deploy"
    /\ pc \in {"remove", "rmdir"} => op = "remove"
    /\ pc = "stop" => op \in {"stop", "update", "reinstall"}
    /\ pc = "restart" => op = "restart"
    /\ pc = "wipebase" => op = "reinstall"
    /\ pc = "download" => op \in {"deploy", "update", "reinstall", "setup", "validate"}
    /\ pc = "next" => op \in {"update", "reinstall"}
    /\ pc \in SyncPcs \cup {"up"} => op \in {"deploy", "update", "reinstall"}

\* ... and which instances it then works on.
PortsAt(j) ==
    /\ j.op \in {"deploy", "stop", "remove"} => j.port \in Ports
    /\ j.op = "stop" => j.todo \subseteq {j.port}
    /\ j.op \in {"update", "reinstall"} => j.todo \subseteq j.ports /\ j.ports \cap j.skip = {}
    /\ j.pc \in SyncPcs /\ j.op # "deploy" => j.port \in j.ports

Shape(j) == OpAt(j.op, j.pc) /\ PortsAt(j)

Trees ==
    /\ base \subseteq Parts
    /\ data \in [Ports -> SUBSET Parts] /\ marker \in [Ports -> BOOLEAN]
    /\ dir \subseteq Ports /\ compose \subseteq dir
    /\ container \in [Ports -> {"none", "up", "stopped"}]
    /\ restarts \in 0..Restarts
    /\ owed \in [Ports -> {"none", "update", "reinstall"}] /\ onMarked \in [Ports -> BOOLEAN]

JobsInv == job \in [Goroutines -> Jobs] /\ \A g \in Goroutines : Shape(job[g])

\* j is one step of its command further as k: the command has ended, or goes on
\* with what it was sent for.
Onward(j, k) ==
    \/ k = Idle
    \/ /\ k.op = j.op /\ k.ports = j.ports /\ k.skip = j.skip
       /\ j.op \in {"deploy", "stop", "remove"} => k.port = j.port
       /\ j.op = "restart" => k.todo \subseteq j.todo

\* g's job becomes j, and the others stay.
Becomes(g, j) ==
    /\ j \in Jobs /\ Shape(j)
    /\ job' = [job EXCEPT ![g] = j]

Moved(g) == \E j : Becomes(g, j) /\ Onward(job[g], j)

\* A job that becomes one of the right shape, further on, has moved.
LEMMA MovesTo ==
    ASSUME NEW g \in Goroutines, NEW j \in Jobs, Shape(j), Onward(job[g], j),
           job' = [job EXCEPT ![g] = j]
    PROVE  Moved(g)
  BY DEF Moved, Becomes

\* What may be said of a job that goes to pc and changes nothing else but its try
\* and what it has left to do.
LEMMA GoesTo ==
    ASSUME JobsInv, NEW g \in Goroutines, NEW pc, NEW try, NEW left,
           job' = [job EXCEPT ![g] = [job[g] EXCEPT !.pc = pc, !.try = try, !.left = left]],
           [job[g] EXCEPT !.pc = pc, !.try = try, !.left = left] \in Jobs,
           OpAt(job[g].op, pc),
           pc \in SyncPcs => job[g].op = "deploy" \/ job[g].port \in job[g].ports
    PROVE  Moved(g)
<1> DEFINE j == [job[g] EXCEPT !.pc = pc, !.try = try, !.left = left]
<1>1. job[g] \in Jobs /\ PortsAt(job[g])
  BY DEF JobsInv, Shape
<1>2. /\ j.op = job[g].op /\ j.pc = pc /\ j.port = job[g].port /\ j.todo = job[g].todo
      /\ j.ports = job[g].ports /\ j.skip = job[g].skip
  BY <1>1 DEF Jobs
<1>3. PortsAt(j) /\ Onward(job[g], j)
  BY <1>1, <1>2 DEF PortsAt, Onward
<1> HIDE DEF j
<1> QED
  BY <1>2, <1>3, MovesTo DEF Shape, j

\* A command that returns leaves its goroutine idle.
LEMMA IdleMoves ==
    ASSUME JobsInv, NEW g \in Goroutines, Return(g)
    PROVE  Moved(g)
<1>1. Idle \in Jobs
  BY DEF Idle, Jobs, Parts
<1>2. Shape(Idle)
  BY DEF Idle, Shape, OpAt, PortsAt, SyncPcs
<1> QED
  BY <1>1, <1>2, MovesTo DEF Return, Onward

\* A command goes to another place and keeps the rest.
LEMMA GotoMoves ==
    ASSUME JobsInv, NEW g \in Goroutines, NEW pc, Goto(g, pc),
           pc \in {"check", "download", "down", "unmark", "sync", "wipe", "copy", "verify",
           "mark", "configure", "up", "stop", "remove", "rmdir", "restart", "wipebase", "next"},
           OpAt(job[g].op, pc),
           pc \in SyncPcs => job[g].op = "deploy" \/ job[g].port \in job[g].ports
    PROVE  Moved(g)
<1>1. job[g] \in Jobs
  BY DEF JobsInv
<1> DEFINE j == [job[g] EXCEPT !.pc = pc, !.try = job[g].try, !.left = job[g].left]
<1>2. j \in Jobs
  BY <1>1 DEF Jobs
<1>3. job' = [job EXCEPT ![g] = j]
  BY <1>1 DEF Goto, JobsInv, Jobs
<1> QED
  BY <1>2, <1>3, GoesTo

\* A sync ends, well or not.
LEMMA SyncEndsMoves ==
    ASSUME JobsInv, NEW g \in Goroutines, job[g].pc \in SyncPcs, NEW ok \in BOOLEAN,
           SyncEnds(g, ok)
    PROVE  Moved(g)
<1>1. OpAt(job[g].op, job[g].pc)
  BY DEF JobsInv, Shape
<1>2. job[g].op \in {"deploy", "update", "reinstall"}
  BY <1>1 DEF OpAt, SyncPcs
<1>3. CASE Goto(g, "next") /\ job[g].op # "deploy"
  BY <1>2, <1>3, GotoMoves DEF OpAt, SyncPcs
<1>4. CASE Goto(g, "configure") /\ job[g].op = "deploy"
  BY <1>4, GotoMoves DEF OpAt, SyncPcs
<1> QED
  BY <1>3, <1>4, IdleMoves DEF SyncEnds

\* What a loop has left to do gets smaller.
LEMMA TodoMoves ==
    ASSUME JobsInv, NEW g \in Goroutines, NEW p \in job[g].todo,
           job' = [job EXCEPT ![g].todo = @ \ {p}]
    PROVE  Moved(g)
<1> DEFINE j == [job[g] EXCEPT !.todo = @ \ {p}]
<1>1. job[g] \in Jobs /\ OpAt(job[g].op, job[g].pc) /\ PortsAt(job[g])
  BY DEF JobsInv, Shape
<1>2. j \in Jobs /\ job' = [job EXCEPT ![g] = j]
  BY <1>1 DEF Jobs
<1>3. /\ j.op = job[g].op /\ j.pc = job[g].pc /\ j.port = job[g].port
      /\ j.ports = job[g].ports /\ j.skip = job[g].skip /\ j.todo = job[g].todo \ {p}
  BY <1>1 DEF Jobs
<1>4. PortsAt(j) /\ Onward(job[g], j)
  BY <1>1, <1>3 DEF PortsAt, Onward
<1> HIDE DEF j
<1> QED
  BY <1>1, <1>2, <1>3, <1>4, MovesTo DEF Shape

\* A loop begins, or begins again, with all the ports of the command.
LEMMA LoopMoves ==
    ASSUME JobsInv, NEW g \in Goroutines, NEW pc \in {"next", "up"},
           job[g].op \in {"update", "reinstall"},
           job' = [job EXCEPT ![g].pc = pc, ![g].todo = job[g].ports]
    PROVE  Moved(g)
<1> DEFINE j == [job[g] EXCEPT !.pc = pc, !.todo = job[g].ports]
<1>1. job[g] \in Jobs /\ PortsAt(job[g])
  BY DEF JobsInv, Shape
<1>2. j \in Jobs /\ job' = [job EXCEPT ![g] = j]
  BY <1>1 DEF Jobs
<1>3. /\ j.op = job[g].op /\ j.pc = pc /\ j.port = job[g].port
      /\ j.ports = job[g].ports /\ j.skip = job[g].skip /\ j.todo = job[g].ports
  BY <1>1 DEF Jobs
<1>4. OpAt(j.op, j.pc) /\ PortsAt(j) /\ Onward(job[g], j)
  BY <1>1, <1>3 DEF OpAt, PortsAt, SyncPcs, Onward
<1> HIDE DEF j
<1> QED
  BY <1>2, <1>4, MovesTo DEF Shape

\* Each step of a command moves its job onward and leaves the other jobs alone.
LEMMA ProgressMoves ==
    ASSUME Trees, JobsInv, NEW g \in Goroutines, Progress(g)
    PROVE  Moved(g)
<1>1. job[g] \in Jobs /\ OpAt(job[g].op, job[g].pc) /\ PortsAt(job[g])
  BY DEF JobsInv, Shape
<1> DEFINE op == job[g].op
           pc == job[g].pc
<1>2. job[g].todo \subseteq Ports /\ job[g].left \subseteq Parts
  BY <1>1 DEF Jobs
<1>3. CASE StopNext(g) \/ RestartNext(g) \/ UpNext(g)
  BY <1>3, TodoMoves DEF StopNext, RestartNext, UpNext
<1>4. CASE LoopDone(g) \/ DeployUp(g) \/ RemoveDirEnd(g)
  BY <1>4, IdleMoves DEF LoopDone, DeployUp, RemoveDirEnd
<1>5. CASE StopDone(g)
  <2>1. op \in {"stop", "update", "reinstall"}
    BY <1>1, <1>5 DEF StopDone, At, OpAt
  <2>2. CASE op = "stop"
    BY <1>5, <2>2, IdleMoves DEF StopDone
  <2>3. CASE op = "update"
    BY <1>5, <2>3, GotoMoves DEF StopDone, OpAt, SyncPcs
  <2>4. CASE op = "reinstall"
    <3> DEFINE j == [job[g] EXCEPT !.pc = "wipebase", !.try = job[g].try, !.left = base]
    <3>1. job' = [job EXCEPT ![g] = j]
      BY <1>1, <1>5, <2>4 DEF StopDone, JobsInv, Jobs
    <3>2. j \in Jobs
      BY <1>1 DEF Jobs, Trees
    <3>3. OpAt(op, "wipebase")
      BY <2>4 DEF OpAt, SyncPcs
    <3> QED
      BY <3>1, <3>2, <3>3, GoesTo DEF SyncPcs
  <2> QED
    BY <2>1, <2>2, <2>3, <2>4
<1>6. CASE DownloadOk(g)
  <2>1. op \in {"deploy", "update", "reinstall", "setup", "validate"}
    BY <1>1, <1>6 DEF DownloadOk, At, OpAt
  <2>2. CASE op = "deploy"
    BY <1>6, <2>2, GotoMoves DEF DownloadOk, OpAt, SyncPcs
  <2>3. CASE op \in {"update", "reinstall"}
    BY <1>6, <2>3, LoopMoves DEF DownloadOk
  <2>4. CASE op \in {"setup", "validate"}
    BY <1>6, <2>4, IdleMoves DEF DownloadOk
  <2> QED
    BY <2>1, <2>2, <2>3, <2>4
<1>7. CASE DownloadFail(g)
  BY <1>7, IdleMoves, LoopMoves DEF DownloadFail
<1>8. CASE WipeBaseStep(g)
  <2>1. PICK x \in job[g].left : job' = [job EXCEPT ![g].left = @ \ {x}]
    BY <1>8 DEF WipeBaseStep
  <2> DEFINE j == [job[g] EXCEPT !.pc = pc, !.try = job[g].try, !.left = job[g].left \ {x}]
  <2>2. job' = [job EXCEPT ![g] = j]
    BY <1>1, <2>1 DEF JobsInv, Jobs
  <2>3. j \in Jobs
    BY <1>1 DEF Jobs
  <2>4. pc \notin SyncPcs
    BY <1>8 DEF WipeBaseStep, At, SyncPcs
  <2> QED
    BY <1>1, <2>2, <2>3, <2>4, GoesTo
<1>9. CASE WipeBaseEnd(g)
  <2>1. op = "reinstall"
    BY <1>1, <1>9 DEF WipeBaseEnd, At, OpAt
  <2> QED
    BY <1>9, <2>1, IdleMoves, GotoMoves DEF WipeBaseEnd, OpAt, SyncPcs
<1>10. CASE Check(g) \/ Down(g) \/ Unmark(g) \/ Configure(g)
  <2>1. op = "deploy"
    BY <1>1, <1>10 DEF Check, Down, Unmark, Configure, At, OpAt
  <2>2. \/ Return(g)
        \/ \E to \in {"down", "download", "unmark", "sync", "up"} : Goto(g, to)
    BY <1>10 DEF Check, Down, Unmark, Configure
  <2> QED
    BY <2>1, <2>2, IdleMoves, GotoMoves DEF OpAt, SyncPcs
<1>11. CASE RemoveDown(g)
  <2>1. op = "remove"
    BY <1>1, <1>11 DEF RemoveDown, At, OpAt
  <2> QED
    BY <1>11, <2>1, IdleMoves, GotoMoves DEF RemoveDown, OpAt, SyncPcs
<1>12. CASE SyncNext(g)
  <2>1. op \in {"update", "reinstall"}
    BY <1>1, <1>12 DEF SyncNext, At, OpAt
  <2>2. PICK p \in job[g].todo, to \in {"sync", "wipe"}, try \in {"link", "pre"} :
           job' = [job EXCEPT ![g].pc = to, ![g].todo = @ \ {p}, ![g].port = p, ![g].try = try]
    BY <1>12 DEF SyncNext
  <2> DEFINE j == [job[g] EXCEPT !.pc = to, !.todo = @ \ {p}, !.port = p, !.try = try]
  <2>3. job' = [job EXCEPT ![g] = j]
    BY <2>2
  <2>4. j \in Jobs
    BY <1>1, <1>2, <2>2 DEF Jobs
  <2>5. /\ j.op = op /\ j.pc = to /\ j.port = p /\ j.todo = job[g].todo \ {p}
        /\ j.ports = job[g].ports /\ j.skip = job[g].skip
    BY <1>1 DEF Jobs
  <2>6. OpAt(j.op, j.pc) /\ PortsAt(j) /\ Onward(job[g], j)
    BY <1>1, <2>1, <2>5 DEF OpAt, PortsAt, SyncPcs, Onward
  <2> HIDE DEF j
  <2> QED
    BY <2>3, <2>4, <2>6, MovesTo DEF Shape
<1>13. CASE SyncsDone(g)
  <2>1. op \in {"update", "reinstall"}
    BY <1>1, <1>13 DEF SyncsDone, At, OpAt
  <2> QED
    BY <1>13, <2>1, LoopMoves DEF SyncsDone
<1>14. CASE RemoveStep(g)
  <2>1. job' = [job EXCEPT ![g] = job[g]]
    BY <1>14 DEF RemoveStep, JobsInv
  <2> QED
    BY <1>1, <2>1, MovesTo DEF Shape, Onward
<1>15. CASE SyncCheck(g) \/ WipeEnd(g) \/ CopyStep(g) \/ CopyOk(g) \/ CopyFail(g) \/ Verify(g) \/ Mark(g)
  <2>1. pc \in SyncPcs
    BY <1>15 DEF SyncCheck, WipeEnd, CopyStep, CopyOk, CopyFail, Verify, Mark, At, SyncPcs
  <2>2. op \in {"deploy", "update", "reinstall"} /\ (op = "deploy" \/ job[g].port \in job[g].ports)
    BY <1>1, <2>1 DEF OpAt, PortsAt
  <2>3. \A to \in SyncPcs : OpAt(op, to)
    BY <2>2 DEF OpAt, SyncPcs
  <2>4. ASSUME NEW to \in SyncPcs, NEW try \in {"pre", "link", "relink", "deep"},
               NEW left \in SUBSET Parts,
               job' = [job EXCEPT ![g] = [job[g] EXCEPT !.pc = to, !.try = try, !.left = left]]
        PROVE  Moved(g)
    <3>1. [job[g] EXCEPT !.pc = to, !.try = try, !.left = left] \in Jobs
      BY <1>1 DEF Jobs, SyncPcs
    <3> QED
      BY <2>2, <2>3, <2>4, <3>1, GoesTo
  <2>5. CASE \E ok \in BOOLEAN : SyncEnds(g, ok)
    BY <2>1, <2>5, SyncEndsMoves
  <2>6. CASE \E to \in SyncPcs : Goto(g, to)
    BY <2>2, <2>3, <2>6, GotoMoves DEF SyncPcs
  <2>7. CASE job' = [job EXCEPT ![g].pc = "wipe", ![g].try = "link"]
    <3>1. job' = [job EXCEPT ![g] = [job[g] EXCEPT !.pc = "wipe", !.try = "link", !.left = job[g].left]]
      BY <1>1, <2>7 DEF JobsInv, Jobs
    <3> QED
      BY <1>2, <2>4, <3>1 DEF SyncPcs
  <2>8. CASE job' = [job EXCEPT ![g].pc = "wipe", ![g].try = "relink"]
    <3>1. job' = [job EXCEPT ![g] = [job[g] EXCEPT !.pc = "wipe", !.try = "relink", !.left = job[g].left]]
      BY <1>1, <2>8 DEF JobsInv, Jobs
    <3> QED
      BY <1>2, <2>4, <3>1 DEF SyncPcs
  <2>9. CASE job' = [job EXCEPT ![g].pc = "copy", ![g].left = Parts]
    <3>1. job' = [job EXCEPT ![g] = [job[g] EXCEPT !.pc = "copy", !.try = job[g].try, !.left = Parts]]
      BY <1>1, <2>9 DEF JobsInv, Jobs
    <3>2. job[g].try \in {"pre", "link", "relink", "deep"}
      BY <1>1 DEF Jobs
    <3> QED
      BY <2>4, <3>1, <3>2 DEF SyncPcs
  <2>10. CASE job' = [job EXCEPT ![g].try = "deep", ![g].left = Parts]
    <3>1. job' = [job EXCEPT ![g] = [job[g] EXCEPT !.pc = pc, !.try = "deep", !.left = Parts]]
      BY <1>1, <2>10 DEF JobsInv, Jobs
    <3> QED
      BY <2>1, <2>4, <3>1
  <2>11. CASE \E x : job' = [job EXCEPT ![g].left = @ \ {x}]
    <3>1. PICK x : job' = [job EXCEPT ![g].left = @ \ {x}]
      BY <2>11
    <3> DEFINE left == job[g].left \ {x}
               try  == job[g].try
    <3>2. job' = [job EXCEPT ![g] = [job[g] EXCEPT !.pc = pc, !.try = try, !.left = left]]
      BY <1>1, <3>1 DEF JobsInv, Jobs
    <3>3. try \in {"pre", "link", "relink", "deep"} /\ left \in SUBSET Parts
      BY <1>1 DEF Jobs
    <3> HIDE DEF left, try
    <3> QED
      BY <2>1, <2>4, <3>2, <3>3
  <2>12. CASE SyncCheck(g)
    BY <2>5, <2>7, <2>12 DEF SyncCheck
  <2>13. CASE WipeEnd(g)
    BY <2>5, <2>6, <2>9, <2>13 DEF WipeEnd, SyncPcs
  <2>14. CASE CopyStep(g)
    BY <2>11, <2>14 DEF CopyStep
  <2>15. CASE CopyOk(g) \/ Verify(g)
    BY <2>5, <2>6, <2>15 DEF CopyOk, Verify, SyncPcs
  <2>16. CASE CopyFail(g)
    BY <2>5, <2>8, <2>10, <2>16 DEF CopyFail
  <2>17. CASE Mark(g)
    BY <2>5, <2>17 DEF Mark
  <2> QED
    BY <1>15, <2>12, <2>13, <2>14, <2>15, <2>16, <2>17
<1> QED
  BY <1>3, <1>4, <1>5, <1>6, <1>7, <1>8, <1>9, <1>10, <1>11, <1>12, <1>13, <1>14, <1>15 DEF Progress

\* Each step of a command keeps the types of trees, containers and histories.
LEMMA ProgressTrees ==
    ASSUME Trees, JobsInv, NEW g \in Goroutines, Progress(g)
    PROVE  Trees'
<1> USE DEF JobsInv, Jobs, Shape, OpAt, PortsAt, SyncPcs, Trees, At, files
<1>1. CASE StopNext(g)
  <2>1. PICK p \in job[g].todo : ComposeStop(p, job[g].op)
    BY <1>1 DEF StopNext
  <2>2. job[g].op \in {"stop", "update", "reinstall"}
    BY <1>1 DEF StopNext
  <2>3. /\ container' \in [Ports -> {"none", "up", "stopped"}]
        /\ owed' \in [Ports -> {"none", "update", "reinstall"}] /\ onMarked' = onMarked
    BY <2>1, <2>2 DEF ComposeStop, Stopped
  <2> QED
    BY <1>1, <2>3 DEF StopNext
<1>2. CASE StopDone(g)
  BY <1>2 DEF StopDone
<1>3. CASE RestartNext(g)
  <2>1. PICK p \in job[g].todo : ComposeRestart(p)
    BY <1>3 DEF RestartNext
  <2>2. /\ container' \in [Ports -> {"none", "up", "stopped"}]
        /\ owed' \in [Ports -> {"none", "update", "reinstall"}]
        /\ onMarked' \in [Ports -> BOOLEAN]
    BY <2>1 DEF ComposeRestart, StartOrFail
  <2> QED
    BY <1>3, <2>2 DEF RestartNext
<1>4. CASE UpNext(g)
  <2>1. PICK p \in job[g].todo : ComposeUp(p)
    BY <1>4 DEF UpNext
  <2>2. /\ container' \in [Ports -> {"none", "up", "stopped"}]
        /\ owed' \in [Ports -> {"none", "update", "reinstall"}]
        /\ onMarked' \in [Ports -> BOOLEAN]
    BY <2>1 DEF ComposeUp, StartOrFail
  <2> QED
    BY <1>4, <2>2 DEF UpNext
<1>5. CASE LoopDone(g)
  BY <1>5 DEF LoopDone
<1>6. CASE DownloadOk(g)
  BY <1>6 DEF DownloadOk
<1>7. CASE DownloadFail(g)
  BY <1>7 DEF DownloadFail
<1>8. CASE WipeBaseStep(g)
  BY <1>8 DEF WipeBaseStep
<1>9. CASE WipeBaseEnd(g)
  BY <1>9 DEF WipeBaseEnd
<1>10. CASE Check(g)
  BY <1>10 DEF Check
<1>11. CASE Down(g)
  BY <1>11 DEF Down, Stopped
<1>12. CASE Unmark(g)
  BY <1>12 DEF Unmark, Unmarks
<1>13. CASE Configure(g)
  BY <1>13 DEF Configure
<1>14. CASE DeployUp(g)
  BY <1>14 DEF DeployUp, ComposeRecreate, StartOrFail
<1>15. CASE RemoveDown(g)
  BY <1>15 DEF RemoveDown, Stopped
<1>16. CASE RemoveDirEnd(g)
  BY <1>16 DEF RemoveDirEnd
<1>17. CASE SyncNext(g)
  BY <1>17 DEF SyncNext, Unmarks
<1>18. CASE SyncsDone(g)
  BY <1>18 DEF SyncsDone, Unmarks
<1>19. CASE SyncCheck(g)
  BY <1>19 DEF SyncCheck
<1>20. CASE RemoveStep(g)
  <2>1. marker' \in [Ports -> BOOLEAN] /\ compose' \subseteq compose
    BY <1>20 DEF RemoveStep
  <2>2. data' \in [Ports -> SUBSET Parts]
    <3>1. data' = data \/ \E x \in Parts : data' = [data EXCEPT ![job[g].port] = @ \ {x}]
      BY <1>20 DEF RemoveStep
    <3> QED
      BY <3>1
  <2> QED
    BY <1>20, <2>1, <2>2 DEF RemoveStep
<1>21. CASE WipeEnd(g)
  BY <1>21 DEF WipeEnd
<1>22. CASE CopyStep(g)
  BY <1>22 DEF CopyStep
<1>23. CASE CopyOk(g)
  BY <1>23 DEF CopyOk
<1>24. CASE CopyFail(g)
  BY <1>24 DEF CopyFail
<1>25. CASE Verify(g)
  BY <1>25 DEF Verify
<1>26. CASE Mark(g)
  BY <1>26 DEF Mark
<1> QED
  BY <1>1, <1>2, <1>3, <1>4, <1>5, <1>6, <1>7, <1>8, <1>9, <1>10, <1>11, <1>12, <1>13,
     <1>14, <1>15, <1>16, <1>17, <1>18, <1>19, <1>20, <1>21, <1>22, <1>23, <1>24, <1>25, <1>26 DEF Progress
-----------------------------------------------------------------------------
(* Every step                                                              *)

\* A command is taken up by a goroutine that has none, and changes nothing else.
Began(g) ==
    /\ job[g].op = "none" /\ \E j : Becomes(g, j)
    /\ UNCHANGED <<files, container, restarts, owed, onMarked>>

\* TakeUp, for each command with the fields that it is given.
LEMMA TakesUp ==
    ASSUME Trees, JobsInv, NEW g \in Goroutines, NEW op, NEW p \in Ports \cup {"none"},
           NEW ports \in SUBSET Ports, NEW skip \in SUBSET Ports,
           NEW pc \in {"check", "stop", "remove", "restart", "download"},
           TakeUp(g, op, p, ports, skip, pc),
           op # "none", OpAt(op, pc), ports \cap skip = {},
           op \in {"deploy", "stop", "remove"} => p \in Ports,
           op = "stop" => ports = {p}
    PROVE  Began(g)
<1> DEFINE j == [Idle EXCEPT !.op = op, !.pc = pc, !.port = p,
                             !.todo = ports, !.ports = ports, !.skip = skip]
<1>1. /\ j.op = op /\ j.pc = pc /\ j.port = p
      /\ j.todo = ports /\ j.ports = ports /\ j.skip = skip
  BY DEF Idle
<1>2. j \in Jobs
  BY DEF TakeUp, Idle, Jobs, Parts
<1>3. Shape(j)
  <2>1. pc \notin SyncPcs
    BY DEF SyncPcs
  <2> HIDE DEF j
  <2> QED
    BY <1>1, <2>1 DEF Shape, PortsAt
<1>4. job[g].op = "none"
  BY DEF TakeUp, At, JobsInv, Shape, OpAt
<1> QED
  BY <1>2, <1>3, <1>4 DEF Began, Becomes, TakeUp

\* HandleCommand: a command begins, whichever it is.
LEMMA CommandBegins ==
    ASSUME Trees, JobsInv, NEW g \in Goroutines, HandleCommand(g)
    PROVE  Began(g)
<1>1. /\ OpAt("deploy", "check") /\ OpAt("stop", "stop") /\ OpAt("remove", "remove")
      /\ OpAt("restart", "restart") /\ OpAt("update", "stop") /\ OpAt("reinstall", "stop")
      /\ OpAt("setup", "download") /\ OpAt("validate", "download")
  BY DEF OpAt, SyncPcs
<1>2. {} \in SUBSET Ports /\ dir \in SUBSET Ports /\ \A ps : ps \cap {} = {}
  BY DEF Trees
<1>3. CASE StartDeploy(g)
  BY <1>1, <1>3, TakesUp DEF StartDeploy
<1>4. CASE StartStop(g)
  <2>1. PICK p \in Ports : TakeUp(g, "stop", p, {p}, {}, "stop")
    BY <1>4 DEF StartStop
  <2> QED
    BY <1>1, <2>1, TakesUp
<1>5. CASE StartRemove(g)
  BY <1>1, <1>5, TakesUp DEF StartRemove
<1>6. CASE StartRestart(g)
  <2>1. PICK ps \in SUBSET Ports : TakeUp(g, "restart", "none", ps, {}, "restart")
    BY <1>6 DEF StartRestart
  <2> QED
    BY <1>1, <1>2, <2>1, TakesUp
<1>7. CASE StartUpdate(g)
  <2>1. PICK skip \in SUBSET Ports : TakeUp(g, "update", "none", dir \ skip, skip, "stop")
    BY <1>7 DEF StartUpdate
  <2> DEFINE ports == dir \ skip
  <2>2. ports \in SUBSET Ports /\ ports \cap skip = {}
    BY <1>2
  <2> HIDE DEF ports
  <2> QED
    BY <1>1, <2>1, <2>2, TakesUp DEF ports
<1>8. CASE StartReinstall(g)
  <2>1. TakeUp(g, "reinstall", "none", dir, {}, "stop")
    BY <1>8 DEF StartReinstall
  <2> QED
    BY <1>1, <1>2, <2>1, TakesUp
<1>9. CASE StartSetup(g)
  <2>1. TakeUp(g, "setup", "none", {}, {}, "download")
    BY <1>9 DEF StartSetup
  <2> QED
    BY <1>1, <1>2, <2>1, TakesUp
<1>10. CASE StartValidate(g)
  <2>1. TakeUp(g, "validate", "none", {}, {}, "download")
    BY <1>10 DEF StartValidate
  <2> QED
    BY <1>1, <1>2, <2>1, TakesUp
<1> QED
  BY <1>3, <1>4, <1>5, <1>6, <1>7, <1>8, <1>9, <1>10 DEF HandleCommand

Inv == Trees /\ JobsInv

\* Becomes keeps what is said of the jobs.
LEMMA BecomesKeeps ==
    ASSUME JobsInv, NEW g \in Goroutines, NEW j, Becomes(g, j)
    PROVE  JobsInv'
  BY DEF JobsInv, Becomes

\* After a restart every job is idle.
LEMMA IdleJobs ==
    ASSUME job' = [g \in Goroutines |-> Idle]
    PROVE  JobsInv'
<1>1. Idle \in Jobs
  BY DEF Idle, Jobs, Parts
<1>2. Shape(Idle)
  BY DEF Idle, Shape, OpAt, PortsAt, SyncPcs
<1> QED
  BY <1>1, <1>2 DEF JobsInv

\* Types and shapes survive every step.
LEMMA InvNext == Inv /\ [Next]_vars => Inv'
<1> SUFFICES ASSUME Inv, [Next]_vars PROVE Inv'
  OBVIOUS
<1> USE DEF Inv
<1>1. CASE \E g \in Goroutines : HandleCommand(g)
  <2>1. PICK g \in Goroutines : HandleCommand(g)
    BY <1>1
  <2>2. Began(g)
    BY <2>1, CommandBegins
  <2> QED
    BY <2>2, BecomesKeeps DEF Began, Trees, files
<1>2. CASE \E g \in Goroutines : Progress(g)
  BY <1>2, ProgressMoves, ProgressTrees, BecomesKeeps DEF Moved
<1>3. CASE \E g \in Goroutines : DownloadStep(g)
  BY <1>3 DEF DownloadStep, Trees, JobsInv
<1>4. CASE AgentRestart
  BY <1>4, IdleJobs, HostAssumption DEF AgentRestart, Trees, files
<1>5. CASE UNCHANGED vars
  BY <1>5 DEF vars, Trees, JobsInv
<1> QED
  BY <1>1, <1>2, <1>3, <1>4, <1>5 DEF Next

\* Types and shapes hold at first.
LEMMA InvInit == Init => Inv
<1> SUFFICES ASSUME Init PROVE Inv
  OBVIOUS
<1>1. Idle \in Jobs
  BY DEF Idle, Jobs, Parts
<1>2. Shape(Idle)
  BY DEF Idle, Shape, OpAt, PortsAt, SyncPcs
<1> QED
  BY <1>1, <1>2, HostAssumption DEF Init, Inv, Trees, JobsInv, Parts

\* The jobs keep their shape.
THEOREM JobInvariant == Spec => []Inv
  BY InvInit, InvNext, PTL DEF Spec

\* Every variable keeps its type, and docker-compose.yml is only where its
\* directory is, for any number of instances, commands at a time and restarts:
\* TakeUp, the loops, the sync and the removal of handler.go.
THEOREM TypeCorrect == Spec => []TypeOK
<1>1. Inv => TypeOK
  BY DEF Inv, Trees, JobsInv, TypeOK
<1> QED
  BY <1>1, JobInvariant, PTL

-----------------------------------------------------------------------------
(* The instances that do not concern a command                             *)

\* Progress changes the container and the copy of nobody else.
LEMMA OthersKept ==
    ASSUME Inv, NEW g \in Goroutines, Progress(g), NEW p \in Ports \ Concerned(g)
    PROVE  container'[p] = container[p] /\ data'[p] = data[p]
<1>1. job[g] \in Jobs /\ OpAt(job[g].op, job[g].pc) /\ PortsAt(job[g])
  BY DEF Inv, JobsInv, Shape
<1>2. data \in [Ports -> SUBSET Parts] /\ container \in [Ports -> {"none", "up", "stopped"}]
  BY DEF Inv, Trees
<1>3. job[g].op \in {"deploy", "stop", "remove"} => p # job[g].port
  BY DEF Concerned
<1>4. job[g].op = "restart" => p \notin job[g].todo
  BY DEF Concerned
<1>5. job[g].op = "update" => p \notin job[g].ports
  BY <1>1 DEF Concerned, PortsAt
<1>6. job[g].op # "reinstall"
  BY DEF Concerned
<1>7. CASE StopNext(g) \/ RestartNext(g) \/ UpNext(g)
  <2>1. PICK q \in job[g].todo : \/ ComposeStop(q, job[g].op) \/ ComposeRestart(q)
                                 \/ ComposeUp(q)
    BY <1>7 DEF StopNext, RestartNext, UpNext
  <2>2. job[g].op \in {"stop", "restart", "update"}
    BY <1>1, <1>6, <1>7 DEF StopNext, RestartNext, UpNext, At, OpAt
  <2>3. p # q
    BY <1>1, <1>3, <1>4, <1>5, <2>2 DEF PortsAt
  <2>4. container'[p] = container[p]
    BY <1>2, <2>1, <2>3 DEF ComposeStop, Stopped, ComposeRestart, ComposeUp, StartOrFail
  <2> QED
    BY <1>7, <2>4 DEF StopNext, RestartNext, UpNext, files
<1>8. CASE DeployUp(g) \/ RemoveDown(g) \/ Down(g)
  <2>1. p # job[g].port
    BY <1>1, <1>3, <1>8 DEF DeployUp, RemoveDown, Stopped, Down, At, OpAt
  <2>2. container'[p] = container[p]
    BY <1>2, <1>8, <2>1 DEF DeployUp, RemoveDown, Stopped, Down, ComposeRecreate, StartOrFail
  <2> QED
    BY <1>8, <2>2 DEF DeployUp, RemoveDown, Stopped, Down, files
<1>9. CASE RemoveStep(g) \/ CopyStep(g)
  <2>1. p # job[g].port
    BY <1>1, <1>3, <1>5, <1>6, <1>9 DEF RemoveStep, CopyStep, At, OpAt, PortsAt, SyncPcs
  <2> QED
    BY <1>2, <1>9, <2>1 DEF RemoveStep, CopyStep
<1>10. CASE StopDone(g) \/ LoopDone(g) \/ DownloadOk(g) \/ DownloadFail(g) \/ WipeBaseStep(g)
            \/ WipeBaseEnd(g)
  BY <1>10 DEF StopDone, LoopDone, DownloadOk, DownloadFail, WipeBaseStep, WipeBaseEnd, files
<1>11. CASE Check(g) \/ Unmark(g) \/ Configure(g) \/ RemoveDirEnd(g) \/ SyncNext(g) \/ SyncsDone(g)
  BY <1>11 DEF Check, Unmark, Configure, RemoveDirEnd, SyncNext, SyncsDone, files
<1>12. CASE SyncCheck(g) \/ WipeEnd(g) \/ CopyOk(g) \/ CopyFail(g) \/ Verify(g) \/ Mark(g)
  BY <1>12 DEF SyncCheck, WipeEnd, CopyOk, CopyFail, Verify, Mark, files
<1> QED
  BY <1>7, <1>8, <1>9, <1>10, <1>11, <1>12 DEF Progress

busy == [g \in Goroutines |-> Concerned(g)]

\* Only what concerns g is another one when g's job is.
LEMMA BusyBecomes ==
    ASSUME Inv, NEW g \in Goroutines, NEW j, Becomes(g, j)
    PROVE  busy' = [busy EXCEPT ![g] = Concerned(g)']
<1>1. \A h \in Goroutines \ {g} : job'[h] = job[h]
  BY DEF Inv, JobsInv, Becomes
<1>2. \A h \in Goroutines \ {g} : Concerned(h)' = Concerned(h)
  BY <1>1 DEF Concerned
<1> QED
  BY <1>2 DEF busy

\* A command is concerned with fewer instances as it goes on.
LEMMA ConcernedShrinks ==
    ASSUME Inv, NEW g \in Goroutines, NEW j, Becomes(g, j), Onward(job[g], j)
    PROVE  Concerned(g)' \subseteq Concerned(g)
<1>1. job'[g] = j
  BY DEF Becomes, Inv, JobsInv
<1>2. CASE j = Idle
  BY <1>1, <1>2 DEF Concerned, Idle
<1>3. CASE j # Idle
  BY <1>1, <1>3 DEF Concerned, Onward
<1> QED
  BY <1>2, <1>3

\* A command is concerned with instances only.
LEMMA ConcernedPrimed ==
    ASSUME JobsInv', NEW g \in Goroutines
    PROVE  Concerned(g)' \subseteq Ports
  BY DEF JobsInv, Concerned, Shape, PortsAt, Jobs

\* A command changes containers and files of the instances it was sent for, and of
\* no other: stop, remove, deploy and restart of the ports of the payload,
\* update_base of those that are not in skip_ports.
THEOREM InstancesImplemented == Spec => InstancesKept
<1>1. Init => Servers!Init
  <2>1. Init => \A g \in Goroutines : Concerned(g) = {}
    BY DEF Init, Concerned, Idle
  <2> QED
    BY <2>1 DEF Servers!Init
<1>2. Inv /\ Inv' /\ [Next]_vars => [Servers!Next]_<<container, data, busy>>
  <2> SUFFICES ASSUME Inv, Inv', [Next]_vars
               PROVE  Servers!Next \/ UNCHANGED <<container, data, busy>>
    BY DEF busy
  <2>1. ASSUME NEW g \in Goroutines, HandleCommand(g) PROVE Servers!Begin(g)
    <3>1. Began(g)
      BY <2>1, CommandBegins DEF Inv
    <3>2. Concerned(g) = {}
      BY <3>1 DEF Began, Concerned
    <3>3. busy' = [busy EXCEPT ![g] = Concerned(g)']
      BY <3>1, BusyBecomes DEF Began
    <3>4. Concerned(g)' \subseteq Ports
      BY ConcernedPrimed DEF Inv
    <3>5. UNCHANGED <<container, data>>
      BY <3>1 DEF Began, files
    <3> QED
      BY <3>2, <3>3, <3>4, <3>5 DEF Servers!Begin, busy
  <2>2. ASSUME NEW g \in Goroutines, Progress(g) PROVE Servers!Work(g)
    <3>1. PICK j : Becomes(g, j) /\ Onward(job[g], j)
      BY <2>2, ProgressMoves DEF Moved, Inv
    <3>2. busy' = [busy EXCEPT ![g] = Concerned(g)'] /\ Concerned(g)' \subseteq Concerned(g)
      BY <3>1, BusyBecomes, ConcernedShrinks
    <3>3. \A p \in Ports \ Concerned(g) : container'[p] = container[p] /\ data'[p] = data[p]
      BY <2>2, OthersKept
    <3> QED
      BY <3>2, <3>3 DEF Servers!Work, busy
  <2>3. CASE \E g \in Goroutines : DownloadStep(g)
    BY <2>3 DEF DownloadStep, busy, Concerned
  <2>4. CASE AgentRestart
    <3>1. \A g \in Goroutines : job'[g].op = "none"
      BY <2>4 DEF AgentRestart, Idle
    <3>2. \A g \in Goroutines : Concerned(g)' = {}
      BY <3>1 DEF Concerned
    <3> QED
      BY <2>4, <3>2 DEF Servers!Next, Servers!Restart, AgentRestart, files, busy
  <2>5. CASE UNCHANGED vars
    BY <2>5 DEF vars, busy, Concerned
  <2> QED
    BY <2>1, <2>2, <2>3, <2>4, <2>5 DEF Next, Servers!Next
<1> QED
  BY <1>1, <1>2, JobInvariant, PTL DEF Spec, InstancesKept, Servers!Spec, busy

-----------------------------------------------------------------------------
(* update_base pays back                                                   *)

\* g is an update that stops p or has stopped it, and will try to start it.
WillStart(g, p) ==
    /\ job[g].op = "update" /\ p \in job[g].ports
    /\ job[g].pc = "up" => p \in job[g].todo

PaysInv == \A p \in Ports : owed[p] = "update" => \E g \in Goroutines : WillStart(g, p)

\* An update goes on until it has tried to start p.
LEMMA UpdateGoesOn ==
    ASSUME Inv, NEW g \in Goroutines, Progress(g), NEW p \in Ports, WillStart(g, p),
           owed'[p] = "update"
    PROVE  WillStart(g, p)'
<1>1. /\ job[g] \in Jobs /\ OpAt(job[g].op, job[g].pc) /\ PortsAt(job[g])
      /\ job \in [Goroutines -> Jobs] /\ owed \in [Ports -> {"none", "update", "reinstall"}]
  BY DEF Inv, JobsInv, Shape, Trees
<1>2. job[g].op = "update" /\ p \in job[g].ports /\ (job[g].pc = "up" => p \in job[g].todo)
  BY DEF WillStart
<1>3. ASSUME job'[g].op = "update", job'[g].pc # "up"
      PROVE  WillStart(g, p)'
  <2>1. job'[g].ports = job[g].ports
    <3>1. PICK j : Becomes(g, j) /\ Onward(job[g], j)
      BY ProgressMoves DEF Inv, Moved
    <3>2. job'[g] = j
      BY <1>1, <3>1 DEF Becomes
    <3> QED
      BY <1>3, <3>1, <3>2 DEF Onward, Idle
  <2> QED
    BY <1>2, <1>3, <2>1 DEF WillStart
<1>4. ASSUME job' = [job EXCEPT ![g].pc = "up", ![g].todo = job[g].ports]
      PROVE  WillStart(g, p)'
  BY <1>1, <1>2, <1>4 DEF WillStart, Jobs
<1>5. CASE UpNext(g)
  <2>1. PICK q \in job[g].todo : ComposeUp(q) /\ job' = [job EXCEPT ![g].todo = @ \ {q}]
    BY <1>5 DEF UpNext
  <2>2. p # q
    BY <1>1, <2>1 DEF ComposeUp, StartOrFail
  <2>3. job'[g] = [job[g] EXCEPT !.todo = @ \ {q}]
    BY <1>1, <2>1
  <2>4. /\ job'[g].op = "update" /\ job'[g].pc = job[g].pc
        /\ job'[g].ports = job[g].ports /\ job'[g].todo = job[g].todo \ {q}
    BY <1>1, <1>2, <2>3 DEF Jobs
  <2> QED
    BY <1>2, <2>2, <2>4 DEF WillStart
<1>6. CASE StopNext(g)
  <2>1. PICK q : job' = [job EXCEPT ![g].todo = @ \ {q}]
    BY <1>6 DEF StopNext
  <2>2. job'[g].op = job[g].op /\ job'[g].pc = job[g].pc
    BY <1>1, <2>1 DEF Jobs
  <2> QED
    BY <1>2, <1>3, <1>6, <2>2 DEF StopNext, At
<1>7. CASE StopDone(g)
  BY <1>1, <1>2, <1>3, <1>7 DEF StopDone, Goto, Jobs
<1>8. CASE LoopDone(g)
  BY <1>1, <1>2, <1>8 DEF LoopDone, OpAt
<1>9. CASE DownloadOk(g)
  BY <1>1, <1>2, <1>3, <1>9 DEF DownloadOk, Jobs
<1>10. CASE DownloadFail(g)
  BY <1>2, <1>4, <1>10 DEF DownloadFail
<1>11. CASE SyncNext(g)
  BY <1>1, <1>2, <1>3, <1>11 DEF SyncNext, Jobs
<1>12. CASE SyncsDone(g)
  BY <1>4, <1>12 DEF SyncsDone
<1>13. CASE RemoveStep(g)
  BY <1>2, <1>13 DEF RemoveStep, WillStart
<1>14. ASSUME NEW pc, Goto(g, pc), pc # "up"
       PROVE  WillStart(g, p)'
  BY <1>1, <1>2, <1>3, <1>14 DEF Goto, Jobs
<1>15. ASSUME NEW ok, SyncEnds(g, ok)
       PROVE  WillStart(g, p)'
  BY <1>2, <1>14, <1>15 DEF SyncEnds
<1>16. CASE SyncCheck(g)
  <2>1. CASE job' = [job EXCEPT ![g].pc = "wipe", ![g].try = "link"]
    BY <1>1, <1>2, <1>3, <2>1 DEF Jobs
  <2> QED
    BY <1>15, <1>16, <2>1 DEF SyncCheck
<1>17. CASE WipeEnd(g)
  <2>1. CASE job' = [job EXCEPT ![g].pc = "copy", ![g].left = Parts]
    BY <1>1, <1>2, <1>3, <2>1 DEF Jobs
  <2> QED
    BY <1>14, <1>15, <1>17, <2>1 DEF WipeEnd
<1>18. CASE CopyStep(g)
  <2>1. PICK x : job' = [job EXCEPT ![g].left = @ \ {x}]
    BY <1>18 DEF CopyStep
  <2>2. job'[g].op = job[g].op /\ job'[g].pc = job[g].pc
    BY <1>1, <2>1 DEF Jobs
  <2> QED
    BY <1>2, <1>3, <1>18, <2>2 DEF CopyStep, At
<1>19. CASE CopyFail(g)
  <2>1. CASE job' = [job EXCEPT ![g].pc = "wipe", ![g].try = "relink"]
    BY <1>1, <1>2, <1>3, <2>1 DEF Jobs
  <2>2. CASE job' = [job EXCEPT ![g].try = "deep", ![g].left = Parts]
    BY <1>1, <1>2, <1>3, <1>19, <2>2 DEF Jobs, CopyFail, At
  <2> QED
    BY <1>15, <1>19, <2>1, <2>2 DEF CopyFail
<1>20. CASE CopyOk(g) \/ Verify(g) \/ Mark(g)
  BY <1>14, <1>15, <1>20 DEF CopyOk, Verify, Mark
<1>21. /\ ~RestartNext(g) /\ ~WipeBaseStep(g) /\ ~WipeBaseEnd(g) /\ ~Check(g) /\ ~Down(g)
       /\ ~Unmark(g) /\ ~Configure(g) /\ ~DeployUp(g) /\ ~RemoveDown(g) /\ ~RemoveDirEnd(g)
  BY <1>1, <1>2 DEF OpAt, At, RestartNext, WipeBaseStep, WipeBaseEnd, Check, Down, Unmark,
                    Configure, DeployUp, RemoveDown, RemoveDirEnd
<1> QED
  BY <1>5, <1>6, <1>7, <1>8, <1>9, <1>10, <1>11, <1>12, <1>13, <1>16, <1>17, <1>18, <1>19,
     <1>20, <1>21 DEF Progress

\* Only an update that stops p begins to owe it a start.
LEMMA OwedByUpdate ==
    ASSUME Inv, NEW g \in Goroutines, Progress(g), NEW p \in Ports,
           owed'[p] = "update", owed[p] # "update"
    PROVE  WillStart(g, p)
<1>1. /\ job[g] \in Jobs /\ PortsAt(job[g]) /\ owed \in [Ports -> {"none", "update", "reinstall"}]
  BY DEF Inv, JobsInv, Shape, Trees
<1>2. CASE StopNext(g)
  <2>1. PICK q \in job[g].todo : ComposeStop(q, job[g].op)
    BY <1>2 DEF StopNext
  <2>2. p = q /\ job[g].op = "update"
    BY <1>1, <2>1 DEF ComposeStop, Stopped
  <2> QED
    BY <1>1, <1>2, <2>1, <2>2 DEF WillStart, PortsAt, StopNext, At
<1>3. CASE RestartNext(g) \/ UpNext(g) \/ DeployUp(g)
  <2>1. PICK q : owed' = [owed EXCEPT ![q] = "none"]
    BY <1>3 DEF RestartNext, UpNext, DeployUp, ComposeRestart, ComposeUp, ComposeRecreate, StartOrFail
  <2> QED
    BY <1>1, <2>1
<1>4. CASE owed' = owed
  BY <1>4
<1> QED
  BY <1>2, <1>3, <1>4 DEF Progress, StopDone, LoopDone, DownloadOk, DownloadFail, WipeBaseStep,
     WipeBaseEnd, Check, Down, Unmark, Configure, RemoveDown, RemoveDirEnd, SyncNext, SyncsDone,
     SyncCheck, RemoveStep, WipeEnd, CopyStep, CopyOk, CopyFail, Verify, Mark

\* Whatever fails, and whatever other commands run meanwhile, as long as the agent is
\* not restarted: an instance that update_base has stopped and has not tried to start is
\* still in the hands of an update_base, with its recovery guard (handler.go:1657-1674).
THEOREM UpdateAlwaysPaysBack == ASSUME Restarts = 0 PROVE Spec => []UpdatePaysBack
<1>1. Init => PaysInv
  BY DEF Init, PaysInv
<1>2. Inv /\ PaysInv /\ [Next]_vars => PaysInv'
  <2> SUFFICES ASSUME Inv, PaysInv, [Next]_vars, NEW p \in Ports, owed'[p] = "update"
               PROVE  \E g \in Goroutines : WillStart(g, p)'
    BY DEF PaysInv, WillStart
  <2>1. ASSUME NEW g \in Goroutines, NEW h \in Goroutines, NEW j, Becomes(g, j), h # g,
               WillStart(h, p)
        PROVE  WillStart(h, p)'
    <3>1. job'[h] = job[h]
      BY <2>1 DEF Becomes, Inv, JobsInv
    <3> QED
      BY <2>1, <3>1 DEF WillStart
  <2>2. ASSUME NEW g \in Goroutines, HandleCommand(g)
        PROVE  \E h \in Goroutines : WillStart(h, p)'
    <3>1. Began(g) /\ owed[p] = "update"
      BY <2>2, CommandBegins DEF Inv, Began
    <3>2. PICK h \in Goroutines : WillStart(h, p)
      BY <3>1 DEF PaysInv
    <3> QED
      BY <2>1, <3>1, <3>2 DEF Began, WillStart
  <2>3. ASSUME NEW g \in Goroutines, Progress(g)
        PROVE  \E h \in Goroutines : WillStart(h, p)'
    <3>1. PICK h \in Goroutines : WillStart(h, p)
      BY <2>3, OwedByUpdate DEF PaysInv
    <3>2. CASE h = g
      BY <2>3, <3>1, <3>2, UpdateGoesOn
    <3>3. CASE h # g
      BY <2>1, <2>3, <3>1, <3>3, ProgressMoves DEF Inv, Moved
    <3> QED
      BY <3>2, <3>3
  <2>4. CASE \E g \in Goroutines : DownloadStep(g)
    BY <2>4 DEF DownloadStep, PaysInv, WillStart
  <2>5. CASE AgentRestart
    BY <2>5 DEF AgentRestart, Inv, Trees
  <2>6. CASE UNCHANGED vars
    BY <2>6 DEF vars, PaysInv, WillStart
  <2> QED
    BY <2>2, <2>3, <2>4, <2>5, <2>6 DEF Next
<1>3. PaysInv => UpdatePaysBack
  BY DEF PaysInv, WillStart, UpdatePaysBack, Owes
<1> QED
  BY <1>1, <1>2, <1>3, JobInvariant, PTL DEF Spec

-----------------------------------------------------------------------------
(* What a command has verified                                             *)

Removes(g, p) == job[g].pc \in {"wipe", "rmdir"} /\ job[g].port = p

\* What the command has verified is still so.
Verified(g) == job[g].pc = "mark" => data[job[g].port] = Parts

\* A deploy that is about to start its container has a complete copy.
Complete(g) ==
    job[g].op = "deploy" /\ job[g].pc \in {"configure", "up"} => data[job[g].port] = Parts

\* Where the actions lead that change more of g's job than its pc.
LEMMA LeadsTo ==
    ASSUME Inv, NEW g \in Goroutines
    PROVE  /\ StopNext(g) \/ RestartNext(g) \/ UpNext(g) \/ CopyStep(g) \/ WipeBaseStep(g)
              \/ RemoveStep(g) => job'[g].pc = job[g].pc
           /\ StopDone(g) => job'[g].pc \in {"idle", "download", "wipebase"}
           /\ DownloadOk(g) => job'[g].pc \in {"idle", "down", "next"}
           /\ DownloadFail(g) => job'[g].pc \in {"idle", "up"}
           /\ SyncNext(g) => job'[g].pc \in {"sync", "wipe"}
           /\ SyncsDone(g) => job'[g].pc = "up"
           /\ SyncCheck(g) => \/ SyncEnds(g, TRUE) /\ data[job[g].port] = Parts
                              \/ job'[g].pc = "wipe"
           /\ WipeEnd(g) => job'[g].pc \in {"sync", "copy"} \/ SyncEnds(g, FALSE)
           /\ CopyFail(g) => job'[g].pc \in {"wipe", "copy"} \/ SyncEnds(g, FALSE)
<1>1. /\ job[g] \in Jobs /\ OpAt(job[g].op, job[g].pc) /\ job \in [Goroutines -> Jobs]
  BY DEF Inv, JobsInv, Shape
<1>2. Return(g) => job'[g].pc = "idle"
  BY <1>1 DEF Return, Idle
<1>3. ASSUME NEW pc, Goto(g, pc) PROVE job'[g].pc = pc
  BY <1>1, <1>3 DEF Goto, Jobs
<1>4. ASSUME StopNext(g) \/ RestartNext(g) \/ UpNext(g)
      PROVE  job'[g].pc = job[g].pc
  <2>1. PICK p : job' = [job EXCEPT ![g].todo = @ \ {p}]
    BY <1>4 DEF StopNext, RestartNext, UpNext
  <2> QED
    BY <1>1, <2>1 DEF Jobs
<1>5. ASSUME CopyStep(g) \/ WipeBaseStep(g)
      PROVE  job'[g].pc = job[g].pc
  <2>1. PICK x : job' = [job EXCEPT ![g].left = @ \ {x}]
    BY <1>5 DEF CopyStep, WipeBaseStep
  <2> QED
    BY <1>1, <2>1 DEF Jobs
<1>6. ASSUME StopDone(g)
      PROVE  job'[g].pc \in {"idle", "download", "wipebase"}
  <2>1. job[g].op \in {"stop", "update", "reinstall"}
    BY <1>1, <1>6 DEF StopDone, At, OpAt
  <2>2. CASE job[g].op = "reinstall"
    <3>1. job' = [job EXCEPT ![g].pc = "wipebase", ![g].left = base]
      BY <1>6, <2>2 DEF StopDone
    <3> QED
      BY <1>1, <3>1 DEF Jobs
  <2> QED
    BY <1>2, <1>3, <1>6, <2>1, <2>2 DEF StopDone
<1>7. ASSUME NEW pc, job' = [job EXCEPT ![g].pc = pc, ![g].todo = job[g].ports]
      PROVE  job'[g].pc = pc
  BY <1>1, <1>7 DEF Jobs
<1>8. ASSUME DownloadOk(g)
      PROVE  job'[g].pc \in {"idle", "down", "next"}
  <2>1. job[g].op \in {"deploy", "update", "reinstall", "setup", "validate"}
    BY <1>1, <1>8 DEF DownloadOk, At, OpAt
  <2>2. CASE job[g].op \in {"update", "reinstall"}
    <3>1. job' = [job EXCEPT ![g].pc = "next", ![g].todo = job[g].ports]
      BY <1>8, <2>2 DEF DownloadOk
    <3> QED
      BY <1>7, <3>1
  <2>3. CASE job[g].op = "deploy"
    BY <1>3, <1>8, <2>3 DEF DownloadOk
  <2>4. CASE job[g].op \in {"setup", "validate"}
    BY <1>2, <1>8, <2>4 DEF DownloadOk
  <2> QED
    BY <2>1, <2>2, <2>3, <2>4
<1>9. ASSUME DownloadFail(g)
      PROVE  job'[g].pc \in {"idle", "up"}
  <2>1. CASE job' = [job EXCEPT ![g].pc = "up", ![g].todo = job[g].ports]
    BY <1>7, <2>1
  <2> QED
    BY <1>2, <1>9, <2>1 DEF DownloadFail
<1>10. ASSUME SyncNext(g)
       PROVE  job'[g].pc \in {"sync", "wipe"}
  <2>1. PICK p \in job[g].todo, to \in {"sync", "wipe"}, try \in {"link", "pre"} :
           job' = [job EXCEPT ![g].pc = to, ![g].todo = @ \ {p}, ![g].port = p, ![g].try = try]
    BY <1>10 DEF SyncNext
  <2> QED
    BY <1>1, <2>1 DEF Jobs
<1>11. ASSUME SyncsDone(g)
       PROVE  job'[g].pc = "up"
  <2>1. job' = [job EXCEPT ![g].pc = "up", ![g].todo = job[g].ports]
    BY <1>11 DEF SyncsDone
  <2> QED
    BY <1>7, <2>1
<1>12. ASSUME SyncCheck(g)
       PROVE  (SyncEnds(g, TRUE) /\ data[job[g].port] = Parts) \/ job'[g].pc = "wipe"
  <2>1. CASE job' = [job EXCEPT ![g].pc = "wipe", ![g].try = "link"]
    BY <1>1, <2>1 DEF Jobs
  <2> QED
    BY <1>12, <2>1 DEF SyncCheck
<1>13. ASSUME WipeEnd(g)
       PROVE  job'[g].pc \in {"sync", "copy"} \/ SyncEnds(g, FALSE)
  <2>1. CASE job' = [job EXCEPT ![g].pc = "copy", ![g].left = Parts]
    BY <1>1, <2>1 DEF Jobs
  <2> QED
    BY <1>3, <1>13, <2>1 DEF WipeEnd
<1>14. ASSUME CopyFail(g)
       PROVE  job'[g].pc \in {"wipe", "copy"} \/ SyncEnds(g, FALSE)
  <2>1. CASE job' = [job EXCEPT ![g].pc = "wipe", ![g].try = "relink"]
    BY <1>1, <2>1 DEF Jobs
  <2>2. CASE job' = [job EXCEPT ![g].try = "deep", ![g].left = Parts]
    BY <1>1, <1>14, <2>2 DEF CopyFail, At, Jobs
  <2> QED
    BY <1>14, <2>1, <2>2 DEF CopyFail
<1>15. ASSUME RemoveStep(g)
       PROVE  job'[g].pc = job[g].pc
  BY <1>15 DEF RemoveStep
<1> QED
  BY <1>4, <1>5, <1>6, <1>8, <1>9, <1>10, <1>11, <1>12, <1>13, <1>14, <1>15

\* The marker is written after the check of the critical files, and only then.
LEMMA EntersMark ==
    ASSUME Inv, NEW g \in Goroutines, Progress(g), Verified(g)
    PROVE  Verified(g)'
<1> SUFFICES ASSUME job'[g].pc = "mark" PROVE data'[job'[g].port] = Parts
  BY DEF Verified
<1>1. /\ job[g] \in Jobs /\ OpAt(job[g].op, job[g].pc) /\ job \in [Goroutines -> Jobs]
  BY DEF Inv, JobsInv, Shape
<1>2. CASE Verify(g)
  <2>1. ASSUME NEW ok, SyncEnds(g, ok) PROVE job'[g].pc # "mark"
    BY <1>1, <2>1 DEF SyncEnds, Goto, Return, Idle, Jobs
  <2>2. data[job[g].port] = Parts /\ Goto(g, "mark")
    BY <1>2, <2>1 DEF Verify
  <2>3. job'[g].port = job[g].port
    BY <1>1, <2>2 DEF Goto, Jobs
  <2> QED
    BY <1>2, <2>2, <2>3 DEF Verify, files
<1>3. ASSUME NEW ok, SyncEnds(g, ok) PROVE FALSE
  BY <1>1, <1>3 DEF SyncEnds, Goto, Return, Idle, Jobs
<1>4. ASSUME NEW pc, pc # "mark", Goto(g, pc) PROVE FALSE
  BY <1>1, <1>4 DEF Goto, Jobs
<1>5. ~Return(g)
  BY <1>1 DEF Return, Idle
<1>6. ~(StopNext(g) \/ StopDone(g) \/ RestartNext(g) \/ UpNext(g) \/ LoopDone(g))
  BY <1>5, LeadsTo DEF StopNext, RestartNext, UpNext, LoopDone, At
<1>7. ~(DownloadOk(g) \/ DownloadFail(g) \/ WipeBaseStep(g) \/ WipeBaseEnd(g))
  BY <1>4, <1>5, LeadsTo DEF WipeBaseStep, WipeBaseEnd, At
<1>8. ~(Check(g) \/ Down(g) \/ Unmark(g) \/ Configure(g) \/ DeployUp(g))
  BY <1>1, <1>4, <1>5 DEF Check, Down, Unmark, Configure, DeployUp
<1>9. ~(RemoveDown(g) \/ RemoveDirEnd(g) \/ CopyOk(g) \/ Mark(g))
  BY <1>3, <1>4, <1>5 DEF RemoveDown, RemoveDirEnd, CopyOk, Mark
<1>10. ~(SyncNext(g) \/ SyncsDone(g) \/ RemoveStep(g))
  BY LeadsTo DEF RemoveStep
<1>11. ~(SyncCheck(g) \/ WipeEnd(g) \/ CopyStep(g) \/ CopyFail(g))
  BY <1>3, LeadsTo DEF CopyStep, At
<1> QED
  BY <1>2, <1>6, <1>7, <1>8, <1>9, <1>10, <1>11 DEF Progress

\* A deploy comes to its configuration only from a sync that ended well.
LEMMA EntersConfigure ==
    ASSUME Inv, NEW g \in Goroutines, Progress(g), Verified(g), Complete(g)
    PROVE  Complete(g)'
<1> SUFFICES ASSUME job'[g].op = "deploy", job'[g].pc \in {"configure", "up"}
             PROVE  data'[job'[g].port] = Parts
  BY DEF Complete
<1>1. /\ job[g] \in Jobs /\ OpAt(job[g].op, job[g].pc) /\ job \in [Goroutines -> Jobs]
  BY DEF Inv, JobsInv, Shape
<1>2. job[g].op = "deploy" /\ job'[g].port = job[g].port
  <2>1. PICK j : Becomes(g, j) /\ Onward(job[g], j)
    BY ProgressMoves DEF Inv, Moved
  <2>2. job'[g] = j
    BY <1>1, <2>1 DEF Becomes
  <2> QED
    BY <2>1, <2>2 DEF Onward, Idle
<1>3. SUFFICES data[job[g].port] = Parts /\ data' = data
  BY <1>2
<1>4. ~Return(g)
  BY <1>1 DEF Return, Idle
<1>5. ~SyncEnds(g, FALSE)
  BY <1>2, <1>4 DEF SyncEnds
<1>6. ASSUME NEW pc, Goto(g, pc) PROVE pc \in {"configure", "up"}
  BY <1>1, <1>6 DEF Goto, Jobs
<1>7. CASE Configure(g)
  BY <1>1, <1>2, <1>7 DEF Configure, At, Complete
<1>8. CASE SyncCheck(g)
  BY <1>8, LeadsTo DEF SyncCheck
<1>9. CASE Mark(g)
  BY <1>5, <1>9 DEF Mark, At, Verified
<1>10. ~(WipeEnd(g) \/ CopyStep(g) \/ CopyFail(g) \/ CopyOk(g) \/ Verify(g) \/ RemoveStep(g))
  <2>1. ~WipeEnd(g) /\ ~CopyFail(g)
    BY <1>5, LeadsTo
  <2>2. ~CopyStep(g) /\ ~RemoveStep(g)
    BY LeadsTo DEF CopyStep, RemoveStep, At
  <2>3. ~Goto(g, "verify") /\ ~Goto(g, "mark")
    <3>1. "verify" \notin {"configure", "up"} /\ "mark" \notin {"configure", "up"}
      OBVIOUS
    <3> QED
      BY <1>6, <3>1
  <2>4. ~CopyOk(g) /\ ~Verify(g)
    BY <1>5, <2>3 DEF CopyOk, Verify
  <2> QED
    BY <2>1, <2>2, <2>4
<1>11. ~(Check(g) \/ Down(g) \/ Unmark(g) \/ DeployUp(g) \/ DownloadOk(g) \/ DownloadFail(g))
  BY <1>2, <1>4, <1>6 DEF Check, Down, Unmark, DeployUp, DownloadOk, DownloadFail
<1>12. ~(StopNext(g) \/ StopDone(g) \/ RestartNext(g) \/ UpNext(g) \/ LoopDone(g)
         \/ WipeBaseStep(g) \/ WipeBaseEnd(g) \/ RemoveDown(g) \/ RemoveDirEnd(g)
         \/ SyncNext(g) \/ SyncsDone(g))
  BY <1>1, <1>2 DEF OpAt, At, StopNext, StopDone, RestartNext, UpNext, LoopDone, WipeBaseStep,
     WipeBaseEnd, RemoveDown, RemoveDirEnd, SyncNext, SyncsDone
<1> QED
  BY <1>7, <1>8, <1>9, <1>10, <1>11, <1>12 DEF Progress

\* What is complete stays so under every step that is not one of its removal: other
\* commands may link into a copy that is there already.
LEMMA CompleteStays ==
    ASSUME Inv, NEW g \in Goroutines, Progress(g), NEW p \in Ports, ~Removes(g, p),
           data[p] = Parts
    PROVE  data'[p] = Parts
<1>1. data \in [Ports -> SUBSET Parts] /\ base \subseteq Parts
  BY DEF Inv, Trees
<1>2. CASE RemoveStep(g)
  BY <1>1, <1>2 DEF RemoveStep, Removes
<1>3. CASE CopyStep(g)
  <2>1. \E x \in Parts : data' = [data EXCEPT ![job[g].port] = @ \cup {x}]
    BY <1>1, <1>3 DEF CopyStep
  <2> QED
    BY <1>1, <2>1
<1>4. CASE data' = data
  BY <1>4
<1> QED
  BY <1>2, <1>3, <1>4 DEF Progress, StopNext, StopDone, RestartNext, UpNext, LoopDone, DownloadOk,
     DownloadFail, WipeBaseStep, WipeBaseEnd, Check, Down, Unmark, Configure, DeployUp,
     RemoveDown, RemoveDirEnd, SyncNext, SyncsDone, SyncCheck, WipeEnd, CopyOk, CopyFail,
     Verify, Mark, files

\* What a removal, a copy and a mark do to the markers.
LEMMA MarkersStay ==
    ASSUME Inv, NEW g \in Goroutines, Progress(g), Verified(g), MarkerTrustworthy
    PROVE  MarkerTrustworthy'
<1>1. /\ job[g] \in Jobs /\ job \in [Goroutines -> Jobs]
      /\ data \in [Ports -> SUBSET Parts] /\ marker \in [Ports -> BOOLEAN] /\ base \subseteq Parts
  BY DEF Inv, JobsInv, Trees
<1> SUFFICES ASSUME NEW p \in Ports, marker'[p], \A h \in Goroutines : ~Removes(h, p)'
             PROVE  data'[p] = Parts
  BY DEF MarkerTrustworthy, Removing, Removes
<1>2. \A h \in Goroutines \ {g} : ~Removes(h, p)
  <2>1. PICK j : job' = [job EXCEPT ![g] = j]
    BY ProgressMoves DEF Inv, Moved, Becomes
  <2> QED
    BY <1>1, <2>1 DEF Removes
<1>3. ASSUME marker[p], ~Removes(g, p) PROVE data'[p] = Parts
  <2>1. data[p] = Parts
    BY <1>2, <1>3 DEF MarkerTrustworthy, Removing, Removes
  <2> QED
    BY <1>3, <2>1, CompleteStays
<1>4. CASE RemoveStep(g)
  BY <1>1, <1>3, <1>4 DEF RemoveStep, Removes
<1>5. CASE Mark(g)
  <2>1. CASE p = job[g].port
    BY <1>5, <2>1 DEF Mark, At, Verified
  <2>2. CASE p # job[g].port
    <3>1. marker[p]
      BY <1>1, <1>5, <2>2 DEF Mark
    <3> QED
      BY <1>3, <2>2, <3>1 DEF Removes
  <2> QED
    BY <2>1, <2>2
<1>6. CASE WipeEnd(g)
  BY <1>3, <1>6 DEF WipeEnd, Removes
<1>7. CASE RemoveDirEnd(g)
  BY <1>3, <1>7 DEF RemoveDirEnd, Removes
<1>8. ASSUME marker'[p] => marker[p], job[g].pc \notin {"wipe", "rmdir"}
      PROVE  data'[p] = Parts
  BY <1>3, <1>8 DEF Removes
<1>9. CASE StopNext(g) \/ StopDone(g) \/ RestartNext(g) \/ UpNext(g) \/ LoopDone(g)
  BY <1>8, <1>9 DEF StopNext, StopDone, RestartNext, UpNext, LoopDone, At, files
<1>10. CASE DownloadOk(g) \/ DownloadFail(g) \/ WipeBaseStep(g) \/ WipeBaseEnd(g)
  BY <1>8, <1>10 DEF DownloadOk, DownloadFail, WipeBaseStep, WipeBaseEnd, At, files
<1>11. CASE Check(g) \/ Down(g) \/ Unmark(g) \/ Configure(g) \/ DeployUp(g)
  BY <1>8, <1>11 DEF Check, Down, Unmark, Unmarks, Configure, DeployUp, At, files
<1>12. CASE SyncNext(g) \/ SyncsDone(g)
  BY <1>8, <1>12 DEF SyncNext, SyncsDone, Unmarks, At
<1>13. CASE SyncCheck(g) \/ CopyStep(g) \/ CopyOk(g) \/ CopyFail(g) \/ Verify(g) \/ RemoveDown(g)
  BY <1>8, <1>13 DEF SyncCheck, CopyStep, CopyOk, CopyFail, Verify, RemoveDown, At, files
<1> QED
  BY <1>4, <1>5, <1>6, <1>7, <1>9, <1>10, <1>11, <1>12, <1>13 DEF Progress

\* A new command begins far from where its promises matter.
LEMMA BeginsFresh ==
    ASSUME Inv, NEW g \in Goroutines, HandleCommand(g)
    PROVE  /\ job[g].pc = "idle" /\ job'[g].pc \in {"check", "stop", "remove", "restart", "download"}
           /\ data' = data /\ marker' = marker
<1>1. ASSUME NEW op, NEW p, NEW ports, NEW skip, NEW pc, TakeUp(g, op, p, ports, skip, pc)
      PROVE  job[g].pc = "idle" /\ job'[g].pc = pc
  BY <1>1 DEF TakeUp, At, Idle, Inv, JobsInv
<1>2. job[g].pc = "idle" /\ job'[g].pc \in {"check", "stop", "remove", "restart", "download"}
  BY <1>1 DEF HandleCommand, StartDeploy, StartStop, StartRemove, StartRestart, StartUpdate,
              StartReinstall, StartSetup, StartValidate
<1>3. data' = data /\ marker' = marker
  BY CommandBegins DEF Inv, Began, files
<1> QED
  BY <1>2, <1>3

\* The promises of all commands under the step of one: its own are kept by what it does,
\* those of the others because it does not remove what they have verified.
PromiseInv == \A g \in Goroutines : Verified(g) /\ Complete(g)

LEMMA PromisesKept ==
    ASSUME Inv, PromiseInv, Undisturbed, [Next]_vars
    PROVE  PromiseInv'
<1>1. job \in [Goroutines -> Jobs] /\ \A g \in Goroutines : Shape(job[g])
  BY DEF Inv, JobsInv
<1>2. ASSUME NEW h \in Goroutines, HandleCommand(h) PROVE PromiseInv'
  <2>1. Began(h)
    BY <1>2, CommandBegins DEF Inv
  <2>2. ASSUME NEW g \in Goroutines \ {h} PROVE job'[g] = job[g]
    BY <1>1, <2>1, <2>2 DEF Began, Becomes
  <2> QED
    BY <1>2, <2>2, BeginsFresh DEF PromiseInv, Verified, Complete
<1>3. ASSUME NEW h \in Goroutines, Progress(h), NEW g \in Goroutines
      PROVE  Verified(g)' /\ Complete(g)'
  <2>1. CASE g = h
    BY <1>3, <2>1, EntersMark, EntersConfigure DEF PromiseInv
  <2>2. CASE g # h
    <3>1. job'[g] = job[g]
      <4>1. PICK j : job' = [job EXCEPT ![h] = j]
        BY <1>3, ProgressMoves DEF Inv, Moved, Becomes
      <4> QED
        BY <1>1, <2>2, <4>1
    <3>2. ASSUME job[g].pc = "mark" \/ (job[g].op = "deploy" /\ job[g].pc \in {"configure", "up"})
          PROVE  data'[job[g].port] = Parts
      <4>1. data[job[g].port] = Parts
        BY <3>2 DEF PromiseInv, Verified, Complete
      <4>2. job[g].port \in Ports
        <5>1. Shape(job[g]) /\ job[g] \in Jobs
          BY <1>1
        <5>2. job[g].op \in {"deploy", "update", "reinstall"}
          BY <3>2, <5>1 DEF Shape, OpAt, SyncPcs
        <5> QED
          BY <3>2, <5>1, <5>2 DEF Shape, PortsAt, SyncPcs, Jobs
      <4>3. ~Removes(h, job[g].port)
        BY <3>2 DEF Undisturbed, Removes, At
      <4> QED
        BY <1>3, <4>1, <4>2, <4>3, CompleteStays
    <3> QED
      BY <3>1, <3>2 DEF Verified, Complete
  <2> QED
    BY <2>1, <2>2
<1>4. CASE \E h \in Goroutines : DownloadStep(h)
  BY <1>4 DEF DownloadStep, PromiseInv, Verified, Complete
<1>5. CASE AgentRestart
  BY <1>5 DEF AgentRestart, Idle, PromiseInv, Verified, Complete
<1>6. CASE UNCHANGED vars
  BY <1>6 DEF vars, PromiseInv, Verified, Complete
<1> QED
  BY <1>2, <1>3, <1>4, <1>5, <1>6 DEF Next, PromiseInv

LEMMA PromisesMade == Init => PromiseInv /\ Undisturbed
  BY DEF Init, Idle, PromiseInv, Verified, Complete, Undisturbed

LEMMA TogetherSteps == [Next /\ Undisturbed']_vars /\ Undisturbed => Undisturbed' /\ [Next]_vars
  BY DEF vars, Undisturbed, At

LEMMA PromiseInvariant == TogetherSpec => [](Inv /\ PromiseInv)
<1>1. Init => Inv /\ PromiseInv /\ Undisturbed
  BY InvInit, PromisesMade
<1>2. (Inv /\ PromiseInv /\ Undisturbed) /\ [Next /\ Undisturbed']_vars
         => (Inv /\ PromiseInv /\ Undisturbed)'
  BY TogetherSteps, PromisesKept, InvNext
<1> QED
  BY <1>1, <1>2, PTL DEF TogetherSpec

\* With one command at a time nobody disturbs it.
LEMMA AloneIsTogether ==
    ASSUME NEW one, Goroutines = {one}
    PROVE  Spec => TogetherSpec
<1>1. Undisturbed
  BY DEF Undisturbed, At
<1>2. [Next]_vars => [Next /\ Undisturbed']_vars
  <2>1. Undisturbed'
    BY <1>1, PTL
  <2> QED
    BY <2>1
<1> QED
  BY <1>2, PTL DEF Spec, TogetherSpec

\* A deploy that reports "started" started its container on a complete copy, after any
\* failures and restarts and whatever other commands do at the same time to the base, to
\* other instances and to this one, as long as none of them removes its files between the
\* check and the start: the sync of a deploy is made anew, checked, and its error is
\* returned (handler.go:1046-1057).
THEOREM DeploysCompleteTogether == TogetherSpec => DeployStartsComplete
<1>1. PromiseInv => [\A g \in Goroutines :
             DeployUp(g) /\ container'[job[g].port] = "up" => data[job[g].port] = Parts]_vars
  BY DEF PromiseInv, Complete, DeployUp, At
<1> QED
  BY <1>1, PromiseInvariant, PTL DEF DeployStartsComplete

\* With one command at a time that needs no condition.
THEOREM DeploysComplete ==
    ASSUME NEW one, Goroutines = {one}
    PROVE  Spec => DeployStartsComplete
  BY AloneIsTogether, DeploysCompleteTogether

\* "Marker presence = copy is trustworthy" (handler.go:2197-2198): so it is when no command
\* is cut short by a restart, whatever fails and whatever commands run at the same time, as
\* long as none removes an instance's files between another's check and its marker.
THEOREM MarkersTrustworthyTogether ==
    ASSUME Restarts = 0
    PROVE  TogetherSpec => []MarkerTrustworthy
<1>1. Init => MarkerTrustworthy
  BY DEF Init, MarkerTrustworthy
<1>2. Inv /\ PromiseInv /\ MarkerTrustworthy /\ [Next /\ Undisturbed']_vars => MarkerTrustworthy'
  <2> SUFFICES ASSUME Inv, PromiseInv, MarkerTrustworthy, [Next]_vars PROVE MarkerTrustworthy'
    BY DEF vars
  <2> USE DEF MarkerTrustworthy, Removing
  <2>1. ASSUME NEW g \in Goroutines, HandleCommand(g) PROVE MarkerTrustworthy'
    <3>1. Began(g)
      BY <2>1, CommandBegins DEF Inv
    <3>2. \A h \in Goroutines \ {g} : job'[h] = job[h]
      BY <3>1 DEF Began, Becomes, Inv, JobsInv
    <3> QED
      BY <2>1, <3>2, BeginsFresh
  <2>2. ASSUME NEW g \in Goroutines, Progress(g) PROVE MarkerTrustworthy'
    BY <2>2, MarkersStay DEF PromiseInv
  <2>3. CASE \E g \in Goroutines : DownloadStep(g)
    BY <2>3 DEF DownloadStep
  <2>4. CASE AgentRestart
    BY <2>4 DEF AgentRestart, Inv, Trees
  <2>5. CASE UNCHANGED vars
    BY <2>5 DEF vars
  <2> QED
    BY <2>1, <2>2, <2>3, <2>4, <2>5 DEF Next
<1> QED
  BY <1>1, <1>2, PromiseInvariant, PTL DEF TogetherSpec

\* With one command at a time that needs no further condition.
THEOREM MarkersTrustworthy ==
    ASSUME NEW g, Goroutines = {g}, Restarts = 0
    PROVE  Spec => []MarkerTrustworthy
<1>1. Spec => TogetherSpec
  BY AloneIsTogether
<1>2. TogetherSpec => []MarkerTrustworthy
  BY MarkersTrustworthyTogether
<1> QED
  BY <1>1, <1>2

-----------------------------------------------------------------------------
(* Why commands end                                                        *)

\* A set of instances has a size, and each that goes makes it smaller by one.
LEMMA PortsSize ==
    ASSUME NEW S \in SUBSET Ports
    PROVE  Cardinality(S) \in Nat /\ \A p \in S : Cardinality(S \ {p}) = Cardinality(S) - 1
<1>1. IsFiniteSet(S)
  BY HostAssumption, FS_Subset
<1> QED
  BY <1>1, FS_CardinalityType, FS_RemoveElement

\* So has a set of parts, which are two.
LEMMA PartsSize ==
    ASSUME NEW S \in SUBSET Parts
    PROVE  Cardinality(S) \in 0..2 /\ \A x \in S : Cardinality(S \ {x}) = Cardinality(S) - 1
<1>1. IsFiniteSet({"bin"}) /\ Cardinality({"bin"}) = 1
  BY FS_Singleton
<1>2. Parts = {"bin"} \cup {"csgo"}
  BY DEF Parts
<1>3. IsFiniteSet(Parts) /\ Cardinality(Parts) \in {1, 2}
  BY <1>1, <1>2, FS_AddElement
<1>4. IsFiniteSet(S) /\ Cardinality(S) <= Cardinality(Parts)
  BY <1>3, FS_Subset
<1>5. Cardinality(S) \in Nat
  BY <1>4, FS_CardinalityType
<1>6. \A x \in S : Cardinality(S \ {x}) = Cardinality(S) - 1
  BY <1>4, FS_RemoveElement
<1> QED
  BY <1>3, <1>4, <1>5, <1>6

\* A tree holds at most its two parts, its marker and its docker-compose.yml.
LEMMA RubbishSize ==
    ASSUME Trees, NEW p \in Ports
    PROVE  Rubbish(p) \in 0..4
<1>1. Cardinality(data[p]) \in 0..2
  BY PartsSize DEF Trees
<1> QED
  BY <1>1 DEF Rubbish

\* A sync has at most 26 steps left.
LEMMA SyncSize ==
    ASSUME NEW j \in Jobs, j.pc \in SyncPcs, NEW r \in 0..4
    PROVE  SyncLeft(j, r) \in 0..26
<1>1. Cardinality(j.left) \in 0..2
  BY PartsSize DEF Jobs
<1> QED
  BY <1>1 DEF SyncLeft, SyncPcs

\* StepsOf, place by place.
LEMMA StepsAt ==
    ASSUME NEW j, NEW r
    PROVE  LET n    == Cardinality(j.ports)
               t    == Cardinality(j.todo)
               rest == n + PerCopy * t
               all  == n + PerCopy * n
           IN /\ j.pc \in {"restart", "up"} => StepsOf(j, r) = 1 + t
              /\ j.pc = "rmdir" => StepsOf(j, r) = 1 + r
              /\ j.pc = "remove" => StepsOf(j, r) = 6
              /\ j.pc \in {"next", "configure"} => StepsOf(j, r) = 2 + rest
              /\ j.pc \in SyncPcs => StepsOf(j, r) = 3 + rest + SyncLeft(j, r)
              /\ j.pc = "unmark" => StepsOf(j, r) = 30 + rest
              /\ j.pc = "down" => StepsOf(j, r) = 31 + rest
              /\ j.pc = "download" /\ j.op = "deploy" => StepsOf(j, r) = 32 + rest
              /\ j.pc = "download" /\ j.op # "deploy" => StepsOf(j, r) = 3 + all
              /\ j.pc = "check" => StepsOf(j, r) = 33 + rest
              /\ j.pc = "wipebase" => StepsOf(j, r) = 4 + all + Cardinality(j.left)
              /\ j.pc = "stop" => StepsOf(j, r) = 7 + all + t
  BY DEF StepsOf, SyncPcs

\* A job that is not done has some steps left ...
LEMMA BusySteps ==
    ASSUME NEW j \in Jobs, j.pc # "idle", NEW r, j.pc \in SyncPcs \cup {"rmdir"} => r \in 0..4
    PROVE  StepsOf(j, r) \in Nat /\ StepsOf(j, r) > 0
<1> DEFINE n == Cardinality(j.ports)
           t == Cardinality(j.todo)
           l == Cardinality(j.left)
<1>1. n \in Nat /\ t \in Nat
  BY PortsSize DEF Jobs
<1>2. l \in 0..2
  BY PartsSize DEF Jobs
<1>3. j.pc \in SyncPcs => SyncLeft(j, r) \in 0..26
  BY SyncSize
<1>4. PerCopy * t \in Nat /\ PerCopy * n \in Nat
  BY <1>1 DEF PerCopy
<1> HIDE DEF n, t, l
<1> QED
  BY <1>1, <1>2, <1>3, <1>4, StepsAt DEF Jobs, SyncPcs, n, t, l

\* ... and none for an idle goroutine.
LEMMA IdleSteps ==
    ASSUME NEW r
    PROVE  StepsOf(Idle, r) = 0
  BY DEF StepsOf, Idle

\* j is g's job and k the next one; the trees that they work on hold r and s.
LEMMA StepsCount ==
    ASSUME Inv, Inv', NEW g \in Goroutines, Progress(g)
    PROVE  StepsLeft(g)' < StepsLeft(g)
<1> DEFINE j == job[g]
           k == job'[g]
           r == Rubbish(j.port)
           s == Rubbish(job[g].port)'
           n == Cardinality(j.ports)
           t == Cardinality(j.todo)
<1>1. /\ j \in Jobs /\ OpAt(j.op, j.pc) /\ PortsAt(j)
      /\ k \in Jobs /\ OpAt(k.op, k.pc) /\ PortsAt(k)
  BY DEF Inv, JobsInv, Shape
<1> HIDE DEF k
<1>2. j.pc # "idle"
  BY DEF Progress, StopNext, StopDone, RestartNext, UpNext, LoopDone, DownloadOk, DownloadFail,
         WipeBaseStep, WipeBaseEnd, Check, Down, Unmark, Configure, DeployUp, RemoveDown,
         RemoveDirEnd, SyncNext, SyncsDone, SyncCheck, RemoveStep, WipeEnd, CopyStep, CopyOk,
         CopyFail, Verify, Mark, At
<1>3. StepsLeft(g) = StepsOf(j, r) /\ StepsLeft(g)' = StepsOf(k, s)
  BY DEF StepsLeft, k
<1>4. /\ j.pc \in SyncPcs \cup {"rmdir"} => j.port \in Ports
      /\ k.pc \in SyncPcs \cup {"rmdir"} => k.port \in Ports
  BY <1>1 DEF OpAt, PortsAt, SyncPcs, Jobs
<1>5. /\ j.pc \in SyncPcs \cup {"rmdir"} => r \in 0..4
      /\ k.pc \in SyncPcs \cup {"rmdir"} => s \in 0..4
  <2>1. \A p \in Ports : Rubbish(p)' \in 0..4
    <3> SUFFICES ASSUME NEW p \in Ports
                 PROVE  Rubbish(p)' \in 0..4
      OBVIOUS
    <3>1. data'[p] \in SUBSET Parts
      BY DEF Inv, Trees
    <3>2. Cardinality(data'[p]) \in 0..2
      BY <3>1, PartsSize
    <3> QED
      BY <3>2 DEF Rubbish
  <2> QED
    BY <1>4, <2>1, RubbishSize DEF Inv, k
<1>6. StepsOf(j, r) \in Nat /\ StepsOf(j, r) > 0
  BY <1>1, <1>2, <1>5, BusySteps
<1>7. n \in Nat /\ t \in Nat /\ \A p \in j.todo : Cardinality(j.todo \ {p}) = t - 1
  BY <1>1, PortsSize DEF Jobs
<1> DEFINE rest == n + PerCopy * t
           all  == n + PerCopy * n
<1>8. rest \in Nat /\ all \in Nat /\ rest >= t /\ all >= n
  BY <1>7 DEF PerCopy
<1>9. j.pc \in SyncPcs => SyncLeft(j, r) \in 0..26
  BY <1>1, <1>5, SyncSize
<1>10. CASE Return(g)
  <2>1. k = Idle
    BY <1>10 DEF Return, k, Inv, JobsInv
  <2> QED
    BY <1>3, <1>6, <2>1, IdleSteps
<1>11. \A pc : Goto(g, pc) =>
          /\ k.pc = pc /\ k.op = j.op /\ k.port = j.port /\ k.todo = j.todo /\ k.ports = j.ports
          /\ k.try = j.try /\ k.left = j.left
  BY <1>1 DEF Goto, k, Inv, JobsInv, Jobs
<1>12. CASE j.pc \in SyncPcs /\ \E ok \in BOOLEAN : SyncEnds(g, ok)
  <2>1. CASE \E to \in {"next", "configure"} : Goto(g, to)
    <3>1. StepsOf(k, s) = 2 + rest
      BY <1>11, <2>1, StepsAt
    <3>2. StepsOf(j, r) = 3 + rest + SyncLeft(j, r)
      BY <1>12, StepsAt
    <3> QED
      BY <1>3, <1>8, <1>9, <1>12, <3>1, <3>2
  <2> QED
    BY <1>10, <1>12, <2>1 DEF SyncEnds
\* The loops over instances.
<1>13. CASE StopNext(g) \/ RestartNext(g) \/ UpNext(g)
  <2>1. PICK p \in j.todo : k = [j EXCEPT !.todo = @ \ {p}]
    BY <1>13 DEF StopNext, RestartNext, UpNext, k, Inv, JobsInv
  <2>2. k.pc = j.pc /\ k.ports = j.ports /\ Cardinality(k.todo) = t - 1
    BY <1>1, <1>7, <2>1 DEF Jobs
  <2>3. CASE j.pc = "stop"
    <3>1. StepsOf(k, s) = 7 + all + (t - 1) /\ StepsOf(j, r) = 7 + all + t
      BY <2>2, <2>3, StepsAt
    <3> QED
      BY <1>3, <1>7, <1>8, <3>1
  <2>4. CASE j.pc \in {"restart", "up"}
    <3>1. StepsOf(k, s) = 1 + (t - 1) /\ StepsOf(j, r) = 1 + t
      BY <2>2, <2>4, StepsAt
    <3> QED
      BY <1>3, <1>7, <3>1
  <2> QED
    BY <1>13, <2>3, <2>4 DEF StopNext, RestartNext, UpNext, At
<1>14. CASE StopDone(g)
  <2>1. StepsOf(j, r) = 7 + all + t
    BY <1>14, StepsAt DEF StopDone, At
  <2>2. CASE Goto(g, "download") /\ j.op = "update"
    <3>1. StepsOf(k, s) = 3 + all
      BY <1>11, <2>2, StepsAt
    <3> QED
      BY <1>3, <1>7, <1>8, <2>1, <3>1
  <2>3. CASE k = [j EXCEPT !.pc = "wipebase", !.left = base]
    <3>1. k.pc = "wipebase" /\ k.left = base /\ k.ports = j.ports
      BY <1>1, <2>3 DEF Jobs
    <3>2. Cardinality(base) \in 0..2
      BY PartsSize DEF Inv, Trees
    <3>3. StepsOf(k, s) = 4 + all + Cardinality(base)
      BY <3>1, StepsAt
    <3> QED
      BY <1>3, <1>7, <1>8, <2>1, <3>2, <3>3
  <2>4. j.op \in {"stop", "update", "reinstall"}
    BY <1>1, <1>14 DEF StopDone, At, OpAt
  <2> QED
    BY <1>10, <1>14, <2>2, <2>3, <2>4 DEF StopDone, k, Inv, JobsInv
\* The base.
<1>15. CASE DownloadOk(g) \/ DownloadFail(g)
  <2>1. j.pc = "download"
    BY <1>15 DEF DownloadOk, DownloadFail, At
  <2>2. CASE Goto(g, "down") /\ j.op = "deploy"
    <3>1. StepsOf(k, s) = 31 + rest /\ StepsOf(j, r) = 32 + rest
      BY <1>11, <2>1, <2>2, StepsAt
    <3> QED
      BY <1>3, <1>8, <3>1
  <2>3. CASE j.op # "deploy" /\ \E to \in {"next", "up"} : k = [j EXCEPT !.pc = to, !.todo = j.ports]
    <3>1. k.pc \in {"next", "up"} /\ k.todo = j.ports /\ k.ports = j.ports
      BY <1>1, <2>3 DEF Jobs
    <3>2. StepsOf(j, r) = 3 + all
      BY <2>1, <2>3, StepsAt
    <3>3. CASE k.pc = "next"
      <4>1. StepsOf(k, s) = 2 + all
        BY <3>1, <3>3, StepsAt
      <4> QED
        BY <1>3, <1>8, <3>2, <4>1
    <3>4. CASE k.pc = "up"
      <4>1. StepsOf(k, s) = 1 + n
        BY <3>1, <3>4, StepsAt
      <4> QED
        BY <1>3, <1>7, <1>8, <3>2, <4>1
    <3> QED
      BY <3>1, <3>3, <3>4
  <2>4. j.op \in {"deploy", "update", "reinstall", "setup", "validate"}
    BY <1>1, <2>1 DEF OpAt
  <2>5. CASE DownloadOk(g)
    BY <1>10, <2>2, <2>3, <2>4, <2>5 DEF DownloadOk, k, Inv, JobsInv
  <2>6. CASE DownloadFail(g)
    BY <1>10, <2>3, <2>6 DEF DownloadFail, k, Inv, JobsInv
  <2> QED
    BY <1>15, <2>5, <2>6
<1>16. CASE WipeBaseStep(g)
  <2>1. PICK x \in j.left : k = [j EXCEPT !.left = @ \ {x}]
    BY <1>16 DEF WipeBaseStep, k, Inv, JobsInv
  <2>2. /\ k.pc = "wipebase" /\ j.pc = "wipebase" /\ k.ports = j.ports
        /\ Cardinality(k.left) = Cardinality(j.left) - 1 /\ Cardinality(j.left) \in 0..2
    BY <1>1, <1>16, <2>1, PartsSize DEF Jobs, WipeBaseStep, At
  <2>3. /\ StepsOf(k, s) = 4 + all + (Cardinality(j.left) - 1)
        /\ StepsOf(j, r) = 4 + all + Cardinality(j.left)
    BY <2>2, StepsAt
  <2> QED
    BY <1>3, <1>8, <2>2, <2>3
<1>17. CASE WipeBaseEnd(g)
  <2>1. CASE Goto(g, "download")
    <3>1. j.op = "reinstall"
      BY <1>1, <1>17 DEF WipeBaseEnd, At, OpAt
    <3>2. StepsOf(k, s) = 3 + all
      BY <1>11, <2>1, <3>1, StepsAt
    <3>3. StepsOf(j, r) = 4 + all + Cardinality(j.left) /\ Cardinality(j.left) \in 0..2
      BY <1>1, <1>17, StepsAt, PartsSize DEF WipeBaseEnd, At, Jobs
    <3> QED
      BY <1>3, <1>8, <3>2, <3>3
  <2> QED
    BY <1>10, <1>17, <2>1 DEF WipeBaseEnd
\* deploy and remove.
<1>18. CASE Check(g)
  <2>1. j.pc = "check" /\ j.op = "deploy"
    BY <1>1, <1>18 DEF Check, At, OpAt
  <2>2. CASE \E to \in {"down", "download"} : Goto(g, to)
    <3>1. StepsOf(k, s) \in {31 + rest, 32 + rest}
      BY <1>11, <2>1, <2>2, StepsAt
    <3>2. StepsOf(j, r) = 33 + rest
      BY <2>1, StepsAt
    <3> QED
      BY <1>3, <1>8, <3>1, <3>2
  <2> QED
    BY <1>10, <1>18, <2>2 DEF Check
<1>19. CASE Down(g)
  <2>1. StepsOf(k, s) = 30 + rest /\ StepsOf(j, r) = 31 + rest
    BY <1>11, <1>19, StepsAt DEF Down, At
  <2> QED
    BY <1>3, <1>8, <2>1
<1>20. CASE Unmark(g)
  <2>1. k.pc = "sync" /\ k.ports = j.ports /\ k.todo = j.todo
    BY <1>11, <1>20 DEF Unmark
  <2>2. SyncLeft(k, s) = 21
    BY <2>1 DEF SyncLeft
  <2>3. StepsOf(k, s) = 3 + rest + 21
    BY <2>1, <2>2, StepsAt DEF SyncPcs
  <2>4. StepsOf(j, r) = 30 + rest
    BY <1>20, StepsAt DEF Unmark, At
  <2> QED
    BY <1>3, <1>8, <2>3, <2>4
<1>21. CASE Configure(g)
  <2>1. CASE Goto(g, "up")
    <3>1. StepsOf(k, s) = 1 + t /\ StepsOf(j, r) = 2 + rest
      BY <1>11, <1>21, <2>1, StepsAt DEF Configure, At
    <3> QED
      BY <1>3, <1>7, <1>8, <3>1
  <2> QED
    BY <1>10, <1>21, <2>1 DEF Configure
<1>22. CASE RemoveDown(g)
  <2>1. CASE Goto(g, "rmdir")
    <3>1. StepsOf(k, s) = 1 + s /\ s \in 0..4 /\ StepsOf(j, r) = 6
      BY <1>5, <1>11, <1>22, <2>1, StepsAt DEF RemoveDown, At
    <3> QED
      BY <1>3, <3>1
  <2> QED
    BY <1>10, <1>22, <2>1 DEF RemoveDown
<1>23. CASE DeployUp(g) \/ RemoveDirEnd(g) \/ LoopDone(g)
  BY <1>10, <1>23 DEF DeployUp, RemoveDirEnd, LoopDone
\* The loop over the copies.
<1>24. CASE SyncNext(g)
  <2>1. PICK p \in j.todo, to \in {"sync", "wipe"}, try \in {"link", "pre"} :
           k = [j EXCEPT !.pc = to, !.todo = @ \ {p}, !.port = p, !.try = try]
    BY <1>24 DEF SyncNext, k, Inv, JobsInv
  <2>2. k.pc \in {"sync", "wipe"} /\ k.ports = j.ports /\ Cardinality(k.todo) = t - 1
    BY <1>1, <1>7, <2>1 DEF Jobs
  <2>3. SyncLeft(k, s) \in 0..26
    BY <1>1, <1>5, <2>2, SyncSize DEF SyncPcs
  <2>4. StepsOf(k, s) = 3 + (n + PerCopy * (t - 1)) + SyncLeft(k, s)
    BY <2>2, StepsAt DEF SyncPcs
  <2>5. StepsOf(j, r) = 2 + (n + PerCopy * t)
    BY <1>24, StepsAt DEF SyncNext, At
  <2> QED
    BY <1>3, <1>7, <2>3, <2>4, <2>5 DEF PerCopy
<1>25. CASE SyncsDone(g)
  <2>1. k = [j EXCEPT !.pc = "up", !.todo = j.ports]
    BY <1>25 DEF SyncsDone, k, Inv, JobsInv
  <2>2. k.pc = "up" /\ k.todo = j.ports
    BY <1>1, <2>1 DEF Jobs
  <2>3. StepsOf(k, s) = 1 + n
    BY <2>2, StepsAt
  <2>4. StepsOf(j, r) = 2 + rest
    BY <1>25, StepsAt DEF SyncsDone, At
  <2> QED
    BY <1>3, <1>7, <1>8, <2>3, <2>4 DEF PerCopy
\* Inside a sync: it goes on, with fewer steps left.
<1>26. ASSUME j.pc \in SyncPcs, k.pc \in SyncPcs, k.ports = j.ports, k.todo = j.todo,
              SyncLeft(k, s) < SyncLeft(j, r)
       PROVE  StepsOf(k, s) < StepsOf(j, r)
  <2>1. SyncLeft(k, s) \in 0..26
    BY <1>1, <1>5, <1>26, SyncSize
  <2>2. StepsOf(k, s) = 3 + rest + SyncLeft(k, s) /\ StepsOf(j, r) = 3 + rest + SyncLeft(j, r)
    BY <1>26, StepsAt
  <2> QED
    BY <1>8, <1>9, <1>26, <2>1, <2>2
<1>27. Cardinality(j.left) \in 0..2 /\ Cardinality(Parts) \in 0..2
  BY <1>1, PartsSize DEF Jobs
<1>28. CASE SyncCheck(g)
  <2>1. CASE k = [j EXCEPT !.pc = "wipe", !.try = "link"]
    <3>1. k.pc = "wipe" /\ k.try = "link" /\ k.ports = j.ports /\ k.todo = j.todo /\ j.pc = "sync"
      BY <1>1, <1>28, <2>1 DEF Jobs, SyncCheck, At
    <3>2. SyncLeft(k, s) = s + 16 /\ SyncLeft(j, r) = 21 /\ s \in 0..4
      BY <1>5, <3>1 DEF SyncLeft, SyncPcs
    <3> QED
      BY <1>3, <1>26, <3>1, <3>2 DEF SyncPcs
  <2> QED
    BY <1>3, <1>12, <1>28, <2>1 DEF SyncCheck, At, SyncPcs, k, Inv, JobsInv
<1>29. CASE RemoveStep(g)
  <2>1. k = j /\ j.pc \in {"wipe", "rmdir"}
    BY <1>29 DEF RemoveStep, k
  <2>2. Cardinality(data[j.port]) \in 0..2
    BY <1>4, <2>1, PartsSize DEF Inv, Trees, SyncPcs
  <2>3. s < r
    <3>1. CASE \E x \in data[j.port] : data' = [data EXCEPT ![j.port] = @ \ {x}] /\ UNCHANGED <<marker, compose>>
      <4>1. PICK x \in data[j.port] : data' = [data EXCEPT ![j.port] = @ \ {x}]
        BY <3>1
      <4>2. data[j.port] \in SUBSET Parts /\ data'[j.port] = data[j.port] \ {x}
        BY <1>4, <2>1, <4>1 DEF Inv, Trees, SyncPcs
      <4>3. Cardinality(data'[j.port]) = Cardinality(data[j.port]) - 1
        BY <4>1, <4>2, PartsSize
      <4> QED
        BY <2>1, <2>2, <3>1, <4>3 DEF Rubbish, k
    <3>2. CASE marker[j.port] /\ marker' = [marker EXCEPT ![j.port] = FALSE] /\ UNCHANGED <<data, compose>>
      <4>1. ~marker'[j.port]
        BY <1>4, <2>1, <3>2 DEF Inv, Trees, SyncPcs
      <4> QED
        BY <2>1, <2>2, <3>2, <4>1 DEF Rubbish, k
    <3>3. CASE j.port \in compose /\ compose' = compose \ {j.port} /\ UNCHANGED <<data, marker>>
      BY <2>1, <2>2, <3>3 DEF Rubbish, k
    <3> QED
      BY <1>29, <3>1, <3>2, <3>3 DEF RemoveStep
  <2>4. r \in 0..4 /\ s \in 0..4
    BY <1>5, <2>1 DEF SyncPcs
  <2>5. CASE j.pc = "rmdir"
    <3>1. StepsOf(k, s) = 1 + s /\ StepsOf(j, r) = 1 + r
      BY <2>1, <2>5, StepsAt
    <3> QED
      BY <1>3, <2>3, <2>4, <3>1
  <2>6. CASE j.pc = "wipe"
    <3> DEFINE c == CASE j.try = "pre" -> 22 [] j.try = "link" -> 16 [] OTHER -> 8
    <3>1. SyncLeft(j, r) = r + c /\ SyncLeft(k, s) = s + c /\ c \in Nat
      BY <2>1, <2>6 DEF SyncLeft
    <3>2. SyncLeft(k, s) < SyncLeft(j, r)
      BY <2>3, <2>4, <3>1
    <3> QED
      BY <1>3, <1>26, <2>1, <2>6, <3>2 DEF SyncPcs
  <2> QED
    BY <2>1, <2>5, <2>6
<1>30. CASE WipeEnd(g)
  <2>1. j.pc = "wipe" /\ r \in 0..4
    BY <1>5, <1>30 DEF WipeEnd, At, SyncPcs
  <2>2. CASE Goto(g, "sync") /\ j.try = "pre"
    <3>1. SyncLeft(k, s) = 21 /\ SyncLeft(j, r) = r + 22
      BY <1>11, <2>1, <2>2 DEF SyncLeft
    <3> QED
      BY <1>3, <1>11, <1>26, <2>1, <2>2, <3>1 DEF SyncPcs
  <2>3. CASE k = [j EXCEPT !.pc = "copy", !.left = Parts] /\ j.try # "pre"
    <3>1. k.pc = "copy" /\ k.left = Parts /\ k.try = j.try /\ k.ports = j.ports /\ k.todo = j.todo
      BY <1>1, <2>3 DEF Jobs
    <3>2. CASE j.try = "link"
      <4>1. SyncLeft(k, s) = Cardinality(Parts) + 13 /\ SyncLeft(j, r) = r + 16
        BY <2>1, <3>1, <3>2 DEF SyncLeft
      <4> QED
        BY <1>3, <1>26, <1>27, <2>1, <3>1, <4>1 DEF SyncPcs
    <3>3. CASE j.try \in {"relink", "deep"}
      <4>1. SyncLeft(k, s) \in {Cardinality(Parts) + 2, Cardinality(Parts) + 5} /\ SyncLeft(j, r) = r + 8
        BY <2>1, <3>1, <3>3 DEF SyncLeft
      <4> QED
        BY <1>3, <1>26, <1>27, <2>1, <3>1, <4>1 DEF SyncPcs
    <3> QED
      BY <1>1, <2>3, <3>2, <3>3 DEF Jobs
  <2>4. CASE SyncEnds(g, FALSE)
    BY <1>12, <2>1, <2>4 DEF SyncPcs
  <2> QED
    BY <1>30, <2>2, <2>3, <2>4 DEF WipeEnd, k, Inv, JobsInv
<1>31. CASE CopyStep(g)
  <2>1. PICK x \in base \cap j.left : k = [j EXCEPT !.left = @ \ {x}]
    BY <1>31 DEF CopyStep, k, Inv, JobsInv
  <2>2. /\ j.pc = "copy" /\ k.pc = "copy" /\ k.try = j.try /\ k.ports = j.ports /\ k.todo = j.todo
        /\ Cardinality(k.left) = Cardinality(j.left) - 1
    BY <1>1, <1>31, <2>1, PartsSize DEF Jobs, CopyStep, At
  <2> DEFINE c == CASE j.try = "deep" -> 2 [] j.try = "relink" -> 5 [] OTHER -> 13
  <2>3. SyncLeft(k, s) = Cardinality(k.left) + c /\ SyncLeft(j, r) = Cardinality(j.left) + c /\ c \in Nat
    BY <2>2 DEF SyncLeft
  <2>4. SyncLeft(k, s) < SyncLeft(j, r)
    BY <1>27, <2>2, <2>3
  <2> QED
    BY <1>3, <1>26, <2>2, <2>4 DEF SyncPcs
<1>32. CASE CopyOk(g)
  <2>1. j.pc = "copy" /\ k.pc = "verify" /\ k.ports = j.ports /\ k.todo = j.todo
    BY <1>11, <1>32 DEF CopyOk, At
  <2>2. SyncLeft(k, s) = 1 /\ SyncLeft(j, r) \in {Cardinality(j.left) + c : c \in {2, 5, 13}}
    BY <2>1 DEF SyncLeft
  <2> QED
    BY <1>3, <1>26, <1>27, <2>1, <2>2 DEF SyncPcs
<1>33. CASE CopyFail(g)
  <2>1. j.pc = "copy"
    BY <1>33 DEF CopyFail, At
  <2>2. CASE j.try = "link" /\ k = [j EXCEPT !.pc = "wipe", !.try = "relink"]
    <3>1. k.pc = "wipe" /\ k.try = "relink" /\ k.ports = j.ports /\ k.todo = j.todo
      BY <1>1, <2>2 DEF Jobs
    <3>2. SyncLeft(k, s) = s + 8 /\ s \in 0..4 /\ SyncLeft(j, r) = Cardinality(j.left) + 13
      BY <1>5, <2>1, <2>2, <3>1 DEF SyncLeft, SyncPcs
    <3> QED
      BY <1>3, <1>26, <1>27, <2>1, <3>1, <3>2 DEF SyncPcs
  <2>3. CASE j.try \in {"link", "relink"} /\ k = [j EXCEPT !.try = "deep", !.left = Parts]
    <3>1. k.pc = "copy" /\ k.try = "deep" /\ k.left = Parts /\ k.ports = j.ports /\ k.todo = j.todo
      BY <1>1, <2>1, <2>3 DEF Jobs
    <3>2. /\ SyncLeft(k, s) = Cardinality(Parts) + 2
          /\ SyncLeft(j, r) \in {Cardinality(j.left) + 5, Cardinality(j.left) + 13}
      BY <2>1, <2>3, <3>1 DEF SyncLeft
    <3> QED
      BY <1>3, <1>26, <1>27, <2>1, <3>1, <3>2 DEF SyncPcs
  <2>4. CASE SyncEnds(g, FALSE)
    BY <1>12, <2>1, <2>4 DEF SyncPcs
  <2> QED
    BY <1>33, <2>2, <2>3, <2>4 DEF CopyFail, k, Inv, JobsInv
<1>34. CASE Verify(g)
  <2>1. j.pc = "verify"
    BY <1>34 DEF Verify, At
  <2>2. CASE Goto(g, "mark")
    <3>1. SyncLeft(k, s) = 0 /\ SyncLeft(j, r) = 1
      BY <1>11, <2>1, <2>2 DEF SyncLeft
    <3> QED
      BY <1>3, <1>11, <1>26, <2>1, <2>2, <3>1 DEF SyncPcs
  <2> QED
    BY <1>12, <1>34, <2>1, <2>2 DEF Verify, SyncPcs
<1>35. CASE Mark(g)
  BY <1>12, <1>35 DEF Mark, At, SyncPcs
<1> QED
  BY <1>13, <1>14, <1>15, <1>16, <1>17, <1>18, <1>19, <1>20, <1>21, <1>22, <1>23, <1>24, <1>25,
     <1>28, <1>29, <1>30, <1>31, <1>32, <1>33, <1>34, <1>35 DEF Progress

\* StepsLeft is a number.
LEMMA StepsNatural ==
    ASSUME Inv, NEW g \in Goroutines
    PROVE  StepsLeft(g) \in Nat
<1> DEFINE j == job[g]
           r == Rubbish(j.port)
<1>1. j \in Jobs /\ OpAt(j.op, j.pc) /\ PortsAt(j)
  BY DEF Inv, JobsInv, Shape
<1>2. CASE j.pc = "idle"
  BY <1>2 DEF StepsLeft, StepsOf
<1>3. CASE j.pc # "idle"
  <2>1. j.pc \in SyncPcs \cup {"rmdir"} => j.port \in Ports
    BY <1>1 DEF OpAt, PortsAt, SyncPcs, Jobs
  <2>2. j.pc \in SyncPcs \cup {"rmdir"} => r \in 0..4
    BY <2>1, RubbishSize DEF Inv
  <2> QED
    BY <1>1, <1>3, <2>2, BusySteps DEF StepsLeft
<1> QED
  BY <1>2, <1>3

\* For any number of instances, of commands at a time and of restarts, and whatever fails:
\* StepsLeft is a natural number that every step of the command makes smaller, so that no
\* command goes round for ever.
THEOREM CommandsShrink == Spec => EveryStepCounts /\ [](\A g \in Goroutines : StepsLeft(g) \in Nat)
<1>1. Inv /\ Inv' /\ [Next]_vars => [\A g \in Goroutines : Progress(g) => StepsLeft(g)' < StepsLeft(g)]_vars
  BY StepsCount
<1>2. Inv => \A g \in Goroutines : StepsLeft(g) \in Nat
  BY StepsNatural
<1> QED
  BY <1>1, <1>2, JobInvariant, PTL DEF Spec, EveryStepCounts

=============================================================================
