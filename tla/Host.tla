-------------------------------- MODULE Host --------------------------------
(***************************************************************************)
(* The commands that work on the game installation: deploy, stop, remove,  *)
(* restart, update_base, reinstall_base, setup_base and validate_base, each *)
(* run by a goroutine of its own, over the shared base tree, the instances' *)
(* copies of it and the Docker containers.                                 *)
(*                                                                         *)
(* A tree is the set of its critical parts that are present: SteamCMD, cp   *)
(* and rm change it part by part.  Docker, SteamCMD, cp and rm may fail at  *)
(* any point; the agent may be restarted at any point (systemd, or its own *)
(* self-update), which ends every goroutine and leaves files and containers *)
(* as they are.  File ownership, plugins, configuration files other than   *)
(* docker-compose.yml and firewall rules are left out.                     *)
(***************************************************************************)
EXTENDS Naturals, FiniteSets

CONSTANTS
    Ports,           \* the instances, named by their game port
    Goroutines,      \* bound: the commands that may run at the same time
    Ops,             \* the commands the platform uses
    Faults,          \* what may fail, besides SteamCMD: "docker", "files"
    MaxContainers,   \* maxContainers, 20 in the code
    Restarts         \* bound: how often the agent is restarted

Commands == {"deploy", "stop", "remove", "restart", "update", "reinstall", "setup", "validate"}
Parts == {"bin", "csgo"}      \* cs2CriticalFiles

ASSUME HostAssumption == /\ Ops \subseteq Commands /\ Faults \subseteq {"docker", "files"}
                         /\ MaxContainers \in Nat /\ Restarts \in Nat
                         /\ IsFiniteSet(Ports)

VARIABLES
    base,        \* the parts present in cs2-base
    data,        \* data[p]: the parts present in p's cs2-data
    marker,      \* marker[p]: cs2-data holds .rushborg-cs2-ready
    dir,         \* the instances that have a directory
    compose,     \* the instances that have a docker-compose.yml
    container,   \* container[p]: "none", "up" or "stopped"
    job,         \* job[g]: what goroutine g does
    restarts,    \* how often the agent was restarted
    owed,        \* history: owed[p], the command that stopped p and has not tried to start it
    onMarked     \* history: onMarked[p], p's container was last started on a marked copy

files == <<base, data, marker, dir, compose>>
vars  == <<base, data, marker, dir, compose, container, job, restarts, owed, onMarked>>

Idle == [op |-> "none", pc |-> "idle", port |-> "none", todo |-> {}, ports |-> {},
         skip |-> {}, try |-> "link", left |-> Parts]

Init ==
    /\ base \in {{}, Parts}
    /\ data = [p \in Ports |-> {}] /\ marker = [p \in Ports |-> FALSE]
    /\ dir = {} /\ compose = {}
    /\ container = [p \in Ports |-> "none"]
    /\ job = [g \in Goroutines |-> Idle]
    /\ restarts = 0
    /\ owed = [p \in Ports |-> "none"] /\ onMarked = [p \in Ports |-> TRUE]

Running == {p \in Ports : container[p] = "up"}
At(g, pc) == job[g].pc = pc
Goto(g, pc) == job' = [job EXCEPT ![g].pc = pc]
\* A write below p's directory may fail, and does when another command removed it.
FileFault(p) == "files" \in Faults \/ p \notin dir
\* The markers of the ports ps are removed; an error is ignored.
Unmarks(ps) ==
    \E kept \in SUBSET ps :
        /\ kept # {} => "files" \in Faults
        /\ marker' = [p \in Ports |-> marker[p] /\ p \notin ps \ kept]
Return(g) == job' = [job EXCEPT ![g] = Idle]

-----------------------------------------------------------------------------
(* docker compose on one instance                                          *)

\* Port p is started, with some result, or the attempt fails and leaves it as it
\* is or with a container that does not run.  From here on nobody owes p a start.
StartOrFail(p, canStart) ==
    /\ owed' = [owed EXCEPT ![p] = "none"]
    /\ \/ /\ canStart
          /\ container' = [container EXCEPT ![p] = "up"]
          /\ onMarked' = [onMarked EXCEPT ![p] = marker[p]]
       \/ /\ "docker" \in Faults \/ ~canStart
          /\ \/ UNCHANGED container
             \/ canStart /\ container' = [container EXCEPT ![p] = "stopped"]
          /\ UNCHANGED onMarked

\* up --force-recreate starts the container anew, up alone leaves one that runs.
ComposeRecreate(p) == StartOrFail(p, p \in compose)
ComposeUp(p) ==
    \/ StartOrFail(p, p \in compose /\ container[p] # "up")
    \/ /\ p \in compose /\ container[p] = "up"
       /\ owed' = [owed EXCEPT ![p] = "none"]
       /\ UNCHANGED <<container, onMarked>>
\* restart does nothing where there is no container
ComposeRestart(p) == StartOrFail(p, p \in compose /\ container[p] # "none")

Stopped(p) == container' = [container EXCEPT ![p] = IF @ = "none" THEN @ ELSE "stopped"]

\* stop, for the command by.  Whether compose reports an error is all the same to its
\* callers: it has stopped the container, or not.
ComposeStop(p, by) ==
    \/ /\ p \in compose
       /\ Stopped(p)
       /\ owed' = [owed EXCEPT ![p] = IF container[p] = "up" /\ by # "stop" THEN by ELSE @]
       /\ UNCHANGED onMarked
    \/ /\ "docker" \in Faults \/ p \notin compose
       /\ UNCHANGED <<container, owed, onMarked>>

-----------------------------------------------------------------------------
(* HandleCommand: a goroutine takes up a command                           *)

TakeUp(g, op, p, ports, skip, pc) ==
    /\ At(g, "idle") /\ op \in Ops
    /\ job' = [job EXCEPT ![g] = [Idle EXCEPT !.op = op, !.pc = pc, !.port = p,
                                             !.todo = ports, !.ports = ports, !.skip = skip]]
    /\ UNCHANGED <<files, container, restarts, owed, onMarked>>

StartDeploy(g)  == \E p \in Ports : TakeUp(g, "deploy", p, {}, {}, "check")
StartStop(g)    == \E p \in Ports : TakeUp(g, "stop", p, {p}, {}, "stop")
StartRemove(g)  == \E p \in Ports : TakeUp(g, "remove", p, {}, {}, "remove")
\* restart_server is restart_servers with one port
StartRestart(g) == \E ps \in SUBSET Ports \ {{}} : TakeUp(g, "restart", "none", ps, {}, "restart")
\* (mutant of StartUpdate) the ports to skip are stopped like the others
UpdateStopsAll(g) == \E skip \in SUBSET Ports : TakeUp(g, "update", "none", dir, skip, "stop")

\* update_base lists the instance directories and leaves out the ports to skip
StartUpdate(g)  == \E skip \in SUBSET Ports : TakeUp(g, "update", "none", dir \ skip, skip, "stop")
StartReinstall(g) == TakeUp(g, "reinstall", "none", dir, {}, "stop")
StartSetup(g)    == TakeUp(g, "setup", "none", {}, {}, "download")
StartValidate(g) == TakeUp(g, "validate", "none", {}, {}, "download")

-----------------------------------------------------------------------------
(* The loops over ports that stop and start instances                      *)

StopNext(g) ==
    /\ At(g, "stop")
    /\ \E p \in job[g].todo :
          /\ ComposeStop(p, job[g].op)
          /\ job' = [job EXCEPT ![g].todo = @ \ {p}]
    /\ UNCHANGED <<files, restarts>>

\* Everything is stopped: stop_server returns, the others go on to the base, which
\* reinstall_base lists to wipe it.
StopDone(g) ==
    /\ At(g, "stop") /\ job[g].todo = {}
    /\ CASE job[g].op = "stop" -> Return(g)
         [] job[g].op = "update" -> Goto(g, "download")
         [] job[g].op = "reinstall" ->
              job' = [job EXCEPT ![g].pc = "wipebase", ![g].left = base]
    /\ UNCHANGED <<files, container, restarts, owed, onMarked>>

RestartNext(g) ==
    /\ At(g, "restart")
    /\ \E p \in job[g].todo :
          /\ ComposeRestart(p)
          /\ job' = [job EXCEPT ![g].todo = @ \ {p}]
    /\ UNCHANGED <<files, restarts>>

\* The last step of update_base and reinstall_base, and the deferred recovery of
\* update_base after an error: up -d for every port that was to be stopped.
UpNext(g) ==
    /\ At(g, "up") /\ job[g].op \in {"update", "reinstall"}
    /\ \E p \in job[g].todo :
          /\ ComposeUp(p)
          /\ job' = [job EXCEPT ![g].todo = @ \ {p}]
    /\ UNCHANGED <<files, restarts>>

LoopDone(g) ==
    /\ job[g].pc \in {"restart", "up"} /\ job[g].op # "deploy" /\ job[g].todo = {}
    /\ Return(g)
    /\ UNCHANGED <<files, container, restarts, owed, onMarked>>

-----------------------------------------------------------------------------
(* The base tree.  SteamCmd models downloadCS2ViaSteamCMD itself.          *)

\* SteamCMD, or its auto-wipe, adds and removes parts.
DownloadStep(g) ==
    /\ At(g, "download")
    /\ base' \in SUBSET Parts
    /\ UNCHANGED <<data, marker, dir, compose, container, job, restarts, owed, onMarked>>

\* It ends well only if it sees the binary.  validate_base looks at nothing.
DownloadOk(g) ==
    /\ At(g, "download") /\ ("bin" \in base \/ job[g].op = "validate")
    /\ CASE job[g].op = "deploy" -> Goto(g, "down")
         [] job[g].op \in {"update", "reinstall"} ->
              job' = [job EXCEPT ![g].pc = "next", ![g].todo = job[g].ports]
         [] job[g].op \in {"setup", "validate"} -> Return(g)
    /\ UNCHANGED <<files, container, restarts, owed, onMarked>>

\* (mutant of DownloadFail) update_base has no recovery guard
NoRecovery(g) ==
    /\ At(g, "download")
    /\ Return(g)
    /\ UNCHANGED <<files, container, restarts, owed, onMarked>>

\* It fails: update_base has its recovery guard, the others just return.
DownloadFail(g) ==
    /\ At(g, "download")
    /\ IF job[g].op = "update"
       THEN job' = [job EXCEPT ![g].pc = "up", ![g].todo = job[g].ports]
       ELSE Return(g)
    /\ UNCHANGED <<files, container, restarts, owed, onMarked>>

\* wipeCS2Base removes the entries it listed one by one, up to the first error.
WipeBaseStep(g) ==
    /\ At(g, "wipebase")
    /\ \E x \in job[g].left : /\ base' = base \ {x}
                             /\ job' = [job EXCEPT ![g].left = @ \ {x}]
    /\ UNCHANGED <<data, marker, dir, compose, container, restarts, owed, onMarked>>

WipeBaseEnd(g) ==
    /\ At(g, "wipebase")
    /\ \/ job[g].left = {} /\ Goto(g, "download")
       \/ "files" \in Faults /\ Return(g)
    /\ UNCHANGED <<files, container, restarts, owed, onMarked>>

-----------------------------------------------------------------------------
(* deployServer                                                            *)

\* docker ps counts the running containers; when it fails, nothing is checked.
Check(g) ==
    /\ At(g, "check")
    /\ LET full == Cardinality(Running) >= MaxContainers
       IN \/ (full \/ "files" \in Faults) /\ Return(g) /\ UNCHANGED dir
          \/ /\ full => "docker" \in Faults
             /\ dir' = dir \cup {job[g].port}
             /\ Goto(g, IF "bin" \in base THEN "down" ELSE "download")
    /\ UNCHANGED <<base, data, marker, compose, container, restarts, owed, onMarked>>

\* compose down, docker rm -f: the instance's container goes, if Docker lets it, and
\* may be stopped if it does not.
Down(g) ==
    /\ At(g, "down")
    /\ \/ container' = [container EXCEPT ![job[g].port] = "none"]
       \/ "docker" \in Faults /\ (UNCHANGED container \/ Stopped(job[g].port))
    /\ Goto(g, "unmark")
    /\ UNCHANGED <<files, restarts, owed, onMarked>>

\* The marker is removed, so that the copy is made anew.
Unmark(g) ==
    /\ At(g, "unmark")
    /\ Unmarks({job[g].port})
    /\ Goto(g, "sync")
    /\ UNCHANGED <<base, data, dir, compose, container, restarts, owed, onMarked>>

\* steamclient.so, server.cfg, matchzy.cfg and docker-compose.yml are written.  The first
\* brings back a directory that another command has removed.
Configure(g) ==
    /\ At(g, "configure")
    /\ LET made == dir \cup {job[g].port}
       IN \/ dir' = made /\ compose' = compose \cup {job[g].port} /\ Goto(g, "up")
          \/ /\ FileFault(job[g].port)
             /\ dir' \in {dir, made} /\ Return(g) /\ UNCHANGED compose
    /\ UNCHANGED <<base, data, marker, container, restarts, owed, onMarked>>

DeployUp(g) ==
    /\ At(g, "up") /\ job[g].op = "deploy"
    /\ ComposeRecreate(job[g].port)
    /\ Return(g)
    /\ UNCHANGED <<files, restarts>>

-----------------------------------------------------------------------------
(* removeServer                                                            *)

\* compose down; with an error, which may come at any point of it, all files stay.
RemoveDown(g) ==
    /\ At(g, "remove")
    /\ LET p == job[g].port
           gone == container' = [container EXCEPT ![p] = "none"]
       IN \/ p \in compose /\ gone /\ Goto(g, "rmdir")
          \/ /\ \/ p \notin compose /\ UNCHANGED container
                \/ "docker" \in Faults /\ (UNCHANGED container \/ Stopped(p) \/ gone)
             /\ Return(g)
    /\ UNCHANGED <<files, restarts, owed, onMarked>>

\* (mutant of RemoveDirEnd) the instance is forgotten although files are left
RemoveForgets(g) ==
    /\ At(g, "rmdir")
    /\ dir' = dir \ {job[g].port}
    /\ Return(g)
    /\ UNCHANGED <<base, data, marker, compose, container, restarts, owed, onMarked>>

\* os.RemoveAll of the instance directory; an error is ignored.
RemoveDirEnd(g) ==
    /\ At(g, "rmdir")
    /\ LET p == job[g].port
           empty == data[p] = {} /\ ~marker[p] /\ p \notin compose
       IN /\ empty \/ ("files" \in Faults /\ ~marker[p])
          /\ dir' = IF empty THEN dir \ {p} ELSE dir
    /\ Return(g)
    /\ UNCHANGED <<base, data, marker, compose, container, restarts, owed, onMarked>>

-----------------------------------------------------------------------------
(* syncCs2DataFromBase and the loops that call it                          *)

\* update_base and reinstall_base rebuild the copies of the ports they stopped:
\* the one removes the marker first, the other the whole tree.
SyncNext(g) ==
    /\ At(g, "next")
    /\ \E p \in job[g].todo :
          IF job[g].op = "update"
          THEN /\ Unmarks({p})
               /\ job' = [job EXCEPT ![g].pc = "sync", ![g].todo = @ \ {p}, ![g].port = p,
                                     ![g].try = "link"]
          ELSE /\ job' = [job EXCEPT ![g].pc = "wipe", ![g].todo = @ \ {p}, ![g].port = p,
                                     ![g].try = "pre"]
               /\ UNCHANGED marker
    /\ UNCHANGED <<base, data, dir, compose, container, restarts, owed, onMarked>>

\* All are rebuilt: update_base takes the marker of the skipped ports too, and
\* the containers are started.
SyncsDone(g) ==
    /\ At(g, "next") /\ job[g].todo = {}
    /\ Unmarks(job[g].skip)
    /\ job' = [job EXCEPT ![g].pc = "up", ![g].todo = job[g].ports]
    /\ UNCHANGED <<base, data, dir, compose, container, restarts, owed, onMarked>>

\* (mutant of SyncEnds) deploy goes on whatever came of the sync
SyncErrorIgnored(g, ok) ==
    IF job[g].op = "deploy" THEN Goto(g, "configure") ELSE Goto(g, "next")

\* Where a sync leads: deploy goes on or gives up, the loops go on either way.
SyncEnds(g, ok) ==
    CASE job[g].op # "deploy" -> Goto(g, "next")
      [] job[g].op = "deploy" /\ ok -> Goto(g, "configure")
      [] OTHER -> Return(g)

\* (mutant of SyncCheck) the cs2 binary alone makes a copy ready
BinaryIsReady(g) ==
    /\ At(g, "sync")
    /\ LET p == job[g].port
       IN /\ dir' = dir \cup {p}
          /\ IF "bin" \in data[p] THEN SyncEnds(g, TRUE)
             ELSE job' = [job EXCEPT ![g].pc = "wipe", ![g].try = "link"]
    /\ UNCHANGED <<base, data, marker, compose, container, restarts, owed, onMarked>>

\* isCs2DataReady: a good copy is kept, anything else is rebuilt.
SyncCheck(g) ==
    /\ At(g, "sync")
    /\ LET p == job[g].port
       IN /\ dir' = dir \cup {p}
          /\ IF marker[p] /\ data[p] = Parts THEN SyncEnds(g, TRUE)
             ELSE job' = [job EXCEPT ![g].pc = "wipe", ![g].try = "link"]
    /\ UNCHANGED <<base, data, marker, compose, container, restarts, owed, onMarked>>

\* One entry of a tree that is being removed goes, in any order.
RemoveStep(g) ==
    /\ job[g].pc \in {"wipe", "rmdir"}
    /\ LET p == job[g].port
       IN \/ /\ \E x \in data[p] : data' = [data EXCEPT ![p] = @ \ {x}]
             /\ UNCHANGED <<marker, compose>>
          \/ /\ marker[p] /\ marker' = [marker EXCEPT ![p] = FALSE]
             /\ UNCHANGED <<data, compose>>
          \/ /\ At(g, "rmdir") /\ p \in compose /\ compose' = compose \ {p}
             /\ UNCHANGED <<data, marker>>
    /\ UNCHANGED <<base, dir, container, job, restarts, owed, onMarked>>

\* removeCs2DataTree ends.  Only the wipe at the start of a sync may fail it; the
\* one of reinstall_base ("pre") and the one before the retry are not checked.
\* A removal goes on after an error, so one that fails leaves the marker only
\* where it could remove nothing.
WipeEnd(g) ==
    /\ At(g, "wipe")
    /\ LET p == job[g].port
           clean == data[p] = {} /\ ~marker[p]
       IN /\ clean \/ ("files" \in Faults /\ (marker[p] => data[p] = Parts))
          /\ CASE job[g].try = "pre" -> Goto(g, "sync")
               [] job[g].try = "link" /\ ~clean -> SyncEnds(g, FALSE)
               [] OTHER -> job' = [job EXCEPT ![g].pc = "copy", ![g].left = Parts]
          /\ dir' = dir \cup {p}
    /\ UNCHANGED <<base, data, marker, compose, container, restarts, owed, onMarked>>

\* cp passes every entry of the base once.
CopyStep(g) ==
    /\ At(g, "copy") /\ job[g].port \in dir
    /\ \E x \in base \cap job[g].left :
          /\ data' = [data EXCEPT ![job[g].port] = @ \cup {x}]
          /\ job' = [job EXCEPT ![g].left = @ \ {x}]
    /\ UNCHANGED <<base, marker, dir, compose, container, restarts, owed, onMarked>>

CopyOk(g) ==
    /\ At(g, "copy") /\ base \cap job[g].left = {}
    /\ Goto(g, "verify")
    /\ UNCHANGED <<files, container, restarts, owed, onMarked>>

\* (mutant of CopyFail) the wiped retry is tried again and again
RetriesForever(g) ==
    /\ At(g, "copy") /\ FileFault(job[g].port)
    /\ job' = [job EXCEPT ![g].pc = "wipe", ![g].try = "relink"]
    /\ UNCHANGED <<files, container, restarts, owed, onMarked>>

\* cp -al fails: the base is chowned and the copy is wiped and tried again, or,
\* when that is not possible or has failed, made with cp -a; then the sync fails.
CopyFail(g) ==
    /\ At(g, "copy") /\ FileFault(job[g].port)
    /\ \/ job[g].try = "link" /\ job' = [job EXCEPT ![g].pc = "wipe", ![g].try = "relink"]
       \/ job[g].try \in {"link", "relink"} /\ job' = [job EXCEPT ![g].try = "deep", ![g].left = Parts]
       \/ job[g].try = "deep" /\ SyncEnds(g, FALSE)
    /\ UNCHANGED <<files, container, restarts, owed, onMarked>>

\* (mutant of Verify) a copy that ended well is believed
NoVerify(g) ==
    /\ At(g, "verify")
    /\ Goto(g, "mark")
    /\ UNCHANGED <<files, container, restarts, owed, onMarked>>

\* The critical files must have landed ...
Verify(g) ==
    /\ At(g, "verify")
    /\ IF data[job[g].port] = Parts THEN Goto(g, "mark") ELSE SyncEnds(g, FALSE)
    /\ UNCHANGED <<files, container, restarts, owed, onMarked>>

\* ... before the marker is written.
Mark(g) ==
    /\ At(g, "mark")
    /\ \/ /\ job[g].port \in dir
          /\ marker' = [marker EXCEPT ![job[g].port] = TRUE]
          /\ SyncEnds(g, TRUE)
       \/ FileFault(job[g].port) /\ SyncEnds(g, FALSE) /\ UNCHANGED marker
    /\ UNCHANGED <<base, data, dir, compose, container, restarts, owed, onMarked>>

-----------------------------------------------------------------------------
\* The agent is restarted: every goroutine is gone.
AgentRestart ==
    /\ restarts < Restarts
    /\ restarts' = restarts + 1
    /\ job' = [g \in Goroutines |-> Idle]
    /\ UNCHANGED <<files, container, owed, onMarked>>

HandleCommand(g) ==
    \/ StartDeploy(g) \/ StartStop(g) \/ StartRemove(g) \/ StartRestart(g)
    \/ StartUpdate(g) \/ StartReinstall(g) \/ StartSetup(g) \/ StartValidate(g)

\* A step of a command that has begun, other than SteamCMD's work on the base.
Progress(g) ==
    \/ StopNext(g) \/ StopDone(g) \/ RestartNext(g) \/ UpNext(g) \/ LoopDone(g)
    \/ DownloadOk(g) \/ DownloadFail(g) \/ WipeBaseStep(g) \/ WipeBaseEnd(g)
    \/ Check(g) \/ Down(g) \/ Unmark(g) \/ Configure(g) \/ DeployUp(g)
    \/ RemoveDown(g) \/ RemoveDirEnd(g)
    \/ SyncNext(g) \/ SyncsDone(g) \/ SyncCheck(g) \/ RemoveStep(g) \/ WipeEnd(g)
    \/ CopyStep(g) \/ CopyOk(g) \/ CopyFail(g) \/ Verify(g) \/ Mark(g)

Next == \/ \E g \in Goroutines : HandleCommand(g) \/ Progress(g) \/ DownloadStep(g)
        \/ AgentRestart

Spec == Init /\ [][Next]_vars

\* A goroutine whose command has begun goes on: the programs it runs (docker, cp,
\* rm, SteamCMD with its five attempts) come to an end.
FairSpec == Spec /\ \A g \in Goroutines : WF_vars(Progress(g))

-----------------------------------------------------------------------------
(* Properties                                                              *)

Jobs ==
    [op : Ops \cup {"none"},
     pc : {"idle", "check", "download", "down", "unmark", "sync", "wipe", "copy", "verify",
           "mark", "configure", "up", "stop", "remove", "rmdir", "restart", "wipebase", "next"},
     port : Ports \cup {"none"}, todo : SUBSET Ports, ports : SUBSET Ports,
     skip : SUBSET Ports, try : {"pre", "link", "relink", "deep"}, left : SUBSET Parts]

\* Every variable keeps its type, and docker-compose.yml is only where its
\* directory is, even when a removal is cut short or meets a deploy.
TypeOK ==
    /\ base \subseteq Parts
    /\ data \in [Ports -> SUBSET Parts] /\ marker \in [Ports -> BOOLEAN]
    /\ dir \subseteq Ports /\ compose \subseteq dir
    /\ container \in [Ports -> {"none", "up", "stopped"}]
    /\ job \in [Goroutines -> Jobs]
    /\ restarts \in 0..Restarts
    /\ owed \in [Ports -> {"none", "update", "reinstall"}] /\ onMarked \in [Ports -> BOOLEAN]

\* "Marker presence = copy is trustworthy": outside a removal, a copy with the
\* ready marker has every critical file.
Removing(p) == \E g \in Goroutines : job[g].pc \in {"wipe", "rmdir"} /\ job[g].port = p
MarkerTrustworthy == \A p \in Ports : marker[p] /\ ~Removing(p) => data[p] = Parts

\* A deploy that reports "started" started its container on a complete copy, no
\* matter what earlier commands, failures and restarts had left behind.
DeployStartsComplete ==
    [][\A g \in Goroutines :
          DeployUp(g) /\ container'[job[g].port] = "up" => data[job[g].port] = Parts]_vars

\* Recovery guard: update_base never ends, well or with an error, with an instance
\* it stopped and did not try to start again.
Owes(g, p, op) == job[g].op = op /\ p \in job[g].ports
UpdatePaysBack ==
    \A p \in Ports : owed[p] = "update" => \E g \in Goroutines : Owes(g, p, "update")

\* A command changes the container and the files of the instances that it was sent
\* for, and of no other; update_base works on all but those it is told to skip.
Concerned(g) ==
    CASE job[g].op \in {"deploy", "stop", "remove"} -> {job[g].port}
      [] job[g].op = "restart" -> job[g].todo
      [] job[g].op = "update" -> Ports \ job[g].skip
      [] job[g].op = "reinstall" -> Ports
      [] OTHER -> {}
Servers == INSTANCE Instances WITH busy <- [g \in Goroutines |-> Concerned(g)]
InstancesKept == Servers!Spec

\* Every command that is not disturbed by others ends, whatever fails and whatever it
\* finds.  With UpdatePaysBack: what update_base stopped is started in the end.
CommandsEnd == \A g \in Goroutines : job[g].op # "none" ~> job[g].op = "none"

-----------------------------------------------------------------------------
(* Commands at the same time                                               *)

\* No command removes the files of an instance between the check that another command
\* made of them and what that one then does: writes the marker, or starts its container.
\* Nothing in the agent prevents it; the platform can, with one such command per instance.
Undisturbed ==
    \A g, h \in Goroutines :
       job[h].pc \in {"wipe", "rmdir"} /\ job[h].port = job[g].port =>
          ~At(g, "mark") /\ ~(job[g].op = "deploy" /\ job[g].pc \in {"configure", "up"})

TogetherSpec == Init /\ [][Next /\ Undisturbed']_vars

-----------------------------------------------------------------------------
(* Why commands end                                                        *)

\* What a removal of p's tree has still to remove.
Rubbish(p) == Cardinality(data[p]) + (IF marker[p] THEN 1 ELSE 0) + (IF p \in compose THEN 1 ELSE 0)

\* The steps that a sync may still take, rubbish being what its copy holds: reinstall_base
\* wipes the copy before it, the sync before the first cp and before the retry, and cp
\* comes up to three times.
SyncLeft(j, rubbish) ==
    CASE j.pc = "sync"   -> 21
      [] j.pc = "wipe"   -> rubbish + (CASE j.try = "pre"  -> 22
                                         [] j.try = "link" -> 16
                                         [] OTHER          -> 8)
      [] j.pc = "copy"   -> Cardinality(j.left) + (CASE j.try = "deep"   -> 2
                                                     [] j.try = "relink" -> 5
                                                     [] OTHER            -> 13)
      [] j.pc = "verify" -> 1
      [] j.pc = "mark"   -> 0

\* The steps that a command may still take, SteamCMD's on the base aside: at most PerCopy
\* for each copy that is rebuilt, and one for each instance that is stopped or started.
PerCopy == 28
StepsOf(j, rubbish) ==
    LET n    == Cardinality(j.ports)
        k    == Cardinality(j.todo)
        rest == n + PerCopy * k
        all  == n + PerCopy * n
    IN CASE j.pc = "idle"                 -> 0
         [] j.pc \in {"restart", "up"}    -> 1 + k
         [] j.pc = "rmdir"                -> 1 + rubbish
         [] j.pc = "remove"               -> 6
         [] j.pc \in {"next", "configure"} -> 2 + rest
         [] j.pc \in {"sync", "wipe", "copy", "verify", "mark"} -> 3 + rest + SyncLeft(j, rubbish)
         [] j.pc = "unmark"               -> 30 + rest
         [] j.pc = "down"                 -> 31 + rest
         [] j.pc = "download"             -> IF j.op = "deploy" THEN 32 + rest ELSE 3 + all
         [] j.pc = "check"                -> 33 + rest
         [] j.pc = "wipebase"             -> 4 + all + Cardinality(j.left)
         [] j.pc = "stop"                 -> 7 + all + k
StepsLeft(g) == StepsOf(job[g], Rubbish(job[g].port))

\* Every step that a command takes leaves it fewer to take, whatever fails, whatever it
\* finds and whatever others do: no loop, retry or recovery goes round for ever.  Another
\* command can give it more to do only by filling the tree that it removes.
EveryStepCounts == [][\A g \in Goroutines : Progress(g) => StepsLeft(g)' < StepsLeft(g)]_vars

-----------------------------------------------------------------------------
(* What the code's comments say and the code does not do                   *)

\* "... instead of writing the marker and letting the container crash-loop", and
\* "the entrypoint sees that the marker is missing and resyncs": no container runs
\* that was started on a copy without the marker.  update_base ignores the error of
\* a sync, and a restart resyncs nothing.
StartedOnMarked == \A p \in Ports : container[p] = "up" => onMarked[p]
=============================================================================
