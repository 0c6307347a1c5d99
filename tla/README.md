# A verification project for cs2-server

The repository holds the agent that runs CS2 game servers on a host
(`src/agent`, Go) and the image those servers run in (`src/docker/cs2-server`: an
entrypoint and a game plugin). This directory holds TLA+ models of them, TLC
configurations that check the models on small instances, and theorems about them with
proofs that TLAPS checks.

1. [The system](#1-the-system)
2. [Modules](#2-modules-and-how-they-correspond-to-the-code)
3. [Runs, bounds and fairness](#3-runs-bounds-and-fairness)
4. [What is proved](#4-what-is-proved)
5. [What the code does not do](#5-what-the-code-does-not-do)
6. [What is left out](#6-what-is-left-out)
7. [Plan](#7-plan)

To check a module: `tlc -config MCHostSerial.cfg MCHost.tla`; to check the proofs of
one: `tlapm Ports_proofs.tla`.

## 1. The system

A platform sends commands to the agent over one WebSocket. The agent starts a goroutine
for each, which works on a directory tree and on Docker, and sends one answer back. A
ticker sends heartbeats over the same connection. Each game server is a container whose
installation is a copy (hard links) of a common base that SteamCMD downloads. In the
container, a plugin posts what happens in the game to the platform by HTTP.

| Component | State | Operations | Talks to |
|---|---|---|---|
| WebSocket client (`connection/ws.go`), heartbeat and shutdown (`main.go`) | connection, flag `connected`, channel `sendCh` of 64, `done` | `Run`, `connect`, `runLoops`, its reader goroutine, `handleMessage`, `Send`, `Close`, `sendHeartbeat` | platform; calls the handler |
| Command handler (`commands/handler.go`): game servers | base tree, instance directories with `cs2-data`, ready marker and `docker-compose.yml`; containers | deploy, stop, remove, restart(s), setup/update/reinstall/validate base | Docker, SteamCMD, `cp`, `rm` |
| SteamCMD download (`downloadCS2ViaSteamCMD`) | base tree, progress snapshot, last result, counters of the loop | up to five runs, auto-wipe, `get_base_status` | SteamCMD; called by the handler |
| Ports and firewall (`compose.go`, `ensureUFWPorts`, `closeUFWPorts`) | ports in `docker-compose.yml`, ufw rules | part of deploy and remove | ufw; all containers share the host's network |
| Self-update (`updateAgent`, `autoUpdate`) | binary, temporary file, checksum of the command | download, verify, compare, replace, restart | GitHub, systemd; ends everything the agent does |
| Host performance script (`host_perf.go`) | script file, marker with the script's hash | write and run the embedded script at startup or on command | the host; reads which release runs |
| Trees (`cp -al`, `chown`, `copyFile`; `entrypoint.sh`) | inodes of base and copies, owners; where each container's script is | linking, copying, wiping; staging of `steamclient.so`; the entrypoint's plugins, patch and configuration | the handler's commands and the containers change the same files |
| Telemetry plugin (`RushBMatchTelemetry.cs`) | weapon counters of the round | game hooks, `FlushWeaponStats`, `Fire`, `SendAsync` | the game's main thread; platform |
| Single-file commands, RCON, queries, logs, health | none that others depend on | one request, one answer | files, game server |

What is hard in it:

- **Connection.** Three kinds of goroutine share `c.conn`, `sendCh` and the flag. Answers
  come when commands end, which may be during an outage. The reader evaluates `c.conn`
  anew before every read, so one left over from an old connection moves to a new one.
  *Right means*: an answer is in one place at a time and written at most once, in order;
  a dead connection leads to a reconnect; outages do not fill the channel; `Close` ends
  `Run`.
- **Commands on trees.** Commands run concurrently without any lock. Trees of 60 GB are
  copied and removed file by file, and the agent may be restarted at any point, by its
  own self-update among others. A marker file says that a copy is complete. *Right
  means*: the marker is true; a container is deployed on a complete copy only; a base
  update starts again what it stopped; ports that are to be skipped are left alone.
- **SteamCMD.** Runs fail in many ways; some call for a wipe of the base. Several commands
  may be in a download at once and share the progress globals. *Right means*: a base is
  destroyed only after two state errors in a row; a call ends, and ends well only with a
  binary in place; the status is real.
- **Ports.** Ports of an instance are computed from its game port, at deploy and again at
  removal. *Right means*: deployed instances keep their rules, removed ones leave none, and
  no two instances want the same port.
- **Self-update and script.** The update ends in a restart that kills whatever the agent
  does, itself included, and starts a binary that has a script of its own to run. Files at
  fixed paths survive failures and restarts and are found by the next call. *Right means*:
  the binary is whole and the one the checksum names; "already latest" and the marker tell
  the truth; a new binary is run and its script with it.
- **Trees of hard links.** All copies of a file are one inode until somebody replaces the
  file; an entrypoint or a staging that writes in place writes to all. Containers write as
  root, the agent is not root, and Linux does not let it link what it does not own. *Right
  means*: copies behave as if they shared nothing; `steamclient.so` is there and whole; the
  60 GB are copied for real only when linking cannot work.
- **Telemetry.** Posts are independent tasks without retry. *Right means*: every shot is
  counted in the statistics of its round and in no other.

`PROJECT.json` lists each hazard at its line with the properties that watch it.

## 2. Modules and how they correspond to the code

| Module | Models | Composes or implements |
|---|---|---|
| `Delivery` | abstract: what the outbound path promises | |
| `Connection` | `ws.go`, heartbeat and shutdown of `main.go` | implements `Delivery` |
| `Instances` | abstract: commands and the instances that concern them | |
| `Host` | the commands on base, copies and containers | implements `Instances`; environment: Docker, SteamCMD, `cp`, `rm` |
| `BaseInstall` | abstract: what a download promises its callers | |
| `SteamCmd` | `downloadCS2ViaSteamCMD`, `getBaseStatus` | implements `BaseInstall` |
| `Ports` | ports, `ensureUFWPorts`, `closeUFWPorts` | |
| `SelfUpdate` | `updateAgent`, `autoUpdate`, systemd, releases | |
| `HostPerf` | `ApplyHostPerf` from the startup goroutine and from commands | |
| `AgentLife` | the agent's process from update to script | composes `SelfUpdate` and `HostPerf` |
| `Apart` | abstract: trees that share nothing | |
| `Trees` | inodes of base and copies under commands, staging and entrypoints | implements `Apart` |
| `Telemetry` | the plugin | |
| `..._proofs` | theorems about the module of that name; `TreesApart_proofs` those about `Trees` and `Apart` | extend it and `TLAPS` |
| `MC...` | definitions for TLC: symmetry, sets of ports | extend the module |

A definition marked `(mutant of X)` is X with a plausible bug in it. It is in no
specification; it is there to show that a property notices the bug. `PROJECT.json` names
the lines each definition models.

**Connection.** `runPc` is the position of `Run`'s goroutine, from the select at the top
of its loop through dial, store, flag and write loop. Connections are numbered by dial;
`made` is the local view of the newest, `conn` the field `c.conn`, and between `DialOk` and
`Install` they differ, as in the code. `reader[k]` and `readsFrom[k]` are the goroutine
that `runLoops` started on connection k and the connection its `ReadMessage` is in.
`Respond` is the end of `handleMessage`, `BeatCheck` and `BeatSend` the two halves of
`sendHeartbeat` (what lies between takes seconds), `CloseDone` and `CloseConn` those of
`Close`. `WriteFail` may happen on a live connection: the 10 s write deadline.

**Host.** A tree is the set of its critical parts (`cs2CriticalFiles`: binary and game
directory); SteamCMD, `cp` and `rm` change it part by part. `job[g]` is what goroutine g
does; `pc` is where it is; `todo` what is left of a loop over ports; `ports` and `skip`
what `update_base` works on and leaves alone; `try` and `left` belong to the removal or
copy under way. `StartX` is the dispatch in `HandleCommand`. `SyncCheck` to `Mark` are
`syncCs2DataFromBase`, with the wipe, `cp -al`, the wiped retry after the `chown`, the
deep copy, the check of the critical files and the marker. `UpNext` is both the last step
of the base updates and the deferred recovery of `update_base`. Three abstractions to know:
a removal that fails leaves the marker only where nothing was removed (`os.RemoveAll` goes
on after an error, and the marker lies in the top directory, the first to be unwritable);
`validate_base`, which answers at once and goes on in the background, is a command that
runs; a write below an instance's directory fails when another command removed it.
`Instances` is what a command promises about the instances it was not sent for; the
mapping takes `Concerned(g)`, which is read off the job, for the abstract `busy[g]`.
`Undisturbed` is what the platform can see to and the agent does not: no command removes
an instance's files between another's check of them and its marker or its start.
`TogetherSpec` has it after every step. `StepsLeft(g)` counts down to the end of a command.

**SteamCmd.** `attempt`, `streak`, `wiped` are the locals of the loop, `shown` and
`results` the two globals behind the status: only whether there is progress, and which
result is the last. `toWipe` is the listing that `wipeCS2Base` removes entry by entry.
`ReadLast` and `ReadProgress` are the two reads of `getBaseStatus`. How a run ended is
the environment's choice; `BinaryMissing` and `Installed` look at the base, which other
calls may be changing. `StepsLeft(c)` counts down to the end of a call.

**Ports.** An instance is its game port. `Deploy` is the writing of `docker-compose.yml`
with its checks of ranges, `OpenRules` the call of `ensureUFWPorts` that follows it;
`RemoveFiles` is `compose down` and `RemoveAll`, `CloseRules` the call of `closeUFWPorts`.
With `Overlap` the halves of different commands interleave. ufw is taken to be installed
and to succeed; where it is not, the agent does nothing.

**SelfUpdate, HostPerf, AgentLife.** A release is a number, a file holds one, or a part of
one (`Broken`), or is not there. `tmp` is `/tmp/rushborg-agent-new`, `bin` the installed
binary. A file that is open stays open when it is renamed or removed: `holds[c]` says where
the file is that call c's curl writes or its `cp` reads. `CurlOpen` to `Clean` are the steps
of `updateAgent`; `RestartOk` is the goroutine that calls systemctl a second later, and
`Reborn` what every restart does: calls, goroutines and their programs end, files stay.
`inUse` says that the file at `bin` is the one that systemd has started. Such a file cannot
be opened for writing, so `sudo cp -f` unlinks it (`CopyBegin`), makes it anew
(`CopyCreate`) and writes it (`CopyEnd`): for a moment there is no binary, and where the
copy fails or the agent is killed in between there is none afterwards. A `Rename` that
finds the temporary file gone goes on to `sudo`, too (`RenameFail`).
`HostPerf` has the same for `writeScript` (`OpenScript`, `WriteScript`, `RenameScript`), the
run, and `writeMarker`, which truncates before it writes. What a script did to the host is
one value: the release whose script has run to its end last, or `Broken`. `AgentLife`
joins the two on `running`: what an update replaces, the script's goroutines end with.

**Trees.** `disk` is a set of inodes, each with its names, its contents and its owner. The
names are pairs of a tree and a file; five files stand for the classes that are treated
differently: what SteamCMD brings (`game`, that is `gameinfo.gi`), what the entrypoint
unpacks and configures (`plugins`), `counterstrikesharp.log` (`log`), and `steamclient.so`
with its temporary file. A file that is open for the copy is one more link. `StartX` to
`Up` are the commands of `Host` once more, with what matters for files: `top` is the owner
of the base directory, `try` the first or second `cp -al`, `to` and `then` the target of
`copyFile` and what follows it, `fault` history (something has failed in this command). The
entrypoint of the container on tree t goes through `EntryCheck`, `Unpack`, `Patch`,
`Configure` and `TouchLog` to the game; t is the base for the setup container. An rm or cp
is one step here, which may do any part of its work when it fails or is cut short
(`Interrupted`); `Host` takes it part by part, and has the marker. The tree a game server
sees is `Seen`: for each name the contents behind it; that is what `Apart` is about.

**Telemetry.** A counter is the set of shots it counts; a hit, which several counters
count, stands for as many shots, and what a hook did not count because something threw
before it is `Dropped`. Hooks are atomic: the game calls
them one at a time in its main thread. `RoundEnd` is `OnRoundEnd` with `FlushWeaponStats`;
each of its two posts may be missing, because something threw before it, and the counters
are cleared all the same (`finally`). `posts` are the tasks of `SendAsync`, which end in
`Arrive` or `Lose` (an error, a timeout) in any order. `ends` and `firedAt` are history.

## 3. Runs, bounds and fairness

| Run | Module / cfg | What it asks | Outcome |
|---|---|---|---|
| `conn` | `Connection` | accounting of answers, the right reader, backlog and heartbeats in an outage, refinement of `Delivery`; `Close` ends `Run`, a dead connection brings the flag down | holds |
| `host_serial` | `MCHostSerial` | all eight commands one after the other on two instances, anything may fail: marker true, update pays back, deploys on complete copies, each step brings a command nearer to its end, refinement of `Instances` | holds |
| `host_restarts` | `MCHostRestarts` | two restarts of the agent at any point: deploys still start complete copies, and every command ends | holds |
| `host_marker_restart` | `MCHostMarkerRestart` | marker true in spite of a restart | violated, see 5 |
| `host_skipped` | `MCHostSkipped` | containers are started on marked copies | violated, see 5 |
| `steam_safety` | `MCSteamCmd` | two calls interleaved: wipes justified, progress cleared, every call returns and gets nearer to it with each step, refinement of `BaseInstall` | holds |
| `ports_apart` | `MCPorts` | ports never 5, 10 or 15 apart, one command at a time: rules follow instances, no port twice | holds |
| `ports_neighbours` | `MCPortsNeighbours` | the same for ports 5 apart | violated, see 5 |
| `telemetry_safety` | `MCTelemetry` | statistics count exactly their round's shots | holds |
| `agent_life` | `MCAgentLife` | an update at a time, restarts anywhere, script and marker: whole binary, checksum kept, truthful "already latest" and marker; a release takes effect | holds |
| `trees` | `MCTrees` | commands on the base and a copy beside both entrypoints, one failure or restart anywhere: refinement of `Apart`, `steamclient.so` whole, deep copies only after a failure | holds |
| `trees_interrupted` | `MCTreesInterrupted` | `steamclient.so` whole although the first staging may be cut short | violated, see 5 |

**Bounds.**

- *Connection*: two dials that succeed are what it takes for a reader of an old connection
  to meet a new one; two commands and a heartbeat overflow a channel of two and still let
  an answer wait behind another message. A third connection adds a second stray reader,
  which can do no more than the first. `MaxBackoff` is 2, so that the back-off is doubled
  once and then meets its cap. The theorems hold for any of these numbers.
- *Host*: two ports let a command work on one and leave the other alone; `maxContainers` is
  1 so that the limit is met. One goroutine checks sequences of commands of any length; what
  holds of concurrent ones is proved for any number. Two parts are enough for a half-made
  copy. Two restarts let the second meet the clean-up after the first. Two commands on one
  port, which `HandleCommand` does not exclude, occur in no run: of them only the theorems
  speak (section 4). What is proved
  of `TogetherSpec` also held in TLC for two goroutines with `deploy`, `remove` and `update`
  on one port and `Faults = {"files"}` (0.7 million states), and `EveryStepCounts` with it.
  `Undisturbed` is a condition, not a bound: section 5 shows what happens without it.
- *SteamCmd*: two calls that overlap, of three runs each (five in the code): enough for two
  state errors with another error between them or not, for a wipe that fails and is tried
  again after the third run, and for a wipe after the last run. The safety theorems hold
  for any number.
- *Ports*: the numbers are those of real ports; six are enough for every pair of roles. One
  has a default GOTV port out of range. The halves of two commands interleave in no run
  (`Overlap = FALSE`): the rules then need not follow the instances (section 5), and what is
  so all the same, `SocketsUnique` and the types, is proved.
- *AgentLife*: two releases give one update from an old agent, or none; a restart for other
  reasons comes once and the update's own restarts beside it. One call of `updateAgent`
  (`Updaters`) is a condition for the binary, no rollback (`Rollback`) and no two goroutines
  in `writeScript` at the same moment (`Torn`) are conditions for the marker: section 5 shows
  that each is needed. With two updaters the composition is too large for TLC; that
  `MarkerTruthful` and `AgentTypeOK` hold there, too, is proved. The theorems hold for any
  number of releases, restarts and commands.
- *Trees*: an instance and the base are the two ends of a link; a second instance is one
  more copy of the same links. `Mishaps` bounds what goes wrong; commands come one after
  the other without bound, so that a second command meets what a failure has left. The same
  properties also held for two instances without mishaps (2.6 million states) and for one
  instance with two (5.7 million), and all of them are proved for any numbers. `Interrupt =
  FALSE` says that the setup container is not killed, and that no temporary file of
  `steamclient.so` is left in a base without the file itself (`Orphan`), which happens when
  the first staging is cut short or its rename fails, or when a wipe of the base ends between
  the two files: again a condition, which excludes such failures of `WipePart`,
  `CopyFileFails` and `AgentRestart` and no others.
- *Telemetry*: two rounds, so that one can go wrong because of the other; four posting
  hooks; three shots.

`Permutations` of ports, goroutines, shots and match ids are used as symmetry in
runs without liveness only; nothing in the models orders them.

**Deadlock** is checked in all runs but two, where the system does stop: after `Close`, `Run`
returns and the process exits (`conn`); an agent whose binary `sudo cp -f` has unlinked or
half written does not start again (`agent_life`).

**Fairness.**

- *Connection*: `Run`'s goroutine keeps running; a branch of a Go `select` that stays ready
  is taken in the end, hence strong fairness for `readDone` and `done`, which other branches
  can interrupt; a read on a dead connection ends; `Close` finishes once begun. Nothing is
  assumed of network, platform, handlers or pings.
- *Host*: a command that has begun goes on, that is, docker, `cp`, `rm` and SteamCMD end. The
  environment's steps on the base (`DownloadStep`) are not fair, and no command needs to be
  sent.
- *SteamCmd*: a run ends and its caller goes on. What SteamCMD does in a run is not fair.
- *AgentLife*: curl has a time limit, `cp`, the script and systemctl end; the startup
  goroutine wakes up, and the goroutine that restarts the agent does. Nobody has to ask for
  an update or an `apply_host_perf`, and nothing has to be released.

## 4. What is proved

All theorems are for every value of the constants that the named assumptions allow.

| Module | Theorem | Says |
|---|---|---|
| `Connection_proofs` | `TypeCorrect` | `Spec => []TypeOK` |
| | `ReadDoneTruthful` | the write loop leaves on `readDone` only when its own connection is dead |
| | `AnswersAccounted` | every answer is in one place and at most once in the channel |
| | `OutageBeats` | at most one heartbeat joins the channel during an outage |
| | `BacklogSafe` | while the flag is down the channel only grows at its end |
| | `DeliveryImplemented` | `Connection` implements `Delivery` |
| `Host_proofs` | `TypeCorrect` | types, for any ports, concurrent commands, restarts and faults |
| | `InstancesImplemented` | `Host` implements `Instances`, as generally |
| | `UpdateAlwaysPaysBack` | without restarts of the agent, `update_base` never ends owing a start, whatever runs beside it |
| | `DeploysCompleteTogether` | whatever runs at the same time, deploys start complete copies after any failures and restarts, as long as commands are `Undisturbed` |
| | `MarkersTrustworthyTogether` | as long as they are, and without a restart, the marker is true |
| | `DeploysComplete`, `MarkersTrustworthy` | the same without that condition for one command at a time |
| | `CommandsShrink` | each step of a command leaves it fewer, whatever fails, restarts or runs beside it |
| `SteamCmd_proofs` | `TypeCorrect`, `WipeJustified`, `ProgressGone`, `InstallImplemented` | types; wipes only after two state errors; progress cleared; implements `BaseInstall` |
| | `CallsShrink` | each step of a call's loop leaves it fewer, and only its begin gives it more |
| `Ports_proofs` | `TypeCorrect` | types, whatever ports are asked for and however commands overlap |
| | `RulesStayOpen` | no overlap, game ports never 5 apart, and no GOTV port asked for that is one of another instance's rules (`RulesApart`): deployed instances keep their rules |
| | `RulesRemoved` | no overlap, default GOTV ports: removed instances leave no rule, whichever the game ports are |
| | `SocketsUnique` | game ports never 5, 10 or 15 apart, default GOTV ports: no port twice, also when commands overlap |
| `Telemetry_proofs` | `TypeCorrect`, `StatsAreExact` | types; statistics count exactly their round's shots |
| `AgentLife_proofs` | `TypeCorrect` | types; the goroutine of `main` is never where a command begins again, and no command ends for good, whatever overlaps |
| | `BinaryStaysWhole`, `ChecksumHonoured`, `LatestIsLatest` | as long as calls of `updateAgent` do not overlap (`[]NoOverlap`): whole binary, the checksum's release, truthful "already latest" |
| | `MarkerIsTruthful` | no rollback and no torn script (`Steady`): the marker vouches only for a tuned host, also when updates overlap |
| `Trees_proofs` | `TypeCorrect` | types, and no name is ever a link to two inodes, for any instances, concurrent commands and mishaps |
| | `DeepAfterFault` | with one command at a time, a deep copy is made only after a failure or beside a setup container |
| `TreesApart_proofs` | `SteamclientStaysWhole` | with one command at a time and `Interrupt = FALSE`, which includes that no `Orphan` is left, `steamclient.so` is whole wherever it has its name, and no server is deployed without it |
| | `TreesStayApart` | under the same conditions `Trees` implements `Apart`, whatever else fails, also where it leaves a temporary file beside `steamclient.so` |

The arguments:

- `ReadDoneMeansDead` is not inductive: that the reader of the newest connection reads that
  connection depends on `conn = made` from `Install` until the next dial, that readers of
  connections not yet dialled do not exist, and that no connection numbered above `made`
  has a state. `RunInv` says so for each position of `Run`.
- `ResponseAccounting` needs `HandInv`, that the write loop holds a message exactly while it
  writes; appending and taking are lemmas about which answers wait.
- `OneBeatPerOutage`: while the flag is up no heartbeat of an outage counts, and the heartbeat
  goroutine that has passed its check has added none yet; it adds one, and without the flag
  it passes the check no more.
- `DeliveryImplemented` maps each action of `Connection` to an action of `Delivery` or a
  stutter. The message in the write loop's hand is the head of the abstract queue.
- `Host`: the invariant `Inv` is the types of the trees and `Shape` of every job: which
  commands can be at which step (`OpAt`) and on which instances they work there (`PortsAt`).
  Each action moves one job `Onward` or ends it, which is a lemma per action; types and the
  refinement of `Instances` both follow, since a step that moves onward keeps what the
  command was sent for and changes only that.
- `UpdateAlwaysPaysBack` needs `WillStart`: whoever is owed a start is in the list of an
  update that is before its last loop, or still in what is left of that loop. A concurrent
  command can stop, start or remove the instance, but cannot take it off that list.
- `DeploysCompleteTogether` and `MarkersTrustworthyTogether`: what a command has checked is
  still so when it marks the copy (`Verified`), and what a deploy has synced is complete until
  it starts the container (`Complete`). Only a removal could change that (`CompleteStays`):
  a `cp` of another command adds to a copy and never takes from it. So `Undisturbed` is all
  that is asked of concurrent commands, and one command at a time has it for nothing
  (`AloneIsTogether`). A marker outlives its copy only during a removal (`MarkersStay`).
- `EveryStepCounts` is the part of termination that is no temporal logic. `StepsLeft` adds up,
  for the place a command is at, what its loops, the three attempts of a sync and the wipes
  between them may still take; each action makes it smaller, which is a lemma per action.
  In `Host` other commands can fill a tree that is being removed (a deploy of the port that
  is being removed), so that only `Progress(g)` itself is bound to make it smaller; in
  `SteamCmd` nothing but `Begin(c)` makes it larger. With fairness this is why commands and
  calls end (`CommandsEnd`, `CallReturns`), which TLC checks.
- `WipeAfterTwoStateErrors` needs `StreakTruthful`: when the counter is not zero, the call's
  last run ended with a state error. Every branch of the loop must reset it for that.
- `Ports`: each theorem assumes what it needs; section 5 shows that each condition is needed.
  `InOrder` (rules are opened for instances that exist, and none of them is being closed) is
  what no overlap gives; `SocketsUnique` needs only that GOTV ports are the default ones.
- `StatsExact` needs that the counters hold exactly the shots since the last end of a round,
  that statistics which exist are of earlier rounds, and that no shot is of a later one; a
  new shot can then belong to no statistics that exist.
- `AgentLife`: `FileInv` says that from the check to the replacement the file at the
  temporary path is a whole release and the one the checksum names, and that a `cp` under
  way reads such a file; while calls do not overlap nobody else writes there.
  `AlreadyLatestTrue` needs that a binary that was replaced is run or about to be.
  `MarkerTruthful` needs `PerfInv`: what a goroutine writes, renames and runs is the release
  that runs; and `Forward`: a marker is never of a release that the agent can still leave for
  an older one. That holds of overlapping calls, too, and needs `Fetched`: what an earlier
  agent has left at the temporary path may be an old release, but whoever installs has
  passed a download of this agent, which truncated the file and wrote a release that was
  at GitHub since.
- `Trees`: `TypeCorrect` needs `Sound` of the disk, which each operation on inodes keeps
  when the names it adds are new or belong to one new file, and `Opens`: what a goroutine has
  open it has open once, so that the links for open files are new when they are made. The
  jobs have a `Shape`, as in `Host`.
- `DeepAfterFault` needs `Quiet`: while nothing has failed, no container runs on the base or
  the copy that the command works on, the copy is empty when it is linked, and for the second
  attempt the base is the agent's (`AgentsBase`), as the `chown` in between has made it. Then
  `cp -al` leaves nothing behind (`AllLinkable`). An entrypoint changes its own tree only
  (`Only`), and runs elsewhere.
- `TreesStayApart` needs `Solo` of every inode: its links go by one name, or by the two of
  `steamclient.so`; what is open for writing is a temporary file; what goes by the name
  `steamclient.so` is whole and is not the base's temporary file; and a half-written
  configuration of the plugins is in a copy that has the file for itself. Then each write in
  place reaches one tree only, and a step `Keeps` what all others read.
- What a staging leaves behind is the hard part, since a leftover that is linked into copies
  would be truncated in all of them by the next staging. `Staging` says where each copy of the
  file leads (`Route`) and that a temporary file is left in the base only beside the file
  itself, and in a copy only where the base has one (`Shelf`): then no deploy has anything to
  stage into that copy. It takes the `Quiet` of `DeepAfterFault` to know that a copy is empty
  when it is linked. `Writing` adds that the file that is read is the base's own and that the
  one that is renamed is the one that was written (`Draft`). `SteamclientStaysWhole` follows
  from the same invariant, `Prepared`.

**Model-checked only**: all liveness properties (`ShutdownReturns`, `DeadLinkNoticed`,
`CommandsEnd`, `CallReturns`, `ReleaseTakesEffect`: TLAPS has no backend for `ENABLED` and
fairness here, and of two of them `EveryStepCounts` is the part that is proved); everything a
run shows violated. Every safety property that a passing run checks is proved, under
conditions that include the run's own.

## 5. What the code does not do

Four runs find a behaviour in which the code does something else than its comments say.
`PROJECT.json` quotes the comment of each.

| Run | Comment | Behaviour |
|---|---|---|
| `host_marker_restart` | marker presence = copy is trustworthy (`handler.go:2197`) | the agent is restarted while `reinstall_base` removes a tree whose marker goes last |
| `host_skipped` | the entrypoint sees that the marker is missing and resyncs (`handler.go:1707`) | the entrypoint does not look at the marker: a restart starts the old copy |
| `ports_neighbours` | removes firewall rules for a deleted instance (`handler.go:1282`) | it also closes the game port of the instance 5 ports higher |
| `trees_interrupted` | a real file, so that the contents are there (`handler.go:434`) | the first staging is cut short, its temporary file is linked into a copy, and the next staging of the copy truncates the base's `steamclient.so` and copies it onto itself |

The models have more such behaviours. No run is kept for them; to see one, check the formula
under the constants that the third column names, beside those of the module's other runs.

| Behaviour | Formula that fails | With |
|---|---|---|
| Deploy, stop, deploy another port, restart the first: more containers than `maxContainers`, which only deploy compares with those that run | `Cardinality(Running) <= MaxContainers` (`Host`) | two ports, `Ops = {"deploy", "stop", "restart"}`, no faults |
| Two deploys of one port: one wipes the copy that the other has verified and then marks | `MarkerTrustworthy` | two goroutines, `Ops = {"deploy", "update"}` |
| A stop fails, `update_base` drops the error and rebuilds the copy of a running container | `job[g].op = "update" /\ job[g].pc \in {"wipe", "copy"} => container[job[g].port] # "up"` | `Faults = {"docker"}` |
| `reinstall_base` fails after the stops and leaves the instances stopped | `UpdatePaysBack` with "reinstall" for "update" | one port |
| The agent restarts during `update_base`; its recovery is a deferred function | `UpdatePaysBack` | `Restarts = 1` |
| `update_base` starts a container whose sync failed | `StartedOnMarked` | `Faults = {"files"}`, `Ops = {"deploy", "update"}` |
| A download ends between the two reads of `get_base_status`, which then says neither that it goes on nor how it ended (`handler.go:1978`: the real status instead of guesswork) | `StatusReal` (`SteamCmd`, an action property) | `Callers = {c1}`, `MaxAttempts = 5`, `MaxCalls = 2` |
| The second state error comes with the last run: the base is wiped and the call gives up | `At(c, "failed") => ~(wiped[c] /\ streak[c] = 0 /\ ended[c][1] = "state")` (`SteamCmd`) | one caller |
| A write meets its deadline on a live connection: `runLoops` returns, connection and reader stay | `runPc = "down" /\ ~done => link[conn] # "open"` (`Connection`) | any |
| A removal closes the rules after a new deploy of the port has opened them | `OpenWhileDeployed` (`Ports`) | `Overlap = TRUE` |
| The rule of a GOTV port from the payload outlives its instance | `inst = {} /\ closing = {} => allowed = {}` (`Ports`) | `CustomGotv = {27100}` |
| The Steam port of one instance is the game port of the one 10 lower | `NoClash` | `GamePorts = {27015, 27025}` |
| The ticker and an `update_agent` command download to one path: a binary that is not whole, or not the one that was verified, is installed | `BinaryWhole`, `ChecksumKept` (`AgentLife`) | `Updaters = {u1, u2}` |
| An error or a restart cuts `sudo cp -f` short, which has unlinked the running binary: no binary, or one that does not start | `bin \in Versions` (`AgentLife`) | `direct = FALSE` in `Init` |
| No right to call systemctl: the agent installs a release and runs the old one, and calls itself up to date ever after | `AlreadyLatestTrue` without `restarter` | any |
| A rollback is cut short in its script: the marker of the newer release outlives what the older script has undone | `MarkerTruthful` (`AgentLife`) | `Rollback = TRUE` |
| The startup goroutine and a command write the script at the same moment: half a script is run and marked | `MarkerTruthful` (`AgentLife`) | `Torn = TRUE` |
| Two commands that waited for the same download stage `steamclient.so` through one temporary file: for a while it is not whole | `SteamclientWhole` (`Trees`) | `Goroutines = {g1, g2}`, `Mishaps = 0` |
| `counterstrikesharp.log` is touched and written in place, by all copies that are linked to the base's (`entrypoint.sh:4`: no shared mutable state) | `NothingShared` (`Trees`) | those of `trees` |
| A setup container is killed between the two writes of MatchZy's configuration: what the copies then append goes to one file | `LikeDeepCopies` (`Trees`) | `Interrupt = TRUE` |
| Root's plugins in the base, which `update_base` and `setup_base` always leave: `reinstall_base` removes the game, stops at the plugins and returns; its instances stay stopped | `[][At(g, "wipebase") => job'[g].pc # "idle"]_vars` (`Trees`) | `Ops = {"setup", "reinstall"}`, `Mishaps = 0` |
| A round's statistics arrive before its end, which is posted first | `weapon_stats` in `got` while the `round_end` of the same `call` is in `posts` (`Telemetry`) | any |
| Shots between rounds, or in the warm-up, are counted in the next round (the counters are not cleared when a round starts) | by the shape of `RoundStart` | any |

Three more, seen in the code and not in a formula. The plugin marker of the entrypoint is
touched even when MetaMod could not be fetched or an archive not be unpacked
(`entrypoint.sh:102`), after which no start tries again. A download of `install_plugin` or
`install_map` that is cut short leaves its part at the final path (`handler.go:1399`), which
every container copies at its next start. A failed staging is only a warning, and no
deploy repeats it while a `steamclient.so` is there: it may be older than the base
(`entrypoint.sh:56` says that both come from the same SteamCMD pass).

## 6. What is left out

- *In Host*: file ownership and hard links, which are in `Trees`; configuration contents,
  the checks of a payload, the firewall, which is in `Ports`.
- *In Trees*: how far an rm or cp has come, which is in `Host`; the entrypoint's mapping of
  user ids, its links to the Steam SDK and the start of the game; what the game itself writes
  at run time (it replaces or appends in its own copy; what it appends to a linked file is
  what `NothingShared` is about); files that the entrypoint replaces one by one
  (`core.json`, `cfg/*.cfg`, the plugins of the image), which behave as `game`.
- *In SteamCmd*: progress values (bytes, percent, rates) and their mix-up by calls that
  overlap; the early return where SteamCMD is not installed.
- *In SelfUpdate and HostPerf*: the check of the URL, the wording of errors, what the script
  does to the host.
- *Files and maps, admins*: each is one write or one download to a path below `shared`, which
  no other command reads and the entrypoints copy or link at their next start. *Image pull*
  and *the real-time priority* (`bumpCS2RealtimePriority`): one call of a program. *RCON,
  queries, logs, health, configuration*: requests without state that others depend on; a
  model would have nothing to say about their order.
- *Contents* of messages, configuration files, events and logs.
- *The image's build workflow*: executed by GitHub.

## 7. Plan

1. `StepsLeft` for `Connection` (after `Close`) and `AgentLife`, as it is for `Host` and
   `SteamCmd`.
2. Which commands of `Trees` may run at the same time: deploys of different instances share
   nothing but the base.
3. Byte counts of `SteamCmd`'s progress, with two calls under way.
4. `Host` composed with `BaseInstall` in place of its own download steps.
