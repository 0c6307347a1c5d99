------------------------------- MODULE Trees -------------------------------
(***************************************************************************)
(* The base tree and the instances' copies of it as what they are on the   *)
(* disk: inodes, and the names that are hard links to them.  The agent     *)
(* downloads into the base, stages steamclient.so, makes the copies with   *)
(* cp -al, or with cp -a, and removes them; the containers' entrypoints    *)
(* change files in the copies and, in the setup container, in the base.    *)
(*                                                                         *)
(* Host has the same commands with their failures and the ready marker;    *)
(* here rm and cp are one step each, which may do a part of its work and   *)
(* fail or be cut short, and a command always rebuilds the copy.           *)
(* steamclient.so stands for the 64-bit one.                               *)
(***************************************************************************)
EXTENDS Naturals

CONSTANTS
    Instances,
    Goroutines,      \* bound: the commands that may run at the same time
    Ops,             \* the commands the platform uses
    Mishaps,         \* bound: how often docker, SteamCMD, cp, rm or a write fails, or the
                     \* agent is restarted
    Interrupt        \* the setup container may be killed, and the base be left an Orphan

Base  == "base"
Trees == Instances \cup {Base}
\* gameinfo.gi stands for what SteamCMD brings, MatchZy's config.cfg for the plugins.
Files == {"game", "plugins", "log", "so", "tmp"}
Names == Trees \X Files
Opened == Goroutines \X {"in", "out"}

\* "raw": as it came; "ours": changed by the entrypoint; "part": not all written yet
States == {"raw", "ours", "part"}
Owners == {"agent", "root"}

ASSUME TreesAssumption ==
    /\ Base \notin Instances \cup Goroutines /\ Instances \cap Goroutines = {}
    /\ Ops \subseteq {"deploy", "update", "reinstall", "setup"}
    /\ Mishaps \in Nat /\ Interrupt \in BOOLEAN

VARIABLES
    disk,        \* the inodes, each with its links, its contents and its owner
    top,         \* who the base directory itself belongs to
    at,          \* at[t]: how far the container on tree t has come
    job,         \* job[g]: what goroutine g does
    mishaps      \* how often something went wrong

vars == <<disk, top, at, job, mishaps>>

Idle == [op |-> "none", pc |-> "idle", port |-> Base, ports |-> {}, todo |-> {},
         try |-> "link", to |-> Base, then |-> "none", fault |-> FALSE]

At(g, pc) == job[g].pc = pc
Goto(g, pc) == job' = [job EXCEPT ![g].pc = pc]
Mishap == mishaps < Mishaps /\ mishaps' = mishaps + 1
Fails(g, pc) == Mishap /\ job' = [job EXCEPT ![g].pc = pc, ![g].fault = TRUE]
Return(g) == job' = [job EXCEPT ![g] = Idle]

-----------------------------------------------------------------------------
(* Names and inodes.  A file that goroutine g has open for writing or       *)
(* reading is one more link, under the name <<g, "out">> or <<g, "in">>.    *)

Has(t, f) == \E i \in disk : <<t, f>> \in i.links
Inode(t, f) == CHOOSE i \in disk : <<t, f>> \in i.links
Held(t) == {f \in Files : Has(t, f)}

File(names, s, owner) == [links |-> names, s |-> s, owner |-> owner]

\* The inodes of d without the links names: one without links is gone.
Without(d, names) ==
    {[i EXCEPT !.links = @ \ names] : i \in {j \in d : ~(j.links \subseteq names)}}
\* ... with the link new to what old is a link to.
Linked(d, old, new) ==
    {[i EXCEPT !.links = IF old \in @ THEN @ \cup {new} ELSE @] : i \in d}
\* ... with s written to the file name in place: whoever has a link to it sees that.
Written(d, name, s) ==
    {[i EXCEPT !.s = IF name \in i.links THEN s ELSE @] : i \in d}

\* What is left when the files fs of tree t are removed.
Left(t, fs) == Without(disk, {t} \X fs)

Remove(t, fs) == disk' = Left(t, fs)
Overwrite(t, f, s) == disk' = Written(disk, <<t, f>>, s)
\* A new file takes the place of what t has under the name f.
Replace(t, f, s, owner) ==
    disk' = Without(disk, {<<t, f>>}) \cup {File({<<t, f>>}, s, owner)}

-----------------------------------------------------------------------------
(* HandleCommand                                                           *)

Begin(g, op, pc, p, ports) ==
    /\ At(g, "idle") /\ op \in Ops
    /\ job' = [job EXCEPT ![g] = [Idle EXCEPT !.op = op, !.pc = pc, !.port = p,
                                             !.ports = ports, !.todo = ports,
                                             !.fault = at[Base] # "off"]]
    /\ UNCHANGED <<disk, top, at, mishaps>>

StartDeploy(g) ==
    \E p \in Instances : Begin(g, "deploy", IF Has(Base, "game") THEN "down" ELSE "steam", p, {})
\* The instances that are not to be skipped.
StartUpdate(g) == \E ps \in SUBSET Instances : Begin(g, "update", "stop", Base, ps)
StartReinstall(g) == Begin(g, "reinstall", "stop", Base, Instances)
StartSetup(g) == Begin(g, "setup", "steam", Base, {})

\* stopServer for each port; an error is ignored.
Stop(g) ==
    /\ At(g, "stop")
    /\ \E up \in SUBSET job[g].ports :
          /\ IF up = {} THEN UNCHANGED mishaps ELSE Mishap
          /\ at' = [t \in Trees |-> IF t \in job[g].ports \ up THEN "off" ELSE at[t]]
          /\ LET next == IF job[g].op = "reinstall" THEN "wipebase" ELSE "steam"
             IN job' = [job EXCEPT ![g].pc = next, ![g].fault = @ \/ up # {}]
    /\ UNCHANGED <<disk, top>>

Down(g) ==
    /\ At(g, "down")
    /\ \/ at' = [at EXCEPT ![job[g].port] = "off"] /\ Goto(g, "wipe") /\ UNCHANGED mishaps
       \/ UNCHANGED at /\ Fails(g, "wipe")
    /\ UNCHANGED <<disk, top>>

\* Plugins that belong to root, which rm cannot remove.
Foreign(t) == Has(t, "plugins") /\ Inode(t, "plugins").owner # "agent"

\* The base has the leftover of a staging and not the file itself: the first staging is
\* cut short or its rename fails, or a wipe of the base ends between the two files.
Orphan == Has(Base, "tmp") /\ ~Has(Base, "so")

\* wipeCS2Base goes through the base in the order of the names and stops at the first
\* that it cannot remove: in the game's directory everything but root's plugins goes.
WipeAll == ~Foreign(Base) /\ Remove(Base, Files)
WipePart ==
    /\ \/ Foreign(Base) /\ Remove(Base, {"game"})
       \/ ~Foreign(Base) /\ \E fs \in SUBSET Held(Base) : Remove(Base, fs)
    /\ Orphan' => Interrupt

\* An error of the wipe makes reinstall_base return.
WipeBase(g) ==
    /\ At(g, "wipebase")
    /\ \/ WipeAll /\ Goto(g, "steam") /\ UNCHANGED mishaps
       \/ WipePart /\ Return(g) /\ IF Foreign(Base) THEN UNCHANGED mishaps ELSE Mishap
    /\ UNCHANGED <<top, at>>

-----------------------------------------------------------------------------
(* SteamCMD and the staging of steamclient.so                              *)

\* SteamCMD brings the game to a version and to its original state: what differs is
\* replaced by new files.  After two state errors the base is wiped before.
SteamOk(g) ==
    /\ At(g, "steam")
    /\ \/ Has(Base, "game") /\ Inode(Base, "game").s = "raw" /\ UNCHANGED disk
          /\ UNCHANGED mishaps
       \/ Replace(Base, "game", "raw", "agent") /\ UNCHANGED mishaps
       \/ /\ ~Foreign(Base) /\ Mishap
          /\ disk' = Left(Base, Files) \cup {File({<<Base, "game">>}, "raw", "agent")}
    /\ job' = [job EXCEPT ![g].pc = "open", ![g].to = Base,
                         ![g].then = IF job[g].op = "deploy" THEN "down" ELSE "setup"]
    /\ UNCHANGED <<top, at>>

\* All attempts fail, and a wipe between them may have done its work or a part of it:
\* update_base starts its instances again, the others return.
SteamFail(g) ==
    /\ At(g, "steam") /\ Mishap
    /\ WipePart \/ UNCHANGED disk
    /\ IF job[g].op = "update" THEN Goto(g, "up") ELSE Return(g)
    /\ UNCHANGED <<top, at>>

\* copyFile, from the host's steamclient.so into the base or from the base into a
\* copy.  The source is opened, and the temporary file, which is truncated if it is
\* there.
OpenSource(g) ==
    /\ At(g, "open")
    /\ \/ job[g].to = Base /\ UNCHANGED disk
       \/ /\ job[g].to # Base /\ Has(Base, "so")
          /\ disk' = Linked(disk, <<Base, "so">>, <<g, "in">>)
    /\ Goto(g, "create")
    /\ UNCHANGED <<top, at, mishaps>>

\* (mutant of OpenTmp) the file is written under its own name
OpenInPlace(g) ==
    /\ At(g, "create")
    /\ LET t == job[g].to
           names == {<<t, "so">>, <<t, "tmp">>, <<g, "out">>}
       IN disk' = Without(disk, {<<t, "so">>}) \cup {File(names, "part", "agent")}
    /\ Goto(g, "write")
    /\ UNCHANGED <<top, at, mishaps>>

OpenTmp(g) ==
    /\ At(g, "create")
    /\ LET tmp == <<job[g].to, "tmp">>
           out == <<g, "out">>
       IN disk' = IF Has(job[g].to, "tmp") THEN Linked(Written(disk, tmp, "part"), tmp, out)
                  ELSE disk \cup {File({tmp, out}, "part", "agent")}
    /\ Goto(g, "write")
    /\ UNCHANGED <<top, at, mishaps>>

\* Nothing is written when the source is the file that has just been truncated.
WriteTmp(g) ==
    /\ At(g, "write")
    /\ Overwrite(g, "out", IF Has(g, "in") THEN Inode(g, "in").s ELSE "raw")
    /\ Goto(g, "rename")
    /\ UNCHANGED <<top, at, mishaps>>

\* The files are closed; an error after SteamCMD is only printed.
Closed(g, next) == job' = [job EXCEPT ![g].pc = next, ![g].to = Base, ![g].then = "none"]
RenameTmp(g) ==
    /\ At(g, "rename") /\ Has(job[g].to, "tmp")
    /\ LET so  == <<job[g].to, "so">>
           tmp == <<job[g].to, "tmp">>
       IN disk' = Without(Linked(Without(disk, {so}), tmp, so), {tmp, <<g, "in">>, <<g, "out">>})
    /\ Closed(g, job[g].then)
    /\ UNCHANGED <<top, at, mishaps>>

\* An error: what could not be written to its end is removed again.
CopyFileFails(g) ==
    /\ job[g].pc \in {"open", "create", "write", "rename"}
    /\ IF At(g, "rename") /\ ~Has(job[g].to, "tmp") THEN UNCHANGED mishaps ELSE Mishap
    /\ disk' = Without(disk, {<<g, "in">>, <<g, "out">>} \cup
                             IF At(g, "write") THEN {<<job[g].to, "tmp">>} ELSE {})
    /\ Orphan' => Interrupt
    /\ IF job[g].then \in {"setup", "down"} THEN Closed(g, job[g].then) ELSE Return(g)
    /\ UNCHANGED <<top, at>>

\* ensureSteamclientInInstance: the base first, then the copy.
Ensure(g) ==
    /\ At(g, "ensure")
    /\ IF Has(Base, "so") THEN Goto(g, "fill")
       ELSE job' = [job EXCEPT ![g].pc = "open", ![g].to = Base, ![g].then = "fill"]
    /\ UNCHANGED <<disk, top, at, mishaps>>
Fill(g) ==
    /\ At(g, "fill")
    /\ LET p == job[g].port
       IN IF Has(p, "so") THEN Goto(g, "up")
          ELSE IF Has(Base, "so")
          THEN job' = [job EXCEPT ![g].pc = "open", ![g].to = p, ![g].then = "up"]
          ELSE Return(g)
    /\ UNCHANGED <<disk, top, at, mishaps>>

-----------------------------------------------------------------------------
(* The setup container of update_base, reinstall_base and setup_base       *)

\* update_base and reinstall_base remove the plugins' marker, so that they are
\* installed anew; docker run starts the entrypoint on the base itself.
Setup(g) ==
    /\ At(g, "setup")
    /\ \/ at' = [at EXCEPT ![Base] = "start"] /\ Goto(g, "wait") /\ UNCHANGED mishaps
       \/ at' = [at EXCEPT ![Base] = "off"] /\ Fails(g, "wait")
    /\ UNCHANGED <<disk, top>>

SetupDone(g) ==
    /\ At(g, "wait") /\ at[Base] = "off"
    /\ IF job[g].op = "setup" THEN Return(g) ELSE Goto(g, "next")
    /\ UNCHANGED <<disk, top, at, mishaps>>

-----------------------------------------------------------------------------
(* syncCs2DataFromBase                                                     *)

SyncNext(g) ==
    /\ At(g, "next")
    /\ \/ \E p \in job[g].todo :
             job' = [job EXCEPT ![g].pc = "wipe", ![g].port = p, ![g].todo = @ \ {p},
                               ![g].try = "link"]
       \/ job[g].todo = {} /\ Goto(g, "up")
    /\ UNCHANGED <<disk, top, at, mishaps>>

\* The loops go on whatever came of a sync, deploy does not.
Synced(g, ok) ==
    CASE job[g].op # "deploy" -> job' = [job EXCEPT ![g].pc = "next", ![g].fault = @ \/ ~ok]
      [] job[g].op = "deploy" /\ ok -> Goto(g, "ensure")
      [] OTHER -> Return(g)

\* removeCs2DataTree: a copy with root's plugins is left to a container, others to rm.
\* reinstall_base has removed before what it could.
Wipe(g) ==
    /\ At(g, "wipe")
    /\ LET p == job[g].port
       IN \/ /\ Remove(p, Files)
             /\ Goto(g, IF top = "agent" \/ job[g].try # "link" THEN "link" ELSE "own")
             /\ UNCHANGED mishaps
          \/ /\ \/ /\ Foreign(p)
                   /\ Remove(p, IF job[g].op = "reinstall" THEN {"game", "so", "tmp"} ELSE {})
                \/ ~Foreign(p) /\ \E fs \in SUBSET Held(p) : Remove(p, fs)
             /\ IF job[g].try = "link" THEN Mishap /\ Synced(g, FALSE) ELSE Fails(g, "link")
    /\ UNCHANGED <<top, at>>

\* (mutant of ChownBase) only the directory itself changes hands
ChownTop == top' = "agent" /\ UNCHANGED disk

\* chown -R through a container: links in the copies belong to the same inodes.
ChownBase ==
    /\ top' = "agent"
    /\ LET ours(i) == \E f \in Files : <<Base, f>> \in i.links
       IN disk' = {[i EXCEPT !.owner = IF ours(i) THEN "agent" ELSE @] : i \in disk}

\* A base directory that is not the agent's is chowned before cp is tried.
Own(g) ==
    /\ At(g, "own")
    /\ \/ ChownBase /\ Goto(g, "link") /\ UNCHANGED mishaps
       \/ UNCHANGED <<disk, top>> /\ Fails(g, "link")
    /\ UNCHANGED at

\* (mutant of Linkable) cp -alf into the copy, whatever is there
LinkableOver(p) == {f \in Held(Base) : Inode(Base, f).owner = "agent" \/ f = "log"}

\* fs.protected_hardlinks: a link needs the file to be the agent's, or writable.
Linkable(p) == {f \in Held(Base) : /\ Inode(Base, f).owner = "agent" \/ f = "log"
                                   /\ ~Has(p, f)}
Links(p, fs) ==
    {[i EXCEPT !.links = @ \cup {<<p, f>> : f \in {x \in fs : <<Base, x>> \in @}}] : i \in disk}

\* cp -al links what it can; its error leads to the chown, or to cp -a.
LinkOk(g) ==
    /\ At(g, "link")
    /\ LET p == job[g].port
       IN /\ Linkable(p) = Held(Base)
          /\ disk' = Links(p, Held(Base))
          /\ Synced(g, Has(Base, "game"))
    /\ UNCHANGED <<top, at, mishaps>>
LinkFail(g) ==
    /\ At(g, "link")
    /\ LET p == job[g].port
           next == IF job[g].try = "link" THEN "chown" ELSE "deep"
       IN \/ /\ Linkable(p) # Held(Base) /\ disk' = Links(p, Linkable(p))
             /\ Goto(g, next) /\ UNCHANGED mishaps
          \/ (\E fs \in SUBSET Linkable(p) : disk' = Links(p, fs)) /\ Fails(g, next)
    /\ UNCHANGED <<top, at>>

\* The chown after the error: then the copy is wiped and linked once more.
Chown(g) ==
    /\ At(g, "chown")
    /\ \/ /\ ChownBase /\ UNCHANGED mishaps
          /\ job' = [job EXCEPT ![g].pc = "wipe", ![g].try = "relink"]
       \/ UNCHANGED <<disk, top>> /\ Fails(g, "deep")
    /\ UNCHANGED at

\* cp -a: what is not there becomes a file of its own; it fails where there is a
\* link to the very file already.
Missing(p) == Held(Base) \ Held(p)
Copies(p, fs) == disk \cup {File({<<p, f>>}, Inode(Base, f).s, "agent") : f \in fs}
Deep(g) ==
    /\ At(g, "deep")
    /\ LET p == job[g].port
       IN \/ /\ disk' = Copies(p, Missing(p))
             /\ Synced(g, Missing(p) = Held(Base) /\ Has(Base, "game"))
          \/ /\ \E fs \in SUBSET Missing(p) : disk' = Copies(p, fs)
             /\ Synced(g, FALSE)             \* it fails as cp -al did
    /\ UNCHANGED <<top, at, mishaps>>

\* up --force-recreate for a deploy, up for the instances of a base update.
Up(g) ==
    /\ At(g, "up")
    /\ LET mine == IF job[g].op = "deploy" THEN {job[g].port} ELSE job[g].ports
       IN \E ps \in SUBSET mine :
             /\ IF ps = mine THEN UNCHANGED mishaps ELSE Mishap
             /\ at' = [t \in Trees |->
                         IF t \in ps /\ (job[g].op = "deploy" \/ at[t] = "off") THEN "start"
                         ELSE at[t]]
    /\ Return(g)
    /\ UNCHANGED <<disk, top>>

-----------------------------------------------------------------------------
(* The entrypoint of the container on tree t                               *)

Step(t, from, to) == at[t] = from /\ at' = [at EXCEPT ![t] = to]
\* Docker starts the container of an instance again; the one on the base is gone.
Exit(t) == at' = [at EXCEPT ![t] = IF t = Base THEN "off" ELSE "start"]

\* Without the game it gives up; the marker says that the plugins are there.
EntryCheck(t) ==
    /\ at[t] = "start"
    /\ IF ~Has(t, "game") THEN Exit(t)
       ELSE \/ Has(t, "plugins") /\ Step(t, "start", "patch")
            \/ Step(t, "start", "plugins")
    /\ UNCHANGED <<disk, top, job, mishaps>>

\* The archives are unpacked: new files in place of the old, which belong to root.
Unpack(t) ==
    /\ Step(t, "plugins", "patch")
    /\ Replace(t, "plugins", "raw", "root")
    /\ UNCHANGED <<top, job, mishaps>>
\* A download fails and ends the script (set -e).
UnpackFail(t) == at[t] = "plugins" /\ Exit(t) /\ UNCHANGED <<disk, top, job, mishaps>>

\* (mutant of Patch) gameinfo.gi is patched in place
PatchInPlace(t) ==
    /\ Step(t, "patch", "config")
    /\ IF Has(t, "game") /\ Has(t, "plugins") /\ Inode(t, "game").s = "raw"
       THEN Overwrite(t, "game", "ours")
       ELSE UNCHANGED disk
    /\ UNCHANGED <<top, job, mishaps>>

\* gameinfo.gi gets the plugins' line once; sed -i writes a new file.
Patch(t) ==
    /\ Step(t, "patch", "config")
    /\ IF Has(t, "game") /\ Has(t, "plugins") /\ Inode(t, "game").s = "raw"
       THEN Replace(t, "game", "ours", Inode(t, "game").owner)
       ELSE UNCHANGED disk
    /\ UNCHANGED <<top, job, mishaps>>

\* MatchZy's config.cfg: sed -i for the prefix, and options that are appended to the
\* file, or set by sed -i where they are there.
Configure(t) ==
    /\ Step(t, "config", "log")
    /\ LET i == Inode(t, "plugins")
       IN \/ ~Has(t, "plugins") /\ UNCHANGED disk
          \/ Has(t, "plugins") /\ i.s = "part" /\ Overwrite(t, "plugins", "ours")
          \/ Has(t, "plugins") /\ i.s # "part" /\ Replace(t, "plugins", "ours", i.owner)
    /\ UNCHANGED <<top, job, mishaps>>

\* counterstrikesharp.log is created, or touched, and made writable for everyone.
TouchLog(t) ==
    /\ Step(t, "log", "run")
    /\ \/ ~Has(t, "plugins") /\ UNCHANGED disk
       \/ Has(t, "plugins") /\ Has(t, "log") /\ Overwrite(t, "log", "ours")
       \/ Has(t, "plugins") /\ ~Has(t, "log") /\ Replace(t, "log", "raw", "root")
    /\ UNCHANGED <<top, job, mishaps>>

\* The game ends: on the base because it cannot bind port 0, elsewhere by a crash.
GameEnds(t) == at[t] = "run" /\ Exit(t) /\ UNCHANGED <<disk, top, job, mishaps>>
\* The container is killed, at any step of its script; the prefix may be written.
Killed(t) ==
    /\ at[t] \notin {"off", "start", "run"} /\ (t = Base => Interrupt)
    /\ Exit(t)
    /\ \/ UNCHANGED disk
       \/ /\ at[t] = "config" /\ Has(t, "plugins") /\ Inode(t, "plugins").s = "raw"
          /\ Replace(t, "plugins", "part", Inode(t, "plugins").owner)
    /\ UNCHANGED <<top, job, mishaps>>

-----------------------------------------------------------------------------
\* What rm, cp or SteamCMD have done when they are cut short.
Interrupted(g) ==
    LET p == job[g].port
    IN CASE At(g, "wipe") /\ ~Foreign(p) -> {Left(p, fs) : fs \in SUBSET Held(p)}
         [] At(g, "wipebase") /\ ~Foreign(Base) -> {Left(Base, fs) : fs \in SUBSET Held(Base)}
         [] At(g, "steam") -> {disk, Without(disk, {<<Base, "game">>})}
         [] At(g, "link") -> {Links(p, fs) : fs \in SUBSET Linkable(p)}
         [] At(g, "deep") -> {Copies(p, fs) : fs \in SUBSET Missing(p)}
         [] OTHER -> {disk}

\* The agent is restarted: the files it has open are closed.
AgentRestart ==
    /\ Mishap
    /\ \E g \in Goroutines : \E d \in Interrupted(g) : disk' = Without(d, Opened)
    /\ Orphan' => Interrupt
    /\ job' = [g \in Goroutines |-> Idle]
    /\ UNCHANGED <<top, at>>

Init ==
    /\ mishaps = 0
    /\ job = [g \in Goroutines |-> Idle]
    /\ at = [t \in Trees |-> "off"]
    /\ top \in Owners
    /\ \E who \in Owners, held \in {{}, {"game"}, {"game", "so"}} :
          disk = {File({<<Base, f>>}, "raw", who) : f \in held}

Command(g) ==
    \/ StartDeploy(g) \/ StartUpdate(g) \/ StartReinstall(g) \/ StartSetup(g)
    \/ Stop(g) \/ Down(g) \/ WipeBase(g) \/ SteamOk(g) \/ SteamFail(g)
    \/ OpenSource(g) \/ OpenTmp(g) \/ WriteTmp(g) \/ RenameTmp(g) \/ CopyFileFails(g)
    \/ Ensure(g) \/ Fill(g) \/ Setup(g) \/ SetupDone(g) \/ SyncNext(g) \/ Wipe(g)
    \/ Own(g) \/ LinkOk(g) \/ LinkFail(g) \/ Chown(g) \/ Deep(g) \/ Up(g)
Entrypoint(t) ==
    \/ EntryCheck(t) \/ Unpack(t) \/ UnpackFail(t) \/ Patch(t)
    \/ Configure(t) \/ TouchLog(t) \/ GameEnds(t) \/ Killed(t)

Next == (\E g \in Goroutines : Command(g)) \/ (\E t \in Trees : Entrypoint(t)) \/ AgentRestart

Spec == Init /\ [][Next]_vars

-----------------------------------------------------------------------------
(* Properties                                                              *)

Inodes == [links : (SUBSET (Names \cup Opened)) \ {{}}, s : States, owner : Owners]
Jobs ==
    [op : Ops \cup {"none"},
     pc : {"idle", "stop", "wipebase", "steam", "open", "create", "write", "rename", "setup",
           "wait", "next", "down", "wipe", "own", "link", "chown", "deep", "ensure", "fill",
           "up"},
     port : Trees, ports : SUBSET Instances, todo : SUBSET Instances,
     try : {"link", "relink"}, to : Trees, then : {"none", "setup", "down", "fill", "up"},
     fault : BOOLEAN]

\* Every variable keeps its type; no name is a link to two inodes, whatever cp, rename,
\* sed -i and tar make, and however often they are cut short.
TypeOK ==
    /\ disk \subseteq Inodes
    /\ \A i, j \in disk : i.links \cap j.links # {} => i = j
    /\ top \in Owners /\ mishaps \in 0..Mishaps
    /\ at \in [Trees -> {"off", "start", "plugins", "patch", "config", "log", "run"}]
    /\ job \in [Goroutines -> Jobs]

\* What a game server reads of its tree; of a file that is being written under a
\* temporary name nothing is seen, and the log is shared (see NothingShared).
Seen(files) ==
    [t \in Trees |-> [f \in files |-> IF Has(t, f) THEN Inode(t, f).s ELSE "none"]]
Independent ==
    INSTANCE Apart WITH Files <- Files \ {"tmp", "log"}, Contents <- States, NoFile <- "none",
                        tree <- Seen(Files \ {"tmp", "log"})
AllIndependent ==
    INSTANCE Apart WITH Files <- Files \ {"tmp"}, Contents <- States, NoFile <- "none",
                        tree <- Seen(Files \ {"tmp"})

\* The copies made of hard links behave like copies that share nothing: no step of
\* SteamCMD, of an entrypoint or of a command changes the files of two trees at once.
LikeDeepCopies == Independent!Spec

\* The same of every file, the plugins' log included: "No shared mutable state
\* between containers" (entrypoint.sh:4).
NothingShared == AllIndependent!Spec

\* steamclient.so is all there wherever it has its name, and no deploy starts a
\* server without it, whatever staging, wipe or copy failed or was cut short before,
\* as long as none leaves the base an Orphan (Interrupt = FALSE).
SteamclientWhole ==
    /\ \A t \in Trees : Has(t, "so") => Inode(t, "so").s = "raw"
    /\ \A g \in Goroutines : At(g, "up") /\ job[g].op = "deploy" => Has(job[g].port, "so")

\* A copy takes the space of the whole game (cp -a) only after something failed, or
\* while the setup container of an earlier command runs: the chown gives the agent
\* all that the entrypoint left to root in the base.
DeepOnlyAfterFault ==
    \A g \in Goroutines : At(g, "deep") => job[g].fault \/ at[Base] # "off"
=============================================================================
