----------------------------- MODULE SelfUpdate -----------------------------
(***************************************************************************)
(* updateAgent, which the ticker of main calls through autoUpdate and the  *)
(* platform calls with an update_agent command: the download of a release  *)
(* to a fixed path, the optional checksum, the comparison with the binary  *)
(* that is installed, its replacement and the restart by systemd.          *)
(*                                                                         *)
(* A release is a number; a file holds a whole release, or something else  *)
(* (Broken), or does not exist.  Two calls share the file at tmpPath: curl *)
(* and cp keep the file they have opened, wherever it is renamed or removed *)
(* to, and a second curl truncates it under them.  GitHub, curl, sudo and  *)
(* systemd are the environment.  The check of the URL is left out.         *)
(***************************************************************************)
EXTENDS Naturals

CONSTANTS
    Updaters,        \* bound: the calls of updateAgent that may be under way at once
    MaxVersion,      \* bound: the releases are 1..MaxVersion
    Rollback,        \* the newest release may be followed by an older one
    Restarts,        \* bound: restarts of the agent for other reasons
    Broken, NoFile,  \* the file is not a whole release; there is no file
    NoSum            \* the command carries no checksum

Versions == 1..MaxVersion
Contents == Versions \cup {Broken, NoFile}

ASSUME SelfUpdateAssumption ==
    /\ MaxVersion \in Nat \ {0} /\ Restarts \in Nat
    /\ Rollback \in BOOLEAN
    /\ Broken \notin Nat /\ NoFile \notin Nat /\ NoSum \notin Nat
    /\ Broken # NoFile

VARIABLES
    direct,     \* the agent may rename into the binary's directory, without sudo
    restarter,  \* systemctl restart works, with or without sudo
    released,   \* the release that the download URL serves
    tmp,        \* what is at tmpPath
    bin,        \* what is at binPath
    inUse,      \* the file at binPath, if there is one, is the one that systemd has started
    running,    \* the release the agent runs, NoFile when it does not run
    pending,    \* the goroutine that restarts the agent is asleep
    restarts,   \* restarts for other reasons so far
    pc,         \* pc[c]: where call c is
    want,       \* want[c]: the release its checksum names, or NoSum
    holds,      \* holds[c]: where the file is that its curl writes or its cp reads
    mixed,      \* mixed[c]: another curl or cp has come upon a file that c has open
    have,       \* have[c]: what the file was when cp opened it
    asked       \* history: the release named by the checksum of the last installation since
                \* the agent has started

world == <<direct, restarter, released>>
updateVars == <<world, tmp, bin, inUse, pending, restarts, pc, want, holds, mixed, have, asked>>

Init ==
    /\ direct \in BOOLEAN /\ restarter \in BOOLEAN
    /\ released \in Versions /\ bin \in Versions /\ running = bin /\ inUse = TRUE
    /\ Rollback \/ released >= bin
    /\ tmp = NoFile
    /\ pending = FALSE /\ restarts = 0
    /\ pc = [c \in Updaters |-> "idle"]
    /\ want = [c \in Updaters |-> NoSum]
    /\ holds = [c \in Updaters |-> "none"]
    /\ mixed = [c \in Updaters |-> FALSE]
    /\ have = [c \in Updaters |-> NoFile]
    /\ asked = NoSum

At(c, where) == pc[c] = where
Goto(c, where) == pc' = [pc EXCEPT ![c] = where] /\ UNCHANGED want
Return(c) == pc' = [pc EXCEPT ![c] = "idle"] /\ want' = [want EXCEPT ![c] = NoSum]
\* The file at tmpPath is removed; who has it open keeps it.
Removed == [d \in Updaters |-> IF holds[d] = "tmp" THEN "gone" ELSE holds[d]]
\* Another curl is writing to the file at tmpPath.
Written(c) == \E d \in Updaters \ {c} : At(d, "curl") /\ holds[d] = "tmp"
RemoveTmp == tmp' = NoFile
\* The file that c has open is closed.
Close(c) ==
    /\ mixed' = [mixed EXCEPT ![c] = FALSE]
    /\ have' = [have EXCEPT ![c] = NoFile]

-----------------------------------------------------------------------------
(* The download                                                            *)

\* A tick of autoUpdate, or an update_agent command that may carry a checksum.
Start(c) ==
    /\ At(c, "idle") /\ running # NoFile
    /\ \E sum \in Versions \cup {NoSum} : want' = [want EXCEPT ![c] = sum]
    /\ pc' = [pc EXCEPT ![c] = "connect"]
    /\ UNCHANGED <<world, tmp, bin, inUse, running, pending, restarts, holds, mixed, have,
                   asked>>

\* curl has an answer and opens its output, truncating what is there.
CurlOpen(c) ==
    /\ At(c, "connect")
    /\ tmp' = Broken
    /\ holds' = [holds EXCEPT ![c] = "tmp"]
    /\ mixed' = [d \in Updaters |-> IF d = c THEN Written(c)
                                    ELSE mixed[d] \/ holds[d] = "tmp"]
    /\ Goto(c, "curl")
    /\ UNCHANGED <<world, bin, inUse, running, pending, restarts, have, asked>>

\* The download is complete, unless another curl writes to the same file.
CurlOk(c) ==
    /\ At(c, "curl")
    /\ \E x \in {released} \cup (IF mixed[c] THEN {Broken} ELSE {}) :
          /\ tmp' = IF holds[c] = "tmp" THEN x ELSE tmp
          /\ bin' = IF holds[c] = "bin" THEN x ELSE bin
    /\ holds' = [holds EXCEPT ![c] = "none"] /\ Close(c)
    /\ Goto(c, "check")
    /\ UNCHANGED <<world, inUse, running, pending, restarts, asked>>

\* (mutant of CurlFail) what curl has left behind is used
CurlFailIgnored(c) ==
    /\ pc[c] \in {"connect", "curl"}
    /\ holds' = [holds EXCEPT ![c] = "none"] /\ Close(c)
    /\ Goto(c, "check")
    /\ UNCHANGED <<world, tmp, bin, inUse, running, pending, restarts, asked>>

\* A timeout or an error: the call returns, and what curl has written stays.
CurlFail(c) ==
    /\ pc[c] \in {"connect", "curl"}
    /\ holds' = [holds EXCEPT ![c] = "none"] /\ Close(c)
    /\ Return(c)
    /\ UNCHANGED <<world, tmp, bin, inUse, running, pending, restarts, asked>>

-----------------------------------------------------------------------------
(* Verification and replacement                                            *)

\* (mutant of Check) the checksum is compared with the installed binary's
ChecksInstalled(c) ==
    /\ At(c, "check")
    /\ IF want[c] \in {NoSum, bin}
       THEN Goto(c, "compare") /\ UNCHANGED <<tmp, holds>>
       ELSE Return(c) /\ RemoveTmp /\ holds' = Removed
    /\ UNCHANGED <<world, bin, inUse, running, pending, restarts, mixed, have, asked>>

\* The checksum of the file at tmpPath, if the command came with one.
Check(c) ==
    /\ At(c, "check")
    /\ IF want[c] \in {NoSum, tmp}
       THEN Goto(c, "compare") /\ UNCHANGED <<tmp, holds>>
       ELSE Return(c) /\ RemoveTmp /\ holds' = Removed
    /\ UNCHANGED <<world, bin, inUse, running, pending, restarts, mixed, have, asked>>

\* "already_latest": what was downloaded is what is installed.
Same == tmp = bin /\ tmp \in Versions

\* ... or there is nothing to make executable ...
Compare(c) ==
    /\ At(c, "compare")
    /\ IF Same \/ tmp = NoFile
       THEN Return(c) /\ RemoveTmp /\ holds' = Removed
       ELSE Goto(c, "replace") /\ UNCHANGED <<tmp, holds>>
    /\ UNCHANGED <<world, bin, inUse, running, pending, restarts, mixed, have, asked>>

\* ... or chmod fails, and the file stays ...
ChmodFail(c) ==
    /\ At(c, "compare") /\ ~Same
    /\ Return(c)
    /\ UNCHANGED <<world, tmp, bin, inUse, running, pending, restarts, holds, mixed, have,
                   asked>>

\* c is writing to the file at binPath, or to one that has been there.
OnBin(c) == At(c, "copy") \/ (At(c, "curl") /\ holds[c] = "bin")

\* ... or the file takes the place of the binary, in one step: os.Rename.
Rename(c) ==
    /\ At(c, "replace") /\ direct /\ tmp # NoFile
    /\ bin' = tmp /\ inUse' = FALSE /\ asked' = want[c]
    /\ tmp' = NoFile
    /\ holds' = [d \in Updaters |-> CASE holds[d] = "tmp" -> "bin"
                                      [] holds[d] = "bin" -> "gone"
                                      [] OTHER -> holds[d]]
    /\ mixed' = [d \in Updaters |-> mixed[d] \/ At(d, "copy")]
    /\ Goto(c, "clean")
    /\ UNCHANGED <<world, running, pending, restarts, have>>

\* The agent has no right to, or the file is gone: on to sudo.
RenameFail(c) ==
    /\ At(c, "replace") /\ (~direct \/ tmp = NoFile)
    /\ Goto(c, "sudo")
    /\ UNCHANGED <<world, tmp, bin, inUse, running, pending, restarts, holds, mixed, have,
                   asked>>

\* cp -f opens both files.  What runs cannot be opened for writing, and is unlinked;
\* another file is truncated, or made.
CopyBegin(c) ==
    /\ At(c, "sudo") /\ tmp # NoFile
    /\ have' = [have EXCEPT ![c] = tmp]
    /\ holds' = [holds EXCEPT ![c] = "tmp"]
    /\ mixed' = [d \in Updaters |->
                    IF d = c THEN Written(c) \/ (\E e \in Updaters \ {c} : OnBin(e))
                    ELSE mixed[d] \/ OnBin(d)]
    /\ bin' = IF inUse THEN NoFile ELSE Broken
    /\ Goto(c, IF inUse THEN "create" ELSE "copy")
    /\ inUse' = FALSE /\ asked' = NoSum
    /\ UNCHANGED <<world, tmp, running, pending, restarts>>

\* Where it has unlinked the binary, cp makes it anew ...
CopyCreate(c) ==
    /\ At(c, "create") /\ bin = NoFile
    /\ bin' = Broken
    /\ Goto(c, "copy")
    /\ UNCHANGED <<world, tmp, inUse, running, pending, restarts, holds, mixed, have, asked>>

\* ... and writes it.
CopyEnd(c) ==
    /\ At(c, "copy")
    /\ \E x \in {have[c]} \cup (IF mixed[c] THEN {Broken, bin} ELSE {}) : bin' = x
    /\ asked' = want[c]
    /\ holds' = [holds EXCEPT ![c] = "none"] /\ Close(c)
    /\ Goto(c, "clean")
    /\ UNCHANGED <<world, tmp, inUse, running, pending, restarts>>

\* Neither works: there is no file any more, or sudo refuses, or cp fails half way, which
\* leaves part of the binary, or none.
ReplaceFail(c) ==
    /\ pc[c] \in {"sudo", "create", "copy"}
    /\ RemoveTmp /\ Close(c)
    /\ holds' = [Removed EXCEPT ![c] = "none"]
    /\ Return(c)
    /\ UNCHANGED <<world, bin, inUse, running, pending, restarts, asked>>

\* (mutant of Clean) the restart is left to the next start of the host
NoRestart(c) ==
    /\ At(c, "clean")
    /\ RemoveTmp /\ holds' = Removed
    /\ Return(c)
    /\ UNCHANGED <<world, bin, inUse, running, pending, restarts, mixed, have, asked>>

\* The file is removed, and a goroutine will restart the agent in a second.
Clean(c) ==
    /\ At(c, "clean")
    /\ RemoveTmp /\ holds' = Removed
    /\ pending' = TRUE
    /\ Return(c)
    /\ UNCHANGED <<world, bin, inUse, running, restarts, mixed, have, asked>>

-----------------------------------------------------------------------------
(* systemd, and the release at GitHub                                      *)

\* The agent is killed with the programs it runs, and started from the binary.
Reborn ==
    /\ running' = IF bin \in Versions THEN bin ELSE NoFile
    /\ inUse' = TRUE
    /\ pending' = FALSE
    /\ pc' = [c \in Updaters |-> "idle"]
    /\ want' = [c \in Updaters |-> NoSum]
    /\ mixed' = [c \in Updaters |-> FALSE] /\ have' = [c \in Updaters |-> NoFile]
    /\ holds' = [c \in Updaters |-> "none"]
    /\ asked' = NoSum
    /\ UNCHANGED <<world, tmp, bin>>

RestartOk ==
    /\ pending /\ restarter
    /\ Reborn
    /\ UNCHANGED restarts

\* systemctl and sudo systemctl both fail, and nobody asks.
RestartFail ==
    /\ pending /\ ~restarter
    /\ pending' = FALSE
    /\ UNCHANGED <<world, tmp, bin, inUse, running, restarts, pc, want, holds, mixed,
                   have, asked>>

\* A crash, an operator or a reboot.
AgentRestart ==
    /\ restarts < Restarts
    /\ restarts' = restarts + 1
    /\ Reborn

Publish ==
    /\ \E v \in Versions : (Rollback \/ v > released) /\ released' = v
    /\ UNCHANGED <<direct, restarter, tmp, bin, inUse, running, pending, restarts, pc, want,
                   holds, mixed, have, asked>>

-----------------------------------------------------------------------------
Progress(c) ==
    \/ CurlOpen(c) \/ CurlOk(c) \/ CurlFail(c) \/ Check(c) \/ Compare(c) \/ ChmodFail(c)
    \/ Rename(c) \/ RenameFail(c) \/ CopyBegin(c) \/ CopyCreate(c) \/ CopyEnd(c)
    \/ ReplaceFail(c) \/ Clean(c)

\* What leaves the agent's process as it is ...
Update == (\E c \in Updaters : Start(c) \/ Progress(c)) \/ RestartFail \/ Publish
\* ... and what replaces it.
Restart == RestartOk \/ AgentRestart

Next == Update \/ Restart

vars == <<updateVars, running>>
Spec == Init /\ [][Next]_vars

-----------------------------------------------------------------------------
(* Properties                                                              *)

\* Every variable keeps its type.
TypeOK ==
    /\ direct \in BOOLEAN /\ restarter \in BOOLEAN /\ pending \in BOOLEAN /\ inUse \in BOOLEAN
    /\ restarts \in 0..Restarts
    /\ released \in Versions
    /\ tmp \in Contents /\ bin \in Contents
    /\ running \in Versions \cup {NoFile}
    /\ pc \in [Updaters -> {"idle", "connect", "curl", "check", "compare", "replace",
                            "sudo", "create", "copy", "clean"}]
    /\ want \in [Updaters -> Versions \cup {NoSum}]
    /\ holds \in [Updaters -> {"none", "tmp", "bin", "gone"}]
    /\ mixed \in [Updaters -> BOOLEAN]
    /\ have \in [Updaters -> Contents]
    /\ asked \in Versions \cup {NoSum}

\* Where the binary is replaced by a rename, it is a whole release at every moment:
\* whatever a download that failed, or a restart at any point, has left at tmpPath.
BinaryWhole == direct => bin \in Versions

\* "Verify SHA256 checksum if provided": what a command with a checksum has installed
\* is the release that the checksum names.
ChecksumKept == asked # NoSum => bin = asked

\* "agent is already at latest version": who is told so has an agent that runs the
\* binary it was compared with, or is about to be restarted into it, where systemctl
\* may be called.
AlreadyLatestTrue ==
    [][\A c \in Updaters :
          restarter /\ At(c, "compare") /\ Same /\ At(c, "idle")'
              => running = bin \/ pending]_vars
=============================================================================
