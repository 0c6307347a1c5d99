------------------------------ MODULE HostPerf ------------------------------
(***************************************************************************)
(* ApplyHostPerf: the tuning script that is embedded in the agent is       *)
(* written to a fixed path, run as root, and recorded in a marker, by a    *)
(* goroutine 3 s after the agent has started and by apply_host_perf        *)
(* commands.                                                               *)
(*                                                                         *)
(* A script, and the hash that names it, is the release that it comes with. *)
(* A script that is cut short leaves the host neither here nor there, unless *)
(* it had run to its end before: it is idempotent.  All goroutines share   *)
(* the temporary file of writeScript, and a file that is renamed stays open *)
(* for who writes it.                                                      *)
(***************************************************************************)
EXTENDS Naturals

CONSTANTS
    Appliers,     \* bound: the goroutines in ApplyHostPerf at once ...
    Startup,      \* ... and the one of them that main starts
    MaxVersion,   \* bound: the releases are 1..MaxVersion
    Rollback,     \* the agent may be replaced by an older release
    Torn,         \* two goroutines may write the script at the same moment
    Broken, NoFile

Versions == 1..MaxVersion

VARIABLES
    running,   \* the release the agent runs, NoFile when it does not run
    marker,    \* the release that .host-perf-applied names
    tmpScript, \* the file that writeScript writes first
    script,    \* the file that is run
    host,      \* the release whose script has run to its end, or Broken
    at,        \* at[a]: where goroutine a is
    opened,    \* opened[a]: where the file is that a writes
    runs       \* runs[a]: what the script was when a started it

perfVars == <<marker, tmpScript, script, host, at, opened, runs>>
perfAll  == <<running, perfVars>>

\* Where a goroutine begins.
Rests(a) == IF a = Startup THEN "sleep" ELSE "idle"
Asleep == [a \in Appliers |-> Rests(a)]
Closed == [a \in Appliers |-> "none"]

PerfInit ==
    /\ marker = NoFile /\ tmpScript = NoFile /\ script = NoFile
    /\ host = NoFile
    /\ at = Asleep /\ opened = Closed
    /\ runs = [a \in Appliers |-> NoFile]

Step(a, from, to) == at[a] = from /\ at' = [at EXCEPT ![a] = to]
\* (mutant of Ends) the goroutine of main begins again, as a command does
EndsLikeACommand(a, from, result) == Step(a, from, "idle")

\* A command goes back to where it came from, the goroutine of main is gone.
Ends(a, from, result) == Step(a, from, IF a = Startup THEN result ELSE "idle")

-----------------------------------------------------------------------------
(* ApplyHostPerf                                                           *)

\* (mutant of Begin) a marker of any release will do
AnyMarkerWillDo(a) ==
    /\ running # NoFile
    /\ IF marker # NoFile THEN Ends(a, Rests(a), "done") ELSE Step(a, Rests(a), "open")
    /\ UNCHANGED <<running, marker, tmpScript, script, host, opened, runs>>

\* The goroutine of main wakes up, or a command comes: "already_applied", or the
\* script has to run because the marker names another one, or because of "force".
Begin(a) ==
    /\ running # NoFile
    /\ \/ marker = running /\ Ends(a, Rests(a), "done")
       \/ (marker # running \/ a # Startup) /\ Step(a, Rests(a), "open")
    /\ UNCHANGED <<running, marker, tmpScript, script, host, opened, runs>>

\* writeScript opens and truncates the temporary file, ...
Writing == \E b \in Appliers : at[b] \in {"write", "rename"}
OpenScript(a) ==
    /\ Step(a, "open", "write")
    /\ Torn \/ ~Writing
    /\ tmpScript' = Broken
    /\ opened' = [opened EXCEPT ![a] = "tmp"]
    /\ UNCHANGED <<running, marker, script, host, runs>>

\* ... writes it, wherever it is by now, ...
WriteScript(a) ==
    /\ Step(a, "write", "rename")
    /\ tmpScript' = IF opened[a] = "tmp" THEN running ELSE tmpScript
    /\ script' = IF opened[a] = "script" THEN running ELSE script
    /\ opened' = [opened EXCEPT ![a] = "none"]
    /\ UNCHANGED <<running, marker, host, runs>>

\* ... and renames it.
RenameScript(a) ==
    /\ Step(a, "rename", "start")
    /\ tmpScript # NoFile
    /\ script' = tmpScript /\ tmpScript' = NoFile
    /\ opened' = [b \in Appliers |-> CASE opened[b] = "tmp" -> "script"
                                       [] opened[b] = "script" -> "gone"
                                       [] OTHER -> opened[b]]
    /\ UNCHANGED <<running, marker, host, runs>>

\* One of the three fails: no space, or the file is gone.
WriteFail(a) ==
    /\ \E from \in {"open", "write", "rename"} : Ends(a, from, "failed")
    /\ opened' = [opened EXCEPT ![a] = "none"]
    /\ UNCHANGED <<running, marker, tmpScript, script, host, runs>>

\* The script is run, by bash or by sudo.  An empty one does nothing.
StartScript(a) ==
    /\ Step(a, "start", "run")
    /\ runs' = [runs EXCEPT ![a] = script]
    /\ host' = IF script \in {host, Broken} THEN host ELSE Broken
    /\ UNCHANGED <<running, marker, tmpScript, script, opened>>

ScriptOk(a) ==
    /\ Step(a, "run", "mark")
    /\ host' = IF runs[a] = Broken THEN host ELSE runs[a]
    /\ runs' = [runs EXCEPT ![a] = NoFile]
    /\ UNCHANGED <<running, marker, tmpScript, script, opened>>

\* (mutant of ScriptFail) the marker is written all the same
FailureMarked(a) ==
    /\ \E from \in {"start", "run"} : Step(a, from, "mark")
    /\ UNCHANGED <<running, marker, tmpScript, script, host, opened, runs>>

\* It is not allowed to run, or a command in it fails (set -e).
ScriptFail(a) ==
    /\ \E from \in {"start", "run"} : Ends(a, from, "failed")
    /\ runs' = [runs EXCEPT ![a] = NoFile]
    /\ UNCHANGED <<running, marker, tmpScript, script, host, opened>>

\* writeMarker truncates the marker and writes it ...
OpenMarker(a) ==
    /\ Step(a, "mark", "marking")
    /\ marker' = NoFile
    /\ UNCHANGED <<running, tmpScript, script, host, opened, runs>>

WriteMarker(a) ==
    /\ Ends(a, "marking", "done")
    /\ marker' = running
    /\ UNCHANGED <<running, tmpScript, script, host, opened, runs>>

\* ... or cannot: "next agent start will re-run".
MarkerFail(a) ==
    /\ \E from \in {"mark", "marking"} : Ends(a, from, "done")
    /\ UNCHANGED <<running, marker, tmpScript, script, host, opened, runs>>

-----------------------------------------------------------------------------
\* The agent is gone, with its goroutines and the script they ran, and starts again.
PerfReborn ==
    /\ at' = Asleep /\ opened' = Closed
    /\ runs' = [a \in Appliers |-> NoFile]
    /\ UNCHANGED <<marker, tmpScript, script, host>>

Replaced ==
    /\ running' \in Versions
    /\ Rollback \/ running' >= running
    /\ PerfReborn

PerfProgress(a) ==
    \/ OpenScript(a) \/ WriteScript(a) \/ RenameScript(a) \/ WriteFail(a)
    \/ StartScript(a) \/ ScriptOk(a) \/ ScriptFail(a)
    \/ OpenMarker(a) \/ WriteMarker(a) \/ MarkerFail(a)

Apply == \E a \in Appliers : Begin(a) \/ PerfProgress(a)

PerfSpec == (PerfInit /\ running \in Versions) /\ [][Apply \/ Replaced]_perfAll

-----------------------------------------------------------------------------
(* Properties                                                              *)

\* Where a goroutine may be: a command comes back to where it came from, the goroutine of
\* main ends once and for all.
Stages(a) ==
    {"open", "write", "rename", "start", "run", "mark", "marking"}
        \cup (IF a = Startup THEN {"sleep", "done", "failed"} ELSE {"idle"})

\* Every variable keeps its type, and every goroutine is where its kind may be.
PerfTypeOK ==
    /\ running \in Versions \cup {NoFile}
    /\ {marker, host} \subseteq Versions \cup {Broken, NoFile}
    /\ {tmpScript, script} \subseteq Versions \cup {Broken, NoFile}
    /\ at \in [Appliers -> UNION {Stages(a) : a \in Appliers}]
    /\ \A a \in Appliers : at[a] \in Stages(a)
    /\ opened \in [Appliers -> {"none", "tmp", "script", "gone"}]
    /\ runs \in [Appliers -> Versions \cup {Broken, NoFile}]

\* "The sha256 of the script that was last successfully applied": where the marker
\* makes the agent leave the script out, the script has run to its end on this host.
MarkerTruthful == marker = running /\ running # NoFile => host = running
=============================================================================
