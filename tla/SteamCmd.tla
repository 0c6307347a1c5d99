------------------------------ MODULE SteamCmd ------------------------------
(***************************************************************************)
(* downloadCS2ViaSteamCMD: up to MaxAttempts runs of SteamCMD, the count of *)
(* state errors in a row and the auto-wipe of the base it leads to, the    *)
(* shared progress snapshot and last result, and getBaseStatus, which reads *)
(* both.  Several commands may be in a call at once: nothing excludes them. *)
(*                                                                         *)
(* SteamCMD is the environment: while it runs it adds and removes parts of *)
(* the base, and it ends with a state error, with another error or well.   *)
(* A host without /usr/games/steamcmd, where a call returns at once, is    *)
(* left out, and so is the staging of steamclient.so, which cannot fail a  *)
(* call.                                                                   *)
(***************************************************************************)
EXTENDS Naturals, FiniteSets

CONSTANTS
    Callers,      \* the commands that may be in a call at the same time
    MaxAttempts,  \* runs of SteamCMD per call, 5 in the code
    MaxCalls      \* bound: how many calls are made

ASSUME SteamCmdAssumption == MaxAttempts \in Nat \ {0} /\ MaxCalls \in Nat

Parts == {"bin", "csgo"}

VARIABLES
    base,      \* the parts present in cs2-base
    pc,        \* pc[c]: where call c is
    attempt,   \* attempt[c]: the loop variable
    streak,    \* streak[c]: consecutiveStateErrors
    wiped,     \* wiped[c]: wipedAlready
    toWipe,    \* toWipe[c]: the entries wipeCS2Base listed and has not removed
    shown,     \* steamcmdProgressCur is not nil
    results,   \* which result lastSteamCMDCur holds: they are numbered
    calls,     \* calls made so far
    saw,       \* the result getBaseStatus has read on its way, or NoRead
    ended      \* history: ended[c], how the call's last two runs ended, newest first

vars == <<base, pc, attempt, streak, wiped, toWipe, shown, results, calls, saw, ended>>

NoRead == MaxCalls + 1    \* no result has this number

Init ==
    /\ base \in SUBSET Parts
    /\ pc = [c \in Callers |-> "idle"]
    /\ attempt = [c \in Callers |-> 1]
    /\ streak = [c \in Callers |-> 0]
    /\ wiped = [c \in Callers |-> FALSE]
    /\ toWipe = [c \in Callers |-> {}]
    /\ shown = FALSE /\ results = 0 /\ calls = 0 /\ saw = NoRead
    /\ ended = [c \in Callers |-> <<"none", "none">>]

At(c, where) == pc[c] = where
Goto(c, where) == pc' = [pc EXCEPT ![c] = where]

-----------------------------------------------------------------------------
(* One call                                                                *)

Begin(c) ==
    /\ At(c, "idle") /\ calls < MaxCalls
    /\ calls' = calls + 1
    /\ attempt' = [attempt EXCEPT ![c] = 1]
    /\ streak' = [streak EXCEPT ![c] = 0]
    /\ wiped' = [wiped EXCEPT ![c] = FALSE]
    /\ ended' = [ended EXCEPT ![c] = <<"none", "none">>]
    /\ shown' = TRUE
    /\ Goto(c, "run")
    /\ UNCHANGED <<base, toWipe, results, saw>>

\* SteamCMD changes the base ...
SteamChanges(c) ==
    /\ At(c, "run")
    /\ base' \in SUBSET Parts
    /\ UNCHANGED <<pc, attempt, streak, wiped, toWipe, shown, results, calls, saw, ended>>

\* ... and prints a progress line, which the writer turns into the snapshot.
ProgressLine(c) ==
    /\ At(c, "run")
    /\ shown' = TRUE
    /\ UNCHANGED <<base, pc, attempt, streak, wiped, toWipe, results, calls, saw, ended>>

Ends(c, how) == ended' = [ended EXCEPT ![c] = <<how, @[1]>>]

\* The run reported a state error.  After two in a row the base is wiped, once.
StateError(c) ==
    /\ At(c, "run")
    /\ streak' = [streak EXCEPT ![c] = @ + 1]
    /\ Ends(c, "state")
    /\ IF streak[c] + 1 >= 2 /\ ~wiped[c]
       THEN toWipe' = [toWipe EXCEPT ![c] = base] /\ Goto(c, "wipe")
       ELSE UNCHANGED toWipe /\ Goto(c, "next")
    /\ UNCHANGED <<base, attempt, wiped, shown, results, calls, saw>>

\* (mutant of OtherError) another error between two state errors does not count
ErrorKeepsStreak(c) ==
    /\ At(c, "run")
    /\ Ends(c, "error")
    /\ Goto(c, "next")
    /\ UNCHANGED <<base, attempt, streak, wiped, toWipe, shown, results, calls, saw>>

\* It reported another error, or exited with one.
OtherError(c) ==
    /\ At(c, "run")
    /\ streak' = [streak EXCEPT ![c] = 0]
    /\ Ends(c, "error")
    /\ Goto(c, "next")
    /\ UNCHANGED <<base, attempt, wiped, toWipe, shown, results, calls, saw>>

\* It reported none, but the cs2 binary is missing.
BinaryMissing(c) ==
    /\ At(c, "run") /\ "bin" \notin base
    /\ streak' = [streak EXCEPT ![c] = 0]
    /\ Ends(c, "missing")
    /\ Goto(c, "next")
    /\ UNCHANGED <<base, attempt, wiped, toWipe, shown, results, calls, saw>>

\* (mutant of Installed) a run without an error is accepted unseen
AcceptedUnseen(c) ==
    /\ At(c, "run")
    /\ results' = results + 1
    /\ Goto(c, "installed")
    /\ UNCHANGED <<base, attempt, streak, wiped, toWipe, shown, calls, saw, ended>>

\* It reported none and the binary is there: up to date, installed or accepted.
Installed(c) ==
    /\ At(c, "run") /\ "bin" \in base
    /\ results' = results + 1
    /\ Goto(c, "installed")
    /\ UNCHANGED <<base, attempt, streak, wiped, toWipe, shown, calls, saw, ended>>

\* wipeCS2Base removes the entries it listed, one by one ...
WipeStep(c) ==
    /\ At(c, "wipe")
    /\ \E x \in toWipe[c] : /\ base' = base \ {x}
                            /\ toWipe' = [toWipe EXCEPT ![c] = @ \ {x}]
    /\ UNCHANGED <<pc, attempt, streak, wiped, shown, results, calls, saw, ended>>

\* (mutant of WipeOk) after a wipe the call starts over, with all its attempts
WipeStartsOver(c) ==
    /\ At(c, "wipe") /\ toWipe[c] = {}
    /\ attempt' = [attempt EXCEPT ![c] = 1]
    /\ streak' = [streak EXCEPT ![c] = 0]
    /\ Goto(c, "run")
    /\ UNCHANGED <<base, wiped, toWipe, shown, results, calls, saw, ended>>

\* ... to the end ...
WipeOk(c) ==
    /\ At(c, "wipe") /\ toWipe[c] = {}
    /\ wiped' = [wiped EXCEPT ![c] = TRUE]
    /\ streak' = [streak EXCEPT ![c] = 0]
    /\ Goto(c, "next")
    /\ UNCHANGED <<base, attempt, toWipe, shown, results, calls, saw, ended>>

\* ... or up to the first error: then the next state error wipes again.
WipeFail(c) ==
    /\ At(c, "wipe")
    /\ toWipe' = [toWipe EXCEPT ![c] = {}]
    /\ Goto(c, "next")
    /\ UNCHANGED <<base, attempt, streak, wiped, shown, results, calls, saw, ended>>

\* (mutant of Retry) one run too many
OneMoreRun(c) ==
    /\ At(c, "next") /\ attempt[c] <= MaxAttempts
    /\ attempt' = [attempt EXCEPT ![c] = @ + 1]
    /\ Goto(c, "run")
    /\ UNCHANGED <<base, streak, wiped, toWipe, shown, results, calls, saw, ended>>

Retry(c) ==
    /\ At(c, "next") /\ attempt[c] < MaxAttempts
    /\ attempt' = [attempt EXCEPT ![c] = @ + 1]
    /\ Goto(c, "run")
    /\ UNCHANGED <<base, streak, wiped, toWipe, shown, results, calls, saw, ended>>

GiveUp(c) ==
    /\ At(c, "next") /\ attempt[c] >= MaxAttempts
    /\ results' = results + 1
    /\ Goto(c, "failed")
    /\ UNCHANGED <<base, attempt, streak, wiped, toWipe, shown, calls, saw, ended>>

\* (mutant of Return) the progress is cleared on success only
ClearedOnSuccess(c) ==
    /\ pc[c] \in {"installed", "failed"}
    /\ shown' = (shown /\ At(c, "failed"))
    /\ Goto(c, "idle")
    /\ UNCHANGED <<base, attempt, streak, wiped, toWipe, results, calls, saw, ended>>

\* The deferred clearSteamcmdProgress, on every way out.
Return(c) ==
    /\ pc[c] \in {"installed", "failed"}
    /\ shown' = FALSE
    /\ Goto(c, "idle")
    /\ UNCHANGED <<base, attempt, streak, wiped, toWipe, results, calls, saw, ended>>

-----------------------------------------------------------------------------
(* getBaseStatus reads the last result first and the progress then         *)

ReadLast ==
    /\ saw = NoRead
    /\ saw' = results
    /\ UNCHANGED <<base, pc, attempt, streak, wiped, toWipe, shown, results, calls, ended>>

ReadProgress ==
    /\ saw # NoRead
    /\ saw' = NoRead
    /\ UNCHANGED <<base, pc, attempt, streak, wiped, toWipe, shown, results, calls, ended>>

-----------------------------------------------------------------------------
\* What the loop itself does once SteamCMD has ended.
Loop(c) ==
    \/ StateError(c) \/ OtherError(c) \/ BinaryMissing(c) \/ Installed(c)
    \/ WipeStep(c) \/ WipeOk(c) \/ WipeFail(c) \/ Retry(c) \/ GiveUp(c) \/ Return(c)

Download(c) == Begin(c) \/ SteamChanges(c) \/ ProgressLine(c) \/ Loop(c)

Next == (\E c \in Callers : Download(c)) \/ ReadLast \/ ReadProgress

Spec == Init /\ [][Next]_vars

\* A run of SteamCMD ends and its caller goes on.
FairSpec == Spec /\ \A c \in Callers : WF_vars(Loop(c))

-----------------------------------------------------------------------------
(* Properties                                                              *)

\* Every variable keeps its type; a call never makes more than MaxAttempts runs.
TypeOK ==
    /\ base \subseteq Parts
    /\ pc \in [Callers -> {"idle", "run", "wipe", "next", "installed", "failed"}]
    /\ attempt \in [Callers -> 1..MaxAttempts]
    /\ streak \in [Callers -> Nat]
    /\ wiped \in [Callers -> BOOLEAN]
    /\ toWipe \in [Callers -> SUBSET Parts]
    /\ shown \in BOOLEAN
    /\ results \in Nat /\ calls \in 0..MaxCalls /\ saw \in Nat
    /\ ended \in [Callers -> {"none", "state", "error", "missing"}
                             \X {"none", "state", "error", "missing"}]

\* "2 consecutive state errors": the base is emptied only by a call whose own last
\* two runs both ended with a state error, whatever other calls do in between.
WipeAfterTwoStateErrors ==
    \A c \in Callers : At(c, "wipe") => ended[c] = <<"state", "state">>

\* "clear shared progress on exit so the admin UI stops showing it": nothing is shown
\* when no call is left, in whatever order several calls print, end and clear.
ProgressCleared == shown => \E c \in Callers : ~At(c, "idle")

\* The calls implement BaseInstall.
Phase == [c \in Callers |-> IF pc[c] \in {"run", "wipe", "next"} THEN "working" ELSE pc[c]]
Abstract == INSTANCE BaseInstall WITH phase <- Phase, Binary <- "bin"
InstallKept == Abstract!Spec

\* A call comes to an end.
CallReturns == \A c \in Callers : At(c, "run") ~> At(c, "idle")

\* The steps that the loop of a call may still take: at most PerRun for each run of
\* SteamCMD, a wipe that removes what it has listed among them.
PerRun == 6
StepsLeft(c) ==
    LET later == PerRun * (MaxAttempts - attempt[c])
    IN CASE At(c, "idle")                  -> 0
         [] pc[c] \in {"installed", "failed"} -> 1
         [] At(c, "next")                  -> 2 + later
         [] At(c, "wipe")                  -> 3 + later + Cardinality(toWipe[c])
         [] At(c, "run")                   -> PerRun + later

\* Why a call comes to an end: each step of its loop leaves it fewer to take, and nothing
\* but its begin gives it more, whatever SteamCMD, its own wipe and other calls do.
EveryStepCounts ==
    [][\A c \in Callers : /\ Loop(c) => StepsLeft(c)' < StepsLeft(c)
                          /\ StepsLeft(c)' > StepsLeft(c) => Begin(c)]_vars

-----------------------------------------------------------------------------
(* What the code's comments say and the code does not do                   *)

\* "the real status instead of guesswork": a status without a download in progress
\* carries the newest result.
StatusReal == [][ReadProgress /\ ~shown => saw = results]_vars
=============================================================================
