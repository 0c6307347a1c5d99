-------------------------- MODULE AgentLife_proofs --------------------------
(***************************************************************************)
(* What holds of the agent for any number of releases, restarts, calls of  *)
(* updateAgent and apply_host_perf commands: types, and where each kind of *)
(* goroutine may be.  When releases only move forward and no two           *)
(* goroutines write the script at the same moment, what its marker means.  *)
(* When calls of updateAgent do not overlap, which binary the agent is     *)
(* left with.                                                              *)
(***************************************************************************)
EXTENDS AgentLife, TLAPS

-----------------------------------------------------------------------------
(* Types                                                                   *)

\* What cp has opened was there.
Opened == \A c \in Updaters : pc[c] \in {"create", "copy"} => have[c] # NoFile

\* Steps of overlapping calls keep the types.
LEMMA CallTypes ==
    ASSUME TypeOK, Opened, NEW c \in Updaters, Start(c) \/ Progress(c)
    PROVE  TypeOK' /\ Opened'
<1> USE SelfUpdateAssumption DEF TypeOK, Opened, At, Goto, Return, Contents, world
<1>1. CASE Start(c)
  BY <1>1 DEF Start
<1>2. CASE CurlOpen(c)
  <2>1. mixed' \in [Updaters -> BOOLEAN]
    BY <1>2 DEF CurlOpen, Written
  <2> QED
    BY <1>2, <2>1 DEF CurlOpen
<1>3. CASE CurlOk(c)
  BY <1>3 DEF CurlOk, Close
<1>4. CASE CurlFail(c)
  BY <1>4 DEF CurlFail, Close
<1>5. CASE Check(c)
  BY <1>5 DEF Check, RemoveTmp, Removed
<1>6. CASE Compare(c)
  BY <1>6 DEF Compare, RemoveTmp, Removed
<1>7. CASE Rename(c)
  <2>1. mixed' \in [Updaters -> BOOLEAN]
    BY <1>7 DEF Rename
  <2> QED
    BY <1>7, <2>1 DEF Rename
<1>8. CASE CopyBegin(c)
  <2>1. mixed' \in [Updaters -> BOOLEAN]
    BY <1>8 DEF CopyBegin, Written, OnBin
  <2> QED
    BY <1>8, <2>1 DEF CopyBegin
<1>9. CASE CopyEnd(c)
  BY <1>9 DEF CopyEnd, Close
<1>10. CASE ReplaceFail(c)
  BY <1>10 DEF ReplaceFail, RemoveTmp, Removed, Close
<1>11. CASE Clean(c)
  BY <1>11 DEF Clean, RemoveTmp, Removed
<1>12. CASE ChmodFail(c) \/ RenameFail(c)
  BY <1>12 DEF ChmodFail, RenameFail
<1>13. CASE CopyCreate(c)
  BY <1>13 DEF CopyCreate
<1> QED
  BY <1>1, <1>2, <1>3, <1>4, <1>5, <1>6, <1>7, <1>8, <1>9, <1>10, <1>11, <1>12, <1>13
     DEF Progress

LEMMA UpdateTypes == TypeOK /\ Opened /\ [Next]_vars => TypeOK' /\ Opened'
<1> SUFFICES ASSUME TypeOK, Opened, [Next]_vars PROVE TypeOK' /\ Opened'
  OBVIOUS
<1>1. ASSUME NEW c \in Updaters, Start(c) \/ Progress(c) PROVE TypeOK' /\ Opened'
  BY <1>1, CallTypes
<1> USE SelfUpdateAssumption DEF TypeOK, Opened, At, Contents, world
<1>2. CASE RestartFail
  BY <1>2 DEF RestartFail
<1>3. CASE Publish
  BY <1>3 DEF Publish
<1>4. CASE RestartOk
  BY <1>4 DEF RestartOk, Reborn
<1>5. CASE AgentRestart
  <2>1. restarts' \in 0..Restarts
    BY <1>5 DEF AgentRestart
  <2> QED
    BY <1>5, <2>1 DEF AgentRestart, Reborn
<1>6. CASE UNCHANGED vars
  BY <1>6 DEF vars, updateVars
<1> QED
  BY <1>1, <1>2, <1>3, <1>4, <1>5, <1>6 DEF Next, Update, Restart

LEMMA PerfTypes ==
    ASSUME Perf!PerfTypeOK, NEW a \in Appliers, Perf!Begin(a) \/ Perf!PerfProgress(a)
    PROVE  Perf!PerfTypeOK'
<1> USE AgentAssumption DEF Perf!PerfTypeOK, Perf!Step, Perf!Ends, Perf!Stages, Perf!Rests
<1>1. CASE Perf!Begin(a)
  BY <1>1 DEF Perf!Begin
<1>2. CASE Perf!OpenScript(a) \/ Perf!WriteScript(a) \/ Perf!RenameScript(a) \/ Perf!WriteFail(a)
  BY <1>2 DEF Perf!OpenScript, Perf!WriteScript, Perf!RenameScript, Perf!WriteFail
<1>3. CASE Perf!StartScript(a) \/ Perf!ScriptOk(a) \/ Perf!ScriptFail(a)
  BY <1>3 DEF Perf!StartScript, Perf!ScriptOk, Perf!ScriptFail
<1>4. CASE Perf!OpenMarker(a) \/ Perf!WriteMarker(a) \/ Perf!MarkerFail(a)
  BY <1>4 DEF Perf!OpenMarker, Perf!WriteMarker, Perf!MarkerFail
<1> QED
  BY <1>1, <1>2, <1>3, <1>4 DEF Perf!PerfProgress

\* A goroutine in ApplyHostPerf leaves the other half alone.
LEMMA ApplyUpdates ==
    ASSUME NEW a \in Appliers, Perf!Begin(a) \/ Perf!PerfProgress(a)
    PROVE  running' = running /\ marker' \in {marker, NoFile, running}
  BY DEF Perf!Begin, Perf!PerfProgress, Perf!OpenScript, Perf!WriteScript, Perf!RenameScript,
     Perf!WriteFail, Perf!StartScript, Perf!ScriptOk, Perf!ScriptFail, Perf!OpenMarker,
     Perf!WriteMarker, Perf!MarkerFail

LEMMA CallRuns ==
    ASSUME NEW c \in Updaters, Start(c) \/ Progress(c)
    PROVE  running' = running
  BY DEF Start, Progress, CurlOpen, CurlOk, CurlFail, Check, Compare, ChmodFail, Rename,
     RenameFail, CopyBegin, CopyCreate, CopyEnd, ReplaceFail, Clean

\* Every step of the agent is a step of SelfUpdate, or leaves its variables alone.
LEMMA AgentUpdates == [AgentNext]_agentVars => [Next]_vars
<1> SUFFICES ASSUME [AgentNext]_agentVars PROVE [Next]_vars
  OBVIOUS
<1>1. CASE AgentUpdate
  BY <1>1 DEF AgentUpdate, Next
<1>2. CASE AgentApply
  BY <1>2, ApplyUpdates DEF AgentApply, Perf!Apply, vars
<1>3. CASE Replace
  BY <1>3 DEF Replace, Next
<1>4. CASE UNCHANGED agentVars
  BY <1>4 DEF agentVars
<1> QED
  BY <1>1, <1>2, <1>3, <1>4 DEF AgentNext

LEMMA TypesKept ==
    ASSUME AgentTypeOK, Opened, [AgentNext]_agentVars
    PROVE  AgentTypeOK' /\ Opened'
<1>1. TypeOK' /\ Opened'
  BY AgentUpdates, UpdateTypes DEF AgentTypeOK
<1>2. ASSUME NEW a \in Appliers, Perf!Begin(a) \/ Perf!PerfProgress(a) PROVE Perf!PerfTypeOK'
  BY <1>2, PerfTypes DEF AgentTypeOK
<1>3. running' \in Perf!Versions \cup {NoFile}
  BY <1>1 DEF TypeOK, Versions, Perf!Versions
<1>4. ASSUME UNCHANGED perfVars PROVE Perf!PerfTypeOK'
  BY <1>3, <1>4 DEF AgentTypeOK, Perf!PerfTypeOK, Perf!Versions, perfVars
<1>5. ASSUME Perf!PerfReborn PROVE Perf!PerfTypeOK'
  <2>1. \A a \in Appliers : Perf!Asleep[a] \in Perf!Stages(a)
    BY DEF Perf!Asleep, Perf!Rests, Perf!Stages
  <2> QED
    BY <1>3, <1>5, <2>1 DEF AgentTypeOK, Perf!PerfTypeOK, Perf!PerfReborn, Perf!Asleep,
       Perf!Closed, Perf!Versions
<1>6. Perf!PerfTypeOK'
  BY <1>2, <1>4, <1>5 DEF AgentNext, AgentUpdate, AgentApply, Replace, Perf!Apply, agentVars
<1> QED
  BY <1>1, <1>6 DEF AgentTypeOK

LEMMA TypesStart == AgentInit => AgentTypeOK /\ Opened
<1> SUFFICES ASSUME AgentInit PROVE AgentTypeOK /\ Opened
  OBVIOUS
<1>0. \A a \in Appliers : Perf!Asleep[a] \in Perf!Stages(a)
  BY DEF Perf!Asleep, Perf!Rests, Perf!Stages
<1>1. restarts \in 0..Restarts
  BY SelfUpdateAssumption DEF AgentInit, Init
<1>2. TypeOK
  BY <1>1 DEF AgentInit, Init, TypeOK, Contents
<1>3. Perf!PerfTypeOK
  BY <1>0, <1>2 DEF AgentInit, Perf!PerfInit, Perf!PerfTypeOK, Perf!Asleep, Perf!Closed,
     TypeOK, Perf!Versions, Versions
<1> QED
  BY <1>2, <1>3 DEF AgentTypeOK, Opened, AgentInit, Init, At

LEMMA TypeInvariant == AgentSpec => [](AgentTypeOK /\ Opened)
<1>1. AgentTypeOK /\ Opened /\ [AgentNext]_agentVars => (AgentTypeOK /\ Opened)'
  BY TypesKept
<1> QED
  BY <1>1, TypesStart, PTL DEF AgentSpec

\* Every variable keeps its type, whatever calls and commands overlap: the goroutine of
\* main never comes to where a command begins again, and no command ends for good.
THEOREM TypeCorrect == AgentSpec => []AgentTypeOK
  BY TypeInvariant, PTL

-----------------------------------------------------------------------------
(* Which binary                                                            *)

\* No two calls of updateAgent are under way: nothing in the agent prevents it.
NoOverlap == \A c, d \in Updaters : c = d \/ At(c, "idle") \/ At(d, "idle")

\* Where a call is at work, the file at tmpPath is its own: what has passed a check is
\* still there.
FileInv(c) ==
    /\ At(c, "curl") => holds[c] = "tmp" /\ ~mixed[c]
    /\ pc[c] \in {"check", "compare", "replace", "sudo"} => tmp \in Versions
    /\ pc[c] \in {"compare", "replace", "sudo"} => want[c] \in {NoSum, tmp}
    /\ pc[c] \in {"sudo", "create", "copy"} => ~direct
    /\ pc[c] \in {"create", "copy"} => ~mixed[c] /\ have[c] \in Versions
                                       /\ want[c] \in {NoSum, have[c]}

UpdateInv == BinaryWhole /\ ChecksumKept /\ \A c \in Updaters : FileInv(c)

LEMMA UpdateStarts == AgentInit => UpdateInv
  BY SelfUpdateAssumption DEF AgentInit, Init, UpdateInv, BinaryWhole, ChecksumKept, FileInv, At

\* While one call takes a step, the others are idle.
LEMMA OthersIdle ==
    ASSUME TypeOK, NoOverlap, NoOverlap', NEW c \in Updaters, Start(c) \/ Progress(c)
    PROVE  \A d \in Updaters : d # c => At(d, "idle") /\ At(d, "idle")'
<1>1. \A d \in Updaters : d # c => pc'[d] = pc[d]
  BY DEF TypeOK, Start, Progress, CurlOpen, CurlOk, CurlFail, Check, Compare, ChmodFail,
     Rename, RenameFail, CopyBegin, CopyCreate, CopyEnd, ReplaceFail, Clean, Goto, Return
<1>2. ~At(c, "idle") \/ ~At(c, "idle")'
  BY DEF TypeOK, Start, Progress, CurlOpen, CurlOk, CurlFail, Check, Compare, ChmodFail,
     Rename, RenameFail, CopyBegin, CopyCreate, CopyEnd, ReplaceFail, Clean, At
<1> QED
  BY <1>1, <1>2 DEF NoOverlap, At

\* The steps of a call keep its invariant when the others are idle.
LEMMA CallKeeps ==
    ASSUME TypeOK, UpdateInv, NoOverlap, NoOverlap', NEW c \in Updaters, Start(c) \/ Progress(c)
    PROVE  UpdateInv'
<1>0. /\ \A d \in Updaters : d # c => pc[d] = "idle" /\ pc'[d] = "idle"
      /\ Broken \notin Versions /\ NoFile \notin Versions
  BY OthersIdle, SelfUpdateAssumption DEF At, Versions
<1> USE SelfUpdateAssumption
        DEF UpdateInv, TypeOK, BinaryWhole, ChecksumKept, FileInv, At, Goto, Return, Contents,
            world
<1>1. CASE Start(c)
  BY <1>0, <1>1 DEF Start
<1>2. CASE CurlOpen(c)
  <2>1. ~Written(c)
    BY <1>0 DEF Written
  <2>2. mixed' \in [Updaters -> BOOLEAN] /\ ~mixed'[c]
    BY <1>0, <1>2, <2>1 DEF CurlOpen, Written
  <2> QED
    BY <1>0, <1>2, <2>2 DEF CurlOpen
<1>3. CASE CurlOk(c)
  BY <1>0, <1>3 DEF CurlOk, Close
<1>4. CASE CurlFail(c)
  BY <1>0, <1>4 DEF CurlFail, Close
<1>5. CASE Check(c)
  BY <1>0, <1>5 DEF Check, RemoveTmp, Removed
<1>6. CASE Compare(c)
  BY <1>0, <1>6 DEF Compare, Same, RemoveTmp, Removed
<1>7. CASE Rename(c)
  BY <1>0, <1>7 DEF Rename
<1>8. CASE CopyBegin(c)
  <2>1. ~Written(c) /\ \A e \in Updaters \ {c} : ~OnBin(e)
    BY <1>0 DEF Written, OnBin
  <2>2. mixed' \in [Updaters -> BOOLEAN] /\ ~mixed'[c]
    BY <1>0, <1>8, <2>1 DEF CopyBegin, Written, OnBin
  <2> QED
    BY <1>0, <1>8, <2>2 DEF CopyBegin
<1>9. CASE CopyEnd(c)
  BY <1>0, <1>9 DEF CopyEnd, Close
<1>10. CASE ReplaceFail(c)
  BY <1>0, <1>10 DEF ReplaceFail, RemoveTmp, Removed, Close
<1>11. CASE Clean(c)
  BY <1>0, <1>11 DEF Clean, RemoveTmp, Removed
<1>12. CASE ChmodFail(c)
  BY <1>0, <1>12 DEF ChmodFail
<1>13. CASE RenameFail(c)
  BY <1>0, <1>13 DEF RenameFail
<1>14. CASE CopyCreate(c)
  BY <1>0, <1>14 DEF CopyCreate
<1> QED
  BY <1>1, <1>2, <1>3, <1>4, <1>5, <1>6, <1>7, <1>8, <1>9, <1>10, <1>11, <1>12, <1>13, <1>14
     DEF Progress

\* The other steps of the agent do so, too.
LEMMA UpdateKeeps ==
    ASSUME TypeOK, UpdateInv, NoOverlap, NoOverlap', [Next]_vars
    PROVE  UpdateInv'
<1>1. ASSUME NEW c \in Updaters, Start(c) \/ Progress(c) PROVE UpdateInv'
  BY <1>1, CallKeeps
<1> USE SelfUpdateAssumption
        DEF UpdateInv, TypeOK, BinaryWhole, ChecksumKept, FileInv, At, Contents, world
<1>2. CASE RestartFail
  BY <1>2 DEF RestartFail
<1>3. CASE Publish
  BY <1>3 DEF Publish
<1>4. CASE RestartOk \/ AgentRestart
  BY <1>4 DEF RestartOk, AgentRestart, Reborn
<1>5. CASE UNCHANGED vars
  BY <1>5 DEF vars, updateVars
<1> QED
  BY <1>1, <1>2, <1>3, <1>4, <1>5 DEF Next, Update, Restart

LEMMA UpdateInvariant == AgentSpec /\ []NoOverlap => []UpdateInv
<1>1. (AgentTypeOK /\ Opened) /\ UpdateInv /\ NoOverlap /\ NoOverlap' /\ [AgentNext]_agentVars
         => UpdateInv'
  BY UpdateKeeps, AgentUpdates DEF AgentTypeOK
<1> QED
  BY <1>1, UpdateStarts, TypeInvariant, PTL DEF AgentSpec

\* Where the binary is replaced by a rename, it is whole at every moment: whatever a download
\* that failed, or a restart at any point, has left behind, as long as calls do not overlap.
THEOREM BinaryStaysWhole == AgentSpec /\ []NoOverlap => []BinaryWhole
<1>1. UpdateInv => BinaryWhole
  BY DEF UpdateInv
<1> QED
  BY <1>1, UpdateInvariant, PTL

\* What a command with a checksum has installed is what the checksum names, as long as calls
\* do not overlap.
THEOREM ChecksumHonoured == AgentSpec /\ []NoOverlap => []ChecksumKept
<1>1. UpdateInv => ChecksumKept
  BY DEF UpdateInv
<1> QED
  BY <1>1, UpdateInvariant, PTL

\* A whole binary that is not the one that runs will be restarted into.
Latest == restarter /\ bin \in Versions =>
             running = bin \/ pending \/ \E c \in Updaters : At(c, "clean")

\* "already_latest" is said only of an agent that runs the binary, or soon will, as long as
\* calls do not overlap.
THEOREM LatestIsLatest == AgentSpec /\ []NoOverlap => AlreadyLatestTrue
<1>1. AgentInit => Latest
  BY DEF AgentInit, Init, Latest
<1>2. (AgentTypeOK /\ Opened) /\ UpdateInv /\ Latest /\ NoOverlap /\ NoOverlap'
         /\ [AgentNext]_agentVars => Latest'
  <2> SUFFICES ASSUME TypeOK, UpdateInv, Latest, NoOverlap, NoOverlap', [Next]_vars PROVE Latest'
    BY AgentUpdates DEF AgentTypeOK
  <2>1. ASSUME NEW c \in Updaters, Start(c) \/ Progress(c) PROVE Latest'
    <3>0. \A d \in Updaters : d # c => pc[d] = "idle" /\ pc'[d] = "idle"
      BY <2>1, OthersIdle DEF At
    <3> USE DEF UpdateInv, TypeOK, FileInv, Latest, At, Goto, Return, world
    <3>1. CASE Rename(c) \/ CopyEnd(c)
      BY <3>0, <3>1 DEF Rename, CopyEnd
    <3>2. CASE CopyBegin(c) \/ CopyCreate(c)
      <4>1. bin' \in {Broken, NoFile}
        BY <3>2 DEF CopyBegin, CopyCreate
      <4> QED
        BY <4>1, SelfUpdateAssumption DEF Versions
    <3>3. CASE Clean(c)
      BY <3>0, <3>3 DEF Clean
    <3>4. CASE CurlOk(c)
      BY <3>0, <3>4 DEF CurlOk
    <3>5. CASE \/ Start(c) \/ CurlOpen(c) \/ CurlFail(c) \/ Check(c) \/ Compare(c)
               \/ ChmodFail(c) \/ RenameFail(c) \/ ReplaceFail(c)
      BY <3>0, <3>5
         DEF Start, CurlOpen, CurlFail, Check, Compare, ChmodFail, RenameFail, ReplaceFail
    <3> QED
      BY <2>1, <3>1, <3>2, <3>3, <3>4, <3>5 DEF Progress
  <2> USE DEF UpdateInv, TypeOK, FileInv, Latest, At, Goto, Return, world
  <2>2. CASE RestartFail \/ Publish
    BY <2>2 DEF RestartFail, Publish
  <2>3. CASE Restart
    BY <2>3 DEF Restart, RestartOk, AgentRestart, Reborn
  <2>4. CASE UNCHANGED vars
    BY <2>4 DEF vars, updateVars
  <2> QED
    BY <2>1, <2>2, <2>3, <2>4 DEF Next, Update
<1>3. NoOverlap /\ Latest =>
        [\A c \in Updaters : restarter /\ At(c, "compare") /\ Same /\ At(c, "idle")'
             => running = bin \/ pending]_vars
  BY DEF NoOverlap, Latest, Same, At
<1> QED
  BY <1>1, <1>2, <1>3, TypeInvariant, UpdateInvariant, PTL DEF AgentSpec, AlreadyLatestTrue

-----------------------------------------------------------------------------
(* Releases only move forward                                              *)

\* Releases are never taken back, and goroutines do not write the script at the same moment.
Steady == Rollback = FALSE /\ Torn = FALSE

\* Since the agent has started, a call has truncated the file at tmpPath.
Fetched == \E c \in Updaters : pc[c] \in {"curl", "check", "compare", "replace", "sudo"}

\* No release in sight is older than v.
Past(v) ==
    /\ v <= released
    /\ bin \in Versions => v <= bin
    /\ Fetched /\ tmp \in Versions => v <= tmp
    /\ \A c \in Updaters : have[c] \in Versions => v <= have[c]

\* No release in sight is newer than the one at GitHub, and none is older than the one that
\* runs or the one that the marker names.  When the agent does not run, no call does.
Forward ==
    /\ \A x \in Versions : x \in {bin, tmp} \cup {have[c] : c \in Updaters} => x <= released
    /\ \A v \in Versions : v \in {running, marker} => Past(v)
    /\ marker \in Versions /\ running \in Versions => marker <= running
    /\ running = NoFile => bin \notin Versions /\ \A c \in Updaters : At(c, "idle")

LEMMA ForwardStarts == ASSUME Steady PROVE AgentInit => Forward
<1> SUFFICES ASSUME AgentInit PROVE Forward
  OBVIOUS
<1>1. Versions \subseteq Nat /\ NoFile \notin Versions
  BY SelfUpdateAssumption DEF Versions
<1>2. /\ bin \in Versions /\ running = bin /\ marker = NoFile /\ bin <= released
      /\ pc = [c \in Updaters |-> "idle"] /\ tmp = NoFile /\ have = [c \in Updaters |-> NoFile]
  BY <1>1 DEF AgentInit, Init, Perf!PerfInit, Steady
<1> QED
  BY <1>1, <1>2 DEF Forward, Past, Fetched, At

\* A step of an update moves nothing back, whatever other updates do at the same time: what
\* cp reads and os.Rename takes has come after the agent's start.
LEMMA CallForward ==
    ASSUME Steady, TypeOK, Opened, Forward, NEW c \in Updaters, Start(c) \/ Progress(c),
           marker' = marker
    PROVE  Forward'
<1>0. /\ Versions \subseteq Nat /\ Broken \notin Versions /\ NoFile \notin Versions
      /\ running' = running
  BY SelfUpdateAssumption, CallRuns DEF Versions
<1> USE DEF TypeOK, Opened, Forward, Past, Fetched, At, Goto, Return, Contents, world
<1>1. CASE Start(c)
  BY <1>0, <1>1 DEF Start
<1>2. CASE CurlOpen(c)
  BY <1>0, <1>2 DEF CurlOpen
<1>3. CASE CurlOk(c)
  BY <1>0, <1>3 DEF CurlOk, Close
<1>4. CASE CurlFail(c)
  BY <1>0, <1>4 DEF CurlFail, Close
<1>5. CASE Check(c)
  <2>1. CASE Goto(c, "compare") /\ tmp' = tmp
    BY <1>0, <1>5, <2>1 DEF Check
  <2>2. CASE Return(c) /\ tmp' = NoFile
    BY <1>0, <1>5, <2>2 DEF Check
  <2> QED
    BY <1>5, <2>1, <2>2 DEF Check, RemoveTmp
<1>6. CASE Compare(c)
  <2>1. CASE Goto(c, "replace") /\ tmp' = tmp
    BY <1>0, <1>6, <2>1 DEF Compare
  <2>2. CASE Return(c) /\ tmp' = NoFile
    BY <1>0, <1>6, <2>2 DEF Compare
  <2> QED
    BY <1>6, <2>1, <2>2 DEF Compare, RemoveTmp
<1>7. CASE Rename(c)
  BY <1>0, <1>7 DEF Rename
<1>8. CASE CopyBegin(c)
  BY <1>0, <1>8 DEF CopyBegin
<1>9. CASE CopyEnd(c)
  <2>1. /\ bin' \in {have[c], Broken, bin}
        /\ Goto(c, "clean") /\ have' = [have EXCEPT ![c] = NoFile]
        /\ UNCHANGED <<tmp, released>>
    BY <1>9 DEF CopyEnd, Close
  <2>2. Fetched' => Fetched
    BY <2>1
  <2>3. \A d \in Updaters : have'[d] \in {have[d], NoFile}
    BY <2>1
  <2>4. \A v \in Versions : Past(v) => Past(v)'
    <3> SUFFICES ASSUME NEW v \in Versions, Past(v) PROVE Past(v)'
      OBVIOUS
    <3>1. v <= released' /\ (Fetched' /\ tmp' \in Versions => v <= tmp')
      BY <2>1, <2>2
    <3>2. bin' \in Versions => v <= bin'
      BY <1>0, <2>1
    <3>3. \A d \in Updaters : have'[d] \in Versions => v <= have'[d]
      BY <1>0, <2>3
    <3> QED
      BY <3>1, <3>2, <3>3
  <2>5. \A x \in Versions :
            x \in {bin', tmp'} \cup {have'[d] : d \in Updaters} => x <= released'
    BY <1>0, <2>1, <2>3
  <2>6. running # NoFile
    BY <1>9 DEF CopyEnd
  <2> QED
    BY <1>0, <2>4, <2>5, <2>6
<1>10. CASE ReplaceFail(c)
  BY <1>0, <1>10 DEF ReplaceFail, RemoveTmp, Close
<1>11. CASE Clean(c)
  BY <1>0, <1>11 DEF Clean, RemoveTmp
<1>12. CASE ChmodFail(c)
  BY <1>0, <1>12 DEF ChmodFail
<1>13. CASE RenameFail(c)
  BY <1>0, <1>13 DEF RenameFail
<1>14. CASE CopyCreate(c)
  BY <1>0, <1>14 DEF CopyCreate
<1> QED
  BY <1>1, <1>2, <1>3, <1>4, <1>5, <1>6, <1>7, <1>8, <1>9, <1>10, <1>11, <1>12, <1>13, <1>14
     DEF Progress
-----------------------------------------------------------------------------
(* The script                                                              *)

Writes(a) == at[a] \in {"write", "rename"}

ScriptInv(a) ==
    /\ at[a] = "write" => opened[a] = "tmp"
    /\ at[a] = "rename" => tmpScript = running
    /\ at[a] = "start" => script = running
    /\ at[a] = "run" => runs[a] = running /\ host \in {running, Broken}
    /\ at[a] \in {"mark", "marking"} => host = running

PerfInv ==
    /\ \A a, b \in Appliers : Writes(a) /\ Writes(b) => a = b
    /\ \A a \in Appliers : ScriptInv(a)
    /\ MarkerTruthful

\* A goroutine in ApplyHostPerf keeps the invariant, whatever the others do.
LEMMA ApplierKeeps ==
    ASSUME Steady, Perf!PerfTypeOK, PerfInv, NEW a \in Appliers, Perf!Begin(a) \/ Perf!PerfProgress(a)
    PROVE  PerfInv'
<1> USE SelfUpdateAssumption
        DEF Steady, PerfInv, Perf!PerfTypeOK, Writes, ScriptInv, MarkerTruthful, Perf!MarkerTruthful,
            Perf!Step, Perf!Ends, Perf!Versions, Versions
<1>1. CASE Perf!Begin(a)
  BY <1>1 DEF Perf!Begin, Perf!Rests
<1>2. CASE Perf!OpenScript(a)
  BY <1>2 DEF Perf!OpenScript, Perf!Writing
<1>3. CASE Perf!WriteScript(a)
  BY <1>3 DEF Perf!WriteScript
<1>4. CASE Perf!RenameScript(a)
  BY <1>4 DEF Perf!RenameScript
<1>5. CASE Perf!WriteFail(a)
  BY <1>5 DEF Perf!WriteFail
<1>6. CASE Perf!StartScript(a)
  BY <1>6 DEF Perf!StartScript
<1>7. CASE Perf!ScriptOk(a)
  BY <1>7 DEF Perf!ScriptOk
<1>8. CASE Perf!ScriptFail(a)
  BY <1>8 DEF Perf!ScriptFail
<1>9. CASE Perf!OpenMarker(a)
  BY <1>9 DEF Perf!OpenMarker
<1>10. CASE Perf!WriteMarker(a)
  BY <1>10 DEF Perf!WriteMarker
<1>11. CASE Perf!MarkerFail(a)
  BY <1>11 DEF Perf!MarkerFail
<1> QED
  BY <1>1, <1>2, <1>3, <1>4, <1>5, <1>6, <1>7, <1>8, <1>9, <1>10, <1>11
     DEF Perf!PerfProgress

-----------------------------------------------------------------------------
(* The agent                                                               *)

AgentInv == AgentTypeOK /\ Opened /\ Forward /\ PerfInv

\* The invariant holds at the start ...
LEMMA AgentStarts == ASSUME Steady PROVE AgentInit => AgentInv
<1> SUFFICES ASSUME AgentInit PROVE AgentInv
  OBVIOUS
<1>1. PerfInv
  BY DEF AgentInit, Perf!PerfInit, PerfInv, Writes, ScriptInv, MarkerTruthful,
     Perf!MarkerTruthful, Perf!Asleep, Perf!Rests
<1> QED
  BY <1>1, TypesStart, ForwardStarts DEF AgentInv

\* An update does not disturb the script while the release that runs stays the same.
LEMMA PerfUntouched ==
    ASSUME PerfInv, running' = running, UNCHANGED perfVars PROVE PerfInv'
  BY DEF PerfInv, Writes, ScriptInv, MarkerTruthful, Perf!MarkerTruthful, perfVars

\* A restart into a newer release makes the marker stale, one into the same leaves it true.
LEMMA ReplaceKeeps ==
    ASSUME Steady, AgentInv, Restart, Perf!PerfReborn
    PROVE  Forward' /\ PerfInv'
<1>1. /\ running' = IF bin \in Versions THEN bin ELSE NoFile
      /\ UNCHANGED <<bin, tmp, released, marker, host>>
      /\ pc' = [c \in Updaters |-> "idle"] /\ have' = [c \in Updaters |-> NoFile]
      /\ at' = Perf!Asleep
  BY DEF Restart, RestartOk, AgentRestart, Reborn, Perf!PerfReborn, world
<1>2. /\ Versions \subseteq Nat /\ NoFile \notin Versions /\ Broken \notin Versions
      /\ bin \in Contents /\ running \in Versions \cup {NoFile}
  BY SelfUpdateAssumption DEF Versions, Contents, AgentInv, AgentTypeOK, TypeOK
<1>3. Forward /\ MarkerTruthful
  BY DEF AgentInv, PerfInv
<1>4. Forward'
  <2>1. \A x \in Versions : x \in {bin', tmp'} \cup {have'[c] : c \in Updaters} => x <= released'
    BY <1>1, <1>2, <1>3 DEF Forward
  <2>2. \A v \in Versions : v \in {running', marker'} => Past(v)'
    BY <1>1, <1>2, <1>3 DEF Forward, Past, Fetched
  <2>3. marker' \in Versions /\ running' \in Versions => marker' <= running'
    BY <1>1, <1>2, <1>3 DEF Forward, Past
  <2>4. running' = NoFile => bin' \notin Versions /\ \A c \in Updaters : At(c, "idle")'
    BY <1>1, <1>2 DEF At
  <2> QED
    BY <2>1, <2>2, <2>3, <2>4 DEF Forward
<1>5. MarkerTruthful'
  <2> SUFFICES ASSUME marker = bin, bin \in Versions PROVE host = bin
    BY <1>1, <1>2 DEF MarkerTruthful, Perf!MarkerTruthful
  <2>1. running \in Versions /\ marker \in Versions
    BY <1>2, <1>3 DEF Forward
  <2>2. running <= bin /\ marker <= running
    BY <1>3, <2>1 DEF Forward, Past
  <2>3. marker = running /\ running # NoFile
    BY <1>2, <2>1, <2>2
  <2> QED
    BY <1>3, <2>3 DEF MarkerTruthful, Perf!MarkerTruthful
<1>6. PerfInv'
  BY <1>1, <1>5 DEF PerfInv, Writes, ScriptInv, Perf!Asleep, Perf!Rests
<1> QED
  BY <1>4, <1>6

\* Nobody but an update and GitHub touches the releases.
LEMMA ForwardUntouched ==
    ASSUME Steady, TypeOK, Forward, UNCHANGED <<bin, tmp, have, pc, running>>,
           marker' \in {marker, NoFile, running}, released' \in Versions, released <= released'
    PROVE  Forward'
<1>1. /\ Versions \subseteq Nat /\ NoFile \notin Versions
      /\ released \in Versions
  BY SelfUpdateAssumption DEF TypeOK, Versions
<1>2. ASSUME NEW x \in Versions, x <= released PROVE x <= released'
  BY <1>1, <1>2
<1>3. ASSUME NEW v \in Versions, Past(v) PROVE Past(v)'
  BY <1>2, <1>3 DEF Past, Fetched
<1>4. \A x \in Versions : x \in {bin', tmp'} \cup {have'[c] : c \in Updaters} => x <= released'
  BY <1>2 DEF Forward
<1>5. \A v \in Versions : v \in {running', marker'} => Past(v)'
  BY <1>1, <1>3 DEF Forward
<1>6. marker' \in Versions /\ running' \in Versions => marker' <= running'
  BY <1>1 DEF Forward
<1> QED
  BY <1>4, <1>5, <1>6 DEF Forward, At

\* ... and in every step.
LEMMA AgentKeeps == ASSUME Steady PROVE AgentInv /\ [AgentNext]_agentVars => AgentInv'
<1> SUFFICES ASSUME AgentInv, [AgentNext]_agentVars PROVE Forward' /\ PerfInv'
  BY TypesKept DEF AgentInv
<1>1. AgentTypeOK /\ TypeOK /\ Opened /\ Forward /\ PerfInv /\ Perf!PerfTypeOK
  BY DEF AgentInv, AgentTypeOK
<1>2. released \in Versions /\ released <= released
  BY <1>1 DEF TypeOK, Versions
<1>3. CASE \E c \in Updaters : (Start(c) \/ Progress(c)) /\ UNCHANGED perfVars
  BY <1>1, <1>3, CallForward, CallRuns, PerfUntouched DEF perfVars
<1>4. CASE (RestartFail \/ Publish) /\ UNCHANGED perfVars
  <2>1. running' = running /\ UNCHANGED <<bin, tmp, have, pc, marker>>
    BY <1>4 DEF RestartFail, Publish, perfVars
  <2>2. released' \in Versions /\ released <= released'
    BY <1>2, <1>4 DEF Steady, RestartFail, Publish, world, Versions
  <2> QED
    BY <1>1, <1>4, <2>1, <2>2, ForwardUntouched, PerfUntouched
<1>5. ASSUME NEW a \in Appliers, Perf!Begin(a) \/ Perf!PerfProgress(a), UNCHANGED updateVars
      PROVE  Forward' /\ PerfInv'
  BY <1>1, <1>2, <1>5, ApplyUpdates, ApplierKeeps, ForwardUntouched DEF updateVars, world
<1>6. CASE Restart /\ Perf!PerfReborn
  BY <1>6, ReplaceKeeps
<1>7. CASE UNCHANGED agentVars
  BY <1>1, <1>2, <1>7, ForwardUntouched, PerfUntouched
     DEF agentVars, vars, updateVars, perfVars, world
<1> QED
  BY <1>3, <1>4, <1>5, <1>6, <1>7 DEF AgentNext, AgentUpdate, AgentApply, Replace, Update,
     Perf!Apply

\* Where the marker makes the agent leave the script out, the script has run to its end on
\* this host: for any number of updates and apply_host_perf commands that overlap, and
\* restarts, as long as releases are never taken back and no two goroutines write the script
\* at the same moment.
THEOREM MarkerIsTruthful == ASSUME Steady PROVE AgentSpec => []MarkerTruthful
<1>1. AgentInit => AgentInv
  BY AgentStarts
<1>2. AgentInv /\ [AgentNext]_agentVars => AgentInv'
  BY AgentKeeps
<1>3. AgentInv => MarkerTruthful
  BY DEF AgentInv, PerfInv
<1> QED
  BY <1>1, <1>2, <1>3, PTL DEF AgentSpec
=============================================================================
