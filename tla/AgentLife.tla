----------------------------- MODULE AgentLife -----------------------------
(***************************************************************************)
(* The life of the agent on its host: SelfUpdate and HostPerf share the    *)
(* release that runs, and a restart of the agent ends what both do.        *)
(***************************************************************************)
EXTENDS SelfUpdate

CONSTANTS Appliers, Startup, Torn     \* as in HostPerf

ASSUME AgentAssumption == Startup \in Appliers /\ Torn \in BOOLEAN

VARIABLES marker, tmpScript, script, host, at, opened, runs

Perf == INSTANCE HostPerf

perfVars  == <<marker, tmpScript, script, host, at, opened, runs>>
agentVars == <<vars, perfVars>>

AgentInit == Init /\ Perf!PerfInit

AgentUpdate == Update /\ UNCHANGED perfVars
AgentApply  == Perf!Apply /\ UNCHANGED updateVars
Replace     == Restart /\ Perf!PerfReborn

AgentNext == AgentUpdate \/ AgentApply \/ Replace

\* What has begun goes on: curl has its time limit; cp, the script and systemctl end.
\* The goroutine of main wakes up.  Nobody has to ask for an update.
AgentFairness ==
    /\ \A c \in Updaters : WF_agentVars(Progress(c) /\ UNCHANGED perfVars)
    /\ WF_agentVars(RestartOk /\ Perf!PerfReborn)
    /\ WF_agentVars(Perf!Begin(Startup) /\ UNCHANGED updateVars)
    /\ \A a \in Appliers : WF_agentVars(Perf!PerfProgress(a) /\ UNCHANGED updateVars)

AgentSpec == AgentInit /\ [][AgentNext]_agentVars /\ AgentFairness

-----------------------------------------------------------------------------
(* Properties                                                              *)

\* Every variable keeps its type.  The goroutine of main is asleep, applies the script, or
\* has ended: it never comes to where a command begins again, and no command ends for good.
AgentTypeOK == TypeOK /\ Perf!PerfTypeOK

\* HostPerf's promise holds under the restarts that updates cause.
MarkerTruthful == Perf!MarkerTruthful

\* A binary that was replaced by a rename is run, and its script tunes the host, unless
\* the script says that it failed or another release comes in between.
ReleaseTakesEffect ==
    \A v \in Versions :
        direct /\ restarter /\ bin = v ~>
            \/ running = v /\ (host = v \/ at[Startup] = "failed")
            \/ bin # v
=============================================================================
