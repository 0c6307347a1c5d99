----------------------------- MODULE Telemetry -----------------------------
(***************************************************************************)
(* The plugin RushBMatchTelemetry: hooks that post an event each, the      *)
(* weapon counters that collect shots until the round ends, and the tasks  *)
(* that post.  Hooks run one at a time in the game's main thread; a post   *)
(* is a task of its own, fire and forget, without a retry.                 *)
(*                                                                         *)
(* A counter is the set of the shots it counts: those of people, bots are  *)
(* filtered before.  A hit is a shot for each counter that it goes into:   *)
(* an exception may come between them.  Contents of events are left out.   *)
(* The game and the platform are the environment: shots, rounds, cvars.    *)
(***************************************************************************)
EXTENDS Naturals

CONSTANTS
    Shots,      \* bound: the shots and hits of people
    Matches,    \* match ids
    NoMatch,    \* a cvar is empty: warm-up or an idle server
    MaxCalls,   \* bound: how many calls of hooks post something
    MaxRounds   \* bound: how many rounds end

ASSUME TelemetryAssumption ==
    /\ NoMatch \notin Matches
    /\ MaxCalls \in Nat /\ MaxRounds \in Nat

VARIABLES
    match,     \* the cvar rushborg_match_id, if url and token are set too
    agg,       \* the shots in _roundAgg
    calls,     \* calls of hooks that post
    posts,     \* the posts under way
    got,       \* the posts that the platform has received
    ends,      \* history: how many rounds have ended
    firedAt    \* history: firedAt[s], the ends when shot s was fired and counted

vars == <<match, agg, calls, posts, got, ends, firedAt>>

NotFired == MaxRounds + 1
Dropped  == MaxRounds + 2

Kinds == {"event", "round_start", "round_end", "weapon_stats"}
Posts == [kind : Kinds, match : Matches, call : 1..MaxCalls,
          ends : 0..MaxRounds, shots : SUBSET Shots]

Init ==
    /\ match = NoMatch /\ agg = {} /\ calls = 0 /\ posts = {} /\ got = {}
    /\ ends = 0
    /\ firedAt = [s \in Shots |-> NotFired]

Post(kind, shots) ==
    [kind |-> kind, match |-> match, call |-> calls + 1,
     ends |-> ends, shots |-> shots]

\* (mutant of Fire) the empty match id is not noticed
FireAlways(new) ==
    /\ calls < MaxCalls /\ calls' = calls + 1
    /\ posts' = posts \cup new

\* A hook hands some of its posts to Fire, those before which nothing was thrown.
\* Without a match Fire sends nothing.
Fire(new) ==
    /\ calls < MaxCalls /\ calls' = calls + 1
    /\ posts' = posts \cup {p \in new : match # NoMatch}

-----------------------------------------------------------------------------
(* Hooks                                                                   *)

\* A kill, the bomb, an MVP, a chat line, the end of the freeze time.
Event ==
    /\ Fire({Post("event", {})})
    /\ UNCHANGED <<match, agg, got, ends, firedAt>>

RoundStart ==
    /\ Fire({Post("round_start", {})})
    /\ UNCHANGED <<match, agg, got, ends, firedAt>>

\* OnWeaponFire and OnPlayerHurt count in every phase of the game, or throw before
\* they have: nobody hears of it.
Shoot(s) ==
    /\ firedAt[s] = NotFired
    /\ \/ agg' = agg \cup {s} /\ firedAt' = [firedAt EXCEPT ![s] = ends]
       \/ agg' = agg /\ firedAt' = [firedAt EXCEPT ![s] = Dropped]
    /\ UNCHANGED <<match, calls, posts, got, ends>>

\* The end of the round, and the counters if there are any.
RoundPosts == {Post("round_end", {})} \cup {Post("weapon_stats", a) : a \in {agg} \ {{}}}

\* (mutant of RoundEnd) what could not be posted is kept for the next round
KeepsUnsent ==
    /\ ends < MaxRounds /\ ends' = ends + 1
    /\ \E new \in SUBSET RoundPosts :
          /\ Fire(new)
          /\ agg' = IF \E p \in new : p.kind = "weapon_stats" THEN {} ELSE agg
    /\ UNCHANGED <<match, got, firedAt>>

\* OnRoundEnd, then FlushWeaponStats: either may throw before its post, which does
\* not stop the other, and the counters are cleared in any case.
RoundEnd ==
    /\ ends < MaxRounds /\ ends' = ends + 1
    /\ \E new \in SUBSET RoundPosts : Fire(new)
    /\ agg' = {}
    /\ UNCHANGED <<match, got, firedAt>>

-----------------------------------------------------------------------------
(* SendAsync: posts arrive in any order, or not at all                     *)

Arrive(p) ==
    /\ posts' = posts \ {p}
    /\ got' = got \cup {p}
    /\ UNCHANGED <<match, agg, calls, ends, firedAt>>

Lose(p) ==
    /\ posts' = posts \ {p}
    /\ UNCHANGED <<match, agg, calls, got, ends, firedAt>>

\* The platform loads a match into the server, or ends one, at any time.
SetMatch(m) ==
    /\ match' = m
    /\ UNCHANGED <<agg, calls, posts, got, ends, firedAt>>

Next ==
    \/ Event \/ RoundStart \/ RoundEnd
    \/ \E s \in Shots : Shoot(s)
    \/ \E p \in posts : Arrive(p) \/ Lose(p)
    \/ \E m \in Matches \cup {NoMatch} : SetMatch(m)

Spec == Init /\ [][Next]_vars

-----------------------------------------------------------------------------
(* Properties                                                              *)

\* Every variable keeps its type; what is posted has the id of a match.
TypeOK ==
    /\ match \in Matches \cup {NoMatch} /\ agg \subseteq Shots
    /\ calls \in 0..MaxCalls /\ ends \in 0..MaxRounds
    /\ posts \subseteq Posts /\ got \subseteq Posts
    /\ firedAt \in [Shots -> 0..MaxRounds + 2]

Stats == {p \in posts \cup got : p.kind = "weapon_stats"}

\* The statistics of a round have exactly the shots that the hooks have counted since
\* the round before ended, whatever was thrown, lost or sent without a match in earlier
\* rounds: no shot is in two statistics, and none that was counted is missing from the
\* one it belongs to.
StatsExact == \A p \in Stats : p.shots = {s \in Shots : firedAt[s] = p.ends}
=============================================================================
