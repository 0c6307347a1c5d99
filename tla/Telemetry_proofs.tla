-------------------------- MODULE Telemetry_proofs --------------------------
(***************************************************************************)
(* Proofs about Telemetry: types, and that statistics are exact for every  *)
(* number of shots, matches, rounds and posts.                             *)
(***************************************************************************)
EXTENDS Telemetry, TLAPS

\* The counters hold exactly the shots since the last end of a round.
AggExact == agg = {s \in Shots : firedAt[s] = ends}

\* Statistics under way or received are of rounds that have ended, so a shot that
\* is yet to come cannot belong to them.
StatsPast == \A p \in Stats : p.ends < ends

\* No shot is of a round that is yet to end, other than the current one.
FiredPast == \A s \in Shots : firedAt[s] <= ends \/ firedAt[s] \in {NotFired, Dropped}

Inv == TypeOK /\ AggExact /\ FiredPast /\ StatsExact /\ StatsPast

-----------------------------------------------------------------------------
\* A call of a hook that posts `new` adds nothing else, and only with a match.
LEMMA FireAdds ==
    ASSUME TypeOK, NEW new, Fire(new),
           \A p \in new : \E k \in Kinds, a \in SUBSET Shots : p = Post(k, a)
    PROVE  /\ calls' \in 0..MaxCalls /\ posts' \subseteq Posts
           /\ posts' \subseteq posts \cup new
<1>1. calls + 1 \in 1..MaxCalls /\ calls' \in 0..MaxCalls
  BY TelemetryAssumption DEF TypeOK, Fire
<1>2. ASSUME NEW p \in posts' PROVE p \in Posts /\ p \in posts \cup new
  <2>1. CASE p \in posts
    BY <2>1 DEF TypeOK
  <2>2. CASE p \notin posts
    <3>1. p \in new /\ match # NoMatch
      BY <1>2, <2>2 DEF Fire
    <3>2. PICK k \in Kinds, a \in SUBSET Shots : p = Post(k, a)
      BY <3>1
    <3>3. match \in Matches
      BY <3>1 DEF TypeOK
    <3>4. p \in Posts
      BY <1>1, <3>2, <3>3 DEF Post, Posts, TypeOK
    <3> QED BY <3>1, <3>4
  <2> QED BY <2>1, <2>2
<1> QED BY <1>1, <1>2

\* A hook that posts no statistics and leaves the counters alone disturbs nothing.
LEMMA PlainPost ==
    ASSUME Inv, NEW k \in Kinds \ {"weapon_stats"}, Fire({Post(k, {})}),
           UNCHANGED <<match, agg, got, ends, firedAt>>
    PROVE  Inv'
<1>1. /\ calls' \in 0..MaxCalls /\ posts' \subseteq Posts
      /\ posts' \subseteq posts \cup {Post(k, {})}
  BY FireAdds DEF Inv
<1>2. TypeOK'
  BY <1>1 DEF Inv, TypeOK
<1>3. Stats' \subseteq Stats
  BY <1>1 DEF Stats, Post
<1>4. AggExact' /\ StatsExact' /\ StatsPast'
  BY <1>3 DEF Inv, AggExact, StatsExact, StatsPast
<1>5. FiredPast'
  BY DEF Inv, FiredPast
<1> QED BY <1>2, <1>4, <1>5 DEF Inv

-----------------------------------------------------------------------------
\* It holds at first: nothing was fired.
LEMMA InvInit == Init => Inv
<1> SUFFICES ASSUME Init PROVE Inv
  OBVIOUS
<1>1. TypeOK
  BY TelemetryAssumption DEF Init, TypeOK, NotFired
<1>2. AggExact
  BY TelemetryAssumption DEF Init, AggExact, NotFired
<1>3. FiredPast
  BY DEF Init, FiredPast, NotFired
<1> QED BY <1>1, <1>2, <1>3 DEF Init, Inv, Stats, StatsExact, StatsPast

\* A shot is counted in the counters, or nowhere, and in no statistics that exist.
LEMMA ShootKeeps == ASSUME Inv, NEW s \in Shots, Shoot(s) PROVE Inv'
<1> USE DEF Inv, Shoot
<1>1. \/ agg' = agg \cup {s} /\ firedAt' = [firedAt EXCEPT ![s] = ends]
      \/ agg' = agg /\ firedAt' = [firedAt EXCEPT ![s] = MaxRounds + 2]
  BY DEF Dropped
<1>2. TypeOK'
  <2>1. agg' \subseteq Shots
    BY <1>1 DEF TypeOK
  <2>2. ends \in 0..MaxRounds + 2 /\ MaxRounds + 2 \in 0..MaxRounds + 2
    BY TelemetryAssumption DEF TypeOK
  <2>3. firedAt' \in [Shots -> 0..MaxRounds + 2]
    BY <1>1, <2>2 DEF TypeOK
  <2> QED
    BY <2>1, <2>3 DEF TypeOK
<1>3. ends \in 0..MaxRounds /\ firedAt[s] = MaxRounds + 1
  BY TelemetryAssumption DEF TypeOK, NotFired
<1>4. AggExact'
  BY <1>1, <1>3, TelemetryAssumption DEF AggExact, TypeOK
<1>5. Stats' = Stats /\ StatsPast'
  BY DEF Stats, StatsPast
<1>6. ASSUME NEW p \in Stats PROVE p.ends # ends /\ p.ends \in 0..MaxRounds
  BY TelemetryAssumption DEF StatsPast, TypeOK, Stats, Posts
<1>7. StatsExact'
  BY <1>1, <1>3, <1>5, <1>6, TelemetryAssumption DEF StatsExact, TypeOK
<1>8. FiredPast'
  BY <1>1, TelemetryAssumption DEF FiredPast, TypeOK, Dropped
<1> QED BY <1>2, <1>4, <1>5, <1>7, <1>8

\* The end of a round moves exactly the shots of the counters into a post, or drops them.
LEMMA RoundEndKeeps == ASSUME Inv, RoundEnd PROVE Inv'
<1>1. PICK new \in SUBSET RoundPosts : Fire(new)
  BY DEF RoundEnd
<1>2. \A p \in new : \E k \in Kinds, a \in SUBSET Shots : p = Post(k, a)
  BY <1>1 DEF RoundPosts, Inv, TypeOK, Kinds
<1>3. calls' \in 0..MaxCalls /\ posts' \subseteq Posts /\ posts' \subseteq posts \cup new
  BY <1>1, <1>2, FireAdds DEF Inv
<1>4. ends' = ends + 1 /\ ends \in Nat /\ ends' \in 0..MaxRounds
  BY TelemetryAssumption DEF RoundEnd, Inv, TypeOK
<1>5. TypeOK'
  BY <1>3, <1>4 DEF RoundEnd, Inv, TypeOK
<1>6. \A s \in Shots : firedAt[s] # ends + 1
  BY <1>4, TelemetryAssumption DEF RoundEnd, Inv, FiredPast, TypeOK, NotFired, Dropped
<1>7. AggExact' /\ FiredPast'
  BY <1>4, <1>6, TelemetryAssumption DEF RoundEnd, Inv, AggExact, FiredPast, TypeOK
<1>8. ASSUME NEW p \in Stats'
      PROVE  p.ends < ends' /\ p.shots = {s \in Shots : firedAt'[s] = p.ends}
  <2>1. firedAt' = firedAt
    BY DEF RoundEnd
  <2>2. CASE p \in Stats
    <3>1. p.ends \in 0..MaxRounds /\ p.ends < ends
      BY <2>2 DEF Inv, TypeOK, StatsPast, Stats, Posts
    <3> QED BY <2>1, <2>2, <3>1, <1>4, TelemetryAssumption DEF Inv, StatsExact
  <2>3. CASE p \notin Stats
    <3>1. p \in new /\ p.kind = "weapon_stats"
      BY <1>3, <2>3 DEF Stats, RoundEnd
    <3>2. p = Post("weapon_stats", agg)
      BY <3>1 DEF RoundPosts, Post
    <3> QED BY <2>1, <3>2, <1>4 DEF Post, Inv, AggExact
  <2> QED BY <2>2, <2>3
<1>9. StatsExact' /\ StatsPast'
  BY <1>8 DEF StatsExact, StatsPast
<1> QED BY <1>5, <1>7, <1>9 DEF Inv

\* Every step keeps it.
LEMMA InvStep == Inv /\ [Next]_vars => Inv'
<1> SUFFICES ASSUME Inv, [Next]_vars PROVE Inv'
  OBVIOUS
<1>1. CASE Event
  BY <1>1, PlainPost DEF Event, Kinds, Inv, TypeOK
<1>2. CASE RoundStart
  BY <1>2, PlainPost DEF RoundStart, Kinds, Inv, TypeOK
<1>3. CASE RoundEnd
  BY <1>3, RoundEndKeeps
<1>4. CASE \E s \in Shots : Shoot(s)
  BY <1>4, ShootKeeps
<1>5. CASE \E p \in posts : Arrive(p) \/ Lose(p)
  <2>1. PICK p \in posts : Arrive(p) \/ Lose(p)
    BY <1>5
  <2>2. TypeOK'
    BY <2>1 DEF Arrive, Lose, Inv, TypeOK
  <2>3. Stats' \subseteq Stats
    BY <2>1 DEF Arrive, Lose, Stats
  <2>4. AggExact' /\ FiredPast' /\ StatsExact' /\ StatsPast'
    BY <2>1, <2>3 DEF Arrive, Lose, Inv, AggExact, FiredPast, StatsExact, StatsPast
  <2> QED BY <2>2, <2>4 DEF Inv
<1>6. CASE \E m \in Matches \cup {NoMatch} : SetMatch(m)
  BY <1>6 DEF SetMatch, Inv, TypeOK, AggExact, FiredPast, Stats, StatsExact, StatsPast
<1>7. CASE UNCHANGED vars
  BY <1>7 DEF vars, Inv, TypeOK, AggExact, FiredPast, Stats, StatsExact, StatsPast
<1> QED BY <1>1, <1>2, <1>3, <1>4, <1>5, <1>6, <1>7 DEF Next

\* The strengthened invariant holds in every reachable state.
THEOREM Invariance == Spec => []Inv
<1> QED BY InvInit, InvStep, PTL DEF Spec

-----------------------------------------------------------------------------
\* Every variable keeps its type, and nothing is posted without a match's id.
THEOREM TypeCorrect == Spec => []TypeOK
<1>1. Inv => TypeOK
  BY DEF Inv
<1> QED BY <1>1, Invariance, PTL

\* FlushWeaponStats: statistics have exactly the shots that were counted since the round
\* before ended.
THEOREM StatsAreExact == Spec => []StatsExact
<1>1. Inv => StatsExact
  BY DEF Inv
<1> QED BY <1>1, Invariance, PTL
=============================================================================
