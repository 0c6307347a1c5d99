--------------------------- MODULE SteamCmd_proofs ---------------------------
(***************************************************************************)
(* Safety of SteamCmd for every set of callers and every number of calls   *)
(* and attempts: types, the condition of the auto-wipe, the life of the    *)
(* progress snapshot, that the calls implement BaseInstall, and that each  *)
(* has fewer steps left after every step it takes.                         *)
(***************************************************************************)
EXTENDS SteamCmd, FiniteSetTheorems, TLAPS

Hows == {"none", "state", "error", "missing"}

\* A step of the download loop, of getBaseStatus, or none: for case splits.
LEMMA NextCases ==
    ASSUME Next
    PROVE  \/ \E c \in Callers :
                 \/ Begin(c) \/ SteamChanges(c) \/ ProgressLine(c)
                 \/ StateError(c) \/ OtherError(c) \/ BinaryMissing(c) \/ Installed(c)
                 \/ WipeStep(c) \/ WipeOk(c) \/ WipeFail(c)
                 \/ Retry(c) \/ GiveUp(c) \/ Return(c)
           \/ ReadLast \/ ReadProgress
  BY DEF Next, Download, Loop

-----------------------------------------------------------------------------
\* Every variable keeps its type; a call makes no more than MaxAttempts runs.
THEOREM TypeCorrect == Spec => []TypeOK
<1>1. Init => TypeOK
  <2> SUFFICES ASSUME Init PROVE TypeOK
    OBVIOUS
  <2>1. attempt \in [Callers -> 1..MaxAttempts] /\ saw \in Nat /\ calls \in 0..MaxCalls
    BY SteamCmdAssumption DEF Init, NoRead
  <2>2. ended \in [Callers -> Hows \X Hows]
    BY DEF Init, Hows
  <2> QED
    BY <2>1, <2>2 DEF Init, TypeOK, Hows
<1>2. TypeOK /\ [Next]_vars => TypeOK'
  <2> SUFFICES ASSUME TypeOK, [Next]_vars PROVE TypeOK'
    OBVIOUS
  <2> USE DEF TypeOK, At, Goto
  <2>1. CASE UNCHANGED vars
    BY <2>1 DEF vars
  <2>2. CASE ReadLast \/ ReadProgress
    BY <2>2, SteamCmdAssumption DEF ReadLast, ReadProgress, NoRead
  <2>3. ASSUME NEW c \in Callers, Begin(c) PROVE TypeOK'
    <3>1. calls' \in 0..MaxCalls
      BY <2>3, SteamCmdAssumption DEF Begin
    <3>2. attempt' \in [Callers -> 1..MaxAttempts]
      BY <2>3, SteamCmdAssumption DEF Begin
    <3> QED
      BY <2>3, <3>1, <3>2 DEF Begin
  <2>4. ASSUME NEW c \in Callers, SteamChanges(c) \/ ProgressLine(c) PROVE TypeOK'
    BY <2>4 DEF SteamChanges, ProgressLine
  <2>5. ASSUME NEW c \in Callers, StateError(c) \/ OtherError(c) \/ BinaryMissing(c)
        PROVE  TypeOK'
    <3>1. ended' \in [Callers -> Hows \X Hows]
      BY <2>5 DEF StateError, OtherError, BinaryMissing, Ends, Hows
    <3>2. streak' \in [Callers -> Nat]
      <4>1. \E n \in Nat : streak' = [streak EXCEPT ![c] = n]
        BY <2>5 DEF StateError, OtherError, BinaryMissing
      <4> QED
        BY <4>1
    <3>3. toWipe' \in [Callers -> SUBSET Parts]
      BY <2>5 DEF StateError, OtherError, BinaryMissing
    <3>4. pc' \in [Callers -> {"idle", "run", "wipe", "next", "installed", "failed"}]
      BY <2>5 DEF StateError, OtherError, BinaryMissing
    <3>5. UNCHANGED <<base, attempt, wiped, shown, results, calls, saw>>
      BY <2>5 DEF StateError, OtherError, BinaryMissing
    <3> QED
      BY <3>1, <3>2, <3>3, <3>4, <3>5 DEF Hows
  <2>6. ASSUME NEW c \in Callers, Installed(c) \/ GiveUp(c) \/ Return(c) PROVE TypeOK'
    <3>1. pc' \in [Callers -> {"idle", "run", "wipe", "next", "installed", "failed"}]
      BY <2>6 DEF Installed, GiveUp, Return
    <3>2. results' \in Nat
      BY <2>6 DEF Installed, GiveUp, Return
    <3>2a. shown' \in BOOLEAN
      BY <2>6, Zenon DEF Installed, GiveUp, Return
    <3>3. UNCHANGED <<base, attempt, streak, wiped, toWipe, calls, saw, ended>>
      BY <2>6 DEF Installed, GiveUp, Return
    <3> QED
      BY <3>1, <3>2, <3>2a, <3>3
  <2>7. ASSUME NEW c \in Callers, WipeStep(c) \/ WipeOk(c) \/ WipeFail(c) PROVE TypeOK'
    <3>1. base' \subseteq Parts /\ toWipe' \in [Callers -> SUBSET Parts]
      BY <2>7 DEF WipeStep, WipeOk, WipeFail
    <3>2. pc' \in [Callers -> {"idle", "run", "wipe", "next", "installed", "failed"}]
      BY <2>7 DEF WipeStep, WipeOk, WipeFail
    <3>3. streak' \in [Callers -> Nat]
      BY <2>7 DEF WipeStep, WipeOk, WipeFail
    <3>3a. wiped' \in [Callers -> BOOLEAN]
      BY <2>7 DEF WipeStep, WipeOk, WipeFail
    <3>4. UNCHANGED <<attempt, shown, results, calls, saw, ended>>
      BY <2>7 DEF WipeStep, WipeOk, WipeFail
    <3> QED
      BY <3>1, <3>2, <3>3, <3>3a, <3>4
  <2>8. ASSUME NEW c \in Callers, Retry(c) PROVE TypeOK'
    <3>1. attempt[c] + 1 \in 1..MaxAttempts
      BY <2>8, SteamCmdAssumption DEF Retry
    <3> QED
      BY <2>8, <3>1 DEF Retry
  <2> QED
    BY <2>1, <2>2, <2>3, <2>4, <2>5, <2>6, <2>7, <2>8, NextCases
<1> QED
  BY <1>1, <1>2, PTL DEF Spec

-----------------------------------------------------------------------------
\* The counter consecutiveStateErrors never counts an error of another kind: when it
\* is not zero, the last run ended with a state error.
StreakTruthful == \A c \in Callers : streak[c] >= 1 => ended[c][1] = "state"

\* The base is emptied only by a call whose own last two runs both ended with a
\* state error.  By itself this is not inductive: it needs StreakTruthful.
THEOREM WipeJustified == Spec => []WipeAfterTwoStateErrors
<1> DEFINE Inv == StreakTruthful /\ WipeAfterTwoStateErrors
<1> USE DEF StreakTruthful, WipeAfterTwoStateErrors, At, Goto
<1>1. Init => Inv
  BY DEF Init
<1>2. TypeOK /\ Inv /\ [Next]_vars => Inv'
  <2> SUFFICES ASSUME TypeOK, Inv, [Next]_vars PROVE Inv'
    OBVIOUS
  <2> USE DEF TypeOK
  <2>1. CASE UNCHANGED vars
    BY <2>1 DEF vars
  <2>2. CASE ReadLast \/ ReadProgress
    BY <2>2 DEF ReadLast, ReadProgress
  <2>3. ASSUME NEW c \in Callers, Begin(c) PROVE Inv'
    BY <2>3 DEF Begin
  <2>4. ASSUME NEW c \in Callers, SteamChanges(c) \/ ProgressLine(c) PROVE Inv'
    BY <2>4 DEF SteamChanges, ProgressLine
  <2>5. ASSUME NEW c \in Callers, StateError(c) PROVE Inv'
    <3>1. /\ ended'[c] = <<"state", ended[c][1]>> /\ streak'[c] = streak[c] + 1
          /\ \A d \in Callers \ {c} : ended'[d] = ended[d] /\ streak'[d] = streak[d]
                                      /\ pc'[d] = pc[d]
      BY <2>5 DEF StateError, Ends
    <3>2. pc'[c] = "wipe" => streak[c] >= 1
      BY <2>5 DEF StateError
    <3>3. ended'[c][1] = "state" /\ (pc'[c] = "wipe" => ended'[c] = <<"state", "state">>)
      BY <3>1, <3>2
    <3> QED
      BY <3>1, <3>3
  <2>6. ASSUME NEW c \in Callers, OtherError(c) \/ BinaryMissing(c) PROVE Inv'
    <3>1. /\ streak'[c] = 0 /\ pc'[c] = "next"
          /\ \A d \in Callers \ {c} : ended'[d] = ended[d] /\ streak'[d] = streak[d]
                                      /\ pc'[d] = pc[d]
      BY <2>6 DEF OtherError, BinaryMissing, Ends
    <3>2. ASSUME NEW d \in Callers
          PROVE  /\ streak'[d] >= 1 => ended'[d][1] = "state"
                 /\ pc'[d] = "wipe" => ended'[d] = <<"state", "state">>
      <4>1. CASE d = c
        BY <3>1, <4>1
      <4>2. CASE d # c
        BY <3>1, <4>2
      <4> QED
        BY <4>1, <4>2
    <3> QED
      BY <3>2
  <2>7. ASSUME NEW c \in Callers, WipeStep(c) \/ WipeOk(c) \/ WipeFail(c) PROVE Inv'
    BY <2>7 DEF WipeStep, WipeOk, WipeFail
  <2>8. ASSUME NEW c \in Callers, Installed(c) \/ Retry(c) \/ GiveUp(c) \/ Return(c)
        PROVE  Inv'
    BY <2>8 DEF Installed, Retry, GiveUp, Return
  <2> QED
    BY <2>1, <2>2, <2>3, <2>4, <2>5, <2>6, <2>7, <2>8, NextCases
<1> QED
  BY <1>1, <1>2, TypeCorrect, PTL DEF Spec

-----------------------------------------------------------------------------
\* Nothing is shown when no call is left, in whatever order calls print and end.
THEOREM ProgressGone == Spec => []ProgressCleared
<1> USE DEF ProgressCleared, At, Goto
<1>1. Init => ProgressCleared
  BY DEF Init
<1>2. TypeOK /\ ProgressCleared /\ [Next]_vars => ProgressCleared'
  <2> SUFFICES ASSUME TypeOK, ProgressCleared, [Next]_vars PROVE ProgressCleared'
    OBVIOUS
  <2> USE DEF TypeOK
  <2>1. CASE UNCHANGED vars
    BY <2>1 DEF vars
  <2>2. CASE ReadLast \/ ReadProgress
    BY <2>2 DEF ReadLast, ReadProgress
  <2>3. ASSUME NEW c \in Callers, pc'[c] # "idle" PROVE ProgressCleared'
    BY <2>3
  <2>4. ASSUME NEW c \in Callers, Return(c) PROVE ProgressCleared'
    BY <2>4 DEF Return
  <2>5. ASSUME NEW c \in Callers, Begin(c) \/ SteamChanges(c) \/ ProgressLine(c) \/ Retry(c)
        PROVE  pc'[c] # "idle"
    BY <2>5 DEF Begin, SteamChanges, ProgressLine, Retry
  <2>6. ASSUME NEW c \in Callers,
               StateError(c) \/ OtherError(c) \/ BinaryMissing(c) \/ Installed(c) \/ GiveUp(c)
        PROVE  pc'[c] # "idle"
    BY <2>6 DEF StateError, OtherError, BinaryMissing, Installed, GiveUp
  <2>7. ASSUME NEW c \in Callers, WipeStep(c) \/ WipeOk(c) \/ WipeFail(c)
        PROVE  pc'[c] # "idle"
    BY <2>7 DEF WipeStep, WipeOk, WipeFail
  <2> QED
    BY <2>1, <2>2, <2>3, <2>4, <2>5, <2>6, <2>7, NextCases
<1> QED
  BY <1>1, <1>2, TypeCorrect, PTL DEF Spec

-----------------------------------------------------------------------------
\* The calls implement BaseInstall: the base changes only while a call is at work,
\* and only a call that sees the binary ends well.
THEOREM InstallImplemented == Spec => InstallKept
<1> USE DEF At, Goto, Phase
<1>1. Init => Abstract!Init
  BY DEF Init, Abstract!Init
<1>2. TypeOK /\ TypeOK' /\ [Next]_vars => [Abstract!Next]_<<base, Phase>>
  <2> SUFFICES ASSUME TypeOK, TypeOK', [Next]_vars
               PROVE  Abstract!Next \/ UNCHANGED <<base, Phase>>
    OBVIOUS
  <2> USE DEF TypeOK
  <2>1. CASE UNCHANGED vars
    BY <2>1 DEF vars
  <2>2. CASE ReadLast \/ ReadProgress
    BY <2>2 DEF ReadLast, ReadProgress
  <2>3. ASSUME NEW c \in Callers, Begin(c) PROVE Abstract!Start(c)
    BY <2>3 DEF Begin, Abstract!Start
  <2>4. ASSUME NEW c \in Callers, SteamChanges(c) \/ WipeStep(c) PROVE Abstract!Change(c)
    BY <2>4 DEF SteamChanges, WipeStep, Abstract!Change
  <2>5. ASSUME NEW c \in Callers, Installed(c) PROVE Abstract!Succeed(c)
    BY <2>5 DEF Installed, Abstract!Succeed
  <2>6. ASSUME NEW c \in Callers, GiveUp(c) PROVE Abstract!Fail(c)
    BY <2>6 DEF GiveUp, Abstract!Fail
  <2>7. ASSUME NEW c \in Callers, Return(c) PROVE Abstract!Return(c)
    BY <2>7 DEF Return, Abstract!Return
  <2>8. ASSUME NEW c \in Callers, StateError(c) \/ OtherError(c) \/ BinaryMissing(c)
        PROVE  UNCHANGED <<base, Phase>>
    BY <2>8 DEF StateError, OtherError, BinaryMissing
  <2>9. ASSUME NEW c \in Callers, ProgressLine(c) \/ WipeOk(c) \/ WipeFail(c) \/ Retry(c)
        PROVE  UNCHANGED <<base, Phase>>
    BY <2>9 DEF ProgressLine, WipeOk, WipeFail, Retry
  <2> QED
    BY <2>1, <2>2, <2>3, <2>4, <2>5, <2>6, <2>7, <2>8, <2>9, NextCases DEF Abstract!Next
<1> QED
  BY <1>1, <1>2, TypeCorrect, PTL DEF Spec, InstallKept, Abstract!Spec

-----------------------------------------------------------------------------
(* Why calls end                                                           *)

\* A listing of the base has at most two entries, and each that goes makes it smaller by one.
LEMMA ListingSize ==
    ASSUME NEW S \in SUBSET Parts
    PROVE  Cardinality(S) \in 0..2 /\ \A x \in S : Cardinality(S \ {x}) = Cardinality(S) - 1
<1>1. IsFiniteSet({"bin"}) /\ Cardinality({"bin"}) = 1
  BY FS_Singleton
<1>2. Parts = {"bin"} \cup {"csgo"}
  BY DEF Parts
<1>3. IsFiniteSet(Parts) /\ Cardinality(Parts) \in {1, 2}
  BY <1>1, <1>2, FS_AddElement
<1>4. IsFiniteSet(S) /\ Cardinality(S) <= Cardinality(Parts)
  BY <1>3, FS_Subset
<1>5. Cardinality(S) \in Nat
  BY <1>4, FS_CardinalityType
<1>6. \A x \in S : Cardinality(S \ {x}) = Cardinality(S) - 1
  BY <1>4, FS_RemoveElement
<1> QED
  BY <1>3, <1>4, <1>5, <1>6

\* How many steps are left of one call depends on nothing but its own position, attempt
\* and listing.
LEMMA OthersStay ==
    ASSUME NEW c \in Callers, pc'[c] = pc[c], attempt'[c] = attempt[c], toWipe'[c] = toWipe[c]
    PROVE  StepsLeft(c)' = StepsLeft(c)
  BY DEF StepsLeft, At

\* StepsLeft is a natural number.
LEMMA StepsNatural ==
    ASSUME TypeOK, NEW c \in Callers
    PROVE  StepsLeft(c) \in Nat
<1>1. PerRun * (MaxAttempts - attempt[c]) \in Nat
  BY SteamCmdAssumption DEF TypeOK, PerRun
<1>2. Cardinality(toWipe[c]) \in 0..2
  BY ListingSize DEF TypeOK
<1>3. pc[c] \in {"idle", "run", "wipe", "next", "installed", "failed"}
  BY DEF TypeOK
<1> QED
  BY <1>1, <1>2, <1>3 DEF StepsLeft, At, PerRun

\* A step of the loop of one call leaves it fewer.
LEMMA LoopShrinks ==
    ASSUME TypeOK, TypeOK', NEW c \in Callers, Loop(c)
    PROVE  StepsLeft(c)' \in Nat /\ StepsLeft(c)' < StepsLeft(c)
<1> DEFINE later == PerRun * (MaxAttempts - attempt[c])
           after == PerRun * (MaxAttempts - attempt'[c])
           l     == Cardinality(toWipe[c])
           m     == Cardinality(toWipe'[c])
<1>1. later \in Nat /\ after \in Nat
  BY SteamCmdAssumption DEF TypeOK, PerRun
<1>2. l \in 0..2 /\ m \in 0..2
  BY ListingSize DEF TypeOK
<1>3. CASE StateError(c) \/ OtherError(c) \/ BinaryMissing(c) \/ Installed(c)
  <2>1. pc[c] = "run" /\ pc'[c] \in {"wipe", "next", "installed"} /\ after = later
    BY <1>3 DEF StateError, OtherError, BinaryMissing, Installed, At, Goto, TypeOK
  <2>2. StepsLeft(c) = 6 + later
    BY <2>1 DEF StepsLeft, At, PerRun
  <2>3. StepsLeft(c)' \in {3 + after + m, 2 + after, 1}
    BY <2>1 DEF StepsLeft, At
  <2> HIDE DEF later, after, m, l
  <2> QED
    BY <1>1, <1>2, <2>1, <2>2, <2>3
<1>4. CASE WipeStep(c)
  <2>1. pc[c] = "wipe" /\ pc'[c] = "wipe" /\ after = later
    BY <1>4 DEF WipeStep, At
  <2>2. m = l - 1
    BY <1>4, ListingSize DEF WipeStep, TypeOK
  <2>3. StepsLeft(c) = 3 + later + l /\ StepsLeft(c)' = 3 + after + m
    BY <2>1 DEF StepsLeft, At
  <2> HIDE DEF later, after, m, l
  <2> QED
    BY <1>1, <1>2, <2>1, <2>2, <2>3
<1>5. CASE WipeOk(c) \/ WipeFail(c)
  <2>1. pc[c] = "wipe" /\ pc'[c] = "next" /\ after = later
    BY <1>5 DEF WipeOk, WipeFail, At, Goto, TypeOK
  <2>2. StepsLeft(c) = 3 + later + l /\ StepsLeft(c)' = 2 + after
    BY <2>1 DEF StepsLeft, At
  <2> HIDE DEF later, after, m, l
  <2> QED
    BY <1>1, <1>2, <2>1, <2>2
<1>6. CASE Retry(c)
  <2>1. pc[c] = "next" /\ pc'[c] = "run" /\ attempt'[c] = attempt[c] + 1
    BY <1>6 DEF Retry, At, Goto, TypeOK
  <2>2. after = later - 6
    BY <2>1, SteamCmdAssumption DEF TypeOK, PerRun
  <2>3. StepsLeft(c) = 2 + later /\ StepsLeft(c)' = 6 + after
    BY <2>1 DEF StepsLeft, At, PerRun
  <2> HIDE DEF later, after, m, l
  <2> QED
    BY <1>1, <2>2, <2>3
<1>7. CASE GiveUp(c)
  <2>1. StepsLeft(c) = 2 + later /\ StepsLeft(c)' = 1
    BY <1>7 DEF GiveUp, At, Goto, TypeOK, StepsLeft
  <2> HIDE DEF later
  <2> QED
    BY <1>1, <2>1
<1>8. CASE Return(c)
  <2>1. StepsLeft(c) = 1 /\ StepsLeft(c)' = 0
    BY <1>8 DEF Return, At, Goto, TypeOK, StepsLeft
  <2> QED
    BY <2>1
<1> QED
  BY <1>3, <1>4, <1>5, <1>6, <1>7, <1>8 DEF Loop

\* Whatever SteamCMD and other calls do: each step of the loop of a call leaves it fewer,
\* and only its begin gives it more.  The steps left are a natural number: a call, with its
\* runs and its wipe, does not go round for ever.
THEOREM CallsShrink == Spec => EveryStepCounts /\ [](\A c \in Callers : StepsLeft(c) \in Nat)
<1> DEFINE Count == \A c \in Callers : /\ Loop(c) => StepsLeft(c)' < StepsLeft(c)
                                       /\ StepsLeft(c)' > StepsLeft(c) => Begin(c)
<1>1. TypeOK /\ TypeOK' /\ [Next]_vars => [Count]_vars
  <2> SUFFICES ASSUME TypeOK, TypeOK', Next, NEW c \in Callers,
                      StepsLeft(c)' > StepsLeft(c), ~Begin(c)
               PROVE  FALSE
    BY LoopShrinks
  <2>1. StepsLeft(c) \in Nat
    BY StepsNatural
  <2>2. CASE ReadLast \/ ReadProgress
    <3>1. StepsLeft(c)' = StepsLeft(c)
      BY <2>2, OthersStay DEF ReadLast, ReadProgress
    <3> QED
      BY <2>1, <3>1
  <2>3. ASSUME NEW d \in Callers, Download(d)
        PROVE  FALSE
    <3>1. CASE d = c /\ Loop(c)
      <4>1. StepsLeft(c)' \in Nat /\ StepsLeft(c)' < StepsLeft(c)
        BY <3>1, LoopShrinks
      <4> QED
        BY <2>1, <4>1
    <3>2. CASE d # c \/ SteamChanges(d) \/ ProgressLine(d)
      <4>1. pc'[c] = pc[c] /\ attempt'[c] = attempt[c] /\ toWipe'[c] = toWipe[c]
        BY <2>3, <3>2 DEF Download, Loop, Begin, SteamChanges, ProgressLine, StateError, OtherError,
           BinaryMissing, Installed, WipeStep, WipeOk, WipeFail, Retry, GiveUp, Return, Goto, TypeOK
      <4>2. StepsLeft(c)' = StepsLeft(c)
        BY <4>1, OthersStay
      <4> QED
        BY <2>1, <4>2
    <3> QED
      BY <2>3, <3>1, <3>2 DEF Download
  <2> QED
    BY <2>2, <2>3 DEF Next
<1>2. TypeOK => \A c \in Callers : StepsLeft(c) \in Nat
  BY StepsNatural
<1> QED
  BY <1>1, <1>2, TypeCorrect, PTL DEF Spec, EveryStepCounts
=============================================================================
