-------------------------- MODULE Connection_proofs -------------------------
(***************************************************************************)
(* Safety of Connection for every set of commands, every channel capacity, *)
(* every number of connections and every pause: types, the accounting of   *)
(* answers, the write loop and its reader, heartbeats during an outage.    *)
(***************************************************************************)
EXTENDS Connection, SequenceTheorems, TLAPS

USE DEF HasRoom

\* Run's steps, the write loop's steps and the rest, for case splits.
LEMMA NextCases ==
    ASSUME Next
    PROVE  \/ CheckDone \/ DialFail \/ Sleep \/ DialOk \/ Install \/ Announce
           \/ Disconnected \/ Take \/ WriteOk \/ WriteFail \/ PingFail
           \/ ReadDone \/ DoneBranch
           \/ \E k \in Conns : StartRead(k) \/ ReadInvalid(k) \/ ReadError(k) \/ Break(k)
           \/ \E k \in Conns, c \in Commands : ReadCommand(k, c)
           \/ \E c \in Commands : Respond(c)
           \/ BeatCheck \/ BeatSend \/ CloseDone \/ CloseConn
  BY DEF Next, Run, Advance, Read, Beating, Closing

-----------------------------------------------------------------------------
\* Every variable keeps its type, whatever the constants.
THEOREM TypeCorrect == Spec => []TypeOK
<1>1. Init => TypeOK
  <2> SUFFICES ASSUME Init PROVE TypeOK
    OBVIOUS
  <2>1. sendCh \in Seq(Msgs) /\ Len(sendCh) <= SendCap
    BY ConnectionAssumption DEF Init
  <2>2. backoff \in 1..MaxBackoff /\ made \in 0..MaxConns /\ conn \in 0..MaxConns
    BY ConnectionAssumption DEF Init
  <2>3. readsFrom \in [Conns -> 0..MaxConns]
    BY ConnectionAssumption DEF Init
  <2> QED
    BY <2>1, <2>2, <2>3 DEF Init, TypeOK
<1>2. TypeOK /\ [Next]_vars => TypeOK'
  <2> SUFFICES ASSUME TypeOK, [Next]_vars PROVE TypeOK'
    OBVIOUS
  <2> USE DEF TypeOK, netVars, runVars, sendVars, beatVars
  <2>1. CASE UNCHANGED vars
    BY <2>1 DEF vars
  <2>2. CASE Sleep
    BY <2>2, ConnectionAssumption DEF Sleep, Smaller
  <2>3. CASE CheckDone \/ DialFail \/ Disconnected
    BY <2>3 DEF CheckDone, DialFail, Disconnected
  <2>3a. CASE Install
    BY <2>3a DEF Install
  <2>3b. CASE Announce
    <3>1. backoff' \in 1..MaxBackoff
      BY <2>3b, ConnectionAssumption DEF Announce
    <3>2. reader' \in [Conns -> {"none", "top", "reading", "exited"}]
      BY <2>3b DEF Announce
    <3> QED
      BY <2>3b, <3>1, <3>2 DEF Announce
  <2>4. CASE DialOk
    <3>1. made' \in 0..MaxConns
      BY <2>4, ConnectionAssumption DEF DialOk
    <3>2. link' \in [Conns -> {"none", "open", "broken", "closed"}]
      BY <2>4 DEF DialOk
    <3> QED
      BY <2>4, <3>1, <3>2 DEF DialOk
  <2>5. CASE Take
    <3>1. Head(sendCh) \in Msgs /\ Tail(sendCh) \in Seq(Msgs)
          /\ Len(Tail(sendCh)) <= SendCap
      BY <2>5, ConnectionAssumption DEF Take
    <3> QED
      BY <2>5, <3>1 DEF Take
  <2>6. CASE WriteOk \/ WriteFail
    BY <2>6 DEF WriteOk, WriteFail, Settle
  <2>7. CASE PingFail \/ ReadDone \/ DoneBranch
    BY <2>7 DEF PingFail, ReadDone, DoneBranch
  <2>8. CASE \E k \in Conns : StartRead(k) \/ ReadInvalid(k) \/ ReadError(k) \/ Break(k)
    <3>1. PICK k \in Conns : StartRead(k) \/ ReadInvalid(k) \/ ReadError(k) \/ Break(k)
      BY <2>8
    <3>2. CASE StartRead(k)
      BY <3>2 DEF StartRead
    <3>3. CASE ReadInvalid(k)
      BY <3>3 DEF ReadInvalid
    <3>4. CASE ReadError(k)
      BY <3>4 DEF ReadError
    <3>5. CASE Break(k)
      BY <3>5 DEF Break
    <3> QED
      BY <3>1, <3>2, <3>3, <3>4, <3>5
  <2>9. CASE \E k \in Conns, c \in Commands : ReadCommand(k, c)
    BY <2>9 DEF ReadCommand
  <2>10. CASE \E c \in Commands : Respond(c)
    <3> SUFFICES ASSUME NEW c \in Commands, Respond(c) PROVE TypeOK'
      BY <2>10
    <3>1. Append(sendCh, c) \in Seq(Msgs) /\ Len(Append(sendCh, c)) = Len(sendCh) + 1
      BY DEF Msgs
    <3>2. sendCh' \in Seq(Msgs) /\ Len(sendCh') <= SendCap
      <4>1. CASE Len(sendCh) < SendCap
        <5>1. sendCh' = Append(sendCh, c)
          BY <4>1 DEF Respond
        <5> QED
          BY <3>1, <4>1, <5>1, ConnectionAssumption
      <4>2. CASE ~(Len(sendCh) < SendCap)
        BY <4>2 DEF Respond
      <4> QED
        BY <4>1, <4>2
    <3>3. task' \in [Commands -> {"idle", "running", "queued", "writing", "written",
                                 "lost", "dropped"}]
      BY DEF Respond
    <3>4. UNCHANGED <<runPc, backoff, made, conn, connected, link, done, closePc,
                      reader, readsFrom, hand, hbPc, outageBeats>>
      BY DEF Respond
    <3> QED
      BY <3>2, <3>3, <3>4
  <2>11. CASE BeatSend
    <3>1. Append(sendCh, Beat) \in Seq(Msgs) /\ Len(Append(sendCh, Beat)) = Len(sendCh) + 1
      BY DEF Msgs
    <3>2. sendCh' \in Seq(Msgs) /\ Len(sendCh') <= SendCap
      <4>1. CASE HasRoom
        <5>1. sendCh' = Append(sendCh, Beat)
          BY <2>11, <4>1 DEF BeatSend
        <5> QED
          BY <3>1, <4>1, <5>1, ConnectionAssumption
      <4>2. CASE ~HasRoom
        BY <2>11, <4>2 DEF BeatSend
      <4> QED
        BY <4>1, <4>2
    <3>3. outageBeats' \in Nat /\ hbPc' \in {"tick", "collect"}
      BY <2>11 DEF BeatSend
    <3>4. UNCHANGED <<runPc, backoff, made, conn, connected, link, done, closePc,
                      reader, readsFrom, hand, task>>
      BY <2>11 DEF BeatSend
    <3> QED
      BY <3>2, <3>3, <3>4
  <2>12. CASE BeatCheck \/ CloseDone \/ CloseConn
    BY <2>12 DEF BeatCheck, CloseDone, CloseConn
  <2> QED
    BY <2>1, <2>2, <2>3, <2>3a, <2>3b, <2>4, <2>5, <2>6, <2>7, <2>8, <2>9, <2>10, <2>11,
       <2>12, NextCases
<1> QED
  BY <1>1, <1>2, PTL DEF Spec

-----------------------------------------------------------------------------
(* Run and its reader: what ReadDoneMeansDead needs to be inductive.  Before *)
(* the loops, the newest connection has no reader yet; from Install on, it   *)
(* is c.conn; while the flag is up, Run is in the loops or just left them.   *)
RunInv ==
    /\ runPc # "dialed" => conn = made
    /\ runPc \in {"dialed", "installed", "loops", "writing", "down"} => made \in Conns
    /\ \A k \in Conns : k > made \/ (k = made /\ runPc \in {"dialed", "installed"})
                        => reader[k] = "none"
    /\ connected <=> runPc \in {"loops", "writing", "down"}

\* The flag, c.conn and the readers agree with where Run is.
THEOREM RunInvariant == Spec => [](RunInv /\ ReadDoneMeansDead)
<1> DEFINE Inv == RunInv /\ ReadDoneMeansDead
<1>1. Init => Inv
  BY ConnectionAssumption DEF Init, RunInv, ReadDoneMeansDead, Conns
<1>2. TypeOK /\ Inv /\ [Next]_vars => Inv'
  <2> SUFFICES ASSUME TypeOK, Inv, [Next]_vars PROVE Inv'
    OBVIOUS
  <2> USE ConnectionAssumption DEF TypeOK, RunInv, ReadDoneMeansDead, netVars, runVars, Conns
  <2>1. CASE UNCHANGED vars
    BY <2>1 DEF vars
  <2>2. CASE Sleep
    BY <2>2 DEF Sleep
  <2>3. CASE CheckDone
    BY <2>3 DEF CheckDone
  <2>4. CASE DialFail
    BY <2>4 DEF DialFail
  <2>5. CASE DialOk
    BY <2>5 DEF DialOk
  <2>6. CASE Install
    BY <2>6 DEF Install
  <2>7. CASE Announce
    BY <2>7 DEF Announce
  <2>8. CASE Disconnected
    BY <2>8 DEF Disconnected
  <2>9. CASE Take
    BY <2>9 DEF Take
  <2>10. CASE WriteOk \/ WriteFail
    BY <2>10 DEF WriteOk, WriteFail
  <2>11. CASE PingFail \/ ReadDone \/ DoneBranch
    BY <2>11 DEF PingFail, ReadDone, DoneBranch
  <2>12. ASSUME NEW k \in Conns, StartRead(k) PROVE Inv'
    BY <2>12 DEF StartRead
  <2>13. ASSUME NEW k \in Conns, ReadInvalid(k) PROVE Inv'
    BY <2>13 DEF ReadInvalid
  <2>14. ASSUME NEW k \in Conns, ReadError(k) PROVE Inv'
    BY <2>14 DEF ReadError
  <2>15. ASSUME NEW k \in Conns, Break(k) PROVE Inv'
    BY <2>15 DEF Break
  <2>16. ASSUME NEW k \in Conns, NEW c \in Commands, ReadCommand(k, c) PROVE Inv'
    BY <2>16 DEF ReadCommand
  <2>17. ASSUME NEW c \in Commands, Respond(c) PROVE Inv'
    BY <2>17 DEF Respond
  <2>18. CASE BeatCheck \/ BeatSend
    <3>1. UNCHANGED <<runPc, made, conn, connected, link, reader, readsFrom>>
      BY <2>18 DEF BeatCheck, BeatSend
    <3> QED
      BY <3>1
  <2>19. CASE CloseDone
    <3>1. UNCHANGED <<runPc, made, conn, connected, link, reader, readsFrom>>
      BY <2>19 DEF CloseDone
    <3> QED
      BY <3>1
  <2>20. CASE CloseConn
    <3>1. \A k \in Conns : link'[k] # "open" \/ link'[k] = link[k]
      BY <2>20 DEF CloseConn
    <3>2. UNCHANGED <<runPc, made, conn, connected, reader, readsFrom>>
      BY <2>20 DEF CloseConn
    <3> QED
      BY <3>1, <3>2
  <2> HIDE DEF Inv, TypeOK, RunInv, ReadDoneMeansDead, netVars, runVars, Conns
  <2> QED
    BY <2>1, <2>2, <2>3, <2>4, <2>5, <2>6, <2>7, <2>8, <2>9, <2>10, <2>11, <2>12,
       <2>13, <2>14, <2>15, <2>16, <2>17, <2>18, <2>19, <2>20, NextCases
<1> QED
  BY <1>1, <1>2, TypeCorrect, PTL DEF Spec

\* readDone tells the truth: the loops end on it only on a dead connection.
THEOREM ReadDoneTruthful == Spec => []ReadDoneMeansDead
BY RunInvariant, PTL

-----------------------------------------------------------------------------
(* Heartbeats: none is counted while connected, and the goroutine that has  *)
(* passed the check when the flag falls is the only one that adds to it.    *)
BeatInv ==
    /\ OneBeatPerOutage
    /\ connected => outageBeats = 0
    /\ hbPc = "collect" => outageBeats = 0

\* At most one heartbeat joins the channel during an outage.
THEOREM OutageBeats == Spec => []OneBeatPerOutage
<1>1. Init => BeatInv
  BY DEF Init, BeatInv, OneBeatPerOutage
<1>2. TypeOK /\ RunInv /\ BeatInv /\ [Next]_vars => BeatInv'
  <2> SUFFICES ASSUME TypeOK, RunInv, BeatInv, [Next]_vars PROVE BeatInv'
    OBVIOUS
  <2> USE DEF TypeOK, RunInv, BeatInv, OneBeatPerOutage, netVars, runVars, sendVars, beatVars
  <2>1. CASE UNCHANGED vars
    BY <2>1 DEF vars
  <2>2. CASE Announce
    BY <2>2 DEF Announce
  <2>3. CASE Disconnected
    BY <2>3 DEF Disconnected
  <2>4. CASE BeatCheck
    BY <2>4 DEF BeatCheck
  <2>5. CASE BeatSend
    BY <2>5 DEF BeatSend
  <2>6. CASE CheckDone \/ DialFail \/ Sleep \/ DialOk \/ Install
    BY <2>6 DEF CheckDone, DialFail, Sleep, DialOk, Install
  <2>7. CASE Take \/ WriteOk \/ WriteFail \/ PingFail \/ ReadDone \/ DoneBranch
    BY <2>7 DEF Take, WriteOk, WriteFail, PingFail, ReadDone, DoneBranch
  <2>8. CASE \E k \in Conns : StartRead(k) \/ ReadInvalid(k) \/ ReadError(k) \/ Break(k)
    <3>1. PICK k \in Conns : StartRead(k) \/ ReadInvalid(k) \/ ReadError(k) \/ Break(k)
      BY <2>8
    <3>2. CASE StartRead(k)
      BY <3>2 DEF StartRead
    <3>3. CASE ReadInvalid(k) \/ ReadError(k)
      BY <3>3 DEF ReadInvalid, ReadError
    <3>4. CASE Break(k)
      BY <3>4 DEF Break
    <3> QED
      BY <3>1, <3>2, <3>3, <3>4
  <2>9. CASE \E k \in Conns, c \in Commands : ReadCommand(k, c)
    BY <2>9 DEF ReadCommand
  <2>10. CASE \E c \in Commands : Respond(c)
    BY <2>10 DEF Respond
  <2>11. CASE CloseDone \/ CloseConn
    BY <2>11 DEF CloseDone, CloseConn
  <2> QED
    BY <2>1, <2>2, <2>3, <2>4, <2>5, <2>6, <2>7, <2>8, <2>9, <2>10, <2>11, NextCases
<1> QED
  <2>1. BeatInv => OneBeatPerOutage
    BY DEF BeatInv
  <2> QED
    BY <1>1, <1>2, <2>1, TypeCorrect, RunInvariant, PTL DEF Spec

-----------------------------------------------------------------------------
(* Where the answers are.                                                  *)

\* What Append and Tail do to the messages that wait.
LEMMA AppendWaiting ==
    ASSUME NEW m \in Msgs, sendCh \in Seq(Msgs), sendCh' = Append(sendCh, m)
    PROVE  /\ Len(sendCh') = Len(sendCh) + 1
           /\ \A i \in 1..Len(sendCh) : sendCh'[i] = sendCh[i]
           /\ sendCh'[Len(sendCh) + 1] = m
           /\ \A c : Waiting(c)' <=> Waiting(c) \/ c = m
<1>1. /\ Len(sendCh') = Len(sendCh) + 1
      /\ \A i \in 1..Len(sendCh) : sendCh'[i] = sendCh[i]
      /\ sendCh'[Len(sendCh) + 1] = m
  OBVIOUS
<1>2. Len(sendCh) \in Nat
  OBVIOUS
<1>3. ASSUME NEW c PROVE Waiting(c)' <=> Waiting(c) \/ c = m
  BY <1>1, <1>2 DEF Waiting
<1> QED
  BY <1>1, <1>3

LEMMA TailWaiting ==
    ASSUME sendCh \in Seq(Msgs), sendCh # <<>>, sendCh' = Tail(sendCh)
    PROVE  /\ Len(sendCh') = Len(sendCh) - 1
           /\ Len(sendCh) \in Nat \ {0}
           /\ \A i \in 1..Len(sendCh') : sendCh'[i] = sendCh[i + 1]
           /\ Head(sendCh) = sendCh[1]
           /\ \A c : Waiting(c) <=> Waiting(c)' \/ c = Head(sendCh)
<1>1. /\ Len(sendCh') = Len(sendCh) - 1
      /\ Len(sendCh) \in Nat \ {0}
      /\ \A i \in 1..Len(sendCh') : sendCh'[i] = sendCh[i + 1]
      /\ Head(sendCh) = sendCh[1]
  BY HeadTailProperties, EmptySeq
<1>2. ASSUME NEW c, Waiting(c) PROVE Waiting(c)' \/ c = Head(sendCh)
  <2>1. PICK i \in 1..Len(sendCh) : sendCh[i] = c
    BY <1>2 DEF Waiting
  <2>2. CASE i = 1
    BY <1>1, <2>1, <2>2
  <2>3. CASE i # 1
    <3>1. i - 1 \in 1..Len(sendCh') /\ sendCh'[i - 1] = c
      BY <1>1, <2>1, <2>3
    <3> QED
      BY <3>1 DEF Waiting
  <2> QED
    BY <2>2, <2>3
<1>3. ASSUME NEW c, Waiting(c)' PROVE Waiting(c)
  <2>1. PICK i \in 1..Len(sendCh') : sendCh'[i] = c
    BY <1>3 DEF Waiting
  <2>2. i + 1 \in 1..Len(sendCh) /\ sendCh[i + 1] = c
    BY <1>1, <2>1
  <2> QED
    BY <2>2 DEF Waiting
<1>4. Waiting(Head(sendCh))
  BY <1>1 DEF Waiting
<1> QED
  BY <1>1, <1>2, <1>3, <1>4

\* The messages a write loop step or a Send leaves where they are.
LEMMA SameWaiting ==
    ASSUME UNCHANGED sendCh
    PROVE  \A c : Waiting(c)' <=> Waiting(c)
  BY DEF Waiting

\* The write loop holds a message exactly while it writes.
HandInv == hand # NoMsg <=> runPc = "writing"

LEMMA AnswersInvariant == Spec => [](ResponseAccounting /\ HandInv)
<1> DEFINE Inv == ResponseAccounting /\ HandInv
<1> USE DEF HandInv
<1>1. Init => Inv
  BY ConnectionAssumption DEF Init, ResponseAccounting, Waiting
<1>2. TypeOK /\ Inv /\ [Next]_vars => Inv'
  <2> SUFFICES ASSUME TypeOK, Inv, [Next]_vars PROVE Inv'
    OBVIOUS
  <2>0. sendCh \in Seq(Msgs) /\ hand \in Msgs \cup {NoMsg}
        /\ task \in [Commands -> {"idle", "running", "queued", "writing", "written",
                                  "lost", "dropped"}]
    BY DEF TypeOK
  <2>1. CASE UNCHANGED <<task, sendCh, hand>> /\ (runPc' = "writing" <=> runPc = "writing")
    BY <2>1, SameWaiting DEF ResponseAccounting
  <2>2. CASE Take
    <3>1. sendCh # <<>> /\ sendCh' = Tail(sendCh) /\ hand' = Head(sendCh)
          /\ runPc = "loops" /\ runPc' = "writing"
          /\ task' = [c \in Commands |-> IF c = Head(sendCh) THEN "writing" ELSE task[c]]
      BY <2>2 DEF Take
    <3>2. hand = NoMsg /\ Head(sendCh) \in Msgs
      BY <2>0, <3>1
    <3>3. Head(sendCh) # NoMsg
      BY <3>2, ConnectionAssumption DEF Msgs
    <3>4. \A c \in Commands : task[c] # "writing"
      BY <3>2, ConnectionAssumption DEF ResponseAccounting
    <3>5. \A i, j \in 1..Len(sendCh') : sendCh'[i] = sendCh'[j] /\ sendCh'[i] # Beat => i = j
      <4> SUFFICES ASSUME NEW i \in 1..Len(sendCh'), NEW j \in 1..Len(sendCh'),
                          sendCh'[i] = sendCh'[j], sendCh'[i] # Beat
                   PROVE  i = j
        OBVIOUS
      <4>1. i + 1 \in 1..Len(sendCh) /\ j + 1 \in 1..Len(sendCh)
            /\ sendCh'[i] = sendCh[i + 1] /\ sendCh'[j] = sendCh[j + 1]
        BY <2>0, <3>1, TailWaiting
      <4>2. i + 1 = j + 1
        BY <4>1 DEF ResponseAccounting
      <4> QED
        BY <4>2
    <3>6. ASSUME NEW c \in Commands, c = Head(sendCh) PROVE ~Waiting(c)'
      <4> SUFFICES ASSUME NEW i \in 1..Len(sendCh'), sendCh'[i] = c PROVE FALSE
        BY DEF Waiting
      <4>1. i + 1 \in 1..Len(sendCh) /\ 1 \in 1..Len(sendCh)
            /\ sendCh[i + 1] = sendCh[1] /\ sendCh[1] = c
        BY <2>0, <3>1, <3>6, TailWaiting
      <4>2. i + 1 = 1
        BY <4>1, ConnectionAssumption DEF ResponseAccounting
      <4> QED
        BY <4>2
    <3>7. ASSUME NEW c \in Commands PROVE task'[c] = "queued" <=> Waiting(c)'
      <4>1. CASE c = Head(sendCh)
        BY <3>1, <3>6, <4>1
      <4>2. CASE c # Head(sendCh)
        BY <2>0, <3>1, <4>2, TailWaiting DEF ResponseAccounting
      <4> QED
        BY <4>1, <4>2
    <3>8. ASSUME NEW c \in Commands PROVE task'[c] = "writing" <=> hand' = c
      BY <3>1, <3>4
    <3> QED
      BY <3>1, <3>3, <3>5, <3>7, <3>8 DEF ResponseAccounting
  <2>3. ASSUME NEW fate \in {"written", "lost"}, Settle(fate), runPc = "writing",
               runPc' # "writing"
        PROVE  Inv'
    <3>1. UNCHANGED sendCh /\ hand' = NoMsg
          /\ task' = [c \in Commands |-> IF c = hand THEN fate ELSE task[c]]
      BY <2>3 DEF Settle
    <3>2. ASSUME NEW c \in Commands
          PROVE  /\ task'[c] = "queued" <=> Waiting(c)'
                 /\ task'[c] = "writing" <=> hand' = c
      BY <2>3, <3>1, SameWaiting, ConnectionAssumption DEF ResponseAccounting
    <3> QED
      BY <2>3, <3>1, <3>2 DEF ResponseAccounting
  <2>4. ASSUME NEW m \in Msgs, sendCh' = Append(sendCh, m), UNCHANGED <<hand, runPc>>,
               \/ m = Beat /\ UNCHANGED task
               \/ m \in Commands /\ task[m] = "running"
                  /\ task' = [task EXCEPT ![m] = "queued"]
        PROVE  Inv'
    <3>1. /\ Len(sendCh) \in Nat /\ Len(sendCh') = Len(sendCh) + 1
          /\ \A i \in 1..Len(sendCh) : sendCh'[i] = sendCh[i]
          /\ sendCh'[Len(sendCh) + 1] = m
          /\ \A c : Waiting(c)' <=> Waiting(c) \/ c = m
      BY <2>0, <2>4, AppendWaiting
    <3>2. m # Beat => ~Waiting(m)
      BY <2>4 DEF ResponseAccounting
    <3>3. \A i, j \in 1..Len(sendCh') : sendCh'[i] = sendCh'[j] /\ sendCh'[i] # Beat => i = j
      <4> SUFFICES ASSUME NEW i \in 1..Len(sendCh'), NEW j \in 1..Len(sendCh'),
                          sendCh'[i] = sendCh'[j], sendCh'[i] # Beat
                   PROVE  i = j
        OBVIOUS
      <4>1. CASE i \in 1..Len(sendCh) /\ j \in 1..Len(sendCh)
        BY <3>1, <4>1 DEF ResponseAccounting
      <4>2. CASE i = Len(sendCh) + 1 /\ j \in 1..Len(sendCh)
        BY <3>1, <3>2, <4>2 DEF Waiting
      <4>3. CASE j = Len(sendCh) + 1 /\ i \in 1..Len(sendCh)
        BY <3>1, <3>2, <4>3 DEF Waiting
      <4> QED
        BY <3>1, <4>1, <4>2, <4>3
    <3>4. ASSUME NEW c \in Commands PROVE task'[c] = "queued" <=> Waiting(c)'
      BY <2>0, <2>4, <3>1, ConnectionAssumption DEF ResponseAccounting
    <3>5. ASSUME NEW c \in Commands PROVE task'[c] = "writing" <=> hand' = c
      BY <2>0, <2>4 DEF ResponseAccounting
    <3> QED
      BY <2>4, <3>3, <3>4, <3>5 DEF ResponseAccounting
  <2>5. ASSUME NEW c \in Commands, task[c] \in {"idle", "running"},
               NEW t \in {"running", "dropped"},
               task' = [task EXCEPT ![c] = t], UNCHANGED <<sendCh, hand, runPc>>
        PROVE  Inv'
    <3>1. ~Waiting(c) /\ hand # c
      BY <2>5 DEF ResponseAccounting
    <3> QED
      BY <2>0, <2>5, <3>1, SameWaiting DEF ResponseAccounting
  <2>6. CASE WriteOk \/ WriteFail
    BY <2>3, <2>6 DEF WriteOk, WriteFail
  <2>7. CASE BeatSend
    BY <2>1, <2>4, <2>7 DEF BeatSend, Msgs, runVars
  <2>8. CASE \E c \in Commands : Respond(c)
    BY <2>4, <2>5, <2>8 DEF Respond, Msgs, runVars
  <2>9. CASE \E k \in Conns, c \in Commands : ReadCommand(k, c)
    BY <2>5, <2>9 DEF ReadCommand, runVars
  <2>10. CASE CheckDone \/ DialFail \/ Sleep \/ DialOk \/ Install \/ Announce \/ Disconnected
    BY <2>1, <2>10 DEF CheckDone, DialFail, Sleep, DialOk, Install, Announce,
                       Disconnected, sendVars
  <2>11. CASE PingFail \/ ReadDone \/ DoneBranch
    BY <2>1, <2>11 DEF PingFail, ReadDone, DoneBranch, sendVars
  <2>12. CASE \E k \in Conns : StartRead(k) \/ ReadInvalid(k) \/ ReadError(k) \/ Break(k)
    BY <2>1, <2>12 DEF StartRead, ReadInvalid, ReadError, Break, sendVars, runVars
  <2>13. CASE BeatCheck \/ CloseDone \/ CloseConn
    BY <2>1, <2>13 DEF BeatCheck, CloseDone, CloseConn, sendVars, runVars
  <2>14. CASE UNCHANGED vars
    BY <2>1, <2>14 DEF vars
  <2> QED
    BY <2>2, <2>6, <2>7, <2>8, <2>9, <2>10, <2>11, <2>12, <2>13, <2>14, NextCases
<1> QED
  BY <1>1, <1>2, TypeCorrect, PTL DEF Spec

\* Every answer is in exactly one place, and once.
THEOREM AnswersAccounted == Spec => []ResponseAccounting
BY AnswersInvariant, PTL

\* While the flag is down, messages only join the channel, behind the others.
THEOREM BacklogSafe == Spec => BacklogKept
<1> DEFINE Kept == /\ Len(sendCh) <= Len(sendCh')
                   /\ SubSeq(sendCh', 1, Len(sendCh)) = sendCh
<1>1. ASSUME TypeOK, RunInv, [Next]_vars, ~connected PROVE Kept
  <2>0. sendCh \in Seq(Msgs) /\ Len(sendCh) \in Nat
    BY <1>1 DEF TypeOK
  <2>1. UNCHANGED sendCh \/ \E m \in Msgs : sendCh' = Append(sendCh, m)
    <3>1. CASE BeatSend \/ \E c \in Commands : Respond(c)
      BY <3>1 DEF BeatSend, Respond, Msgs
    <3>2. CASE Take
      BY <1>1, <3>2 DEF Take, RunInv
    <3>3. CASE CheckDone \/ DialFail \/ Sleep \/ DialOk \/ Install \/ Announce \/ Disconnected
      BY <3>3 DEF CheckDone, DialFail, Sleep, DialOk, Install, Announce, Disconnected,
                  sendVars
    <3>4. CASE WriteOk \/ WriteFail \/ PingFail \/ ReadDone \/ DoneBranch
      BY <3>4 DEF WriteOk, WriteFail, Settle, PingFail, ReadDone, DoneBranch, sendVars
    <3>5. CASE \/ \E k \in Conns : StartRead(k) \/ ReadInvalid(k) \/ ReadError(k) \/ Break(k)
               \/ \E k \in Conns, c \in Commands : ReadCommand(k, c)
      BY <3>5 DEF StartRead, ReadInvalid, ReadError, Break, ReadCommand, sendVars
    <3>6. CASE BeatCheck \/ CloseDone \/ CloseConn \/ UNCHANGED vars
      BY <3>6 DEF BeatCheck, CloseDone, CloseConn, sendVars, vars
    <3> QED
      BY <1>1, <3>1, <3>2, <3>3, <3>4, <3>5, <3>6, NextCases
  <2>2. CASE UNCHANGED sendCh
    BY <2>0, <2>2, SubSeqFull
  <2>3. ASSUME NEW m \in Msgs, sendCh' = Append(sendCh, m) PROVE Kept
    <3>1. /\ sendCh' \in Seq(Msgs) /\ Len(sendCh') = Len(sendCh) + 1
          /\ \A i \in 1..Len(sendCh) : sendCh'[i] = sendCh[i]
      BY <2>0, <2>3
    <3>2. /\ SubSeq(sendCh', 1, Len(sendCh)) \in Seq(Msgs)
          /\ Len(SubSeq(sendCh', 1, Len(sendCh))) = Len(sendCh)
          /\ \A i \in 1..Len(sendCh) : SubSeq(sendCh', 1, Len(sendCh))[i] = sendCh[i]
      BY <2>0, <3>1
    <3> HIDE <2>3
    <3>3. SubSeq(sendCh', 1, Len(sendCh)) = sendCh
      BY <2>0, <3>2, SeqEqual
    <3> QED
      BY <2>0, <3>1, <3>3
  <2> QED
    BY <2>1, <2>2, <2>3
<1> QED
  BY <1>1, TypeCorrect, RunInvariant, PTL DEF Spec, BacklogKept

-----------------------------------------------------------------------------
(* The outbound path implements Delivery.                                  *)

\* What a message in the write loop's hand does to the abstract outbox.
LEMMA HandFirst ==
    ASSUME NEW h \in Msgs, NEW s \in Seq(Msgs), NEW m \in Msgs
    PROVE  /\ <<h>> \o s \in Seq(Msgs) /\ <<h>> \o s # <<>>
           /\ Len(<<h>> \o s) = Len(s) + 1
           /\ Head(<<h>> \o s) = h /\ Tail(<<h>> \o s) = s
           /\ Append(<<h>> \o s, m) = <<h>> \o Append(s, m)
<1>1. <<h>> \in Seq(Msgs) /\ Len(<<h>>) = 1 /\ <<h>>[1] = h
  OBVIOUS
<1>2. Append(s, m) = s \o <<m>> /\ Append(<<h>> \o s, m) = (<<h>> \o s) \o <<m>>
  BY <1>1, AppendIsConcat, ConcatProperties
<1>3. Append(<<h>> \o s, m) = <<h>> \o Append(s, m)
  BY <1>1, <1>2, ConcatAssociative
<1>4. /\ <<h>> \o s \in Seq(Msgs) /\ Len(<<h>> \o s) = Len(s) + 1
      /\ Len(s) \in Nat
      /\ \A i \in 1..(Len(s) + 1) : (<<h>> \o s)[i] = IF i <= 1 THEN h ELSE s[i - 1]
  BY <1>1, ConcatProperties
<1> DEFINE hs == <<h>> \o s
<1>5. hs \in Seq(Msgs) /\ Len(hs) = Len(s) + 1 /\ Len(s) \in Nat
      /\ hs[1] = h /\ \A i \in 1..Len(s) : hs[i + 1] = s[i]
  BY <1>4
<1> HIDE DEF hs
<1>6. hs # <<>>
  BY <1>5, EmptySeq
<1>7. /\ Head(hs) = hs[1] /\ Tail(hs) \in Seq(Msgs) /\ Len(Tail(hs)) = Len(s)
      /\ \A i \in 1..Len(s) : Tail(hs)[i] = hs[i + 1]
  BY <1>5, <1>6, HeadTailProperties
<1>8. Tail(hs) = s
  BY <1>5, <1>7, SeqEqual
<1> QED
  BY <1>3, <1>4, <1>5, <1>6, <1>7, <1>8 DEF hs

\* Answers are given at most once, messages leave in the order in which they were
\* accepted, and one is refused only when the channel is full.
THEOREM DeliveryImplemented == Spec => DeliveryKept
<1>1. Init => Abstract!Init
  <2> SUFFICES ASSUME Init PROVE Abstract!Init
    OBVIOUS
  <2>1. AbsJob = [c \in Commands |-> "idle"] /\ AbsOutbox = <<>>
    BY DEF Init, AbsJob, AbsOutbox
  <2> QED
    BY <2>1 DEF Abstract!Init
<1>2. TypeOK /\ ResponseAccounting /\ HandInv /\ [Next]_vars
        => [Abstract!Next]_(Abstract!vars)
  <2> SUFFICES ASSUME TypeOK, ResponseAccounting, HandInv, [Next]_vars
               PROVE  Abstract!Next \/ UNCHANGED Abstract!vars
    OBVIOUS
  <2>0. /\ sendCh \in Seq(Msgs) /\ hand \in Msgs \cup {NoMsg}
        /\ Len(sendCh) \in Nat /\ SendCap \in Nat
        /\ Len(sendCh) <= SendCap
        /\ task \in [Commands -> {"idle", "running", "queued", "writing", "written",
                                  "lost", "dropped"}]
        /\ NoMsg \notin Msgs
    BY ConnectionAssumption DEF TypeOK, Msgs
  <2>1. CASE UNCHANGED <<task, sendCh, hand>>
    <3>1. UNCHANGED <<AbsJob, AbsOutbox>>
      BY <2>1 DEF AbsJob, AbsOutbox
    <3> QED
      BY <3>1 DEF Abstract!vars
  <2>2. Len(AbsOutbox) \in Nat /\ Len(sendCh) <= Len(AbsOutbox)
        /\ Len(AbsOutbox) <= Len(sendCh) + 1
    BY <2>0, HandFirst DEF AbsOutbox
  <2>3. ASSUME NEW m \in Msgs, sendCh' = Append(sendCh, m), UNCHANGED hand
        PROVE  AbsOutbox' = Append(AbsOutbox, m)
    BY <2>0, <2>3, HandFirst DEF AbsOutbox
  <2>4. CASE BeatSend
    <3>1. CASE Len(sendCh) < SendCap
      <4>1. sendCh' = Append(sendCh, Beat) /\ UNCHANGED <<hand, task>>
        BY <2>4, <3>1 DEF BeatSend
      <4>2. AbsOutbox' = Append(AbsOutbox, Beat) /\ UNCHANGED AbsJob
        BY <2>3, <4>1 DEF Msgs, AbsJob
      <4>3. Len(AbsOutbox) <= SendCap
        BY <2>0, <2>2, <3>1
      <4> QED
        BY <4>2, <4>3 DEF Abstract!Next, Abstract!Heartbeat
    <3>2. CASE ~(Len(sendCh) < SendCap)
      BY <2>1, <2>4, <3>2 DEF BeatSend
    <3> QED
      BY <3>1, <3>2
  <2>5. ASSUME NEW c \in Commands, Respond(c) PROVE Abstract!Next
    <3>1. task[c] = "running" /\ AbsJob[c] = "running" /\ UNCHANGED hand
      BY <2>5 DEF Respond, AbsJob
    <3>2. CASE Len(sendCh) < SendCap
      <4>1. sendCh' = Append(sendCh, c) /\ task' = [task EXCEPT ![c] = "queued"]
        BY <2>5, <3>2 DEF Respond
      <4>2. AbsOutbox' = Append(AbsOutbox, c) /\ Len(AbsOutbox) <= SendCap
        BY <2>0, <2>2, <2>3, <3>1, <3>2, <4>1 DEF Msgs
      <4>3. AbsJob' = [AbsJob EXCEPT ![c] = "queued"]
        BY <2>0, <4>1 DEF AbsJob
      <4> QED
        BY <3>1, <4>2, <4>3 DEF Abstract!Next, Abstract!Answer
    <3>3. CASE ~(Len(sendCh) < SendCap)
      <4>1. UNCHANGED sendCh /\ task' = [task EXCEPT ![c] = "dropped"]
        BY <2>5, <3>3 DEF Respond
      <4>2. UNCHANGED AbsOutbox
        BY <3>1, <4>1 DEF AbsOutbox
      <4>3. AbsJob' = [AbsJob EXCEPT ![c] = "dropped"]
        BY <2>0, <4>1 DEF AbsJob
      <4>4. Len(AbsOutbox) >= SendCap
        BY <2>0, <2>2, <3>3
      <4> QED
        BY <3>1, <4>2, <4>3, <4>4 DEF Abstract!Next, Abstract!Refuse
    <3> QED
      BY <3>2, <3>3
  <2>6. ASSUME NEW k \in Conns, NEW c \in Commands, ReadCommand(k, c) PROVE Abstract!Next
    <3>1. task[c] = "idle" /\ task' = [task EXCEPT ![c] = "running"]
          /\ UNCHANGED <<sendCh, hand>>
      BY <2>6 DEF ReadCommand
    <3>2. AbsJob[c] = "idle" /\ AbsJob' = [AbsJob EXCEPT ![c] = "running"]
          /\ UNCHANGED AbsOutbox
      BY <2>0, <3>1 DEF AbsJob, AbsOutbox
    <3> QED
      BY <3>2 DEF Abstract!Next, Abstract!Accept
  <2>7. CASE Take
    <3>1. /\ sendCh # <<>> /\ hand' = Head(sendCh) /\ sendCh' = Tail(sendCh)
          /\ task' = [c \in Commands |-> IF c = Head(sendCh) THEN "writing" ELSE task[c]]
          /\ hand = NoMsg
      BY <2>7 DEF Take, HandInv
    <3>2. Head(sendCh) \in Msgs /\ sendCh = <<Head(sendCh)>> \o Tail(sendCh)
      <4>1. Head(sendCh) \in Msgs /\ Tail(sendCh) \in Seq(Msgs)
            /\ Len(Tail(sendCh)) = Len(sendCh) - 1
            /\ \A i \in 1..Len(Tail(sendCh)) : Tail(sendCh)[i] = sendCh[i + 1]
        BY <2>0, <3>1, HeadTailProperties
      <4>2. Len(sendCh) \in Nat \ {0}
        BY <2>0, <3>1, EmptySeq
      <4>3. SubSeq(sendCh, 1, Len(sendCh)) = <<sendCh[1]>> \o SubSeq(sendCh, 2, Len(sendCh))
        BY <2>0, <4>2, SubSeqRecursiveFirst
      <4> QED
        BY <2>0, <3>1, <4>1, <4>3, SubSeqFull, TailIsSubSeq
    <3>3. UNCHANGED AbsOutbox
      BY <2>0, <3>1, <3>2 DEF AbsOutbox
    <3>4. UNCHANGED AbsJob
      <4>1. ASSUME NEW c \in Commands, c = Head(sendCh) PROVE task[c] = "queued"
        <5>1. Waiting(c)
          BY <2>0, <3>1, <4>1, TailWaiting
        <5> QED
          BY <5>1 DEF ResponseAccounting
      <4> QED
        BY <3>1, <4>1 DEF AbsJob
    <3> QED
      BY <3>3, <3>4 DEF Abstract!vars
  <2>8. ASSUME NEW fate \in {"written", "lost"}, Settle(fate), runPc = "writing"
        PROVE  Abstract!Next
    <3>1. /\ hand' = NoMsg /\ UNCHANGED sendCh /\ hand \in Msgs
          /\ task' = [c \in Commands |-> IF c = hand THEN fate ELSE task[c]]
      BY <2>0, <2>8 DEF Settle, HandInv
    <3>2. AbsOutbox # <<>> /\ Head(AbsOutbox) = hand /\ AbsOutbox' = Tail(AbsOutbox)
      BY <2>0, <3>1, HandFirst DEF AbsOutbox
    <3>3. AbsJob' = IF hand = Beat THEN AbsJob ELSE [AbsJob EXCEPT ![hand] = fate]
      BY <2>0, <2>8, <3>1, ConnectionAssumption DEF AbsJob, Msgs
    <3>4. Abstract!Leave(fate)
      BY <3>2, <3>3 DEF Abstract!Leave
    <3> QED
      BY <2>8, <3>4 DEF Abstract!Next
  <2>9. CASE WriteOk \/ WriteFail
    BY <2>8, <2>9 DEF WriteOk, WriteFail
  <2>10. CASE CheckDone \/ DialFail \/ Sleep \/ DialOk \/ Install \/ Announce \/ Disconnected
    BY <2>1, <2>10 DEF CheckDone, DialFail, Sleep, DialOk, Install, Announce,
                       Disconnected, sendVars
  <2>11. CASE PingFail \/ ReadDone \/ DoneBranch
    BY <2>1, <2>11 DEF PingFail, ReadDone, DoneBranch, sendVars
  <2>12. CASE \E k \in Conns : StartRead(k) \/ ReadInvalid(k) \/ ReadError(k) \/ Break(k)
    BY <2>1, <2>12 DEF StartRead, ReadInvalid, ReadError, Break, sendVars
  <2>13. CASE BeatCheck \/ CloseDone \/ CloseConn
    BY <2>1, <2>13 DEF BeatCheck, CloseDone, CloseConn, sendVars
  <2>14. CASE UNCHANGED vars
    BY <2>1, <2>14 DEF vars
  <2> QED
    BY <2>4, <2>5, <2>6, <2>7, <2>9, <2>10, <2>11, <2>12, <2>13, <2>14, NextCases
<1> QED
  BY <1>1, <1>2, TypeCorrect, AnswersInvariant, PTL DEF Spec, DeliveryKept, Abstract!Spec
=============================================================================
