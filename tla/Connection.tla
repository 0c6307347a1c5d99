----------------------------- MODULE Connection -----------------------------
(***************************************************************************)
(* The agent's WebSocket client: Client.Run with its reconnect loop, the   *)
(* write loop and the reader goroutine of runLoops, the goroutines of      *)
(* handleMessage, Send, Close and the heartbeat goroutine of main.         *)
(*                                                                         *)
(* Connections are numbered in the order in which the dial succeeds.  The  *)
(* reader goroutine that runLoops starts on connection k is reader k; it   *)
(* evaluates c.conn anew before every ReadMessage, so the connection it    *)
(* reads is a variable of its own.  The platform and the network are the   *)
(* environment: they deliver commands and break connections.               *)
(***************************************************************************)
EXTENDS Naturals, Sequences

CONSTANTS
    Commands,    \* the commands the platform may send
    Beat,        \* a heartbeat message
    NoMsg,       \* the write loop holds no message
    MaxConns,    \* bound: how many dials succeed
    SendCap,     \* capacity of sendCh (64 in NewClient)
    MaxBackoff   \* the longest pause between two dials, in seconds (60 in Run)

ASSUME ConnectionAssumption ==
    /\ Beat \notin Commands /\ NoMsg \notin Commands /\ Beat # NoMsg
    /\ MaxConns \in Nat
    /\ SendCap \in Nat \ {0}
    /\ MaxBackoff \in Nat \ {0}

VARIABLES
    runPc,       \* where Run is
    backoff,     \* seconds Run sleeps after the next failed dial
    made,        \* connections dialed so far; the newest is number made
    conn,        \* c.conn, 0 for nil
    link,        \* link[k]: the state of connection k
    connected,   \* the flag behind IsConnected
    done,        \* the channel done is closed
    closePc,     \* where Close is
    reader,      \* reader[k]: where the reader goroutine of connection k is
    readsFrom,   \* readsFrom[k]: the connection in reader k's ReadMessage call
    task,        \* task[c]: the goroutine of command c, then the fate of its answer
    sendCh,      \* the buffered channel of outgoing messages
    hand,        \* the message the write loop took out of sendCh and is writing
    hbPc,        \* where the heartbeat goroutine is
    outageBeats  \* history: heartbeats accepted since connected last went FALSE

runVars  == <<runPc, backoff, made, conn, connected>>
netVars  == <<link, done, closePc, reader, readsFrom>>
sendVars == <<sendCh, hand, task>>
beatVars == <<hbPc, outageBeats>>
vars == <<runPc, backoff, made, conn, link, connected, done, closePc, reader,
          readsFrom, task, sendCh, hand, hbPc, outageBeats>>

Conns  == 1..MaxConns
Msgs   == Commands \cup {Beat}
\* Send puts a message into the channel when this holds and refuses it otherwise.
HasRoom == Len(sendCh) < SendCap

Smaller(a, b) == IF a < b THEN a ELSE b

Init ==
    /\ runPc = "check" /\ backoff = 1 /\ made = 0 /\ conn = 0
    /\ link = [k \in Conns |-> "none"]
    /\ connected = FALSE /\ done = FALSE /\ closePc = "idle"
    /\ reader = [k \in Conns |-> "none"]
    /\ readsFrom = [k \in Conns |-> 0]
    /\ task = [c \in Commands |-> "idle"]
    /\ sendCh = <<>> /\ hand = NoMsg
    /\ hbPc = "tick" /\ outageBeats = 0

-----------------------------------------------------------------------------
(* Run and connect                                                         *)

\* The select at the top of Run's loop.
CheckDone ==
    /\ runPc = "check"
    /\ runPc' = IF done THEN "returned" ELSE "dial"
    /\ UNCHANGED <<backoff, made, conn, connected, netVars, sendVars, beatVars>>

\* Dial fails (refused, or the handshake takes more than 10 s).
DialFail ==
    /\ runPc = "dial"
    /\ runPc' = "sleep"
    /\ UNCHANGED <<backoff, made, conn, connected, netVars, sendVars, beatVars>>

\* (mutant of Sleep) the doubled pause is not capped
SleepUncapped ==
    /\ runPc = "sleep"
    /\ backoff' = 2 * backoff
    /\ runPc' = "check"
    /\ UNCHANGED <<made, conn, connected, netVars, sendVars, beatVars>>

\* The pause after a failed dial, and the doubling that follows it.
Sleep ==
    /\ runPc = "sleep"
    /\ backoff' = Smaller(2 * backoff, MaxBackoff)
    /\ runPc' = "check"
    /\ UNCHANGED <<made, conn, connected, netVars, sendVars, beatVars>>

\* Dial succeeds; c.conn is still the previous connection.
DialOk ==
    /\ runPc = "dial" /\ made < MaxConns
    /\ made' = made + 1
    /\ link' = [link EXCEPT ![made + 1] = "open"]
    /\ runPc' = "dialed"
    /\ UNCHANGED <<backoff, conn, connected, done, closePc, reader, readsFrom,
                   sendVars, beatVars>>

\* connect stores the new connection under mu.
Install ==
    /\ runPc = "dialed"
    /\ conn' = made
    /\ runPc' = "installed"
    /\ UNCHANGED <<backoff, made, connected, netVars, sendVars, beatVars>>

\* connected becomes TRUE under mu and runLoops starts the reader goroutine.
Announce ==
    /\ runPc = "installed"
    /\ backoff' = 1
    /\ connected' = TRUE
    /\ outageBeats' = 0
    /\ reader' = [reader EXCEPT ![made] = "top"]
    /\ runPc' = "loops"
    /\ UNCHANGED <<made, conn, link, done, closePc, readsFrom, sendVars, hbPc>>

\* After runLoops, connected becomes FALSE under mu.
Disconnected ==
    /\ runPc = "down"
    /\ connected' = FALSE
    /\ runPc' = "check"
    /\ UNCHANGED <<backoff, made, conn, netVars, sendVars, beatVars>>

-----------------------------------------------------------------------------
(* The write loop.  select takes any ready branch.                         *)

\* (mutant of Take) the newest message is written first
TakeNewest ==
    /\ runPc = "loops" /\ sendCh # <<>>
    /\ hand' = sendCh[Len(sendCh)]
    /\ sendCh' = SubSeq(sendCh, 1, Len(sendCh) - 1)
    /\ task' = [c \in Commands |-> IF c = hand' THEN "writing" ELSE task[c]]
    /\ runPc' = "writing"
    /\ UNCHANGED <<backoff, made, conn, connected, netVars, beatVars>>

Take ==
    /\ runPc = "loops" /\ sendCh # <<>>
    /\ hand' = Head(sendCh)
    /\ sendCh' = Tail(sendCh)
    /\ task' = [c \in Commands |-> IF c = Head(sendCh) THEN "writing" ELSE task[c]]
    /\ runPc' = "writing"
    /\ UNCHANGED <<backoff, made, conn, connected, netVars, beatVars>>

Settle(fate) ==
    /\ hand' = NoMsg
    /\ task' = [c \in Commands |-> IF c = hand THEN fate ELSE task[c]]
    /\ UNCHANGED sendCh

\* WriteMessage returns nil: the bytes are in the socket's buffer, whether or
\* not the peer is still there.
WriteOk ==
    /\ runPc = "writing" /\ link[conn] # "closed"
    /\ Settle("written")
    /\ runPc' = "loops"
    /\ UNCHANGED <<backoff, made, conn, connected, netVars, beatVars>>

\* (mutant of WriteFail) the message goes back to the channel, yet counts as lost
WriteFailRequeues ==
    /\ runPc = "writing" /\ HasRoom
    /\ hand' = NoMsg
    /\ sendCh' = Append(sendCh, hand)
    /\ task' = [c \in Commands |-> IF c = hand THEN "lost" ELSE task[c]]
    /\ runPc' = "down"
    /\ UNCHANGED <<backoff, made, conn, connected, netVars, beatVars>>

\* WriteMessage returns an error: the connection is dead, or the 10 s deadline
\* passed on a live one.  runLoops returns without closing the connection.
WriteFail ==
    /\ runPc = "writing"
    /\ Settle("lost")
    /\ runPc' = "down"
    /\ UNCHANGED <<backoff, made, conn, connected, netVars, beatVars>>

\* The ping of the 30 s ticker fails in the same way.
PingFail ==
    /\ runPc = "loops"
    /\ runPc' = "down"
    /\ UNCHANGED <<backoff, made, conn, connected, netVars, sendVars, beatVars>>

\* readDone is closed: this connection's own reader goroutine has returned.
ReadDone ==
    /\ runPc = "loops" /\ reader[made] = "exited"
    /\ runPc' = "down"
    /\ UNCHANGED <<backoff, made, conn, connected, netVars, sendVars, beatVars>>

\* (mutant of DoneBranch) the select has no branch for done
NoDoneBranch == FALSE /\ UNCHANGED vars

\* done is closed: a Close frame is written and runLoops returns.
DoneBranch ==
    /\ runPc = "loops" /\ done
    /\ runPc' = "down"
    /\ UNCHANGED <<backoff, made, conn, connected, netVars, sendVars, beatVars>>

-----------------------------------------------------------------------------
(* Reader goroutines                                                       *)

\* c.conn is evaluated, without mu, and ReadMessage blocks on the result.
StartRead(k) ==
    /\ reader[k] = "top"
    /\ reader' = [reader EXCEPT ![k] = "reading"]
    /\ readsFrom' = [readsFrom EXCEPT ![k] = conn]
    /\ UNCHANGED <<runVars, link, done, closePc, sendVars, beatVars>>

\* A command arrives and its handleMessage goroutine starts.
ReadCommand(k, c) ==
    /\ reader[k] = "reading" /\ link[readsFrom[k]] = "open"
    /\ task[c] = "idle"
    /\ task' = [task EXCEPT ![c] = "running"]
    /\ reader' = [reader EXCEPT ![k] = "top"]
    /\ UNCHANGED <<runVars, link, done, closePc, readsFrom, sendCh, hand, beatVars>>

\* (mutant of ReadInvalid) the reader returns instead of reading on
ReadInvalidReturns(k) ==
    /\ reader[k] = "reading" /\ link[readsFrom[k]] = "open"
    /\ reader' = [reader EXCEPT ![k] = "exited"]
    /\ UNCHANGED <<runVars, link, done, closePc, readsFrom, sendVars, beatVars>>

\* A message that is not JSON is logged and skipped.
ReadInvalid(k) ==
    /\ reader[k] = "reading" /\ link[readsFrom[k]] = "open"
    /\ reader' = [reader EXCEPT ![k] = "top"]
    /\ UNCHANGED <<runVars, link, done, closePc, readsFrom, sendVars, beatVars>>

\* (mutant of ReadError) the goroutine returns without closing readDone
ReadErrorSilent(k) ==
    /\ reader[k] = "reading" /\ link[readsFrom[k]] # "open"
    /\ reader' = [reader EXCEPT ![k] = "none"]
    /\ UNCHANGED <<runVars, link, done, closePc, readsFrom, sendVars, beatVars>>

\* ReadMessage fails; returning closes this goroutine's readDone.
ReadError(k) ==
    /\ reader[k] = "reading" /\ link[readsFrom[k]] # "open"
    /\ reader' = [reader EXCEPT ![k] = "exited"]
    /\ UNCHANGED <<runVars, link, done, closePc, readsFrom, sendVars, beatVars>>

-----------------------------------------------------------------------------
(* handleMessage, Send, heartbeats, Close, and the network                 *)

\* (mutant of Respond) a full channel makes room by dropping its oldest message
RespondDropsOldest(c) ==
    /\ task[c] = "running"
    /\ LET full == Len(sendCh) >= SendCap
       IN /\ sendCh' = Append(IF full THEN Tail(sendCh) ELSE sendCh, c)
          /\ task' = [d \in Commands |->
                 IF d = c THEN "queued"
                 ELSE IF full /\ d = Head(sendCh) THEN "dropped" ELSE task[d]]
    /\ UNCHANGED <<runVars, netVars, hand, beatVars>>

\* The handler of command c returns and its result or error goes to Send: into
\* the channel, or nowhere when the channel is full.
Respond(c) ==
    /\ task[c] = "running"
    /\ IF HasRoom
       THEN /\ sendCh' = Append(sendCh, c)
            /\ task' = [task EXCEPT ![c] = "queued"]
       ELSE /\ task' = [task EXCEPT ![c] = "dropped"]
            /\ UNCHANGED sendCh
    /\ UNCHANGED <<runVars, netVars, hand, beatVars>>

\* (mutant of BeatCheck) the tick does not ask IsConnected
BeatUnchecked ==
    /\ hbPc = "tick"
    /\ hbPc' = "collect"
    /\ UNCHANGED <<runVars, netVars, sendVars, outageBeats>>

\* A tick of the heartbeat goroutine: IsConnected is read under mu, and then the
\* metrics and the container list are collected.
BeatCheck ==
    /\ hbPc = "tick" /\ connected
    /\ hbPc' = "collect"
    /\ UNCHANGED <<runVars, netVars, sendVars, outageBeats>>

\* The heartbeat goes to Send, whatever became of the connection meanwhile.
BeatSend ==
    /\ hbPc = "collect"
    /\ hbPc' = "tick"
    /\ IF HasRoom
       THEN /\ sendCh' = Append(sendCh, Beat)
            /\ outageBeats' = IF connected THEN outageBeats ELSE outageBeats + 1
       ELSE UNCHANGED <<sendCh, outageBeats>>
    /\ UNCHANGED <<runVars, netVars, hand, task>>

\* Close, first half: close(done).
CloseDone ==
    /\ closePc = "idle"
    /\ done' = TRUE
    /\ closePc' = "closing"
    /\ UNCHANGED <<runVars, link, reader, readsFrom, sendVars, beatVars>>

\* Close, second half: the connection that is current now is closed, under mu.
CloseConn ==
    /\ closePc = "closing"
    /\ closePc' = "closed"
    /\ link' = IF conn = 0 THEN link ELSE [link EXCEPT ![conn] = "closed"]
    /\ UNCHANGED <<runVars, done, reader, readsFrom, sendVars, beatVars>>

\* The peer or the network ends connection k.  So may two reader goroutines that
\* meet on one connection, whose frame parser is not made for it.
Break(k) ==
    /\ link[k] = "open"
    /\ link' = [link EXCEPT ![k] = "broken"]
    /\ UNCHANGED <<runVars, done, closePc, reader, readsFrom, sendVars, beatVars>>

-----------------------------------------------------------------------------
\* Every step of Run's goroutine but a ping that happens to fail.
Advance == \/ CheckDone \/ DialFail \/ Sleep \/ DialOk \/ Install \/ Announce
           \/ Disconnected
           \/ Take \/ WriteOk \/ WriteFail \/ ReadDone \/ DoneBranch
Run == Advance \/ PingFail
Read(k) == \/ StartRead(k) \/ ReadInvalid(k) \/ ReadError(k)
           \/ \E c \in Commands : ReadCommand(k, c)
Beating == BeatCheck \/ BeatSend
Closing == CloseDone \/ CloseConn

Next == \/ Run
        \/ \E k \in Conns : Read(k) \/ Break(k)
        \/ \E c \in Commands : Respond(c)
        \/ Beating
        \/ Closing

Spec == Init /\ [][Next]_vars

(* Run's goroutine keeps running, a select whose branch stays ready takes   *)
(* it in the end (Go picks among ready branches at random), a read on a     *)
(* dead connection ends (keep-alive probes), and Close finishes once begun. *)
(* Nothing is assumed of the network, the platform, the handlers, or of a   *)
(* ping: a dead connection must be noticed without one.                     *)
Fairness == /\ WF_vars(Advance)
            /\ SF_vars(ReadDone) /\ SF_vars(DoneBranch)
            /\ \A k \in Conns : WF_vars(StartRead(k)) /\ WF_vars(ReadError(k))
            /\ WF_vars(CloseConn)

FairSpec == Spec /\ Fairness

-----------------------------------------------------------------------------
(* Properties                                                              *)

\* Every variable has its type: among others, the channel never holds more than
\* its capacity, the newest connection is the only one Run works with, and the
\* pause between dials stays within its maximum.
TypeOK ==
    /\ runPc \in {"check", "dial", "sleep", "dialed", "installed", "loops",
                  "writing", "down", "returned"}
    /\ backoff \in 1..MaxBackoff
    /\ made \in 0..MaxConns /\ conn \in 0..MaxConns
    /\ link \in [Conns -> {"none", "open", "broken", "closed"}]
    /\ connected \in BOOLEAN /\ done \in BOOLEAN
    /\ closePc \in {"idle", "closing", "closed"}
    /\ reader \in [Conns -> {"none", "top", "reading", "exited"}]
    /\ readsFrom \in [Conns -> 0..MaxConns]
    /\ task \in [Commands -> {"idle", "running", "queued", "writing", "written",
                             "lost", "dropped"}]
    /\ sendCh \in Seq(Msgs) /\ Len(sendCh) <= SendCap
    /\ hand \in Msgs \cup {NoMsg}
    /\ hbPc \in {"tick", "collect"}
    /\ outageBeats \in Nat

Waiting(c) == \E i \in 1..Len(sendCh) : sendCh[i] = c

\* Every answer is in exactly one place: it waits in sendCh once, or the write
\* loop holds it, or it was written, lost or dropped and is nowhere.  An answer
\* is never written twice, also not after a write that failed.
ResponseAccounting ==
    /\ \A c \in Commands : task[c] = "queued" <=> Waiting(c)
    /\ \A i, j \in 1..Len(sendCh) : sendCh[i] = sendCh[j] /\ sendCh[i] # Beat => i = j
    /\ \A c \in Commands : task[c] = "writing" <=> hand = c

\* The write loop leaves on readDone only when its own connection is dead: the
\* reader it waits for reads no other connection, and the stray readers of
\* earlier connections cannot signal it.
ReadDoneMeansDead ==
    runPc \in {"loops", "writing"} =>
        /\ conn = made /\ made \in Conns
        /\ reader[made] \in {"top", "reading", "exited"}
        /\ reader[made] = "reading" => readsFrom[made] = made
        /\ reader[made] = "exited" => link[made] # "open"

\* IsConnected is read once per heartbeat and long before Send: still at most
\* one heartbeat gets into the channel between a disconnect and the reconnect,
\* so an outage cannot fill the channel with stale heartbeats.
OneBeatPerOutage == outageBeats <= 1

\* What waits when the flag is down is kept, in order, until a connection is up
\* again: messages leave the channel only while connected.
BacklogKept ==
    [][~connected => /\ Len(sendCh) <= Len(sendCh')
                     /\ SubSeq(sendCh', 1, Len(sendCh)) = sendCh]_vars

\* The outbound path is what Delivery promises; the message the write loop holds
\* is still the oldest of those accepted.
AbsJob == [c \in Commands |-> IF task[c] = "writing" THEN "queued" ELSE task[c]]
AbsOutbox == IF hand = NoMsg THEN sendCh ELSE <<hand>> \o sendCh
Abstract == INSTANCE Delivery WITH Jobs <- Commands, Cap <- SendCap,
                                   job <- AbsJob, outbox <- AbsOutbox
DeliveryKept == Abstract!Spec

\* After Close, Run returns, from wherever it is: "Blocks until done is closed".
ShutdownReturns == done ~> runPc = "returned"

\* A dead connection does not keep the flag up: the reader notices it, the
\* write loop hears of it, and Run gets back to its dial loop.
DeadLinkNoticed == (connected /\ link[conn] # "open") ~> ~connected
=============================================================================
