------------------------------- MODULE Heartbeat -------------------------------
(***************************************************************************)
(* The heartbeat plugin (src/plugin/heartbeat) on one session: the client  *)
(* peer runs heartPing, the server peer heartPong.                         *)
(*                                                                         *)
(*  - the ping worker sleeps the ping rate, then, for a healthy session    *)
(*    whose last activity is not newer than one rate, starts goCall, which *)
(*    sends a /heartbeat CALL carrying the rate in the hb_ meta;           *)
(*  - the client's writes of CALL/PUSH and its reads of CALL/PUSH headers  *)
(*    refresh its own heartbeat info (heartPing.update);                   *)
(*  - on the server, a heartbeat sets the session's info (last, rate),     *)
(*    other CALL/PUSH reads and the server's own CALL/PUSH writes refresh  *)
(*    last (heartPong.update, PostWritePush);                              *)
(*  - the pong worker sleeps its interval, closes a healthy session whose  *)
(*    last activity is older than twice its rate, and shrinks the          *)
(*    interval to the rate.                                                *)
(*                                                                         *)
(* Time is discrete: now counts ticks of coarsetime's clock and rates are  *)
(* whole ticks.  A message reaches the other end at most MaxDelay ticks    *)
(* after it was written, in order; the client-to-server direction may      *)
(* stall for good (LinkDown), the case the pong worker exists for.  Time   *)
(* never advances past a due worker, a pending goCall goroutine or an      *)
(* overdue message, so those steps happen "at" their tick.                  *)
(*                                                                         *)
(* getHeartbeatInfo, initHeartbeatInfo and updateHeartbeatInfo are in a    *)
(* file of the package that is not in the tree.  They are modelled by what *)
(* their callers rely on: init stores (now, rate); update with a positive  *)
(* rate stores (now, rate) and reports whether the info was new; update    *)
(* with rate 0 refreshes last of existing info and leaves absent info      *)
(* absent.                                                                 *)
(***************************************************************************)
EXTENDS Naturals, Sequences

CONSTANTS
    RateArg,     \* the rateSecond given to NewPing/SetRate, in ticks
    MinRate,     \* minRateSecond, in ticks
    PongInitial, \* the pong worker's initial interval (minRateSecond*1s - 1ns)
    MaxDelay,    \* bound on the ticks a message is in flight
    MaxTime,     \* bound on now
    MaxApp,      \* bound on application CALL/PUSH writes of the client
    MaxPush,     \* bound on CALL/PUSH writes of the server
    CanStall     \* whether the client-to-server direction may stall

ASSUME /\ {RateArg, MinRate, PongInitial, MaxDelay, MaxTime, MaxApp, MaxPush} \subseteq Nat
       /\ MinRate > 0 /\ PongInitial > 0
       /\ CanStall \in BOOLEAN

VARIABLES
    now,
    cLast,       \* the client's heartbeat info: last (its rate is PingRate)
    cClosed,     \* the client's session is closed (its read loop saw EOF)
    pingNext,    \* when the ping worker's time.Sleep ends
    pingPending, \* a goCall goroutine has been started and not yet run
    sInfo,       \* the server's heartbeat info: [has, last, rate]
    closed,      \* the server closed the session (pong worker)
    pongNext,    \* when the pong worker's time.Sleep ends
    interval,    \* the pong worker's interval
    linkUp,      \* the client's writes reach the server
    c2s, s2c,    \* messages in flight, each [kind, meta, at]
    nApp, nPush

vars == <<now, cLast, cClosed, pingNext, pingPending, sInfo, closed, pongNext,
          interval, linkUp, c2s, s2c, nApp, nPush>>

\* The hb_ meta of a message: 0 when absent (parseHeartbeatRateSecond("") is
\* 0), otherwise the rate strconv.Itoa wrote and strconv.Atoi reads back.
Metas == 0..(RateArg + MinRate)

Msg == [kind : {"heartbeat", "app"}, meta : Metas, at : Nat]

NoInfo == [has |-> FALSE, last |-> 0, rate |-> 0]

TypeOK ==
    /\ now \in 0..MaxTime
    /\ cLast \in 0..MaxTime /\ cClosed \in BOOLEAN
    /\ pingNext \in Nat /\ pingPending \in BOOLEAN
    /\ sInfo \in [has : BOOLEAN, last : 0..MaxTime, rate : Nat]
    /\ closed \in BOOLEAN
    /\ pongNext \in Nat /\ interval \in Nat \ {0}
    /\ linkUp \in BOOLEAN
    /\ c2s \in Seq(Msg) /\ s2c \in Seq(Msg)
    /\ nApp \in 0..MaxApp /\ nPush \in 0..MaxPush

\* SetRate: a rate below minRateSecond is raised to it.
PingRate == IF RateArg < MinRate THEN MinRate ELSE RateArg

\* Mutant: absent info is created whatever the rate.
UpdateInfoCreateOnZero(info, rate) == [has |-> TRUE, last |-> now, rate |-> rate]

\* updateHeartbeatInfo(swap, rate) on the server's info.
UpdateInfo(info, rate) ==
    IF rate > 0 THEN [has |-> TRUE, last |-> now, rate |-> rate]
    ELSE IF info.has THEN [info EXCEPT !.last = now]
    ELSE info

\* Mutant: the method test of heartPong.update inverted.
PongUpdateHeartbeatOnly(info, kind) ==
    IF kind # "heartbeat" THEN info ELSE UpdateInfo(info, 0)

\* heartPong.update: a header of the heartbeat method is left to its handler;
\* any other refreshes last.
PongUpdate(info, kind) ==
    IF kind = "heartbeat" THEN info ELSE UpdateInfo(info, 0)

\* The ping worker skips a session unless cp.last.Add(cp.rate) is not after now.
PingDue(last, t) == ~(last + PingRate > t)

\* Mutant: the pong worker tolerates three rates of silence.
PongExpiredLate(info, t) == info.last + info.rate * 3 < t

\* The pong worker closes when cp.last.Add(cp.rate*2).Before(now).
PongExpired(info, t) == info.last + info.rate * 2 < t

\* if cp.rate < interval || interval == initial { interval = cp.rate }
NextInterval(info, iv) ==
    IF info.rate < iv \/ iv = PongInitial THEN info.rate ELSE iv

\* heartPing.update: a healthy session's info is refreshed to now.
PingUpdate == IF cClosed THEN cLast ELSE now

\* A written message enters the client-to-server pipe unless it has stalled.
SendC2S(m) == IF linkUp THEN Append(c2s, m) ELSE c2s

\* The client dialed at time 0: heartPing.PostDial -> PostAccept ->
\* initHeartbeatInfo(swap, rate).  Both workers were started at peer
\* creation, so their first wake-up has any phase.
Init ==
    /\ now = 0
    /\ cLast = 0 /\ cClosed = FALSE
    /\ pingNext \in 1..PingRate /\ pingPending = FALSE
    /\ sInfo = NoInfo /\ closed = FALSE
    /\ pongNext \in 1..PongInitial /\ interval = PongInitial
    /\ linkUp = TRUE
    /\ c2s = <<>> /\ s2c = <<>>
    /\ nApp = 0 /\ nPush = 0

\* The ping worker wakes up and ranges over the sessions (only this one).
PingWorker ==
    /\ now = pingNext
    /\ pingPending' = (~cClosed /\ PingDue(cLast, now))
    /\ pingNext' = now + PingRate
    /\ UNCHANGED <<now, cLast, cClosed, sInfo, closed, pongNext, interval,
                   linkUp, c2s, s2c, nApp, nPush>>

\* goCall's goroutine: sess.Call("/heartbeat", hb_=rate).  On a session
\* the client has closed the Call fails at once and sess.Close is a no-op;
\* otherwise writing the CALL runs PostWriteCall (update) and the Call then
\* waits for the REPLY, which changes no heartbeat state (heartPing has no
\* PostReadReplyHeader): the waiting goroutine is not modelled further.
PingCall ==
    /\ pingPending
    /\ pingPending' = FALSE
    /\ IF cClosed
         THEN UNCHANGED <<cLast, c2s>>
         ELSE /\ cLast' = PingUpdate
              /\ c2s' = SendC2S([kind |-> "heartbeat", meta |-> PingRate, at |-> now])
    /\ UNCHANGED <<cClosed, now, pingNext, sInfo, closed, pongNext, interval, linkUp,
                   s2c, nApp, nPush>>

\* The client application writes a CALL or PUSH: PostWriteCall/PostWritePush.
ClientWrite ==
    /\ ~cClosed /\ nApp < MaxApp
    /\ cLast' = PingUpdate
    /\ c2s' = SendC2S([kind |-> "app", meta |-> 0, at |-> now])
    /\ nApp' = nApp + 1
    /\ UNCHANGED <<now, cClosed, pingNext, pingPending, sInfo, closed, pongNext,
                   interval, linkUp, s2c, nPush>>

\* The client reads a CALL/PUSH header from the server: PostReadCallHeader /
\* PostReadPushHeader update its info while the session is healthy.
ClientRead ==
    /\ s2c # <<>>
    /\ s2c' = Tail(s2c)
    /\ cLast' = PingUpdate
    /\ UNCHANGED <<now, cClosed, pingNext, pingPending, sInfo, closed, pongNext,
                   interval, linkUp, c2s, nApp, nPush>>

\* The server reads the next message.  A heartbeat skips heartPong.update and
\* is handled by pongCall.heartbeat -> handelHeartbeat; any other CALL/PUSH
\* header refreshes the info.  A closed session reads nothing.
ServerRead ==
    /\ c2s # <<>>
    /\ c2s' = Tail(c2s)
    /\ LET m == Head(c2s)
           i == PongUpdate(sInfo, m.kind)
       IN sInfo' = IF closed THEN sInfo
                   ELSE IF m.kind = "heartbeat" THEN UpdateInfo(i, m.meta)
                   ELSE i
    /\ UNCHANGED <<now, cLast, cClosed, pingNext, pingPending, closed, pongNext,
                   interval, linkUp, s2c, nApp, nPush>>

\* The server writes a CALL or PUSH to the client: heartPong.PostWritePush.
ServerWrite ==
    /\ ~closed /\ nPush < MaxPush
    /\ sInfo' = UpdateInfo(sInfo, 0)
    /\ s2c' = Append(s2c, [kind |-> "app", meta |-> 0, at |-> now])
    /\ nPush' = nPush + 1
    /\ UNCHANGED <<now, cLast, cClosed, pingNext, pingPending, closed, pongNext,
                   interval, linkUp, c2s, nApp>>

\* The pong worker wakes up and ranges over the sessions in the hub; a session
\* without heartbeat info is skipped.
PongWorker ==
    /\ now = pongNext
    /\ LET visit == ~closed /\ sInfo.has
       IN /\ closed' = (closed \/ (visit /\ PongExpired(sInfo, now)))
          /\ interval' = IF visit THEN NextInterval(sInfo, interval) ELSE interval
    /\ pongNext' = now + interval'
    /\ UNCHANGED <<now, cLast, cClosed, pingNext, pingPending, sInfo, linkUp,
                   c2s, s2c, nApp, nPush>>

\* The client's read loop reads EOF from the connection the pong worker
\* closed and closes the client's session; a Call waiting for its REPLY
\* then fails.
ClientReadLoopClose ==
    /\ closed /\ ~cClosed
    /\ cClosed' = TRUE
    /\ UNCHANGED <<now, cLast, pingNext, pingPending, sInfo, closed, pongNext,
                   interval, linkUp, c2s, s2c, nApp, nPush>>

\* The client-to-server direction stalls: what is in flight and what the
\* client writes from now on never arrives.
LinkDown ==
    /\ CanStall /\ linkUp
    /\ linkUp' = FALSE
    /\ c2s' = <<>>
    /\ UNCHANGED <<now, cLast, cClosed, pingNext, pingPending, sInfo, closed,
                   pongNext, interval, s2c, nApp, nPush>>

\* A message must be read within MaxDelay ticks of being written.
Overdue(q) == \E i \in DOMAIN q : q[i].at + MaxDelay <= now

Tick ==
    /\ now < MaxTime
    /\ now < pingNext /\ now < pongNext /\ ~pingPending
    /\ ~Overdue(c2s) /\ ~Overdue(s2c)
    /\ now' = now + 1
    /\ UNCHANGED <<cLast, cClosed, pingNext, pingPending, sInfo, closed,
                   pongNext, interval, linkUp, c2s, s2c, nApp, nPush>>

\* The time bound is reached.
TimeUp ==
    /\ now = MaxTime
    /\ UNCHANGED vars

Next ==
    \/ PingWorker \/ PingCall \/ ClientWrite \/ ClientRead
    \/ ServerRead \/ ServerWrite \/ PongWorker \/ ClientReadLoopClose
    \/ LinkDown
    \/ Tick \/ TimeUp

Spec == Init /\ [][Next]_vars

-----------------------------------------------------------------------------
\* The pong worker closes a session only when the client's messages have stopped
\* arriving: a client that keeps pinging at its rate over a connection whose
\* delay varies by at most MaxDelay is never cut off.
HealthyNeverClosed == closed => ~linkUp

\* Once a session has heartbeat info and the client's messages have stopped
\* arriving, the pong worker closes it within three of its rates of
\* sInfo.last.  That is the server's last activity on the session, not the
\* last message that arrived: the server's own CALL/PUSH writes refresh it
\* too (PostWritePush, pong.go:111), so a server that keeps writing keeps a
\* dead session open.
DeadClosedInTime ==
    (~linkUp /\ sInfo.has /\ now > sInfo.last + 3 * sInfo.rate) => closed

=============================================================================
