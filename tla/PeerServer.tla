------------------------------ MODULE PeerServer ------------------------------
(***************************************************************************)
(* The server role of a yrpc peer (src/peer.go): the accept loop of        *)
(* serveListener with its backoff, the goroutine it starts per accepted    *)
(* connection (TLS handshake, PostAccept plugins, sessHub.set,             *)
(* changeStatus(ok), read loop), ServeConn as the websocket serverHandler  *)
(* calls it (src/mixer/websocket/server.go: ServeConn, then the            *)
(* PostWebsocketAccept plugins), and Peer.Close.                           *)
(*                                                                         *)
(* The session's read loop, readDisconnected and Close are not in the      *)
(* source tree; they are modelled from the specification (sections 3,     *)
(* 4.5) and marked so in the project's map.  A session is named after its  *)
(* connection: a server session's ID is the remote address, one per        *)
(* connection.  A message the client sends is abstracted to the fact that  *)
(* the read loop dispatched one (handled).                                *)
(***************************************************************************)
EXTENDS Integers, FiniteSets, Sequences

CONSTANTS
    LisConns,      \* connections the listener will accept
    WsConns,       \* connections the websocket handler passes to ServeConn
    MaxTempErrors, \* bound on temporary Accept errors
    CheckFunc,     \* HandshakeAuthPlugin.CheckFunc is set
    AcceptFunc,    \* HandshakeAuthPlugin.AcceptFunc is set
    MaxCtx,        \* bound on the handler contexts a session has out at once
    ContextAge     \* DefaultContextAge > 0: session.Close's wait is bounded

ASSUME LisConns \cap WsConns = {} /\ MaxTempErrors \in Nat
ASSUME CheckFunc \in BOOLEAN /\ AcceptFunc \in BOOLEAN
ASSUME MaxCtx \in Nat /\ ContextAge \in BOOLEAN

Conns == LisConns \cup WsConns

Status == {"none", "preparing", "ok", "passiveClosed", "activeClosed"}
Live == {"preparing", "ok"}

\* tempDelay in milliseconds: 5ms doubling, at most 1s
MaxDelay == 1000

VARIABLES
    lisPc,      \* serveListener: "accept" (in the loop) or "returned"
    tempDelay,  \* serveListener's tempDelay
    streak,     \* temporary errors since the last accepted connection
    nerr,       \* temporary errors so far
    closeCh,    \* p.closeCh has been closed (and the listener with it)
    pc,         \* per connection: where its serving goroutine is
    status,     \* session status
    reader,     \* the session's read loop is running
    hub,        \* peer.sessHub (session IDs = connections)
    lost,       \* connections that are broken or closed
    handled,    \* sessions whose read loop dispatched a message
    wsPassed,   \* sessions the PostWebsocketAccept plugins accepted
    wsRejected, \* sessions the PostWebsocketAccept plugins rejected
    closePc,    \* Peer.Close: "open", "closing" (closers running), "returned"
    toClose,    \* sessions Peer.Close still has to close
    hdr,        \* per websocket connection: the Erpc-Session-Id header values
    sid,        \* per websocket connection: the session ID
    httpOpen,   \* the websocket Server's http.Server still serves requests
    ctxs,       \* per session: handler contexts taken from ctxPool, not put back
    wg,         \* per session: the graceCtxWaitGroup counter
    hardClosed  \* sessions whose Close gave up waiting (DefaultContextAge)

vars == <<lisPc, tempDelay, streak, nerr, closeCh, pc, status, reader, hub,
          lost, handled, wsPassed, wsRejected, closePc, toClose, hdr, sid, httpOpen,
          ctxs, wg, hardClosed>>
wsVars == <<hdr, sid, httpOpen>>
ctxVars == <<ctxs, wg, hardClosed>>

(* Header values: the client's own Erpc-Session-Id, the ID CheckFunc     *)
(* returned.  A session ID is "remote" (the address ServeConn gives), a  *)
(* header value, or "" when the header is empty.                         *)
HdrVals == {"client", "checked"}
SessionIDs == {"remote", ""} \cup HdrVals

Pcs == {"wait", "wsServe", "tls", "postAccept", "register", "start", "running",
        "wsRegister", "wsPostAccept", "wsWait", "end"}

TypeOK ==
    /\ lisPc \in {"accept", "returned"}
    /\ tempDelay \in 0..MaxDelay
    /\ streak \in 0..MaxTempErrors /\ nerr \in 0..MaxTempErrors
    /\ closeCh \in BOOLEAN
    /\ pc \in [Conns -> Pcs]
    /\ status \in [Conns -> Status]
    /\ reader \in [Conns -> BOOLEAN]
    /\ hub \subseteq Conns /\ lost \subseteq Conns /\ handled \subseteq Conns
    /\ wsPassed \subseteq WsConns /\ wsRejected \subseteq WsConns
    /\ closePc \in {"open", "closing", "returned"}
    /\ toClose \subseteq Conns
    /\ hdr \in [WsConns -> Seq(HdrVals)]
    /\ sid \in [WsConns -> SessionIDs]
    /\ httpOpen \in BOOLEAN
    /\ ctxs \in [Conns -> 0..MaxCtx] /\ wg \in [Conns -> Int]
    /\ hardClosed \subseteq Conns

Init ==
    /\ lisPc = "accept" /\ tempDelay = 0 /\ streak = 0 /\ nerr = 0
    /\ closeCh = FALSE
    /\ pc = [c \in Conns |-> "wait"]
    /\ status = [c \in Conns |-> "none"]
    /\ reader = [c \in Conns |-> FALSE]
    /\ hub = {} /\ lost = {} /\ handled = {}
    /\ wsPassed = {} /\ wsRejected = {}
    /\ closePc = "open" /\ toClose = {}
    \* the request a client sends may carry its own Erpc-Session-Id
    /\ hdr \in [WsConns -> {<<>>, <<"client">>}]
    /\ sid = [c \in WsConns |-> "remote"]
    /\ httpOpen = TRUE
    /\ ctxs = [c \in Conns |-> 0] /\ wg = [c \in Conns |-> 0]
    /\ hardClosed = {}

\* faults: the delay grows without the 1s cap; tempDelay is not reset
BackoffNoCap(d) == IF d = 0 THEN 5 ELSE 2 * d
ResetDelayMissing(d) == d

\* the next tempDelay after a temporary Accept error
Backoff(d) == IF d = 0 THEN 5 ELSE IF 2 * d > MaxDelay THEN MaxDelay ELSE 2 * d

\* tempDelay = 0 after a successful Accept
ResetDelay(d) == 0

\* faults: sessHub.delete leaves the entry; the read loop is not started
HubRemoveNone(h, c) == h
StartReaderMissing(c) == reader' = reader

HubRemove(h, c) == h \ {c}
StartReader(c) == reader' = [reader EXCEPT ![c] = TRUE]

SetPc(c, p) == pc' = [pc EXCEPT ![c] = p]
SetStatus(c, s) == status' = [status EXCEPT ![c] = s]

\* fault: Close waits for the wait group without a time limit
CloseWaitNoAge(c, hard) == ~hard /\ wg[c] = 0

(* session.Close's graceful wait (spec 4.5 "Graceful shutdown"): it ends   *)
(* when graceCtxWaitGroup is empty, or, while handler contexts are still  *)
(* out, when DefaultContextAge (if > 0) runs out and Close hard-closes.   *)
CloseWaitOver(c, hard) == IF hard THEN ContextAge /\ wg[c] > 0 ELSE wg[c] = 0

\* session.Close (spec 3, 4.5): a live session waits for its handler
\* contexts, becomes activeClosed, leaves the hub and its connection is
\* closed; on a closed session it does nothing.
CloseEffects(c) ==
    IF status[c] \in Live
    THEN \E hard \in BOOLEAN :
         /\ CloseWaitOver(c, hard)
         /\ SetStatus(c, "activeClosed")
         /\ hub' = HubRemove(hub, c)
         /\ lost' = lost \cup {c}
         /\ hardClosed' = IF hard THEN hardClosed \cup {c} ELSE hardClosed
    ELSE UNCHANGED <<status, hub, lost, hardClosed>>

-----------------------------------------------------------------------------
(* serveListener's loop                                                    *)

\* lis.Accept() returns a connection: tempDelay = 0 and a goroutine serves it.
Accept(c) ==
    /\ lisPc = "accept" /\ ~closeCh
    /\ c \in LisConns /\ pc[c] = "wait"
    /\ tempDelay' = ResetDelay(tempDelay)
    /\ streak' = 0
    /\ SetPc(c, "tls")
    /\ UNCHANGED <<lisPc, nerr, closeCh, status, reader, hub, lost, handled,
                   wsPassed, wsRejected, closePc, toClose>>
    /\ UNCHANGED wsVars
    /\ UNCHANGED ctxVars

\* A temporary Accept error: back off (sleep tempDelay) and accept again.
AcceptTempError ==
    /\ lisPc = "accept" /\ ~closeCh /\ nerr < MaxTempErrors
    /\ tempDelay' = Backoff(tempDelay)
    /\ streak' = streak + 1
    /\ nerr' = nerr + 1
    /\ UNCHANGED <<lisPc, closeCh, pc, status, reader, hub, lost, handled,
                   wsPassed, wsRejected, closePc, toClose>>
    /\ UNCHANGED wsVars
    /\ UNCHANGED ctxVars

\* Accept fails after closeCh was closed (ErrListenClosed), or with a
\* permanent error: serveListener returns.
AcceptReturn ==
    /\ lisPc = "accept"
    /\ lisPc' = "returned"
    /\ UNCHANGED <<tempDelay, streak, nerr, closeCh, pc, status, reader, hub,
                   lost, handled, wsPassed, wsRejected, closePc, toClose>>
    /\ UNCHANGED wsVars
    /\ UNCHANGED ctxVars

-----------------------------------------------------------------------------
(* the goroutine serving one accepted connection                           *)

\* TLS handshake: on failure the goroutine returns (the connection is left
\* as it is); on success newSession creates the session.
TLSHandshake(c) ==
    /\ pc[c] = "tls"
    /\ \/ SetPc(c, "end") /\ UNCHANGED status
       \/ SetPc(c, "postAccept") /\ SetStatus(c, "preparing")
    /\ UNCHANGED <<lisPc, tempDelay, streak, nerr, closeCh, reader, hub, lost,
                   handled, wsPassed, wsRejected, closePc, toClose>>
    /\ UNCHANGED wsVars
    /\ UNCHANGED ctxVars

\* pluginContainer.postAccept(sess): on failure sess.Close() and return.
PostAccept(c) ==
    /\ pc[c] = "postAccept"
    /\ \/ SetPc(c, "register") /\ UNCHANGED <<status, hub, lost, hardClosed>>
       \/ SetPc(c, "end") /\ CloseEffects(c)
    /\ UNCHANGED <<lisPc, tempDelay, streak, nerr, closeCh, reader, handled,
                   wsPassed, wsRejected, closePc, toClose>>
    /\ UNCHANGED wsVars
    /\ UNCHANGED <<ctxs, wg>>

\* p.sessHub.set(sess)
Register(c) ==
    /\ pc[c] = "register"
    /\ hub' = hub \cup {c}
    /\ SetPc(c, "start")
    /\ UNCHANGED <<lisPc, tempDelay, streak, nerr, closeCh, status, reader,
                   lost, handled, wsPassed, wsRejected, closePc, toClose>>
    /\ UNCHANGED wsVars
    /\ UNCHANGED ctxVars

\* sess.changeStatus(statusOk); sess.startReadAndHandle()
Start(c) ==
    /\ pc[c] = "start"
    /\ SetStatus(c, "ok")
    /\ StartReader(c)
    /\ SetPc(c, "running")
    /\ UNCHANGED <<lisPc, tempDelay, streak, nerr, closeCh, hub, lost, handled,
                   wsPassed, wsRejected, closePc, toClose>>
    /\ UNCHANGED wsVars
    /\ UNCHANGED ctxVars

-----------------------------------------------------------------------------
(* ServeConn, called by the websocket serverHandler.handler                 *)

\* newSession; postAccept plugins (on failure sess.Close and return);
\* changeStatus(statusOk); AnywayGo(sess.startReadAndHandle).
\* fault: PreHandshake adds its value with Header.Add
HeaderSetAdd(h, v) == Append(h, v)

\* http.Header.Set replaces every value of the key; Get returns the first
HeaderSet(h, v) == <<v>>
HeaderGet(h) == IF h = <<>> THEN "" ELSE Head(h)

(* HandshakeAuthPlugin.PreHandshake: with CheckFunc set, the ID it       *)
(* returns is Set into the request header, whatever its status; the      *)
(* header after the plugin ran.                                          *)
AuthPreHandshakeHdr(h) == IF CheckFunc THEN HeaderSet(h, "checked") ELSE h

(* serverHandler.preHandshake: the PreWebsocketHandshake plugins in       *)
(* order, stopping at the first failed status; HandshakeAuthPlugin is the *)
(* one installed, and ok is the status its CheckFunc returns.            *)
PreHandshakeOK(ok) == ~CheckFunc \/ ok

(* The Server.Handshake closure NewServeHandler installs: preHandshake,   *)
(* and on failure the websocket library rejects the request (no session, *)
(* serverHandler.handler never runs).  No user handshake function.      *)
WsHandshake(c) ==
    /\ c \in WsConns /\ pc[c] = "wait" /\ httpOpen
    /\ \E ok \in BOOLEAN :
          /\ hdr' = [hdr EXCEPT ![c] = AuthPreHandshakeHdr(@)]
          /\ SetPc(c, IF PreHandshakeOK(ok) THEN "wsServe" ELSE "end")
    /\ UNCHANGED <<lisPc, tempDelay, streak, nerr, closeCh, status, reader,
                   hub, lost, handled, wsPassed, wsRejected, closePc, toClose,
                   sid, httpOpen>>
    /\ UNCHANGED ctxVars

WsServeConn(c) ==
    /\ c \in WsConns /\ pc[c] = "wsServe"
    /\ \/ /\ SetStatus(c, "ok")
          /\ StartReader(c)
          /\ SetPc(c, "wsRegister")
          /\ UNCHANGED lost
       \/ /\ SetStatus(c, "activeClosed")
          /\ lost' = lost \cup {c}
          /\ SetPc(c, "end")
          /\ UNCHANGED reader
    /\ UNCHANGED <<lisPc, tempDelay, streak, nerr, closeCh, hub, handled,
                   wsPassed, wsRejected, closePc, toClose>>
    /\ UNCHANGED wsVars
    /\ UNCHANGED ctxVars

\* ServeConn's last step, p.sessHub.set(sess), and its return
WsRegister(c) ==
    /\ pc[c] = "wsRegister"
    /\ hub' = hub \cup {c}
    /\ SetPc(c, "wsPostAccept")
    /\ UNCHANGED <<lisPc, tempDelay, streak, nerr, closeCh, status, reader,
                   lost, handled, wsPassed, wsRejected, closePc, toClose>>
    /\ UNCHANGED wsVars
    /\ UNCHANGED ctxVars

\* serverHandler.postAccept: the PostWebsocketAccept plugins (e.g. the
\* handshake auth's AcceptFunc); on failure the handler closes the session.
(* HandshakeAuthPlugin.PostAccept: with AcceptFunc set, the session     *)
(* takes the request header's Erpc-Session-Id as its ID (SetID) before   *)
(* AcceptFunc runs; the ID after the plugin ran.                         *)
AuthPostAcceptID(c) == IF AcceptFunc THEN HeaderGet(hdr[c]) ELSE sid[c]

\* serverHandler.postAccept: the plugin loop; ok is AcceptFunc's status
PostAcceptOK(ok) == ~AcceptFunc \/ ok

WsPostAccept(c) ==
    /\ pc[c] = "wsPostAccept"
    /\ sid' = [sid EXCEPT ![c] = AuthPostAcceptID(c)]
    /\ \E ok \in BOOLEAN :
       \/ /\ PostAcceptOK(ok)
          /\ wsPassed' = wsPassed \cup {c}
          /\ SetPc(c, "wsWait")
          /\ UNCHANGED <<status, hub, lost, wsRejected, hardClosed>>
       \/ /\ ~PostAcceptOK(ok)
          /\ wsRejected' = wsRejected \cup {c}
          /\ CloseEffects(c)
          /\ SetPc(c, "end")
          /\ UNCHANGED wsPassed
    /\ UNCHANGED <<lisPc, tempDelay, streak, nerr, closeCh, reader, handled,
                   closePc, toClose, hdr, httpOpen>>
    /\ UNCHANGED <<ctxs, wg>>

-----------------------------------------------------------------------------
(* the session's read loop (spec 4.5)                                       *)

\* fault: getContext does not count the context in graceCtxWaitGroup
GetContextNoWg(c) == /\ ctxs' = [ctxs EXCEPT ![c] = @ + 1] /\ UNCHANGED wg

\* getContext(s, withWg = true): graceCtxWaitGroup.Add(1), a context from
\* ctxPool, reInit(s)
GetContext(c) ==
    /\ ctxs' = [ctxs EXCEPT ![c] = @ + 1]
    /\ wg' = [wg EXCEPT ![c] = @ + 1]

\* fault: putContext returns the context without graceCtxWaitGroup.Done()
PutContextNoDone(c) == /\ ctxs' = [ctxs EXCEPT ![c] = @ - 1] /\ UNCHANGED wg

\* putContext(ctx, withWg = true): graceCtxWaitGroup.Done(), back to ctxPool
PutContext(c) ==
    /\ ctxs' = [ctxs EXCEPT ![c] = @ - 1]
    /\ wg' = [wg EXCEPT ![c] = @ - 1]

\* a message is read and dispatched: its handler task takes a context
Handle(c) ==
    /\ reader[c] /\ status[c] = "ok" /\ c \notin lost
    /\ ctxs[c] < MaxCtx
    /\ handled' = handled \cup {c}
    /\ GetContext(c)
    /\ UNCHANGED <<lisPc, tempDelay, streak, nerr, closeCh, pc, status, reader,
                   hub, lost, wsPassed, wsRejected, closePc, toClose, hardClosed>>
    /\ UNCHANGED wsVars

\* the handler returns (its REPLY written or failed) and puts the context
\* back; it may run on after its session closed
HandlerReturn(c) ==
    /\ ctxs[c] > 0
    /\ PutContext(c)
    /\ UNCHANGED <<lisPc, tempDelay, streak, nerr, closeCh, pc, status, reader,
                   hub, lost, handled, wsPassed, wsRejected, closePc, toClose,
                   hardClosed>>
    /\ UNCHANGED wsVars

\* the read fails on a broken or closed connection: readDisconnected returns
\* at once on an actively closed session, otherwise it removes the session
\* from the hub and marks it passiveClosed (server sessions do not redial).
ReadDisconnected(c) ==
    /\ reader[c] /\ c \in lost
    /\ reader' = [reader EXCEPT ![c] = FALSE]
    /\ IF status[c] = "activeClosed"
       THEN UNCHANGED <<status, hub>>
       ELSE /\ SetStatus(c, "passiveClosed")
            /\ hub' = HubRemove(hub, c)
    /\ UNCHANGED <<lisPc, tempDelay, streak, nerr, closeCh, pc, lost, handled,
                   wsPassed, wsRejected, closePc, toClose>>
    /\ UNCHANGED wsVars
    /\ UNCHANGED ctxVars

\* the client goes away or the network breaks the connection
LoseConn(c) ==
    /\ c \notin lost
    /\ lost' = lost \cup {c}
    /\ UNCHANGED <<lisPc, tempDelay, streak, nerr, closeCh, pc, status, reader,
                   hub, handled, wsPassed, wsRejected, closePc, toClose>>
    /\ UNCHANGED wsVars
    /\ UNCHANGED ctxVars

-----------------------------------------------------------------------------
(* Peer.Close                                                               *)

\* close(p.closeCh); the listeners are closed; sessHub.rangeCallback starts
\* one closer per session found in the hub.
PeerCloseSteps ==
    /\ closePc = "open"
    /\ closeCh' = TRUE
    /\ toClose' = hub
    /\ closePc' = "closing"
    /\ UNCHANGED <<lisPc, tempDelay, streak, nerr, pc, status, reader, hub,
                   lost, handled, wsPassed, wsRejected, hdr, sid>>
    /\ UNCHANGED ctxVars

PeerClose == PeerCloseSteps /\ UNCHANGED httpOpen

(* The websocket Server.Close: http.Server.Shutdown stops serving new      *)
(* requests (its error only decides which return value is kept), then     *)
(* Peer.Close.  Shutdown neither closes nor waits for the hijacked         *)
(* websocket connections whose handlers are running.                     *)
WsServerClose ==
    /\ WsConns # {}
    /\ httpOpen
    /\ httpOpen' = FALSE
    /\ PeerCloseSteps

\* one closer: errCh <- sess.Close()
PeerCloseSession(c) ==
    /\ c \in toClose
    /\ CloseEffects(c)
    /\ toClose' = toClose \ {c}
    /\ UNCHANGED <<lisPc, tempDelay, streak, nerr, closeCh, pc, reader,
                   handled, wsPassed, wsRejected, closePc>>
    /\ UNCHANGED wsVars
    /\ UNCHANGED <<ctxs, wg>>

\* all closers have answered: Peer.Close returns
PeerCloseReturn ==
    /\ closePc = "closing" /\ toClose = {}
    /\ closePc' = "returned"
    /\ UNCHANGED <<lisPc, tempDelay, streak, nerr, closeCh, pc, status, reader,
                   hub, lost, handled, wsPassed, wsRejected, toClose>>
    /\ UNCHANGED wsVars
    /\ UNCHANGED ctxVars

Next ==
    \/ AcceptTempError \/ AcceptReturn
    \/ PeerClose \/ PeerCloseReturn \/ WsServerClose
    \/ \E c \in Conns :
          \/ Accept(c) \/ TLSHandshake(c) \/ PostAccept(c) \/ Register(c)
          \/ Start(c) \/ WsHandshake(c) \/ WsServeConn(c) \/ WsRegister(c) \/ WsPostAccept(c)
          \/ Handle(c) \/ HandlerReturn(c) \/ ReadDisconnected(c) \/ LoseConn(c)
          \/ PeerCloseSession(c)

\* Goroutine steps that wait for nobody are weakly fair: the serving
\* goroutines, the read loops noticing a broken connection, Peer.Close's
\* closers.  Clients connecting, connections breaking, messages arriving and
\* the application calling Peer.Close may never happen, and a handler may
\* never return.  A closer's wait ends at the latest when DefaultContextAge
\* runs out, so with ContextAge its step stays enabled.
Fairness ==
    /\ \A c \in Conns :
          /\ WF_vars(TLSHandshake(c)) /\ WF_vars(PostAccept(c))
          /\ WF_vars(Register(c)) /\ WF_vars(Start(c))
          /\ WF_vars(WsRegister(c)) /\ WF_vars(WsPostAccept(c))
          /\ WF_vars(ReadDisconnected(c)) /\ WF_vars(PeerCloseSession(c))
    /\ WF_vars(PeerCloseReturn)

Spec == Init /\ [][Next]_vars /\ Fairness

-----------------------------------------------------------------------------
\* Between consecutive temporary Accept errors serveListener sleeps 5ms,
\* doubling each time up to 1s, and a successful Accept starts over at 5ms.
DelayAfter(k) == IF k = 0 THEN 0
                 ELSE IF 5 * 2^(k - 1) > MaxDelay THEN MaxDelay
                 ELSE 5 * 2^(k - 1)

BackoffSchedule == tempDelay = DelayAfter(streak)

\* Every session the hub lists is live: the peer never hands out
\* (GetSession, RangeSession) a session that has already closed.
HubHoldsLiveSessions == \A c \in hub : status[c] \in Live

\* A session whose connection breaks or is closed ends closed.
LostSessionsClose == \A c \in Conns : c \in lost ~> status[c] \notin Live

WsHandledOnlyAfterAccept == \A c \in handled \cap WsConns : c \in wsPassed

\* With CheckFunc and AcceptFunc set, every websocket session the plugins
\* accepted carries the ID CheckFunc issued (PreHandshake's Header.Set, then
\* PostAccept's Header.Get and SetID), never an Erpc-Session-Id the client
\* put in its own request.
SessionIDFromChecker ==
    CheckFunc /\ AcceptFunc => \A c \in wsPassed : sid[c] = "checked"

\* A session that session.Close closed without giving up on its wait has no
\* handler still running: graceCtxWaitGroup counts every context a handler
\* task took (getContext/putContext), so Close returning gracefully means
\* every handler has returned (spec property 7).
GracefulCloseDrains ==
    \A c \in Conns : status[c] = "activeClosed" /\ c \notin hardClosed
                      => ctxs[c] = 0

\* A started Peer.Close returns in every behaviour in which the handlers
\* eventually stop holding contexts for good.  Each closer's sess.Close
\* waits on graceCtxWaitGroup, without a limit when DefaultContextAge <= 0,
\* so this holds only if every getContext's Add is matched by exactly one
\* Done in putContext: a count that outlives its handler blocks Close.
PeerCloseReturns ==
    (<>[](\A c \in Conns : ctxs[c] = 0))
        => (closePc = "closing" ~> closePc = "returned")

=============================================================================
