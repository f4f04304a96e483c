------------------------------ MODULE PeerClient ------------------------------
(***************************************************************************)
(* The client role of a yrpc peer: Peer.Dial, the redial closure it        *)
(* installs on the session (src/peer.go), the peer's session hub, session  *)
(* close, peer Close, and the CALLs the application issues on the          *)
(* sessions, matched to their REPLYs by sequence number.                   *)
(*                                                                         *)
(* The session engine (session.go: read loop, readDisconnected, Close,     *)
(* AsyncCall, the in-flight table) is not in the source tree given here;   *)
(* its actions are modelled from the specification (sections 3, 4.5, 5)   *)
(* and marked so in the project's map.                                    *)
(*                                                                         *)
(* Data is abstracted: a connection is the local address the client got   *)
(* for it (1..MaxConns), a session ID is such an address or one of         *)
(* CustomIDs, and a REPLY carries, besides its sequence number, the CALL   *)
(* it was produced for (a ghost field that only the properties read).      *)
(***************************************************************************)
EXTENDS Integers, FiniteSets, Functions, TLC

CONSTANTS
    Sess,        \* handles of the sessions, one per Peer.Dial call
    Calls,       \* handles of the CALLs the application issues
    CustomIDs,   \* IDs a PostDial plugin may give the session (SetID)
    RedialTimes, \* PeerConfig.RedialTimes: <0 forever, 0 never, n>0 n more tries
    MaxConns,    \* bound on the connections the client opens
    SeqMod,      \* number of distinct sequence numbers (2^32 in the code)
    PreDialRejects, \* whether a PreDial plugin may reject the dial
    PostDialRejects \* whether a PostDial plugin may reject a redial's connection

ASSUME /\ RedialTimes \in Int
       /\ MaxConns \in Nat \ {0}
       /\ SeqMod \in Nat /\ Cardinality(Calls) <= SeqMod
       /\ CustomIDs \cap (0..MaxConns) = {}
       /\ PreDialRejects \in BOOLEAN /\ PostDialRejects \in BOOLEAN

NoConn == 0                   \* laddr/sid of a session that never connected
Conns  == 1..MaxConns
IDs    == Conns \cup CustomIDs
Seqs   == 0..(SeqMod - 1)

Status == {"idle", "preparing", "ok", "redialing", "passiveClosed", "redialFailed",
           "activeClosed", "dialFailed"}

\* what a finished CALL holds: the REPLY to some CALL, or a local error
Results == Calls \cup {"none", "connClosed", "timeout"}

VARIABLES
    status,     \* session status (session.status)
    dialPc,     \* where Peer.Dial is: "none", "register" (reader started,
                \* sessHub.set not yet done), "returned"
    sid,        \* session ID (socket.ID)
    laddr,      \* local address of the session's current connection
    nconn,      \* connections opened so far; the next one gets nconn + 1
    broken,     \* connections that are closed or lost
    readers,    \* read goroutines (startReadAndHandle) running per session
    redialPc,   \* where the redial closure run by the disconnected reader is:
                \* "none", "preDial", "dial", "postDial", "start", "register"
    old,        \* the closure's oldID and oldIP, captured when it starts
    hub,        \* peer.sessHub: session ID -> session
    seq,        \* per-session sequence counter
    pending,    \* per-session in-flight table: seq -> CALL
    calls,      \* per CALL: state, session, seq, result
    wire,       \* REPLYs travelling back to the client
    peerClosed, \* peer.Close has been called
    toClose     \* sessions peer.Close still has to close

redialVars == <<redialPc, old>>

vars == <<status, dialPc, sid, laddr, nconn, broken, readers, hub, seq,
          pending, calls, wire, peerClosed, toClose, redialPc, old>>

Reply == [conn : Conns, seq : Seqs, ans : Calls]

TypeOK ==
    /\ status \in [Sess -> Status]
    /\ dialPc \in [Sess -> {"none", "register", "returned"}]
    /\ sid \in [Sess -> IDs \cup {NoConn}]
    /\ laddr \in [Sess -> Conns \cup {NoConn}]
    /\ nconn \in 0..MaxConns
    /\ broken \subseteq Conns
    /\ readers \in [Sess -> 0..2]
    /\ redialPc \in [Sess -> {"none", "preDial", "dial", "postDial", "start", "register"}]
    /\ old \in [Sess -> [id : IDs \cup {NoConn}, ip : Conns \cup {NoConn}]]
    /\ DOMAIN hub \subseteq IDs /\ \A id \in DOMAIN hub : hub[id] \in Sess
    /\ seq \in [Sess -> Seqs]
    /\ \A s \in Sess : DOMAIN pending[s] \subseteq Seqs
                       /\ \A q \in DOMAIN pending[s] : pending[s][q] \in Calls
    /\ calls \in [Calls -> [state : {"unsent", "inflight", "done"},
                            sess : Sess \cup {NoConn}, seq : Seqs,
                            result : Results]]
    /\ wire \subseteq Reply
    /\ peerClosed \in BOOLEAN
    /\ toClose \subseteq Sess

EmptyTable == [q \in {} |-> NoConn]

Init ==
    /\ status = [s \in Sess |-> "idle"]
    /\ dialPc = [s \in Sess |-> "none"]
    /\ sid = [s \in Sess |-> NoConn]
    /\ laddr = [s \in Sess |-> NoConn]
    /\ nconn = 0
    /\ broken = {}
    /\ readers = [s \in Sess |-> 0]
    /\ hub = EmptyTable
    /\ seq = [s \in Sess |-> 0]
    /\ pending = [s \in Sess |-> EmptyTable]
    /\ calls = [c \in Calls |-> [state |-> "unsent", sess |-> NoConn,
                                 seq |-> 0, result |-> "none"]]
    /\ wire = {}
    /\ peerClosed = FALSE
    /\ toClose = {}
    /\ redialPc = [s \in Sess |-> "none"]
    /\ old = [s \in Sess |-> [id |-> NoConn, ip |-> NoConn]]

-----------------------------------------------------------------------------
(* Helpers                                                                 *)

\* sync.Map.Delete(k), as sessHub.delete and the in-flight table do it
MapDelete(h, id) == Restrict(h, DOMAIN h \ {id})

\* sync.Map.Store(k, v): sessHub.set stores under sess.ID()
MapStore(h, id, s) == (id :> s) @@ h

\* fault: the in-flight table is dropped without completing its CALLs
CancelAllNone(s, why) == calls

\* the CALLs of a session's in-flight table complete with error why
CancelAll(s, why) ==
    [c \in Calls |-> IF c \in Range(pending[s])
                     THEN [calls[c] EXCEPT !.state = "done", !.result = why]
                     ELSE calls[c]]

\* the ID a redialed session takes: the new local address when the old
\* ID was the old local address, the old ID otherwise
RedialID(oldID, oldIP, newConn) == IF oldIP = oldID THEN newConn ELSE oldID

\* faults: the counter is not advanced; it is advanced without wrapping
NextSeqStuck(q) == q
NextSeqNoWrap(q) == q + 1

\* atomic.AddInt32(&s.seq, 1) on a counter of SeqMod values
NextSeq(q) == (q + 1) % SeqMod

\* fault: the read goroutine is not started
StartReaderMissing(s) == UNCHANGED readers

\* AnywayGo(sess.startReadAndHandle): one more read goroutine (after a
\* redial the disconnected one is still running the closure)
StartReader(s) == readers' = [readers EXCEPT ![s] = @ + 1]

\* a read goroutine of the session returns
ReaderReturns(s) == readers' = [readers EXCEPT ![s] = @ - 1]

-----------------------------------------------------------------------------
(* Peer.Dial up to the start of the read goroutine.  A PreDial plugin may  *)
(* reject the dial before any session exists; otherwise dialWithRetry     *)
(* either gives up (only when RedialTimes >= 0; with RedialTimes < 0 it    *)
(* retries forever) or gets a connection on which PostDial passes; the     *)
(* connection gets the next local address, SetID gives it that address as  *)
(* ID and a PostDial plugin may SetID it again.  The status becomes ok and *)
(* the reader starts before sessHub.set, which is the next step.           *)
Dial(s) ==
    /\ status[s] = "idle"
    /\ \/ /\ RedialTimes >= 0 \/ PreDialRejects
          /\ status' = [status EXCEPT ![s] = "dialFailed"]
          /\ UNCHANGED <<dialPc, sid, laddr, nconn, readers>>
       \/ /\ nconn < MaxConns
          /\ \E id \in {nconn + 1} \cup CustomIDs :
                sid' = [sid EXCEPT ![s] = id]
          /\ nconn' = nconn + 1
          /\ laddr' = [laddr EXCEPT ![s] = nconn + 1]
          /\ status' = [status EXCEPT ![s] = "ok"]
          /\ StartReader(s)
          /\ dialPc' = [dialPc EXCEPT ![s] = "register"]
    /\ UNCHANGED <<broken, hub, seq, pending, calls, wire, peerClosed, toClose,
                   redialVars>>

\* the last statement of Peer.Dial: p.sessHub.set(sess)
DialRegister(s) ==
    /\ dialPc[s] = "register"
    /\ hub' = MapStore(hub, sid[s], s)
    /\ dialPc' = [dialPc EXCEPT ![s] = "returned"]
    /\ UNCHANGED <<status, sid, laddr, nconn, broken, readers, seq, pending,
                   calls, wire, peerClosed, toClose, redialVars>>

(* The read goroutine fails on a lost connection of a session that is ok  *)
(* (readDisconnected): the session leaves the hub, its in-flight CALLs     *)
(* fail, and without a redial closure (RedialTimes = 0) it is passively    *)
(* closed and the reader returns; with one, the same goroutine takes the   *)
(* session lock and runs the closure.  While a redial closure runs, the    *)
(* session lock is held (redialForClientLocked), so readDisconnected and   *)
(* Close of the session wait for redialPc to be "none".                    *)
ReadDisconnected(s) ==
    /\ readers[s] >= 1
    /\ status[s] = "ok" /\ redialPc[s] = "none"
    /\ laddr[s] \in broken
    /\ hub' = MapDelete(hub, sid[s])
    /\ calls' = CancelAll(s, "connClosed")
    /\ pending' = [pending EXCEPT ![s] = EmptyTable]
    /\ IF RedialTimes = 0
       THEN /\ status' = [status EXCEPT ![s] = "passiveClosed"]
            /\ ReaderReturns(s)
            /\ UNCHANGED redialVars
       ELSE /\ status' = [status EXCEPT ![s] = "redialing"]
            /\ redialPc' = [redialPc EXCEPT ![s] = "preDial"]
            /\ old' = [old EXCEPT ![s] = [id |-> sid[s], ip |-> laddr[s]]]
            /\ UNCHANGED readers
    /\ UNCHANGED <<dialPc, sid, laddr, nconn, broken, seq, wire, peerClosed,
                   toClose>>

\* the closure gives up: sess.closeLocked() removes the session from the
\* hub, tryChangeStatus(redialFailed, redialing), and the reader returns
RedialFails(s) ==
    /\ status' = [status EXCEPT ![s] = "redialFailed"]
    /\ ReaderReturns(s)
    /\ hub' = MapDelete(hub, sid[s])
    /\ redialPc' = [redialPc EXCEPT ![s] = "none"]

(* The redial closure, run by the disconnected reader.  It captures oldID *)
(* and oldIP (ReadDisconnected records them in old); a PreDial rejection  *)
(* fails the redial at once, whatever RedialTimes says.                   *)
RedialPreDial(s) ==
    /\ redialPc[s] = "preDial"
    /\ \/ /\ redialPc' = [redialPc EXCEPT ![s] = "dial"]
          /\ UNCHANGED <<status, readers, hub>>
       \/ /\ PreDialRejects
          /\ RedialFails(s)
    /\ UNCHANGED <<dialPc, sid, laddr, nconn, broken, seq, pending, calls, wire,
                   peerClosed, toClose, old>>

(* dialWithRetry(addr, oldID, callback): an attempt gets a connection, on  *)
(* which the callback Resets the socket, SetIDs it to RedialID of the      *)
(* captured oldID/oldIP and changes the status to preparing; or the        *)
(* retries (finite only when RedialTimes > 0) run out.                    *)
RedialDial(s) ==
    /\ redialPc[s] = "dial"
    /\ \/ /\ nconn < MaxConns
          /\ sid' = [sid EXCEPT ![s] = RedialID(old[s].id, old[s].ip, nconn + 1)]
          /\ nconn' = nconn + 1
          /\ laddr' = [laddr EXCEPT ![s] = nconn + 1]
          /\ status' = [status EXCEPT ![s] = "preparing"]
          /\ redialPc' = [redialPc EXCEPT ![s] = "postDial"]
          /\ UNCHANGED <<readers, hub>>
       \/ /\ RedialTimes > 0
          /\ RedialFails(s)
          /\ UNCHANGED <<sid, nconn, laddr>>
    /\ UNCHANGED <<dialPc, broken, seq, pending, calls, wire, peerClosed,
                   toClose, old>>

(* postDial(sess, true): a plugin may SetID the session.  When it passes,  *)
(* dialWithRetry returns the connection.  When it rejects, the callback    *)
(* closes the connection and changes the status back to redialing, and    *)
(* dialWithRetry tries again.                                              *)
RedialPostDial(s) ==
    /\ redialPc[s] = "postDial"
    /\ \/ /\ \E id \in {sid[s]} \cup CustomIDs : sid' = [sid EXCEPT ![s] = id]
          /\ redialPc' = [redialPc EXCEPT ![s] = "start"]
          /\ UNCHANGED <<broken, status>>
       \/ /\ PostDialRejects
          /\ broken' = broken \cup {laddr[s]}
          /\ status' = [status EXCEPT ![s] = "redialing"]
          /\ redialPc' = [redialPc EXCEPT ![s] = "dial"]
          /\ UNCHANGED sid
    /\ UNCHANGED <<readers, dialPc, laddr, nconn, hub, seq, pending, calls, wire,
                   peerClosed, toClose, old>>

\* the closure closes the old connection (already lost), changes the status
\* to ok and starts the new reader; sessHub.set is the next step
RedialStart(s) ==
    /\ redialPc[s] = "start"
    /\ status' = [status EXCEPT ![s] = "ok"]
    /\ StartReader(s)
    /\ redialPc' = [redialPc EXCEPT ![s] = "register"]
    /\ UNCHANGED <<dialPc, sid, laddr, nconn, broken, hub, seq, pending, calls,
                   wire, peerClosed, toClose, old>>

\* p.sessHub.set(sess); the closure returns true, and the disconnected
\* reader that ran it returns, releasing the session lock
RedialRegister(s) ==
    /\ redialPc[s] = "register"
    /\ hub' = MapStore(hub, sid[s], s)
    /\ ReaderReturns(s)
    /\ redialPc' = [redialPc EXCEPT ![s] = "none"]
    /\ UNCHANGED <<status, dialPc, sid, laddr, nconn, broken, seq, pending,
                   calls, wire, peerClosed, toClose, old>>

\* session.Close's effect on a session that is ok or passively closed
CloseEffects(s) ==
    /\ status' = [status EXCEPT ![s] = "activeClosed"]
    /\ broken' = broken \cup {laddr[s]}
    /\ hub' = MapDelete(hub, sid[s])
    /\ calls' = CancelAll(s, "connClosed")
    /\ pending' = [pending EXCEPT ![s] = EmptyTable]

\* the application (or the heartbeat plugin) closes a session it holds
Close(s) ==
    /\ dialPc[s] = "returned" /\ redialPc[s] = "none"
    /\ status[s] \in {"ok", "passiveClosed"}
    /\ CloseEffects(s)
    /\ UNCHANGED <<dialPc, sid, laddr, nconn, readers, seq, wire, peerClosed,
                   toClose, redialVars>>

\* a reader whose session was closed actively sees its connection fail
\* and returns (readDisconnected's early return)
ReaderExit(s) ==
    /\ readers[s] >= 1
    /\ status[s] = "activeClosed"
    /\ ReaderReturns(s)
    /\ UNCHANGED <<status, dialPc, sid, laddr, nconn, broken, hub, seq,
                   pending, calls, wire, peerClosed, toClose, redialVars>>

\* peer.Close: closeCh is closed and one goroutine per session of the hub
\* (rangeCallback) calls sess.Close
PeerClose ==
    /\ ~peerClosed
    /\ peerClosed' = TRUE
    /\ toClose' = Range(hub)
    /\ UNCHANGED <<status, dialPc, sid, laddr, nconn, broken, readers, hub,
                   seq, pending, calls, wire, redialVars>>

\* one of those goroutines; sess.Close waits for the session lock, which
\* a running redial closure holds
PeerCloseSession(s) ==
    /\ s \in toClose
    /\ redialPc[s] = "none"
    /\ toClose' = toClose \ {s}
    /\ IF status[s] \in {"ok", "passiveClosed"}
       THEN CloseEffects(s)
       ELSE UNCHANGED <<status, broken, hub, calls, pending>>
    /\ UNCHANGED <<dialPc, sid, laddr, nconn, readers, seq, wire, peerClosed,
                   redialVars>>

\* the connection is lost (remote close, network failure)
LoseConn(k) ==
    /\ k \in Range(laddr) \ ({NoConn} \cup broken)
    /\ broken' = broken \cup {k}
    /\ UNCHANGED <<status, dialPc, sid, laddr, nconn, readers, hub, seq,
                   pending, calls, wire, peerClosed, toClose, redialVars>>

-----------------------------------------------------------------------------
(* CALLs (session.AsyncCall and the read loop's REPLY dispatch)            *)

(* A CALL on a session the application holds.  When the session is not ok *)
(* the CALL fails at once.  Otherwise it takes the next sequence number,   *)
(* enters the in-flight table and is written; a write on a lost connection *)
(* fails and the CALL is cancelled, else the remote peer's REPLY is on its *)
(* way back on that connection.                                            *)
Call(c, s) ==
    /\ calls[c].state = "unsent"
    /\ dialPc[s] = "returned"
    /\ IF status[s] = "ok"
       THEN LET q == NextSeq(seq[s]) IN
            /\ seq' = [seq EXCEPT ![s] = q]
            /\ IF laddr[s] \in broken
               THEN /\ calls' = [calls EXCEPT ![c] = [state |-> "done",
                                   sess |-> s, seq |-> q, result |-> "connClosed"]]
                    /\ UNCHANGED <<pending, wire>>
               ELSE /\ pending' = [pending EXCEPT ![s] = MapStore(@, q, c)]
                    /\ calls' = [calls EXCEPT ![c] = [state |-> "inflight",
                                   sess |-> s, seq |-> q, result |-> "none"]]
                    /\ wire' = wire \cup {[conn |-> laddr[s], seq |-> q, ans |-> c]}
       ELSE /\ calls' = [calls EXCEPT ![c] = [state |-> "done", sess |-> s,
                                             seq |-> 0, result |-> "connClosed"]]
            /\ UNCHANGED <<seq, pending, wire>>
    /\ UNCHANGED <<status, dialPc, sid, laddr, nconn, broken, readers, hub,
                   peerClosed, toClose, redialVars>>

(* The reader of an ok session reads a REPLY from its connection and hands *)
(* it to the CALL its sequence number holds in the in-flight table; a      *)
(* REPLY whose sequence number is not there is dropped.                    *)
ReceiveReply(s, m) ==
    /\ readers[s] >= 1
    /\ status[s] = "ok"
    /\ m.conn = laddr[s]
    /\ m.conn \notin broken
    /\ wire' = wire \ {m}
    /\ IF m.seq \in DOMAIN pending[s]
       THEN LET c == pending[s][m.seq] IN
            /\ calls' = [calls EXCEPT ![c].state = "done", ![c].result = m.ans]
            /\ pending' = [pending EXCEPT ![s] = MapDelete(@, m.seq)]
       ELSE UNCHANGED <<calls, pending>>
    /\ UNCHANGED <<status, dialPc, sid, laddr, nconn, broken, readers, hub,
                   seq, peerClosed, toClose, redialVars>>

\* fault: the expired CALL stays in the in-flight table
TimeoutKeepsEntry(c) ==
    /\ calls[c].state = "inflight"
    /\ calls' = [calls EXCEPT ![c].state = "done", ![c].result = "timeout"]
    /\ UNCHANGED <<status, dialPc, sid, laddr, nconn, broken, readers, hub,
                   seq, pending, wire, peerClosed, toClose, redialVars>>

\* the CALL's context expires: it leaves the in-flight table by its seq
Timeout(c) ==
    /\ calls[c].state = "inflight"
    /\ LET s == calls[c].sess IN
       pending' = [pending EXCEPT ![s] = MapDelete(@, calls[c].seq)]
    /\ calls' = [calls EXCEPT ![c].state = "done", ![c].result = "timeout"]
    /\ UNCHANGED <<status, dialPc, sid, laddr, nconn, broken, readers, hub,
                   seq, wire, peerClosed, toClose, redialVars>>

-----------------------------------------------------------------------------
Next ==
    \/ \E s \in Sess :
        \/ Dial(s) \/ DialRegister(s) \/ ReadDisconnected(s)
        \/ RedialPreDial(s) \/ RedialDial(s) \/ RedialPostDial(s)
        \/ RedialStart(s) \/ RedialRegister(s)
        \/ Close(s) \/ ReaderExit(s) \/ PeerCloseSession(s)
        \/ \E m \in wire : ReceiveReply(s, m)
    \/ PeerClose
    \/ \E k \in Conns : LoseConn(k)
    \/ \E c \in Calls : Timeout(c) \/ \E s \in Sess : Call(c, s)

(* The goroutines of the code run until they block: the read loop, the     *)
(* redial it runs, the rest of Dial and peer.Close's per-session closers   *)
(* are weakly fair.  The application, the network and the deadlines are    *)
(* not: a CALL may have no deadline and a connection may never fail.       *)
Fairness ==
    /\ \A s \in Sess :
        /\ WF_vars(DialRegister(s))
        /\ WF_vars(ReadDisconnected(s))
        /\ WF_vars(RedialPreDial(s))
        /\ WF_vars(RedialDial(s))
        /\ WF_vars(RedialPostDial(s))
        /\ WF_vars(RedialStart(s))
        /\ WF_vars(RedialRegister(s))
        /\ WF_vars(ReaderExit(s))
        /\ WF_vars(PeerCloseSession(s))
        /\ WF_vars(\E m \in wire : ReceiveReply(s, m))

Spec == Init /\ [][Next]_vars /\ Fairness

-----------------------------------------------------------------------------
(* Properties                                                              *)

\* The CALLs, seen through the state and result of each, implement the
\* session's promise (CallCmd): a CALL that was written completes exactly
\* once, with the REPLY to itself (never one to another CALL of the same
\* session: the in-flight table is keyed by sequence number), with its
\* timeout, or with ConnClosed when readDisconnected or Close cancels the
\* in-flight table; a REPLY arriving after the CALL timed out or was
\* cancelled changes nothing; and no written CALL waits forever.
CallAbs == INSTANCE CallCmd WITH
               cstate <- [c \in Calls |-> calls[c].state],
               result <- [c \in Calls |-> calls[c].result]

CallCmdSpec == CallAbs!Spec

\* Every read goroutine started is accounted for across Dial, redial and
\* close: a session that is ok and not inside a redial has exactly one
\* reader, and two run only between the redial's AnywayGo(startReadAndHandle)
\* and the return of the disconnected reader that ran the closure.
SingleReader ==
    \A s \in Sess :
        /\ status[s] = "ok" /\ redialPc[s] = "none" => readers[s] = 1
        /\ readers[s] <= IF redialPc[s] = "register" THEN 2 ELSE 1

\* Every session the hub lists, once Dial has returned, is usable: the
\* peer's GetSession/RangeSession never hand out a closed session.
HubHoldsLiveSessions ==
    \A id \in DOMAIN hub :
        dialPc[hub[id]] = "returned" => status[hub[id]] = "ok"

\* A redial that succeeds keeps the session ID the session had when its
\* connection was lost (spec 4.5 "Redial", property 6, scenario S4): the
\* session goes back into the hub under the closure's oldID.
RedialKeepsID ==
    [][\A s \in Sess : redialPc[s] = "register" /\ redialPc'[s] = "none"
                          => sid'[s] = old[s].id]_vars

=============================================================================
