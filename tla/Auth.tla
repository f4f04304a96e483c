--------------------------------- MODULE Auth ---------------------------------
(***************************************************************************)
(* The auth plugin (src/plugin/auth/auth.go) inside the dial and accept    *)
(* paths of a peer: on each connection that Peer.Dial's dialWithRetry      *)
(* opens (src/peer.go, src/dialer.go), the client's PostDial runs the      *)
(* bearer function, which sends one AUTH_CALL and waits for the AUTH_REPLY *)
(* through sendOnce; the server's PostAccept runs the checker function,    *)
(* which reads the AUTH_CALL through recvOnce, and then always answers     *)
(* one AUTH_REPLY carrying the checker's status.  A failed PostDial closes *)
(* the connection and dialWithRetry dials again while its budget lasts; a *)
(* failed PostAccept closes the server's session.                          *)
(*                                                                         *)
(* The user's bearer and checker functions are chosen per run from how     *)
(* they may use the once-only callbacks: call them once, twice, or (the    *)
(* checker) not at all.  Credentials are good or bad for the whole run.    *)
(* A message is abstracted to its type and status.                        *)
(***************************************************************************)
EXTENDS Integers, Sequences, FiniteSets

CONSTANTS
    RedialTimes, \* PeerConfig.RedialTimes (>= 0 here: finite budgets)
    BearerUses,  \* subset of {"once", "twice"}
    CheckerUses, \* subset of {"once", "twice", "none"}
    Creds        \* subset of BOOLEAN: whether the credentials are good

ASSUME /\ RedialTimes \in Nat
       /\ BearerUses \subseteq {"once", "twice"}
       /\ CheckerUses \subseteq {"once", "twice", "none"}
       /\ Creds \subseteq BOOLEAN

Attempts == 1..(RedialTimes + 1)

\* statuses: OK, Unauthorized, MultiSendErr, MultiRecvErr, a read error
Stats == {"ok", "unauth", "multiSend", "multiRecv", "connErr"}
Msgs == [type : {"AUTH_CALL", "AUTH_REPLY"}, stat : Stats]

VARIABLES
    bearerUse, checkerUse, goodCreds, \* fixed for the run
    attempt,  \* connections dialed so far
    cpc,      \* client: "connect", "send", "recv", "send2", "ret", "done"
    ccalled,  \* the bearer's `called` flag (one per PostDial)
    cstat,    \* status the bearer function returns
    result,   \* Dial's result: "none", "ok", or the status code "dialFailed"
    spc,      \* per connection, the server's PostAccept: "idle", "recv",
              \* "recv2", "reply", "done"
    scalled,  \* the checker's `called` flag per connection
    sstat,    \* status the checker function returns per connection
    accepted, \* per connection: PostAccept succeeded, the session is kept
    c2s, s2c, \* per connection, messages in each direction
    closed    \* per connection: closed by either side

vars == <<bearerUse, checkerUse, goodCreds, attempt, cpc, ccalled, cstat,
          result, spc, scalled, sstat, accepted, c2s, s2c, closed>>

TypeOK ==
    /\ bearerUse \in BearerUses /\ checkerUse \in CheckerUses
    /\ goodCreds \in Creds
    /\ attempt \in 0..(RedialTimes + 1)
    /\ cpc \in {"connect", "send", "recv", "send2", "ret", "done"}
    /\ ccalled \in BOOLEAN
    /\ cstat \in Stats \cup {"none"}
    /\ result \in {"none", "ok", "dialFailed"}
    /\ spc \in [Attempts -> {"idle", "recv", "recv2", "reply", "done"}]
    /\ scalled \in [Attempts -> BOOLEAN]
    /\ sstat \in [Attempts -> Stats \cup {"none"}]
    /\ accepted \in [Attempts -> BOOLEAN]
    /\ c2s \in [Attempts -> Seq(Msgs)] /\ s2c \in [Attempts -> Seq(Msgs)]
    /\ closed \in [Attempts -> BOOLEAN]

Init ==
    /\ bearerUse \in BearerUses /\ checkerUse \in CheckerUses
    /\ goodCreds \in Creds
    /\ attempt = 0
    /\ cpc = "connect" /\ ccalled = FALSE /\ cstat = "none"
    /\ result = "none"
    /\ spc = [k \in Attempts |-> "idle"]
    /\ scalled = [k \in Attempts |-> FALSE]
    /\ sstat = [k \in Attempts |-> "none"]
    /\ accepted = [k \in Attempts |-> FALSE]
    /\ c2s = [k \in Attempts |-> <<>>] /\ s2c = [k \in Attempts |-> <<>>]
    /\ closed = [k \in Attempts |-> FALSE]

\* the checker's verdict on an AUTH_CALL it received
Verdict == IF goodCreds THEN "ok" ELSE "unauth"

\* what PreReceive makes of the next message of a connection, as the
\* callback checks it: a read error on a closed, drained connection; else
\* the message's status if it is not OK; else Unauthorized if the message
\* has another type than the one expected
Received(q, k, want) ==
    IF q[k] = <<>> THEN "connErr"
    ELSE IF Head(q[k]).stat # "ok" THEN Head(q[k]).stat
    ELSE IF Head(q[k]).type # want THEN "unauth"
    ELSE "ok"

Pop(q, k) == IF q[k] = <<>> THEN q ELSE [q EXCEPT ![k] = Tail(@)]

\* PreReceive blocks until a message arrives or the connection is closed
CanReceive(q, k) == q[k] # <<>> \/ closed[k]

\* atomic.CompareAndSwapInt32(&called, 0, 1) succeeds, in sendOnce and in
\* recvOnce
SendOnceCas(flag) == ~flag
RecvOnceCas(flag) == ~flag

\* fault: the AUTH_REPLY does not carry the checker's status
AuthRepliesNoStat(st) == <<[type |-> "AUTH_REPLY", stat |-> "ok"]>>

\* the AUTH_REPLYs checker PostAccept sends for the checker's status: one,
\* carrying MultiRecvErr (line 170) or the checker's status (line 173)
AuthReplies(st) == <<[type |-> "AUTH_REPLY", stat |-> st]>>

\* redialCounter.Next() for a budget of RedialTimes >= 0 after a dials
RetryAllowed(a) == a < RedialTimes + 1

PostDialFailClose(k) == closed' = [closed EXCEPT ![k] = TRUE]

-----------------------------------------------------------------------------
(* client: Peer.Dial with the bearer's PostDial                            *)

\* dialOne connects; the server accepts and starts its PostAccept.
Connect ==
    /\ cpc = "connect"
    /\ attempt' = attempt + 1
    /\ spc' = [spc EXCEPT ![attempt + 1] = "recv"]
    /\ ccalled' = FALSE
    /\ cpc' = "send"
    /\ UNCHANGED <<bearerUse, checkerUse, goodCreds, cstat, result, scalled,
                   sstat, accepted, c2s, s2c, closed>>

\* sendOnce: on the first call PreSend(AUTH_CALL); on a later one the CAS
\* fails and the bearer function returns MultiSendErr.
BearerSend ==
    /\ cpc \in {"send", "send2"}
    /\ IF SendOnceCas(ccalled)
       THEN /\ ccalled' = TRUE
            /\ c2s' = [c2s EXCEPT ![attempt] =
                          Append(@, [type |-> "AUTH_CALL", stat |-> "ok"])]
            /\ cpc' = "recv"
            /\ UNCHANGED cstat
       ELSE /\ cstat' = "multiSend"
            /\ cpc' = "ret"
            /\ UNCHANGED <<ccalled, c2s>>
    /\ UNCHANGED <<bearerUse, checkerUse, goodCreds, attempt, result, spc,
                   scalled, sstat, accepted, s2c, closed>>

\* sendOnce's PreReceive of the AUTH_REPLY; a bearer function that uses
\* sendOnce twice calls it again.
BearerRecv ==
    /\ cpc = "recv" /\ CanReceive(s2c, attempt)
    /\ cstat' = Received(s2c, attempt, "AUTH_REPLY")
    /\ s2c' = Pop(s2c, attempt)
    /\ cpc' = IF bearerUse = "once" THEN "ret" ELSE "send2"
    /\ UNCHANGED <<bearerUse, checkerUse, goodCreds, attempt, ccalled, result,
                   spc, scalled, sstat, accepted, c2s, closed>>

\* PostDial returns the bearer's status.  On failure the callback closes
\* the connection and dialWithRetry dials again while its budget lasts,
\* else Dial returns statDialFailed.Copy(err).
BearerReturn ==
    /\ cpc = "ret"
    /\ IF cstat = "ok"
       THEN /\ result' = "ok" /\ cpc' = "done" /\ UNCHANGED closed
       ELSE /\ PostDialFailClose(attempt)
            /\ IF RetryAllowed(attempt)
               THEN cpc' = "connect" /\ UNCHANGED result
               ELSE cpc' = "done" /\ result' = "dialFailed"
    /\ UNCHANGED <<bearerUse, checkerUse, goodCreds, attempt, ccalled, cstat,
                   spc, scalled, sstat, accepted, c2s, s2c>>

-----------------------------------------------------------------------------
(* server: the checker's PostAccept on connection k                        *)

\* a checker function that decides without calling recvOnce
CheckerNone(k) ==
    /\ spc[k] = "recv" /\ checkerUse = "none"
    /\ sstat' = [sstat EXCEPT ![k] = Verdict]
    /\ spc' = [spc EXCEPT ![k] = "reply"]
    /\ UNCHANGED <<bearerUse, checkerUse, goodCreds, attempt, cpc, ccalled,
                   cstat, result, scalled, accepted, c2s, s2c, closed>>

\* recvOnce: on the first call PreReceive of the AUTH_CALL, and the checker
\* judges the credentials; on a later call the CAS fails: MultiRecvErr.
CheckerRecv(k) ==
    /\ spc[k] \in {"recv", "recv2"} /\ checkerUse # "none"
    /\ IF RecvOnceCas(scalled[k])
       THEN LET st == Received(c2s, k, "AUTH_CALL") IN
            /\ CanReceive(c2s, k)
            /\ scalled' = [scalled EXCEPT ![k] = TRUE]
            /\ c2s' = Pop(c2s, k)
            /\ sstat' = [sstat EXCEPT ![k] = IF st = "ok" THEN Verdict ELSE st]
            /\ spc' = [spc EXCEPT ![k] =
                          IF checkerUse = "once" THEN "reply" ELSE "recv2"]
       ELSE /\ sstat' = [sstat EXCEPT ![k] = "multiRecv"]
            /\ spc' = [spc EXCEPT ![k] = "reply"]
            /\ UNCHANGED <<scalled, c2s>>
    /\ UNCHANGED <<bearerUse, checkerUse, goodCreds, attempt, cpc, ccalled,
                   cstat, result, accepted, s2c, closed>>

\* PostAccept answers one AUTH_REPLY and returns the checker's status (or
\* the PreSend error); a failed PostAccept closes the session.
CheckerReply(k) ==
    /\ spc[k] = "reply"
    /\ LET ok == sstat[k] = "ok" /\ ~closed[k] IN
       /\ IF closed[k]
          THEN UNCHANGED s2c
          ELSE s2c' = [s2c EXCEPT ![k] = @ \o AuthReplies(sstat[k])]
       /\ accepted' = [accepted EXCEPT ![k] = ok]
       /\ closed' = [closed EXCEPT ![k] = @ \/ ~ok]
    /\ spc' = [spc EXCEPT ![k] = "done"]
    /\ UNCHANGED <<bearerUse, checkerUse, goodCreds, attempt, cpc, ccalled,
                   cstat, result, scalled, sstat, c2s>>

\* Dial has returned and every PostAccept it started has returned: the
\* exchange is over (the system stutters; any other stop is a hang).
Finished ==
    /\ cpc = "done" /\ \A k \in 1..attempt : spc[k] = "done"
    /\ UNCHANGED vars

Next ==
    \/ Finished
    \/ Connect \/ BearerSend \/ BearerRecv \/ BearerReturn
    \/ \E k \in Attempts : CheckerNone(k) \/ CheckerRecv(k) \/ CheckerReply(k)

Spec == Init /\ [][Next]_vars

-----------------------------------------------------------------------------
ClientAuthImpliesServerAccepted ==
    result = "ok" => accepted[attempt]

=============================================================================
