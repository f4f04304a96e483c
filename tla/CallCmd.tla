------------------------------- MODULE CallCmd -------------------------------
(***************************************************************************)
(* What a session promises the application about its CALLs (spec 4.5      *)
(* "Send path - CALL", 5 "Cancellation", 7 "Errors", property 1): a CALL   *)
(* is sent or fails at once; a sent CALL's Done channel closes exactly     *)
(* once, with the REPLY to that CALL, with a timeout status, or with       *)
(* ConnClosed when the session loses or closes its connection, which      *)
(* completes every CALL it still has in flight at the same moment.        *)
(*                                                                         *)
(* A REPLY is identified with the CALL it answers: result = c means c got  *)
(* the REPLY the remote handler produced for c.                           *)
(***************************************************************************)
CONSTANT Calls

VARIABLES
    cstate, \* per CALL: "unsent", "inflight" or "done" (Done closed)
    result  \* per CALL: what Done carried, "none" before

vars == <<cstate, result>>

Errors == {"connClosed", "timeout"}

TypeOK ==
    /\ cstate \in [Calls -> {"unsent", "inflight", "done"}]
    /\ result \in [Calls -> Calls \cup Errors \cup {"none"}]

Init ==
    /\ cstate = [c \in Calls |-> "unsent"]
    /\ result = [c \in Calls |-> "none"]

\* the CALL is written and waits in the session's in-flight table
Send(c) ==
    /\ cstate[c] = "unsent"
    /\ cstate' = [cstate EXCEPT ![c] = "inflight"]
    /\ UNCHANGED result

\* the session is not usable or the write fails: Done closes at once
FailFast(c) ==
    /\ cstate[c] = "unsent"
    /\ cstate' = [cstate EXCEPT ![c] = "done"]
    /\ result' = [result EXCEPT ![c] = "connClosed"]

\* Done closes with the REPLY to this CALL, or with its deadline's status
Complete(c) ==
    /\ cstate[c] = "inflight"
    /\ cstate' = [cstate EXCEPT ![c] = "done"]
    /\ \E r \in {c, "timeout"} : result' = [result EXCEPT ![c] = r]

\* the connection is lost or closed: every CALL in S fails together
Cancel(S) ==
    /\ S # {}
    /\ \A c \in S : cstate[c] = "inflight"
    /\ cstate' = [c \in Calls |-> IF c \in S THEN "done" ELSE cstate[c]]
    /\ result' = [c \in Calls |-> IF c \in S THEN "connClosed" ELSE result[c]]

Next ==
    \/ \E c \in Calls : Send(c) \/ FailFast(c) \/ Complete(c)
    \/ \E S \in SUBSET Calls : Cancel(S)

\* a CALL in flight does not stay there: something closes its Done
Spec == Init /\ [][Next]_vars
            /\ \A c \in Calls : WF_vars(Complete(c) \/ Cancel({c}))

=============================================================================
