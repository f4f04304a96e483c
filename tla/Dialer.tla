-------------------------------- MODULE Dialer --------------------------------
(***************************************************************************)
(* Dialer.dialWithRetry and its redialCounter (src/dialer.go): one dial,   *)
(* then while the counter's Next() allows it, sleep and dial again.  Each  *)
(* connection that dialOne returns is handed to the callback fn (Peer.Dial *)
(* and the redial closure pass one that resets the socket and runs the     *)
(* PostDial plugins, and closes the connection when they fail).            *)
(*                                                                         *)
(* The configured RedialTimes is chosen in Init from RedialChoices, so one *)
(* run covers "forever" (< 0), "never" (0) and finite budgets.            *)
(***************************************************************************)
EXTENDS Integers

CONSTANTS
    RedialChoices, \* values of Dialer.redialTimes to check (int32)
    MaxAttempts    \* bound on dials, needed when redialTimes < 0

ASSUME RedialChoices \subseteq Int /\ MaxAttempts \in Nat \ {0}

VARIABLES
    redialTimes, \* d.redialTimes, fixed for the run
    counter,     \* the redialCounter of this call (created after the first
                 \* dial fails)
    pc,          \* "dial", "next" (asking the counter), "done" (returned)
    attempts,    \* dialOne calls so far
    opened,      \* connections dialOne returned
    closed,      \* of those, connections closed again
    result       \* "none", "conn" (returned a connection), "err"

vars == <<redialTimes, counter, pc, attempts, opened, closed, result>>

TypeOK ==
    /\ redialTimes \in RedialChoices
    /\ counter \in Int
    /\ pc \in {"dial", "next", "done"}
    /\ attempts \in 0..MaxAttempts
    /\ opened \in 0..MaxAttempts /\ closed \in 0..opened
    /\ result \in {"none", "conn", "err"}

\* newRedialCounter(): a counter holding d.redialTimes
NewRedialCounter == redialTimes

\* fault: Next() also allows a dial at zero
CounterNextAtZero(t) == [more |-> t >= 0, next |-> IF t > 0 THEN t - 1 ELSE t]

\* redialCounter.Next(): whether another dial is allowed, and the counter
\* after the call (a negative counter is never decremented)
CounterNext(t) == [more |-> t # 0, next |-> IF t > 0 THEN t - 1 ELSE t]

\* fault: the rejected connection is closed twice
FnFailsDoubleClose == opened' = opened + 1 /\ closed' = closed + 2

\* fn(conn) failing: it closes the connection and returns the error
FnFails == opened' = opened + 1 /\ closed' = closed + 1

Init ==
    /\ redialTimes \in RedialChoices
    /\ counter = 0
    /\ pc = "dial"
    /\ attempts = 0
    /\ opened = 0 /\ closed = 0
    /\ result = "none"

\* One dialOne and, when it connects, the callback.
DialOne ==
    /\ pc = "dial"
    /\ attempts < MaxAttempts
    /\ attempts' = attempts + 1
    /\ \/ /\ opened' = opened + 1            \* connected, fn accepts it
          /\ UNCHANGED closed
          /\ pc' = "done"
          /\ result' = "conn"
       \/ /\ UNCHANGED <<opened, closed>>    \* dialOne fails
          /\ pc' = "next"
          /\ result' = "err"
       \/ /\ FnFails                         \* connected, fn rejects it
          /\ pc' = "next"
          /\ result' = "err"
    /\ UNCHANGED <<redialTimes, counter>>

\* after the first dial fails, redialTimes := d.newRedialCounter(); then
\* for redialTimes.Next() { time.Sleep(...); dial again }, else return err
Retry ==
    /\ pc = "next"
    /\ LET t == IF attempts = 1 THEN NewRedialCounter ELSE counter IN
       /\ counter' = CounterNext(t).next
       /\ pc' = IF CounterNext(t).more THEN "dial" ELSE "done"
    /\ UNCHANGED <<redialTimes, attempts, opened, closed, result>>

Next == DialOne \/ Retry

Spec == Init /\ [][Next]_vars

-----------------------------------------------------------------------------
\* dialWithRetry gives up only after exactly 1 + redialTimes dials, never
\* dials more than that, and never gives up when redialTimes < 0.
RetryBudget ==
    /\ redialTimes >= 0 => attempts <= redialTimes + 1
    /\ pc = "done" /\ result = "err" =>
           redialTimes >= 0 /\ attempts = redialTimes + 1

=============================================================================
