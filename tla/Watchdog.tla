------------------------------ MODULE Watchdog ------------------------------
(***************************************************************************)
(* The watchdog over one socket whose link and user do as they please:     *)
(* the socket comes up, drops and shakes hands at any time, and the user   *)
(* signs in, signs out, connects and hangs up at any time.                 *)
(***************************************************************************)
EXTENDS Retry

VARIABLES
  link,     \* the socket's state, as observe reports it
  wanted,   \* signed in with an account, and armed
  retry,    \* the schedule
  waited    \* history: ticks waited out while down, since the last attempt

vars == <<link, wanted, retry, waited>>

Init ==
  /\ link = "Down"
  /\ wanted = FALSE
  /\ retry = RetryDefault
  /\ waited = 0

\* The service's connection changes between two ticks.
LinkChanges ==
  /\ link' \in Link \ {link}
  /\ UNCHANGED <<wanted, retry, waited>>

WantedChanges ==
  /\ wanted' = ~wanted
  /\ UNCHANGED <<link, retry, waited>>

\* One round of run's loop for this socket.
Tick ==
  /\ retry' = Ticked(retry, link, wanted)
  /\ waited' = IF ~wanted \/ link = "Up" \/ Dials(retry, link, wanted) THEN 0
               ELSE IF link = "Down" THEN waited + 1 ELSE waited
  /\ UNCHANGED <<link, wanted>>

\* A tick that starts a Connect command.
Dial == Dials(retry, link, wanted) /\ Tick

Next == LinkChanges \/ WantedChanges \/ Tick

Spec == Init /\ [][Next]_vars

\* The loop sleeps five seconds between ticks and never ends.
FairSpec == Spec /\ WF_vars(Tick)

-----------------------------------------------------------------------------

\* The schedule never leaves its range.
TypeOK ==
  /\ link \in Link
  /\ wanted \in BOOLEAN
  /\ retry \in RetryState
  /\ waited \in 0..MaxBackoffTicks

\* "The backoff measures the gap between failures, not between ticks"
\* (reconnect.rs:107-109): two attempts with no success between them are
\* apart by as many down ticks as there were attempts, up to the ceiling,
\* however long handshakes took in between; the first goes out at once.
BackoffBetweenDials ==
  [][Dial => waited = Smaller(retry.attempts, MaxBackoffTicks)]_vars

\* The same, as a state: what was waited and what is left to wait add up.
WaitAddsUp == waited + retry.countdown = Smaller(retry.attempts, MaxBackoffTicks)

\* "There is no attempt limit here, only a floor on how often"
\* (reconnect.rs:47-50): a socket that stays down and wanted is dialled again
\* and again.
NeverGivesUp == <>[](link = "Down" /\ wanted) => []<><<Dial>>_vars
=============================================================================
