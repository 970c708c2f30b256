------------------------------- MODULE Retry --------------------------------
(***************************************************************************)
(* The reconnect watchdog's schedule for one socket: a backoff counted in  *)
(* watchdog ticks, attempt n being followed by n ticks of waiting, up to a *)
(* ceiling.                                                                *)
(***************************************************************************)
EXTENDS Integers

CONSTANTS MaxBackoffTicks,   \* the ceiling (12 in the code)
          MaxAttempts        \* where the attempt counter saturates (2^32 - 1)

ASSUME BackoffAssumption ==
  /\ MaxBackoffTicks \in Nat \ {0}
  /\ MaxAttempts \in Nat
  /\ MaxBackoffTicks <= MaxAttempts

Link == {"Down", "Pending", "Up"}

Smaller(a, b) == IF a < b THEN a ELSE b

RetryState == [attempts : 0..MaxAttempts, countdown : 0..MaxBackoffTicks]
RetryDefault == [attempts |-> 0, countdown |-> 0]

\* Whether Retry::tick answers Connect.
Dials(r, link, wanted) == wanted /\ link = "Down" /\ r.countdown = 0

\* The schedule after an attempt.
AfterDial(r) ==
  LET n == Smaller(r.attempts + 1, MaxAttempts) IN
  [attempts |-> n, countdown |-> Smaller(n, MaxBackoffTicks)]

\* Mutant: a handshake in flight runs the countdown down as well.
TickedThroughHandshake(r, link, wanted) ==
  CASE ~wanted \/ link = "Up" -> RetryDefault
    [] wanted /\ link # "Up" /\ r.countdown > 0 -> [r EXCEPT !.countdown = @ - 1]
    [] wanted /\ link = "Pending" /\ r.countdown = 0 -> r
    [] Dials(r, link, wanted) -> AfterDial(r)

\* Mutant: there is an attempt limit after all.
TickedToALimit(r, link, wanted) ==
  CASE ~wanted \/ link = "Up" -> RetryDefault
    [] wanted /\ (link = "Pending" \/ r = [attempts |-> MaxAttempts, countdown |-> 0]) -> r
    [] wanted /\ link = "Down" /\ r.countdown > 0 -> [r EXCEPT !.countdown = @ - 1]
    [] OTHER -> AfterDial(r)

\* Retry::tick, what it leaves behind.
Ticked(r, link, wanted) ==
  CASE ~wanted \/ link = "Up" -> RetryDefault
    [] wanted /\ link = "Pending" -> r
    [] wanted /\ link = "Down" /\ r.countdown > 0 -> [r EXCEPT !.countdown = @ - 1]
    [] Dials(r, link, wanted) -> AfterDial(r)
=============================================================================
