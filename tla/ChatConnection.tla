--------------------------- MODULE ChatConnection ---------------------------
(***************************************************************************)
(* The chat connection and what keeps it alive: the Connect and Disconnect *)
(* commands of the chat service, the IRC client's supervisor with its own  *)
(* retries, the token store it depends on, and the watchdog that dials     *)
(* again when a connection has ended for good.                             *)
(*                                                                         *)
(* A Connect task names the connection it opens: the update channel, the   *)
(* cancellation token and the supervisor of task d are those indexed by d. *)
(***************************************************************************)
EXTENDS Retry, Sequences, FiniteSets

CONSTANTS Dialer,       \* Connect commands, of the user, the UI or the watchdog
          Hanger,       \* Disconnect commands
          None,
          MaxFailures,  \* attempts one supervisor may lose (10 in the code)
          UpdateCap,    \* slots of the update channel (256 in the code)
          MaxFaults     \* bound: lost connections, refusals and token expiries

ASSUME TaskAssumption == Dialer # {} /\ None \notin Dialer /\ Dialer \cap Hanger = {}
ASSUME LimitAssumption == /\ MaxFailures \in Nat \ {0}
                          /\ UpdateCap \in Nat \ {0}
                          /\ MaxFaults \in Nat

VARIABLES
  signedIn, token,        \* auth state, and what the token store holds
  status,                 \* AppState.chat.status
  armed, active,          \* chat_auto_reconnect and chat_active
  retry,                  \* the watchdog's schedule for chat
  pc,                     \* per command task
  cancelSlot, updateSlot, \* the client's handles: whose token, whose sender
  cancelled,              \* connections whose token is cancelled
  sup, failures, updates, \* per connection: supervisor, its losses, its channel
  faults,                 \* faults so far
  wanted,                 \* history: the user's last command to take effect was Connect
  fruitless               \* history: attempts in a row that never registered

authVars   == <<signedIn, token>>
flagVars   == <<status, armed, active>>
clientVars == <<cancelSlot, updateSlot, cancelled>>
supVars    == <<sup, failures, updates, fruitless>>
vars == <<authVars, flagVars, retry, pc, clientVars, supVars, faults, wanted>>

SupState == {"off", "announce", "dial", "session", "online",
             "dropped", "refused", "hungUp", "backoff", "release"}

Init ==
  /\ signedIn = FALSE
  /\ token = "none"
  /\ status = "Disconnected"
  /\ armed = FALSE
  /\ active = FALSE
  /\ retry = RetryDefault
  /\ pc = [t \in Dialer \cup Hanger |-> "idle"]
  /\ cancelSlot = None
  /\ updateSlot = None
  /\ cancelled = {}
  /\ sup = [d \in Dialer |-> "off"]
  /\ failures = [d \in Dialer |-> 0]
  /\ updates = [d \in Dialer |-> <<>>]
  /\ faults = 0
  /\ wanted = FALSE
  /\ fruitless = [d \in Dialer |-> 0]

Goto(t, from, to) ==
  /\ pc[t] = from
  /\ pc' = [pc EXCEPT ![t] = to]

-----------------------------------------------------------------------------
(* Signing in and out, and the commands the UI sends on them; the OAuth    *)
(* provider renews the token on its own.                                   *)

SignIn(d) ==
  /\ ~signedIn
  /\ signedIn' = TRUE
  /\ token' = "valid"
  /\ Goto(d, "idle", "arm")
  /\ UNCHANGED <<flagVars, retry, clientVars, supVars, faults, wanted>>

SignOut(h) ==
  /\ signedIn
  /\ signedIn' = FALSE
  /\ token' = "none"
  /\ Goto(h, "idle", "disarm")
  /\ UNCHANGED <<flagVars, retry, clientVars, supVars, faults, wanted>>

TokenExpires ==
  /\ token = "valid"
  /\ faults < MaxFaults
  /\ faults' = faults + 1
  /\ token' = "expired"
  /\ UNCHANGED <<signedIn, flagVars, retry, pc, clientVars, supVars, wanted>>

TokenRenewed ==
  /\ token = "expired"
  /\ token' = "valid"
  /\ UNCHANGED <<signedIn, flagVars, retry, pc, clientVars, supVars, faults, wanted>>

\* The status bar offers to connect while chat is shown as disconnected, and
\* to disconnect otherwise.
UserConnects(d) ==
  /\ signedIn
  /\ status = "Disconnected"
  /\ Goto(d, "idle", "arm")
  /\ UNCHANGED <<authVars, flagVars, retry, clientVars, supVars, faults, wanted>>

UserDisconnects(h) ==
  /\ signedIn
  /\ status # "Disconnected"
  /\ Goto(h, "idle", "disarm")
  /\ UNCHANGED <<authVars, flagVars, retry, clientVars, supVars, faults, wanted>>

-----------------------------------------------------------------------------
(* The watchdog *)

LinkOf(s) ==
  CASE s = "Disconnected" -> "Down" [] s = "Connecting" -> "Pending" [] s = "Connected" -> "Up"

\* Mutant: a schedule that signing out does not clear.
TickSignedOut ==
  /\ retry' = Ticked(retry, LinkOf(status), armed)
  /\ IF signedIn /\ Dials(retry, LinkOf(status), armed)
     THEN \E d \in Dialer : Goto(d, "idle", "redial")
     ELSE UNCHANGED pc
  /\ UNCHANGED <<authVars, flagVars, clientVars, supVars, faults, wanted>>

\* One tick. Signed out, the schedule is cleared.
WatchdogTick ==
  /\ retry' = IF signedIn THEN Ticked(retry, LinkOf(status), armed) ELSE RetryDefault
  /\ IF signedIn /\ Dials(retry, LinkOf(status), armed)
     THEN \E d \in Dialer : Goto(d, "idle", "redial")
     ELSE UNCHANGED pc
  /\ UNCHANGED <<authVars, flagVars, clientVars, supVars, faults, wanted>>

-----------------------------------------------------------------------------
(* ChatCommand::Connect *)

\* Mutant: armed only by the Connect that takes the flight.
ArmLate(d) ==
  /\ pc[d] \in {"arm", "redial"}
  /\ pc' = [pc EXCEPT ![d] = "start"]
  /\ armed' = (armed \/ ~active)
  /\ wanted' = (wanted \/ pc[d] = "arm")
  /\ UNCHANGED <<authVars, status, active, retry, clientVars, supVars, faults>>

\* Armed before the flight is asked for, so a Connect that is dropped arms too.
Arm(d) ==
  /\ pc[d] \in {"arm", "redial"}
  /\ pc' = [pc EXCEPT ![d] = "start"]
  /\ armed' = TRUE
  /\ wanted' = (wanted \/ pc[d] = "arm")
  /\ UNCHANGED <<authVars, status, active, retry, clientVars, supVars, faults>>

\* Mutant: the flight is not asked for.
StartAlways(d) ==
  /\ Goto(d, "start", "connecting")
  /\ active' = TRUE
  /\ UNCHANGED <<authVars, status, armed, retry, clientVars, supVars, faults, wanted>>

Start(d) ==
  /\ Goto(d, "start", IF active THEN "idle" ELSE "connecting")
  /\ active' = TRUE
  /\ UNCHANGED <<authVars, status, armed, retry, clientVars, supVars, faults, wanted>>

EmitConnecting(d) ==
  /\ Goto(d, "connecting", "open")
  /\ status' = "Connecting"
  /\ UNCHANGED <<authVars, armed, active, retry, clientVars, supVars, faults, wanted>>

\* ChatPort::connect: fresh token and channels, the previous token cancelled.
Open(d) ==
  /\ Goto(d, "open", "relay")
  /\ cancelled' = (cancelled \cup ({cancelSlot} \ {None})) \ {d}
  /\ cancelSlot' = d
  /\ updateSlot' = d
  /\ sup' = [sup EXCEPT ![d] = "announce"]
  /\ UNCHANGED <<authVars, flagVars, retry, updates, failures, fruitless, faults, wanted>>

Relay(d) ==
  /\ pc[d] = "relay"
  /\ updates[d] # <<>>
  /\ status' = Head(updates[d])
  /\ updates' = [updates EXCEPT ![d] = Tail(@)]
  /\ UNCHANGED <<authVars, armed, active, retry, pc, clientVars, sup, failures, fruitless, faults, wanted>>

\* The stream is closed once the supervisor and the client have put down
\* their senders.
StreamClosed(d) == sup[d] = "off" /\ updateSlot # d

LoopEnds(d) ==
  /\ updates[d] = <<>>
  /\ StreamClosed(d)
  /\ Goto(d, "relay", "closing")
  /\ active' = FALSE
  /\ UNCHANGED <<authVars, status, armed, retry, clientVars, supVars, faults, wanted>>

EmitDisconnected(d) ==
  /\ Goto(d, "closing", "idle")
  /\ status' = "Disconnected"
  /\ UNCHANGED <<authVars, armed, active, retry, clientVars, supVars, faults, wanted>>

Connect(d) ==
  Arm(d) \/ Start(d) \/ EmitConnecting(d) \/ Open(d) \/ Relay(d) \/ LoopEnds(d) \/ EmitDisconnected(d)

(* ChatCommand::Disconnect *)

Disarm(h) ==
  /\ Goto(h, "disarm", "hangUp")
  /\ armed' = FALSE
  /\ wanted' = FALSE
  /\ UNCHANGED <<authVars, status, active, retry, clientVars, supVars, faults>>

\* ChatPort::disconnect
HangUp(h) ==
  /\ Goto(h, "hangUp", "idle")
  /\ cancelled' = cancelled \cup ({cancelSlot} \ {None})
  /\ cancelSlot' = None
  /\ updateSlot' = None
  /\ UNCHANGED <<authVars, flagVars, retry, supVars, faults, wanted>>

-----------------------------------------------------------------------------
(* The supervisor of the connection task d opened *)

\* The supervisor goes from one state to another and pushes a status.
Push(d, from, to, s) ==
  /\ sup[d] = from
  /\ sup' = [sup EXCEPT ![d] = to]
  /\ Len(updates[d]) < UpdateCap
  /\ updates' = [updates EXCEPT ![d] = Append(@, s)]

Move(d, from, to) ==
  /\ sup[d] = from
  /\ sup' = [sup EXCEPT ![d] = to]
  /\ UNCHANGED updates

Announce(d) ==
  /\ Push(d, "announce", "dial", "Connecting")
  /\ UNCHANGED <<authVars, flagVars, retry, pc, clientVars, failures, fruitless, faults, wanted>>

\* The token is read, and exchanged for a one-time chat token. Nothing here
\* looks at the cancellation.
Dial(d) ==
  /\ \/ token = "none" /\ Move(d, "dial", "release")
     \/ token = "expired" /\ Move(d, "dial", "refused")
     \/ token = "valid" /\ Move(d, "dial", "session")
  /\ UNCHANGED <<authVars, flagVars, retry, pc, clientVars, failures, fruitless, faults, wanted>>

Register(d) ==
  /\ Push(d, "session", "online", "Connected")
  /\ fruitless' = [fruitless EXCEPT ![d] = 0]
  /\ UNCHANGED <<authVars, flagVars, retry, pc, clientVars, failures, faults, wanted>>

\* The socket is lost or never opens, or the server rejects the login.
Fault(d) ==
  /\ faults < MaxFaults
  /\ faults' = faults + 1
  /\ \/ \E s \in {"dial", "session", "online"} : Move(d, s, "dropped")
     \/ Move(d, "session", "refused")
  /\ UNCHANGED <<authVars, flagVars, retry, pc, clientVars, failures, fruitless, wanted>>

\* Mutant: a session that is up does not listen for the cancellation.
NoticeBeforeOnline(d) ==
  /\ d \in cancelled
  /\ Move(d, "session", "hungUp")
  /\ UNCHANGED <<authVars, flagVars, retry, pc, clientVars, failures, fruitless, faults, wanted>>

\* The session's select sees the cancellation.
NoticeCancel(d) ==
  /\ d \in cancelled
  /\ \E s \in {"session", "online"} : Move(d, s, "hungUp")
  /\ UNCHANGED <<authVars, flagVars, retry, pc, clientVars, failures, fruitless, faults, wanted>>

\* After a lost attempt: give up, or wait and try again.
ReportDrop(d) ==
  /\ failures' = [failures EXCEPT ![d] = @ + 1]
  /\ fruitless' = [fruitless EXCEPT ![d] = @ + 1]
  /\ Push(d, "dropped", IF failures[d] + 1 >= MaxFailures THEN "release" ELSE "backoff", "Disconnected")
  /\ UNCHANGED <<authVars, flagVars, retry, pc, clientVars, faults, wanted>>

\* Refused or hung up: the end of this connection.
ReportEnd(d) ==
  /\ \E s \in {"refused", "hungUp"} : Push(d, s, "release", "Disconnected")
  /\ UNCHANGED <<authVars, flagVars, retry, pc, clientVars, failures, fruitless, faults, wanted>>

Backoff(d) ==
  /\ \/ Move(d, "backoff", "announce")
     \/ d \in cancelled /\ Move(d, "backoff", "release")
  /\ UNCHANGED <<authVars, flagVars, retry, pc, clientVars, failures, fruitless, faults, wanted>>

\* Mutant: the client keeps its sender when the supervisor gives up.
ReleaseNothing(d) ==
  /\ Move(d, "release", "off")
  /\ UNCHANGED <<authVars, flagVars, retry, pc, clientVars, failures, fruitless, faults, wanted>>

\* ConnectionSlots::release, unless a newer connection has the slots. The
\* counters are the supervisor's own and end with it.
Release(d) ==
  /\ Move(d, "release", "off")
  /\ updateSlot' = IF updateSlot = d THEN None ELSE updateSlot
  /\ failures' = [failures EXCEPT ![d] = 0]
  /\ fruitless' = [fruitless EXCEPT ![d] = 0]
  /\ UNCHANGED <<authVars, flagVars, retry, pc, cancelSlot, cancelled, faults, wanted>>

Supervise(d) ==
  \/ Announce(d) \/ Dial(d) \/ Register(d) \/ NoticeCancel(d)
  \/ ReportDrop(d) \/ ReportEnd(d) \/ Backoff(d) \/ Release(d)

-----------------------------------------------------------------------------

Next ==
  \/ \E d \in Dialer : SignIn(d) \/ UserConnects(d) \/ Connect(d) \/ Supervise(d) \/ Fault(d)
  \/ \E h \in Hanger : SignOut(h) \/ UserDisconnects(h) \/ Disarm(h) \/ HangUp(h)
  \/ TokenExpires
  \/ TokenRenewed
  \/ WatchdogTick

Spec == Init /\ [][Next]_vars

\* Tasks get on with what they do, the select of a session sees a cancellation
\* that stays, the provider renews tokens, the watchdog ticks (and is not kept
\* from spawning a Connect by the number of Dialers). Faults come to an end;
\* nothing makes a user act.
Fairness ==
  /\ \A d \in Dialer : /\ WF_vars(Connect(d))
                       /\ WF_vars(Supervise(d))
                       /\ WF_vars(NoticeCancel(d))
  /\ \A h \in Hanger : WF_vars(Disarm(h) \/ HangUp(h))
  /\ WF_vars(TokenRenewed)
  /\ SF_vars(WatchdogTick)

FairSpec == Spec /\ Fairness

-----------------------------------------------------------------------------
(* Properties *)

Status == {"Disconnected", "Connecting", "Connected"}

\* Shapes, and the bounds of the channel, the schedule and the loss counter.
TypeOK ==
  /\ signedIn \in BOOLEAN
  /\ token \in {"none", "valid", "expired"}
  /\ status \in Status
  /\ armed \in BOOLEAN /\ active \in BOOLEAN
  /\ retry \in RetryState
  /\ pc \in [Dialer \cup Hanger -> {"idle", "arm", "redial", "start", "connecting", "open", "relay",
                                    "closing", "disarm", "hangUp"}]
  /\ cancelSlot \in Dialer \cup {None}
  /\ updateSlot \in Dialer \cup {None}
  /\ cancelled \subseteq Dialer
  /\ sup \in [Dialer -> SupState]
  /\ failures \in [Dialer -> 0..MaxFailures]
  /\ updates \in [Dialer -> Seq(Status)]
  /\ \A d \in Dialer : Len(updates[d]) <= UpdateCap
  /\ faults \in 0..MaxFaults
  /\ wanted \in BOOLEAN
  /\ fruitless \in [Dialer -> 0..MaxFailures]

\* Owns the connection flight.
Owner(d) == pc[d] \in {"connecting", "open", "relay"}

\* The flight has one owner, and a supervisor only ever runs for it: no
\* socket outlives its loop or competes with the next one, whoever dials
\* (runtime/mod.rs:29-31,39).
OneConnection ==
  /\ active <=> \E d \in Dialer : Owner(d)
  /\ \A d, e \in Dialer : Owner(d) /\ Owner(e) => d = e
  /\ \A d \in Dialer : sup[d] # "off" => pc[d] = "relay"

\* A supervisor that gave up leaves nothing that keeps the service's stream
\* open: otherwise every later Connect is dropped (infra/irc.rs:119-125).
GivingUpClosesTheStream == \A d \in Dialer : sup[d] = "off" => updateSlot # d

\* A live connection can be told to stop: the client holds its token until it
\* has been cancelled.
LiveIsCancellable ==
  \A d \in Dialer : sup[d] # "off" => cancelSlot = d \/ d \in cancelled

\* Chat that the user has not hung up comes back, whatever was lost, refused,
\* expired or hung up before and in whichever order the watchdog and the user
\* dial (reconnect.rs:14-19).
Online == \E d \in Dialer : sup[d] = "online"
ChatComesBack == <>[](wanted /\ signedIn) => []<>Online

\* A connection that was told to hang up ends, backing off or not.
HangingUp == \E d \in Dialer : d \in cancelled /\ sup[d] # "off"
HangUpEnds == HangingUp ~> ~HangingUp

\* The watchdog on its own, with what observe makes of the chat state: what
\* has been waited since the last attempt is what is no longer left of it.
Schedule == INSTANCE Watchdog WITH
  link   <- LinkOf(status),
  wanted <- signedIn /\ armed,
  waited <- Smaller(retry.attempts, MaxBackoffTicks) - retry.countdown

\* Whatever dials, drops, arms and signs out around it, chat's schedule is
\* the watchdog's: it is touched by ticks only, a tick sees the link and the
\* wish as they are, and signing out forgets it (services/reconnect.rs:123-154).
ImplementsWatchdog == Schedule!Spec

(* What the comments say and the code does not do *)

Settled == \A t \in Dialer \cup Hanger : pc[t] \in {"idle", "relay"}

\* "hanging up from the status bar stays hung up until the user says
\* otherwise" (reconnect.rs:24-27).
HungUpStaysHungUp == signedIn /\ ~wanted /\ Settled => ~armed

\* "Give up ... after this many consecutive failures that never reached
\* registration" (infra/irc.rs:84-86).
GivesUpOnlyUnregistered ==
  [][\A d \in Dialer : failures'[d] > failures[d] /\ failures'[d] = MaxFailures
        => fruitless'[d] = MaxFailures]_vars

\* "overlapping connections cannot race and clobber each other's state"
\* (runtime/mod.rs:29-31, the same guard for chat at :39): with everything
\* relayed, a registered connection is not shown as closed.
StatusFollowsConnection ==
  (Online /\ Settled /\ \A d \in Dialer : updates[d] = <<>>) => status = "Connected"
=============================================================================
