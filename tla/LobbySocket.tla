----------------------------- MODULE LobbySocket -----------------------------
(***************************************************************************)
(* The lobby client's socket: the supervisor that opens one session after  *)
(* another, the frames queued for the server, the keepalive, and around it *)
(* the service's Connect and Disconnect commands and the watchdog.         *)
(*                                                                         *)
(* A Connect task names the connection it opens: the channels, the         *)
(* cancellation token and the supervisor of task d are those indexed by d. *)
(***************************************************************************)
EXTENDS Retry, Sequences, FiniteSets

CONSTANTS Dialer,       \* Connect commands, of the user, the UI or the watchdog
          Hanger,       \* Disconnect commands
          Frame,        \* frames services send: a join, a host request, ...
          None,
          MaxFailures,  \* attempts in a row that may come to nothing (10)
          UpdateCap,    \* slots of the update channel (8)
          FrameCap,     \* slots of the outgoing channel (8)
          MaxFaults     \* bound: sessions lost, refused or gone silent

ASSUME TaskAssumption == Dialer # {} /\ None \notin Dialer /\ Dialer \cap Hanger = {}
ASSUME LimitAssumption == /\ {MaxFailures, UpdateCap, FrameCap} \subseteq Nat \ {0}
                          /\ MaxFaults \in Nat

VARIABLES
  signedIn,               \* auth state; the token store holds a token with it
  status, active,         \* AppState.lobby.status and lobby_active
  retry,                  \* the watchdog's schedule for the lobby
  pc,                     \* per command task
  cancelSlot, outSlot,    \* the client's handles: whose token, whose sender
  cancelled,              \* connections whose token is cancelled
  sup, failures, updates, \* per connection: supervisor, its count, its channel
  outgoing,               \* per connection: frames queued for the server
  pinged, silent,         \* per connection: ping unanswered, server gone silent
  faults,                 \* faults so far
  sent,                   \* frames written to a socket
  wanted, fruitless,      \* history: what the user wants, attempts in vain
  dying, between          \* history: frames queued on a lost socket, after its loss

flagVars   == <<status, active>>
clientVars == <<cancelSlot, outSlot, cancelled>>
supVars    == <<sup, failures, fruitless>>
aliveVars  == <<pinged, silent>>
frameVars  == <<outgoing, sent, dying, between>>
vars == <<signedIn, flagVars, retry, pc, clientVars, supVars, updates, aliveVars,
          frameVars, faults, wanted>>

Init ==
  /\ signedIn = FALSE
  /\ status = "Disconnected"
  /\ active = FALSE
  /\ retry = RetryDefault
  /\ pc = [t \in Dialer \cup Hanger |-> "idle"]
  /\ cancelSlot = None
  /\ outSlot = None
  /\ cancelled = {}
  /\ sup = [d \in Dialer |-> "off"]
  /\ failures = [d \in Dialer |-> 0]
  /\ updates = [d \in Dialer |-> <<>>]
  /\ outgoing = [d \in Dialer |-> <<>>]
  /\ pinged = [d \in Dialer |-> FALSE]
  /\ silent = [d \in Dialer |-> FALSE]
  /\ faults = 0
  /\ sent = {}
  /\ wanted = FALSE
  /\ fruitless = [d \in Dialer |-> 0]
  /\ dying = {}
  /\ between = {}

Goto(t, from, to) ==
  /\ pc[t] = from
  /\ pc' = [pc EXCEPT ![t] = to]

-----------------------------------------------------------------------------
(* The user, the UI and the watchdog *)

SignIn(d) ==
  /\ ~signedIn
  /\ signedIn' = TRUE
  /\ Goto(d, "idle", "start")
  /\ UNCHANGED <<flagVars, retry, clientVars, supVars, updates, aliveVars, frameVars, faults, wanted>>

SignOut(h) ==
  /\ signedIn
  /\ signedIn' = FALSE
  /\ Goto(h, "idle", "hangUp")
  /\ UNCHANGED <<flagVars, retry, clientVars, supVars, updates, aliveVars, frameVars, faults, wanted>>

UserConnects(d) ==
  /\ signedIn
  /\ status = "Disconnected"
  /\ Goto(d, "idle", "start")
  /\ UNCHANGED <<signedIn, flagVars, retry, clientVars, supVars, updates, aliveVars, frameVars, faults, wanted>>

UserDisconnects(h) ==
  /\ signedIn
  /\ status # "Disconnected"
  /\ Goto(h, "idle", "hangUp")
  /\ UNCHANGED <<signedIn, flagVars, retry, clientVars, supVars, updates, aliveVars, frameVars, faults, wanted>>

\* lobby_auto_reconnect is created disarmed, and no command of the lobby
\* service arms it.
Armed == FALSE

LinkOf(s) ==
  CASE s = "Disconnected" -> "Down" [] s = "Connecting" -> "Pending" [] s = "Connected" -> "Up"

WatchdogTick ==
  /\ retry' = IF signedIn THEN Ticked(retry, LinkOf(status), Armed) ELSE RetryDefault
  /\ IF signedIn /\ Dials(retry, LinkOf(status), Armed)
     THEN \E d \in Dialer : Goto(d, "idle", "start")
     ELSE UNCHANGED pc
  /\ UNCHANGED <<signedIn, flagVars, clientVars, supVars, updates, aliveVars, frameVars, faults, wanted>>

-----------------------------------------------------------------------------
(* LobbyCommand::Connect *)

Start(d) ==
  /\ Goto(d, "start", IF active THEN "idle" ELSE "connecting")
  /\ active' = TRUE
  /\ wanted' = TRUE
  /\ UNCHANGED <<signedIn, status, retry, clientVars, supVars, updates, aliveVars, frameVars, faults>>

EmitConnecting(d) ==
  /\ Goto(d, "connecting", "open")
  /\ status' = "Connecting"
  /\ UNCHANGED <<signedIn, active, retry, clientVars, supVars, updates, aliveVars, frameVars, faults, wanted>>

\* LobbyPort::connect: fresh token and channels, the previous token cancelled.
Open(d) ==
  /\ Goto(d, "open", "relay")
  /\ cancelled' = (cancelled \cup ({cancelSlot} \ {None})) \ {d}
  /\ cancelSlot' = d
  /\ outSlot' = d
  /\ sup' = [sup EXCEPT ![d] = "dial"]
  /\ failures' = [failures EXCEPT ![d] = 0]
  /\ fruitless' = [fruitless EXCEPT ![d] = 0]
  /\ outgoing' = [outgoing EXCEPT ![d] = <<>>]
  /\ UNCHANGED <<signedIn, flagVars, retry, updates, aliveVars, sent, dying, between, faults, wanted>>

StatusAfter(update) ==
  CASE update = "Authenticated" -> "Connected"
    [] update = "Reconnecting" -> "Connecting"
    [] OTHER -> status

\* Mutant: the loop stops reading what a connection told to stop still pushes.
RelayUntilHungUp(d) ==
  /\ pc[d] = "relay"
  /\ updates[d] # <<>>
  /\ d \notin cancelled
  /\ status' = StatusAfter(Head(updates[d]))
  /\ updates' = [updates EXCEPT ![d] = Tail(@)]
  /\ UNCHANGED <<signedIn, active, retry, pc, clientVars, supVars, aliveVars, frameVars, faults, wanted>>

\* The loop's recv, whose room lets a session that is blocked go on.
Relay(d) ==
  /\ pc[d] = "relay"
  /\ updates[d] # <<>>
  /\ status' = StatusAfter(Head(updates[d]))
  /\ updates' = [updates EXCEPT ![d] = Tail(@)]
  /\ UNCHANGED <<signedIn, active, retry, pc, clientVars, supVars, aliveVars, frameVars, faults, wanted>>

LoopEnds(d) ==
  /\ updates[d] = <<>>
  /\ sup[d] = "off"
  /\ Goto(d, "relay", "closing")
  /\ active' = FALSE
  /\ UNCHANGED <<signedIn, status, retry, clientVars, supVars, updates, aliveVars, frameVars, faults, wanted>>

EmitDisconnected(d) ==
  /\ Goto(d, "closing", "idle")
  /\ status' = "Disconnected"
  /\ UNCHANGED <<signedIn, active, retry, clientVars, supVars, updates, aliveVars, frameVars, faults, wanted>>

Connect(d) ==
  Start(d) \/ EmitConnecting(d) \/ Open(d) \/ Relay(d) \/ LoopEnds(d) \/ EmitDisconnected(d)

\* LobbyCommand::Disconnect, its LobbyPort::disconnect
HangUp(h) ==
  /\ Goto(h, "hangUp", "idle")
  /\ cancelled' = cancelled \cup ({cancelSlot} \ {None})
  /\ cancelSlot' = None
  /\ outSlot' = None
  /\ wanted' = FALSE
  /\ UNCHANGED <<signedIn, flagVars, retry, supVars, updates, aliveVars, frameVars, faults>>

\* send_frame, of whichever service: the frame is queued for the connection
\* the client holds, or refused. A frame is sent by one call.
QueueFrame(f) ==
  LET d == outSlot IN
  /\ d # None
  /\ sup[d] # "off"
  /\ Len(outgoing[d]) < FrameCap
  /\ f \notin sent \cup dying \cup between
  /\ \A e \in Dialer : \A i \in DOMAIN outgoing[e] : outgoing[e][i] # f
  /\ outgoing' = [outgoing EXCEPT ![d] = Append(@, f)]
  /\ dying' = IF sup[d] \in {"lost", "lostUp"} THEN dying \cup {f} ELSE dying
  /\ between' = IF sup[d] \in {"reopen", "backoff"} THEN between \cup {f} ELSE between
  /\ UNCHANGED <<signedIn, flagVars, retry, pc, clientVars, supVars, updates, aliveVars, sent, faults, wanted>>

-----------------------------------------------------------------------------
(* The supervisor and its session. A push awaits room in the channel: the  *)
(* update a blocked session holds is the one beyond UpdateCap, and until   *)
(* the loop makes room for it the session neither reads its socket, nor    *)
(* writes a frame, nor pings, nor looks at its cancellation.               *)

Move(d, from, to) ==
  /\ sup[d] = from
  /\ sup' = [sup EXCEPT ![d] = to]

Blocked(d) == Len(updates[d]) > UpdateCap

Push(d, update) ==
  /\ ~Blocked(d)
  /\ updates' = [updates EXCEPT ![d] = Append(@, update)]

\* Signed out there is no token and no hope. Nothing here looks at the
\* cancellation.
Dial(d) ==
  /\ Move(d, "dial", IF signedIn THEN "handshake" ELSE "off")
  /\ UNCHANGED <<signedIn, flagVars, retry, pc, clientVars, failures, fruitless, updates, aliveVars, frameVars, faults, wanted>>

\* ask_session to welcome
Welcome(d) ==
  /\ Move(d, "handshake", "up")
  /\ Push(d, "Authenticated")
  /\ pinged' = [pinged EXCEPT ![d] = FALSE]
  /\ silent' = [silent EXCEPT ![d] = FALSE]
  /\ UNCHANGED <<signedIn, flagVars, retry, pc, clientVars, failures, fruitless, frameVars, faults, wanted>>

\* Frames wait for the welcome.
WriteFrame(d) ==
  /\ sup[d] = "up" /\ ~Blocked(d)
  /\ outgoing[d] # <<>>
  /\ sent' = sent \cup {Head(outgoing[d])}
  /\ outgoing' = [outgoing EXCEPT ![d] = Tail(@)]
  /\ UNCHANGED <<signedIn, flagVars, retry, pc, clientVars, supVars, updates, aliveVars, dying, between, faults, wanted>>

QueuedFor(d) == {outgoing[d][i] : i \in DOMAIN outgoing[d]}

\* The session is lost, in any of its stages; or an answer to its ping waited
\* unread behind a blocked push, and its keepalive came first.
Fault(d) ==
  /\ ~Blocked(d)
  /\ faults < MaxFaults
  /\ faults' = faults + 1
  /\ \/ \E s \in {"dial", "handshake"} : Move(d, s, "lost")
     \/ Move(d, "up", "lostUp")
     \/ Move(d, "dial", "off")          \* an unsafe URL is hopeless
  /\ dying' = dying \cup QueuedFor(d)
  /\ UNCHANGED <<signedIn, flagVars, retry, pc, clientVars, failures, fruitless, updates, aliveVars, outgoing, sent, between, wanted>>

GoSilent(d) ==
  /\ sup[d] = "up"
  /\ ~silent[d]
  /\ faults < MaxFaults
  /\ faults' = faults + 1
  /\ silent' = [silent EXCEPT ![d] = TRUE]
  /\ UNCHANGED <<signedIn, flagVars, retry, pc, clientVars, supVars, updates, pinged, frameVars, wanted>>

\* Mutant: whatever this side sends counts as a sign of life.
KeepaliveForgets(d) ==
  /\ sup[d] = "up" /\ ~Blocked(d)
  /\ pinged[d] => silent[d]
  /\ pinged' = [pinged EXCEPT ![d] = ~@]
  /\ UNCHANGED <<signedIn, flagVars, retry, pc, clientVars, supVars, updates, silent, frameVars, faults, wanted>>

\* Ten seconds without a frame. A server that is there answers a ping in less.
Keepalive(d) ==
  /\ sup[d] = "up" /\ ~Blocked(d)
  /\ \/ /\ ~pinged[d]
        /\ pinged' = [pinged EXCEPT ![d] = TRUE]
        /\ UNCHANGED <<sup, dying>>
     \/ /\ pinged[d] /\ silent[d]
        /\ Move(d, "up", "lostUp")
        /\ dying' = dying \cup QueuedFor(d)
        /\ UNCHANGED pinged
  /\ UNCHANGED <<signedIn, flagVars, retry, pc, clientVars, failures, fruitless, updates, silent, outgoing, sent, between, faults, wanted>>

\* Any frame from the server: an answer to the ping, or news to push.
Hear(d) ==
  /\ sup[d] = "up"
  /\ ~silent[d]
  /\ pinged' = [pinged EXCEPT ![d] = FALSE]
  /\ \/ pinged[d] /\ ~Blocked(d) /\ UNCHANGED updates
     \/ Push(d, "News")
  /\ UNCHANGED <<signedIn, flagVars, retry, pc, clientVars, supVars, silent, frameVars, faults, wanted>>

\* Cancelled, noticed by the session's select: the end of the connection.
NoticeCancel(d) ==
  /\ d \in cancelled /\ ~Blocked(d)
  /\ \E s \in {"handshake", "up"} : Move(d, s, "off")
  /\ UNCHANGED <<signedIn, flagVars, retry, pc, clientVars, failures, fruitless, updates, aliveVars, frameVars, faults, wanted>>

\* Mutant: the count is never reset by a session that worked.
Counted(d) == failures[d] + 1

\* A session that worked and then dropped starts the count again.
FailuresAfter(d) == IF sup[d] = "lostUp" THEN 1 ELSE failures[d] + 1

\* Mutant: the frames of the lost connection stay in the queue.
KeepQueued(d) == outgoing[d]

\* A frame addressed to the connection that just went is thrown away.
DrainQueued(d) == <<>>

\* After a lost session: give up, or drain the queue and go on.
AfterLoss(d) ==
  /\ sup[d] \in {"lost", "lostUp"}
  /\ failures' = [failures EXCEPT ![d] = FailuresAfter(d)]
  /\ fruitless' = [fruitless EXCEPT ![d] = IF sup[d] = "lostUp" THEN 0 ELSE @ + 1]
  /\ IF FailuresAfter(d) >= MaxFailures
     THEN sup' = [sup EXCEPT ![d] = "off"] /\ UNCHANGED outgoing
     ELSE /\ sup' = [sup EXCEPT ![d] = "reopen"]
          /\ outgoing' = [outgoing EXCEPT ![d] = DrainQueued(d)]
  /\ UNCHANGED <<signedIn, flagVars, retry, pc, clientVars, updates, aliveVars, sent, dying, between, faults, wanted>>

AnnounceReconnecting(d) ==
  /\ Move(d, "reopen", "backoff")
  /\ Push(d, "Reconnecting")
  /\ UNCHANGED <<signedIn, flagVars, retry, pc, clientVars, failures, fruitless, aliveVars, frameVars, faults, wanted>>

Backoff(d) ==
  /\ ~Blocked(d)
  /\ \/ Move(d, "backoff", "dial")
     \/ d \in cancelled /\ Move(d, "backoff", "off")
  /\ UNCHANGED <<signedIn, flagVars, retry, pc, clientVars, failures, fruitless, updates, aliveVars, frameVars, faults, wanted>>

Supervise(d) ==
  Dial(d) \/ Welcome(d) \/ AfterLoss(d) \/ AnnounceReconnecting(d) \/ Backoff(d)

-----------------------------------------------------------------------------

Next ==
  \/ \E d \in Dialer : \/ SignIn(d) \/ UserConnects(d) \/ Connect(d)
                       \/ Supervise(d) \/ NoticeCancel(d) \/ WriteFrame(d)
                       \/ Fault(d) \/ GoSilent(d) \/ Keepalive(d) \/ Hear(d)
  \/ \E h \in Hanger : SignOut(h) \/ UserDisconnects(h) \/ HangUp(h)
  \/ \E f \in Frame : QueueFrame(f)
  \/ WatchdogTick

Spec == Init /\ [][Next]_vars

\* Tasks get on with what they do, a session's select sees a cancellation or a
\* frame whenever it keeps being there to see, its keepalive fires, the watchdog ticks. Faults come to an
\* end; nothing makes a user act.
Fairness ==
  /\ \A d \in Dialer : /\ WF_vars(Connect(d))
                       /\ WF_vars(Supervise(d))
                       /\ SF_vars(NoticeCancel(d))
                       /\ WF_vars(WriteFrame(d))
                       /\ WF_vars(Keepalive(d))
                       /\ WF_vars(Hear(d))
  /\ \A h \in Hanger : WF_vars(HangUp(h))
  /\ SF_vars(WatchdogTick)

FairSpec == Spec /\ Fairness

-----------------------------------------------------------------------------
(* Properties *)

\* Shapes, and the bounds of the channels and the loss counter.
TypeOK ==
  /\ signedIn \in BOOLEAN
  /\ status \in {"Disconnected", "Connecting", "Connected"}
  /\ active \in BOOLEAN
  /\ retry \in RetryState
  /\ pc \in [Dialer \cup Hanger -> {"idle", "start", "connecting", "open", "relay",
                                    "closing", "hangUp"}]
  /\ cancelSlot \in Dialer \cup {None} /\ outSlot \in Dialer \cup {None}
  /\ cancelled \subseteq Dialer
  /\ sup \in [Dialer -> {"off", "dial", "handshake", "up", "lost", "lostUp", "reopen", "backoff"}]
  /\ failures \in [Dialer -> 0..MaxFailures]
  /\ updates \in [Dialer -> Seq({"Authenticated", "Reconnecting", "News"})]
  /\ outgoing \in [Dialer -> Seq(Frame)]
  /\ \A d \in Dialer : Len(updates[d]) <= UpdateCap + 1 /\ Len(outgoing[d]) <= FrameCap
  /\ pinged \in [Dialer -> BOOLEAN] /\ silent \in [Dialer -> BOOLEAN]
  /\ faults \in 0..MaxFaults
  /\ sent \subseteq Frame
  /\ wanted \in BOOLEAN
  /\ fruitless \in [Dialer -> 0..MaxFailures]
  /\ dying \subseteq Frame /\ between \subseteq Frame

\* Owns the connection flight.
Owner(d) == pc[d] \in {"connecting", "open", "relay"}

\* The flight has one owner, and a supervisor only ever runs for it: no
\* socket outlives its loop or competes with the next one (runtime/mod.rs:29-31).
OneConnection ==
  /\ active <=> \E d \in Dialer : Owner(d)
  /\ \A d, e \in Dialer : Owner(d) /\ Owner(e) => d = e
  /\ \A d \in Dialer : sup[d] # "off" => pc[d] = "relay"

\* A live connection can be told to stop: the client holds its token until it
\* has been cancelled.
LiveIsCancellable ==
  \A d \in Dialer : sup[d] # "off" => cancelSlot = d \/ d \in cancelled

\* A frame that was waiting when its socket was lost is not replayed onto the
\* socket that replaces it: connect empties the queue between the two
\* (lobby_ws.rs:240-244). The comment on run_session's parameter says the
\* contrary; see WaitingFramesOutliveTheSocket below.
LostFramesStayLost == sent \cap dying = {}

\* A line that drops again and again is not given up on while sessions keep
\* coming up in between: the limit is reached by attempts that came to nothing,
\* the last session that worked counted along (lobby_ws.rs:61-64, 229-232).
GivesUpOnlyInVain ==
  [][\A d \in Dialer : failures'[d] > failures[d] /\ failures'[d] = MaxFailures
        => fruitless'[d] + 1 >= MaxFailures]_vars

\* A server that went silent is noticed, without help from the kernel
\* (lobby_ws.rs:500-504).
SilenceIsNoticed == \A d \in Dialer : (sup[d] = "up" /\ silent[d]) ~> (sup[d] # "up")

\* A connection that was told to hang up ends: dialling, backing off, up with
\* news that keeps coming, or blocked in a push to a channel that is full, where
\* it cannot see the cancellation (lobby_ws.rs:192, 621).
HangUpEnds == \A d \in Dialer : (d \in cancelled) ~> (sup[d] = "off")

(* What the comments say and the code does not do *)

\* "this watchdog covers the case they cannot: a connection that has ended for
\* good while the user is still logged in" (reconnect.rs:14-19).
Up == \E d \in Dialer : sup[d] = "up"
LobbyComesBack == <>[](wanted /\ signedIn) => []<>Up

\* "a game_join that was waiting when the connection dropped is still there for
\* the session that replaces it" (lobby_ws.rs:401-403): the queue is emptied
\* before that session begins (lobby_ws.rs:240-244).
WaitingFramesOutliveTheSocket ==
  [][\A d \in Dialer : sup[d] \in {"lost", "lostUp"} /\ sup'[d] = "reopen"
        => QueuedFor(d) \subseteq QueuedFor(d)']_vars

\* "must not be replayed minutes later onto its replacement"
\* (lobby_ws.rs:240-243): neither is a frame queued while there is no socket.
BackoffFramesNotReplayed == sent \cap between = {}

\* "Give up ... after this many attempts in a row that never reached an
\* authenticated session" (lobby_ws.rs:61-63).
GivesUpAfterVainAttempts ==
  [][\A d \in Dialer : failures'[d] > failures[d] /\ failures'[d] = MaxFailures
        => fruitless'[d] = MaxFailures]_vars
=============================================================================
