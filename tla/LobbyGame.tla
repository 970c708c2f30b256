----------------------------- MODULE LobbyGame ------------------------------
(***************************************************************************)
(* The lobby service and the launcher: what the concurrent command tasks   *)
(* (Connect, Join, Host, CancelJoin, ...), the update loop of the Connect  *)
(* task and the game-exit watchers do to the flags, ports and application  *)
(* state they share.                                                       *)
(*                                                                         *)
(* Every task is a program: a label it waits at, and the effects it has    *)
(* still to perform before the label counts. An effect is one access to    *)
(* shared state (one atomic store, one port call, one emitted event), so   *)
(* tasks interleave between any two of them, as they do on the runtime.    *)
(***************************************************************************)
EXTENDS Integers, Sequences, FiniteSets

CONSTANTS JoinTask,     \* Join commands; each stands also for the game it joins
          HostTask,     \* Host commands; each stands also for the game it opens
          UserTask,     \* other commands of the user
          Command,      \* which those may be
          ConnectTask,  \* Connect commands
          Launch,       \* launch orders of the server, and their game processes
          MatchGame,    \* the game of a matchmaker's launch order
          None,
          Notice,       \* which notices the server sends: Kill, Kick
          UpdateCap,    \* slots of the update channel (8 in the code)
          FrameCap,     \* slots of the queue of client frames (8 in the code)
          MaxDrops      \* bound: connection attempts and connections lost

Task == JoinTask \cup HostTask \cup UserTask \cup ConnectTask \cup Launch
GameId == JoinTask \cup HostTask \cup {MatchGame}

ASSUME TasksDiffer ==
  /\ LET Kind == <<JoinTask, HostTask, UserTask, ConnectTask, Launch>>
     IN  \A i, j \in 1..5 : i # j => Kind[i] \cap Kind[j] = {}
  /\ MatchGame \notin Task
  /\ None \notin Task \cup {MatchGame}
ASSUME CommandsKnown ==
  Command \subseteq {"CancelJoin", "DeclineModReplacement", "TerminateGame", "Disconnect",
                      "WatchReplay"}
ASSUME NoticesKnown == Notice \subseteq {"Kill", "Kick"}
ASSUME CapAssumption == /\ UpdateCap \in Nat \ {0}
                        /\ FrameCap \in Nat \ {0}
                        /\ MaxDrops \in Nat

VARIABLES
  status, join,               \* AppState.lobby: status and join
  lobbyActive, joinActive, joinCancelled,  \* the flags of ServiceCtx
  pc, todo,                   \* per task: its label and its pending effects
  outcome,                    \* per task: what its preparation is about to return
  order,                      \* per Connect task: the launch order being handled
  stream, token, port,        \* the connection: socket supervisor, cancel token, sender
  outgoing, updates,          \* frames to the server, updates from it
  drops,                      \* connections lost so far
  ice,                        \* the launch the connectivity adapter runs for
  slot, alive, poller,        \* game child slot, running processes, exit polls
  signalled,                  \* running processes that were told to end
  prepared, calledOff, revived  \* history, for the properties only

appState == <<status, join>>
flags    == <<lobbyActive, joinActive, joinCancelled>>
program  == <<pc, todo, outcome, order>>
socket   == <<stream, token, port, outgoing, updates, drops>>
game     == <<ice, slot, alive, poller, signalled>>
history  == <<prepared, calledOff, revived>>
vars == <<appState, flags, program, socket, game, history>>

-----------------------------------------------------------------------------
(* Effects: an effect is what is done and, for some, to which game. The    *)
(* events of the reducer are named like the join state they lead to.       *)

Do(what) == [do |-> what, id |-> None]
DoFor(what, id) == [do |-> what, id |-> id]

JoinPhase == {"Idle", "Joining", "JoiningPrepared", "Launched", "Preparing", "InGame",
              "NeedsModReplacement", "Failed", "LaunchFailed"}
EventName == (JoinPhase \ {"Idle"})
             \cup {"JoinCancelled", "GameTerminated", "Connecting", "Connected", "Disconnected"}
CallName == {"clear", "cancel", "finishJoin", "finishLobby", "kill", "iceStop",
             "portConnect", "portDisconnect"}
Effect == [do : EventName \cup CallName, id : GameId \cup {None}]

\* Mutant: a reconnect leaves the join standing.
JoinAfterKept(e) ==
  IF e.do \in JoinPhase THEN [phase |-> e.do, id |-> e.id]
  ELSE IF \/ e.do \in {"GameTerminated", "Disconnected"}
          \/ /\ e.do = "JoinCancelled"
             /\ join.phase \in {"Joining", "JoiningPrepared", "Preparing", "NeedsModReplacement"}
  THEN [phase |-> "Idle", id |-> None]
  ELSE join

\* reduce, on the join.
JoinAfter(e) ==
  IF e.do \in JoinPhase THEN [phase |-> e.do, id |-> e.id]
  ELSE IF \/ e.do \in {"Connecting", "GameTerminated", "Disconnected"}
          \/ /\ e.do = "JoinCancelled"
             /\ join.phase \in {"Joining", "JoiningPrepared", "Preparing", "NeedsModReplacement"}
  THEN [phase |-> "Idle", id |-> None]
  ELSE join

\* reduce, on the status.
StatusAfter(e) == IF e.do \in {"Connecting", "Connected", "Disconnected"} THEN e.do ELSE status

Emit(e) ==
  /\ e.do \in EventName
  /\ join' = JoinAfter(e)
  /\ status' = StatusAfter(e)
  /\ UNCHANGED <<flags, socket, game, history>>

\* Join and Host tasks whose work an effective cancel calls off.
InPreparation == {"prepare", "prepared", "mods", "check"}
Preparing == {t \in JoinTask \cup HostTask : pc[t] \in InPreparation}

SetFlag(e) ==
  \/ /\ e.do = "clear"
     /\ joinCancelled' = FALSE
     /\ revived' = revived \cup calledOff
     /\ UNCHANGED <<appState, lobbyActive, joinActive, socket, game, prepared, calledOff>>
  \/ /\ e.do = "cancel"
     /\ joinCancelled' = TRUE
     /\ calledOff' = calledOff \cup Preparing
     /\ UNCHANGED <<appState, lobbyActive, joinActive, socket, game, prepared, revived>>
  \/ /\ e.do = "finishJoin"
     /\ joinActive' = FALSE
     /\ UNCHANGED <<appState, lobbyActive, joinCancelled, socket, game, history>>
  \/ /\ e.do = "finishLobby"
     /\ lobbyActive' = FALSE
     /\ UNCHANGED <<appState, joinActive, joinCancelled, socket, game, history>>

\* The launches whose process is not in the slot yet.
Launching == {order[c].launch : c \in {d \in ConnectTask :
                 pc[d] \in {"prepare", "prepared", "check", "ice", "spawn", "start", "replace"}}}

\* start_kill on the child in the slot: a process that is still running has
\* been told to end, and ends in its own time.
Signal == signalled' = signalled \cup ({slot} \cap alive)

\* ProcessPort::kill: take the child out of its slot and kill it.
Kill ==
  /\ Signal
  /\ slot' = None
  /\ UNCHANGED <<ice, alive, poller>>

\* LobbyPort::connect returns once the supervisor is spawned.
PortConnect ==
  /\ stream' = "opening"
  /\ token' = "live"
  /\ port' = TRUE
  /\ outgoing' = <<>>
  /\ updates' = <<>>
  /\ UNCHANGED drops

PortDisconnect ==
  /\ token' = IF token = "live" THEN "cancelled" ELSE token
  /\ port' = FALSE
  /\ UNCHANGED <<stream, outgoing, updates, drops>>

CallPort(e) ==
  /\ \/ e.do = "kill" /\ Kill /\ calledOff' = calledOff \cup Launching /\ UNCHANGED socket
     \/ e.do = "iceStop" /\ ice' = None /\ UNCHANGED <<slot, alive, poller, signalled, socket, calledOff>>
     \/ e.do = "portConnect" /\ PortConnect /\ UNCHANGED <<game, calledOff>>
     \/ e.do = "portDisconnect" /\ PortDisconnect /\ UNCHANGED <<game, calledOff>>
  /\ UNCHANGED <<appState, flags, prepared, revived>>

\* A task performs the first effect it has pending.
Step(a) ==
  /\ todo[a] # <<>>
  /\ Emit(Head(todo[a])) \/ SetFlag(Head(todo[a])) \/ CallPort(Head(todo[a]))
  /\ todo' = [todo EXCEPT ![a] = Tail(@)]
  /\ UNCHANGED <<pc, outcome, order>>

At(a, label) == pc[a] = label /\ todo[a] = <<>>

\* The task performs these effects and is then at that label.
Goto(a, label, effects) ==
  /\ pc' = [pc EXCEPT ![a] = label]
  /\ todo' = [todo EXCEPT ![a] = effects]

Terminate == <<Do("kill"), Do("iceStop"), Do("finishJoin"), Do("GameTerminated")>>
ReportFailure == <<Do("iceStop"), Do("LaunchFailed")>>
LaunchFailure == Append(ReportFailure, Do("finishJoin"))

Init ==
  /\ status = "Disconnected"
  /\ join = [phase |-> "Idle", id |-> None]
  /\ lobbyActive = FALSE
  /\ joinActive = FALSE
  /\ joinCancelled = FALSE
  /\ pc = [a \in Task |-> "new"]
  /\ todo = [a \in Task |-> <<>>]
  /\ outcome = [a \in Task |-> "failed"]
  /\ order = [c \in ConnectTask |-> [id |-> None, launch |-> None]]
  /\ stream = "closed"
  /\ token = "none"
  /\ port = FALSE
  /\ outgoing = <<>>
  /\ updates = <<>>
  /\ drops = 0
  /\ ice = None
  /\ slot = None
  /\ alive = {}
  /\ poller = {}
  /\ signalled = {}
  /\ prepared = {}
  /\ calledOff = {}
  /\ revived = {}

Idle == UNCHANGED <<appState, flags, outcome, order, socket, game, history>>

-----------------------------------------------------------------------------
(* Preparation, shared by joining, hosting and launching: the generated    *)
(* map, then the updater's stream in prepare_request.                      *)

PrepareFails(t) ==
  IF t \in JoinTask
  THEN Goto(t, "done", <<Do("finishJoin")>> \o ReportFailure)
  ELSE IF t \in HostTask
  THEN Goto(t, "done", ReportFailure)
  ELSE Goto(t, "recv", LaunchFailure)

\* ensure_generated_map has no cancelled outcome.
GenerateMapFails(t) ==
  /\ At(t, "prepare")
  /\ PrepareFails(t)
  /\ Idle

\* UpdateProgress::Step.
PrepareStep(t) ==
  /\ At(t, "prepare")
  /\ ~joinCancelled
  /\ Goto(t, "prepare", <<Do("Preparing")>>)
  /\ Idle

\* UpdateProgress::Finished, and the end of the stream. A cancelled stream is
\* drained without being looked at, so the outcome stays the pessimistic one.
PrepareFinished(t) ==
  /\ At(t, "prepare")
  /\ \E result \in {"ok", "failed"} :
        /\ outcome' = [outcome EXCEPT ![t] = IF joinCancelled THEN "failed" ELSE result]
        /\ prepared' = IF result = "ok" THEN prepared \cup ({t} \ ConnectTask) ELSE prepared
  /\ Goto(t, "prepared", <<>>)
  /\ UNCHANGED <<appState, flags, order, socket, game, calledOff, revived>>

\* What follows a preparation that returns Ok.
AfterPrepare(t) ==
  IF t \in JoinTask THEN "mods" ELSE IF t \in HostTask THEN "send" ELSE "check"

\* prepare_request's last look at the flag: cancelled is no error.
PrepareReturns(t) ==
  /\ At(t, "prepared")
  /\ IF joinCancelled \/ outcome[t] = "ok"
     THEN Goto(t, AfterPrepare(t), <<>>)
     ELSE PrepareFails(t)
  /\ outcome' = [outcome EXCEPT ![t] = "failed"]
  /\ UNCHANGED <<appState, flags, order, socket, game, history>>

Preparation(t) ==
  GenerateMapFails(t) \/ PrepareStep(t) \/ PrepareFinished(t) \/ PrepareReturns(t)

-----------------------------------------------------------------------------
(* LobbyCommand::Join *)

\* The command is dropped while another join holds the flight.
JoinCommand(t) ==
  /\ At(t, "new")
  /\ IF joinActive
     THEN Goto(t, "done", <<>>)
     ELSE Goto(t, "status", <<Do("clear")>>)
  /\ joinActive' = TRUE
  /\ UNCHANGED <<appState, lobbyActive, joinCancelled, outcome, order, socket, game, history>>

JoinChecksStatus(t) ==
  /\ At(t, "status")
  /\ IF status = "Connected"
     THEN Goto(t, "find", <<DoFor("Joining", t)>>)
     ELSE Goto(t, "done", <<Do("finishJoin"), DoFor("Failed", t)>>)
  /\ Idle

\* The games list is the server's, so the game may have gone from it.
JoinFindsGame(t) ==
  /\ At(t, "find")
  /\ \/ Goto(t, "prepare", <<>>)
     \/ Goto(t, "done", <<Do("finishJoin"), DoFor("Failed", t)>>)
  /\ Idle

\* ensure_game_mods runs whether or not the join was cancelled.
JoinEnsuresMods(t) ==
  /\ At(t, "mods")
  /\ \/ Goto(t, "check", <<>>)
     \/ Goto(t, "done", <<Do("finishJoin"), DoFor("NeedsModReplacement", t)>>)
     \/ PrepareFails(t)
  /\ Idle

\* Mutant: the flag is not read after the preparation.
JoinIgnoresCancel(t, label, next, effects) ==
  /\ At(t, label)
  /\ Goto(t, next, effects)
  /\ Idle

\* The two reads of the flag, after the preparation and before the request.
JoinChecksCancel(t, label, next, effects) ==
  /\ At(t, label)
  /\ IF joinCancelled
     THEN Goto(t, "done", <<Do("finishJoin"), Do("JoinCancelled")>>)
     ELSE Goto(t, next, effects)
  /\ Idle

\* LobbyPort::join and LobbyPort::host: try_send, which fails without a
\* connection and on a full queue. A host request that cannot be sent is only
\* logged.
SendRequest(t) ==
  /\ At(t, "send")
  /\ \/ /\ port /\ Len(outgoing) < FrameCap
        /\ outgoing' = Append(outgoing, t)
        /\ Goto(t, "sent", <<>>)
     \/ /\ ~port \/ Len(outgoing) = FrameCap
        /\ UNCHANGED outgoing
        /\ Goto(t, "done", IF t \in JoinTask THEN <<Do("finishJoin"), DoFor("Failed", t)>> ELSE <<>>)
  /\ UNCHANGED <<appState, flags, outcome, order, stream, token, port, updates, drops, game, history>>

Join(t) ==
  \/ JoinCommand(t)
  \/ JoinChecksStatus(t)
  \/ JoinFindsGame(t)
  \/ Preparation(t)
  \/ JoinEnsuresMods(t)
  \/ JoinChecksCancel(t, "check", "recheck", <<DoFor("JoiningPrepared", t)>>)
  \/ JoinChecksCancel(t, "recheck", "send", <<>>)
  \/ SendRequest(t)

(* LobbyCommand::Host takes no flight and clears no flag. *)

HostCommand(t) ==
  /\ At(t, "new")
  /\ Goto(t, "prepare", <<>>)
  /\ Idle

Host(t) == HostCommand(t) \/ Preparation(t) \/ SendRequest(t)

-----------------------------------------------------------------------------
(* The other commands *)

\* Both Launched and InGame count as past the point of cancelling.
CancelJoin ==
  IF join.phase \in {"Launched", "InGame"}
  THEN Terminate
  ELSE <<Do("cancel"), Do("finishJoin"), Do("JoinCancelled")>>

DeclineModReplacement ==
  IF join.phase = "NeedsModReplacement" THEN <<Do("JoinCancelled")>> ELSE <<>>

Disconnect == <<Do("JoinCancelled"), Do("portDisconnect"), Do("finishJoin")>>

\* The progress dialog offers to cancel while it is open; the handler looks at
\* the join again when it gets to run.
UserCancels(u) ==
  /\ "CancelJoin" \in Command
  /\ At(u, "new")
  /\ join.phase \in {"Preparing", "Launched"}
  /\ Goto(u, "cancel", <<>>)
  /\ Idle

UserCommand(u) ==
  /\ \/ At(u, "cancel") /\ Goto(u, "done", CancelJoin)
     \/ /\ At(u, "new")
        /\ \/ "DeclineModReplacement" \in Command /\ Goto(u, "done", DeclineModReplacement)
           \/ "TerminateGame" \in Command /\ Goto(u, "done", Terminate)
           \/ "Disconnect" \in Command /\ Goto(u, "done", Disconnect)
  /\ Idle

-----------------------------------------------------------------------------
(* Two processes of one install: a slot for the game, a slot for a replay. *)
(* spawn looks at the other slot, starts the process and only then fills   *)
(* its own slot. One replay is watched at a time here, from the install    *)
(* the games are played from.                                              *)

ReplaySlotHolds == \E u \in UserTask : pc[u] = "replaying"

\* other_slot_holds(Replay): the game's slot is emptied on the way if its
\* child has exited, and nobody is woken.
WatchReplay(u) ==
  /\ "WatchReplay" \in Command
  /\ At(u, "new")
  /\ \A v \in UserTask : pc[v] \notin {"startReplay", "replaying"}
  /\ Goto(u, IF slot \in alive THEN "done" ELSE "startReplay", <<>>)
  /\ slot' = IF slot \in alive THEN slot ELSE None
  /\ UNCHANGED <<appState, flags, outcome, order, socket, ice, alive, poller, signalled, history>>

ReplayRuns(u) == At(u, "startReplay") /\ Goto(u, "replaying", <<>>) /\ Idle
ReplayExits(u) == At(u, "replaying") /\ Goto(u, "done", <<>>) /\ Idle

-----------------------------------------------------------------------------
(* LobbyCommand::Connect and its update loop *)

\* Mutant: Connect does not ask whether a connection is active.
ConnectAlways(c) ==
  /\ At(c, "new")
  /\ lobbyActive' = TRUE
  /\ Goto(c, "recv", <<Do("Connecting"), Do("portConnect")>>)
  /\ UNCHANGED <<appState, joinActive, joinCancelled, outcome, order, socket, game, history>>

ConnectCommand(c) ==
  /\ At(c, "new")
  /\ ~lobbyActive          \* otherwise the command is dropped
  /\ lobbyActive' = TRUE
  /\ Goto(c, "recv", <<Do("Connecting"), Do("portConnect")>>)
  /\ UNCHANGED <<appState, joinActive, joinCancelled, outcome, order, socket, game, history>>

Received(c, kind) ==
  /\ At(c, "recv")
  /\ updates # <<>>
  /\ Head(updates).kind = kind
  /\ updates' = Tail(updates)
  /\ UNCHANGED <<appState, flags, outcome, stream, token, port, outgoing, drops, game, history>>

\* The updates that only emit, release or stop something.
HandlePlain(c) ==
  /\ \/ Received(c, "Authenticated") /\ Goto(c, "recv", <<Do("Connected")>>)
     \/ Received(c, "Reconnecting") /\ Goto(c, "recv", <<Do("Connecting")>>)
     \/ /\ Received(c, "JoinFailed")
        /\ Goto(c, "recv", <<Do("finishJoin"), DoFor("Failed", Head(updates).id)>>)
     \/ Received(c, "Kill") /\ Goto(c, "recv", Terminate)
     \/ Received(c, "Kick") /\ Goto(c, "recv", <<Do("portDisconnect")>>)
  /\ UNCHANGED order

\* The launch order is handled inside the loop, to its end. The join that was
\* prepared for it is not prepared again. Nobody may be logged in any more.
HandleLaunch(c) ==
  /\ Received(c, "Launch")
  /\ LET id == Head(updates).id IN
     /\ order' = [order EXCEPT ![c] = [id |-> id, launch |-> Head(updates).launch]]
     /\ \/ Goto(c, IF join = [phase |-> "JoiningPrepared", id |-> id] THEN "ice" ELSE "prepare",
                <<DoFor("Launched", id), Do("clear")>>)
        \/ Goto(c, "recv", <<DoFor("Launched", id)>> \o LaunchFailure)

\* Mutant: the flight is not released when the stream ends.
LoopEndsHolding(c) ==
  /\ At(c, "recv")
  /\ stream = "closed"
  /\ updates = <<>>
  /\ Goto(c, "new", <<Do("finishJoin"), Do("Disconnected")>>)
  /\ Idle

LoopEnds(c) ==
  /\ At(c, "recv")
  /\ stream = "closed"
  /\ updates = <<>>
  /\ Goto(c, "new", <<Do("finishLobby"), Do("finishJoin"), Do("Disconnected")>>)
  /\ Idle

(* launcher::start, after the preparation *)

LaunchChecksCancel(c) ==
  /\ At(c, "check")
  /\ IF joinCancelled
     THEN Goto(c, "recv", <<Do("iceStop"), Do("finishJoin")>>)
     ELSE Goto(c, "ice", <<>>)
  /\ Idle

StartIce(c) ==
  /\ At(c, "ice")
  /\ \/ ice' = order[c].launch /\ Goto(c, "spawn", <<>>)
     \/ UNCHANGED ice /\ Goto(c, "recv", LaunchFailure)
  /\ UNCHANGED <<appState, flags, outcome, order, socket, slot, alive, poller, signalled, history>>

\* No log file, no usable install, or a replay running from it: the replay
\* slot is looked at once, before the process is started.
LaunchGameChecks(c) ==
  /\ At(c, "spawn")
  /\ \/ ~ReplaySlotHolds /\ Goto(c, "start", <<>>)
     \/ Goto(c, "recv", <<Do("iceStop")>> \o LaunchFailure)
  /\ Idle

\* Command::spawn. The process runs; whatever the slot holds does too.
LaunchGame(c) ==
  /\ At(c, "start")
  /\ \/ alive' = alive \cup {order[c].launch} /\ Goto(c, "replace", <<>>)
     \/ UNCHANGED alive /\ Goto(c, "recv", <<Do("iceStop")>> \o LaunchFailure)
  /\ UNCHANGED <<appState, flags, outcome, order, socket, ice, slot, poller, signalled, history>>

\* Mutant: the previous child's handle is dropped, its process runs on.
ReplaceChildOrphans(c) ==
  /\ At(c, "replace")
  /\ slot' = order[c].launch
  /\ Goto(c, "announce", <<>>)
  /\ UNCHANGED <<appState, flags, outcome, order, socket, ice, alive, poller, signalled, history>>

\* The slot's previous child, if it is still there, is told to end.
ReplaceChild(c) ==
  /\ At(c, "replace")
  /\ Signal
  /\ slot' = order[c].launch
  /\ Goto(c, "announce", <<>>)
  /\ UNCHANGED <<appState, flags, outcome, order, socket, ice, alive, poller, history>>

\* The exit watcher is spawned and InGame emitted. The first poll of the child
\* comes half a second after its spawn: these lines are taken to be over by then.
AnnounceGame(c) ==
  /\ At(c, "announce")
  /\ LET n == order[c].launch IN
     /\ poller' = poller \cup {n}
     /\ pc' = [pc EXCEPT ![c] = "recv", ![n] = "waiting"]
  /\ join' = JoinAfter(Do("InGame"))
  /\ todo' = [todo EXCEPT ![c] = <<Do("finishJoin")>>]
  /\ UNCHANGED <<status, flags, outcome, order, socket, ice, slot, alive, signalled, history>>

Connect(c) ==
  \/ ConnectCommand(c)
  \/ HandlePlain(c)
  \/ HandleLaunch(c)
  \/ LoopEnds(c)
  \/ Preparation(c)
  \/ LaunchChecksCancel(c)
  \/ StartIce(c)
  \/ LaunchGameChecks(c)
  \/ LaunchGame(c)
  \/ ReplaceChild(c)
  \/ AnnounceGame(c)

-----------------------------------------------------------------------------
(* The game process *)

GameExits(n) ==
  /\ n \in alive
  /\ alive' = alive \ {n}
  /\ signalled' = signalled \ {n}
  /\ UNCHANGED <<appState, flags, program, socket, ice, slot, poller, history>>

\* Mutant: the watcher cleans up without telling the client.
WokenSilent(n) == <<Do("iceStop")>>

\* Mutant: the watcher reports the exit and leaves the adapter running.
WokenKeepsIce(n) == <<Do("GameTerminated")>>

\* What the exit watcher of a launch does once woken.
Woken(n) == <<Do("iceStop"), Do("GameTerminated")>>

\* watch_for_exit: the poll of launch n finds the slot empty, or its child
\* (whichever launch's it is) gone, and wakes every waiting watcher.
Poll(n) ==
  /\ n \in poller
  /\ slot \notin alive
  /\ slot' = None
  /\ poller' = poller \ {n}
  /\ pc' = [a \in Task |-> IF a \in Launch /\ pc[a] = "waiting" THEN "done" ELSE pc[a]]
  /\ todo' = [a \in Task |-> IF a \in Launch /\ pc[a] = "waiting" THEN Woken(a) ELSE todo[a]]
  /\ UNCHANGED <<appState, flags, outcome, order, socket, ice, alive, signalled, history>>

-----------------------------------------------------------------------------
(* The socket supervisor and the server, as far as the service can tell    *)
(* (LobbySocket has the supervisor in detail).                             *)

\* The update beyond the channel's slots is in the hands of the supervisor,
\* which waits in send for a slot: meanwhile it reads nothing, sends nothing
\* and sees no cancellation.
Blocked == Len(updates) > UpdateCap

Push(kind, id, n) == updates' = Append(updates, [kind |-> kind, id |-> id, launch |-> n])

SessionOpens ==
  /\ stream = "opening" /\ ~Blocked
  /\ token = "live"
  /\ stream' = "up"
  /\ Push("Authenticated", None, None)
  /\ UNCHANGED <<appState, flags, program, token, port, outgoing, drops, game, history>>

\* The frames for the lost connection are drained before anything is awaited.
SessionDrops ==
  /\ stream \in {"opening", "up"} /\ ~Blocked
  /\ drops < MaxDrops
  /\ drops' = drops + 1
  /\ stream' = "dropped"
  /\ outgoing' = <<>>
  /\ UNCHANGED <<appState, flags, program, token, port, updates, game, history>>

SessionRetries ==
  /\ stream = "dropped" /\ ~Blocked
  /\ stream' = "opening"
  /\ Push("Reconnecting", None, None)
  /\ UNCHANGED <<appState, flags, program, token, port, outgoing, drops, game, history>>

\* Cancelled, hopeless, or out of attempts.
SessionEnds ==
  /\ stream \in {"opening", "up", "dropped"} /\ ~Blocked
  /\ token = "cancelled" \/ stream # "up"
  /\ stream' = "closed"
  /\ port' = FALSE
  /\ outgoing' = <<>>
  /\ UNCHANGED <<appState, flags, program, token, updates, drops, game, history>>

\* A launch order that was not given before.
PushLaunch(id) ==
  \E n \in Launch :
     /\ pc[n] = "new"
     /\ pc' = [pc EXCEPT ![n] = "ordered"]
     /\ Push("Launch", id, n)

ServerAnswers ==
  /\ stream = "up" /\ ~Blocked
  /\ outgoing # <<>>
  /\ outgoing' = Tail(outgoing)
  /\ \/ PushLaunch(Head(outgoing))
     \/ Head(outgoing) \in JoinTask /\ Push("JoinFailed", Head(outgoing), None) /\ UNCHANGED pc
  /\ UNCHANGED <<appState, flags, todo, outcome, order, stream, token, port, drops, game, history>>

ServerSpeaks ==
  /\ stream = "up" /\ ~Blocked
  /\ \/ PushLaunch(MatchGame)
     \/ \E notice \in Notice : Push(notice, None, None) /\ UNCHANGED pc
  /\ UNCHANGED <<appState, flags, todo, outcome, order, stream, token, port, outgoing, drops, game, history>>

Session == SessionOpens \/ SessionDrops \/ SessionRetries \/ SessionEnds
Server  == ServerAnswers \/ ServerSpeaks

-----------------------------------------------------------------------------

Next ==
  \/ \E a \in Task : Step(a)
  \/ \E t \in JoinTask : Join(t)
  \/ \E t \in HostTask : Host(t)
  \/ \E u \in UserTask : UserCancels(u) \/ UserCommand(u)
                            \/ WatchReplay(u) \/ ReplayRuns(u) \/ ReplayExits(u)
  \/ \E c \in ConnectTask : Connect(c)
  \/ \E n \in Launch : GameExits(n) \/ Poll(n)
  \/ Session
  \/ Server

Spec == Init /\ [][Next]_vars

\* Tasks run on a multi-threaded runtime and get on with what they do; polls
\* fire; an updater's stream ends; a process that was told to end does. The
\* session's select picks among its ready branches at random, so a
\* cancellation that stays is seen although messages keep coming. Nothing
\* makes a game exit, a server speak or a user act.
Fairness ==
  /\ \A a \in Task : WF_vars(Step(a))
  /\ \A t \in JoinTask \cup HostTask \cup ConnectTask :
        SF_vars(PrepareFinished(t)) /\ WF_vars(PrepareReturns(t))
  /\ \A c \in ConnectTask :
        /\ WF_vars(HandlePlain(c) \/ HandleLaunch(c))
        /\ WF_vars(LoopEnds(c))
        /\ WF_vars(LaunchChecksCancel(c))
        /\ WF_vars(StartIce(c))
        /\ WF_vars(LaunchGameChecks(c) \/ LaunchGame(c) \/ ReplaceChild(c))
        /\ WF_vars(AnnounceGame(c))
  /\ \A n \in Launch : WF_vars(Poll(n)) /\ WF_vars(n \in signalled /\ GameExits(n))
  /\ SF_vars(token = "cancelled" /\ SessionEnds)

FairSpec == Spec /\ Fairness

-----------------------------------------------------------------------------
(* Properties *)

\* The labels of the tasks, and the shape of the rest of the state.
Label == {"new", "done", "status", "find", "prepare", "prepared", "mods", "check", "recheck",
          "send", "sent", "recv", "ice", "spawn", "start", "replace", "announce", "ordered", "waiting",
          "cancel", "startReplay", "replaying"}
Update == [kind : {"Authenticated", "Reconnecting", "JoinFailed", "Launch", "Kill", "Kick"},
           id : GameId \cup {None}, launch : Launch \cup {None}]

TypeOK ==
  /\ status \in {"Disconnected", "Connecting", "Connected"}
  /\ join \in [phase : JoinPhase, id : GameId \cup {None}]
  /\ lobbyActive \in BOOLEAN /\ joinActive \in BOOLEAN /\ joinCancelled \in BOOLEAN
  /\ pc \in [Task -> Label]
  /\ todo \in [Task -> Seq(Effect)]
  /\ outcome \in [Task -> {"ok", "failed"}]
  /\ order \in [ConnectTask -> [id : GameId \cup {None}, launch : Launch \cup {None}]]
  /\ stream \in {"closed", "opening", "up", "dropped"}
  /\ token \in {"none", "live", "cancelled"}
  /\ port \in BOOLEAN
  /\ outgoing \in Seq(JoinTask \cup HostTask) /\ Len(outgoing) <= FrameCap
  /\ updates \in Seq(Update) /\ Len(updates) <= UpdateCap + 1
  /\ drops \in 0..MaxDrops
  /\ ice \in Launch \cup {None}
  /\ slot \in Launch \cup {None}
  /\ alive \subseteq Launch
  /\ poller \subseteq Launch
  /\ signalled \subseteq alive
  /\ prepared \subseteq Task
  /\ calledOff \subseteq Task
  /\ revived \subseteq calledOff

\* No game process runs on where nobody can end it: it is in the slot, where
\* a kill reaches it, it has been told to end, or its launch is just putting
\* it into the slot, whatever kills, replaced launches and exits come between
\* (game.rs:276-289, the orphan a dropped handle once left behind).
NoOrphanGame ==
  \A n \in alive : \/ n = slot
                   \/ n \in signalled
                   \/ \E c \in ConnectTask : pc[c] = "replace" /\ order[c].launch = n

\* Some task has this effect still to perform.
Pending(what) == \E a \in Task : \E i \in DOMAIN todo[a] : todo[a][i].do = what

\* A connectivity adapter is never left running for nothing: there is a game
\* it may serve, a launch that is about to start one, somebody about to stop
\* it, or a watcher that will (launcher.rs:454-460, lobby.rs:731-736). The
\* poll of an older launch may empty the slot before the watcher waits.
NoOrphanAdapter ==
  ice # None => \/ slot # None
                \/ \E c \in ConnectTask : pc[c] \in {"spawn", "start", "replace", "announce"}
                \/ Pending("iceStop")
                \/ \E n \in poller : pc[n] = "waiting"

\* The client shows a game in progress only while there is one, or while the
\* event that ends it is on its way (launcher.rs:169-173).
InGameIsBacked ==
  join.phase = "InGame" => \/ slot # None
                           \/ Pending("GameTerminated")
                           \/ \E n \in poller : pc[n] = "waiting"

\* One update loop at a time: two Connect tasks never both read updates or
\* drive launches, even while one is closing down (runtime/mod.rs:29-31).
Looping(c) == pc[c] # "new" \/ Do("finishLobby") \in {todo[c][i] : i \in DOMAIN todo[c]}
OneUpdateLoop ==
  /\ \A c, d \in ConnectTask : Looping(c) /\ Looping(d) => c = d
  /\ (\E c \in ConnectTask : Looping(c)) <=> lobbyActive

\* A join called off while its files came down is not sent, unless a later
\* join or launch order cleared the flag it shares with it.
CalledOffNotSent == \A t \in calledOff \cap JoinTask : pc[t] = "sent" => t \in revived

\* A connection that was told to hang up ends, whatever its loop is in the
\* middle of (lobby.rs:319-325).
HangUpCompletes == token = "cancelled" ~> (~lobbyActive \/ token = "live")

\* A game that has ended is noticed: the client does not stay in a game that
\* is gone (launcher.rs:169-173).
GameEndIsNoticed == (join.phase = "InGame" /\ slot \notin alive) ~> (join.phase # "InGame")

\* Somebody is still at work on a join, a host request or a launch: a task, a
\* frame, an update, or the end of the connection. The server answers the
\* joins it receives.
Underway ==
  \/ \E a \in Task : todo[a] # <<>>
  \/ \E t \in JoinTask \cup HostTask : pc[t] \notin {"new", "sent", "done"}
  \/ \E c \in ConnectTask : pc[c] \notin {"new", "recv"}
  \/ outgoing # <<>>
  \/ updates # <<>>
  \/ stream = "dropped"
  \/ stream = "closed" /\ lobbyActive

\* No join is shown in progress that nothing will ever finish, whatever was
\* cancelled, lost or answered late (state/lobby.rs:639-643).
NoPhantomJoin == join.phase \in {"Joining", "JoiningPrepared"} => Underway

(* What the code's comments say and the code does not do *)

\* "the join request is never sent for a join that was called off while its
\* files were being fetched" (state/lobby.rs:583-585).
CancelledJoinNeverSent == \A t \in calledOff \cap JoinTask : pc[t] # "sent"

\* "a map that cannot be fetched is reported before a lobby exists for other
\* players to join" (launcher.rs:260-262).
HostOnlyPrepared == \A t \in HostTask : pc[t] = "sent" => t \in prepared

\* "A redundant request is dropped, so overlapping connections cannot race
\* and clobber each other's state" (runtime/mod.rs:29-31): with nothing left
\* to perform, an open and acknowledged connection is not shown as closed.
StatusFollowsConnection ==
  (stream = "up" /\ updates = <<>> /\ \A a \in Task : todo[a] = <<>>) => status # "Disconnected"

\* "A custom-game join stays single-flight from the first click until the
\* server accepts or rejects it" (runtime/mod.rs:33-35): no two preparations
\* at once.
JoinIsSingleFlight ==
  \A t, u \in JoinTask : pc[t] = "prepare" /\ pc[u] = "prepare" => t = u

\* "there is a running FA and an ICE session to take down, and no join left to
\* call off" (lobby.rs:297-299): a launch that was terminated before its game
\* was up does not bring the game up.
TerminatedLaunchStaysDown == calledOff \cap alive = {}

\* "two copies of one install cannot run at once" (game.rs:213-217): a game
\* and a replay are refused each other's install while the other runs.
GameAndReplayApart == ReplaySlotHolds => alive = {}

\* The same, of two games: the one a launch replaces is over by then.
OneGameAtATime == \A m, n \in alive : m = n

\* "preventing a racing launch frame from starting the game"
\* (state/lobby.rs:533-536): no game starts on a connection that was hung up.
NoGameAfterDisconnect == [][token = "cancelled" => alive' \subseteq alive]_vars

\* "were prepared before the join request was sent" (state/lobby.rs:338-339):
\* what the launcher takes as prepared was.
PreparedIsPrepared == join.phase = "JoiningPrepared" => join.id \in prepared

\* "the join state was already cleared by the cancel" (launcher.rs:109-110):
\* the progress dialog is not left open by a preparation that is over.
NoPhantomPreparation == join.phase = "Preparing" => Underway

\* "a client ends up reporting a join in progress that nothing will ever
\* finish" is what resetting the join on a reconnect is for
\* (state/lobby.rs:639-643): the flight is held only while a task, a frame or
\* an update can still release it.
FlightCanBeReleased ==
  joinActive => \/ \E t \in JoinTask : pc[t] \notin {"new", "sent", "done"} \/ todo[t] # <<>>
                \/ outgoing # <<>>
                \/ \E i \in DOMAIN updates : updates[i].kind \in {"JoinFailed", "Launch", "Kill"}
                \/ \E c \in ConnectTask : pc[c] \notin {"new", "recv"}
                \/ Pending("finishJoin")
=============================================================================
