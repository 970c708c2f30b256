# ForgeClient in TLA+

A verification development kept beside the code of ForgeClient, the desktop
client of Forged Alliance Forever (a Rust backend in `src/crates`, a Tauri shell
in `src/src-tauri`, a React frontend in `src/ui`). It models the concurrent
core of the client, model-checks it with TLC on small instances, and proves with
TLAPS, for every value of the constants, what matters most. Paths below are
relative to `src/`; "app" stands for `crates/faf-app/src`, "domain" for
`crates/faf-domain/src`.

    tlc -workers 4 -config StateMirror.cfg StateMirror     # a run
    tlapm ScreenProofs.tla                                 # the proofs

## 1. Inventory

The backend is an `App` (app `runtime/mod.rs`). Every command of the UI is
dispatched to a service and runs as **its own tokio task** (`runtime/mod.rs:418-455`):
two clicks are two tasks, and nothing orders them. Tasks share `ServiceCtx`, a
bundle of flags and guards and of **ports** (lobby, chat, process, ice, ...,
implemented in app `infra/`), and the one `AppState`, which they change only by
emitting events: `EventSink::emit` reduces the event into the state and
broadcasts it. The frontend keeps a copy of the state and sends commands.

| Component | State it keeps | Operations | What is hard | What makes it correct |
|---|---|---|---|---|
| **State mirror**: event sink, broadcast ring, Tauri forwarder, `snapshot` command, webview mirror (`runtime/mod.rs`, `src-tauri/src/lib.rs`, `ui/src/ipc/revisionedMirror.ts`) | state and revision behind a lock; ring of 256; in the webview revision, pending buffer, recovery flag | emit, forward, lag recovery, serve a snapshot, bootstrap (which may end in the startup error), receive, recover | concurrent emitters, lag, dropped window messages, snapshots that overtake or fall behind deltas, failed commands | the webview shows exactly the state of the revision it claims, never goes back, sees every hole and closes it |
| **Lobby service and launcher** (app `services/lobby.rs`, `services/launcher.rs`, domain `state/lobby.rs`) | `lobby_active`, `lobby_join_active`, one cancel flag, the join state on screen, the launch in hand | Connect (with its update loop), Join, Host, CancelJoin, DeclineModReplacement, TerminateGame, Disconnect; the launch chain: prepare, adapter, process, exit watcher | a join of minutes, cancelled, lost with its connection or answered late, beside launches handled inside the update loop and exits seen by polls | no orphaned game or adapter, no join or game shown that is not there, cancelled work goes no further |
| **Game process, adapter selection** (app `infra/game.rs`, `infra/ice_select.rs`) | the child of the game slot, exit pollers, the running adapter | spawn (the new process first, then the slot and the signal to the old one), kill, watch, start, stop | `notify_waiters` wakes every watcher; the slot is replaced while watchers wait; a second slot for the replay | no game out of reach |
| **Lobby socket** (app `infra/lobby_ws.rs`) | cancel-token slot, outgoing queue, update channel of 8, supervisor with failure count, session phases, keepalive | connect, disconnect, send_frame, retry with backoff, keepalive ping | frames around the loss of a socket, silent servers, cancellation at every phase, a session blocked in a push to a full channel | one connection, always cancellable; frames of a lost socket stay lost; a limit that counts fruitless attempts only |
| **Chat connection** (app `infra/irc.rs`, `infra/irc_session.rs`, `services/chat.rs`) | two slots (cancel token, update sender), supervisor, failure count, `chat_active`, armed flag | Connect, Disconnect, announce, dial, register, retry, give up | token expiry, watchdog and user dialling together, a stream that must close for the next Connect to be heard | one connection, always cancellable, gives up cleanly, comes back while wanted |
| **Reconnect watchdog** (app `services/reconnect.rs`, `runtime/policies.rs`) | per socket: attempts, countdown | a tick every 5 s: observe, count, dial | slow handshakes, flapping links, user changes between ticks | attempts spaced by the backoff they earned, never ending |
| **Matchmaking, party, vetoes** (app `services/lobby.rs`, `infra/lobby_ws.rs`, domain `state/lobby.rs`) | the search and match the session knows, the ones on screen, a watchdog per match found; the party | search, stop, match found, launched, cancelled, match-start timeout | three copies of one state changed on their own (server, session, screen), timers that know a match by its queue's name only, decisions taken under one lock and shown under another, a game that ends late or is terminated half way | the search shown is the server's, every match found is left in the end, a cancelled one leaves no game |
| **IRC session and chat state** (app `infra/irc_session.rs`, `infra/irc.rs`, `services/chat.rs`, domain `state/chat.rs`) | rosters and pending rosters of the session, wanted channels, the queue to the service, the tabs, rosters and messages on screen | join, part, kick, quit, rename, names lists, backfill, announced channels | a roster sent in pieces between joins and quits, two sockets that come up in either order, lines lost with a connection | the screen shows the session's and the server's members, wanted channels are joined, no message is missed |
| **Settings persistence** (app `services/settings.rs`, `infra/settings_file.rs`, `services/chat.rs`) | the slice, the UI's copy, drafts on their way, the queue of savers, the file, the read-marker timer | load, change a group, mark a channel read, persist, hang up | a load with commands running beside it, a save that begins before a change and ends after it, saves that fail, a client that dies while it writes | of what was loaded, the file ends as the state did and never goes back or in half |
| **Authentication** (app `services/auth.rs`, `infra/oauth.rs`, domain `state/auth.rs`, UI login view) | generation, cancellation slot, mutation guard, access token, keyring, refresh loops, the auth slice | restore, login, cancel, play offline, logout | answers that arrive after the command they belong to was replaced, a restore that starts late, a keyring that refuses, loops that cannot be stopped once they have their answer | a session on screen has a token, and a loop if there is something to renew it with; one loop; a login settles |
| **Game updater and content store** (app `infra/game_updater.rs`, `infra/replay.rs`) | content store, manifest, the live and the replay install with their links, a cached file list | prepare a game, prepare a replay, clean, clear | torn writes, crashes, files shared by hard links, an entry verified and read again later, a release published in between | an install ends with exactly the files of its release |
| **Replays, live tracking** (app `services/replays.rs`, `infra/replay.rs`) | vault results, replay slot, tracked game | search, watch, track | delayed starts, latest request wins | an older answer never replaces a newer one |
| **Latest-request users** (leaderboards, player card, coop, vault: `runtime/policies.rs` `LatestRequest`) | a generation each | request, answer | answers out of order | the same |
| **Client update, map generator, ICE adapters, relay** | a download, external processes | I/O | external programs, byte protocols | not a state-machine question |
| **Other features** (tournaments, guides, tutorials, events, streams, clans, galactic war, reporting, Discord, notifications) | their slice | fetch and show | little | little |

Interactions: UI → commands → service tasks → ports; ports → update channels →
the service's loop → events → `AppState` → mirror. The watchdog reads
`AppState` and spawns the same Connect commands a user would. The launcher runs
inside the lobby's update loop, so while a launch is prepared **no lobby update
is read**.

Everything here that is hard to test is listed, at its line, under "hazards" in
`PROJECT.json`, with the properties that watch it or the reason none does.

## 2. Modules

| Module | Models | Extends / composes |
|---|---|---|
| `AppStateView` | the abstract promise: one history of events, a viewer that shows growing prefixes of it | |
| `StateMirror` | the whole path from `emit` to the webview's store | refines `AppStateView` |
| `ScreenProofs` | proofs of both ends of what the screen shows: the mirror is the backend's state, the chat part of that state is what session and server have | `StateMirror`, `ChatSession` |
| `LobbyGame`, `LobbyGameProofs` | lobby service, launcher, game slot, adapter, join half of the reducer, as concurrent tasks; proofs | |
| `Retry` | the pure schedule of the watchdog (`Retry::tick`) | |
| `Watchdog` | the schedule against a free link and user | `Retry` |
| `ChatConnection` | chat service, supervisor, slots, status, watchdog, user and UI effects | `Retry`; implements `Watchdog` |
| `ChatConnectionProofs` | proofs, those of `Watchdog` and of its implementation included | `ChatConnection`, `Watchdog` |
| `LobbySocket` | lobby client: supervisor, session, keepalive, queue, with Connect, watchdog and user | `Retry` |
| `LobbySocketProofs` | proofs | `LobbySocket` |
| `Auth`, `AuthProofs` | sign-in commands, generations, guard, tokens, keyring, refresh loops; proofs | |
| `Settings`, `SettingsProofs` | the settings between memory and disk; proofs | |
| `Matchmaking`, `MatchmakingProofs` | search and match at the server, in the session, in the update loop and on screen, with the watchdogs; proofs | |
| `ChatSession` | channel membership at the server, in the session, in the service and on screen; its specification is `ChatSpec` | |
| `GameFiles`, `GameFilesProofs` | content store, manifest, live and replay install; proofs | |
| `MCLobbyGame`, `MCChatConnection`, `MCLobbySocket`, `MCChatSession`, `MCGameFiles` | the symmetry sets of the runs that use one | the module they are named after |

### StateMirror

`EventSink::emit` is two steps, `EmitReduce` and `EmitSend`, with the write guard
(`lock`) held in between, as it is in the code. `sent` is the broadcast ring from
its beginning and `cursor` the forwarder's position; it has lagged (`Lagged`)
when more than `Capacity` lie ahead, and then `ForwardResubscribe` takes a new
receiver and a snapshot under one lock. `wire` is the window's event channel,
which may drop a message (`ToWindow`, since `handle.emit`'s result is ignored).
The webview is `RevisionedMirror` operation by operation: `ReceiveSnapshot`,
`ReceiveEarly`, `ReceiveKnown`, `ReceiveNext`, `Drain`, `Replace`,
`RequestRecovery`, and `RecoverySettled` for the promise's then/catch/finally,
which run back to back. `bootstrap()` is `Listen`, `AskBootSnapshot`, `BootAnswered`: listener first, snapshot second; either may fail
(`BootFailed`), and then the startup error is all that is shown, for good. Data abstraction: the reducer
is *free*, the state is the sequence of events reduced so far, so the mirror is
right only if it applied the same events in the same order.

### LobbyGame

Every task is a program: a label `pc` and a list `todo` of effects still to
perform, each effect one access to shared state (an atomic store, a port call,
an emitted event), so any two tasks interleave between any two effects. `Join`,
`Host`, `UserCommand` (CancelJoin, DeclineModReplacement, TerminateGame,
Disconnect) and `Connect` are the command handlers; `Preparation` is shared by
the three callers of `prepare_request`; `Connect` is also the update loop, and the
launch chain (`HandleLaunch`, `Preparation`, `LaunchChecksCancel`, `StartIce`, `LaunchGameChecks`, `LaunchGame`, `ReplaceChild`, `AnnounceGame`) runs inside it.
`spawn` is three of these steps, as in the code: it looks at the replay's slot,
starts the process, and only then puts it into the slot and signals the child it
finds there, which dies when it dies (`signalled`). `WatchReplay`, `ReplayRuns` and
`ReplayExits` are a replay started beside it. `Woken` and `Poll` are the exit
watcher and the 500 ms poll. An update more than the channel has slots is in the
hands of the session, which waits in `send` and does nothing else (`Blocked`). The lobby server and the game itself (`ServerAnswers`,
`ServerSpeaks`, `GameExits`) are external and free. `prepared`, `calledOff`
and `revived` are history variables no action reads.

Assumptions: a process just spawned is announced before the first exit
poll 500 ms later (`AnnounceGame` is not interleaved with `Poll` of the same launch); an unexpected failure
of `tokio::spawn` is not modelled; two matchmaker launches share the model value `MatchGame` as their game id; one replay is watched
at a time, from the install the games are played from.

### Retry, Watchdog

`Ticked` is `Retry::tick`; `Smaller` the saturation. `Watchdog` lets link and
user change arbitrarily between two ticks, which is a superset of
what `observe` can report. That it is one is `ImplementsWatchdog` of
`ChatConnection`: with `link` the state of chat as `observe` reports it and
`wanted` a signed-in user who has armed chat, its behaviours are behaviours of
`Watchdog`.

### ChatConnection and LobbySocket

`Dialer` tasks stand for Connect commands, `Hanger` tasks for Disconnect
commands; both are reused once they are done, so their number bounds how many
run *at once*, not how many a behaviour has. A connection is named by the Connect that
opened it. `sup` is the supervisor's phase, `cancelSlot` the client's token slot,
`updateSlot` its sender slot (chat; the outgoing-line slot is filled and
emptied with it and is folded into it) and `outSlot` its frame queue (lobby). The
watchdog is `WatchdogTick`, which applies `Ticked` and spawns a Connect. `wanted`,
`fruitless`, `dying` and `between` are history. `UserConnects` and
`UserDisconnects` are the status bar; `SignIn`/`SignOut` the effects
of `App.tsx`, which fire on any edge of the account.

Assumptions: time is abstracted to order (a backoff ends at any time); a live
server answers a ping before the next keepalive fires, so only a `silent` server
is dropped by it; the lobby's Disconnect also emits JoinCancelled and finishes
the join flight, which is in `LobbyGame` and left out of `LobbySocket`.

A lobby session that pushes an update to a full channel waits in `send`
(`Blocked`): until `Relay` makes room it writes no frame, sends no ping and sees
no cancellation. `StatusAfter` is what the service makes of an update it relays.

### Auth

A command is a task that walks the labels of its handler: it takes a generation
(`BeginGeneration`), queues for the mutation guard, calls the provider, and checks
after every await whether it is still the newest (`current`). A generation is
named by the task that began it, a token by the account it was issued for, and a
slot is reused once its command is over. `TaskStep` is what goes on without the user, `Click` what the
screens offer; the refresh loops (`LoopStep`) sleep, exchange, and store what they got, and
`abort` stops one only at an await, so a loop with its answer in hand still
writes it. The restore of the start is asked for by the shell when the settings are loaded
(`ShellRestores`, once, `restoreDue`); the login screen is in use before. The keyring
may refuse a refresh token, fail to give it back, or fail to let it go
(`BrowserAnswers`, `LoopFindsNothing`), and a loop that finds none ends. `stored`, `kept`
and `late` are history: whether the session's refresh token is there to renew it with,
and whether the restore began with a session already in place.

Assumptions: how long the browser and the provider take is free; PKCE and the
local listener are one answer (`verdict`) of the provider.

### Settings

The slice is a plain preference (`theme`), the chat group (`option` and the read
`marker`, which the UI always sends together, from its own copy `shown`) and the
number of changes (`stamp`). The Load of the start is several steps (`LoadReads`, `LoadSaves`,
`LoadEnds`, and their failures), as it imports an install and measures the cache in
between; every command may run beside it, on the defaults the state starts with, and `loaded`
says of a value whether it goes back to a Load. A command emits its change and persists: `JoinQueue`
takes its place at the guard (`queue`, a fair lock), `ReadSettings` reads the state
**under** the guard, `WriteTemporary` and `Replace` are the two halves of the
atomic write. `SelectChannel`/`MarkRead`/`ArmTimer`/`TimerFires` are read
markers and the timer that waits for a quiet reader, `HangUp` the Disconnect
that takes its work over. A `Crash` loses what was in memory and no more.

### Matchmaking

`shown` is the state on screen, `copy` the session's own, and `updates` the
channel between them; `SessionReads` applies one line of the server. Whoever reads
the state decides under one lock and emits under another, so the loop looks
(`LookAtState`), puts the state on screen (`ApplyState`) and stops the game of a cancelled match
(`StopCancelledGame`) in three steps, and a watchdog looks (`WatchdogLooks`) and
gives up (`WatchdogGivesUp`) in two, with anything in between. `Terminates` is
`terminate_game` by CancelJoin, TerminateGame or a kill notice, at any time, a launch
under way included; a game's end waits in `notices` and may be told as late as the
next launch (`ExitNoticed`). `calledOff`, `cleared` and `stale` are history: matches
cancelled, launches something else took off the screen, and how a state that was decided on before
another came on screen. Matches are numbered, but the
numbers are only for the properties: no guard of the code can see them. The
matchmaking server is external: it owes nothing, may forget a match without a
word, and acknowledges a stop late. It launches no game while one is launched or runs.
Assumption: a watchdog's two minutes outlast the loop's way from one lock to the next, so
it sleeps from the step that shows its match.

### ChatSession

The chat server's membership (`members`, `mine`), the session's rosters
(`roster`, `pendingNames` while names are listed), the updates on their way and the
screen (`users`, `open`, `shown`) are separate, and every line of the server is
one action from one to the next: what it does to the session, to the client's
`wanted` channels and to the queue. `ConnectionLost` loses lines in both directions;
`ReportLost` and `Dial` are the supervisor. `Announce`, `JoinAnnounced`, `Relay`
and `JoinAuto` are the channels the *lobby* server names, which are remembered
until chat is up and joined by either side, whichever comes second. A channel has at most one message, and the screen
counts how often it shows it. Renames of the user, topics, reactions and
private conversations are left out, and so is a server that refuses a JOIN.

### GameFiles

`Start` begins a live preparation ("play"), one for a live replay ("watch") or one for a
recorded replay of a named release ("open"); `Prepare` walks the code: staging
by hard links from a complete manifest entry, or the file list, the checksum
pass, the store copy or the download, the write into store, then into the
install, and the manifest entry at the end. A file's content is named by the
release that brought it; `Torn` is half of one. Writing a linked file
writes the store entry too (`PutStore`, `PutDir`), which is what a hard link
does. `CleanExpired` and `ClearCache` are the two ways entries leave the store, `Crash` and `WriteFails` the faults,
`Expire` the end of the cached file list, `Publish` a new release. `alone` is history:
replay preparations exclude each other by a lock, a live one and a replay's do
not. Assumptions: one numbered featured mod; two contents of a file differ in
length (where the code compares lengths only, this is in its favour); overlays, rolling branches and the stamped
executable are left out.

## 3. Runs

Passing runs, their bounds and the distinct states TLC finds:

| Run (config) | Shows | Bounds | States |
|---|---|---|---|
| `mirror` (`StateMirror.cfg`) | the webview is right and implements `AppStateView`; liveness: every event is shown where nothing is lost and the startup error is not on screen, through lag and bootstrap races, and a hole closes where no command fails | 2 emitters, 2 events, ring of 1, 4 revisions, 2 losses, 1 failed command | 64 743 |
| `launches` (`MCLobbyLaunches.cfg`) | no game out of reach, no orphaned adapter, no game shown that is gone; liveness: hang-ups complete, exits are noticed | 2 launches, kill notices, a hang-up or a replay, update channel of 1 | 146 119 |
| `joins` (`MCLobbyJoins.cfg`) | what the cancel flag does guarantee; no join left shown in progress | 1 join, 1 host request, any one command of the user, 1 drop and reconnect | 1 116 237 |
| `watchdog` (`Watchdog.cfg`) | spacing and endlessness of the schedule | ceiling 4, counter 7 | 180 |
| `chat` (`MCChatConnection.cfg`) | one connection, a stream that closes, the watchdog's schedule kept; liveness: chat comes back, hang-ups end | 2 dialers, 1 hanger, 2 failures to give up, 2 faults | 376 158 |
| `lobby_socket` (`MCLobbySocket.cfg`) | frames of a lost socket stay lost, given up on in vain only; liveness: silence is noticed, hang-ups end | 1 dialer, 1 hanger, 2 frames, queue of 2, 2 failures to give up, 3 faults, update channel of 1 | 390 769 |
| `auth` (`Auth.cfg`) | a session holds a token, one loop renews it, a session whose refresh token is kept has one; liveness: a login in the browser settles | 2 commands at once, 1 account, 2 loops | 750 223 |
| `settings` (`Settings.cfg`) | of settings that were loaded: the file holds what the state holds once all is quiet, never goes back; liveness: changes reach the disk | 2 tasks at once, 2 changes, 1 message, 2 faults | 428 858 |
| `matchmaking` (`Matchmaking.cfg`) | the search shown is the server's, a match found is watched and left, a cancelled one is stopped, late acknowledgements do no harm | 2 queues, 2 watchdogs, 2 matches, 2 requests, 1 termination or drop | 1 200 352 |
| `chat_session` (`MCChatSession.cfg`) | rosters on screen are those of the session and the server, wanted and announced channels are joined, nothing is missed | 2 other people, 1 channel, 3 events of user, others or line | 1 316 706 |
| `game_files` (`MCGameFiles.cfg`) | an install that ran alone is exact | 2 preparations, 1 file, 2 releases, 1 fault | 1 480 765 |

Why the bounds are enough: every mechanism meets another of the kind it
conflicts with (two events ahead of a ring of one, two commands, a loss during
the repair of a loss, a second match of the same queue under the first one's
timer, a second preparation in the store of the first), queues are as short as
they can be full, and slots are reused, so bounds on tasks limit how many run
*at once* and not how many a behaviour has, except in `LobbyGame`. The one channel of
`chat_session` is enough because a session treats channels apart, but for QUIT and NICK, which the
update queue of 1 already splits; the one file of `game_files`, because
the two it needs (changed and kept by a release) matter only to staging, which
`MCGameFilesRefuted.cfg` runs with both. All actions and disjuncts fire in some run. Deadlock is checked in
the watchdog, chat, lobby-socket, auth, settings and game-files runs. The others
switch it off: their revisions, launches, matches or events are finite and can be used up,
which is an end of the bounded instance and not of the program.

Three configs hold too and are kept for use by hand, because they take minutes:
`MCLobbyJoinsLaunches.cfg` (two joins, a cancel *and* a launch order, 3.4 million
states), `MCLobbyReconnects.cfg` (the joins run with a second Connect in place of
the drop; adds `OneUpdateLoop`, two update loops never run at once) and
`MCLobbySocketDialers.cfg` (two Connects racing for the lobby socket, 1 236 175
states). The last comment line of a config names the invariants that hold in it
beside those it checks; those of them that are proved need no run.

`EveryEventShown` assumes no loss on the window's channel: nothing in the code
notices a lost *last* event, only the next one reveals the hole; and it ends in either
the event or the startup error, as the boot snapshot may fail (`App.tsx:130-137`). `GapHeals`
assumes no failed command: a failed recovery is tried again only by the next
out-of-order event. Both assumptions are the antecedents of the formulas, so the safety
properties of the same run are checked with losses and failures. In the same way
`FileCatchesUp` and `ChangesReachDisk` except failed saves, which nobody
repeats.

Where the code does break a promise in a corner, the property names the corner and the
promise itself is refuted, in the table below. The corners:

- `Settings`: as soon as the webview is there and signed out it hangs chat up
  (`App.tsx:154-158`), and the hang-up saves what the state holds (`services/chat.rs:204`). If
  the Load is still reading the file or measuring the cache, that is the defaults: **a
  start can overwrite the settings of every run before it.** `FileCatchesUp`,
  `FileNeverGoesBack` and `ChangesReachDisk` speak of files that were loaded, which
  `OnlyLoadedIsSaved` says of all of them.
- `Auth`: a restore that begins when a login is already waiting for its browser, or already in.
  `SignedInHoldsToken` and `SessionIsRenewed` except clients where the restore began
  with a session in place (`late`), `LoginSettles` speaks of the time after it.
- `Matchmaking`: three late words. A watchdog that has looked gives the match up although a
  search has begun since (`SearchIsShown`); a stop acknowledged late repeats the match, and the loop,
  having seen it on screen, puts it back after it has left, with no watchdog
  (`FoundIsWatched`, `FoundIsLeft`); a termination, or an exit told late, during a launch
  hides it from the cancellation that comes after (`CancelledMatchIsStopped`, which also
  speaks only of connections that were not lost: the server tells a lost player nothing).

Every property has a mutant (an operator under a comment "Mutant:" beside the definition it
replaces): a plausible bug of that code with which TLC finds the property violated.

### Refuted: what a comment or a screen says and the code does not do

Each of these properties states a comment, a test or a screen of the source, and TLC finds a
counterexample. `ReplayIsExact` is a run of the project, recorded with the quoted
line under "findings". The others are reproduced from the config of their group: in it,
uncomment the line of the property and comment the one that stands, and

    tlc -config MatchmakingRefuted.cfg Matchmaking

(the module is the config's name without `Refuted`; `MCLobbyJoins`, `MCLobbyLaunch` and
`MCLobbyConnection` belong to `MCLobbyGame`).

| Property | Config (`...Refuted.cfg`) | What happens |
|---|---|---|
| `ReplayIsExact` | `MCGameFiles` | A replay's install is reported ready without all files of its release: cleaning takes files out of a manifest entry and leaves the entry. (`infra/game_updater.rs:1632`) |
| `LiveIsExact` | `MCGameFiles` | A live install takes a file that a replay preparation changed between the check of its store entry and the copy. |
| `TimerGivesUpItsOwnMatch` | `Matchmaking` | The watchdog of a match gives up the next match of the same queue. |
| `SearchShownIsReal` | `Matchmaking` | After a reconnect a search is shown that the server does not make. |
| `LockHasReason` | `Matchmaking` | A launch that failed leaves the panel locked behind a match that is over. |
| `MatchIsShown` | `Matchmaking` | The late exit of the previous game takes the new match off the screen. |
| `SearchIsAlwaysShown` | `Matchmaking` | A watchdog that has looked puts its "cancelled" over the search begun since. (`services/lobby.rs:396`) |
| `FoundIsAlwaysWatched` | `Matchmaking` | A late stop puts a match back on screen that its watchdog has just given up, and nothing takes it off again. (`services/lobby.rs:497`) |
| `NoCancelledMatchRuns` | `Matchmaking` | A launch terminated half way, or hidden by the exit of the game before, goes on, and the server's cancellation does not stop its game. (`services/lobby.rs:464`) |
| `OpenIsJoined` | `MCChatSession` | A PART that is lost leaves a tab open on a channel one is not in. |
| `NoMessageTwice` | `MCChatSession` | A channel left and joined again shows its backfill twice. |
| `RosterIsExact` | `MCChatSession` | Whoever comes or goes while the names are listed is missing, or a ghost. |
| `JoinedIsWanted` | `MCChatSession` | A channel joined again while the line that tells of a kick is on its way is not rejoined after the next loss. |
| `OfflineHoldsNoToken` | `Auth` | A restore answered after the choice to play offline leaves its token in the offline session. |
| `TokenIsOfPlayer` | `Auth` | The refresh loop of the previous account writes its token into the session of the next. |
| `SignedOutHoldsNoToken` | `Auth` | A refresh loop that already had its answer stores it after the logout. |
| `SessionKeepsToken` | `Auth` | A restore that fails takes the token of a session that was signed in before it began. (`services/auth.rs:60`) |
| `LoginEnds` | `Auth` | A restore overtakes a login that waits for its browser, and neither ends on screen; or a login is cancelled just before it shows that it starts. (`services/auth.rs:60`) |
| `ReadStaysRead` | `Settings` | A preference changed from the UI's older copy moves a read marker back. |
| `EarlyChoiceWins` | `Settings` | A preference chosen while the settings load is overwritten by what the load has read. (`services/settings.rs:49`) |
| `OnlyLoadedIsSaved` | `Settings` | A hang-up at the start saves the defaults over the settings file. (`services/chat.rs:204`) |
| `CancelledJoinNeverSent` | `MCLobbyJoins` | A join cancelled during its preparation is sent after all, because a second join clears the flag the first has not read yet. (`services/lobby.rs:58`) |
| `JoinIsSingleFlight` | `MCLobbyJoins` | Two joins prepare the install at the same time. (`services/lobby.rs:313`) |
| `PreparedIsPrepared` | `MCLobbyJoins` | The launcher skips the preparation of a game whose files were never fetched. (`services/lobby.rs:109`) |
| `HostOnlyPrepared` | `MCLobbyJoins` | A host request is sent for a map that was never fetched. (`services/launcher.rs:438`) |
| `TerminatedLaunchStaysDown` | `MCLobbyLaunch` | A launch the user cancelled before the game was up brings the game up. (`services/lobby.rs:300`) |
| `NoPhantomPreparation` | `MCLobbyLaunch` | The progress dialog stays open on a preparation that is over. (`services/launcher.rs:423`) |
| `NoGameAfterDisconnect` | `MCLobbyLaunch` | A game starts on a connection the user has hung up. (`services/lobby.rs:322`) |
| `OneGameAtATime` | `MCLobbyLaunch` | A launch starts its game before the one it replaces is told to end. (`infra/game.rs:266`) |
| `GameAndReplayApart` | `MCLobbyLaunch` | A game and a replay each see the other's slot empty and both start. (`infra/game.rs:213`) |
| `FlightCanBeReleased` | `MCLobbyConnection` | After a reconnect every further join is dropped although none is in progress. (`services/lobby.rs:433`) |
| `StatusFollowsConnection` | `MCLobbyConnection`, `MCChatConnection` | An open, acknowledged connection is shown as disconnected. (`services/lobby.rs:358`, `services/chat.rs:129`) |
| `HungUpStaysHungUp` | `MCChatConnection` | Chat the user hung up is armed again by a Connect the watchdog had already spawned. (`services/chat.rs:34`) |
| `GivesUpOnlyUnregistered` | `MCChatConnection` | The chat supervisor gives up on a line that registered between its losses. (`infra/irc.rs:580`) |
| `BackoffFramesNotReplayed` | `MCLobbySocket` | A frame queued while there is no socket is written to the socket that comes later. (`infra/lobby_ws.rs:244`) |
| `WaitingFramesOutliveTheSocket` | `MCLobbySocket` | A frame that waits when the connection drops is drained before the next session, although the queue is documented to outlive the socket. (`infra/lobby_ws.rs:401`) |
| `GivesUpAfterVainAttempts` | `MCLobbySocket` | The lobby supervisor gives up one fruitless attempt early. (`infra/lobby_ws.rs:232`) |
| `LobbyComesBack` | `MCLobbySocket` | A lobby connection that was given up on never comes back on its own. (`runtime/mod.rs:270`) |

Beside most stands the weaker property the code does have: `CalledOffNotSent`
beside `CancelledJoinNeverSent`, `NoPhantomJoin` beside `NoPhantomPreparation` and
`FlightCanBeReleased`, `LostFramesStayLost` beside `BackoffFramesNotReplayed` and `WaitingFramesOutliveTheSocket`
(two comments of one file that contradict each other, `lobby_ws.rs:240-243` and `401-403`; the code is with the first),
`GivesUpOnlyInVain` beside `GivesUpAfterVainAttempts`, `OneUpdateLoop` and
`OneConnection` beside `StatusFollowsConnection`, `NoOrphanGame` beside `OneGameAtATime`, `InstallIsExact` (alone) beside
`LiveIsExact`, `SearchIsShown` and `FoundIsWatched` beside `SearchShownIsReal` and
`MatchIsShown`, `ScreenFollowsServer` beside `RosterIsExact`, `WantedIsJoined`
beside `JoinedIsWanted`, `SignedInHoldsToken` and `LoginSettles` beside
`TokenIsOfPlayer`, `SessionKeepsToken` and `LoginEnds`, `FileNeverGoesBack` (the file does not,
a marker in it may) beside `ReadStaysRead` and `OnlyLoadedIsSaved`.

### Fairness

Weak fairness of an action says that its task gets on: tokio schedules a task
that is ready, the webview's event loop runs. Strong fairness appears where a
task is repeatedly ready but its step can be disabled in between by
others, and the code does not starve it: the forwarder's resubscription and the `snapshot` command
(they wait for the state lock, which tokio hands out in order), the preparation
of a game (its progress events interleave with everything) the
watchdog's tick (a timer of five seconds; in the models a tick that dials needs an idle
Dialer) and, in `LobbySocket`, the session's look at its cancellation, which is shut out while the
update channel is full and comes round in the `select` when it is not. Nothing
forces a user to act, a service to emit, a server to answer or a fault to happen;
faults are bounded, so they come to an end. Chat additionally assumes the
access token is renewed (`TokenRenewed`, the refresh loop of `infra/oauth.rs`).
`Auth` assumes that every command gets on (each wait of one has a timeout of its own),
and nothing of the refresh loops; `Settings` that the load ends, tasks run, timers fire and disk operations end; `Matchmaking` that the
update loop gets on and each watchdog wakes and acts, and nothing of the server.
`ChatSession` and `GameFiles` state safety only.

## 4. Proofs

`ScreenProofs` is about the two models the screen depends on, one after the other:
that what is shown is the backend's state, and that the chat part of this state is
what the session and the server have. Of `StateMirror`, for every set of emitters
and events and every capacity and bound (`EmitterAssumption`, `EventAssumption`,
`BoundAssumption`),

- `TypeCorrect`, `MirrorCorrect`, `BroadcastCorrect`: the invariants `TypeOK`,
  `MirrorIsAuthoritative`, `BroadcastInOrder`;
- `NoRollback`: the action property `NeverRollsBack`;
- `Refinement`: `StateMirror` implements `AppStateView`.

`MirrorIsAuthoritative` is not inductive. The inductive invariant `IInv` adds
that the guard has one holder and that an event staged under it is the last of
the state (`GuardInv`), hence the broadcast is in order; that everything on the
wire (`WireInv`), in the pending buffer (`PendingInv`) and in an answer on its
way (`AnswerInv`) is an event or a prefix of the one history at its own
revision. With these, applying the next revision extends the shown prefix by
exactly the next event, whichever path delivered it. The drain of the pending
buffer is `DrainedTo`, a `CHOOSE` of the last contiguous revision, whose
properties are lemmas; the step lemmas are one per action.

Of `ChatSession`, for any people, any finite set of channels, any set of announced
ones, every size of the update channel and any number of events
(`ChannelAssumption`, `AutoJoinAssumption`, `LimitAssumption`), `ChatTypesHold`
(`ChatTypeOK`) and its five safety properties: `ScreenIsTheSessions`
(`ScreenFollowsSession`), `ScreenIsTheServers` (`ScreenFollowsServer`),
`WishIsGranted` (`WantedIsJoined`), `AnnouncementIsHeard` (`AnnouncedIsJoined`)
and `NoMessageIsMissed` (`NothingIsMissed`). All but the first two speak of moments
when every queue is empty, so the invariant, `ChatInv`, says what holds while
they are not:

- `Screen`: there is a sequence of rosters that starts with the screen's, goes on
  by one update each (`Plays`) and ends with the session's, or with none once a loss
  has been reported, which is what the next session starts from. A QUIT
  appends an update for each channel of the person, in an order nobody
  chooses; `PlaysQuit` shows that any order ends in the same rosters.
- `Follows`: for each channel, there is a sequence of what the session knows of it
  (roster, names collected, backfill asked for) as it reads the lines on their
  way (`Hears`), and the last agrees with the server (`Agrees`): in the middle
  of a list of names, at its end, or after it. Whatever changes while the names are
  between the two lines of their list puts the channel into `blurred`. The
  sequence also says that an echo of a JOIN is only ever read by a session that
  has not asked for that channel's backfill (`NewlyJoined`).
- `Present`: without a connection nothing is under way and we are in no channel.
- `Rejoins`: a wanted channel is one we are in, or its JOIN is under way, or
  the line that tells of a kick; before the welcome is read nothing need be. It
  leans on `JoinedLast`: behind a queued PART of a channel that is wanted there
  is a JOIN of it.
- `Announces`: a session that is logged in shows as connected once the updates are
  applied (`StatusHolds`), and a chat that shows as connected and has joined
  what was announced wants all of it but what was closed since.
- `Showing`: a message of a channel we are in is on one of the stages of its way
  (`Shows`).

That `Channel` is finite is needed because `OnQuit` lists the channels of a
person; that `ScreenAfter`, a recursive function, is what `Plays` ends with, is shown by
the least index where the two would differ (`PlaysEnd`). What the proof shows
and the run does not: the update channel outgrows its slots by at most the number of
channels, because a session stops reading while it is full, and one line
makes that many updates at most.

`ChatConnectionProofs`: for every number of dialers, hangers and faults, every
channel size and every limit (`TaskAssumption`, `LimitAssumption`,
`BackoffAssumption`), `ChatTypeCorrect`, `OneConnectionHolds`, `Cancellable`
and `StreamCloses`. The parts of the inductive invariant hold each other up
(`Ownership`): the slots belong to the one owner of the flight because there is
one, and `Open` may take them over because no other supervisor can be running.
`AttemptsLeft` is what keeps the loss counter below its limit while the
supervisor lives. Two generic lemmas, `CommandStep` and `SupervisorStep`, say that a
step which moves a command between labels that own nothing, or a supervisor
between two of its phases, disturbs none of this; each action then needs its
own types only. Two more results are about the schedule. For every ceiling and
saturation point (`BackoffAssumption`) `TypeOK /\ WaitAddsUp` of `Watchdog` is
inductive, and gives `ScheduleInRange` and the spacing of attempts, `Spacing`.
`WatchdogImplemented` is the refinement: `WatchdogTick` is a tick of the abstract schedule with
the link and the wish it saw, and any other step changes the link, the wish or
neither, and leaves the schedule alone.

`LobbySocketProofs`: the same for the lobby (`OneConnectionHolds`,
`Cancellable`), and two results about its queue and its limit.
`NothingReplayed` (`LostFramesStayLost`) needs that a queued frame is in one
queue, once, and not yet written (`QueuedOnce`), and that between a loss and the drain
after it the supervisor never reaches a phase that writes (`Drained`).
`GivesUpInVain` is the action property `GivesUpOnlyInVain`: all losses counted
but the first were in vain (`AttemptsLeft`).

`AuthProofs`: `AuthTypeCorrect`, `OneLoopRenews` (`OneRefreshLoop`),
`SignedInSettlesWithToken` (`SignedInHoldsToken`) and
`RememberedSettlesWithLoop` (`SessionIsRenewed`), for any number of commands,
accounts and loops. `OneRefreshLoop` is not inductive; its companion says that the loop in the slot is
the only one that can be alive, since whoever fills the slot aborts what was in
it, in one step under the slot's lock. The last two speak of moments when no
command is at work, so their invariant speaks of all the others. `Control` is who may
be where: only the holder of the guard works with the account, the screen is
not used between two tokens, the newest command is cancelled only by one that
is about to replace it. On it rests `Session`: a command that will show a
session has already put its token and its loop there and holds the guard until
it is shown (`ReachedHolds`), and a session on screen is whole unless a command
is bound to take it off (`Settling`). What takes tokens away is the newest
command, or is followed by one that is. `Session` holds until a restore begins with a session in
place, which is once and for all (`LateOnce`); `StoredLater` says that a
task's refresh token is stored with its answer and not before.

`SettingsProofs`: `SettingsTypeCorrect`, `SavesGoForward` (the action property
`FileNeverGoesBack`) and `FileEndsUpCurrent` (`FileCatchesUp`), for any finite
set of tasks and any bounds. Savers stand in
the queue once and save only at its head (`Serial`). `Order` follows what goes back to a Load:
who has it (`Origin`), that the file is the oldest of it (`Oldest`) and the state the
newest (`Newest`), because a save reads the state under the guard; a save of
defaults is not stopped, but it shows in the file (`loaded`) and orders nothing.
`CatchingUp` is why the file ends as the state does: while the cache is measured the
load has read, or saved, what the file holds (`CopyIsFile`); afterwards somebody will
still save what the state is now (`Saver`), or the file has it and nobody is
between reading a loaded state and writing it down (`CaughtUp`).

`GameFilesProofs`: `FilesTypeCorrect` and `UndisturbedInstallIsExact`
(`InstallIsExact`), for any files, releases, preparations and faults. While a
preparation is alone (`Single`), the files it has dealt with are as its release
has them (`SoFar`), the store entry it found good is good or gone (`GoodEntry`),
and the bytes in its hand are right (`GoodBytes`); cleaning and clearing may run
at any time, which is why the entry may be gone.

`LobbyGameProofs`: for any commands, hosts, connects and launches, any set of
commands and notices, every channel size and any number of drops (`TasksDiffer`,
`CommandsKnown`, `NoticesKnown`, `CapAssumption`), `TypesHold`, `LoopIsSingle`
(`OneUpdateLoop`), `GamesAreReachable` (`NoOrphanGame`), `AdaptersAreStopped`
(`NoOrphanAdapter`), `ShownGamesRun` (`InGameIsBacked`), `CancelsAreHeard`
(`CalledOffNotSent`) and `JoinsAreFinished` (`NoPhantomJoin`). The invariant is
layered. `Tasks` says which effects a task may still have to perform at each
label, and that one Connect at most is in its loop, which is what makes the launches
of the loop come one after the other. `Games`: a game that runs is
in the slot, signalled, or about to be put there; a child in the slot has a watcher or gets one
in the next step (`Watched`), and the adapter serves a game, a launch,
or is due to be stopped (`Served`). `Joins`: a connection is opened when nothing
of the last one is left (`Linked`), and a join shown in progress has an answer
coming (`Answered`). Scripts are known only by their set of effects and by which
comes first and last (`Shape`); one lemma, `PlainMove`, covers the many actions that only move a
task along. The proof shows two things the runs do not: with three
launches the poll of an older one may empty the slot before the newest's watcher
waits, so that what stops the adapter is that watcher's own poll, and
`NoOrphanAdapter` names it; and tasks of different kinds must be distinct, which
`TasksDiffer` says of the model's constants.

`MatchmakingProofs`: for any queues, matches, requests and drops and every
channel size (`BoundAssumption`), `TypesHold`, `SearchesAreShown`
(`SearchIsShown`), `MatchesAreWatched` (`FoundIsWatched`), `CancelledMatchesStop`
(`CancelledMatchIsStopped`) and `LateStopsAreHarmless` (the action property
`LateStopsKeepTheMatch`). Two queues lie between the server and the screen. For the
frames the invariant states that *there is* a sequence of states the session goes through as it reads them
(`Replay`), of which each frame finds the one it was sent in and the last
agrees with the server (`Tracks`); a sent frame extends it, a frame read shortens it. For the updates
it states which state may follow which (`Chain`). There is one launch at a time
(`OneLaunch`); a cancellation overtakes no launch of its match (`InOrder`), and
whoever waits for a launch that can still be called off sees the panel locked
until the cancellation comes through (`LaunchIsShown`), which is where the code looks
for it. What has been taken off the screen meanwhile, and by whom, is what `cleared` and
`stale` keep apart: `Due` is a launch nobody has hidden, `WordOverSearch` the one state a
search on its way may find in its place. `Decided` says what the loop's look at the
screen is still worth when it acts on it. `FoundIsWatched` has no exception for a
match that outlives its connection: its watchdog goes on, and the proof needs nothing else.

Only model-checked: all liveness, with fairness out of the prover's reach. Every
invariant and action property of a passing run is a theorem. No module declares a
recursive operator, and no fact here needs an induction over data: where a fold
over a queue would be natural, the invariant states that a sequence of its values
exists.

## 5. Not modelled, and why

Within the modelled parts: message parsing and formatting, directory, rating and
game-list bookkeeping of the lobby session, the party, factions and vetoes,
capabilities and SASL of chat, topics, reactions, typing, private conversations
and history retention, LoginTest and the OAuth protocol, the validation and
migration of settings, overlay mods, rolling branches and the folders of
versions, the replay vault, what starts a
replay (its slot is in `LobbyGame`), `launch_offline`, the adapters
themselves. The other components of the inventory are listed with their reason
in `PROJECT.json`; external programs, byte protocols and file formats are out of
reach, fetch-and-show features have nothing to interleave, and most of the large files
among them (tournaments, training, the replay parser) are such features, their fakes and their tests.

## 6. What comes next

1. `LatestRequest` as an abstract policy (an older answer never replaces a newer
   one) and its users (vault searches, player card, replays) shown to implement it.
2. `Party`: invitations, factions and vetoes, and the vetoes restored after
   authentication, on top of `Matchmaking`.
3. `Tracking`: delayed live tracking and the replay slot, composed with the game
   slot of `LobbyGame`.
4. Proofs: that `ChatSession` with the connection of `ChatConnection` in place of
   its `Dial`, `ConnectionLost` and `ReportLost` keeps what is proved of either.
