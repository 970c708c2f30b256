---------------------------- MODULE Matchmaking ----------------------------
(***************************************************************************)
(* A search, the match that comes of it and its launch, as the lobby       *)
(* session, the update loop and the screen each see it: the session keeps  *)
(* a copy of its own, the loop applies what the session sends and spawns a *)
(* watchdog per match found, and both a watchdog and the end of a game     *)
(* change the screen without the session knowing.                          *)
(*                                                                         *)
(* The matchmaking server is external. Matches are numbered; the numbers   *)
(* travel with the messages for the properties, and no guard reads them.   *)
(*                                                                         *)
(* Whoever reads the state decides under one lock and emits under another, *)
(* so the loop and a watchdog look in one step and put what they make of   *)
(* it on screen in a later one. A game can be terminated at any time, and  *)
(* its end may be noticed as late as the launch after it.                  *)
(*                                                                         *)
(* One abstraction of time: a watchdog sleeps from the step that puts its  *)
(* match on screen, as its two minutes outlast the loop's way from one     *)
(* lock to the next.                                                       *)
(***************************************************************************)
EXTENDS Naturals, Sequences

CONSTANTS Queue,         \* matchmaker queues
          Timer,         \* match-start watchdogs that sleep at once
          UpdateCap,     \* slots of the update channel (8 in the code)
          MaxMatches,    \* bound: matches the server makes
          MaxRequests,   \* bound: starts and stops the user sends
          MaxFaults      \* bound: games terminated, and lost connections

ASSUME BoundAssumption == /\ UpdateCap \in Nat \ {0}
                          /\ MaxMatches \in Nat /\ MaxRequests \in Nat /\ MaxFaults \in Nat

VARIABLES
  shown,            \* AppState.lobby.matchmaking
  copy,             \* the session's own matchmaking state
  updates,          \* the update in hand, and the channel from session to update loop
  phase,            \* what the update loop is at
  launching, game,  \* the match the update loop is starting, and the one that runs
  inGame,           \* AppState.lobby.join is Launched or InGame
  notices,          \* GameTerminated still to be emitted, by watchers and by commands
  timer,            \* the match-start watchdogs
  connected,        \* the socket is up
  up, down,         \* frames to and from the server
  searching,        \* server: queues the player is in
  acks,             \* server: stops it has still to acknowledge
  match, ordered,   \* server: the match it has made, and the last one it launched
  matches, requests, kills, drops,  \* matches, requests, terminations and losses so far
  calledOff,        \* history: matches the server cancelled and said so
  cleared,          \* history: matches whose launch was taken off the screen meanwhile
  stale             \* history: how a state came on screen that was decided on before another

serverVars == <<up, down, searching, acks, match>>
countVars  == <<ordered, matches, requests, kills, drops>>
gameVars == <<game, notices>>
screenVars == <<shown, inGame, cleared, stale>>
loopVars == <<phase, launching>>
vars == <<screenVars, copy, updates, loopVars, gameVars, timer, connected, serverVars, countVars,
          calledOff>>

NoMatch == 0
Match == 0..MaxMatches

\* MatchmakingState: its queues, one of them matched unless it is a search.
State(kind, queues, n) == [kind |-> kind, queues |-> queues, match |-> n]
Idle == State("idle", {}, NoMatch)

MatchedQueues(s) == IF s.kind \in {"found", "launching", "cancelled"} THEN s.queues ELSE {}
SearchedQueues(s) == IF s.kind = "searching" THEN s.queues ELSE {}

\* Mutant: a stop that comes late takes the match off as well.
UpdateSearchAlways(s, q, start) ==
  LET queues == IF start THEN SearchedQueues(s) \cup {q} ELSE SearchedQueues(s) \ {q}
  IN  IF queues = {} THEN Idle ELSE State("searching", queues, NoMatch)

\* update_search: a stop after the search is over changes nothing.
UpdateSearch(s, q, start) ==
  LET queues == IF start THEN SearchedQueues(s) \cup {q} ELSE SearchedQueues(s) \ {q}
  IN  IF ~start /\ s.kind # "searching" THEN s
      ELSE IF queues = {} THEN Idle ELSE State("searching", queues, NoMatch)

\* A watchdog that is due has looked at the state, and has still to give up the match.
Asleep == [queue : Queue, match : Match, due : BOOLEAN]
Off == [queue |-> "none", match |-> NoMatch, due |-> FALSE]

Init ==
  /\ shown = Idle /\ copy = Idle
  /\ updates = <<>>
  /\ phase = "ready" /\ launching = NoMatch
  /\ game = NoMatch /\ inGame = FALSE
  /\ notices = 0
  /\ timer = [w \in Timer |-> Off]
  /\ connected = TRUE
  /\ up = <<>> /\ down = <<>>
  /\ searching = {} /\ acks = {}
  /\ match = NoMatch /\ ordered = NoMatch
  /\ matches = 0 /\ requests = 0 /\ kills = 0 /\ drops = 0
  /\ calledOff = {} /\ cleared = {} /\ stale = "no"

-----------------------------------------------------------------------------
(* The person at the panel *)

Requests(q, start) ==
  /\ requests < MaxRequests
  /\ requests' = requests + 1
  /\ up' = IF connected THEN Append(up, [queue |-> q, start |-> start]) ELSE up
  /\ UNCHANGED <<screenVars, copy, updates, loopVars, gameVars, timer, connected, down, searching,
                 acks, match, ordered, matches, kills, drops, calledOff>>

\* The panel is locked while a match is found or launching.
StartSearch(q) ==
  /\ shown.kind \notin {"found", "launching"}
  /\ q \notin SearchedQueues(shown)
  /\ Requests(q, TRUE)

StopSearch(q) == q \in SearchedQueues(shown) /\ Requests(q, FALSE)

-----------------------------------------------------------------------------
(* The server, external *)

SearchInfo(q, start) == [type |-> "search_info", queue |-> q, start |-> start, match |-> NoMatch]
MatchFrame(type, q, n) == [type |-> type, queue |-> q, start |-> FALSE, match |-> n]

\* A game is launched, or runs and is not over.
Playing ==
  \/ launching # NoMatch \/ game # NoMatch
  \/ \E i \in DOMAIN down : down[i].type = "game_launch"
  \/ \E i \in DOMAIN updates : updates[i].type = "launch"

\* It takes a request once it has acknowledged everything before, and no
\* search of somebody who plays.
ServerTakesRequest ==
  /\ up # <<>>
  /\ acks = {}
  /\ LET r == Head(up)
         heeded == IF r.start THEN match = NoMatch /\ ~Playing /\ r.queue \notin searching
                              ELSE r.queue \in searching
     IN  /\ searching' = IF ~heeded THEN searching
                         ELSE IF r.start THEN searching \cup {r.queue}
                         ELSE searching \ {r.queue}
         /\ down' = IF heeded THEN Append(down, SearchInfo(r.queue, r.start)) ELSE down
  /\ up' = Tail(up)
  /\ UNCHANGED <<screenVars, copy, updates, loopVars, gameVars, timer, connected, acks, match,
                 countVars, calledOff>>

\* The search is over with the match; its stops are acknowledged some time.
ServerMatches(q) ==
  /\ q \in searching
  /\ matches < MaxMatches
  /\ matches' = matches + 1
  /\ match' = matches + 1
  /\ down' = Append(down, MatchFrame("match_found", q, matches + 1))
  /\ searching' = {}
  /\ acks' = searching
  /\ UNCHANGED <<screenVars, copy, updates, loopVars, gameVars, timer, connected, up, ordered,
                 requests, kills, drops, calledOff>>

ServerAcks(q) ==
  /\ q \in acks
  /\ acks' = acks \ {q}
  /\ down' = Append(down, SearchInfo(q, FALSE))
  /\ UNCHANGED <<screenVars, copy, updates, loopVars, gameVars, timer, connected, up, searching, match,
                 countVars, calledOff>>

ServerSays(type) ==
  down' = Append(down, MatchFrame(type, CHOOSE q \in Queue : TRUE, match))

ServerLaunches ==
  /\ match \notin {NoMatch, ordered}
  /\ ~Playing
  /\ ordered' = match
  /\ ServerSays("game_launch")
  /\ UNCHANGED <<screenVars, copy, updates, loopVars, gameVars, timer, connected, up, searching, acks,
                 match, matches, requests, kills, drops, calledOff>>

ServerCancels ==
  /\ match # NoMatch
  /\ ServerSays("match_cancelled")
  /\ match' = NoMatch
  /\ calledOff' = calledOff \cup {match}
  /\ UNCHANGED <<screenVars, copy, updates, loopVars, gameVars, timer, connected, up, searching, acks,
                 countVars>>

\* "It does not always say so."
ServerForgets ==
  /\ match # NoMatch
  /\ match' = NoMatch
  /\ UNCHANGED <<screenVars, copy, updates, loopVars, gameVars, timer, connected, up, down, searching,
                 acks, countVars, calledOff>>

-----------------------------------------------------------------------------
(* The socket session *)

StateUpdate(s) == [type |-> "state", state |-> s]
LaunchUpdate(n) == [type |-> "launch", state |-> State("launching", {}, n)]
Reconnecting == [type |-> "reconnecting", state |-> Idle]

\* A launch order of the matchmaker moves a matched queue on, then is passed on.
AfterLaunchOrder(s, f) ==
  IF MatchedQueues(s) = {} THEN s ELSE State("launching", MatchedQueues(s), f.match)

AfterFrame(s, f) ==
  CASE f.type = "search_info"     -> UpdateSearch(s, f.queue, f.start)
    [] f.type = "match_found"     -> State("found", {f.queue}, f.match)
    [] f.type = "match_cancelled" -> State("cancelled", MatchedQueues(s), f.match)
    [] f.type = "game_launch"     -> AfterLaunchOrder(s, f)

Forwarded(s, f) ==
  IF f.type # "game_launch" THEN <<StateUpdate(AfterFrame(s, f))>>
  ELSE IF MatchedQueues(s) = {} THEN <<LaunchUpdate(f.match)>>
  ELSE <<StateUpdate(AfterFrame(s, f)), LaunchUpdate(f.match)>>

Holding == phase \in {"puts", "repeats", "arms", "stops"}
HasRoom == Len(updates) < (IF Holding THEN UpdateCap + 1 ELSE UpdateCap)

SessionReads ==
  /\ connected
  /\ down # <<>>
  /\ HasRoom
  /\ copy' = AfterFrame(copy, Head(down))
  /\ updates' = updates \o Forwarded(copy, Head(down))
  /\ down' = Tail(down)
  /\ UNCHANGED <<screenVars, loopVars, gameVars, timer, connected, up, searching, acks, match,
                 countVars, calledOff>>

\* The server drops the search and the match of a player it has lost.
ConnectionLost ==
  /\ connected
  /\ kills + drops < MaxFaults
  /\ drops' = drops + 1
  /\ connected' = FALSE
  /\ up' = <<>>
  /\ down' = <<>>
  /\ searching' = {}
  /\ acks' = {}
  /\ match' = NoMatch
  /\ UNCHANGED <<screenVars, copy, updates, loopVars, gameVars, timer, ordered, matches, requests,
                 kills, calledOff>>

\* The supervisor reports the retry, and a new session starts from nothing.
SessionStarts ==
  /\ ~connected
  /\ HasRoom
  /\ connected' = TRUE
  /\ copy' = Idle
  /\ updates' = Append(updates, Reconnecting)
  /\ UNCHANGED <<screenVars, loopVars, gameVars, timer, serverVars, countVars, calledOff>>

-----------------------------------------------------------------------------
(* The game and its end *)

\* The game is over. Its watcher has that still to tell, and does so once the
\* process is gone as well, which may be long after.
GameGone ==
  /\ game' = NoMatch
  /\ notices' = IF game = NoMatch THEN notices ELSE notices + 1

\* Mutant: the end of a game ends a search as well.
ClearedByExitAll(s) == Idle

\* GameTerminated clears what a launch leaves behind, and no search.
ClearedByExit(s) == IF s.kind \in {"launching", "found"} THEN Idle ELSE s

\* A launch that leaves the screen before the server is done with it.
LaunchHidden ==
  cleared' = IF shown.kind = "launching" THEN cleared \cup {shown.match} ELSE cleared

Terminated ==
  /\ shown' = ClearedByExit(shown)
  /\ inGame' = FALSE
  /\ LaunchHidden
  /\ UNCHANGED stale

GameExits ==
  /\ game # NoMatch
  /\ GameGone
  /\ UNCHANGED <<screenVars, copy, updates, loopVars, timer, connected, serverVars, countVars,
                 calledOff>>

\* terminate_game by CancelJoin, TerminateGame or the server's kill notice: it
\* kills the game, if there is one, and has the event still to emit.
Terminates ==
  /\ kills + drops < MaxFaults
  /\ kills' = kills + 1
  /\ game' = NoMatch
  /\ notices' = IF game = NoMatch THEN notices + 1 ELSE notices + 2
  /\ UNCHANGED <<screenVars, copy, updates, loopVars, timer, connected, serverVars, ordered,
                 matches, requests, drops, calledOff>>

ExitNoticed ==
  /\ notices > 0
  /\ notices' = notices - 1
  /\ Terminated
  /\ UNCHANGED <<copy, updates, loopVars, game, timer, connected, serverVars,
                 countVars, calledOff>>

-----------------------------------------------------------------------------
(* The update loop of the service; it reads nothing while it launches *)

\* Mutant: a match is taken for new only where a search was on screen.
ArmsAfterSearch(s) == s.kind = "found" /\ shown.kind = "searching"

Arms(s) == s.kind = "found" /\ shown.kind # "found"

\* Mutant: the launch is looked for in the state to be applied.
StopsNothing(s) == s.kind = "cancelled" /\ s.kind = "launching" /\ inGame

StopsGame(s) == s.kind = "cancelled" /\ shown.kind = "launching" /\ inGame

\* What is on screen decides what comes with the new state.
LookAtState ==
  /\ phase = "ready"
  /\ updates # <<>>
  /\ Head(updates).type = "state"
  /\ LET s == Head(updates).state
     IN  phase' = IF Arms(s) THEN "arms"
                  ELSE IF StopsGame(s) THEN "stops"
                  ELSE IF s.kind = "found" /\ shown.kind = "found" THEN "repeats"
                  ELSE "puts"
  /\ UNCHANGED <<screenVars, copy, updates, launching, gameVars, timer, connected, serverVars,
                 countVars, calledOff>>

\* A match that has left the screen since it was seen there comes back.
Revived == phase = "repeats" /\ (shown.kind # "found" \/ stale = "repeat")

Free == CHOOSE w \in Timer : timer[w] = Off

\* The new state goes on screen, whatever is there by now.
ApplyState ==
  /\ Holding
  /\ LET s == Head(updates).state
     IN  /\ shown' = s
         /\ IF phase = "arms"
            THEN /\ \E w \in Timer : timer[w] = Off
                 /\ timer' = [timer EXCEPT ![Free] = [queue |-> CHOOSE q \in s.queues : TRUE,
                                                      match |-> s.match, due |-> FALSE]]
            ELSE UNCHANGED timer
         /\ stale' = IF Revived THEN "repeat" ELSE "no"
  /\ phase' = IF phase = "stops" THEN "terminates" ELSE "ready"
  /\ updates' = Tail(updates)
  /\ UNCHANGED <<inGame, cleared, copy, launching, gameVars, connected, serverVars, countVars,
                 calledOff>>

StopCancelledGame ==
  /\ phase = "terminates"
  /\ phase' = "ready"
  /\ GameGone
  /\ Terminated
  /\ UNCHANGED <<copy, updates, launching, timer, connected, serverVars, countVars, calledOff>>

ApplyLaunch ==
  /\ phase = "ready"
  /\ updates # <<>>
  /\ Head(updates).type = "launch"
  /\ phase' = "launches"
  /\ launching' = Head(updates).state.match
  /\ updates' = Tail(updates)
  /\ inGame' = TRUE
  /\ UNCHANGED <<shown, cleared, stale, copy, gameVars, timer, connected, serverVars, countVars,
                 calledOff>>

\* The game is up and InGame emitted. (A game gone in between is one that exits next.)
LaunchSucceeds ==
  /\ phase = "launches"
  /\ phase' = "ready"
  /\ launching' = NoMatch
  /\ game' = launching
  /\ inGame' = TRUE
  /\ UNCHANGED <<shown, cleared, stale, copy, updates, notices, timer, connected, serverVars,
                 countVars, calledOff>>

\* The launch failed or was cancelled: the state of the match stays on screen.
LaunchFails ==
  /\ phase = "launches"
  /\ phase' = "ready"
  /\ launching' = NoMatch
  /\ inGame' = FALSE
  /\ UNCHANGED <<shown, cleared, stale, copy, updates, gameVars, timer, connected, serverVars,
                 countVars, calledOff>>

\* Only the join is reset; the search, or the match, stays on screen.
ApplyReconnecting ==
  /\ phase = "ready"
  /\ updates # <<>>
  /\ Head(updates).type = "reconnecting"
  /\ updates' = Tail(updates)
  /\ inGame' = FALSE
  /\ UNCHANGED <<shown, cleared, stale, copy, loopVars, gameVars, timer, connected, serverVars,
                 countVars, calledOff>>

-----------------------------------------------------------------------------
(* The match-start watchdogs *)

\* Two minutes later the watchdog looks for a match of that queue.
StillWaiting(w) == shown.kind = "found" /\ shown.queues = {timer[w].queue}

WatchdogLooks(w) ==
  /\ timer[w] # Off /\ ~timer[w].due
  /\ timer' = [timer EXCEPT ![w] = IF StillWaiting(w) THEN [@ EXCEPT !.due = TRUE] ELSE Off]
  /\ UNCHANGED <<screenVars, copy, updates, loopVars, gameVars, connected, serverVars, countVars,
                 calledOff>>

\* It gives the match up, whatever is on screen by now.
WatchdogGivesUp(w) ==
  /\ timer[w].due
  /\ timer' = [timer EXCEPT ![w] = Off]
  /\ shown' = State("cancelled", {timer[w].queue}, timer[w].match)
  /\ LaunchHidden
  /\ stale' = IF shown.kind = "searching" \/ stale = "word" THEN "word" ELSE "no"
  /\ UNCHANGED <<inGame, copy, updates, loopVars, gameVars, connected, serverVars, countVars,
                 calledOff>>

-----------------------------------------------------------------------------

Loop == LookAtState \/ ApplyState \/ StopCancelledGame \/ ApplyLaunch
        \/ LaunchSucceeds \/ LaunchFails \/ ApplyReconnecting

Next ==
  \/ \E q \in Queue : StartSearch(q) \/ StopSearch(q) \/ ServerMatches(q) \/ ServerAcks(q)
  \/ ServerTakesRequest \/ ServerLaunches \/ ServerCancels \/ ServerForgets
  \/ SessionReads \/ ConnectionLost \/ SessionStarts
  \/ Loop
  \/ GameExits \/ Terminates \/ ExitNoticed
  \/ \E w \in Timer : WatchdogLooks(w) \/ WatchdogGivesUp(w)

Spec == Init /\ [][Next]_vars

\* Watchdogs wake up and act, and the update loop is driven; the server owes nothing.
FairSpec ==
  /\ Spec
  /\ WF_vars(Loop)
  /\ \A w \in Timer : WF_vars(WatchdogLooks(w) \/ WatchdogGivesUp(w))

-----------------------------------------------------------------------------

\* A search has queues, a match one, a cancelled match one or none.
StateSet ==
  {State("idle", {}, NoMatch)}
    \cup {State("searching", qs, NoMatch) : qs \in (SUBSET Queue) \ {{}}}
    \cup {State(k, {q}, n) : k \in {"found", "launching", "cancelled"}, q \in Queue, n \in Match}
    \cup {State(k, {}, n) : k \in {"launching", "cancelled"}, n \in Match}

Request == [queue : Queue, start : BOOLEAN]
Frame == [type : {"search_info", "match_found", "match_cancelled", "game_launch"},
          queue : Queue, start : BOOLEAN, match : Match]
Update == [type : {"state", "launch", "reconnecting"}, state : StateSet]

TypeOK ==
  /\ shown \in StateSet
  /\ copy \in StateSet
  /\ updates \in Seq(Update)
  /\ phase \in {"ready", "puts", "repeats", "arms", "stops", "terminates", "launches"}
  /\ Holding => updates # <<>> /\ Head(updates).type = "state"
  /\ launching \in Match /\ game \in Match /\ inGame \in BOOLEAN
  /\ notices \in Nat
  /\ match \in Match /\ ordered \in Match /\ matches \in Match
  /\ timer \in [Timer -> Asleep \cup {Off}]
  /\ connected \in BOOLEAN
  /\ up \in Seq(Request)
  /\ down \in Seq(Frame)
  /\ searching \subseteq Queue /\ acks \subseteq Queue
  /\ calledOff \subseteq Match /\ cleared \subseteq Match
  /\ stale \in {"no", "word", "repeat"}
  /\ requests \in 0..MaxRequests /\ kills \in 0..MaxFaults /\ drops \in 0..MaxFaults

\* Nothing is on its way to the screen.
Drained == connected /\ up = <<>> /\ down = <<>> /\ updates = <<>> /\ phase = "ready"

\* While the server searches for the player, the panel shows these queues and
\* no others, however late the game before came to its end, unless a watchdog's
\* word on the match before came later still, over the search.
SearchIsShown ==
  Drained /\ searching # {} => SearchedQueues(shown) = searching \/ stale = "word"

\* The stop of a search that the match itself ended, acknowledged after the
\* match was shown, does not take it off the panel and unlock it.
LateStopsKeepTheMatch ==
  [][ApplyState /\ shown.kind \in {"found", "launching"} => shown'.kind # "idle"]_vars

\* A match on screen always has a watchdog of its queue, whatever came before
\* it on screen and whatever connection it came by. The one exception: each late
\* stop repeats the match, the loop sees it on screen already and arms nothing,
\* and it has left the screen by the time the loop puts it back.
FoundIsWatched ==
  shown.kind = "found" /\ stale # "repeat" => \E w \in Timer : timer[w].queue \in shown.queues

\* A match the server called off leaves no game of it running, whether the
\* cancellation finds the launch ordered, under way or done, unless something
\* else took the launch off the screen before: the end of a game, a
\* termination that came too early for this one, or a watchdog's late word.
CancelledMatchIsStopped == Drained /\ drops = 0 => game \notin calledOff \ cleared

\* A match that is found leaves the panel in the end, also when the server
\* drops it without a word, with the same exception.
FoundIsLeft == shown.kind = "found" /\ stale # "repeat" ~> shown.kind # "found"

-----------------------------------------------------------------------------
(* Refuted *)

\* "if the client has moved on [...] there is nothing to do" (services/lobby.rs):
\* a client that moves on once the watchdog has looked is given up all the same,
\* a search made in the meantime with it.
SearchIsAlwaysShown == Drained /\ searching # {} => SearchedQueues(shown) = searching

\* "Give up on a match the server never started. Spawned when match_found
\* arrives" (services/lobby.rs): not on one that a late stop puts back.
FoundIsAlwaysWatched ==
  shown.kind = "found" => \E w \in Timer : timer[w].queue \in shown.queues

\* "The server cancelled the match after launch, so Forged Alliance was
\* stopped." (services/lobby.rs): not when a termination during the launch, or
\* the end of the game before, told late, has taken the launch off the screen.
NoCancelledMatchRuns == Drained /\ drops = 0 => game \notin calledOff

\* "if the client has moved on -- a launch order came, the search was
\* cancelled, a new match was found, the connection dropped -- the state is no
\* longer the MatchFound this was armed for" (services/lobby.rs): a new match
\* of the same queue is one the old watchdog gives up.
TimerGivesUpItsOwnMatch ==
  [][\A w \in Timer : WatchdogLooks(w) /\ StillWaiting(w) => timer[w].match = shown.match]_vars

\* A search that is shown is one the server makes: a reconnect resets neither
\* the search on screen nor restores it at the server.
SearchShownIsReal == Drained /\ SearchedQueues(shown) # {} => SearchedQueues(shown) = searching

\* The panel is locked behind a launch only while there is something to wait
\* for: a launch that fails leaves "launching" on screen.
LockHasReason == Drained /\ shown.kind = "launching" => game # NoMatch \/ match # NoMatch

\* A match the server holds is on screen until its watchdog gives it up: the
\* late exit of the game before clears it too.
MatchIsShown ==
  Drained /\ match \notin {NoMatch, ordered} /\ (\E w \in Timer : timer[w].match = match)
    => shown.match = match
=============================================================================
