------------------------- MODULE MatchmakingProofs --------------------------
(* The search and the match as the server, the session, the update loop    *)
(* and the screen each see them, for any queues, any number of matches,    *)
(* requests and lost connections, and any size of the update channel.      *)
EXTENDS Matchmaking, SequenceTheorems, TLAPS

-----------------------------------------------------------------------------
(* The server *)

\* While it holds a match, or owes the stops of one, it searches for nobody;
\* a player it has lost it has forgotten.
Server ==
  /\ match # NoMatch => searching = {} /\ Queue # {}
  /\ acks # {} => searching = {}
  /\ ~connected => up = <<>> /\ down = <<>> /\ searching = {} /\ acks = {} /\ match = NoMatch
  /\ match <= matches /\ ordered <= matches
  /\ drops = 0 => connected

-----------------------------------------------------------------------------
(* From the server to the session *)

Stop(f) == f.type = "search_info" /\ ~f.start

Ends(S) == S[Len(S)]

\* S is what the session's copy becomes, frame by frame.
Replay(S) ==
  /\ S \in Seq(StateSet)
  /\ Len(S) = Len(down) + 1
  /\ S[1] = copy
  /\ \A i \in 1..Len(down) : S[i + 1] = AfterFrame(S[i], down[i])

\* Once it has read everything, the session searches where the server does;
\* and each frame finds the state it was sent in.
Tracks(S) ==
  /\ SearchedQueues(Ends(S)) = searching
  /\ acks # {} => Ends(S).kind # "idle"
  /\ drops = 0 /\ match \notin {NoMatch, ordered} => Ends(S).kind = "found"
  /\ \A i \in 1..Len(down) :
       /\ down[i].type = "match_found" => S[i].kind = "searching"
       /\ Stop(down[i]) => S[i].kind # "idle"
       /\ down[i].type = "game_launch" => S[i].kind # "searching"
       /\ down[i].type = "game_launch" /\ drops = 0 => S[i].kind = "found"

Course == connected => \E S \in Seq(StateSet) : Replay(S) /\ Tracks(S)

-----------------------------------------------------------------------------
(* From the session to the screen *)

\* A match is never put over one of another queue, and nothing empties a
\* panel that is locked.
MayFollow(old, s) ==
  /\ s.kind = "found" /\ old.kind = "found" => old.queues = s.queues
  /\ s.kind = "idle" => old.kind \notin {"found", "launching"}

\* Each of the states in us follows the one before it, the first one old.
Chain(us, old) ==
  \A i \in 1..Len(us) : us[i].type = "state" =>
    /\ i = 1 => MayFollow(old, us[i].state)
    /\ i > 1 /\ us[i].state.kind \in {"found", "idle"} => us[i - 1].type = "state"
    /\ i > 1 /\ us[i - 1].type = "state" => MayFollow(us[i - 1].state, us[i].state)

\* A watchdog's word on the match before has taken the search off the screen.
WordOverSearch == stale = "word" /\ shown.kind \in {"idle", "cancelled"}

\* The last state on its way is the session's copy, as long as that is a
\* search or a match.
Passing ==
  /\ Chain(updates, shown)
  /\ copy.kind \in {"searching", "found"} /\ updates # <<>>
       => updates[Len(updates)] = StateUpdate(copy)
  /\ copy.kind = "searching" /\ updates = <<>> => shown = copy \/ WordOverSearch
  /\ copy.kind = "found" /\ updates = <<>> => MayFollow(shown, copy)

-----------------------------------------------------------------------------
(* One launch at a time *)

LaunchFrame(i) == i \in 1..Len(down) /\ down[i].type = "game_launch"
LaunchUp(i) == i \in 1..Len(updates) /\ updates[i].type = "launch"

OneLaunch ==
  /\ \A i, j \in 1..Len(down) : LaunchFrame(i) /\ LaunchFrame(j) => i = j
  /\ \A i, j \in 1..Len(updates) : LaunchUp(i) /\ LaunchUp(j) => i = j
  /\ \A i \in 1..Len(down) : LaunchFrame(i)
       => game = NoMatch /\ launching = NoMatch /\ \A j \in 1..Len(updates) : ~LaunchUp(j)
  /\ \A i \in 1..Len(updates) : LaunchUp(i) => game = NoMatch /\ launching = NoMatch
  /\ launching # NoMatch => game = NoMatch

-----------------------------------------------------------------------------
(* A match called off *)

CancelFrame(i, n) == i \in 1..Len(down) /\ down[i].type = "match_cancelled" /\ down[i].match = n
CancelUp(i, n) ==
  /\ i \in 1..Len(updates)
  /\ updates[i].type = "state"
  /\ updates[i].state.kind = "cancelled"
  /\ updates[i].state.match = n

\* The cancellation of match n is on its way to the update loop.
Cancelling(n) ==
  \/ \E i \in 1..Len(down) : CancelFrame(i, n)
  \/ \E i \in 1..Len(updates) : CancelUp(i, n)

\* No launch of match n is ordered, and none of it is under way or done.
NoLaunchOf(n) ==
  /\ \A i \in 1..Len(down) : LaunchFrame(i) => down[i].match # n
  /\ \A i \in 1..Len(updates) : LaunchUp(i) => updates[i].state.match # n

NoGameOf(n) == game # n /\ launching # n /\ NoLaunchOf(n)

\* What is launched is a match that was made, and so is what was called off,
\* which is the server's no more.
Made == \A n \in Match : NoGameOf(n) \/ n <= matches
Numbers ==
  /\ Made /\ NoLaunchOf(NoMatch)
  /\ \A n \in calledOff : n # NoMatch /\ n # match /\ n <= matches

\* Nothing resets the join of a session that has not been lost.
OneSession == \A i \in 1..Len(updates) : updates[i].type # "reconnecting"

\* A cancellation is of a match called off, and overtakes no launch of it.
InOrder ==
  /\ \A n \in Match : Cancelling(n) => n \in calledOff
  /\ copy.kind = "cancelled" => /\ copy.match \in calledOff
                                /\ \A j \in 1..Len(down) : LaunchFrame(j) => down[j].match # copy.match
  /\ \A n \in Match, i, j \in 1..Len(down) :
       CancelFrame(i, n) /\ LaunchFrame(j) /\ down[j].match = n => j < i
  /\ \A n \in Match, i, j \in 1..Len(updates) :
       CancelUp(i, n) /\ LaunchUp(j) /\ updates[j].state.match = n => j < i
  /\ \A n \in Match, i \in 1..Len(updates), j \in 1..Len(down) :
       CancelUp(i, n) /\ LaunchFrame(j) => down[j].match # n

\* The loop is about to stop the game of match n.
Stopping(n) == phase = "terminates" /\ game = n

\* The server may yet call match n off, or has done so, and nothing else has
\* taken its launch off the screen.
Callable(n) == match = n \/ Cancelling(n)
Due(n) == Callable(n) /\ n \notin cleared /\ ~Stopping(n)

Launches(s, n) == s.kind = "launching" /\ s.match = n
ShowsLaunch(u, n) == u.type = "state" /\ Launches(u.state, n)

\* From update i on, all that comes before the cancellation of match n shows
\* its launch: updates of it, and stops of the search that found it.
LockedFrom(i, n) ==
  /\ \A k \in i..Len(updates) : (\A c \in 1..k : ~CancelUp(c, n)) => ShowsLaunch(updates[k], n)
  /\ (\A c \in 1..Len(updates) : ~CancelUp(c, n))
       => /\ Launches(copy, n)
          /\ \A k \in 1..Len(down) : (\A c \in 1..k : ~CancelFrame(c, n)) => Stop(down[k])

\* Whoever waits for the launch of match n sees it: it is on screen where the
\* game runs or starts, and goes ahead of it where it is still to come.
Shows(n) ==
  /\ game = n \/ launching = n => Launches(shown, n) /\ LockedFrom(1, n)
  /\ game = n => inGame
  /\ \A j \in 1..Len(updates) : LaunchUp(j) /\ updates[j].state.match = n
       => /\ j = 1 => Launches(shown, n)
          /\ j > 1 => ShowsLaunch(updates[j - 1], n)
          /\ LockedFrom(j + 1, n)
  /\ \A j \in 1..Len(down) : LaunchFrame(j) /\ down[j].match = n
       => \A k \in (j + 1)..Len(down) : (\A c \in 1..k : ~CancelFrame(c, n)) => Stop(down[k])

\* So the cancellation finds the launch on screen.
LaunchIsShown == \A n \in Match \ {NoMatch} : Due(n) => Shows(n)

\* What was called off has a cancellation on its way or no game, unless the loop
\* is about to stop it.
Heeded ==
  \A n \in calledOff \ cleared :
    Cancelling(n) \/ NoGameOf(n) \/ Stopping(n)

\* A match is called off only on a connection; with none lost, all this holds.
CalledOff == drops = 0 => OneSession /\ InOrder /\ LaunchIsShown /\ Heeded

-----------------------------------------------------------------------------
(* The loop, between its look at the screen and what it does of it *)

Decided ==
  /\ phase \in {"arms", "repeats"} => Head(updates).state.kind = "found"
  /\ phase = "stops" => Head(updates).state.kind = "cancelled"
  /\ phase = "puts" => /\ Head(updates).state.kind # "found"
                       /\ \A n \in Match \ {NoMatch} :
                            drops = 0 /\ CancelUp(1, n) /\ n \notin cleared => game # n
  /\ launching = NoMatch <=> phase # "launches"

-----------------------------------------------------------------------------

IInv ==
  /\ TypeOK
  /\ Server /\ Course
  /\ Passing /\ FoundIsWatched
  /\ OneLaunch /\ Numbers /\ CalledOff /\ Decided

-----------------------------------------------------------------------------
(* States *)

Kind == {"idle", "searching", "found", "launching", "cancelled"}

LEMMA MatchRange == NoMatch \in Match /\ Match \subseteq Nat
BY BoundAssumption DEF NoMatch, Match

\* What a state of each kind looks like.
Formed(s) ==
  /\ s = [kind |-> s.kind, queues |-> s.queues, match |-> s.match]
  /\ s.kind \in Kind
  /\ s.queues \subseteq Queue /\ s.match \in Match
  /\ s.kind = "idle" => s.queues = {} /\ s.match = NoMatch
  /\ s.kind = "searching" => s.queues # {} /\ s.match = NoMatch
  /\ s.kind = "found" => \E q \in Queue : s.queues = {q}
  /\ s.kind \in {"launching", "cancelled"} => s.queues = {} \/ \E q \in Queue : s.queues = {q}

LEMMA StateForms ==
  ASSUME NEW s \in StateSet
  PROVE  Formed(s)
<1> USE MatchRange DEF Formed, Kind, State
<1>1. CASE s \in {State("idle", {}, NoMatch)}
  BY <1>1
<1>2. CASE s \in {State("searching", qs, NoMatch) : qs \in (SUBSET Queue) \ {{}}}
  <2>1. PICK qs \in (SUBSET Queue) \ {{}} : s = State("searching", qs, NoMatch)
    BY <1>2
  <2>2. s.kind = "searching" /\ s.queues = qs /\ s.match = NoMatch /\ qs \subseteq Queue /\ qs # {}
    BY <2>1
  <2>3. QED
    BY <2>1, <2>2
<1>3. CASE s \in {State(k, {q}, n) : k \in {"found", "launching", "cancelled"}, q \in Queue, n \in Match}
  <2>1. PICK k \in {"found", "launching", "cancelled"}, q \in Queue, n \in Match : s = State(k, {q}, n)
    BY <1>3
  <2>2. s.kind = k /\ s.queues = {q} /\ s.match = n
    BY <2>1
  <2>3. QED
    BY <2>1, <2>2
<1>4. CASE s \in {State(k, {}, n) : k \in {"launching", "cancelled"}, n \in Match}
  BY <1>4
<1>5. QED
  BY <1>1, <1>2, <1>3, <1>4 DEF StateSet

LEMMA StatesOf ==
  /\ Idle \in StateSet
  /\ \A qs \in SUBSET Queue : qs # {} => State("searching", qs, NoMatch) \in StateSet
  /\ \A q \in Queue, n \in Match : State("found", {q}, n) \in StateSet
  /\ \A k \in {"launching", "cancelled"}, q \in Queue, n \in Match : State(k, {q}, n) \in StateSet
  /\ \A k \in {"launching", "cancelled"}, n \in Match : State(k, {}, n) \in StateSet
<1> DEFINE I == {State("idle", {}, NoMatch)}
           S == {State("searching", qs, NoMatch) : qs \in (SUBSET Queue) \ {{}}}
           M == {State(k, {q}, n) : k \in {"found", "launching", "cancelled"}, q \in Queue, n \in Match}
           N == {State(k, {}, n) : k \in {"launching", "cancelled"}, n \in Match}
<1>1. StateSet = I \cup S \cup M \cup N
  BY DEF StateSet
<1>2. Idle \in I
  BY DEF Idle
<1>3. ASSUME NEW qs \in SUBSET Queue, qs # {} PROVE State("searching", qs, NoMatch) \in S
  <2>1. qs \in (SUBSET Queue) \ {{}}
    BY <1>3
  <2>2. QED
    BY <2>1
<1>4. ASSUME NEW k \in {"found", "launching", "cancelled"}, NEW q \in Queue, NEW n \in Match
      PROVE  State(k, {q}, n) \in M
  <2>1. \E a \in {"found", "launching", "cancelled"}, b \in Queue, c \in Match :
           State(k, {q}, n) = State(a, {b}, c)
    OBVIOUS
  <2>2. QED
    BY <2>1
<1>5. ASSUME NEW k \in {"launching", "cancelled"}, NEW n \in Match PROVE State(k, {}, n) \in N
  OBVIOUS
<1> HIDE DEF I, S, M, N
<1>6. QED
  BY <1>1, <1>2, <1>3, <1>4, <1>5

LEMMA MatchedOf ==
  ASSUME NEW s \in StateSet
  PROVE  MatchedQueues(s) = {} \/ \E q \in Queue : MatchedQueues(s) = {q}
BY StateForms DEF Formed, MatchedQueues

LEMMA CancelledState ==
  ASSUME NEW s \in StateSet, NEW n \in Match
  PROVE  State("cancelled", MatchedQueues(s), n) \in StateSet
BY MatchedOf, StatesOf

\* What each frame makes of the session's state.
LEMMA SearchInfoRead ==
  ASSUME NEW s \in StateSet, NEW f \in Frame, f.type = "search_info"
  PROVE  /\ AfterFrame(s, f) = UpdateSearch(s, f.queue, f.start)
         /\ AfterFrame(s, f) \in StateSet
         /\ f.start => AfterFrame(s, f).kind = "searching"
                       /\ SearchedQueues(AfterFrame(s, f)) = SearchedQueues(s) \cup {f.queue}
         /\ ~f.start /\ s.kind # "searching" => AfterFrame(s, f) = s
         /\ ~f.start /\ s.kind = "searching"
              => /\ SearchedQueues(AfterFrame(s, f)) = s.queues \ {f.queue}
                 /\ AfterFrame(s, f).kind \in {"idle", "searching"}
<1>1. f.queue \in Queue /\ f.start \in BOOLEAN
  BY DEF Frame
<1>2. AfterFrame(s, f) = UpdateSearch(s, f.queue, f.start)
  BY DEF AfterFrame
<1>3. s.queues \subseteq Queue
  BY StateForms DEF Formed
<1>4. SearchedQueues(s) \subseteq Queue
  BY <1>3 DEF SearchedQueues
<1>5. CASE f.start
  <2>1. UpdateSearch(s, f.queue, f.start) = State("searching", SearchedQueues(s) \cup {f.queue}, NoMatch)
    BY <1>5 DEF UpdateSearch
  <2>2. SearchedQueues(s) \cup {f.queue} \in SUBSET Queue
    BY <1>1, <1>4
  <2>3. State("searching", SearchedQueues(s) \cup {f.queue}, NoMatch) \in StateSet
    BY <2>2, StatesOf
  <2> DEFINE t == State("searching", SearchedQueues(s) \cup {f.queue}, NoMatch)
  <2>4. t.kind = "searching" /\ SearchedQueues(t) = SearchedQueues(s) \cup {f.queue}
    BY DEF State, SearchedQueues
  <2>5. AfterFrame(s, f) = t
    BY <1>2, <2>1
  <2>6. QED
    BY <1>2, <1>5, <2>3, <2>4, <2>5
<1>6. CASE ~f.start /\ s.kind # "searching"
  BY <1>2, <1>6 DEF UpdateSearch
<1>7. CASE ~f.start /\ s.kind = "searching"
  <2> DEFINE left == s.queues \ {f.queue}
  <2>1. UpdateSearch(s, f.queue, f.start) = IF left = {} THEN Idle ELSE State("searching", left, NoMatch)
    BY <1>7 DEF UpdateSearch, SearchedQueues
  <2>2. CASE left = {}
    BY <1>2, <1>7, <2>1, <2>2, StatesOf DEF State, SearchedQueues, Idle
  <2>3. CASE left # {}
    <3>1. State("searching", left, NoMatch) \in StateSet
      BY <1>3, <2>3, StatesOf
    <3>2. QED
      BY <1>2, <1>7, <2>1, <2>3, <3>1 DEF State, SearchedQueues
  <2>4. QED
    BY <2>2, <2>3
<1>8. QED
  BY <1>1, <1>2, <1>5, <1>6, <1>7

LEMMA FoundRead ==
  ASSUME NEW s \in StateSet, NEW f \in Frame, f.type = "match_found"
  PROVE  /\ AfterFrame(s, f) = State("found", {f.queue}, f.match)
         /\ AfterFrame(s, f) \in StateSet
         /\ AfterFrame(s, f).kind = "found" /\ SearchedQueues(AfterFrame(s, f)) = {}
BY StatesOf DEF AfterFrame, Frame, State, SearchedQueues

LEMMA CancelledRead ==
  ASSUME NEW s \in StateSet, NEW f \in Frame, f.type = "match_cancelled"
  PROVE  /\ AfterFrame(s, f) \in StateSet
         /\ AfterFrame(s, f).kind = "cancelled" /\ AfterFrame(s, f).match = f.match
         /\ SearchedQueues(AfterFrame(s, f)) = {}
<1>1. AfterFrame(s, f) = State("cancelled", MatchedQueues(s), f.match)
  BY DEF AfterFrame
<1>2. f.match \in Match
  BY DEF Frame
<1>3. AfterFrame(s, f) \in StateSet
  BY <1>1, <1>2, CancelledState
<1>4. QED
  BY <1>1, <1>3 DEF State, SearchedQueues

LEMMA LaunchRead ==
  ASSUME NEW s \in StateSet, NEW f \in Frame, f.type = "game_launch"
  PROVE  /\ AfterFrame(s, f) \in StateSet
         /\ MatchedQueues(s) # {} => AfterFrame(s, f) = State("launching", MatchedQueues(s), f.match)
                                     /\ AfterFrame(s, f).kind = "launching"
         /\ MatchedQueues(s) = {} => AfterFrame(s, f) = s
         /\ s.kind # "searching" => SearchedQueues(AfterFrame(s, f)) = {}
<1>1. AfterFrame(s, f) = IF MatchedQueues(s) = {} THEN s ELSE State("launching", MatchedQueues(s), f.match)
  BY DEF AfterFrame, AfterLaunchOrder
<1>2. f.match \in Match
  BY DEF Frame
<1>3. CASE MatchedQueues(s) = {}
  BY <1>1, <1>3 DEF SearchedQueues
<1>4. CASE MatchedQueues(s) # {}
  <2>1. PICK q \in Queue : MatchedQueues(s) = {q}
    BY <1>4, MatchedOf
  <2>2. State("launching", {q}, f.match) \in StateSet
    BY <1>2, StatesOf
  <2>3. QED
    BY <1>1, <1>4, <2>1, <2>2 DEF State, SearchedQueues
<1>5. QED
  BY <1>3, <1>4

LEMMA FrameRead ==
  ASSUME NEW s \in StateSet, NEW f \in Frame
  PROVE  AfterFrame(s, f) \in StateSet
<1>1. f.type \in {"search_info", "match_found", "match_cancelled", "game_launch"}
  BY DEF Frame
<1>2. QED
  BY <1>1, SearchInfoRead, FoundRead, CancelledRead, LaunchRead

-----------------------------------------------------------------------------
(* Queues *)

LEMMA PutLast ==
  ASSUME NEW T, NEW s \in Seq(T), NEW e \in T, NEW t, t = Append(s, e)
  PROVE  /\ t \in Seq(T) /\ Len(t) = Len(s) + 1 /\ t # <<>>
         /\ Len(s) \in Nat /\ 1..Len(t) = 1..Len(s) \cup {Len(t)}
         /\ \A i \in 1..Len(s) : t[i] = s[i]
         /\ t[Len(t)] = e
<1>1. /\ t \in Seq(T) /\ Len(t) = Len(s) + 1 /\ t # <<>>
      /\ \A i \in 1..Len(s) : t[i] = s[i]
      /\ t[Len(t)] = e
  BY AppendProperties
<1>2. Len(s) \in Nat
  OBVIOUS
<1>3. 1..Len(t) = 1..Len(s) \cup {Len(t)}
  BY <1>1, <1>2
<1>4. QED
  BY <1>1, <1>2, <1>3

LEMMA TakeFirst ==
  ASSUME NEW T, NEW s \in Seq(T), s # <<>>, NEW t, t = Tail(s)
  PROVE  /\ t \in Seq(T) /\ Len(s) \in Nat /\ Len(t) \in Nat /\ Len(s) = Len(t) + 1
         /\ Head(s) = s[1] /\ s[1] \in T
         /\ \A i \in 1..Len(t) : i + 1 \in 1..Len(s) /\ t[i] = s[i + 1]
<1>1. Len(s) \in Nat \ {0}
  BY EmptySeq
<1>2. /\ t \in Seq(T) /\ Len(t) = Len(s) - 1
      /\ \A i \in 1..Len(t) : t[i] = s[i + 1]
  BY HeadTailProperties
<1>3. Head(s) = s[1] /\ s[1] \in T
  BY <1>1
<1>4. QED
  BY <1>1, <1>2, <1>3

LEMMA PutOne ==
  ASSUME NEW T, NEW s \in Seq(T), NEW e \in T, NEW t, t = s \o <<e>>
  PROVE  t = Append(s, e)
BY AppendIsConcat

LEMMA PutTwo ==
  ASSUME NEW T, NEW s \in Seq(T), NEW d \in T, NEW e \in T, NEW t, t = s \o <<d, e>>
  PROVE  t = Append(Append(s, d), e)
<1>1. Append(s, d) \in Seq(T) /\ <<d>> \in Seq(T) /\ <<e>> \in Seq(T)
  OBVIOUS
<1>2. <<d, e>> = <<d>> \o <<e>>
  <2>1. <<d, e>> = Append(<<d>>, e)
    OBVIOUS
  <2>2. QED
    BY <1>1, <2>1, AppendIsConcat
<1>3. s \o (<<d>> \o <<e>>) = (s \o <<d>>) \o <<e>>
  BY <1>1, ConcatAssociative
<1>4. s \o <<d>> = Append(s, d) /\ Append(s, d) \o <<e>> = Append(Append(s, d), e)
  BY <1>1, AppendIsConcat
<1>5. QED
  BY <1>2, <1>3, <1>4

-----------------------------------------------------------------------------
(* Types *)

LEMMA StateUpdateType == \A s \in StateSet : StateUpdate(s) \in Update
BY DEF StateUpdate, Update

LEMMA LaunchUpdateType ==
  \A n \in Match : LaunchUpdate(n) \in Update /\ LaunchUpdate(n).type = "launch"
                   /\ LaunchUpdate(n).state.match = n
<1> SUFFICES ASSUME NEW n \in Match
             PROVE  LaunchUpdate(n) \in Update /\ LaunchUpdate(n).type = "launch"
                    /\ LaunchUpdate(n).state.match = n
  OBVIOUS
<1>1. State("launching", {}, n) \in StateSet
  BY StatesOf
<1>2. QED
  BY <1>1 DEF LaunchUpdate, Update, State

LEMMA ReconnectingType == Reconnecting \in Update /\ Reconnecting.type = "reconnecting"
BY StatesOf DEF Reconnecting, Update

LEMMA FrameTypes ==
  /\ \A q \in Queue, b \in BOOLEAN : SearchInfo(q, b) \in Frame
  /\ \A t \in {"match_found", "match_cancelled", "game_launch"}, q \in Queue, n \in Match :
        MatchFrame(t, q, n) \in Frame
BY MatchRange DEF SearchInfo, MatchFrame, Frame

\* What the session passes on of a frame: the new state, and a launch order.
LEMMA ForwardedParts ==
  ASSUME TypeOK, NEW f \in Frame
  PROVE  /\ f.type # "game_launch" => Forwarded(copy, f) = <<StateUpdate(AfterFrame(copy, f))>>
         /\ f.type = "game_launch" /\ MatchedQueues(copy) = {} => Forwarded(copy, f) = <<LaunchUpdate(f.match)>>
         /\ f.type = "game_launch" /\ MatchedQueues(copy) # {}
              => Forwarded(copy, f) = <<StateUpdate(AfterFrame(copy, f)), LaunchUpdate(f.match)>>
BY DEF Forwarded

\* The session's step: one update more, or two for a launch of a match.
SentOne(u) == updates' = Append(updates, u)
SentTwo(u, v) == updates' = Append(Append(updates, u), v)

LEMMA SessionSends ==
  ASSUME TypeOK, SessionReads
  PROVE  LET f == Head(down)
             s == AfterFrame(copy, f)
         IN  /\ f \in Frame /\ f = down[1] /\ s \in StateSet /\ f.match \in Match
             /\ copy' = s
             /\ f.type # "game_launch" => SentOne(StateUpdate(s))
             /\ f.type = "game_launch" /\ MatchedQueues(copy) = {} => SentOne(LaunchUpdate(f.match))
             /\ f.type = "game_launch" /\ MatchedQueues(copy) # {}
                  => SentTwo(StateUpdate(s), LaunchUpdate(f.match))
<1> DEFINE f == Head(down)
           s == AfterFrame(copy, f)
<1>1. down \in Seq(Frame) /\ down # <<>> /\ copy \in StateSet /\ updates \in Seq(Update)
  BY DEF SessionReads, TypeOK
<1>2. f \in Frame /\ f = down[1] /\ f.match \in Match
  <2>1. f \in Frame /\ f = down[1]
    BY <1>1, TakeFirst
  <2>2. QED
    BY <2>1 DEF Frame
<1>3. s \in StateSet
  BY <1>1, <1>2, FrameRead
<1>4. copy' = s /\ updates' = updates \o Forwarded(copy, f)
  BY DEF SessionReads
<1>5. StateUpdate(s) \in Update /\ LaunchUpdate(f.match) \in Update
  BY <1>2, <1>3, StateUpdateType, LaunchUpdateType
<1> HIDE DEF f, s
<1>6. CASE f.type # "game_launch"
  <2>1. updates' = updates \o <<StateUpdate(s)>>
    BY <1>2, <1>4, <1>6, ForwardedParts DEF s
  <2>2. SentOne(StateUpdate(s))
    BY <1>1, <1>5, <2>1, PutOne DEF SentOne
  <2>3. QED
    BY <1>2, <1>3, <1>4, <1>6, <2>2 DEF f, s
<1>7. CASE f.type = "game_launch" /\ MatchedQueues(copy) = {}
  <2>1. updates' = updates \o <<LaunchUpdate(f.match)>>
    BY <1>2, <1>4, <1>7, ForwardedParts DEF s
  <2>2. SentOne(LaunchUpdate(f.match))
    BY <1>1, <1>5, <2>1, PutOne DEF SentOne
  <2>3. QED
    BY <1>2, <1>3, <1>4, <1>7, <2>2 DEF f, s
<1>8. CASE f.type = "game_launch" /\ MatchedQueues(copy) # {}
  <2>1. updates' = updates \o <<StateUpdate(s), LaunchUpdate(f.match)>>
    BY <1>2, <1>4, <1>8, ForwardedParts DEF s
  <2>2. SentTwo(StateUpdate(s), LaunchUpdate(f.match))
    BY <1>1, <1>5, <2>1, PutTwo DEF SentTwo
  <2>3. QED
    BY <1>2, <1>3, <1>4, <1>8, <2>2 DEF f, s
<1>9. QED
  BY <1>6, <1>7, <1>8

LEMMA InitTypes == Init => TypeOK
<1> SUFFICES ASSUME Init PROVE TypeOK
  OBVIOUS
<1>1. /\ updates \in Seq(Update) /\ up \in Seq(Request) /\ down \in Seq(Frame)
      /\ ~Holding
  BY EmptySeq DEF Init, Holding
<1>2. /\ launching \in Match /\ game \in Match /\ match \in Match /\ ordered \in Match
      /\ matches \in Match /\ requests \in 0..MaxRequests
      /\ kills \in 0..MaxFaults /\ drops \in 0..MaxFaults
  BY MatchRange, BoundAssumption DEF Init, NoMatch
<1>3. shown \in StateSet /\ copy \in StateSet
  BY StatesOf DEF Init
<1>4. timer \in [Timer -> Asleep \cup {Off}]
  BY DEF Init
<1>5. QED
  BY <1>1, <1>2, <1>3, <1>4 DEF Init, TypeOK

LEMMA PanelTypes ==
  ASSUME TypeOK, NEW q \in Queue, StartSearch(q) \/ StopSearch(q)
  PROVE  TypeOK'
<1>1. PICK b \in BOOLEAN : Requests(q, b)
  BY DEF StartSearch, StopSearch
<1>2. [queue |-> q, start |-> b] \in Request
  BY DEF Request
<1>3. up' \in Seq(Request) /\ requests' \in 0..MaxRequests
  <2>1. up \in Seq(Request)
    BY DEF TypeOK
  <2>2. Append(up, [queue |-> q, start |-> b]) \in Seq(Request)
    BY <1>2, <2>1, AppendProperties
  <2>3. QED
    BY <1>1, <2>1, <2>2, BoundAssumption DEF Requests, TypeOK
<1>4. QED
  BY <1>1, <1>3 DEF Requests, TypeOK, Holding, gameVars, screenVars, loopVars

LEMMA ServerTypes ==
  ASSUME TypeOK, Server,
         \/ \E q \in Queue : ServerMatches(q) \/ ServerAcks(q)
         \/ ServerTakesRequest \/ ServerLaunches \/ ServerCancels \/ ServerForgets
  PROVE  TypeOK'
<1> USE MatchRange DEF gameVars, screenVars, loopVars, countVars, Holding
<1>1. down \in Seq(Frame) /\ match \in Match /\ matches \in Match
  BY DEF TypeOK
<1>2. ASSUME NEW f \in Frame PROVE Append(down, f) \in Seq(Frame)
  BY <1>1, AppendProperties
<1>3. ASSUME NEW q \in Queue, ServerMatches(q) PROVE TypeOK'
  <2>1. matches + 1 \in Match
    BY <1>1, <1>3, BoundAssumption DEF ServerMatches, Match
  <2>2. MatchFrame("match_found", q, matches + 1) \in Frame
    BY <2>1, FrameTypes
  <2>3. down' \in Seq(Frame)
    BY <1>2, <1>3, <2>2 DEF ServerMatches
  <2>4. QED
    BY <1>3, <2>1, <2>3 DEF ServerMatches, TypeOK
<1>4. ASSUME NEW q \in Queue, ServerAcks(q) PROVE TypeOK'
  <2>1. down' \in Seq(Frame)
    BY <1>2, <1>4, FrameTypes DEF ServerAcks
  <2>2. QED
    BY <1>4, <2>1 DEF ServerAcks, TypeOK
<1>5. CASE ServerTakesRequest
  <2>1. up \in Seq(Request) /\ up # <<>>
    BY <1>5 DEF ServerTakesRequest, TypeOK
  <2>2. Head(up) \in Request /\ Tail(up) \in Seq(Request)
    BY <2>1, HeadTailProperties
  <2>3. Head(up).queue \in Queue /\ Head(up).start \in BOOLEAN
    BY <2>2 DEF Request
  <2>4. SearchInfo(Head(up).queue, Head(up).start) \in Frame
    BY <2>3, FrameTypes
  <2>5. Append(down, SearchInfo(Head(up).queue, Head(up).start)) \in Seq(Frame)
    BY <1>2, <2>4
  <2>6. down' \in {Append(down, SearchInfo(Head(up).queue, Head(up).start)), down}
        /\ searching' \subseteq Queue /\ up' = Tail(up)
    <3>1. searching \subseteq Queue
      BY DEF TypeOK
    <3>2. QED
      BY <1>5, <2>3, <3>1 DEF ServerTakesRequest
  <2>7. down' \in Seq(Frame) /\ up' \in Seq(Request)
    BY <1>1, <2>2, <2>5, <2>6
  <2>8. QED
    BY <1>5, <2>6, <2>7 DEF ServerTakesRequest, TypeOK
<1>6. CASE ServerLaunches \/ ServerCancels
  <2>1. match # NoMatch
    BY <1>6 DEF ServerLaunches, ServerCancels
  <2>2. (CHOOSE q \in Queue : TRUE) \in Queue
    BY <2>1 DEF Server
  <2>3. PICK t \in {"game_launch", "match_cancelled"} : ServerSays(t)
    BY <1>6 DEF ServerLaunches, ServerCancels
  <2>4. MatchFrame(t, CHOOSE q \in Queue : TRUE, match) \in Frame
    BY <1>1, <2>2, FrameTypes
  <2>5. down' \in Seq(Frame)
    BY <1>2, <2>3, <2>4 DEF ServerSays
  <2>6. QED
    BY <1>6, <2>5 DEF ServerLaunches, ServerCancels, TypeOK
<1>7. CASE ServerForgets
  BY <1>7 DEF ServerForgets, TypeOK
<1>8. QED
  BY <1>3, <1>4, <1>5, <1>6, <1>7

LEMMA SessionTypes ==
  ASSUME TypeOK, SessionReads \/ ConnectionLost \/ SessionStarts
  PROVE  TypeOK'
<1> USE MatchRange DEF gameVars, screenVars, loopVars, countVars, serverVars
<1>1. updates \in Seq(Update) /\ down \in Seq(Frame)
  BY DEF TypeOK
<1>2. ASSUME NEW S \in Seq(Update), NEW u \in Update,
             Holding => S # <<>> /\ Head(S).type = "state"
      PROVE  /\ Append(S, u) \in Seq(Update)
             /\ Holding => Append(S, u) # <<>> /\ Head(Append(S, u)).type = "state"
  <2>1. Append(S, u) \in Seq(Update) /\ Append(S, u) # <<>>
    BY <1>2, AppendProperties
  <2>2. S # <<>> => Head(Append(S, u)) = Head(S)
    BY <1>2, AppendProperties
  <2>3. QED
    BY <1>2, <2>1, <2>2
<1>3. CASE SessionReads
  <2> DEFINE f == Head(down)
             s == AfterFrame(copy, f)
  <2>1. /\ f \in Frame /\ s \in StateSet /\ f.match \in Match
        /\ copy' = s
        /\ \/ SentOne(StateUpdate(s))
           \/ SentOne(LaunchUpdate(f.match))
           \/ SentTwo(StateUpdate(s), LaunchUpdate(f.match))
    BY <1>3, SessionSends
  <2>2. StateUpdate(s) \in Update /\ LaunchUpdate(f.match) \in Update
    BY <2>1, StateUpdateType, LaunchUpdateType
  <2> HIDE DEF f, s
  <2>3. Holding => updates # <<>> /\ Head(updates).type = "state"
    BY DEF TypeOK
  <2>4. updates' \in Seq(Update) /\ (Holding => updates' # <<>> /\ Head(updates').type = "state")
    BY <1>1, <1>2, <2>1, <2>2, <2>3 DEF SentOne, SentTwo
  <2>5. down' \in Seq(Frame) /\ Holding' = Holding
    BY <1>1, <1>3, HeadTailProperties DEF SessionReads, Holding
  <2>6. QED
    BY <1>3, <2>1, <2>4, <2>5 DEF SessionReads, TypeOK
<1>4. CASE ConnectionLost
  <2>1. drops' \in 0..MaxFaults
    BY <1>4, BoundAssumption DEF ConnectionLost, TypeOK
  <2>2. up' \in Seq(Request) /\ down' \in Seq(Frame)
    BY <1>4, EmptySeq DEF ConnectionLost
  <2>3. QED
    BY <1>4, <2>1, <2>2 DEF ConnectionLost, TypeOK, Holding
<1>5. CASE SessionStarts
  <2>1. updates' \in Seq(Update) /\ (Holding => updates' # <<>> /\ Head(updates').type = "state")
    BY <1>1, <1>2, <1>5, ReconnectingType DEF SessionStarts, TypeOK
  <2>2. Holding' = Holding
    BY <1>5 DEF SessionStarts, Holding
  <2>3. QED
    BY <1>5, <2>1, <2>2, StatesOf DEF SessionStarts, TypeOK
<1>6. QED
  BY <1>3, <1>4, <1>5

\* The watchdog armed for a match is the queue's.
LEMMA ArmedTimer ==
  ASSUME NEW s \in StateSet, s.kind = "found"
  PROVE  (CHOOSE q \in s.queues : TRUE) \in s.queues /\ (CHOOSE q \in s.queues : TRUE) \in Queue
BY StateForms DEF Formed

\* What every end of a game does to the screen.
LEMMA TerminatedTypes ==
  ASSUME TypeOK, Terminated
  PROVE  /\ shown' \in StateSet /\ inGame' \in BOOLEAN /\ cleared' \subseteq Match
         /\ stale' \in {"no", "word", "repeat"}
<1>1. shown \in StateSet /\ shown.match \in Match
  BY StateForms DEF TypeOK, Formed
<1>2. QED
  BY <1>1, StatesOf DEF Terminated, LaunchHidden, ClearedByExit, TypeOK

\* Nobody but these touches the screen, the loop or the game.
LEMMA LoopTypes ==
  ASSUME TypeOK, Decided, Loop
  PROVE  TypeOK'
<1> USE MatchRange DEF gameVars, screenVars, countVars, serverVars, Holding
<1>1. updates \in Seq(Update)
  BY DEF TypeOK
<1>2. CASE LaunchSucceeds
  BY <1>2 DEF LaunchSucceeds, TypeOK
<1>3. CASE LaunchFails
  BY <1>3 DEF LaunchFails, TypeOK
<1>4. CASE StopCancelledGame
  <2>1. game' \in Match /\ notices' \in Nat
    BY <1>4 DEF StopCancelledGame, GameGone, TypeOK
  <2>2. QED
    BY <1>4, <2>1, TerminatedTypes DEF StopCancelledGame, TypeOK
<1>5. CASE LookAtState
  BY <1>5 DEF LookAtState, TypeOK
<1>6. CASE ApplyState \/ ApplyLaunch \/ ApplyReconnecting
  <2>1. updates # <<>> /\ updates' = Tail(updates)
    BY <1>6 DEF ApplyState, ApplyLaunch, ApplyReconnecting, TypeOK
  <2>2. updates' \in Seq(Update) /\ Head(updates) \in Update
    BY <1>1, <2>1, HeadTailProperties
  <2>3. Head(updates).state \in StateSet
    BY <2>2 DEF Update
  <2>4. CASE ApplyReconnecting
    BY <2>2, <2>4 DEF ApplyReconnecting, TypeOK, loopVars
  <2>5. CASE ApplyLaunch
    BY <2>2, <2>3, <2>5, StateForms DEF ApplyLaunch, TypeOK, Formed
  <2>6. CASE ApplyState
    <3> DEFINE s == Head(updates).state
    <3>1. timer' \in [Timer -> Asleep \cup {Off}]
      <4>1. CASE phase = "arms"
        <5>1. timer' = [timer EXCEPT ![Free] = [queue |-> CHOOSE q \in s.queues : TRUE,
                                                match |-> s.match, due |-> FALSE]]
          BY <2>6, <4>1 DEF ApplyState
        <5>2. s.kind = "found"
          BY <4>1 DEF Decided
        <5>3. [queue |-> CHOOSE q \in s.queues : TRUE, match |-> s.match, due |-> FALSE] \in Asleep
          BY <2>3, <5>2, ArmedTimer, StateForms DEF Asleep, Formed
        <5>4. QED
          BY <5>1, <5>3 DEF TypeOK
      <4>2. CASE phase # "arms"
        BY <2>6, <4>2 DEF ApplyState, TypeOK
      <4>3. QED
        BY <4>1, <4>2
    <3>2. shown' \in StateSet /\ stale' \in {"no", "word", "repeat"}
      BY <2>3, <2>6 DEF ApplyState
    <3>3. QED
      BY <2>2, <2>6, <3>1, <3>2 DEF ApplyState, TypeOK
  <2>7. QED
    BY <1>6, <2>4, <2>5, <2>6
<1>7. QED
  BY <1>2, <1>3, <1>4, <1>5, <1>6 DEF Loop

Watchdogs == \E w \in Timer : WatchdogLooks(w) \/ WatchdogGivesUp(w)

OwnWay == GameExits \/ Terminates \/ ExitNoticed \/ Watchdogs

LEMMA OwnWayTypes ==
  ASSUME TypeOK, OwnWay
  PROVE  TypeOK'
<1> USE MatchRange DEF gameVars, screenVars, loopVars, countVars, serverVars, Holding
<1>1. CASE GameExits
  BY <1>1 DEF GameExits, GameGone, TypeOK
<1>2. CASE Terminates
  <2>1. kills' \in 0..MaxFaults
    BY <1>2, BoundAssumption DEF Terminates, TypeOK
  <2>2. QED
    BY <1>2, <2>1 DEF Terminates, TypeOK
<1>3. CASE ExitNoticed
  <2>1. notices' \in Nat
    BY <1>3 DEF ExitNoticed, TypeOK
  <2>2. QED
    BY <1>3, <2>1, TerminatedTypes DEF ExitNoticed, TypeOK
<1>4. ASSUME NEW w \in Timer, WatchdogLooks(w) PROVE TypeOK'
  <2>1. timer[w] \in Asleep
    BY <1>4 DEF WatchdogLooks, TypeOK
  <2>2. [timer[w] EXCEPT !.due = TRUE] \in Asleep
    BY <2>1 DEF Asleep
  <2>3. timer' \in [Timer -> Asleep \cup {Off}]
    BY <1>4, <2>2 DEF WatchdogLooks, TypeOK
  <2>4. QED
    BY <1>4, <2>3 DEF WatchdogLooks, TypeOK
<1>5. ASSUME NEW w \in Timer, WatchdogGivesUp(w) PROVE TypeOK'
  <2>1. timer[w] \in Asleep
    BY <1>5 DEF WatchdogGivesUp, TypeOK, Off
  <2>2. timer[w].queue \in Queue /\ timer[w].match \in Match
    BY <2>1 DEF Asleep
  <2>3. shown' \in StateSet
    BY <1>5, <2>2, StatesOf DEF WatchdogGivesUp
  <2>4. cleared' \subseteq Match
    <3>1. shown.match \in Match
      BY StateForms DEF TypeOK, Formed
    <3>2. QED
      BY <1>5, <3>1 DEF WatchdogGivesUp, LaunchHidden, TypeOK
  <2>5. timer' \in [Timer -> Asleep \cup {Off}]
    BY <1>5 DEF WatchdogGivesUp, TypeOK
  <2>6. stale' \in {"no", "word", "repeat"}
    BY <1>5 DEF WatchdogGivesUp
  <2>7. QED
    BY <1>5, <2>3, <2>4, <2>5, <2>6 DEF WatchdogGivesUp, TypeOK
<1>6. QED
  BY <1>1, <1>2, <1>3, <1>4, <1>5 DEF OwnWay, Watchdogs

\* The session, the server and the connection have no part in these.
LEMMA LoopApart ==
  ASSUME Loop \/ OwnWay
  PROVE  UNCHANGED <<copy, connected, serverVars, ordered, matches, requests, drops, calledOff>>
BY DEF Loop, OwnWay, Watchdogs, LookAtState, ApplyState, StopCancelledGame, ApplyLaunch, LaunchSucceeds,
       LaunchFails, ApplyReconnecting, GameExits, Terminates, ExitNoticed, WatchdogLooks,
       WatchdogGivesUp, countVars

-----------------------------------------------------------------------------
(* The server *)

LEMMA ServerActs ==
  ASSUME TypeOK, Server,
         \/ \E q \in Queue : ServerMatches(q) \/ ServerAcks(q)
         \/ ServerTakesRequest \/ ServerLaunches \/ ServerCancels \/ ServerForgets
  PROVE  Server'
<1> USE DEF countVars
<1>1. match \in Nat /\ matches \in Nat /\ ordered \in Nat /\ searching \subseteq Queue
  BY MatchRange DEF TypeOK
<1>2. ASSUME NEW q \in Queue, ServerMatches(q) PROVE Server'
  <2>1. match' = matches + 1 /\ matches' = matches + 1 /\ searching' = {} /\ Queue # {}
        /\ UNCHANGED <<connected, ordered, drops>> /\ connected
    BY <1>2 DEF ServerMatches, Server
  <2>2. QED
    BY <1>1, <2>1 DEF Server
<1>3. ASSUME NEW q \in Queue, ServerAcks(q) PROVE Server'
  <2>1. acks # {} /\ searching = {} /\ connected
    BY <1>3 DEF ServerAcks, Server
  <2>2. QED
    BY <1>3, <2>1 DEF ServerAcks, Server
<1>4. CASE ServerTakesRequest
  <2>1. acks = {} /\ acks' = {} /\ connected /\ UNCHANGED <<match, matches, ordered, connected, drops>>
    BY <1>4 DEF ServerTakesRequest, Server
  <2>2. CASE match = NoMatch
    BY <2>1, <2>2 DEF Server
  <2>3. CASE match # NoMatch
    <3>1. searching = {} /\ Queue # {}
      BY <2>3 DEF Server
    <3>2. searching' = {}
      BY <1>4, <2>3, <3>1 DEF ServerTakesRequest
    <3>3. QED
      BY <2>1, <3>1, <3>2 DEF Server
  <2>4. QED
    BY <2>2, <2>3
<1>5. CASE ServerLaunches
  BY <1>1, <1>5 DEF ServerLaunches, ServerSays, Server
<1>6. CASE ServerCancels \/ ServerForgets
  BY <1>1, <1>6 DEF ServerCancels, ServerForgets, ServerSays, Server, NoMatch
<1>7. QED
  BY <1>2, <1>3, <1>4, <1>5, <1>6

\* Everything else leaves the server alone, or loses it.
LEMMA ServerElsewhere ==
  ASSUME TypeOK, Server, [Next]_vars,
         ~(\E q \in Queue : ServerMatches(q) \/ ServerAcks(q)),
         ~(ServerTakesRequest \/ ServerLaunches \/ ServerCancels \/ ServerForgets)
  PROVE  Server'
<1> USE DEF countVars, serverVars, gameVars, screenVars, loopVars
<1>1. ASSUME NEW q \in Queue, StartSearch(q) \/ StopSearch(q) PROVE Server'
  BY <1>1 DEF StartSearch, StopSearch, Requests, Server
<1>2. CASE SessionReads
  BY <1>2 DEF SessionReads, Server
<1>3. CASE ConnectionLost
  <2>1. drops \in Nat /\ drops' = drops + 1 /\ matches \in Nat
    BY <1>3, BoundAssumption, MatchRange DEF ConnectionLost, TypeOK
  <2>2. drops' # 0
    BY <2>1
  <2>3. QED
    BY <1>3, <2>1, <2>2 DEF ConnectionLost, Server, NoMatch
<1>4. CASE SessionStarts
  BY <1>4 DEF SessionStarts, Server
<1>5. CASE Loop \/ OwnWay
  BY <1>5, LoopApart DEF Server
<1>6. CASE UNCHANGED vars
  BY <1>6 DEF vars, Server
<1>7. QED
  BY <1>1, <1>2, <1>3, <1>4, <1>5, <1>6 DEF Next, OwnWay, Watchdogs

-----------------------------------------------------------------------------
(* From the server to the session *)

\* What holds when frame f is sent while the session is bound for state e.
Sendable(f, e) ==
  /\ SearchedQueues(AfterFrame(e, f)) = searching'
  /\ acks' # {} => AfterFrame(e, f).kind # "idle"
  /\ drops = 0 /\ match' \notin {NoMatch, ordered'} => AfterFrame(e, f).kind = "found"
  /\ f.type = "match_found" => e.kind = "searching"
  /\ Stop(f) => e.kind # "idle"
  /\ f.type = "game_launch" => e.kind # "searching"
  /\ f.type = "game_launch" /\ drops = 0 => e.kind = "found"

LEMMA ReplayEnds ==
  ASSUME TypeOK, NEW S \in Seq(StateSet), Replay(S)
  PROVE  Ends(S) \in StateSet /\ Len(S) = Len(down) + 1 /\ Len(down) \in Nat
<1>1. Len(down) \in Nat
  BY DEF TypeOK
<1>2. Len(S) = Len(down) + 1
  BY DEF Replay
<1>3. Len(S) \in 1..Len(S)
  BY <1>1, <1>2
<1>4. QED
  BY <1>1, <1>2, <1>3, ElementOfSeq DEF Ends

LEMMA CourseSent ==
  ASSUME TypeOK, NEW S \in Seq(StateSet), Replay(S), Tracks(S),
         NEW f \in Frame, down' = Append(down, f), UNCHANGED <<copy, drops>>,
         Sendable(f, Ends(S))
  PROVE  Course'
<1>1. PICK T : T = Append(S, AfterFrame(Ends(S), f))
  OBVIOUS
<1>2. Ends(S) \in StateSet /\ Len(S) = Len(down) + 1 /\ Len(down) \in Nat
  BY ReplayEnds
<1>3. AfterFrame(Ends(S), f) \in StateSet
  BY <1>2, FrameRead
<1>4. /\ T \in Seq(StateSet) /\ Len(T) = Len(S) + 1
      /\ 1..Len(T) = 1..Len(S) \cup {Len(T)}
      /\ \A i \in 1..Len(S) : T[i] = S[i]
      /\ T[Len(T)] = AfterFrame(Ends(S), f)
  BY <1>1, <1>3, PutLast
<1>5. /\ Len(down') = Len(down) + 1
      /\ 1..Len(down') = 1..Len(down) \cup {Len(down')}
      /\ \A i \in 1..Len(down) : down'[i] = down[i]
      /\ down'[Len(down')] = f
  BY PutLast DEF TypeOK
<1>6. Ends(T) = AfterFrame(Ends(S), f)
  BY <1>4 DEF Ends
<1>7. Replay(T)'
  <2>1. T[1] = copy'
    BY <1>2, <1>4 DEF Replay
  <2>2. \A i \in 1..Len(down') : T[i + 1] = AfterFrame(T[i], down'[i])
    <3>1. ASSUME NEW i \in 1..Len(down) PROVE T[i + 1] = AfterFrame(T[i], down'[i])
      <4>1. i \in 1..Len(S) /\ i + 1 \in 1..Len(S)
        BY <1>2
      <4>2. QED
        BY <1>4, <1>5, <4>1 DEF Replay
    <3>2. T[Len(down') + 1] = AfterFrame(T[Len(down')], down'[Len(down')])
      <4>1. Len(down') = Len(S) /\ Len(down') + 1 = Len(T) /\ Len(S) \in 1..Len(S)
        BY <1>2, <1>4, <1>5
      <4>2. QED
        BY <1>4, <1>5, <4>1 DEF Ends
    <3>3. QED
      BY <1>5, <3>1, <3>2
  <2>3. QED
    BY <1>2, <1>4, <1>5, <2>1, <2>2 DEF Replay
<1>8. Tracks(T)'
  <2>1. /\ SearchedQueues(Ends(T)) = searching'
        /\ acks' # {} => Ends(T).kind # "idle"
        /\ drops' = 0 /\ match' \notin {NoMatch, ordered'} => Ends(T).kind = "found"
    BY <1>6 DEF Sendable
  <2>2. ASSUME NEW i \in 1..Len(down')
        PROVE  /\ down'[i].type = "match_found" => T[i].kind = "searching"
               /\ Stop(down'[i]) => T[i].kind # "idle"
               /\ down'[i].type = "game_launch" => T[i].kind # "searching"
               /\ down'[i].type = "game_launch" /\ drops' = 0 => T[i].kind = "found"
    <3>1. CASE i \in 1..Len(down)
      <4>1. T[i] = S[i] /\ down'[i] = down[i]
        BY <1>2, <1>4, <1>5, <3>1
      <4>2. QED
        BY <3>1, <4>1 DEF Tracks
    <3>2. CASE i = Len(down')
      <4>1. T[i] = Ends(S) /\ down'[i] = f
        <5>1. i = Len(S) /\ Len(S) \in 1..Len(S)
          BY <1>2, <1>5, <3>2
        <5>2. QED
          BY <1>4, <1>5, <3>2, <5>1 DEF Ends
      <4>2. QED
        BY <4>1 DEF Sendable
    <3>3. QED
      BY <1>5, <3>1, <3>2
  <2>3. QED
    BY <2>1, <2>2 DEF Tracks
<1>9. QED
  BY <1>4, <1>7, <1>8 DEF Course

\* The server's steps: each sends a frame the state it finds is ready for.
LEMMA CourseServer ==
  ASSUME TypeOK, Server, Course,
         \/ \E q \in Queue : ServerMatches(q) \/ ServerAcks(q)
         \/ ServerTakesRequest \/ ServerLaunches \/ ServerCancels \/ ServerForgets
  PROVE  Course'
<1> USE DEF countVars
<1>1. connected /\ connected' = connected /\ UNCHANGED <<copy, drops>>
  BY DEF Server, ServerMatches, ServerAcks, ServerTakesRequest, ServerLaunches, ServerCancels, ServerForgets
<1>2. PICK S \in Seq(StateSet) : Replay(S) /\ Tracks(S)
  BY <1>1 DEF Course
<1> DEFINE e == Ends(S)
<1>3. e \in StateSet /\ Formed(e)
  BY <1>2, ReplayEnds, StateForms
<1>4. SearchedQueues(e) = searching
  BY <1>2 DEF Tracks
<1>5. searching = {} => e.kind # "searching"
  BY <1>3, <1>4 DEF Formed, SearchedQueues
<1>6. \A q \in searching : e.kind = "searching"
  BY <1>4 DEF SearchedQueues
<1>7. ASSUME NEW q \in Queue, ServerMatches(q) PROVE Course'
  <2> DEFINE f == MatchFrame("match_found", q, matches + 1)
  <2>1. f \in Frame /\ f.type = "match_found" /\ ~Stop(f)
    <3>1. matches + 1 \in Match
      BY <1>7, BoundAssumption DEF ServerMatches, Match, TypeOK
    <3>2. QED
      BY <3>1, FrameTypes DEF MatchFrame, Stop
  <2>2. /\ AfterFrame(e, f).kind = "found" /\ SearchedQueues(AfterFrame(e, f)) = {}
    BY <1>3, <2>1, FoundRead
  <2>3. down' = Append(down, f) /\ searching' = {} /\ e.kind = "searching"
    BY <1>6, <1>7 DEF ServerMatches
  <2> HIDE DEF f
  <2>4. Sendable(f, e)
    BY <2>1, <2>2, <2>3 DEF Sendable
  <2>5. QED
    BY <1>1, <1>2, <2>1, <2>3, <2>4, CourseSent
<1>8. ASSUME NEW q \in Queue, ServerAcks(q) PROVE Course'
  <2> DEFINE f == SearchInfo(q, FALSE)
  <2>1. f \in Frame /\ f.type = "search_info" /\ ~f.start
    BY FrameTypes DEF SearchInfo
  <2>2. searching = {} /\ acks # {} /\ down' = Append(down, f)
        /\ UNCHANGED <<searching, match, ordered>>
    BY <1>8 DEF ServerAcks, Server
  <2>3. e.kind \notin {"searching", "idle"}
    BY <1>2, <1>5, <2>2 DEF Tracks
  <2> HIDE DEF f
  <2>4. AfterFrame(e, f) = e
    BY <1>3, <2>1, <2>3, SearchInfoRead
  <2>5. Sendable(f, e)
    BY <1>1, <1>2, <1>4, <2>1, <2>2, <2>3, <2>4 DEF Sendable, Tracks
  <2>6. QED
    BY <1>1, <1>2, <2>1, <2>2, <2>5, CourseSent
<1>9. CASE ServerTakesRequest
  <2> DEFINE r == Head(up)
             f == SearchInfo(r.queue, r.start)
             heeded == IF r.start THEN match = NoMatch /\ ~Playing /\ r.queue \notin searching
                                  ELSE r.queue \in searching
  <2>1. r.queue \in Queue /\ r.start \in BOOLEAN
    <3>1. up \in Seq(Request) /\ up # <<>>
      BY <1>9 DEF ServerTakesRequest, TypeOK
    <3>2. r \in Request
      BY <3>1, HeadTailProperties
    <3>3. QED
      BY <3>2 DEF Request
  <2>2. f \in Frame /\ f.type = "search_info" /\ f.queue = r.queue /\ f.start = r.start
    BY <2>1, FrameTypes DEF SearchInfo
  <2>3. acks = {} /\ acks' = {} /\ UNCHANGED <<match, ordered>>
    BY <1>9 DEF ServerTakesRequest
  <2>4. CASE ~heeded
    <3>1. UNCHANGED <<searching, down>>
      BY <1>9, <2>4 DEF ServerTakesRequest
    <3>2. QED
      BY <1>1, <1>2, <2>3, <3>1 DEF Course, Replay, Tracks
  <2>5. CASE heeded
    <3>1. down' = Append(down, f)
      BY <1>9, <2>5 DEF ServerTakesRequest
    <3>2. searching' = IF r.start THEN searching \cup {r.queue} ELSE searching \ {r.queue}
      BY <1>9, <2>5 DEF ServerTakesRequest
    <3>3. r.start => match = NoMatch
      BY <2>5
    <3>4. ~r.start => r.queue \in searching /\ e.kind = "searching" /\ match = NoMatch
      BY <1>6, <2>5 DEF Server
    <3> HIDE DEF r, f
    <3>5. Sendable(f, e)
      <4>1. CASE r.start
        BY <1>3, <1>4, <2>1, <2>2, <2>3, <3>2, <3>3, <4>1, SearchInfoRead DEF Sendable, Stop
      <4>2. CASE ~r.start
        <5>1. SearchedQueues(e) = e.queues
          BY <3>4, <4>2 DEF SearchedQueues
        <5>2. SearchedQueues(AfterFrame(e, f)) = searching'
          BY <1>3, <1>4, <2>2, <3>2, <3>4, <4>2, <5>1, SearchInfoRead
        <5>3. QED
          BY <2>2, <2>3, <3>4, <4>2, <5>2 DEF Sendable, Stop
      <4>3. QED
        BY <4>1, <4>2
    <3>6. QED
      BY <1>1, <1>2, <2>2, <3>1, <3>5, CourseSent
  <2>6. QED
    BY <2>4, <2>5
<1>10. ASSUME match # NoMatch, NEW t \in {"game_launch", "match_cancelled"}, ServerSays(t)
       PROVE  /\ searching = {} /\ e.kind # "searching"
              /\ \E f \in Frame : /\ f.type = t /\ ~Stop(f)
                                  /\ down' = Append(down, f)
                                  /\ SearchedQueues(AfterFrame(e, f)) = {}
                                  /\ e.kind \notin {"idle"} => AfterFrame(e, f).kind # "idle"
                                  /\ t = "match_cancelled" => AfterFrame(e, f).kind # "idle"
  <2>1. searching = {} /\ (CHOOSE q \in Queue : TRUE) \in Queue
    BY <1>10 DEF Server
  <2>2. PICK f : f = MatchFrame(t, CHOOSE q \in Queue : TRUE, match)
    OBVIOUS
  <2>3. f \in Frame /\ f.type = t /\ ~Stop(f)
    BY <2>1, <2>2, FrameTypes DEF MatchFrame, Stop, TypeOK
  <2>4. down' = Append(down, f)
    BY <1>10, <2>2 DEF ServerSays
  <2>5. CASE t = "game_launch"
    BY <1>3, <1>5, <2>1, <2>3, <2>4, <2>5, LaunchRead
  <2>6. CASE t = "match_cancelled"
    BY <1>3, <1>5, <2>1, <2>3, <2>4, <2>6, CancelledRead
  <2>7. QED
    BY <2>5, <2>6
<1>11. CASE ServerLaunches
  <2>1. /\ match # NoMatch /\ match # ordered /\ ordered' = match /\ ServerSays("game_launch")
        /\ UNCHANGED <<searching, acks, match>>
    BY <1>11 DEF ServerLaunches
  <2>2. PICK f \in Frame : /\ f.type = "game_launch" /\ ~Stop(f)
                           /\ down' = Append(down, f)
                           /\ SearchedQueues(AfterFrame(e, f)) = {}
                           /\ e.kind \notin {"idle"} => AfterFrame(e, f).kind # "idle"
    BY <1>10, <2>1
  <2>3. searching = {} /\ e.kind # "searching"
    BY <1>10, <2>1
  <2>4. (acks # {} => e.kind # "idle") /\ (drops = 0 => e.kind = "found")
    BY <1>2, <2>1 DEF Tracks
  <2>5. Sendable(f, e)
    BY <1>1, <2>1, <2>2, <2>3, <2>4 DEF Sendable
  <2>6. QED
    BY <1>1, <1>2, <2>2, <2>5, CourseSent
<1>12. CASE ServerCancels
  <2>1. match # NoMatch /\ match' = NoMatch /\ ServerSays("match_cancelled")
        /\ UNCHANGED <<searching, acks>>
    BY <1>12 DEF ServerCancels
  <2>2. PICK f \in Frame : /\ f.type = "match_cancelled" /\ ~Stop(f)
                           /\ down' = Append(down, f)
                           /\ SearchedQueues(AfterFrame(e, f)) = {}
                           /\ AfterFrame(e, f).kind # "idle"
    BY <1>10, <2>1
  <2>3. searching = {}
    BY <1>10, <2>1
  <2>4. Sendable(f, e)
    BY <2>1, <2>2, <2>3 DEF Sendable
  <2>5. QED
    BY <1>1, <1>2, <2>2, <2>4, CourseSent
<1>13. CASE ServerForgets
  BY <1>1, <1>2, <1>13 DEF ServerForgets, Course, Replay, Tracks
<1>14. QED
  BY <1>7, <1>8, <1>9, <1>11, <1>12, <1>13

LEMMA CourseReads ==
  ASSUME TypeOK, Course, SessionReads
  PROVE  Course'
<1> USE DEF countVars
<1>1. connected /\ down # <<>> /\ down' = Tail(down) /\ copy' = AfterFrame(copy, Head(down))
      /\ UNCHANGED <<searching, acks, match, ordered, drops>>
  BY DEF SessionReads
<1>2. PICK S \in Seq(StateSet) : Replay(S) /\ Tracks(S)
  BY <1>1 DEF Course
<1>3. PICK T : T = Tail(S)
  OBVIOUS
<1>4. /\ Len(down) \in Nat /\ Len(down') \in Nat /\ Len(down) = Len(down') + 1
      /\ Head(down) = down[1]
      /\ \A i \in 1..Len(down') : i + 1 \in 1..Len(down) /\ down'[i] = down[i + 1]
  BY <1>1, TakeFirst DEF TypeOK
<1>5. Len(S) = Len(down) + 1
  BY <1>2 DEF Replay
<1>6. /\ T \in Seq(StateSet) /\ Len(T) = Len(down') + 1
      /\ \A i \in 1..Len(T) : T[i] = S[i + 1]
  <2>1. S # <<>>
    BY <1>4, <1>5
  <2>2. QED
    BY <1>3, <1>4, <1>5, <2>1, TakeFirst
<1>7. Ends(T) = Ends(S)
  BY <1>4, <1>5, <1>6 DEF Ends
<1>8. Replay(T)'
  <2>1. T[1] = copy'
    <3>1. 1 \in 1..Len(down) /\ 1 \in 1..Len(T)
      BY <1>4, <1>6
    <3>2. S[2] = AfterFrame(S[1], down[1]) /\ S[1] = copy
      BY <1>2, <3>1 DEF Replay
    <3>3. QED
      BY <1>1, <1>4, <1>6, <3>1, <3>2
  <2>2. ASSUME NEW i \in 1..Len(down') PROVE T[i + 1] = AfterFrame(T[i], down'[i])
    <3>1. i + 1 \in 1..Len(down) /\ i \in 1..Len(T) /\ i + 1 \in 1..Len(T)
      BY <1>4, <1>6
    <3>2. S[(i + 1) + 1] = AfterFrame(S[i + 1], down[i + 1])
      BY <1>2, <3>1 DEF Replay
    <3>3. QED
      BY <1>4, <1>6, <3>1, <3>2
  <2>3. QED
    BY <1>6, <2>1, <2>2 DEF Replay
<1>9. Tracks(T)'
  <2>1. ASSUME NEW i \in 1..Len(down')
        PROVE  /\ down'[i].type = "match_found" => T[i].kind = "searching"
               /\ Stop(down'[i]) => T[i].kind # "idle"
               /\ down'[i].type = "game_launch" => T[i].kind # "searching"
               /\ down'[i].type = "game_launch" /\ drops' = 0 => T[i].kind = "found"
    <3>1. i + 1 \in 1..Len(down) /\ i \in 1..Len(T)
      BY <1>4, <1>6
    <3>2. T[i] = S[i + 1] /\ down'[i] = down[i + 1]
      BY <1>4, <1>6, <3>1
    <3>3. QED
      BY <1>1, <1>2, <3>1, <3>2 DEF Tracks
  <2>2. QED
    BY <1>1, <1>2, <1>7, <2>1 DEF Tracks
<1>10. QED
  BY <1>6, <1>8, <1>9 DEF Course

\* A new session starts from nothing, with nothing on its way to it.
LEMMA CourseStarts ==
  ASSUME TypeOK, Server, SessionStarts
  PROVE  Course'
<1> USE DEF countVars, serverVars
<1>1. copy' = Idle /\ down' = <<>> /\ searching' = {} /\ acks' = {} /\ match' = NoMatch
  BY DEF SessionStarts, Server
<1>2. PICK S : S = <<Idle>>
  OBVIOUS
<1>3. S \in Seq(StateSet) /\ Len(S) = 1 /\ S[1] = Idle
  <2>1. Idle \in StateSet
    BY StatesOf
  <2>2. QED
    BY <1>2, <2>1
<1>4. Replay(S)'
  BY <1>1, <1>3 DEF Replay
<1>5. Tracks(S)'
  BY <1>1, <1>3 DEF Tracks, Ends, SearchedQueues, Idle, State
<1>6. QED
  BY <1>3, <1>4, <1>5 DEF Course

LEMMA CourseElsewhere ==
  ASSUME Course, UNCHANGED <<connected, copy, down, searching, acks, match, ordered, drops>>
  PROVE  Course'
<1>1. ASSUME NEW S \in Seq(StateSet), Replay(S), Tracks(S) PROVE Replay(S)' /\ Tracks(S)'
  BY <1>1 DEF Replay, Tracks
<1>2. QED
  BY <1>1 DEF Course

LEMMA CourseStep ==
  ASSUME TypeOK, Server, Course, [Next]_vars
  PROVE  Course'
<1> USE DEF countVars, serverVars, gameVars, screenVars, loopVars
<1>1. ASSUME NEW q \in Queue, StartSearch(q) \/ StopSearch(q) PROVE Course'
  BY <1>1, CourseElsewhere DEF StartSearch, StopSearch, Requests
<1>2. ASSUME NEW q \in Queue, ServerMatches(q) \/ ServerAcks(q) PROVE Course'
  BY <1>2, CourseServer
<1>3. CASE ServerTakesRequest \/ ServerLaunches \/ ServerCancels \/ ServerForgets
  BY <1>3, CourseServer
<1>4. CASE SessionReads
  BY <1>4, CourseReads
<1>5. CASE ConnectionLost
  BY <1>5 DEF ConnectionLost, Course
<1>6. CASE SessionStarts
  BY <1>6, CourseStarts
<1>7. CASE Loop \/ OwnWay
  <2>1. UNCHANGED <<connected, copy, serverVars, ordered, drops>>
    BY <1>7, LoopApart
  <2>2. QED
    BY <2>1, CourseElsewhere
<1>8. CASE UNCHANGED vars
  BY <1>8, CourseElsewhere DEF vars
<1>9. QED
  BY <1>1, <1>2, <1>3, <1>4, <1>5, <1>6, <1>7, <1>8 DEF Next, OwnWay, Watchdogs

-----------------------------------------------------------------------------
(* From the session to the screen *)

LEMMA ChainPut ==
  ASSUME NEW us \in Seq(Update), NEW old, Chain(us, old), NEW u \in Update, NEW vs, vs = Append(us, u),
         u.type = "state" =>
           /\ us = <<>> => MayFollow(old, u.state)
           /\ us # <<>> /\ u.state.kind \in {"found", "idle"} => us[Len(us)].type = "state"
           /\ us # <<>> /\ us[Len(us)].type = "state" => MayFollow(us[Len(us)].state, u.state)
  PROVE  Chain(vs, old)
<1>1. /\ Len(vs) = Len(us) + 1 /\ Len(us) \in Nat
      /\ 1..Len(vs) = 1..Len(us) \cup {Len(vs)}
      /\ \A i \in 1..Len(us) : vs[i] = us[i]
      /\ vs[Len(vs)] = u
  BY PutLast
<1>2. ASSUME NEW i \in 1..Len(us), vs[i].type = "state"
      PROVE  /\ i = 1 => MayFollow(old, vs[i].state)
             /\ i > 1 /\ vs[i].state.kind \in {"found", "idle"} => vs[i - 1].type = "state"
             /\ i > 1 /\ vs[i - 1].type = "state" => MayFollow(vs[i - 1].state, vs[i].state)
  <2>1. vs[i] = us[i] /\ (i > 1 => vs[i - 1] = us[i - 1])
    BY <1>1
  <2>2. QED
    BY <1>2, <2>1 DEF Chain
<1>3. ASSUME NEW i \in {Len(vs)}, vs[i].type = "state"
      PROVE  /\ i = 1 => MayFollow(old, vs[i].state)
             /\ i > 1 /\ vs[i].state.kind \in {"found", "idle"} => vs[i - 1].type = "state"
             /\ i > 1 /\ vs[i - 1].type = "state" => MayFollow(vs[i - 1].state, vs[i].state)
  <2>1. vs[i] = u /\ (i > 1 => vs[i - 1] = us[Len(us)])
    BY <1>1
  <2>2. us = <<>> <=> i = 1
    BY <1>1, EmptySeq
  <2>3. QED
    BY <1>1, <1>3, <2>1, <2>2
<1>4. QED
  BY <1>1, <1>2, <1>3 DEF Chain

LEMMA ChainTake ==
  ASSUME NEW us \in Seq(Update), us # <<>>, NEW old, Chain(us, old), NEW vs, vs = Tail(us),
         NEW new, us[1].type = "state" => new = us[1].state
  PROVE  Chain(vs, new)
<1>1. /\ Len(us) \in Nat /\ Len(vs) \in Nat /\ Len(us) = Len(vs) + 1
      /\ \A i \in 1..Len(vs) : i + 1 \in 1..Len(us) /\ vs[i] = us[i + 1]
  BY TakeFirst
<1>2. ASSUME NEW i \in 1..Len(vs), vs[i].type = "state"
      PROVE  /\ i = 1 => MayFollow(new, vs[i].state)
             /\ i > 1 /\ vs[i].state.kind \in {"found", "idle"} => vs[i - 1].type = "state"
             /\ i > 1 /\ vs[i - 1].type = "state" => MayFollow(vs[i - 1].state, vs[i].state)
  <2>1. i + 1 \in 1..Len(us) /\ i + 1 > 1 /\ (i + 1) - 1 = i /\ vs[i] = us[i + 1]
    BY <1>1
  <2>2. /\ vs[i].state.kind \in {"found", "idle"} => us[i].type = "state"
        /\ us[i].type = "state" => MayFollow(us[i].state, vs[i].state)
    BY <1>2, <2>1 DEF Chain
  <2>3. CASE i = 1
    <3>1. CASE us[1].type = "state"
      BY <2>2, <2>3, <3>1
    <3>2. CASE us[1].type # "state"
      BY <2>2, <2>3, <3>2 DEF MayFollow
    <3>3. QED
      BY <3>1, <3>2
  <2>4. CASE i > 1
    <3>1. vs[i - 1] = us[i]
      BY <1>1, <2>4
    <3>2. QED
      BY <2>2, <2>4, <3>1
  <2>5. QED
    BY <2>3, <2>4
<1>3. QED
  BY <1>2 DEF Chain

\* What takes a match or a launch off the screen stands in the way of nothing.
LEMMA ChainUnlocked ==
  ASSUME NEW us, NEW old, Chain(us, old), NEW new, new.kind \notin {"found", "launching"}
  PROVE  Chain(us, new)
BY DEF Chain, MayFollow

\* A state the session passes on follows the last one it passed on.
LEMMA PassState ==
  ASSUME TypeOK, Passing, NEW s \in StateSet, SentOne(StateUpdate(s)), copy' = s, shown' = shown,
         \/ s.kind \notin {"found", "idle"}
         \/ copy.kind = "searching"
         \/ copy.kind = "found" /\ s = copy
  PROVE  Passing'
<1> DEFINE u == StateUpdate(s)
<1>1. u \in Update /\ u.type = "state" /\ u.state = s
  BY StateUpdateType DEF StateUpdate
<1>2. updates \in Seq(Update) /\ updates' = Append(updates, u)
  BY DEF TypeOK, SentOne
<1>3. updates' # <<>> /\ updates'[Len(updates')] = u
  BY <1>1, <1>2, PutLast
<1> HIDE DEF u
<1>4. updates = <<>> => MayFollow(shown, s)
  <2>1. CASE s.kind \notin {"found", "idle"}
    BY <2>1 DEF MayFollow
  <2>2. CASE copy.kind = "searching"
    BY <2>2 DEF Passing, WordOverSearch, MayFollow
  <2>3. CASE copy.kind = "found" /\ s = copy
    BY <2>3 DEF Passing, MayFollow
  <2>4. QED
    BY <2>1, <2>2, <2>3
<1>5. updates # <<>> /\ s.kind \in {"found", "idle"}
        => updates[Len(updates)].type = "state" /\ MayFollow(updates[Len(updates)].state, s)
  <2>1. SUFFICES ASSUME updates # <<>>, s.kind \in {"found", "idle"}
                 PROVE  updates[Len(updates)].type = "state" /\ MayFollow(updates[Len(updates)].state, s)
    OBVIOUS
  <2>2. copy.kind \in {"searching", "found"}
    BY <2>1
  <2>3. updates[Len(updates)] = StateUpdate(copy)
    BY <2>1, <2>2 DEF Passing
  <2>4. updates[Len(updates)].type = "state" /\ updates[Len(updates)].state = copy
    BY <2>3 DEF StateUpdate
  <2>5. MayFollow(copy, s)
    BY <2>1, <2>2 DEF MayFollow
  <2>6. QED
    BY <2>4, <2>5
<1>6. s.kind \notin {"found", "idle"} => \A old : MayFollow(old, s)
  BY DEF MayFollow
<1>7. Chain(updates', shown)
  BY <1>1, <1>2, <1>4, <1>5, <1>6, ChainPut DEF Passing
<1>8. QED
  BY <1>3, <1>7 DEF Passing, u

LEMMA PassLaunch ==
  ASSUME TypeOK, Passing, NEW n \in Match, SentOne(LaunchUpdate(n)), UNCHANGED <<copy, shown>>,
         copy.kind \notin {"searching", "found"}
  PROVE  Passing'
<1>1. LaunchUpdate(n) \in Update /\ LaunchUpdate(n).type = "launch"
  BY LaunchUpdateType
<1>2. updates \in Seq(Update) /\ updates' = Append(updates, LaunchUpdate(n))
  BY DEF TypeOK, SentOne
<1>3. Chain(updates', shown)
  BY <1>1, <1>2, ChainPut DEF Passing
<1>4. QED
  BY <1>3 DEF Passing

LEMMA PassBoth ==
  ASSUME TypeOK, Passing, NEW s \in StateSet, s.kind = "launching", NEW n \in Match,
         SentTwo(StateUpdate(s), LaunchUpdate(n)), copy' = s, shown' = shown
  PROVE  Passing'
<1>1. LaunchUpdate(n) \in Update /\ LaunchUpdate(n).type = "launch" /\ StateUpdate(s) \in Update
      /\ StateUpdate(s).state = s
  BY LaunchUpdateType, StateUpdateType DEF StateUpdate
<1>2. PICK vs : vs = Append(updates, StateUpdate(s))
  OBVIOUS
<1>3. updates \in Seq(Update) /\ updates' = Append(vs, LaunchUpdate(n))
  BY <1>2 DEF TypeOK, SentTwo
<1>4. vs \in Seq(Update)
  BY <1>1, <1>2, <1>3, PutLast
<1>5. Chain(vs, shown)
  BY <1>1, <1>2, <1>3, ChainPut DEF Passing, MayFollow
<1>6. Chain(updates', shown)
  BY <1>1, <1>3, <1>4, <1>5, ChainPut
<1>7. QED
  BY <1>6 DEF Passing

LEMMA PassingReads ==
  ASSUME TypeOK, Course, Passing, SessionReads
  PROVE  Passing'
<1> DEFINE f == Head(down)
           s == AfterFrame(copy, f)
<1>1. /\ f \in Frame /\ f = down[1] /\ s \in StateSet /\ f.match \in Match
      /\ copy' = s /\ shown' = shown
      /\ f.type # "game_launch" => SentOne(StateUpdate(s))
      /\ f.type = "game_launch" /\ MatchedQueues(copy) = {} => SentOne(LaunchUpdate(f.match))
      /\ f.type = "game_launch" /\ MatchedQueues(copy) # {} => SentTwo(StateUpdate(s), LaunchUpdate(f.match))
  <2>1. shown' = shown
    BY DEF SessionReads, screenVars
  <2>2. QED
    BY <2>1, SessionSends
<1>2. /\ f.type = "match_found" => copy.kind = "searching"
      /\ Stop(f) => copy.kind # "idle"
      /\ f.type = "game_launch" => copy.kind # "searching"
  <2>1. connected /\ down # <<>> /\ down \in Seq(Frame)
    BY DEF SessionReads, TypeOK
  <2>2. PICK S \in Seq(StateSet) : Replay(S) /\ Tracks(S)
    BY <2>1 DEF Course
  <2>3. 1 \in 1..Len(down) /\ S[1] = copy
    BY <2>1, <2>2, TakeFirst DEF Replay
  <2>4. QED
    BY <1>1, <2>2, <2>3 DEF Tracks
<1>3. copy \in StateSet
  BY DEF TypeOK
<1> HIDE DEF f, s
<1>4. CASE f.type = "search_info"
  <2>1. f.start \in BOOLEAN
    BY <1>1 DEF Frame
  <2>2. CASE f.start
    <3>1. s.kind = "searching"
      BY <1>1, <1>3, <1>4, <2>2, SearchInfoRead DEF s
    <3>2. QED
      BY <1>1, <1>4, <3>1, PassState
  <2>3. CASE ~f.start /\ copy.kind # "searching"
    <3>1. s = copy /\ copy.kind # "idle"
      BY <1>1, <1>2, <1>3, <1>4, <2>3, SearchInfoRead DEF s, Stop
    <3>2. QED
      BY <1>1, <1>4, <3>1, PassState
  <2>4. CASE copy.kind = "searching"
    BY <1>1, <1>4, <2>4, PassState
  <2>5. QED
    BY <2>1, <2>2, <2>3, <2>4
<1>5. CASE f.type = "match_found"
  BY <1>1, <1>2, <1>5, PassState
<1>6. CASE f.type = "match_cancelled"
  <2>1. s.kind = "cancelled"
    BY <1>1, <1>3, <1>6, CancelledRead DEF s
  <2>2. QED
    BY <1>1, <1>6, <2>1, PassState
<1>7. CASE f.type = "game_launch" /\ MatchedQueues(copy) = {}
  <2>1. s = copy
    BY <1>1, <1>3, <1>7, LaunchRead DEF s
  <2>2. copy.kind # "found"
    BY <1>3, <1>7, StateForms DEF Formed, MatchedQueues
  <2>3. QED
    BY <1>1, <1>2, <1>7, <2>1, <2>2, PassLaunch
<1>8. CASE f.type = "game_launch" /\ MatchedQueues(copy) # {}
  <2>1. s.kind = "launching"
    BY <1>1, <1>3, <1>8, LaunchRead DEF s
  <2>2. QED
    BY <1>1, <1>8, <2>1, PassBoth
<1>9. QED
  BY <1>1, <1>4, <1>5, <1>6, <1>7, <1>8 DEF Frame

\* Whatever happens to a match or a launch on screen, it leaves for a state that
\* stands in nobody's way; a search goes only by a watchdog's word.
Withdrawn ==
  /\ UNCHANGED <<copy, updates>>
  /\ \/ shown' = shown
     \/ shown'.kind \in {"idle", "cancelled"}
  /\ shown.kind = "searching" => shown' = shown \/ stale' = "word"
  /\ stale = "word" => stale' = "word"

LEMMA PassingWithdrawn ==
  ASSUME TypeOK, Passing, Withdrawn
  PROVE  Passing'
<1>1. Chain(updates, shown')
  BY ChainUnlocked DEF Passing, Withdrawn
<1>2. copy.kind = "found" /\ updates = <<>> => MayFollow(shown', copy)
  BY DEF Passing, MayFollow, Withdrawn
<1>3. copy.kind = "searching" /\ updates = <<>> => shown' = copy \/ WordOverSearch'
  BY DEF Passing, WordOverSearch, Withdrawn
<1>4. QED
  BY <1>1, <1>2, <1>3 DEF Passing, Withdrawn

LEMMA TerminatedWithdraws ==
  ASSUME Terminated, UNCHANGED <<copy, updates>>
  PROVE  Withdrawn
BY DEF Terminated, ClearedByExit, Idle, State, Withdrawn

LEMMA PassingLoop ==
  ASSUME TypeOK, Passing, Loop
  PROVE  Passing'
<1> USE DEF countVars, serverVars, gameVars, screenVars, loopVars
<1>1. CASE LookAtState \/ LaunchSucceeds \/ LaunchFails
  BY <1>1 DEF LookAtState, LaunchSucceeds, LaunchFails, Passing, WordOverSearch
<1>2. CASE StopCancelledGame
  BY <1>2, TerminatedWithdraws, PassingWithdrawn DEF StopCancelledGame
<1>3. CASE ApplyState \/ ApplyLaunch \/ ApplyReconnecting
  <2>1. /\ updates \in Seq(Update) /\ updates # <<>> /\ updates' = Tail(updates) /\ copy' = copy
        /\ Head(updates) = updates[1]
    BY <1>3, TakeFirst DEF ApplyState, ApplyLaunch, ApplyReconnecting, TypeOK
  <2>2. updates[1].type = "state" => shown' = updates[1].state
    BY <1>3, <2>1 DEF ApplyState, ApplyLaunch, ApplyReconnecting
  <2>3. Chain(updates', shown')
    BY <2>1, <2>2, ChainTake DEF Passing, WordOverSearch
  <2>4. /\ Len(updates) \in Nat /\ Len(updates') \in Nat /\ Len(updates) = Len(updates') + 1
        /\ \A i \in 1..Len(updates') : updates'[i] = updates[i + 1]
        /\ updates' \in Seq(Update)
    BY <2>1, TakeFirst
  <2>5. updates' # <<>> => updates'[Len(updates')] = updates[Len(updates)]
    <3>1. updates' # <<>> => Len(updates') \in 1..Len(updates')
      BY <2>4, EmptySeq
    <3>2. QED
      BY <2>4, <3>1
  <2>6. updates' = <<>> => updates[Len(updates)] = updates[1]
    BY <2>4
  <2>7. copy.kind \in {"searching", "found"} /\ updates' = <<>> => shown' = copy
    <3>1. SUFFICES ASSUME copy.kind \in {"searching", "found"}, updates' = <<>>
                   PROVE  shown' = copy
      OBVIOUS
    <3>2. updates[1] = StateUpdate(copy)
      BY <2>1, <2>6, <3>1 DEF Passing, WordOverSearch
    <3>3. QED
      BY <2>2, <3>2 DEF StateUpdate
  <2>8. QED
    BY <2>1, <2>3, <2>5, <2>7 DEF Passing, WordOverSearch, MayFollow
<1>4. QED
  BY <1>1, <1>2, <1>3 DEF Loop

LEMMA PassingStep ==
  ASSUME TypeOK, Course, Passing, [Next]_vars
  PROVE  Passing'
<1> USE DEF countVars, serverVars, gameVars, screenVars, loopVars
<1>1. ASSUME NEW q \in Queue, StartSearch(q) \/ StopSearch(q) PROVE Passing'
  BY <1>1 DEF StartSearch, StopSearch, Requests, Passing, WordOverSearch
<1>2. ASSUME NEW q \in Queue, ServerMatches(q) \/ ServerAcks(q) PROVE Passing'
  BY <1>2 DEF ServerMatches, ServerAcks, Passing, WordOverSearch
<1>3. CASE ServerTakesRequest \/ ServerLaunches \/ ServerCancels \/ ServerForgets
  BY <1>3 DEF ServerTakesRequest, ServerLaunches, ServerCancels, ServerForgets, Passing, WordOverSearch
<1>4. CASE SessionReads
  BY <1>4, PassingReads
<1>5. CASE ConnectionLost
  BY <1>5 DEF ConnectionLost, Passing, WordOverSearch
<1>6. CASE SessionStarts
  <2>1. Chain(updates', shown)
    BY <1>6, ReconnectingType, ChainPut DEF SessionStarts, Passing, WordOverSearch, TypeOK
  <2>2. copy'.kind = "idle" /\ shown' = shown
    BY <1>6 DEF SessionStarts, Idle, State
  <2>3. QED
    BY <2>1, <2>2 DEF Passing, WordOverSearch
<1>7. CASE Loop
  BY <1>7, PassingLoop
<1>8. CASE GameExits \/ Terminates
  BY <1>8 DEF GameExits, Terminates, Passing, WordOverSearch
<1>9. CASE ExitNoticed
  BY <1>9, TerminatedWithdraws, PassingWithdrawn DEF ExitNoticed
<1>10. ASSUME NEW w \in Timer, WatchdogLooks(w) \/ WatchdogGivesUp(w) PROVE Passing'
  <2>1. CASE WatchdogLooks(w)
    BY <2>1 DEF WatchdogLooks, Passing, WordOverSearch
  <2>2. CASE WatchdogGivesUp(w)
    <3>1. Withdrawn
      BY <2>2 DEF WatchdogGivesUp, State, Withdrawn
    <3>2. QED
      BY <3>1, PassingWithdrawn
  <2>3. QED
    BY <1>10, <2>1, <2>2
<1>11. CASE UNCHANGED vars
  BY <1>11 DEF vars, Passing, WordOverSearch
<1>12. QED
  BY <1>1, <1>2, <1>3, <1>4, <1>5, <1>6, <1>7, <1>8, <1>9, <1>10, <1>11 DEF Next

-----------------------------------------------------------------------------
(* A match on screen is watched *)

LEMMA WatchedStep ==
  ASSUME TypeOK, Passing, Decided, FoundIsWatched, [Next]_vars
  PROVE  FoundIsWatched'
<1> USE DEF countVars, serverVars, gameVars, screenVars, loopVars
<1>1. ASSUME timer' = timer, UNCHANGED <<shown, stale>> \/ shown'.kind # "found" PROVE FoundIsWatched'
  BY <1>1 DEF FoundIsWatched
<1>2. ASSUME NEW q \in Queue, StartSearch(q) \/ StopSearch(q) PROVE FoundIsWatched'
  BY <1>1, <1>2 DEF StartSearch, StopSearch, Requests
<1>3. ASSUME NEW q \in Queue, ServerMatches(q) \/ ServerAcks(q) PROVE FoundIsWatched'
  BY <1>1, <1>3 DEF ServerMatches, ServerAcks
<1>4. CASE ServerTakesRequest \/ ServerLaunches \/ ServerCancels \/ ServerForgets
  BY <1>1, <1>4 DEF ServerTakesRequest, ServerLaunches, ServerCancels, ServerForgets
<1>5. CASE SessionReads \/ ConnectionLost \/ SessionStarts
  BY <1>1, <1>5 DEF SessionReads, ConnectionLost, SessionStarts
<1>6. CASE ApplyState
  <2> DEFINE s == Head(updates).state
  <2>1. updates \in Seq(Update) /\ updates # <<>> /\ updates[1].type = "state" /\ updates[1] \in Update
        /\ s = updates[1].state /\ 1 \in 1..Len(updates)
    BY <1>6, TakeFirst DEF ApplyState, TypeOK
  <2>2. s \in StateSet /\ shown' = s
    BY <1>6, <2>1 DEF ApplyState, Update
  <2>3. MayFollow(shown, s)
    BY <2>1 DEF Passing, Chain
  <2>4. timer \in [Timer -> Asleep \cup {Off}]
    BY DEF TypeOK
  <2>5. SUFFICES ASSUME s.kind = "found", stale' # "repeat"
                 PROVE  \E w \in Timer : timer'[w].queue \in s.queues
    BY <2>2 DEF FoundIsWatched
  <2>6. CASE phase = "arms"
    <3>1. /\ \E w \in Timer : timer[w] = Off
          /\ timer' = [timer EXCEPT ![Free] = [queue |-> CHOOSE q \in s.queues : TRUE,
                                               match |-> s.match, due |-> FALSE]]
      BY <1>6, <2>6 DEF ApplyState
    <3>2. Free \in Timer
      BY <3>1 DEF Free
    <3>3. timer'[Free].queue = CHOOSE q \in s.queues : TRUE
      BY <2>4, <3>1, <3>2
    <3>4. QED
      BY <2>2, <2>5, <3>2, <3>3, ArmedTimer
  <2>7. CASE phase # "arms"
    <3>1. phase = "repeats"
      BY <1>6, <2>5, <2>7 DEF ApplyState, Holding, Decided
    <3>2. timer' = timer /\ ~Revived
      BY <1>6, <2>5, <2>7 DEF ApplyState
    <3>3. shown.kind = "found" /\ stale # "repeat"
      BY <3>1, <3>2 DEF Revived
    <3>4. s.queues = shown.queues
      BY <2>3, <2>5, <3>3 DEF MayFollow
    <3>5. QED
      BY <3>2, <3>3, <3>4 DEF FoundIsWatched
  <2>8. QED
    BY <2>6, <2>7
<1>7. CASE LookAtState \/ ApplyLaunch \/ LaunchSucceeds \/ LaunchFails \/ ApplyReconnecting
           \/ GameExits \/ Terminates
  BY <1>1, <1>7 DEF LookAtState, ApplyLaunch, LaunchSucceeds, LaunchFails, ApplyReconnecting,
                    GameExits, Terminates
<1>8. CASE StopCancelledGame \/ ExitNoticed
  <2>1. Terminated /\ timer' = timer
    BY <1>8 DEF StopCancelledGame, ExitNoticed
  <2>2. shown'.kind # "found"
    BY <2>1 DEF Terminated, ClearedByExit, Idle, State
  <2>3. QED
    BY <1>1, <2>1, <2>2
<1>9. ASSUME NEW w \in Timer, WatchdogLooks(w) PROVE FoundIsWatched'
  <2>1. UNCHANGED <<shown, stale>> /\ timer[w] # Off
        /\ timer' = [timer EXCEPT ![w] = IF StillWaiting(w) THEN [@ EXCEPT !.due = TRUE] ELSE Off]
    BY <1>9 DEF WatchdogLooks
  <2>2. SUFFICES ASSUME shown.kind = "found", stale # "repeat"
                 PROVE  \E v \in Timer : timer'[v].queue \in shown.queues
    BY <2>1 DEF FoundIsWatched
  <2>3. PICK v \in Timer : timer[v].queue \in shown.queues
    BY <2>2 DEF FoundIsWatched
  <2>4. shown.queues = {timer[v].queue}
    BY <2>2, <2>3, StateForms DEF TypeOK, Formed
  <2>5. CASE v # w
    <3>1. timer'[v] = timer[v]
      BY <2>1, <2>5 DEF TypeOK
    <3>2. QED
      BY <2>3, <3>1
  <2>6. CASE v = w
    <3>1. timer[w] \in Asleep /\ StillWaiting(w)
      BY <2>1, <2>2, <2>4, <2>6 DEF StillWaiting, TypeOK
    <3>2. timer'[w] = [timer[w] EXCEPT !.due = TRUE]
      BY <2>1, <3>1 DEF TypeOK
    <3>3. timer'[w].queue = timer[w].queue
      BY <3>1, <3>2 DEF Asleep
    <3>4. QED
      BY <2>3, <2>6, <3>3
  <2>7. QED
    BY <2>5, <2>6
<1>10. ASSUME NEW w \in Timer, WatchdogGivesUp(w) PROVE FoundIsWatched'
  <2>1. shown'.kind # "found"
    BY <1>10 DEF WatchdogGivesUp, State
  <2>2. QED
    BY <2>1 DEF FoundIsWatched
<1>11. CASE UNCHANGED vars
  BY <1>1, <1>11 DEF vars
<1>12. QED
  BY <1>2, <1>3, <1>4, <1>5, <1>6, <1>7, <1>8, <1>9, <1>10, <1>11 DEF Next, Loop

-----------------------------------------------------------------------------
(* One launch at a time *)

\* The same launches, and no new ones.
LEMMA LaunchesKept ==
  ASSUME OneLaunch,
         \A i \in 1..Len(down') : LaunchFrame(i)' =>
           \E j \in 1..Len(down) : LaunchFrame(j) /\ down'[i] = down[j],
         \A i, k \in 1..Len(down') : LaunchFrame(i)' /\ LaunchFrame(k)' => i = k,
         \A i \in 1..Len(updates') : LaunchUp(i)' =>
           \E j \in 1..Len(updates) : LaunchUp(j) /\ updates'[i] = updates[j],
         \A i, k \in 1..Len(updates') : LaunchUp(i)' /\ LaunchUp(k)' => i = k,
         launching' = launching, game' \in {game, NoMatch}
  PROVE  OneLaunch'
BY DEF OneLaunch

\* A frame sent that orders no launch.
LEMMA OtherFrame ==
  ASSUME TypeOK, OneLaunch, NEW f \in Frame, down' = Append(down, f), f.type # "game_launch"
  PROVE  /\ \A i \in 1..Len(down') : LaunchFrame(i)' =>
              \E j \in 1..Len(down) : LaunchFrame(j) /\ down'[i] = down[j]
         /\ \A i, k \in 1..Len(down') : LaunchFrame(i)' /\ LaunchFrame(k)' => i = k
<1>1. /\ Len(down) \in Nat /\ 1..Len(down') = 1..Len(down) \cup {Len(down')}
      /\ \A i \in 1..Len(down) : down'[i] = down[i]
      /\ down'[Len(down')] = f
  BY PutLast DEF TypeOK
<1>2. ASSUME NEW i \in 1..Len(down'), LaunchFrame(i)'
      PROVE  i \in 1..Len(down) /\ LaunchFrame(i) /\ down'[i] = down[i]
  BY <1>1, <1>2 DEF LaunchFrame
<1>3. QED
  BY <1>2 DEF OneLaunch

\* The first frame read: the others keep their order.
LEMMA FrameTaken ==
  ASSUME TypeOK, OneLaunch, down # <<>>, down' = Tail(down)
  PROVE  /\ \A i \in 1..Len(down') : LaunchFrame(i)' =>
              \E j \in 1..Len(down) : LaunchFrame(j) /\ down'[i] = down[j]
         /\ \A i, k \in 1..Len(down') : LaunchFrame(i)' /\ LaunchFrame(k)' => i = k
         /\ LaunchFrame(1) => \A i \in 1..Len(down') : ~LaunchFrame(i)'
<1>1. /\ Len(down) \in Nat /\ Len(down') \in Nat /\ 1 \in 1..Len(down)
      /\ \A i \in 1..Len(down') : i + 1 \in 1..Len(down) /\ down'[i] = down[i + 1]
  BY TakeFirst DEF TypeOK
<1>2. ASSUME NEW i \in 1..Len(down'), LaunchFrame(i)'
      PROVE  i + 1 \in 1..Len(down) /\ LaunchFrame(i + 1) /\ down'[i] = down[i + 1]
  BY <1>1, <1>2 DEF LaunchFrame
<1>3. ASSUME NEW i \in 1..Len(down'), NEW k \in 1..Len(down'), LaunchFrame(i)', LaunchFrame(k)'
      PROVE  i = k
  <2>1. i + 1 = k + 1
    BY <1>2, <1>3 DEF OneLaunch
  <2>2. QED
    BY <1>1, <2>1
<1>4. ASSUME LaunchFrame(1), NEW i \in 1..Len(down'), LaunchFrame(i)' PROVE FALSE
  <2>1. i + 1 = 1
    BY <1>1, <1>2, <1>4 DEF OneLaunch
  <2>2. QED
    BY <2>1
<1>5. QED
  BY <1>2, <1>3, <1>4

LEMMA OtherUpdate ==
  ASSUME TypeOK, OneLaunch, NEW u \in Update, updates' = Append(updates, u), u.type # "launch"
  PROVE  /\ \A i \in 1..Len(updates') : LaunchUp(i)' =>
              \E j \in 1..Len(updates) : LaunchUp(j) /\ updates'[i] = updates[j]
         /\ \A i, k \in 1..Len(updates') : LaunchUp(i)' /\ LaunchUp(k)' => i = k
<1>1. /\ Len(updates) \in Nat /\ 1..Len(updates') = 1..Len(updates) \cup {Len(updates')}
      /\ \A i \in 1..Len(updates) : updates'[i] = updates[i]
      /\ updates'[Len(updates')] = u
  BY PutLast DEF TypeOK
<1>2. ASSUME NEW i \in 1..Len(updates'), LaunchUp(i)'
      PROVE  i \in 1..Len(updates) /\ LaunchUp(i) /\ updates'[i] = updates[i]
  BY <1>1, <1>2 DEF LaunchUp
<1>3. QED
  BY <1>2 DEF OneLaunch

LEMMA UpdateTaken ==
  ASSUME TypeOK, OneLaunch, updates # <<>>, updates' = Tail(updates)
  PROVE  /\ \A i \in 1..Len(updates') : LaunchUp(i)' =>
              \E j \in 1..Len(updates) : LaunchUp(j) /\ updates'[i] = updates[j]
         /\ \A i, k \in 1..Len(updates') : LaunchUp(i)' /\ LaunchUp(k)' => i = k
         /\ LaunchUp(1) => \A i \in 1..Len(updates') : ~LaunchUp(i)'
<1>1. /\ Len(updates) \in Nat /\ Len(updates') \in Nat /\ 1 \in 1..Len(updates)
      /\ \A i \in 1..Len(updates') : i + 1 \in 1..Len(updates) /\ updates'[i] = updates[i + 1]
  BY TakeFirst DEF TypeOK
<1>2. ASSUME NEW i \in 1..Len(updates'), LaunchUp(i)'
      PROVE  i + 1 \in 1..Len(updates) /\ LaunchUp(i + 1) /\ updates'[i] = updates[i + 1]
  BY <1>1, <1>2 DEF LaunchUp
<1>3. ASSUME NEW i \in 1..Len(updates'), NEW k \in 1..Len(updates'), LaunchUp(i)', LaunchUp(k)'
      PROVE  i = k
  <2>1. i + 1 = k + 1
    BY <1>2, <1>3 DEF OneLaunch
  <2>2. QED
    BY <1>1, <2>1
<1>4. ASSUME LaunchUp(1), NEW i \in 1..Len(updates'), LaunchUp(i)' PROVE FALSE
  <2>1. i + 1 = 1
    BY <1>1, <1>2, <1>4 DEF OneLaunch
  <2>2. QED
    BY <2>1
<1>5. QED
  BY <1>2, <1>3, <1>4

\* The session passes a launch order on: its only one, and as the last update.
LaunchPassed(n) ==
  /\ \A i \in 1..Len(updates') : LaunchUp(i)' => i = Len(updates') /\ updates'[i].state.match = n
  /\ LaunchUp(Len(updates))'

LEMMA LaunchSent ==
  ASSUME TypeOK, NEW f \in Frame, f.type = "game_launch", \A j \in 1..Len(updates) : ~LaunchUp(j),
         \/ SentOne(LaunchUpdate(f.match))
         \/ \E s \in StateSet : SentTwo(StateUpdate(s), LaunchUpdate(f.match))
  PROVE  LaunchPassed(f.match)
<1>1. PICK us \in Seq(Update) : /\ updates' = Append(us, LaunchUpdate(f.match))
                                /\ \A i \in 1..Len(us) : us[i].type # "launch"
  <2>1. updates \in Seq(Update) /\ \A i \in 1..Len(updates) : updates[i].type # "launch"
    BY DEF TypeOK, LaunchUp
  <2>2. CASE SentOne(LaunchUpdate(f.match))
    BY <2>1, <2>2 DEF SentOne
  <2>3. ASSUME NEW s \in StateSet, SentTwo(StateUpdate(s), LaunchUpdate(f.match))
        PROVE  \E us \in Seq(Update) : /\ updates' = Append(us, LaunchUpdate(f.match))
                                       /\ \A i \in 1..Len(us) : us[i].type # "launch"
    <3>1. PICK us : us = Append(updates, StateUpdate(s))
      OBVIOUS
    <3>2. StateUpdate(s) \in Update /\ StateUpdate(s).type # "launch"
      BY StateUpdateType DEF StateUpdate
    <3>3. /\ us \in Seq(Update) /\ 1..Len(us) = 1..Len(updates) \cup {Len(us)}
          /\ \A i \in 1..Len(updates) : us[i] = updates[i]
          /\ us[Len(us)] = StateUpdate(s)
      BY <2>1, <3>1, <3>2, PutLast
    <3>4. \A i \in 1..Len(us) : us[i].type # "launch"
      BY <2>1, <3>2, <3>3
    <3>5. updates' = Append(us, LaunchUpdate(f.match))
      BY <2>3, <3>1 DEF SentTwo
    <3>6. QED
      BY <3>3, <3>4, <3>5
  <2>4. QED
    BY <2>2, <2>3
<1>2. /\ LaunchUpdate(f.match) \in Update /\ LaunchUpdate(f.match).type = "launch"
      /\ LaunchUpdate(f.match).state.match = f.match
  <2>1. f.match \in Match
    BY DEF Frame
  <2>2. QED
    BY <2>1, LaunchUpdateType
<1>3. /\ Len(us) \in Nat /\ 1..Len(updates') = 1..Len(us) \cup {Len(updates')}
      /\ Len(updates') \in 1..Len(updates')
      /\ \A i \in 1..Len(us) : updates'[i] = us[i]
      /\ updates'[Len(updates')] = LaunchUpdate(f.match)
  BY <1>1, <1>2, PutLast
<1>4. ASSUME NEW i \in 1..Len(updates'), updates'[i].type = "launch"
      PROVE  i = Len(updates') /\ updates'[i].state.match = f.match
  <2>1. i \notin 1..Len(us)
    BY <1>1, <1>3, <1>4
  <2>2. QED
    BY <1>2, <1>3, <2>1
<1>5. updates'[Len(updates')].type = "launch"
  BY <1>2, <1>3
<1>6. QED
  BY <1>3, <1>4, <1>5 DEF LaunchPassed, LaunchUp

LEMMA LaunchReads ==
  ASSUME TypeOK, OneLaunch, SessionReads
  PROVE  OneLaunch'
<1> DEFINE f == Head(down)
           s == AfterFrame(copy, f)
<1>1. /\ f \in Frame /\ f = down[1] /\ s \in StateSet
      /\ f.type # "game_launch" => SentOne(StateUpdate(s))
      /\ f.type = "game_launch" => SentOne(LaunchUpdate(f.match))
                                   \/ SentTwo(StateUpdate(s), LaunchUpdate(f.match))
  BY SessionSends
<1>2. down # <<>> /\ down' = Tail(down) /\ UNCHANGED <<launching, game>>
  BY DEF SessionReads, gameVars, loopVars
<1>3. 1 \in 1..Len(down)
  BY <1>2, TakeFirst DEF TypeOK
<1>4. CASE f.type # "game_launch"
  <2>1. StateUpdate(s) \in Update /\ StateUpdate(s).type # "launch"
    BY <1>1, StateUpdateType DEF StateUpdate
  <2>2. updates' = Append(updates, StateUpdate(s))
    BY <1>1, <1>4 DEF SentOne
  <2> HIDE DEF s
  <2>3. QED
    BY <1>2, <2>1, <2>2, FrameTaken, OtherUpdate, LaunchesKept
<1>5. CASE f.type = "game_launch"
  <2>1. LaunchFrame(1)
    BY <1>1, <1>3, <1>5 DEF LaunchFrame
  <2>2. game = NoMatch /\ launching = NoMatch /\ \A j \in 1..Len(updates) : ~LaunchUp(j)
    BY <1>3, <2>1 DEF OneLaunch
  <2>3. LaunchPassed(f.match)
    BY <1>1, <1>5, <2>2, LaunchSent
  <2>4. \A i \in 1..Len(down') : ~LaunchFrame(i)'
    BY <1>2, <2>1, FrameTaken
  <2>5. QED
    BY <1>2, <2>2, <2>3, <2>4 DEF OneLaunch, LaunchPassed
<1>6. QED
  BY <1>4, <1>5

\* What a step of the server sends, if anything.
ServerStep ==
  \/ \E q \in Queue : ServerMatches(q) \/ ServerAcks(q)
  \/ ServerTakesRequest \/ ServerLaunches \/ ServerCancels \/ ServerForgets

Sends(f) ==
  /\ down' = Append(down, f)
  /\ f.type = "game_launch" => ServerLaunches /\ f.match = match
  /\ f.type = "match_cancelled" => ServerCancels /\ f.match = match
  /\ f.type \notin {"game_launch", "match_cancelled"} => match = NoMatch \/ Stop(f)

LEMMA ServerSends ==
  ASSUME TypeOK, Server, ServerStep
  PROVE  /\ UNCHANGED <<screenVars, copy, updates, loopVars, game, drops>>
         /\ down' = down \/ \E f \in Frame : Sends(f)
<1> USE DEF countVars, gameVars, screenVars, loopVars
<1>1. UNCHANGED <<screenVars, copy, updates, loopVars, game, drops>>
  BY DEF ServerStep, ServerMatches, ServerAcks, ServerTakesRequest, ServerLaunches, ServerCancels,
         ServerForgets
<1>2. ASSUME NEW q \in Queue, ServerMatches(q) PROVE \E f \in Frame : Sends(f)
  <2>1. matches + 1 \in Match
    BY <1>2, ServerTypes DEF TypeOK, ServerMatches
  <2>2. MatchFrame("match_found", q, matches + 1) \in Frame
    BY <2>1, FrameTypes
  <2>3. Sends(MatchFrame("match_found", q, matches + 1))
    BY <1>2 DEF ServerMatches, MatchFrame, Sends, Server
  <2>4. QED
    BY <2>2, <2>3
<1>3. ASSUME NEW q \in Queue, ServerAcks(q) PROVE \E f \in Frame : Sends(f)
  <2>1. SearchInfo(q, FALSE) \in Frame
    BY FrameTypes
  <2>2. Sends(SearchInfo(q, FALSE))
    BY <1>3 DEF ServerAcks, SearchInfo, Sends, Stop
  <2>3. QED
    BY <2>1, <2>2
<1>4. CASE ServerTakesRequest
  <2>1. up \in Seq(Request) /\ up # <<>>
    BY <1>4 DEF ServerTakesRequest, TypeOK
  <2>2. Head(up) \in Request
    BY <2>1, TakeFirst
  <2>3. SearchInfo(Head(up).queue, Head(up).start) \in Frame
    BY <2>2, FrameTypes DEF Request
  <2>4. \/ down' = down
        \/ /\ down' = Append(down, SearchInfo(Head(up).queue, Head(up).start))
           /\ Head(up).start => match = NoMatch
    BY <1>4 DEF ServerTakesRequest
  <2>5. down' # down => Sends(SearchInfo(Head(up).queue, Head(up).start))
    BY <2>4 DEF SearchInfo, Sends, Stop
  <2>6. QED
    BY <1>1, <2>3, <2>5
<1>5. CASE ServerLaunches \/ ServerCancels
  <2>1. match # NoMatch /\ match \in Match
    BY <1>5 DEF ServerLaunches, ServerCancels, TypeOK
  <2>2. \A t \in {"match_cancelled", "game_launch"} :
          MatchFrame(t, CHOOSE q \in Queue : TRUE, match) \in Frame
    BY <2>1, FrameTypes DEF Server
  <2>3. ServerLaunches => Sends(MatchFrame("game_launch", CHOOSE q \in Queue : TRUE, match))
    BY DEF ServerLaunches, ServerSays, MatchFrame, Sends
  <2>4. ServerCancels => Sends(MatchFrame("match_cancelled", CHOOSE q \in Queue : TRUE, match))
    BY DEF ServerCancels, ServerSays, MatchFrame, Sends
  <2>5. QED
    BY <1>1, <1>5, <2>2, <2>3, <2>4
<1>6. CASE ServerForgets
  BY <1>1, <1>6 DEF ServerForgets
<1>7. QED
  BY <1>1, <1>2, <1>3, <1>4, <1>5, <1>6 DEF ServerStep

LEMMA LaunchStep ==
  ASSUME TypeOK, Server, OneLaunch, Decided, [Next]_vars
  PROVE  OneLaunch'
<1> USE DEF countVars, serverVars, gameVars, screenVars, loopVars
<1>1. ASSUME UNCHANGED <<down, updates, game, launching>> PROVE OneLaunch'
  BY <1>1 DEF OneLaunch, LaunchFrame, LaunchUp
<1>2. ASSUME NEW f \in Frame, f.type # "game_launch", down' = Append(down, f),
             UNCHANGED <<updates, game, launching>>
      PROVE  OneLaunch'
  <2>1. /\ \A i \in 1..Len(updates') : LaunchUp(i)' =>
             \E j \in 1..Len(updates) : LaunchUp(j) /\ updates'[i] = updates[j]
        /\ \A i, k \in 1..Len(updates') : LaunchUp(i)' /\ LaunchUp(k)' => i = k
    BY <1>2 DEF OneLaunch, LaunchUp
  <2>2. QED
    BY <1>2, <2>1, OtherFrame, LaunchesKept
<1>3. ASSUME UNCHANGED down
      PROVE  /\ \A i \in 1..Len(down') : LaunchFrame(i)' =>
                  \E j \in 1..Len(down) : LaunchFrame(j) /\ down'[i] = down[j]
             /\ \A i, k \in 1..Len(down') : LaunchFrame(i)' /\ LaunchFrame(k)' => i = k
  BY <1>3 DEF OneLaunch, LaunchFrame
<1>4. ASSUME NEW q \in Queue, StartSearch(q) \/ StopSearch(q) PROVE OneLaunch'
  BY <1>1, <1>4 DEF StartSearch, StopSearch, Requests
<1>5. CASE ServerStep
  <2>1. UNCHANGED <<updates, game, launching>> /\ (down' = down \/ \E f \in Frame : Sends(f))
    BY <1>5, ServerSends
  <2>2. CASE down' = down
    BY <1>1, <2>1, <2>2
  <2>3. ASSUME NEW f \in Frame, Sends(f), f.type # "game_launch" PROVE OneLaunch'
    BY <1>2, <2>1, <2>3 DEF Sends
  <2>4. ASSUME NEW f \in Frame, Sends(f), f.type = "game_launch" PROVE OneLaunch'
    <3>1. /\ game = NoMatch /\ launching = NoMatch
          /\ \A j \in 1..Len(updates) : ~LaunchUp(j)
          /\ \A j \in 1..Len(down) : ~LaunchFrame(j)
      <4>1. DOMAIN updates = 1..Len(updates) /\ DOMAIN down = 1..Len(down)
        BY DEF TypeOK
      <4>2. QED
        BY <2>4, <4>1 DEF Sends, ServerLaunches, Playing, LaunchUp, LaunchFrame
    <3>2. /\ 1..Len(down') = 1..Len(down) \cup {Len(down')}
          /\ \A i \in 1..Len(down) : down'[i] = down[i]
      BY <2>4, PutLast DEF Sends, TypeOK
    <3>3. \A i \in 1..Len(down') : LaunchFrame(i)' => i = Len(down')
      BY <3>1, <3>2 DEF LaunchFrame
    <3>4. QED
      BY <2>1, <3>1, <3>3 DEF OneLaunch, LaunchUp
  <2>5. QED
    BY <2>1, <2>2, <2>3, <2>4
<1>6. CASE SessionReads
  BY <1>6, LaunchReads
<1>7. CASE ConnectionLost
  <2>1. down' = <<>> /\ UNCHANGED <<updates, game, launching>>
    BY <1>7 DEF ConnectionLost
  <2>2. \A i \in 1..Len(down') : FALSE
    BY <2>1
  <2>3. QED
    BY <2>1, <2>2 DEF OneLaunch, LaunchUp
<1>8. CASE SessionStarts
  <2>1. updates' = Append(updates, Reconnecting) /\ UNCHANGED <<down, game, launching>>
    BY <1>8 DEF SessionStarts
  <2>2. QED
    BY <1>3, <2>1, ReconnectingType, OtherUpdate, LaunchesKept
<1>9. CASE ApplyState \/ ApplyReconnecting
  <2>1. updates # <<>> /\ updates' = Tail(updates) /\ UNCHANGED <<down, launching, game>>
    BY <1>9 DEF ApplyState, ApplyReconnecting, TypeOK
  <2>2. QED
    BY <1>3, <2>1, UpdateTaken, LaunchesKept
<1>10. CASE ApplyLaunch
  <2>1. updates # <<>> /\ updates' = Tail(updates) /\ UNCHANGED <<down, game>>
        /\ Head(updates) = updates[1] /\ 1 \in 1..Len(updates)
    BY <1>10, TakeFirst DEF ApplyLaunch, TypeOK
  <2>2. LaunchUp(1)
    BY <1>10, <2>1 DEF ApplyLaunch, LaunchUp
  <2>3. \A i \in 1..Len(updates') : ~LaunchUp(i)'
    BY <2>1, <2>2, UpdateTaken
  <2>4. game' = NoMatch /\ \A i \in 1..Len(down') : ~LaunchFrame(i)'
    BY <2>1, <2>2 DEF OneLaunch, LaunchFrame
  <2>5. QED
    BY <2>3, <2>4 DEF OneLaunch
<1>11. CASE LaunchSucceeds \/ LaunchFails
  <2>1. launching # NoMatch /\ launching' = NoMatch /\ UNCHANGED <<down, updates>>
    BY <1>11 DEF LaunchSucceeds, LaunchFails, Decided
  <2>2. \A i \in 1..Len(down') : ~LaunchFrame(i)'
    BY <2>1 DEF OneLaunch, LaunchFrame
  <2>3. \A i \in 1..Len(updates') : ~LaunchUp(i)'
    BY <2>1 DEF OneLaunch, LaunchUp
  <2>4. QED
    BY <2>1, <2>2, <2>3 DEF OneLaunch
<1>12. CASE GameExits \/ StopCancelledGame \/ Terminates
  <2>1. game' = NoMatch /\ UNCHANGED <<down, updates, launching>>
    BY <1>12 DEF GameExits, StopCancelledGame, Terminates, GameGone
  <2>2. QED
    BY <2>1 DEF OneLaunch, LaunchFrame, LaunchUp
<1>13. CASE LookAtState \/ ExitNoticed \/ Watchdogs
  BY <1>1, <1>13 DEF LookAtState, ExitNoticed, Watchdogs, WatchdogLooks, WatchdogGivesUp
<1>14. CASE UNCHANGED vars
  BY <1>1, <1>14 DEF vars
<1>15. QED
  BY <1>4, <1>5, <1>6, <1>7, <1>8, <1>9, <1>10, <1>11, <1>12, <1>13, <1>14
  DEF Next, Loop, Watchdogs, ServerStep

-----------------------------------------------------------------------------
(* The numbers of launches and cancellations, as frames and updates move *)

CancelsIt(f, n) == f.type = "match_cancelled" /\ f.match = n
CancelledAs(s, n) == s.kind = "cancelled" /\ s.match = n

LEMMA FramePut ==
  ASSUME TypeOK, NEW f \in Frame, down' = Append(down, f)
  PROVE  /\ Len(down) \in Nat /\ Len(down') = Len(down) + 1
         /\ \A i \in 1..Len(down) : i \in 1..Len(down') /\ down'[i] = down[i]
         /\ \A i \in 1..Len(down') : i # Len(down') => i \in 1..Len(down)
         /\ down'[Len(down')] = f
         /\ \A i, n : CancelFrame(i, n) => CancelFrame(i, n)'
         /\ \A i, n : CancelFrame(i, n)' => CancelFrame(i, n) \/ (i = Len(down') /\ CancelsIt(f, n))
         /\ \A i : LaunchFrame(i)' => \/ LaunchFrame(i) /\ down'[i] = down[i]
                                      \/ i = Len(down') /\ f.type = "game_launch"
<1>1. /\ Len(down) \in Nat /\ Len(down') = Len(down) + 1
      /\ \A i \in 1..Len(down) : i \in 1..Len(down') /\ down'[i] = down[i]
      /\ \A i \in 1..Len(down') : i # Len(down') => i \in 1..Len(down)
      /\ down'[Len(down')] = f
  BY PutLast DEF TypeOK
<1>2. ASSUME NEW i, NEW n, CancelFrame(i, n) PROVE CancelFrame(i, n)'
  BY <1>1, <1>2 DEF CancelFrame
<1>3. ASSUME NEW i, NEW n, CancelFrame(i, n)'
      PROVE  CancelFrame(i, n) \/ (i = Len(down') /\ CancelsIt(f, n))
  BY <1>1, <1>3 DEF CancelFrame, CancelsIt
<1>4. ASSUME NEW i, LaunchFrame(i)'
      PROVE  \/ LaunchFrame(i) /\ down'[i] = down[i]
             \/ i = Len(down') /\ f.type = "game_launch"
  BY <1>1, <1>4 DEF LaunchFrame
<1>5. QED
  BY <1>1, <1>2, <1>3, <1>4

LEMMA FrameRemoved ==
  ASSUME TypeOK, down # <<>>, down' = Tail(down)
  PROVE  /\ Len(down) \in Nat /\ Len(down') \in Nat /\ Len(down) = Len(down') + 1
         /\ \A i \in 1..Len(down') : i + 1 \in 1..Len(down) /\ down'[i] = down[i + 1]
         /\ \A i, n : CancelFrame(i, n)' => i \in Nat /\ CancelFrame(i + 1, n)
         /\ \A i, n : CancelFrame(i, n) /\ i # 1 => i \in Nat /\ CancelFrame(i - 1, n)'
         /\ \A i : LaunchFrame(i)' => i \in Nat /\ LaunchFrame(i + 1) /\ down'[i] = down[i + 1]
<1>1. /\ Len(down) \in Nat /\ Len(down') \in Nat /\ Len(down) = Len(down') + 1
      /\ \A i \in 1..Len(down') : i + 1 \in 1..Len(down) /\ down'[i] = down[i + 1]
  BY TakeFirst DEF TypeOK
<1>2. ASSUME NEW i, NEW n, CancelFrame(i, n)' PROVE i \in Nat /\ CancelFrame(i + 1, n)
  BY <1>1, <1>2 DEF CancelFrame
<1>3. ASSUME NEW i, NEW n, CancelFrame(i, n), i # 1 PROVE i \in Nat /\ CancelFrame(i - 1, n)'
  <2>1. i \in Nat /\ i - 1 \in 1..Len(down') /\ (i - 1) + 1 = i
    BY <1>1, <1>3 DEF CancelFrame
  <2>2. down'[i - 1] = down[i]
    BY <1>1, <2>1
  <2>3. QED
    BY <1>3, <2>1, <2>2 DEF CancelFrame
<1>4. ASSUME NEW i, LaunchFrame(i)'
      PROVE  i \in Nat /\ LaunchFrame(i + 1) /\ down'[i] = down[i + 1]
  BY <1>1, <1>4 DEF LaunchFrame
<1>5. QED
  BY <1>1, <1>2, <1>3, <1>4

LEMMA UpdatePut ==
  ASSUME TypeOK, NEW u \in Update, updates' = Append(updates, u)
  PROVE  /\ Len(updates) \in Nat /\ Len(updates') = Len(updates) + 1
         /\ \A i \in 1..Len(updates) : i \in 1..Len(updates') /\ updates'[i] = updates[i]
         /\ \A i \in 1..Len(updates') : i # Len(updates') => i \in 1..Len(updates)
         /\ updates'[Len(updates')] = u
         /\ \A i, n : CancelUp(i, n) => CancelUp(i, n)'
         /\ \A i, n : CancelUp(i, n)'
              => CancelUp(i, n) \/ (i = Len(updates') /\ u.type = "state" /\ CancelledAs(u.state, n))
         /\ \A i : LaunchUp(i)' => \/ LaunchUp(i) /\ updates'[i] = updates[i]
                                   \/ i = Len(updates') /\ u.type = "launch"
<1>1. /\ Len(updates) \in Nat /\ Len(updates') = Len(updates) + 1
      /\ \A i \in 1..Len(updates) : i \in 1..Len(updates') /\ updates'[i] = updates[i]
      /\ \A i \in 1..Len(updates') : i # Len(updates') => i \in 1..Len(updates)
      /\ updates'[Len(updates')] = u
  BY PutLast DEF TypeOK
<1>2. ASSUME NEW i, NEW n, CancelUp(i, n) PROVE CancelUp(i, n)'
  BY <1>1, <1>2 DEF CancelUp
<1>3. ASSUME NEW i, NEW n, CancelUp(i, n)'
      PROVE  CancelUp(i, n) \/ (i = Len(updates') /\ u.type = "state" /\ CancelledAs(u.state, n))
  BY <1>1, <1>3 DEF CancelUp, CancelledAs
<1>4. ASSUME NEW i, LaunchUp(i)'
      PROVE  \/ LaunchUp(i) /\ updates'[i] = updates[i]
             \/ i = Len(updates') /\ u.type = "launch"
  BY <1>1, <1>4 DEF LaunchUp
<1>5. QED
  BY <1>1, <1>2, <1>3, <1>4

LEMMA UpdateRemoved ==
  ASSUME TypeOK, updates # <<>>, updates' = Tail(updates)
  PROVE  /\ Len(updates) \in Nat /\ Len(updates') \in Nat /\ Len(updates) = Len(updates') + 1
         /\ \A i \in 1..Len(updates') : i + 1 \in 1..Len(updates) /\ updates'[i] = updates[i + 1]
         /\ \A i, n : CancelUp(i, n)' => i \in Nat /\ CancelUp(i + 1, n)
         /\ \A i, n : CancelUp(i, n) /\ i # 1 => i \in Nat /\ CancelUp(i - 1, n)'
         /\ \A i : LaunchUp(i)' => i \in Nat /\ LaunchUp(i + 1) /\ updates'[i] = updates[i + 1]
<1>1. /\ Len(updates) \in Nat /\ Len(updates') \in Nat /\ Len(updates) = Len(updates') + 1
      /\ \A i \in 1..Len(updates') : i + 1 \in 1..Len(updates) /\ updates'[i] = updates[i + 1]
  BY TakeFirst DEF TypeOK
<1>2. ASSUME NEW i, NEW n, CancelUp(i, n)' PROVE i \in Nat /\ CancelUp(i + 1, n)
  BY <1>1, <1>2 DEF CancelUp
<1>3. ASSUME NEW i, NEW n, CancelUp(i, n), i # 1 PROVE i \in Nat /\ CancelUp(i - 1, n)'
  <2>1. i \in Nat /\ i - 1 \in 1..Len(updates') /\ (i - 1) + 1 = i
    BY <1>1, <1>3 DEF CancelUp
  <2>2. updates'[i - 1] = updates[i]
    BY <1>1, <2>1
  <2>3. QED
    BY <1>3, <2>1, <2>2 DEF CancelUp
<1>4. ASSUME NEW i, LaunchUp(i)'
      PROVE  i \in Nat /\ LaunchUp(i + 1) /\ updates'[i] = updates[i + 1]
  BY <1>1, <1>4 DEF LaunchUp
<1>5. QED
  BY <1>1, <1>2, <1>3, <1>4

-----------------------------------------------------------------------------
(* Matches and their numbers *)

\* The launch order the session reads is the only one; the updates it sends
\* for it are no cancellation.
LEMMA OrderPassed ==
  ASSUME TypeOK, OneLaunch, SessionReads, down[1].type = "game_launch"
  PROVE  /\ game = NoMatch /\ launching = NoMatch
         /\ \A j \in 1..Len(updates) : ~LaunchUp(j)
         /\ \A i \in 1..Len(down') : ~LaunchFrame(i)'
         /\ LaunchPassed(down[1].match)
<1>1. /\ down[1] \in Frame /\ Head(down) = down[1]
      /\ \/ SentOne(LaunchUpdate(down[1].match))
         \/ \E s \in StateSet : SentTwo(StateUpdate(s), LaunchUpdate(down[1].match))
  BY SessionSends
<1>2. down # <<>> /\ down' = Tail(down) /\ 1 \in 1..Len(down)
  BY TakeFirst DEF SessionReads, TypeOK
<1>3. LaunchFrame(1)
  BY <1>2 DEF LaunchFrame
<1>4. game = NoMatch /\ launching = NoMatch /\ \A j \in 1..Len(updates) : ~LaunchUp(j)
  BY <1>2, <1>3 DEF OneLaunch
<1>5. LaunchPassed(down[1].match)
  BY <1>1, <1>4, LaunchSent
<1>6. \A i \in 1..Len(down') : ~LaunchFrame(i)'
  BY <1>2, <1>3, FrameTaken
<1>7. QED
  BY <1>4, <1>5, <1>6

\* A match no launch was ordered of has none, unless it is ordered now.
LEMMA NoLaunchKept ==
  ASSUME TypeOK, Server, OneLaunch, NEW n \in Match, NoLaunchOf(n), [Next]_vars,
         ServerLaunches => match # n
  PROVE  NoLaunchOf(n)'
<1> USE DEF countVars, serverVars, gameVars, screenVars, loopVars
<1>1. ASSUME UNCHANGED <<down, updates>> PROVE NoLaunchOf(n)'
  BY <1>1 DEF NoLaunchOf, LaunchFrame, LaunchUp
<1>2. /\ \A i : LaunchFrame(i) => down[i].match # n
      /\ \A i : LaunchUp(i) => updates[i].state.match # n
  BY DEF NoLaunchOf, LaunchFrame, LaunchUp
<1>3. ASSUME NEW q \in Queue, StartSearch(q) \/ StopSearch(q) PROVE NoLaunchOf(n)'
  BY <1>1, <1>3 DEF StartSearch, StopSearch, Requests
<1>4. CASE ServerStep
  <2>1. UNCHANGED <<updates, game, launching>>
    BY <1>4, ServerSends
  <2>2. CASE down' = down
    BY <1>1, <2>1, <2>2
  <2>3. CASE down' # down
    <3>1. PICK f \in Frame : Sends(f)
      BY <1>4, <2>3, ServerSends
    <3>2. f.type = "game_launch" => f.match # n
      BY <3>1 DEF Sends
    <3>3. /\ \A i : LaunchFrame(i)' => \/ LaunchFrame(i) /\ down'[i] = down[i]
                                       \/ i = Len(down') /\ f.type = "game_launch"
          /\ down'[Len(down')] = f
      BY <3>1, FramePut DEF Sends
    <3>4. \A i \in 1..Len(down') : LaunchFrame(i)' => down'[i].match # n
      BY <1>2, <3>2, <3>3
    <3>5. QED
      BY <2>1, <3>4 DEF NoLaunchOf, LaunchUp
  <2>4. QED
    BY <2>2, <2>3
<1>5. CASE SessionReads
  <2>1. down # <<>> /\ down' = Tail(down) /\ UNCHANGED <<launching, game>>
    BY <1>5 DEF SessionReads
  <2>2. \A i \in 1..Len(down') : LaunchFrame(i)' => down'[i].match # n
    BY <1>2, <2>1, FrameRemoved
  <2>3. \A i \in 1..Len(updates') : LaunchUp(i)' => updates'[i].state.match # n
    <3>1. CASE down[1].type = "game_launch"
      <4>1. LaunchFrame(1)
        BY <2>1, <3>1, TakeFirst DEF LaunchFrame, TypeOK
      <4>2. LaunchPassed(down[1].match)
        BY <1>5, <3>1, OrderPassed
      <4>3. QED
        BY <1>2, <4>1, <4>2 DEF LaunchPassed
    <3>2. CASE down[1].type # "game_launch"
      <4>1. PICK s \in StateSet : SentOne(StateUpdate(s))
        BY <1>5, <3>2, SessionSends
      <4>2. StateUpdate(s) \in Update /\ StateUpdate(s).type = "state"
        BY StateUpdateType DEF StateUpdate
      <4>3. \A i : LaunchUp(i)' => LaunchUp(i) /\ updates'[i] = updates[i]
        BY <4>1, <4>2, UpdatePut DEF SentOne
      <4>4. QED
        BY <1>2, <4>3
    <3>3. QED
      BY <3>1, <3>2
  <2>4. QED
    BY <2>1, <2>2, <2>3 DEF NoLaunchOf
<1>6. CASE ConnectionLost
  <2>1. down' = <<>> /\ UNCHANGED <<updates, game, launching>>
    BY <1>6 DEF ConnectionLost
  <2>2. \A i \in 1..Len(down') : FALSE
    BY <2>1
  <2>3. QED
    BY <2>1, <2>2 DEF NoLaunchOf, LaunchUp
<1>7. CASE SessionStarts
  <2>1. updates' = Append(updates, Reconnecting) /\ UNCHANGED <<down, game, launching>>
    BY <1>7 DEF SessionStarts
  <2>2. \A i : LaunchUp(i)' => LaunchUp(i) /\ updates'[i] = updates[i]
    BY <2>1, ReconnectingType, UpdatePut
  <2>3. QED
    BY <1>2, <2>1, <2>2 DEF NoLaunchOf, LaunchFrame
<1>8. CASE ApplyState \/ ApplyReconnecting
  <2>1. updates # <<>> /\ updates' = Tail(updates) /\ UNCHANGED <<down, launching, game>>
    BY <1>8 DEF ApplyState, ApplyReconnecting, TypeOK
  <2>2. \A i \in 1..Len(updates') : LaunchUp(i)' => updates'[i].state.match # n
    BY <1>2, <2>1, UpdateRemoved
  <2>3. QED
    BY <2>1, <2>2 DEF NoLaunchOf, LaunchFrame
<1>9. CASE ApplyLaunch
  <2>1. /\ updates # <<>> /\ updates' = Tail(updates) /\ UNCHANGED <<down, game>>
    BY <1>9 DEF ApplyLaunch
  <2>2. \A i \in 1..Len(updates') : LaunchUp(i)' => updates'[i].state.match # n
    BY <1>2, <2>1, UpdateRemoved
  <2>3. QED
    BY <2>1, <2>2 DEF NoLaunchOf, LaunchFrame
<1>10. CASE LaunchSucceeds \/ LaunchFails
  BY <1>10 DEF LaunchSucceeds, LaunchFails, NoLaunchOf, LaunchFrame, LaunchUp
<1>11. CASE GameExits \/ StopCancelledGame \/ Terminates
  BY <1>11 DEF GameExits, StopCancelledGame, Terminates, GameGone, NoLaunchOf, LaunchFrame, LaunchUp
<1>12. CASE LookAtState \/ ExitNoticed \/ Watchdogs
  BY <1>1, <1>12 DEF LookAtState, ExitNoticed, Watchdogs, WatchdogLooks, WatchdogGivesUp
<1>13. CASE UNCHANGED vars
  BY <1>1, <1>13 DEF vars
<1>14. QED
  BY <1>3, <1>4, <1>5, <1>6, <1>7, <1>8, <1>9, <1>10, <1>11, <1>12, <1>13
  DEF Next, Loop, Watchdogs, ServerStep

\* No game comes of a match that none came of before, unless it is launched now.
LEMMA NoGameKept ==
  ASSUME TypeOK, Server, OneLaunch, NEW n \in Match, n # NoMatch, NoGameOf(n), [Next]_vars,
         ServerLaunches => match # n
  PROVE  NoGameOf(n)'
<1> USE DEF countVars, serverVars, gameVars, screenVars, loopVars
<1>1. NoLaunchOf(n)'
  BY NoLaunchKept DEF NoGameOf
<1>2. CASE Loop
  <2>1. CASE ApplyLaunch
    <3>1. /\ updates[1].type = "launch" /\ launching' = updates[1].state.match /\ game' = game
          /\ 1 \in 1..Len(updates)
      BY <2>1, TakeFirst DEF ApplyLaunch, TypeOK
    <3>2. launching' # n
      BY <3>1 DEF NoGameOf, NoLaunchOf, LaunchUp
    <3>3. QED
      BY <1>1, <3>1, <3>2 DEF NoGameOf
  <2>2. CASE ~ApplyLaunch
    BY <1>1, <1>2, <2>2 DEF Loop, LookAtState, ApplyState, StopCancelledGame, GameGone, LaunchSucceeds,
                            LaunchFails, ApplyReconnecting, NoGameOf
  <2>3. QED
    BY <2>1, <2>2
<1>3. CASE OwnWay
  BY <1>1, <1>3 DEF OwnWay, Watchdogs, GameExits, GameGone, Terminates, ExitNoticed, WatchdogLooks,
                    WatchdogGivesUp, NoGameOf
<1>4. CASE ServerStep
  BY <1>1, <1>4, ServerSends DEF NoGameOf
<1>5. CASE SessionReads \/ ConnectionLost \/ SessionStarts \/ UNCHANGED vars
  BY <1>1, <1>5 DEF SessionReads, ConnectionLost, SessionStarts, vars, NoGameOf
<1>6. ASSUME NEW q \in Queue, StartSearch(q) \/ StopSearch(q) PROVE NoGameOf(n)'
  BY <1>1, <1>6 DEF StartSearch, StopSearch, Requests, NoGameOf
<1>7. QED
  BY <1>2, <1>3, <1>4, <1>5, <1>6 DEF Next, OwnWay, Watchdogs, ServerStep

LEMMA NumbersStep ==
  ASSUME TypeOK, Server, OneLaunch, Numbers, [Next]_vars, TypeOK'
  PROVE  Numbers'
<1> USE DEF countVars, serverVars, gameVars, screenVars, loopVars
<1>1. /\ match \in Nat /\ matches \in Nat /\ matches' \in Nat /\ match <= matches /\ Match \subseteq Nat
      /\ calledOff \subseteq Match /\ NoMatch = 0
  BY MatchRange DEF TypeOK, Server, NoMatch
<1>2. Loop \/ OwnWay => match' = match /\ matches' = matches /\ calledOff' = calledOff
  BY LoopApart
<1>3. matches' = matches \/ matches' = matches + 1
  BY <1>2
     DEF OwnWay, Watchdogs, Next, vars, StartSearch, StopSearch, Requests, ServerMatches, ServerAcks,
         ServerTakesRequest, ServerLaunches, ServerCancels, ServerForgets, SessionReads, ConnectionLost, SessionStarts
<1>4. Made'
  <2>1. SUFFICES ASSUME NEW n \in Match, ~(n <= matches') PROVE NoGameOf(n)'
    BY DEF Made
  <2>2. ~(n <= matches) /\ n # NoMatch /\ n # match
    BY <1>1, <1>3, <2>1
  <2>3. NoGameOf(n)
    BY <2>2 DEF Numbers, Made
  <2>4. QED
    BY <2>2, <2>3, NoGameKept
<1>5. NoLaunchOf(NoMatch)'
  <2>1. NoLaunchOf(NoMatch) /\ (ServerLaunches => match # NoMatch)
    BY DEF Numbers, ServerLaunches
  <2>2. QED
    BY <2>1, MatchRange, NoLaunchKept
<1>6. CASE \E q \in Queue : ServerMatches(q)
  <2>1. match' = matches + 1 /\ matches' = matches + 1 /\ calledOff' = calledOff
    BY <1>6 DEF ServerMatches
  <2>2. \A n \in calledOff : n # match' /\ n <= matches'
    BY <1>1, <2>1 DEF Numbers
  <2>3. QED
    BY <1>4, <1>5, <2>1, <2>2 DEF Numbers
<1>7. CASE ServerCancels
  <2>1. match # NoMatch /\ match' = NoMatch /\ calledOff' = calledOff \cup {match} /\ matches' = matches
    BY <1>7 DEF ServerCancels
  <2>2. QED
    BY <1>1, <1>4, <1>5, <2>1 DEF Numbers
<1>8. CASE ~(\E q \in Queue : ServerMatches(q)) /\ ~ServerCancels
  <2>1. match' \in {match, NoMatch} /\ calledOff' = calledOff /\ matches' = matches
    BY <1>8, <1>2
       DEF OwnWay, Watchdogs, Next, vars, StartSearch, StopSearch, Requests, ServerAcks,
           ServerTakesRequest, ServerLaunches, ServerForgets, SessionReads, ConnectionLost, SessionStarts
  <2>2. QED
    BY <1>1, <1>4, <1>5, <2>1 DEF Numbers
<1>9. QED
  BY <1>6, <1>7, <1>8

-----------------------------------------------------------------------------
(* Cancellations overtake no launch *)

\* The parts of InOrder, on all indices.
LEMMA InOrderRead ==
  ASSUME TypeOK, InOrder
  PROVE  /\ \A n : n \in Match => (Cancelling(n) => n \in calledOff)
         /\ copy.kind = "cancelled"
              => copy.match \in calledOff /\ \A j : LaunchFrame(j) => down[j].match # copy.match
         /\ \A n, i, j : n \in Match /\ CancelFrame(i, n) /\ LaunchFrame(j) /\ down[j].match = n => j < i
         /\ \A n, i, j : n \in Match /\ CancelUp(i, n) /\ LaunchUp(j) /\ updates[j].state.match = n => j < i
         /\ \A n, i, j : n \in Match /\ CancelUp(i, n) /\ LaunchFrame(j) => down[j].match # n
BY DEF InOrder, CancelFrame, CancelUp, LaunchFrame, LaunchUp

LEMMA OrderKept ==
  ASSUME InOrder, UNCHANGED <<down, updates, copy, calledOff>>
  PROVE  InOrder'
BY DEF InOrder, Cancelling, CancelFrame, CancelUp, LaunchFrame, LaunchUp

LEMMA OrderSent ==
  ASSUME TypeOK, Server, Numbers, InOrder, ServerStep
  PROVE  InOrder'
<1> USE DEF countVars
<1>1. UNCHANGED <<copy, updates>> /\ (down' = down \/ \E f \in Frame : Sends(f))
  BY ServerSends
<1>2. calledOff \subseteq calledOff' /\ (ServerCancels => match \in calledOff')
  BY DEF ServerStep, ServerMatches, ServerAcks, ServerTakesRequest, ServerLaunches, ServerCancels,
         ServerForgets
<1>3. CASE down' = down
  <2>1. \A i, n : /\ CancelFrame(i, n)' <=> CancelFrame(i, n)
                  /\ CancelUp(i, n)' <=> CancelUp(i, n)
    BY <1>1, <1>3 DEF CancelFrame, CancelUp
  <2>2. \A n : Cancelling(n)' => Cancelling(n)
    BY <1>1, <1>3, <2>1 DEF Cancelling
  <2>3. \A i : /\ LaunchFrame(i)' <=> LaunchFrame(i)
               /\ LaunchUp(i)' <=> LaunchUp(i)
    BY <1>1, <1>3 DEF LaunchFrame, LaunchUp
  <2>4. QED
    BY <1>1, <1>2, <1>3, <2>1, <2>2, <2>3 DEF InOrder
<1>4. ASSUME NEW f \in Frame, Sends(f) PROVE InOrder'
  <2>1. /\ Len(down) \in Nat /\ Len(down') = Len(down) + 1
        /\ \A i, n : CancelFrame(i, n)' => CancelFrame(i, n) \/ (i = Len(down') /\ CancelsIt(f, n))
        /\ \A i : LaunchFrame(i)' => \/ LaunchFrame(i) /\ down'[i] = down[i]
                                     \/ i = Len(down') /\ f.type = "game_launch"
        /\ down'[Len(down')] = f
    BY <1>4, FramePut DEF Sends
  <2>2. \A i, n : CancelUp(i, n)' => CancelUp(i, n)
    BY <1>1 DEF CancelUp
  <2>3. \A n \in calledOff : n # match
    BY DEF Numbers
  <2>4. /\ \A n \in Match : CancelsIt(f, n) => n \in calledOff'
        /\ f.type = "game_launch" => f.match = match
    BY <1>2, <1>4 DEF Sends, CancelsIt
  <2>5. ASSUME NEW n \in Match, Cancelling(n)' PROVE n \in calledOff'
    <3>1. CASE \E i : CancelUp(i, n)'
      BY <1>2, <2>2, <3>1, InOrderRead DEF Cancelling, CancelUp
    <3>2. CASE \E i : CancelFrame(i, n)'
      <4>1. CancelsIt(f, n) \/ \E i : CancelFrame(i, n)
        BY <2>1, <3>2
      <4>2. QED
        BY <1>2, <2>4, <4>1, InOrderRead DEF Cancelling, CancelFrame
    <3>3. QED
      BY <2>5, <3>1, <3>2 DEF Cancelling
  <2>6. ASSUME copy'.kind = "cancelled"
        PROVE  /\ copy'.match \in calledOff'
               /\ \A j \in 1..Len(down') : LaunchFrame(j)' => down'[j].match # copy'.match
    BY <1>1, <1>2, <2>1, <2>3, <2>4, <2>6, InOrderRead
  <2>7. ASSUME NEW n \in Match, NEW i \in 1..Len(down'), NEW j \in 1..Len(down'),
               CancelFrame(i, n)', LaunchFrame(j)', down'[j].match = n
        PROVE  j < i
    <3>1. CASE i = Len(down') /\ CancelsIt(f, n)
      <4>1. j # Len(down')
        BY <2>1, <2>7, <3>1 DEF CancelsIt, LaunchFrame
      <4>2. QED
        BY <2>1, <3>1, <4>1
    <3>2. CASE CancelFrame(i, n)
      <4>1. n # match
        BY <2>3, <3>2, InOrderRead DEF Cancelling, CancelFrame
      <4>2. LaunchFrame(j) /\ down[j].match = n
        BY <2>1, <2>4, <2>7, <4>1
      <4>3. QED
        BY <3>2, <4>2, InOrderRead
    <3>3. QED
      BY <2>1, <2>7, <3>1, <3>2
  <2>8. ASSUME NEW n \in Match, NEW i \in 1..Len(updates'), NEW j \in 1..Len(down'),
               CancelUp(i, n)', LaunchFrame(j)'
        PROVE  down'[j].match # n
    <3>1. n # match /\ CancelUp(i, n)
      BY <1>1, <2>2, <2>3, <2>8, InOrderRead DEF Cancelling
    <3>2. QED
      BY <2>1, <2>4, <2>8, <3>1, InOrderRead
  <2>9. \A n \in Match, i, j \in 1..Len(updates') :
          CancelUp(i, n)' /\ LaunchUp(j)' /\ updates'[j].state.match = n => j < i
    BY <1>1, InOrderRead DEF CancelUp, LaunchUp
  <2>10. QED
    BY <2>5, <2>6, <2>7, <2>8, <2>9 DEF InOrder
<1>5. QED
  BY <1>1, <1>3, <1>4

\* Updates are applied in turn.
LEMMA OrderApplied ==
  ASSUME TypeOK, InOrder, updates # <<>>, updates' = Tail(updates), UNCHANGED <<down, copy, calledOff>>
  PROVE  InOrder'
<1>1. /\ \A i, n : CancelUp(i, n)' => i \in Nat /\ CancelUp(i + 1, n)
      /\ \A i : LaunchUp(i)' => i \in Nat /\ LaunchUp(i + 1) /\ updates'[i] = updates[i + 1]
  BY UpdateRemoved
<1>2. \A i, n : /\ CancelFrame(i, n)' <=> CancelFrame(i, n)
                /\ LaunchFrame(i)' <=> LaunchFrame(i)
  BY DEF CancelFrame, LaunchFrame
<1>3. ASSUME NEW n \in Match, Cancelling(n)' PROVE Cancelling(n)
  <2>1. (\E i : CancelFrame(i, n)) \/ (\E i : CancelUp(i, n))
    BY <1>1, <1>2, <1>3 DEF Cancelling
  <2>2. QED
    BY <2>1 DEF Cancelling, CancelFrame, CancelUp
<1>4. ASSUME NEW n \in Match, NEW i \in 1..Len(updates'), NEW j \in 1..Len(updates'),
             CancelUp(i, n)', LaunchUp(j)', updates'[j].state.match = n
      PROVE  j < i
  <2>1. i \in Nat /\ j \in Nat /\ CancelUp(i + 1, n) /\ LaunchUp(j + 1) /\ updates[j + 1].state.match = n
    BY <1>1, <1>4
  <2>2. j + 1 < i + 1
    BY <2>1, InOrderRead
  <2>3. QED
    BY <2>1, <2>2
<1>5. \A n \in Match, i \in 1..Len(updates'), j \in 1..Len(down') :
        CancelUp(i, n)' /\ LaunchFrame(j)' => down'[j].match # n
  BY <1>1, <1>2, InOrderRead
<1>6. QED
  BY <1>2, <1>3, <1>4, <1>5, InOrderRead DEF InOrder

-----------------------------------------------------------------------------
(* What the session makes of the frame it reads *)

LEMMA ReadTakes ==
  ASSUME TypeOK, SessionReads
  PROVE  /\ down # <<>> /\ down' = Tail(down) /\ down[1] \in Frame /\ 1 \in 1..Len(down) /\ connected
         /\ UNCHANGED <<screenVars, loopVars, game, match, drops, calledOff>>
<1> USE DEF countVars, gameVars
<1>1. /\ down # <<>> /\ down' = Tail(down) /\ connected
      /\ UNCHANGED <<screenVars, loopVars, game, match, drops, calledOff>>
  BY DEF SessionReads
<1>2. down \in Seq(Frame)
  BY DEF TypeOK
<1>3. QED
  BY <1>1, <1>2, TakeFirst

\* Any frame but a launch order becomes one state update.
ReadAs(s) ==
  /\ s \in StateSet /\ copy' = s
  /\ Len(updates) \in Nat /\ Len(updates') = Len(updates) + 1
  /\ \A i \in 1..Len(updates) : i \in 1..Len(updates') /\ updates'[i] = updates[i]
  /\ \A i \in 1..Len(updates') : i # Len(updates') => i \in 1..Len(updates)
  /\ updates'[Len(updates')] = StateUpdate(s)
  /\ \A i, n : CancelUp(i, n) => CancelUp(i, n)'
  /\ \A i, n : CancelUp(i, n)' => CancelUp(i, n) \/ (i = Len(updates') /\ CancelledAs(s, n))
  /\ \A i : LaunchUp(i)' => LaunchUp(i) /\ updates'[i] = updates[i]
  /\ \A n : CancelsIt(down[1], n) => CancelUp(Len(updates), n)'
  /\ \A n : CancelledAs(s, n) => CancelsIt(down[1], n) \/ CancelledAs(copy, n)
  /\ Stop(down[1]) /\ copy.kind = "launching" => s = copy

LEMMA OtherRead ==
  ASSUME TypeOK, SessionReads, down[1].type # "game_launch"
  PROVE  ReadAs(AfterFrame(copy, down[1]))
<1> DEFINE f == down[1]
           s == AfterFrame(copy, f)
           u == StateUpdate(s)
<1>1. f \in Frame /\ s \in StateSet /\ copy' = s /\ SentOne(u)
  BY SessionSends
<1>2. copy \in StateSet
  BY DEF TypeOK
<1>3. u \in Update /\ u.type = "state" /\ u.state = s
  BY <1>1, StateUpdateType DEF StateUpdate
<1>4. /\ Len(updates) \in Nat /\ Len(updates') = Len(updates) + 1
      /\ \A i \in 1..Len(updates) : i \in 1..Len(updates') /\ updates'[i] = updates[i]
      /\ \A i \in 1..Len(updates') : i # Len(updates') => i \in 1..Len(updates)
      /\ updates'[Len(updates')] = u
      /\ \A i, n : CancelUp(i, n) => CancelUp(i, n)'
      /\ \A i, n : CancelUp(i, n)' => CancelUp(i, n) \/ (i = Len(updates') /\ CancelledAs(s, n))
      /\ \A i : LaunchUp(i)' => LaunchUp(i) /\ updates'[i] = updates[i]
  <2> HIDE DEF u
  <2>1. updates' = Append(updates, u)
    BY <1>1 DEF SentOne
  <2>2. QED
    BY <1>3, <2>1, UpdatePut
<1>5. f.type \in {"search_info", "match_found", "match_cancelled"} /\ f.start \in BOOLEAN
  BY <1>1 DEF Frame
<1>6. f.type = "match_cancelled" => s.kind = "cancelled" /\ s.match = f.match
  BY <1>1, <1>2, CancelledRead
<1>7. f.type = "match_found" => s.kind = "found"
  BY <1>1, <1>2, FoundRead
<1>8. f.type = "search_info"
        => s.kind \in {"idle", "searching"} \/ (s = copy /\ s.kind # "searching")
  BY <1>1, <1>2 DEF AfterFrame, UpdateSearch, Idle, State
<1>9. Stop(f) /\ copy.kind = "launching" => s = copy
  BY <1>1, <1>2, SearchInfoRead DEF Stop
<1> HIDE DEF s
<1>10. ASSUME NEW n, CancelsIt(f, n) PROVE CancelUp(Len(updates), n)'
  <2>1. Len(updates') \in 1..Len(updates')
    BY <1>4
  <2>2. updates'[Len(updates')].type = "state" /\ updates'[Len(updates')].state = s
    BY <1>3, <1>4
  <2>3. QED
    BY <1>4, <1>6, <1>10, <2>1, <2>2 DEF CancelUp, CancelsIt
<1>11. ASSUME NEW n, CancelledAs(s, n) PROVE CancelsIt(f, n) \/ CancelledAs(copy, n)
  BY <1>5, <1>6, <1>7, <1>8, <1>11 DEF CancelsIt, CancelledAs
<1>12. ReadAs(s)
  BY <1>1, <1>4, <1>9, <1>10, <1>11 DEF ReadAs
<1>13. QED
  BY <1>12 DEF s

\* A launch order becomes two updates: with no connection lost it finds the
\* match it is for.
LaunchedAs(m) ==
  /\ Launches(copy', m)
  /\ Len(updates) \in Nat /\ Len(updates') = Len(updates) + 2
  /\ \A i \in 1..Len(updates) : i \in 1..Len(updates') /\ updates'[i] = updates[i]
  /\ ShowsLaunch(updates'[Len(updates) + 1], m)
  /\ \A i, n : CancelUp(i, n)' <=> CancelUp(i, n)
  /\ LaunchPassed(m)
  /\ game = NoMatch /\ launching = NoMatch
  /\ \A j \in 1..Len(updates) : ~LaunchUp(j)
  /\ \A i \in 1..Len(down') : ~LaunchFrame(i)'

LEMMA OrderRead ==
  ASSUME TypeOK, Course, OneLaunch, SessionReads, drops = 0, down[1].type = "game_launch"
  PROVE  LaunchedAs(down[1].match)
<1> DEFINE f == down[1]
           s == AfterFrame(copy, f)
           u == StateUpdate(s)
           v == LaunchUpdate(f.match)
<1>1. /\ f \in Frame /\ s \in StateSet /\ copy' = s /\ f.match \in Match
      /\ MatchedQueues(copy) # {} => SentTwo(u, v)
  BY SessionSends
<1>2. copy \in StateSet /\ updates \in Seq(Update)
  BY DEF TypeOK
<1>3. copy.kind = "found"
  <2>1. connected /\ 1 \in 1..Len(down)
    BY ReadTakes
  <2>2. PICK S \in Seq(StateSet) : Replay(S) /\ Tracks(S)
    BY <2>1 DEF Course
  <2>3. QED
    BY <2>1, <2>2 DEF Replay, Tracks
<1>4. MatchedQueues(copy) # {}
  BY <1>2, <1>3, StateForms DEF Formed, MatchedQueues
<1>5. s.kind = "launching" /\ s.match = f.match
  BY <1>1, <1>2, <1>4, LaunchRead DEF State
<1>6. u \in Update /\ u.type = "state" /\ u.state = s /\ v \in Update /\ v.type = "launch"
  BY <1>1, StateUpdateType, LaunchUpdateType DEF StateUpdate
<1> HIDE DEF s, u, v
<1>7. PICK us : us = Append(updates, u)
  OBVIOUS
<1>8. updates' = Append(us, v)
  BY <1>1, <1>4, <1>7 DEF SentTwo
<1>9. /\ us \in Seq(Update) /\ Len(updates) \in Nat /\ Len(us) = Len(updates) + 1
      /\ \A i \in 1..Len(updates) : us[i] = updates[i]
      /\ us[Len(us)] = u
  BY <1>2, <1>6, <1>7, PutLast
<1>10. /\ Len(updates') = Len(us) + 1
       /\ \A i \in 1..Len(us) : updates'[i] = us[i]
       /\ updates'[Len(updates')] = v
  BY <1>6, <1>8, <1>9, PutLast
<1>11. /\ Len(updates') = Len(updates) + 2
       /\ \A i \in 1..Len(updates) : i \in 1..Len(updates') /\ updates'[i] = updates[i]
       /\ updates'[Len(updates) + 1] = u
  BY <1>9, <1>10
<1>12. ASSUME NEW i, NEW n PROVE CancelUp(i, n)' <=> CancelUp(i, n)
  <2>1. CASE i \in 1..Len(updates)
    BY <1>11, <2>1 DEF CancelUp
  <2>2. CASE i \notin 1..Len(updates)
    <3>1. ~CancelUp(i, n)
      BY <2>2 DEF CancelUp
    <3>2. i \in 1..Len(updates') => i = Len(updates) + 1 \/ i = Len(updates')
      BY <1>9, <1>11, <2>2
    <3>3. ~CancelUp(i, n)'
      BY <1>5, <1>6, <1>10, <1>11, <3>2 DEF CancelUp
    <3>4. QED
      BY <3>1, <3>3
  <2>3. QED
    BY <2>1, <2>2
<1>13. Launches(copy', f.match) /\ ShowsLaunch(updates'[Len(updates) + 1], f.match)
  BY <1>1, <1>5, <1>6, <1>11 DEF Launches, ShowsLaunch, s
<1>14. QED
  BY <1>9, <1>11, <1>12, <1>13, OrderPassed DEF LaunchedAs

LEMMA OrderReads ==
  ASSUME TypeOK, Course, OneLaunch, InOrder, drops = 0, SessionReads
  PROVE  InOrder'
<1>1. /\ down # <<>> /\ down' = Tail(down) /\ down[1] \in Frame /\ 1 \in 1..Len(down)
      /\ calledOff' = calledOff
  BY ReadTakes
<1>2. /\ \A i, n : CancelFrame(i, n)' => i \in Nat /\ CancelFrame(i + 1, n)
      /\ \A i : LaunchFrame(i)' => i \in Nat /\ LaunchFrame(i + 1) /\ down'[i] = down[i + 1]
  BY <1>1, FrameRemoved
<1>3. ASSUME NEW n \in Match, NEW i \in 1..Len(down'), NEW j \in 1..Len(down'),
             CancelFrame(i, n)', LaunchFrame(j)', down'[j].match = n
      PROVE  j < i
  <2>1. i \in Nat /\ j \in Nat /\ CancelFrame(i + 1, n) /\ LaunchFrame(j + 1) /\ down[j + 1].match = n
    BY <1>2, <1>3
  <2>2. j + 1 < i + 1
    BY <2>1, InOrderRead
  <2>3. QED
    BY <2>1, <2>2
\* What the first frame cancels has no launch order behind it.
<1>4. ASSUME NEW n \in Match, CancelsIt(down[1], n)
      PROVE  n \in calledOff /\ \A j : LaunchFrame(j)' => down'[j].match # n
  <2>1. CancelFrame(1, n)
    BY <1>1, <1>4 DEF CancelsIt, CancelFrame
  <2>2. n \in calledOff
    BY <1>1, <2>1, InOrderRead DEF Cancelling
  <2>3. ASSUME NEW j, LaunchFrame(j)', down'[j].match = n PROVE FALSE
    <3>1. j \in Nat /\ LaunchFrame(j + 1) /\ down[j + 1].match = n
      BY <1>2, <2>3
    <3>2. j + 1 < 1
      BY <2>1, <3>1, InOrderRead
    <3>3. QED
      BY <3>1, <3>2
  <2>4. QED
    BY <2>2, <2>3
<1>5. ASSUME NEW n, CancelledAs(copy, n)
      PROVE  n \in calledOff /\ \A j : LaunchFrame(j)' => down'[j].match # n
  BY <1>2, <1>5, InOrderRead DEF CancelledAs
<1>6. \A n \in Match : (\E i : CancelFrame(i, n)') => n \in calledOff
  BY <1>2, InOrderRead DEF Cancelling, CancelFrame
<1>7. \A n \in Match : (\E i : CancelUp(i, n)) => n \in calledOff
  BY InOrderRead DEF Cancelling, CancelUp
<1>8. \A n \in Match : \A i, j : CancelUp(i, n) /\ LaunchFrame(j)' => down'[j].match # n
  BY <1>2, InOrderRead
<1>9. CASE down[1].type # "game_launch"
  <2>1. PICK s : ReadAs(s)
    BY <1>9, OtherRead
  <2>2. ASSUME NEW n \in Match, CancelledAs(s, n)
        PROVE  n \in calledOff /\ \A j : LaunchFrame(j)' => down'[j].match # n
    BY <1>4, <1>5, <2>1, <2>2 DEF ReadAs
  <2>3. ASSUME NEW n \in Match, NEW i, CancelUp(i, n)'
        PROVE  n \in calledOff /\ \A j : LaunchFrame(j)' => down'[j].match # n
    BY <1>7, <1>8, <2>1, <2>2, <2>3 DEF ReadAs
  <2>4. \A n \in Match : Cancelling(n)' => n \in calledOff'
    BY <1>1, <1>6, <2>3 DEF Cancelling
  <2>5. copy'.kind = "cancelled"
          => /\ copy'.match \in calledOff'
             /\ \A j \in 1..Len(down') : LaunchFrame(j)' => down'[j].match # copy'.match
    <3>1. copy' = s /\ s.match \in Match
      BY <2>1, StateForms DEF ReadAs, Formed
    <3>2. QED
      BY <1>1, <2>2, <3>1 DEF CancelledAs
  <2>6. ASSUME NEW n \in Match, NEW i \in 1..Len(updates'), NEW j \in 1..Len(updates'),
               CancelUp(i, n)', LaunchUp(j)', updates'[j].state.match = n
        PROVE  j < i
    <3>1. LaunchUp(j) /\ updates[j].state.match = n /\ j <= Len(updates)
      BY <2>1, <2>6 DEF ReadAs, LaunchUp
    <3>2. CASE CancelUp(i, n)
      BY <3>1, <3>2, InOrderRead
    <3>3. CASE i = Len(updates')
      BY <2>1, <3>1, <3>3 DEF ReadAs
    <3>4. QED
      BY <2>1, <2>6, <3>2, <3>3 DEF ReadAs
  <2>7. QED
    BY <1>3, <2>3, <2>4, <2>5, <2>6 DEF InOrder
<1>10. CASE down[1].type = "game_launch"
  <2>1. LaunchedAs(down[1].match)
    BY <1>10, OrderRead
  <2>2. \A n \in Match : Cancelling(n)' => n \in calledOff'
    BY <1>1, <1>6, <1>7, <2>1 DEF Cancelling, LaunchedAs
  <2>3. ASSUME NEW n \in Match, NEW i \in 1..Len(updates'), NEW j \in 1..Len(updates'),
               CancelUp(i, n)', LaunchUp(j)', updates'[j].state.match = n
        PROVE  FALSE
    <3>1. CancelUp(i, n) /\ down[1].match = n
      BY <2>1, <2>3 DEF LaunchedAs, LaunchPassed
    <3>2. LaunchFrame(1)
      BY <1>1, <1>10 DEF LaunchFrame
    <3>3. QED
      BY <3>1, <3>2, InOrderRead
  <2>4. \A j \in 1..Len(down') : ~LaunchFrame(j)'
    BY <2>1 DEF LaunchedAs
  <2>5. copy'.kind # "cancelled"
    BY <2>1 DEF LaunchedAs, Launches
  <2>6. QED
    BY <2>2, <2>3, <2>4, <2>5 DEF InOrder
<1>11. QED
  BY <1>9, <1>10

-----------------------------------------------------------------------------
(* The cancellation finds the launch on screen *)

LEMMA NoneShown ==
  ASSUME NEW n, NoGameOf(n)'
  PROVE  Shows(n)'
BY DEF NoGameOf, NoLaunchOf, Shows

LEMMA LockedSent ==
  ASSUME TypeOK, NEW i, NEW n, LockedFrom(i, n), UNCHANGED <<copy, updates>>,
         NEW f \in Frame, down' = Append(down, f), Stop(f) \/ Cancelling(n) \/ CancelsIt(f, n)
  PROVE  LockedFrom(i, n)'
<1>1. /\ Len(down) \in Nat /\ Len(down') = Len(down) + 1
      /\ \A k \in 1..Len(down) : k \in 1..Len(down') /\ down'[k] = down[k]
      /\ \A k \in 1..Len(down') : k # Len(down') => k \in 1..Len(down)
      /\ down'[Len(down')] = f
      /\ \A c, m : CancelFrame(c, m) => CancelFrame(c, m)'
  BY FramePut
<1>2. \A c, m : CancelUp(c, m)' <=> CancelUp(c, m)
  BY DEF CancelUp
<1>3. \A k \in i..Len(updates') : (\A c \in 1..k : ~CancelUp(c, n)') => ShowsLaunch(updates'[k], n)
  BY <1>2 DEF LockedFrom
<1>4. ASSUME \A c \in 1..Len(updates') : ~CancelUp(c, n)'
      PROVE  Launches(copy', n)
  BY <1>2, <1>4 DEF LockedFrom
<1>5. ASSUME \A c \in 1..Len(updates') : ~CancelUp(c, n)',
             NEW k \in 1..Len(down'), \A c \in 1..k : ~CancelFrame(c, n)'
      PROVE  Stop(down'[k])
  <2>1. \A c \in 1..k : ~CancelFrame(c, n)
    BY <1>1, <1>5
  <2>2. CASE k \in 1..Len(down)
    BY <1>1, <1>2, <1>5, <2>1, <2>2 DEF LockedFrom
  <2>3. CASE k = Len(down')
    <3>1. ~Cancelling(n)
      BY <1>1, <1>2, <1>5, <2>1, <2>3 DEF Cancelling
    <3>2. ~CancelsIt(f, n)
      <4>1. k \in 1..k
        BY <1>1, <2>3
      <4>2. ~CancelFrame(k, n)'
        BY <1>5, <4>1
      <4>3. CancelsIt(f, n) => CancelFrame(k, n)'
        BY <1>1, <2>3 DEF CancelsIt, CancelFrame
      <4>4. QED
        BY <4>2, <4>3
    <3>3. QED
      BY <1>1, <2>3, <3>1, <3>2
  <2>4. QED
    BY <1>1, <2>2, <2>3
<1>6. QED
  BY <1>3, <1>4, <1>5 DEF LockedFrom

LEMMA ShowsSent ==
  ASSUME TypeOK, Server, OneLaunch, Numbers, InOrder, LaunchIsShown,
         NEW n \in Match, n # NoMatch, ServerStep, Due(n)'
  PROVE  Shows(n)'
<1>1. /\ UNCHANGED <<shown, inGame, copy, updates, launching, game>>
      /\ down' = down \/ \E f \in Frame : Sends(f)
  BY ServerSends DEF screenVars, loopVars
<1>2. n \notin cleared /\ ~Stopping(n)
  BY ServerSends DEF Due, Stopping, screenVars, loopVars
<1>3. \A c, m : CancelUp(c, m)' <=> CancelUp(c, m)
  BY <1>1 DEF CancelUp
<1>4. Cancelling(n)' => Callable(n)
  <2>1. ASSUME NEW c, CancelUp(c, n)' PROVE Callable(n)
    <3>1. CancelUp(c, n)
      BY <1>3, <2>1
    <3>2. QED
      BY <3>1 DEF Callable, Cancelling, CancelUp
  <2>2. ASSUME NEW c, CancelFrame(c, n)' PROVE Callable(n)
    <3>1. CASE down' = down
      <4>1. CancelFrame(c, n)
        BY <2>2, <3>1 DEF CancelFrame
      <4>2. QED
        BY <4>1 DEF Callable, Cancelling, CancelFrame
    <3>2. ASSUME NEW f \in Frame, Sends(f) PROVE Callable(n)
      <4>1. CancelFrame(c, n) \/ CancelsIt(f, n)
        BY <2>2, <3>2, FramePut DEF Sends
      <4>2. CancelsIt(f, n) => match = n
        BY <3>2 DEF Sends, CancelsIt
      <4>3. QED
        BY <4>1, <4>2 DEF Callable, Cancelling, CancelFrame
    <3>3. QED
      BY <1>1, <3>1, <3>2
  <2>3. QED
    BY <2>1, <2>2 DEF Cancelling
<1>5. CASE ~Due(n)
  <2>1. match' = n /\ match # n
    BY <1>4, <1>5, <1>2 DEF Due, Callable
  <2>2. \E q \in Queue : ServerMatches(q)
    BY <2>1 DEF ServerStep, ServerAcks, ServerTakesRequest, ServerLaunches, ServerCancels, ServerForgets,
                countVars
  <2>3. n = matches + 1 /\ matches \in Nat
    BY <2>1, <2>2, MatchRange DEF ServerMatches, TypeOK
  <2>4. NoGameOf(n)
    BY <2>3 DEF Numbers, Made
  <2>5. [Next]_vars
    BY DEF Next, ServerStep
  <2>6. NoGameOf(n)'
    BY <2>1, <2>4, <2>5, NoGameKept
  <2>7. QED
    BY <2>6, NoneShown
<1>6. CASE Due(n) /\ down' = down
  <2>1. Shows(n)
    BY <1>6 DEF LaunchIsShown
  <2>2. \A c, m : CancelFrame(c, m)' <=> CancelFrame(c, m)
    BY <1>6 DEF CancelFrame
  <2>3. \A i : LockedFrom(i, n) => LockedFrom(i, n)'
    BY <1>1, <1>3, <1>6, <2>2 DEF LockedFrom
  <2>4. QED
    BY <1>1, <1>6, <2>1, <2>2, <2>3 DEF Shows, LaunchFrame, LaunchUp
<1>7. ASSUME Due(n), NEW f \in Frame, Sends(f), f.type = "game_launch" PROVE Shows(n)'
  <2>1. /\ game = NoMatch /\ launching = NoMatch
        /\ \A j \in 1..Len(updates) : ~LaunchUp(j)
        /\ \A j \in 1..Len(down) : ~LaunchFrame(j)
    <3>1. ServerLaunches
      BY <1>7 DEF Sends
    <3>2. DOMAIN updates = 1..Len(updates) /\ DOMAIN down = 1..Len(down)
      BY DEF TypeOK
    <3>3. QED
      BY <3>1, <3>2 DEF ServerLaunches, Playing, LaunchUp, LaunchFrame
  <2>2. /\ \A i : LaunchFrame(i)' => LaunchFrame(i) \/ i = Len(down')
        /\ Len(down') \in Nat
    BY <1>7, FramePut DEF Sends
  <2>3. ASSUME NEW j \in 1..Len(down'), LaunchFrame(j)' PROVE (j + 1)..Len(down') = {}
    <3>1. j = Len(down')
      BY <2>1, <2>2, <2>3 DEF LaunchFrame
    <3>2. QED
      BY <2>2, <3>1
  <2>4. \A j \in 1..Len(updates') : ~LaunchUp(j)'
    BY <1>1, <2>1 DEF LaunchUp
  <2>5. game' # n /\ launching' # n
    BY <1>1, <2>1
  <2>6. QED
    BY <2>3, <2>4, <2>5 DEF Shows
<1>8. ASSUME Due(n), NEW f \in Frame, Sends(f), f.type # "game_launch" PROVE Shows(n)'
  <2>1. Stop(f) \/ Cancelling(n) \/ CancelsIt(f, n)
    BY <1>8 DEF Sends, Due, Callable, CancelsIt
  <2>2. Shows(n)
    BY <1>8 DEF LaunchIsShown
  <2>3. \A i : LockedFrom(i, n) => LockedFrom(i, n)'
    BY <1>1, <1>8, <2>1, LockedSent DEF Sends
  <2>4. game' = n \/ launching' = n => Launches(shown', n) /\ LockedFrom(1, n)'
    BY <1>1, <2>2, <2>3 DEF Shows
  <2>5. ASSUME NEW j \in 1..Len(updates'), LaunchUp(j)', updates'[j].state.match = n
        PROVE  /\ j = 1 => Launches(shown', n)
               /\ j > 1 => ShowsLaunch(updates'[j - 1], n)
               /\ LockedFrom(j + 1, n)'
    <3>1. j \in 1..Len(updates) /\ LaunchUp(j) /\ updates[j].state.match = n
      BY <1>1, <2>5 DEF LaunchUp
    <3>2. QED
      BY <1>1, <2>2, <2>3, <3>1 DEF Shows
  <2>6. /\ Len(down) \in Nat /\ Len(down') = Len(down) + 1
        /\ \A k \in 1..Len(down) : k \in 1..Len(down') /\ down'[k] = down[k]
        /\ down'[Len(down')] = f
        /\ \A c, m : CancelFrame(c, m) => CancelFrame(c, m)'
        /\ \A c, m : CancelFrame(c, m)' => CancelFrame(c, m) \/ (c = Len(down') /\ CancelsIt(f, m))
        /\ \A c : LaunchFrame(c)' => LaunchFrame(c) /\ down'[c] = down[c]
    BY <1>8, FramePut DEF Sends
  <2>7. ASSUME NEW j \in 1..Len(down'), LaunchFrame(j)', down'[j].match = n,
               NEW k \in (j + 1)..Len(down'), \A c \in 1..k : ~CancelFrame(c, n)'
        PROVE  Stop(down'[k])
    <3>1. LaunchFrame(j) /\ j \in 1..Len(down) /\ down[j].match = n
      BY <2>6, <2>7 DEF LaunchFrame
    <3>2. \A c \in 1..k : ~CancelFrame(c, n)
      BY <2>6, <2>7
    <3>3. CASE k # Len(down')
      <4>1. k \in (j + 1)..Len(down) /\ k \in 1..Len(down)
        BY <2>6, <3>3
      <4>2. QED
        BY <2>2, <2>6, <3>1, <3>2, <4>1 DEF Shows
    <3>4. CASE k = Len(down')
      <4>1. ~CancelsIt(f, n)
        <5>1. CancelsIt(f, n) => CancelFrame(k, n)'
          BY <2>6, <3>4 DEF CancelsIt, CancelFrame
        <5>2. k \in 1..k
          BY <2>6, <3>4
        <5>3. QED
          BY <2>7, <5>1, <5>2
      <4>2. ASSUME NEW c, CancelFrame(c, n) PROVE FALSE
        <5>1. c \in 1..k
          BY <2>6, <3>4, <4>2 DEF CancelFrame
        <5>2. QED
          BY <3>2, <4>2, <5>1
      <4>3. ASSUME NEW c, CancelUp(c, n) PROVE FALSE
        BY <3>1, <4>3, InOrderRead
      <4>4. ~Cancelling(n)
        BY <4>2, <4>3 DEF Cancelling
      <4>5. QED
        BY <2>1, <2>6, <3>4, <4>1, <4>4
    <3>5. QED
      BY <3>3, <3>4
  <2>8. QED
    BY <1>1, <2>2, <2>4, <2>5, <2>7 DEF Shows
<1>9. QED
  BY <1>1, <1>5, <1>6, <1>7, <1>8

\* The session reads on: whatever it reads before the cancellation repeats
\* the launch it shows.
LEMMA LockedRead ==
  ASSUME TypeOK, SessionReads, NEW s, ReadAs(s), NEW n, NEW i \in Nat \ {0}, i <= Len(updates) + 1,
         LockedFrom(i, n)
  PROVE  LockedFrom(i, n)'
<1>1. /\ down # <<>> /\ down' = Tail(down) /\ down[1] \in Frame /\ 1 \in 1..Len(down)
  BY ReadTakes
<1>2. /\ Len(down) \in Nat /\ Len(down') \in Nat /\ Len(down) = Len(down') + 1
      /\ \A k \in 1..Len(down') : k + 1 \in 1..Len(down) /\ down'[k] = down[k + 1]
      /\ \A c, m : CancelFrame(c, m) /\ c # 1 => c \in Nat /\ CancelFrame(c - 1, m)'
  BY <1>1, FrameRemoved
<1>3. CASE \E c : CancelUp(c, n)
  <2>1. PICK c : CancelUp(c, n)
    BY <1>3
  <2>2. c \in 1..Len(updates) /\ CancelUp(c, n)'
    BY <2>1 DEF ReadAs, CancelUp
  <2>3. ASSUME NEW k \in i..Len(updates'), \A d \in 1..k : ~CancelUp(d, n)'
        PROVE  ShowsLaunch(updates'[k], n)
    <3>1. k # Len(updates')
      BY <2>2, <2>3 DEF ReadAs
    <3>2. k \in i..Len(updates) /\ updates'[k] = updates[k]
      BY <2>3, <3>1 DEF ReadAs
    <3>3. \A d \in 1..k : ~CancelUp(d, n)
      BY <2>3 DEF ReadAs
    <3>4. QED
      BY <3>2, <3>3 DEF LockedFrom
  <2>4. ~(\A d \in 1..Len(updates') : ~CancelUp(d, n)')
    BY <2>2 DEF ReadAs
  <2>5. QED
    BY <2>3, <2>4 DEF LockedFrom
<1>4. CASE ~(\E c : CancelUp(c, n)) /\ CancelsIt(down[1], n)
  <2>1. Len(updates') \in 1..Len(updates') /\ CancelUp(Len(updates), n)'
    BY <1>4 DEF ReadAs
  <2>2. ASSUME NEW k \in i..Len(updates'), \A d \in 1..k : ~CancelUp(d, n)'
        PROVE  ShowsLaunch(updates'[k], n)
    <3>1. k # Len(updates')
      BY <2>1, <2>2
    <3>2. k \in i..Len(updates) /\ updates'[k] = updates[k]
      BY <2>2, <3>1 DEF ReadAs
    <3>3. QED
      BY <1>4, <3>2 DEF LockedFrom
  <2>3. ~(\A d \in 1..Len(updates') : ~CancelUp(d, n)')
    BY <2>1
  <2>4. QED
    BY <2>2, <2>3 DEF LockedFrom
<1>5. CASE ~(\E c : CancelUp(c, n)) /\ ~CancelsIt(down[1], n)
  <2>1. /\ \A k \in i..Len(updates) : ShowsLaunch(updates[k], n)
        /\ Launches(copy, n)
        /\ \A k \in 1..Len(down) : (\A c \in 1..k : ~CancelFrame(c, n)) => Stop(down[k])
    BY <1>5 DEF LockedFrom
  <2>2. ~CancelFrame(1, n)
    BY <1>5 DEF CancelFrame, CancelsIt
  <2>3. Stop(down[1])
    <3>1. \A c \in 1..1 : c = 1
      OBVIOUS
    <3>2. QED
      BY <1>1, <2>1, <2>2, <3>1
  <2>4. Launches(s, n) /\ copy' = s
    BY <2>1, <2>3 DEF ReadAs, Launches
  <2>5. ASSUME NEW k \in i..Len(updates') PROVE ShowsLaunch(updates'[k], n)
    <3>1. CASE k = Len(updates')
      BY <2>4, <3>1 DEF ReadAs, ShowsLaunch, StateUpdate
    <3>2. CASE k # Len(updates')
      <4>1. k \in i..Len(updates) /\ updates'[k] = updates[k]
        BY <2>5, <3>2 DEF ReadAs
      <4>2. QED
        BY <2>1, <4>1
    <3>3. QED
      BY <3>1, <3>2
  <2>6. ASSUME NEW k \in 1..Len(down'), \A c \in 1..k : ~CancelFrame(c, n)'
        PROVE  Stop(down'[k])
    <3>1. k + 1 \in 1..Len(down) /\ down'[k] = down[k + 1]
      BY <1>2
    <3>2. ASSUME NEW c \in 1..(k + 1), CancelFrame(c, n) PROVE FALSE
      <4>1. c # 1
        BY <2>2, <3>2
      <4>2. c - 1 \in 1..k
        BY <1>2, <4>1
      <4>3. CancelFrame(c - 1, n)'
        BY <1>2, <3>2, <4>1
      <4>4. QED
        BY <2>6, <4>2, <4>3
    <3>3. QED
      BY <2>1, <3>1, <3>2
  <2>7. QED
    BY <2>4, <2>5, <2>6 DEF LockedFrom
<1>6. QED
  BY <1>3, <1>4, <1>5

LEMMA ShowsReadOther ==
  ASSUME TypeOK, InOrder, SessionReads, NEW s, ReadAs(s), NEW n \in Match, Shows(n)
  PROVE  Shows(n)'
<1>1. /\ down # <<>> /\ down' = Tail(down) /\ down[1] \in Frame /\ 1 \in 1..Len(down)
      /\ UNCHANGED <<shown, inGame, launching, game>>
  BY ReadTakes DEF screenVars, loopVars
<1>2. /\ Len(down) \in Nat /\ Len(down') \in Nat /\ Len(down) = Len(down') + 1
      /\ \A k \in 1..Len(down') : k + 1 \in 1..Len(down) /\ down'[k] = down[k + 1]
      /\ \A c, m : CancelFrame(c, m) /\ c # 1 => c \in Nat /\ CancelFrame(c - 1, m)'
      /\ \A i : LaunchFrame(i)' => i \in Nat /\ LaunchFrame(i + 1) /\ down'[i] = down[i + 1]
  BY <1>1, FrameRemoved
<1>3. Len(updates) \in Nat
  BY DEF ReadAs
<1>4. game' = n \/ launching' = n => Launches(shown', n) /\ LockedFrom(1, n)'
  <2>1. game = n \/ launching = n => Launches(shown, n) /\ LockedFrom(1, n)
    BY DEF Shows
  <2>2. LockedFrom(1, n) => LockedFrom(1, n)'
    BY <1>3, LockedRead
  <2>3. QED
    BY <1>1, <2>1, <2>2
<1>5. ASSUME NEW j \in 1..Len(updates'), LaunchUp(j)', updates'[j].state.match = n
      PROVE  /\ j = 1 => Launches(shown', n)
             /\ j > 1 => ShowsLaunch(updates'[j - 1], n)
             /\ LockedFrom(j + 1, n)'
  <2>1. LaunchUp(j) /\ j \in 1..Len(updates) /\ updates[j].state.match = n
    BY <1>5 DEF ReadAs, LaunchUp
  <2>2. /\ j = 1 => Launches(shown, n)
        /\ j > 1 => ShowsLaunch(updates[j - 1], n)
        /\ LockedFrom(j + 1, n)
    BY <2>1 DEF Shows
  <2>3. LockedFrom(j + 1, n)'
    <3>1. j + 1 \in Nat \ {0} /\ j + 1 <= Len(updates) + 1
      BY <1>3, <2>1
    <3>2. QED
      BY <2>2, <3>1, LockedRead
  <2>4. j > 1 => updates'[j - 1] = updates[j - 1]
    BY <1>3, <2>1 DEF ReadAs
  <2>5. QED
    BY <1>1, <2>2, <2>3, <2>4
<1>6. ASSUME NEW j \in 1..Len(down'), LaunchFrame(j)', down'[j].match = n,
             NEW k \in (j + 1)..Len(down'), \A c \in 1..k : ~CancelFrame(c, n)'
      PROVE  Stop(down'[k])
  <2>1. LaunchFrame(j + 1) /\ j + 1 \in 1..Len(down) /\ down[j + 1].match = n
    BY <1>2, <1>6
  <2>2. k + 1 \in ((j + 1) + 1)..Len(down) /\ down'[k] = down[k + 1]
    BY <1>2
  <2>3. ~CancelFrame(1, n)
    <3>1. CancelFrame(1, n) => j + 1 < 1
      BY <2>1, InOrderRead
    <3>2. QED
      BY <3>1
  <2>4. ASSUME NEW c \in 1..(k + 1), CancelFrame(c, n) PROVE FALSE
    <3>1. c - 1 \in 1..k /\ CancelFrame(c - 1, n)'
      BY <1>2, <2>3, <2>4
    <3>2. QED
      BY <1>6, <3>1
  <2>5. QED
    BY <2>1, <2>2, <2>4 DEF Shows
<1>7. game' = n => inGame'
  BY <1>1 DEF Shows
<1>8. QED
  BY <1>4, <1>5, <1>6, <1>7 DEF Shows

LEMMA ShowsReadOrder ==
  ASSUME TypeOK, SessionReads, down[1].type = "game_launch", LaunchedAs(down[1].match),
         NEW n \in Match, n # NoMatch, Shows(n)
  PROVE  Shows(n)'
<1>1. /\ down # <<>> /\ down' = Tail(down) /\ down[1] \in Frame /\ 1 \in 1..Len(down)
      /\ UNCHANGED <<shown, inGame, launching, game>>
  BY ReadTakes DEF screenVars, loopVars
<1>2. /\ Len(down) \in Nat /\ Len(down') \in Nat /\ Len(down) = Len(down') + 1
      /\ \A k \in 1..Len(down') : k + 1 \in 1..Len(down) /\ down'[k] = down[k + 1]
      /\ \A c, m : CancelFrame(c, m) /\ c # 1 => c \in Nat /\ CancelFrame(c - 1, m)'
  BY <1>1, FrameRemoved
<1>3. game' # n /\ launching' # n /\ \A j \in 1..Len(down') : ~LaunchFrame(j)'
  BY <1>1 DEF LaunchedAs
<1>4. ASSUME NEW j \in 1..Len(updates'), LaunchUp(j)', updates'[j].state.match = n
      PROVE  /\ j = 1 => Launches(shown', n)
             /\ j > 1 => ShowsLaunch(updates'[j - 1], n)
             /\ LockedFrom(j + 1, n)'
  <2>1. j = Len(updates) + 2 /\ down[1].match = n /\ Len(updates) \in Nat /\ Len(updates') = j
    BY <1>4 DEF LaunchedAs, LaunchPassed
  <2>2. (j + 1)..Len(updates') = {}
    BY <2>1
  <2>3. LaunchFrame(1) /\ ~CancelFrame(1, n)
    BY <1>1 DEF LaunchFrame, CancelFrame
  <2>4. ASSUME NEW k \in 1..Len(down'), \A c \in 1..k : ~CancelFrame(c, n)'
        PROVE  Stop(down'[k])
    <3>1. k + 1 \in (1 + 1)..Len(down) /\ down'[k] = down[k + 1]
      BY <1>2
    <3>2. ASSUME NEW c \in 1..(k + 1), CancelFrame(c, n) PROVE FALSE
      <4>1. c - 1 \in 1..k /\ CancelFrame(c - 1, n)'
        BY <1>2, <2>3, <3>2
      <4>2. QED
        BY <2>4, <4>1
    <3>3. QED
      BY <1>1, <2>1, <2>3, <3>1, <3>2 DEF Shows
  <2>5. LockedFrom(j + 1, n)'
    BY <2>1, <2>2, <2>4 DEF LockedFrom, LaunchedAs
  <2>6. j > 1 /\ j # 1 /\ j - 1 = Len(updates) + 1
    BY <2>1
  <2>7. QED
    BY <2>1, <2>5, <2>6 DEF LaunchedAs
<1>5. QED
  BY <1>3, <1>4 DEF Shows

\* A cancellation repeated, of a match no game comes of, is no exception.
LEMMA ShowsRead ==
  ASSUME TypeOK, Server, Course, OneLaunch, Numbers, InOrder, LaunchIsShown, Heeded, drops = 0,
         NEW n \in Match, n # NoMatch, SessionReads, Due(n)'
  PROVE  Shows(n)'
<1>1. /\ down # <<>> /\ down' = Tail(down) /\ match' = match /\ 1 \in 1..Len(down)
  BY ReadTakes
<1>2. n \notin cleared /\ ~Stopping(n)
  BY ReadTakes DEF Due, Stopping, screenVars, loopVars
<1>3. \A i : CancelFrame(i, n)' => i \in Nat /\ CancelFrame(i + 1, n)
  BY <1>1, FrameRemoved
<1>4. (\E i : CancelFrame(i, n)') => Due(n)
  BY <1>3, <1>2 DEF Due, Callable, Cancelling, CancelFrame
<1>5. (\E i : CancelUp(i, n)) => Due(n)
  BY <1>2 DEF Due, Callable, Cancelling, CancelUp
<1>6. CancelsIt(down[1], n) => Due(n)
  BY <1>1, <1>2 DEF Due, Callable, Cancelling, CancelFrame, CancelsIt
<1>7. CASE down[1].type = "game_launch"
  <2>1. LaunchedAs(down[1].match)
    BY <1>7, OrderRead
  <2>2. Due(n)
    BY <1>1, <1>4, <1>5, <1>2, <2>1 DEF Due, Callable, Cancelling, LaunchedAs
  <2>3. Shows(n)
    BY <2>2 DEF LaunchIsShown
  <2>4. QED
    BY <1>7, <2>1, <2>3, ShowsReadOrder
<1>8. CASE down[1].type # "game_launch"
  <2>1. PICK s : ReadAs(s)
    BY <1>8, OtherRead
  <2>2. CASE Due(n)
    <3>1. Shows(n)
      BY <2>2 DEF LaunchIsShown
    <3>2. QED
      BY <2>1, <3>1, ShowsReadOther
  <2>3. CASE ~Due(n)
    <3>1. CancelledAs(copy, n)
      BY <1>1, <1>4, <1>5, <1>6, <2>1, <1>2, <2>3 DEF Due, Callable, Cancelling, ReadAs
    <3>2. n \in calledOff
      BY <3>1, InOrderRead DEF CancelledAs
    <3>3. NoGameOf(n)
      BY <1>2, <2>3, <3>2 DEF Heeded, Due, Callable
    <3>4. [Next]_vars /\ n # match
      BY <3>2 DEF Next, Numbers
    <3>5. NoGameOf(n)'
      BY <3>3, <3>4, NoGameKept
    <3>6. QED
      BY <3>5, NoneShown
  <2>4. QED
    BY <2>2, <2>3
<1>9. QED
  BY <1>7, <1>8

\* The loop takes an update that is not the cancellation.
LEMMA LockedTaken ==
  ASSUME TypeOK, NEW i \in Nat \ {0}, NEW n, LockedFrom(i + 1, n), ~CancelUp(1, n),
         updates # <<>>, updates' = Tail(updates), UNCHANGED <<copy, down>>
  PROVE  LockedFrom(i, n)'
<1>1. /\ Len(updates) \in Nat /\ Len(updates') \in Nat /\ Len(updates) = Len(updates') + 1
      /\ \A k \in 1..Len(updates') : k + 1 \in 1..Len(updates) /\ updates'[k] = updates[k + 1]
      /\ \A c, m : CancelUp(c, m) /\ c # 1 => c \in Nat /\ CancelUp(c - 1, m)'
  BY UpdateRemoved
<1>2. ASSUME NEW k \in Nat, k <= Len(updates'), \A c \in 1..k : ~CancelUp(c, n)'
      PROVE  \A c \in 1..(k + 1) : ~CancelUp(c, n)
  <2>1. ASSUME NEW c \in 1..(k + 1), CancelUp(c, n) PROVE FALSE
    <3>1. c # 1
      BY <2>1
    <3>2. c - 1 \in 1..k
      BY <3>1
    <3>3. CancelUp(c - 1, n)'
      BY <1>1, <2>1, <3>1
    <3>4. QED
      BY <1>2, <3>2, <3>3
  <2>2. QED
    BY <2>1
<1>3. ASSUME NEW k \in i..Len(updates'), \A c \in 1..k : ~CancelUp(c, n)'
      PROVE  ShowsLaunch(updates'[k], n)
  <2>1. k \in Nat /\ k <= Len(updates') /\ k \in 1..Len(updates')
    BY <1>1
  <2>2. k + 1 \in (i + 1)..Len(updates) /\ updates'[k] = updates[k + 1]
    BY <1>1, <2>1
  <2>3. \A c \in 1..(k + 1) : ~CancelUp(c, n)
    BY <1>2, <1>3, <2>1
  <2>4. QED
    BY <2>2, <2>3 DEF LockedFrom
<1>4. ASSUME \A c \in 1..Len(updates') : ~CancelUp(c, n)'
      PROVE  \A c \in 1..Len(updates) : ~CancelUp(c, n)
  BY <1>1, <1>2, <1>4
<1>5. \A c, m : CancelFrame(c, m)' <=> CancelFrame(c, m)
  BY DEF CancelFrame
<1>6. QED
  BY <1>3, <1>4, <1>5 DEF LockedFrom

\* The cancellation is the next update: nothing of its launch is on its way.
LEMMA CancelNext ==
  ASSUME TypeOK, InOrder, NEW n \in Match, CancelUp(1, n)
  PROVE  NoLaunchOf(n)
<1>1. ASSUME NEW j, LaunchUp(j), updates[j].state.match = n PROVE FALSE
  <2>1. j < 1 /\ j \in 1..Len(updates)
    BY <1>1, InOrderRead DEF LaunchUp
  <2>2. QED
    BY <2>1
<1>2. QED
  BY <1>1, InOrderRead DEF NoLaunchOf

\* A step of the loop that takes an update: if that cancels the match of the
\* game that runs, the loop goes on to stop it.
Takes ==
  /\ updates # <<>> /\ updates' = Tail(updates)
  /\ UNCHANGED <<down, copy, match, drops, calledOff, game, cleared>>
  /\ launching = NoMatch /\ phase # "terminates"
  /\ updates[1].type \in {"state", "launch"}
  /\ updates[1].type = "state" => shown' = updates[1].state /\ UNCHANGED <<launching, inGame>>
  /\ updates[1].type = "launch" => /\ shown' = shown /\ inGame'
                                   /\ launching' = updates[1].state.match
  /\ \A n \in Match \ {NoMatch} : CancelUp(1, n) /\ game = n /\ n \notin cleared => phase' = "terminates"

LEMMA LoopTakes ==
  ASSUME TypeOK, Decided, OneSession, drops = 0, ApplyState \/ ApplyLaunch \/ ApplyReconnecting
  PROVE  Takes
<1> USE DEF gameVars, serverVars, countVars
<1>1. updates # <<>> /\ updates \in Seq(Update)
  BY DEF ApplyState, ApplyLaunch, ApplyReconnecting, TypeOK
<1>2. Head(updates) = updates[1] /\ 1 \in 1..Len(updates)
  BY <1>1, TakeFirst
<1>3. launching = NoMatch
  BY DEF ApplyState, ApplyLaunch, ApplyReconnecting, Holding, Decided
<1>4. CASE ApplyState
  <2>1. updates[1].type = "state" /\ Holding
    BY <1>2, <1>4 DEF ApplyState, TypeOK
  <2>2. ASSUME NEW n \in Match \ {NoMatch}, CancelUp(1, n), game = n, n \notin cleared
        PROVE  phase' = "terminates"
    <3>1. updates[1].state.kind = "cancelled"
      BY <2>2 DEF CancelUp
    <3>2. phase = "stops"
      BY <1>2, <2>1, <2>2, <3>1 DEF Holding, Decided
    <3>3. QED
      BY <1>4, <3>2 DEF ApplyState
  <2>3. phase # "terminates"
    BY <2>1 DEF Holding
  <2>4. QED
    BY <1>1, <1>2, <1>3, <1>4, <2>1, <2>2, <2>3 DEF ApplyState, Takes
<1>5. CASE ApplyLaunch
  <2>1. updates[1].type = "launch" /\ phase = "ready"
    BY <1>2, <1>5 DEF ApplyLaunch
  <2>2. \A n : ~CancelUp(1, n)
    BY <2>1 DEF CancelUp
  <2>3. QED
    BY <1>1, <1>2, <1>3, <1>5, <2>1, <2>2 DEF ApplyLaunch, Takes
<1>6. CASE ApplyReconnecting
  BY <1>2, <1>6 DEF ApplyReconnecting, OneSession
<1>7. QED
  BY <1>4, <1>5, <1>6

LEMMA ShowsTaken ==
  ASSUME TypeOK, OneLaunch, InOrder, LaunchIsShown, Takes, NEW n \in Match, n # NoMatch, Due(n)'
  PROVE  Shows(n)'
<1>1. /\ Len(updates) \in Nat /\ Len(updates') \in Nat /\ Len(updates) = Len(updates') + 1
      /\ \A k \in 1..Len(updates') : k + 1 \in 1..Len(updates) /\ updates'[k] = updates[k + 1]
      /\ \A i, m : CancelUp(i, m)' => i \in Nat /\ CancelUp(i + 1, m)
      /\ \A i : LaunchUp(i)' => i \in Nat /\ LaunchUp(i + 1) /\ updates'[i] = updates[i + 1]
  BY UpdateRemoved DEF Takes
<1>2. 1 \in 1..Len(updates)
  BY TakeFirst DEF Takes, TypeOK
<1>3. \A c, m : CancelFrame(c, m)' <=> CancelFrame(c, m)
  BY DEF CancelFrame, Takes
<1>4. Shows(n)
  <2>1. Callable(n)
    BY <1>1, <1>3 DEF Due, Callable, Cancelling, Takes, CancelUp, CancelFrame
  <2>2. n \notin cleared /\ ~Stopping(n)
    BY DEF Due, Stopping, Takes
  <2>3. QED
    BY <2>1, <2>2 DEF Due, LaunchIsShown
<1>5. ASSUME ~CancelUp(1, n), NEW i \in Nat \ {0}, LockedFrom(i + 1, n) PROVE LockedFrom(i, n)'
  BY <1>5, LockedTaken DEF Takes
<1>6. ASSUME LockedFrom(1, n) PROVE LockedFrom(2, n)
  BY <1>6 DEF LockedFrom
<1>7. ASSUME game' = n \/ launching' = n
      PROVE  /\ Launches(shown', n) /\ LockedFrom(1, n)'
             /\ game' = n => inGame'
  <2>1. CASE updates[1].type = "launch"
    <3>1. LaunchUp(1)
      BY <1>2, <2>1 DEF LaunchUp
    <3>2. game' = NoMatch /\ launching' = n /\ updates[1].state.match = n
      BY <1>2, <1>7, <2>1, <3>1 DEF OneLaunch, Takes
    <3>3. Launches(shown, n) /\ LockedFrom(1 + 1, n)
      BY <1>2, <1>4, <3>1, <3>2 DEF Shows
    <3>4. ~CancelUp(1, n)
      BY <2>1 DEF CancelUp
    <3>5. LockedFrom(1, n)'
      BY <1>5, <3>3, <3>4
    <3>6. shown' = shown
      BY <2>1 DEF Takes
    <3>7. QED
      BY <3>2, <3>3, <3>5, <3>6
  <2>2. CASE updates[1].type = "state"
    <3>1. game = n /\ game' = n /\ inGame' = inGame
      BY <1>7, <2>2 DEF Takes
    <3>2. Launches(shown, n) /\ LockedFrom(1, n) /\ inGame
      BY <1>4, <3>1 DEF Shows
    <3>3. ~CancelUp(1, n)
      <4>1. n \notin cleared /\ ~Stopping(n)'
        BY DEF Due, Takes
      <4>2. phase' # "terminates"
        BY <3>1, <4>1 DEF Stopping
      <4>3. QED
        BY <3>1, <4>1, <4>2 DEF Takes
    <3>4. ShowsLaunch(updates[1], n)
      <4>1. \A c \in 1..1 : c = 1
        OBVIOUS
      <4>2. QED
        BY <1>2, <3>2, <3>3, <4>1 DEF LockedFrom
    <3>5. LockedFrom(1, n)'
      <4>1. LockedFrom(1 + 1, n)
        BY <1>6, <3>2
      <4>2. QED
        BY <1>5, <3>3, <4>1
    <3>6. shown' = updates[1].state
      BY <2>2 DEF Takes
    <3>7. QED
      BY <3>1, <3>2, <3>4, <3>5, <3>6 DEF ShowsLaunch
  <2>3. QED
    BY <2>1, <2>2 DEF Takes
<1>8. ASSUME NEW j \in 1..Len(updates'), LaunchUp(j)', updates'[j].state.match = n
      PROVE  /\ j = 1 => Launches(shown', n)
             /\ j > 1 => ShowsLaunch(updates'[j - 1], n)
             /\ LockedFrom(j + 1, n)'
  <2>1. LaunchUp(j + 1) /\ updates[j + 1].state.match = n /\ j + 1 \in 1..Len(updates) /\ j + 1 > 1
    BY <1>1, <1>8
  <2>2. ShowsLaunch(updates[(j + 1) - 1], n) /\ LockedFrom((j + 1) + 1, n)
    BY <1>4, <2>1 DEF Shows
  <2>3. ShowsLaunch(updates[j], n)
    BY <2>2
  <2>4. ~CancelUp(1, n)
    BY <2>1, CancelNext DEF NoLaunchOf
  <2>5. LockedFrom(j + 1, n)'
    BY <1>5, <2>2, <2>4
  <2>6. j > 1 => updates'[j - 1] = updates[j]
    BY <1>1
  <2>7. j = 1 => Launches(shown', n)
    BY <2>3 DEF ShowsLaunch, Takes
  <2>8. QED
    BY <2>3, <2>5, <2>6, <2>7
<1>9. ASSUME NEW j \in 1..Len(down'), LaunchFrame(j)', down'[j].match = n,
             NEW k \in (j + 1)..Len(down'), \A c \in 1..k : ~CancelFrame(c, n)'
      PROVE  Stop(down'[k])
  BY <1>3, <1>4, <1>9 DEF Shows, LaunchFrame, Takes
<1>10. QED
  BY <1>7, <1>8, <1>9 DEF Shows

\* Everything else takes and sends nothing. What it takes off the screen it
\* notes, and the game it leaves running is on screen as before, or as new.
Hides == shown.kind = "launching" => shown.match \in cleared'

Rests ==
  /\ UNCHANGED <<down, updates, copy, match, drops, calledOff>>
  /\ cleared \subseteq cleared'
  /\ shown' = shown \/ Hides
  /\ \/ game' = game /\ (inGame' = inGame \/ launching # NoMatch \/ Hides)
     \/ game' = NoMatch
     \/ game' = launching /\ inGame'
  /\ launching' \in {launching, NoMatch}
  /\ phase = "terminates" => game' = NoMatch \/ UNCHANGED <<phase, game>>

LEMMA TerminatedHides ==
  ASSUME Terminated
  PROVE  cleared \subseteq cleared' /\ Hides
BY DEF Terminated, LaunchHidden, Hides

LEMMA RestSteps ==
  ASSUME TypeOK, Decided,
         \/ \E q \in Queue : StartSearch(q) \/ StopSearch(q)
         \/ LookAtState \/ StopCancelledGame \/ LaunchSucceeds \/ LaunchFails
         \/ OwnWay \/ UNCHANGED vars
  PROVE  Rests
<1> USE DEF countVars, serverVars, gameVars, screenVars, loopVars, Rests
<1>1. ASSUME NEW q \in Queue, StartSearch(q) \/ StopSearch(q) PROVE Rests
  BY <1>1 DEF StartSearch, StopSearch, Requests
<1>2. CASE LookAtState
  BY <1>2 DEF LookAtState
<1>3. CASE StopCancelledGame
  BY <1>3, TerminatedHides DEF StopCancelledGame, GameGone
<1>4. CASE LaunchSucceeds \/ LaunchFails
  BY <1>4 DEF LaunchSucceeds, LaunchFails, Decided
<1>5. CASE GameExits \/ Terminates
  BY <1>5 DEF GameExits, Terminates, GameGone
<1>6. CASE ExitNoticed
  BY <1>6, TerminatedHides DEF ExitNoticed
<1>7. ASSUME NEW w \in Timer, WatchdogLooks(w) PROVE Rests
  BY <1>7 DEF WatchdogLooks
<1>8. ASSUME NEW w \in Timer, WatchdogGivesUp(w) PROVE Rests
  BY <1>8 DEF WatchdogGivesUp, LaunchHidden, Hides
<1>9. CASE UNCHANGED vars
  BY <1>9 DEF vars
<1>10. QED
  BY <1>1, <1>2, <1>3, <1>4, <1>5, <1>6, <1>7, <1>8, <1>9 DEF OwnWay, Watchdogs

LEMMA ShowsRest ==
  ASSUME OneLaunch, LaunchIsShown, Rests, NEW n \in Match, n # NoMatch, Due(n)'
  PROVE  Shows(n)'
<1>1. /\ \A c, m : CancelUp(c, m)' <=> CancelUp(c, m)
      /\ \A c, m : CancelFrame(c, m)' <=> CancelFrame(c, m)
      /\ \A c : LaunchUp(c)' <=> LaunchUp(c)
      /\ \A c : LaunchFrame(c)' <=> LaunchFrame(c)
      /\ UNCHANGED <<down, updates, copy, match>>
  BY DEF CancelUp, CancelFrame, LaunchUp, LaunchFrame, Rests
<1>2. Callable(n) /\ n \notin cleared /\ n \notin cleared' /\ ~Stopping(n)'
  BY <1>1 DEF Due, Callable, Cancelling, Rests
<1>3. CASE Stopping(n)
  <2>1. game = n /\ game' = NoMatch
    BY <1>2, <1>3 DEF Stopping, Rests
  <2>2. launching = NoMatch /\ NoLaunchOf(n)
    BY <2>1 DEF OneLaunch, NoLaunchOf
  <2>3. NoGameOf(n)'
    BY <1>1, <2>1, <2>2 DEF NoGameOf, NoLaunchOf, Rests
  <2>4. QED
    BY <2>3, NoneShown
<1>4. CASE ~Stopping(n)
  <2>1. Shows(n)
    BY <1>2, <1>4 DEF Due, LaunchIsShown
  <2>2. \A i : LockedFrom(i, n) => LockedFrom(i, n)'
    BY <1>1 DEF LockedFrom
  <2>3. Launches(shown, n) => shown' = shown /\ ~Hides
    BY <1>2 DEF Launches, Hides, Rests
  <2>4. game' = n \/ launching' = n => game = n \/ launching = n
    BY DEF Rests
  <2>5. game' = n => inGame'
    <3>1. CASE game = n
      <4>1. inGame /\ Launches(shown, n) /\ launching = NoMatch
        BY <2>1, <3>1 DEF Shows, OneLaunch
      <4>2. QED
        BY <2>3, <4>1 DEF Rests
    <3>2. CASE game # n
      BY <3>2 DEF Rests
    <3>3. QED
      BY <3>1, <3>2
  <2>6. game' = n \/ launching' = n => Launches(shown', n) /\ LockedFrom(1, n)'
    BY <2>1, <2>2, <2>3, <2>4 DEF Shows
  <2>7. ASSUME NEW j \in 1..Len(updates'), LaunchUp(j)', updates'[j].state.match = n
        PROVE  /\ j = 1 => Launches(shown', n)
               /\ j > 1 => ShowsLaunch(updates'[j - 1], n)
               /\ LockedFrom(j + 1, n)'
    BY <1>1, <2>1, <2>2, <2>3, <2>7 DEF Shows
  <2>8. ASSUME NEW j \in 1..Len(down'), LaunchFrame(j)', down'[j].match = n,
               NEW k \in (j + 1)..Len(down'), \A c \in 1..k : ~CancelFrame(c, n)'
        PROVE  Stop(down'[k])
    BY <1>1, <2>1, <2>8 DEF Shows
  <2>9. QED
    BY <2>5, <2>6, <2>7, <2>8 DEF Shows
<1>5. QED
  BY <1>3, <1>4

-----------------------------------------------------------------------------
(* What was called off is heeded *)

\* The cancellation of match n stays on its way.
LEMMA CancellingKept ==
  ASSUME TypeOK, Server, Course, OneLaunch, drops = 0, NEW n \in Match, Cancelling(n),
         ServerStep \/ SessionReads \/ UNCHANGED <<down, updates>>
  PROVE  Cancelling(n)'
<1>1. ASSUME NEW i, CancelUp(i, n)' PROVE Cancelling(n)'
  BY <1>1 DEF Cancelling, CancelUp
<1>2. ASSUME NEW i, CancelFrame(i, n)' PROVE Cancelling(n)'
  BY <1>2 DEF Cancelling, CancelFrame
<1>3. CASE UNCHANGED <<down, updates>>
  BY <1>3 DEF Cancelling, CancelFrame, CancelUp
<1>4. CASE ServerStep
  <2>1. updates' = updates /\ (down' = down \/ \E f \in Frame : Sends(f))
    BY <1>4, ServerSends
  <2>2. ASSUME NEW f \in Frame, Sends(f) PROVE Cancelling(n)'
    <3>1. \A i : CancelFrame(i, n) => CancelFrame(i, n)'
      BY <2>2, FramePut DEF Sends
    <3>2. \A i : CancelUp(i, n) => CancelUp(i, n)'
      BY <2>1 DEF CancelUp
    <3>3. QED
      BY <1>1, <1>2, <3>1, <3>2 DEF Cancelling
  <2>3. QED
    BY <1>3, <2>1, <2>2
<1>5. CASE SessionReads
  <2>1. down # <<>> /\ down' = Tail(down) /\ 1 \in 1..Len(down)
    BY <1>5, ReadTakes
  <2>2. \A i : CancelFrame(i, n) /\ i # 1 => CancelFrame(i - 1, n)'
    BY <2>1, FrameRemoved
  <2>3. CASE down[1].type # "game_launch"
    <3>1. PICK s : ReadAs(s)
      BY <1>5, <2>3, OtherRead
    <3>2. \A i : CancelUp(i, n) => CancelUp(i, n)'
      BY <3>1 DEF ReadAs
    <3>3. CancelFrame(1, n) => CancelUp(Len(updates), n)'
      BY <3>1 DEF ReadAs, CancelFrame, CancelsIt
    <3>4. CancelUp(Len(updates), n)' => Cancelling(n)'
      <4>1. CancelUp(Len(updates), n)' => Len(updates') \in 1..Len(updates')
        BY DEF CancelUp
      <4>2. QED
        BY <4>1 DEF Cancelling
    <3>5. QED
      BY <1>1, <1>2, <2>2, <3>2, <3>3, <3>4 DEF Cancelling
  <2>4. CASE down[1].type = "game_launch"
    <3>1. LaunchedAs(down[1].match)
      BY <1>5, <2>4, OrderRead
    <3>2. ~CancelFrame(1, n)
      BY <2>4 DEF CancelFrame
    <3>3. QED
      BY <1>1, <1>2, <2>2, <3>1, <3>2 DEF Cancelling, LaunchedAs
  <2>5. QED
    BY <2>3, <2>4
<1>6. QED
  BY <1>3, <1>4, <1>5

\* The loop takes the cancellation: the game it is for is stopped next.
LEMMA HeededTaken ==
  ASSUME TypeOK, InOrder, Takes, NEW n \in Match, n # NoMatch, n \notin cleared, Cancelling(n)
  PROVE  Cancelling(n)' \/ NoGameOf(n)' \/ Stopping(n)'
<1>1. /\ \A i : CancelUp(i, n) /\ i # 1 => CancelUp(i - 1, n)'
      /\ \A i : LaunchUp(i)' => LaunchUp(i + 1) /\ updates'[i] = updates[i + 1]
  BY UpdateRemoved DEF Takes
<1>2. \A i : /\ CancelFrame(i, n)' <=> CancelFrame(i, n)
             /\ LaunchFrame(i)' <=> LaunchFrame(i)
  BY DEF Takes, CancelFrame, LaunchFrame
<1>3. CASE ~CancelUp(1, n)
  <2>1. CASE \E i : CancelFrame(i, n)
    BY <1>2, <2>1 DEF Cancelling, CancelFrame
  <2>2. CASE \E i : CancelUp(i, n)
    <3>1. \E i : CancelUp(i, n)'
      BY <1>1, <1>3, <2>2
    <3>2. QED
      BY <3>1 DEF Cancelling, CancelUp
  <2>3. QED
    BY <2>1, <2>2 DEF Cancelling
<1>4. CASE CancelUp(1, n)
  <2>1. NoLaunchOf(n) /\ updates[1].type = "state"
    BY <1>4, CancelNext DEF CancelUp
  <2>2. \A i : LaunchUp(i) => updates[i].state.match # n
    BY <2>1 DEF NoLaunchOf, LaunchUp
  <2>3. NoLaunchOf(n)'
    BY <1>1, <1>2, <2>1, <2>2 DEF NoLaunchOf, Takes
  <2>4. launching' # n /\ game' = game
    BY <2>1 DEF Takes
  <2>5. game = n => Stopping(n)'
    BY <1>4 DEF Stopping, Takes
  <2>6. QED
    BY <2>3, <2>4, <2>5 DEF NoGameOf
<1>5. QED
  BY <1>3, <1>4

LEMMA HeededStep ==
  ASSUME TypeOK, Server, Course, OneLaunch, Numbers, OneSession, InOrder, LaunchIsShown, Heeded,
         Decided, [Next]_vars, drops = 0, ~ConnectionLost, ~SessionStarts
  PROVE  Heeded'
<1> USE DEF gameVars, serverVars, countVars, screenVars, loopVars
<1>1. SUFFICES ASSUME NEW n \in calledOff', n \notin cleared'
               PROVE  Cancelling(n)' \/ NoGameOf(n)' \/ Stopping(n)'
  BY DEF Heeded
<1>2. CASE n \notin calledOff
  <2>1. ServerCancels /\ n = match
    <3>1. ~(Loop \/ OwnWay)
      BY <1>1, <1>2, LoopApart
    <3>2. QED
      BY <1>1, <1>2, <3>1
         DEF OwnWay, Watchdogs, Next, vars, StartSearch, StopSearch, Requests, ServerMatches, ServerAcks,
             ServerTakesRequest, ServerLaunches, ServerCancels, ServerForgets, SessionReads
  <2>2. match \in Match /\ match # NoMatch /\ Queue # {}
    BY <2>1 DEF ServerCancels, TypeOK, Server
  <2>3. PICK f \in Frame : down' = Append(down, f) /\ f.type = "match_cancelled" /\ f.match = n
    BY <2>1, <2>2, FrameTypes DEF ServerCancels, ServerSays, MatchFrame
  <2>4. CancelFrame(Len(down), n)'
    <3>1. Len(down') \in 1..Len(down') /\ down'[Len(down')] = f
      BY <2>3, FramePut
    <3>2. QED
      BY <2>3, <3>1 DEF CancelFrame
  <2>5. Len(down') \in 1..Len(down')
    BY <2>3, FramePut
  <2>6. QED
    BY <2>4, <2>5 DEF Cancelling
<1>3. CASE n \in calledOff
  <2>1. n \in Match /\ n # NoMatch /\ n # match
    BY <1>3 DEF TypeOK, Numbers
  <2>2. \/ ServerStep \/ SessionReads
        \/ ApplyState \/ ApplyLaunch \/ ApplyReconnecting
        \/ Rests
    BY RestSteps DEF Next, Loop, OwnWay, Watchdogs, ServerStep
  <2>3. CASE NoGameOf(n)
    BY <2>1, <2>3, NoGameKept
  <2>4. CASE ServerStep \/ SessionReads
    <3>1. UNCHANGED <<screenVars, loopVars, game>>
      BY <2>4, ServerSends, ReadTakes
    <3>2. Cancelling(n) \/ NoGameOf(n) \/ Stopping(n)
      BY <1>1, <1>3, <3>1 DEF Heeded
    <3>3. Stopping(n) => Stopping(n)'
      BY <3>1 DEF Stopping
    <3>4. QED
      BY <2>1, <2>3, <2>4, <3>2, <3>3, CancellingKept
  <2>5. CASE Rests
    <3>1. Cancelling(n) \/ NoGameOf(n) \/ Stopping(n)
      BY <1>1, <1>3, <2>5 DEF Heeded, Rests
    <3>2. ASSUME Stopping(n), ~Stopping(n)' PROVE NoGameOf(n)'
      <4>1. game = n /\ game' = NoMatch
        BY <2>5, <3>2 DEF Stopping, Rests
      <4>2. launching = NoMatch /\ NoLaunchOf(n)
        BY <2>1, <4>1 DEF OneLaunch, NoLaunchOf
      <4>3. QED
        BY <2>1, <2>5, <4>1, <4>2 DEF NoGameOf, NoLaunchOf, LaunchFrame, LaunchUp, Rests
    <3>3. Cancelling(n) => Cancelling(n)'
      BY <2>1, <2>5, CancellingKept DEF Rests
    <3>4. QED
      BY <2>3, <3>1, <3>2, <3>3
  <2>6. CASE ApplyState \/ ApplyLaunch \/ ApplyReconnecting
    <3>1. Takes
      BY <2>6, LoopTakes
    <3>2. n \notin cleared /\ ~Stopping(n)
      BY <1>1, <3>1 DEF Takes, Stopping
    <3>3. Cancelling(n) \/ NoGameOf(n)
      BY <1>3, <3>2 DEF Heeded
    <3>4. QED
      BY <2>1, <2>3, <3>1, <3>2, <3>3, HeededTaken
  <2>7. QED
    BY <2>2, <2>4, <2>5, <2>6
<1>4. QED
  BY <1>2, <1>3

LEMMA OneSessionRead ==
  ASSUME TypeOK, Course, OneLaunch, OneSession, drops = 0, SessionReads
  PROVE  OneSession'
<1>1. CASE down[1].type # "game_launch"
  <2>1. PICK s : ReadAs(s)
    BY <1>1, OtherRead
  <2>2. QED
    BY <2>1 DEF OneSession, ReadAs, StateUpdate
<1>2. CASE down[1].type = "game_launch"
  <2>1. LaunchedAs(down[1].match)
    BY <1>2, OrderRead
  <2>2. ASSUME NEW i \in 1..Len(updates') PROVE updates'[i].type # "reconnecting"
    <3>1. i \in 1..Len(updates) \/ i = Len(updates) + 1 \/ i = Len(updates')
      BY <2>1, <2>2 DEF LaunchedAs
    <3>2. QED
      BY <2>1, <2>2, <3>1 DEF LaunchedAs, LaunchPassed, LaunchUp, ShowsLaunch, OneSession
  <2>3. QED
    BY <2>2 DEF OneSession
<1>3. QED
  BY <1>1, <1>2

LEMMA CalledOffStep ==
  ASSUME TypeOK, Server, Course, OneLaunch, Numbers, CalledOff, Decided, [Next]_vars
  PROVE  CalledOff'
<1> USE DEF gameVars, serverVars, countVars
<1>1. SUFFICES ASSUME drops' = 0 PROVE OneSession' /\ InOrder' /\ LaunchIsShown' /\ Heeded'
  BY DEF CalledOff
<1>2. drops = 0 /\ ~ConnectionLost
  <2>1. drops \in Nat
    BY BoundAssumption DEF TypeOK
  <2>2. ConnectionLost => drops' = drops + 1
    BY DEF ConnectionLost
  <2>3. Loop \/ OwnWay => drops' = drops
    BY LoopApart
  <2>4. ~ConnectionLost => drops' = drops
    BY <2>3
       DEF OwnWay, Watchdogs, Next, vars, StartSearch, StopSearch, Requests, ServerMatches, ServerAcks,
           ServerTakesRequest, ServerLaunches, ServerCancels, ServerForgets, SessionReads, SessionStarts
  <2>5. QED
    BY <1>1, <2>1, <2>2, <2>4
<1>3. OneSession /\ InOrder /\ LaunchIsShown /\ Heeded /\ ~SessionStarts
  BY <1>2 DEF CalledOff, Server, SessionStarts
<1>4. Heeded'
  BY <1>2, <1>3, HeededStep
<1>5. CASE ServerStep
  <2>1. InOrder'
    BY <1>3, <1>5, OrderSent
  <2>2. ASSUME NEW n \in Match \ {NoMatch}, Due(n)' PROVE Shows(n)'
    BY <1>3, <1>5, <2>2, ShowsSent
  <2>3. OneSession'
    BY <1>3, <1>5, ServerSends DEF OneSession
  <2>4. QED
    BY <1>4, <2>1, <2>2, <2>3 DEF LaunchIsShown
<1>6. CASE SessionReads
  <2>1. InOrder' /\ OneSession'
    BY <1>2, <1>3, <1>6, OrderReads, OneSessionRead
  <2>2. ASSUME NEW n \in Match \ {NoMatch}, Due(n)' PROVE Shows(n)'
    BY <1>2, <1>3, <1>6, <2>2, ShowsRead
  <2>3. QED
    BY <1>4, <2>1, <2>2 DEF LaunchIsShown
<1>7. CASE ApplyState \/ ApplyLaunch \/ ApplyReconnecting
  <2>1. Takes
    BY <1>2, <1>3, <1>7, LoopTakes
  <2>2. InOrder'
    BY <1>3, <2>1, OrderApplied DEF Takes
  <2>3. ASSUME NEW n \in Match \ {NoMatch}, Due(n)' PROVE Shows(n)'
    BY <1>3, <2>1, <2>3, ShowsTaken
  <2>4. OneSession'
    BY <1>3, <2>1, UpdateRemoved DEF OneSession, Takes
  <2>5. QED
    BY <1>4, <2>2, <2>3, <2>4 DEF LaunchIsShown
<1>8. CASE Rests
  <2>1. InOrder' /\ OneSession'
    BY <1>3, <1>8, OrderKept DEF Rests, OneSession
  <2>2. ASSUME NEW n \in Match \ {NoMatch}, Due(n)' PROVE Shows(n)'
    BY <1>3, <1>8, <2>2, ShowsRest
  <2>3. QED
    BY <1>4, <2>1, <2>2 DEF LaunchIsShown
<1>9. QED
  BY <1>2, <1>3, <1>5, <1>6, <1>7, <1>8, RestSteps DEF Next, Loop, OwnWay, Watchdogs, ServerStep

-----------------------------------------------------------------------------
(* The loop keeps to what it decided *)

\* While it holds an update, nobody else moves on what it decided by.
LEMMA LoopAlone ==
  ASSUME TypeOK, [Next]_vars, ~Loop
  PROVE  /\ UNCHANGED loopVars /\ cleared \subseteq cleared'
         /\ game' \in {game, NoMatch}
         /\ drops' = 0 => drops = 0
         /\ updates # <<>> => updates'[1] = updates[1] /\ Head(updates') = Head(updates)
<1> USE DEF countVars, serverVars, gameVars, screenVars, loopVars
<1>1. /\ UNCHANGED loopVars /\ cleared \subseteq cleared'
      /\ game' \in {game, NoMatch}
  <2>1. ExitNoticed => cleared \subseteq cleared'
    BY TerminatedHides DEF ExitNoticed
  <2>2. QED
    BY <2>1 DEF Next, vars, StartSearch, StopSearch, Requests, ServerMatches, ServerAcks,
                ServerTakesRequest, ServerLaunches, ServerCancels, ServerForgets, SessionReads,
                ConnectionLost, SessionStarts, GameExits, GameGone, Terminates, ExitNoticed,
                WatchdogLooks, WatchdogGivesUp, LaunchHidden
<1>2. drops' = 0 => drops = 0
  <2>1. drops \in Nat
    BY BoundAssumption DEF TypeOK
  <2>2. drops' \in {drops, drops + 1}
    BY DEF Next, vars, StartSearch, StopSearch, Requests, ServerMatches, ServerAcks,
           ServerTakesRequest, ServerLaunches, ServerCancels, ServerForgets, SessionReads,
           ConnectionLost, SessionStarts, GameExits, Terminates, ExitNoticed,
           WatchdogLooks, WatchdogGivesUp
  <2>3. QED
    BY <2>1, <2>2
<1>3. \/ UNCHANGED updates
      \/ \E u \in Update : SentOne(u)
      \/ \E u, v \in Update : SentTwo(u, v)
  <2>1. CASE SessionReads
    <3>1. \A t \in StateSet, n \in Match : StateUpdate(t) \in Update /\ LaunchUpdate(n) \in Update
      BY StateUpdateType, LaunchUpdateType
    <3>2. QED
      BY <2>1, <3>1, SessionSends
  <2>2. CASE SessionStarts
    BY <2>2, ReconnectingType DEF SessionStarts, SentOne
  <2>3. CASE ~SessionReads /\ ~SessionStarts
    BY <2>3 DEF Next, vars, StartSearch, StopSearch, Requests, ServerMatches, ServerAcks,
                ServerTakesRequest, ServerLaunches, ServerCancels, ServerForgets, ConnectionLost,
                GameExits, Terminates, ExitNoticed, WatchdogLooks, WatchdogGivesUp
  <2>4. QED
    BY <2>1, <2>2, <2>3
<1>4. ASSUME updates # <<>> PROVE updates'[1] = updates[1] /\ Head(updates') = Head(updates)
  <2>1. updates \in Seq(Update) /\ Len(updates) \in Nat \ {0}
    BY <1>4, EmptySeq DEF TypeOK
  <2>2. ASSUME NEW us \in Seq(Update), Len(us) \in Nat \ {0}, NEW u \in Update
        PROVE  /\ Append(us, u) \in Seq(Update) /\ Len(Append(us, u)) \in Nat \ {0}
               /\ Append(us, u)[1] = us[1] /\ Head(Append(us, u)) = us[1] /\ Head(us) = us[1]
    BY <2>2
  <2>3. QED
    BY <1>3, <2>1, <2>2 DEF SentOne, SentTwo
<1>5. QED
  BY <1>1, <1>2, <1>4

LEMMA DecidedStep ==
  ASSUME TypeOK, OneLaunch, Numbers, CalledOff, Decided, [Next]_vars
  PROVE  Decided'
<1> USE DEF countVars, serverVars, gameVars, screenVars, loopVars
<1>1. CASE ~Loop
  <2>1. CASE Holding
    <3>1. /\ updates # <<>> /\ updates'[1] = updates[1] /\ Head(updates') = Head(updates)
          /\ UNCHANGED loopVars /\ cleared \subseteq cleared' /\ game' \in {game, NoMatch}
          /\ drops' = 0 => drops = 0
      BY <1>1, <2>1, LoopAlone DEF TypeOK
    <3>2. 1 \in 1..Len(updates)
      BY <3>1, TakeFirst DEF TypeOK
    <3>3. \A n : CancelUp(1, n)' => CancelUp(1, n)
      BY <3>1, <3>2 DEF CancelUp
    <3>4. QED
      BY <3>1, <3>3 DEF Decided
  <2>2. CASE ~Holding
    BY <1>1, <2>2, LoopAlone DEF Holding, Decided
  <2>3. QED
    BY <2>1, <2>2
<1>2. CASE LookAtState
  <2> DEFINE s == Head(updates).state
  <2>1. /\ phase = "ready" /\ launching' = NoMatch /\ updates' = updates /\ UNCHANGED <<game, cleared, drops>>
        /\ phase' = IF Arms(s) THEN "arms"
                    ELSE IF StopsGame(s) THEN "stops"
                    ELSE IF s.kind = "found" /\ shown.kind = "found" THEN "repeats"
                    ELSE "puts"
        /\ updates # <<>>
    BY <1>2 DEF LookAtState, Decided
  <2>2. Head(updates) = updates[1]
    BY <2>1, TakeFirst DEF TypeOK
  <2>3. ASSUME phase' = "puts", NEW n \in Match \ {NoMatch}, drops = 0, CancelUp(1, n), n \notin cleared
        PROVE  game # n
    <3>1. SUFFICES ASSUME game = n PROVE FALSE
      OBVIOUS
    <3>2. Due(n)
      BY <2>1, <2>3 DEF Due, Callable, Cancelling, CancelUp, Stopping
    <3>3. Launches(shown, n) /\ inGame
      BY <2>3, <3>1, <3>2 DEF CalledOff, LaunchIsShown, Shows
    <3>4. s.kind = "cancelled"
      BY <2>2, <2>3 DEF CancelUp
    <3>5. ~Arms(s) /\ StopsGame(s)
      BY <3>3, <3>4 DEF Arms, StopsGame, Launches
    <3>6. QED
      BY <2>1, <2>3, <3>5
  <2>4. \A n : CancelUp(1, n)' <=> CancelUp(1, n)
    BY <2>1 DEF CancelUp
  <2>5. /\ phase' \in {"arms", "repeats"} => s.kind = "found"
        /\ phase' = "stops" => s.kind = "cancelled"
        /\ phase' = "puts" => s.kind # "found"
        /\ phase' # "launches"
    BY <2>1 DEF Arms, StopsGame
  <2>6. QED
    BY <2>1, <2>3, <2>4, <2>5 DEF Decided
<1>3. CASE ApplyState
  BY <1>3 DEF ApplyState, Holding, Decided
<1>4. CASE ApplyLaunch
  <2>1. LaunchUp(1) /\ 1 \in 1..Len(updates) /\ launching' = updates[1].state.match /\ phase' = "launches"
    BY <1>4, TakeFirst DEF ApplyLaunch, LaunchUp, TypeOK
  <2>2. launching' # NoMatch
    BY <2>1 DEF Numbers, NoLaunchOf
  <2>3. QED
    BY <2>1, <2>2 DEF Decided
<1>5. CASE StopCancelledGame \/ LaunchSucceeds \/ LaunchFails \/ ApplyReconnecting
  BY <1>5 DEF StopCancelledGame, LaunchSucceeds, LaunchFails, ApplyReconnecting, Decided
<1>6. QED
  BY <1>1, <1>2, <1>3, <1>4, <1>5 DEF Loop

-----------------------------------------------------------------------------
(* The invariant *)

LEMMA Begins == Init => IInv
<1> SUFFICES ASSUME Init PROVE IInv
  OBVIOUS
<1>1. TypeOK
  BY InitTypes
<1>2. /\ shown = Idle /\ copy = Idle /\ updates = <<>> /\ down = <<>> /\ up = <<>> /\ connected
      /\ launching = NoMatch /\ game = NoMatch /\ match = NoMatch /\ ordered = NoMatch /\ matches = 0
      /\ searching = {} /\ acks = {} /\ calledOff = {} /\ drops = 0 /\ phase = "ready"
  BY DEF Init
<1>3. Len(down) = 0 /\ Len(updates) = 0 /\ 1..Len(down) = {} /\ 1..Len(updates) = {}
  BY <1>2
<1>4. Server
  BY <1>2 DEF Server, NoMatch
<1>5. Course
  <2>1. PICK S : S = <<Idle>>
    OBVIOUS
  <2>2. S \in Seq(StateSet) /\ Len(S) = 1 /\ S[1] = Idle
    <3>1. Idle \in StateSet
      BY StatesOf
    <3>2. QED
      BY <2>1, <3>1
  <2>3. Replay(S)
    BY <1>2, <1>3, <2>2 DEF Replay
  <2>4. Tracks(S)
    BY <1>2, <1>3, <2>2 DEF Tracks, Ends, SearchedQueues, Idle, State
  <2>5. QED
    BY <2>2, <2>3, <2>4 DEF Course
<1>6. Idle.kind = "idle"
  BY DEF Idle, State
<1>7. Passing /\ FoundIsWatched
  BY <1>2, <1>3, <1>6 DEF Passing, Chain, FoundIsWatched
<1>8. OneLaunch
  BY <1>2, <1>3 DEF OneLaunch
<1>9. Numbers
  <2>1. \A n \in Match : NoLaunchOf(n) /\ (n # NoMatch => NoGameOf(n))
    BY <1>2, <1>3 DEF NoGameOf, NoLaunchOf
  <2>2. Made
    BY <1>2, <2>1 DEF Made, NoMatch
  <2>3. QED
    BY <1>2, <2>1, <2>2, MatchRange DEF Numbers
<1>10. \A n : ~Cancelling(n)
  BY <1>3 DEF Cancelling
<1>11. CalledOff
  <2>1. InOrder
    BY <1>2, <1>3, <1>6, <1>10 DEF InOrder
  <2>2. LaunchIsShown
    BY <1>2, <1>10 DEF LaunchIsShown, Due, Callable
  <2>3. QED
    BY <1>2, <1>3, <2>1, <2>2 DEF CalledOff, OneSession, Heeded
<1>12. Decided
  BY <1>2 DEF Decided
<1>13. QED
  BY <1>1, <1>4, <1>5, <1>7, <1>8, <1>9, <1>11, <1>12 DEF IInv

LEMMA TypesKept ==
  ASSUME TypeOK, Server, Decided, [Next]_vars
  PROVE  TypeOK'
<1>1. CASE UNCHANGED vars
  BY <1>1 DEF vars, TypeOK, Holding, serverVars, countVars, gameVars, screenVars, loopVars
<1>2. CASE Next
  BY <1>2, PanelTypes, ServerTypes, SessionTypes, LoopTypes, OwnWayTypes DEF Next, OwnWay, Watchdogs
<1>3. QED
  BY <1>1, <1>2

LEMMA Continues == IInv /\ [Next]_vars => IInv'
<1> SUFFICES ASSUME IInv, [Next]_vars PROVE IInv'
  OBVIOUS
<1>1. /\ TypeOK /\ Server /\ Course /\ Passing /\ FoundIsWatched
      /\ OneLaunch /\ Numbers /\ CalledOff /\ Decided
  BY DEF IInv
<1>2. TypeOK'
  BY <1>1, TypesKept
<1>3. Server'
  BY <1>1, ServerActs, ServerElsewhere
<1>4. Course'
  BY <1>1, CourseStep
<1>5. Passing' /\ FoundIsWatched'
  BY <1>1, PassingStep, WatchedStep
<1>6. OneLaunch' /\ Numbers'
  BY <1>1, <1>2, LaunchStep, NumbersStep
<1>7. CalledOff' /\ Decided'
  BY <1>1, CalledOffStep, DecidedStep
<1>8. QED
  BY <1>2, <1>3, <1>4, <1>5, <1>6, <1>7 DEF IInv

LEMMA Invariance == Spec => []IInv
BY Begins, Continues, PTL DEF Spec

\* Every variable keeps its range, whatever is read when, for any number of
\* queues, matches, requests, terminations and lost connections.
THEOREM TypesHold == Spec => []TypeOK
<1>1. IInv => TypeOK
  BY DEF IInv
<1>2. QED
  BY <1>1, Invariance, PTL

\* Whoever the server searches for sees these queues once nothing is on its
\* way: no late stop, launch, lost connection or end of a game makes the
\* session's copy, or the screen, another one; a watchdog that decided on the
\* match before does.
THEOREM SearchesAreShown == Spec => []SearchIsShown
<1>1. IInv => SearchIsShown
  <2>1. SUFFICES ASSUME IInv, Drained, searching # {}
                 PROVE  SearchedQueues(shown) = searching \/ stale = "word"
    BY DEF SearchIsShown
  <2>2. PICK S \in Seq(StateSet) : Replay(S) /\ Tracks(S)
    BY <2>1 DEF IInv, Drained, Course
  <2>3. Len(down) = 0
    BY <2>1 DEF Drained
  <2>4. Ends(S) = copy
    BY <2>2, <2>3 DEF Replay, Ends
  <2>5. SearchedQueues(copy) = searching
    BY <2>2, <2>4 DEF Tracks
  <2>6. copy.kind = "searching"
    BY <2>1, <2>5 DEF SearchedQueues
  <2>7. shown = copy \/ stale = "word"
    BY <2>1, <2>6 DEF IInv, Passing, WordOverSearch, Drained
  <2>8. QED
    BY <2>5, <2>7
<1>2. QED
  BY <1>1, Invariance, PTL

\* A match on screen has a watchdog of its queue, also when it took the place of
\* another one and none was armed for it, unless the loop saw it there, armed
\* nothing, and put it back after it had left.
THEOREM MatchesAreWatched == Spec => []FoundIsWatched
<1>1. IInv => FoundIsWatched
  BY DEF IInv
<1>2. QED
  BY <1>1, Invariance, PTL

\* A match called off runs no game once the cancellation is through, wherever
\* it found the launch: the update loop looks for it on screen only, and that
\* is where every launch that can still be called off is, as long as no other
\* game's end, no termination and no watchdog takes it off.
THEOREM CancelledMatchesStop == Spec => []CancelledMatchIsStopped
<1>1. IInv => CancelledMatchIsStopped
  <2>1. SUFFICES ASSUME IInv, Drained, drops = 0, game \in calledOff \ cleared PROVE FALSE
    BY DEF CancelledMatchIsStopped
  <2>2. Cancelling(game) \/ NoGameOf(game) \/ Stopping(game)
    BY <2>1 DEF IInv, CalledOff, Heeded
  <2>3. 1..Len(down) = {} /\ 1..Len(updates) = {} /\ phase = "ready"
    BY <2>1 DEF Drained
  <2>4. QED
    BY <2>2, <2>3 DEF Cancelling, NoGameOf, Stopping
<1>2. QED
  BY <1>1, Invariance, PTL

\* No stop of a search that the match itself ended takes the match off the
\* panel, however late it is acknowledged.
THEOREM LateStopsAreHarmless == Spec => LateStopsKeepTheMatch
<1>1. IInv /\ [Next]_vars
        => [ApplyState /\ shown.kind \in {"found", "launching"} => shown'.kind # "idle"]_vars
  <2>1. SUFFICES ASSUME IInv, ApplyState, shown.kind \in {"found", "launching"}
                 PROVE  shown'.kind # "idle"
    OBVIOUS
  <2>2. updates \in Seq(Update) /\ updates # <<>> /\ Chain(updates, shown) /\ Head(updates).type = "state"
    BY <2>1 DEF ApplyState, IInv, TypeOK, Passing
  <2>3. 1 \in 1..Len(updates) /\ Head(updates) = updates[1]
    BY <2>2, TakeFirst
  <2>4. updates[1].type = "state" /\ shown' = updates[1].state
    BY <2>1, <2>2, <2>3 DEF ApplyState
  <2>5. MayFollow(shown, shown')
    BY <2>2, <2>3, <2>4 DEF Chain
  <2>6. QED
    BY <2>1, <2>5 DEF MayFollow
<1>2. QED
  BY <1>1, Invariance, PTL DEF Spec, LateStopsKeepTheMatch
=============================================================================
