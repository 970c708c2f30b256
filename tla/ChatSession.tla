---------------------------- MODULE ChatSession ----------------------------
(***************************************************************************)
(* Who is in which channel, as the chat server, the IRC session, the chat  *)
(* service and the screen each have it: the session keeps rosters of its   *)
(* own and sends what changes, the service applies it, and the set of      *)
(* channels wanted outlives the connection that joined them.               *)
(*                                                                         *)
(* The chat server is external. A person's rank is one of plain and op; a  *)
(* channel has one message at most, and the screen counts how often it     *)
(* shows it. Renames of the user, topics, reactions and private            *)
(* conversations are left out, and so is a server that refuses a JOIN.     *)
(* The stream to the service and the queue of outgoing lines live as long  *)
(* as the supervisor, which never gives up here.                           *)
(***************************************************************************)
EXTENDS Naturals, Sequences, FiniteSets, SequencesExt

CONSTANTS Nick,         \* names of other people
          Channel,
          AutoJoin,     \* channels the lobby server tells the client to join
          UpdateCap,    \* slots of the update channel (256 in the code)
          MaxEvents     \* bound: channels the user opens or closes, what other people do,
                        \* and connections lost

ASSUME AutoJoinAssumption == AutoJoin \subseteq Channel
ASSUME ChannelAssumption == IsFiniteSet(Channel)
ASSUME LimitAssumption == UpdateCap \in Nat \ {0} /\ MaxEvents \in Nat

VARIABLES
  status, open, users, shown,    \* AppState.chat: status, channels, rosters, messages
  announced, lobby, relay,       \* server_auto_join, and where the two services are
  wanted, outgoing,              \* the client: wanted_channels, queued lines
  conn, roster, pendingNames, asked,  \* the session: socket and SessionState
  updates,                       \* the update channel
  online, mine, members, said,   \* server: registered, our channels, who is in them
  naming,                        \* server: how far the NAMES reply of a JOIN is
  up, down,                      \* lines the session sends to and reads from the server
  events,                        \* so far
  left,                          \* history: channels the user or a kick closed
  blurred                        \* history: changed while its names were being listed

viewVars    == <<status, open, users, shown>>
serviceVars == <<announced, lobby, relay>>
clientVars  == <<wanted, outgoing>>
sessionVars == <<conn, roster, pendingNames, asked>>
serverVars  == <<online, mine, members, said, naming, blurred>>
chatVars ==
  <<viewVars, serviceVars, clientVars, sessionVars, updates, serverVars, up, down,
          events, left>>

Rank == {"absent", "plain", "op"}
Roster == [Nick -> Rank]
Nobody == [n \in Nick |-> "absent"]
NoRosters == [c \in Channel |-> Nobody]

ChatInit ==
  /\ status = "disconnected"
  /\ open = {}
  /\ users = NoRosters
  /\ shown = [c \in Channel |-> 0]
  /\ announced = {}
  /\ lobby = "waiting"
  /\ relay = "relaying"
  /\ wanted = {}
  /\ outgoing = <<>>
  /\ conn = "down"
  /\ roster = NoRosters
  /\ pendingNames = NoRosters
  /\ asked = {}
  /\ updates = <<>>
  /\ online = FALSE
  /\ mine = {}
  /\ \E ns \in SUBSET Nick :
       members = [c \in Channel |-> [n \in Nick |-> IF n \in ns THEN "plain" ELSE "absent"]]
  /\ said \in SUBSET Channel
  /\ naming = [c \in Channel |-> "no"]
  /\ up = <<>>
  /\ down = <<>>
  /\ events = 0
  /\ left = {}
  /\ blurred = {}

Bounded == events < MaxEvents /\ events' = events + 1

-----------------------------------------------------------------------------
(* The client's half of the chat port *)

Line(command, c) == [command |-> command, channel |-> c]

\* Wanted whether or not a line can be sent now; the JOIN echo opens the tab.
JoinChannels(cs) ==
  /\ wanted' = wanted \cup cs
  /\ outgoing' = outgoing \o SetToSeq({Line("JOIN", c) : c \in cs})

Join(c) ==
  /\ Bounded
  /\ JoinChannels({c})
  /\ left' = left \ {c}
  /\ UNCHANGED <<viewVars, serviceVars, sessionVars, updates, serverVars, up, down>>

\* The PART echo closes the tab.
Leave(c) ==
  /\ c \in open
  /\ Bounded
  /\ wanted' = wanted \ {c}
  /\ outgoing' = Append(outgoing, Line("PART", c))
  /\ left' = left \cup {c}
  /\ UNCHANGED <<viewVars, serviceVars, sessionVars, updates, serverVars, up, down>>

-----------------------------------------------------------------------------
(* The lobby service: the channels to join, as the server announces them *)

Announce ==
  /\ lobby = "waiting"
  /\ lobby' = "announced"
  /\ announced' = AutoJoin
  /\ UNCHANGED <<viewVars, relay, clientVars, sessionVars, updates, serverVars, up, down, events,
                 left>>

\* Mutant: the announcement is left for the chat service to act on.
JoinAnnouncedNever ==
  /\ lobby = "announced"
  /\ lobby' = "done"
  /\ UNCHANGED <<viewVars, clientVars, announced, relay, sessionVars, updates, serverVars, up,
                 down, events, left>>

\* Chat that connects later joins them itself.
JoinAnnounced ==
  /\ lobby = "announced"
  /\ lobby' = "done"
  /\ IF status = "connected" THEN JoinChannels(announced) ELSE UNCHANGED clientVars
  /\ UNCHANGED <<viewVars, announced, relay, sessionVars, updates, serverVars, up, down, events,
                 left>>

-----------------------------------------------------------------------------
(* The chat service applies the updates, one after the other *)

Update(type, c, n, to, rank, names) ==
  [type |-> type, channel |-> c, nick |-> n, to |-> to, rank |-> rank, names |-> names]

StatusUpdate(s) == Update(s, "none", "nobody", "nobody", "absent", Nobody)
ChannelUpdate(type, c) == Update(type, c, "nobody", "nobody", "absent", Nobody)
RosterUpdate(type, c, names) == Update(type, c, "nobody", "nobody", "absent", names)
PersonUpdate(type, c, n, rank) == Update(type, c, n, n, rank, Nobody)
RenameUpdate(type, n, to) == Update(type, "none", n, to, "absent", Nobody)

Renamed(r, old, new) ==
  IF r[old] = "absent" THEN r ELSE [r EXCEPT ![old] = "absent", ![new] = r[old]]

\* What an update makes of the rosters on screen.
UsersAfter(us, u) ==
  CASE u.type = "users"        -> [us EXCEPT ![u.channel] = u.names]
    [] u.type = "userJoined"   -> [us EXCEPT ![u.channel][u.nick] = "plain"]
    [] u.type = "userLeft"     -> [us EXCEPT ![u.channel][u.nick] = "absent"]
    [] u.type = "elevation"    -> [us EXCEPT ![u.channel][u.nick] =
                                     IF @ = "absent" THEN @ ELSE u.rank]
    [] u.type = "userRenamed"  -> [c \in Channel |-> Renamed(us[c], u.nick, u.to)]
    [] u.type = "channelLeft"  -> [us EXCEPT ![u.channel] = Nobody]
    [] u.type = "disconnected" -> NoRosters
    [] OTHER                   -> us

\* The rosters on screen once a queue of updates has been applied to them.
ScreenAfter(us, ups) ==
  LET after[i \in 0..Len(ups)] == IF i = 0 THEN us ELSE UsersAfter(after[i - 1], ups[i])
  IN  after[Len(ups)]

Opens == {"channelJoined", "users", "userJoined", "message"}

Relay ==
  /\ relay = "relaying"
  /\ updates # <<>>
  /\ LET u == Head(updates)
     IN  /\ users' = UsersAfter(users, u)
         /\ open' = IF u.type \in Opens THEN open \cup {u.channel}
                    ELSE IF u.type = "channelLeft" THEN open \ {u.channel}
                    ELSE open
         /\ shown' = IF u.type = "message" THEN [shown EXCEPT ![u.channel] = @ + 1] ELSE shown
         /\ status' = IF u.type \in {"connected", "disconnected"} THEN u.type ELSE status
         /\ relay' = IF u.type = "connected" THEN "joining" ELSE "relaying"
  /\ updates' = Tail(updates)
  /\ UNCHANGED <<announced, lobby, clientVars, sessionVars, serverVars, up, down, events, left>>

\* Having shown that it is connected it joins what has been announced.
JoinAuto ==
  /\ relay = "joining"
  /\ relay' = "relaying"
  /\ JoinChannels(announced)
  /\ UNCHANGED <<viewVars, announced, lobby, sessionVars, updates, serverVars, up, down, events,
                 left>>

-----------------------------------------------------------------------------
(* The supervisor and the session *)

\* A session starts from nothing.
Dial ==
  /\ conn = "down"
  /\ conn' = "up"
  /\ roster' = NoRosters
  /\ pendingNames' = NoRosters
  /\ asked' = {}
  /\ UNCHANGED <<viewVars, serviceVars, clientVars, updates, serverVars, up, down, events, left>>

ConnectionLost ==
  /\ conn = "up"
  /\ Bounded
  /\ conn' = "lost"
  /\ up' = <<>>
  /\ down' = <<>>
  /\ online' = FALSE
  /\ mine' = {}
  /\ naming' = [c \in Channel |-> "no"]
  /\ blurred' = {}
  /\ UNCHANGED <<viewVars, serviceVars, clientVars, roster, pendingNames, asked, updates, members,
                 said, left>>

ReportLost ==
  /\ conn = "lost"
  /\ Len(updates) < UpdateCap
  /\ conn' = "down"
  /\ updates' = Append(updates, StatusUpdate("disconnected"))
  /\ UNCHANGED <<viewVars, serviceVars, clientVars, roster, pendingNames, asked, serverVars, up,
                 down, events, left>>

Reads(type) ==
  /\ conn = "up"
  /\ down # <<>>
  /\ Head(down).type = type
  /\ Len(updates) < UpdateCap
  /\ down' = Tail(down)

Emits(us) == updates' = updates \o us

\* 001: every channel that is wanted now.
OnWelcome ==
  /\ Reads("welcome")
  /\ Emits(<<StatusUpdate("connected")>>)
  /\ up' = up \o SetToSeq({Line("JOIN", c) : c \in wanted})
  /\ UNCHANGED <<viewVars, serviceVars, clientVars, sessionVars, serverVars, events, left>>

\* Our own JOIN: the backfill is asked for once.
OnJoinMe ==
  /\ Reads("joinMe")
  /\ LET c == Head(down).channel
     IN  /\ Emits(<<ChannelUpdate("channelJoined", c)>>)
         /\ asked' = asked \cup {c}
         /\ up' = IF c \in asked THEN up ELSE Append(up, Line("CHATHISTORY", c))
  /\ UNCHANGED <<viewVars, serviceVars, clientVars, conn, roster, pendingNames, serverVars,
                 events, left>>

\* 353 collects, 366 replaces.
OnNames ==
  /\ Reads("names")
  /\ LET f == Head(down)
     IN  pendingNames' = [pendingNames EXCEPT ![f.channel] =
                       [n \in Nick |-> IF f.names[n] = "absent" THEN @[n] ELSE f.names[n]]]
  /\ UNCHANGED <<viewVars, serviceVars, clientVars, conn, roster, asked, updates, serverVars, up,
                 events, left>>

\* Mutant: the names collected are kept.
OnEndOfNamesKeeping ==
  /\ Reads("endOfNames")
  /\ LET c == Head(down).channel
     IN  /\ roster' = [roster EXCEPT ![c] = pendingNames[c]]
         /\ Emits(<<RosterUpdate("users", c, pendingNames[c])>>)
  /\ UNCHANGED <<viewVars, serviceVars, clientVars, conn, pendingNames, asked, serverVars, up,
                 events, left>>

OnEndOfNames ==
  /\ Reads("endOfNames")
  /\ LET c == Head(down).channel
     IN  /\ roster' = [roster EXCEPT ![c] = pendingNames[c]]
         /\ pendingNames' = [pendingNames EXCEPT ![c] = Nobody]
         /\ Emits(<<RosterUpdate("users", c, pendingNames[c])>>)
  /\ UNCHANGED <<viewVars, serviceVars, clientVars, conn, asked, serverVars, up, events, left>>

OnJoin ==
  /\ Reads("join")
  /\ LET f == Head(down)
     IN  /\ roster' = [roster EXCEPT ![f.channel][f.nick] = "plain"]
         /\ Emits(<<PersonUpdate("userJoined", f.channel, f.nick, "plain")>>)
  /\ UNCHANGED <<viewVars, serviceVars, clientVars, conn, pendingNames, asked, serverVars, up,
                 events, left>>

OnPart ==
  /\ Reads("part")
  /\ LET f == Head(down)
     IN  /\ roster' = [roster EXCEPT ![f.channel][f.nick] = "absent"]
         /\ Emits(<<PersonUpdate("userLeft", f.channel, f.nick, "absent")>>)
  /\ UNCHANGED <<viewVars, serviceVars, clientVars, conn, pendingNames, asked, serverVars, up,
                 events, left>>

\* Mutant: a channel that is left is not asked for its backfill again.
ForgetRosterOnly(c) ==
  /\ roster' = [roster EXCEPT ![c] = Nobody]
  /\ UNCHANGED asked

\* What is gathered about a channel we are out of.
Forget(c) ==
  /\ roster' = [roster EXCEPT ![c] = Nobody]
  /\ asked' = asked \ {c}

OnPartMe ==
  /\ Reads("partMe")
  /\ LET c == Head(down).channel
     IN  Forget(c) /\ Emits(<<ChannelUpdate("channelLeft", c)>>)
  /\ UNCHANGED <<viewVars, serviceVars, clientVars, conn, pendingNames, serverVars, up, events,
                 left>>

\* Mutant: a channel we were thrown out of stays wanted.
OnKickMeUnnoticed ==
  /\ Reads("kickMe")
  /\ LET c == Head(down).channel
     IN  /\ Forget(c)
         /\ left' = left \cup {c}
         /\ Emits(<<ChannelUpdate("channelLeft", c)>>)
  /\ UNCHANGED <<viewVars, serviceVars, clientVars, conn, pendingNames, serverVars, up, events>>

OnKickMe ==
  /\ Reads("kickMe")
  /\ LET c == Head(down).channel
     IN  /\ Forget(c)
         /\ wanted' = wanted \ {c}
         /\ left' = left \cup {c}
         /\ Emits(<<ChannelUpdate("channelLeft", c)>>)
  /\ UNCHANGED <<viewVars, serviceVars, outgoing, conn, pendingNames, serverVars, up, events>>

\* Mutant: the channels are looked for once the person is out of them.
ChannelsWithAfter(n) == {c \in Channel : roster'[c][n] # "absent"}

\* QUIT names no channel: those whose roster has the person.
ChannelsWith(n) == {c \in Channel : roster[c][n] # "absent"}

OnQuit ==
  /\ Reads("quit")
  /\ LET n == Head(down).nick
     IN  /\ roster' = [c \in Channel |-> [roster[c] EXCEPT ![n] = "absent"]]
         /\ Emits(SetToSeq({PersonUpdate("userLeft", c, n, "absent") : c \in ChannelsWith(n)}))
  /\ UNCHANGED <<viewVars, serviceVars, clientVars, conn, pendingNames, asked, serverVars, up,
                 events, left>>

OnNick ==
  /\ Reads("nick")
  /\ LET f == Head(down)
     IN  /\ roster' = [c \in Channel |-> Renamed(roster[c], f.nick, f.to)]
         /\ Emits(<<RenameUpdate("userRenamed", f.nick, f.to)>>)
  /\ UNCHANGED <<viewVars, serviceVars, clientVars, conn, pendingNames, asked, serverVars, up,
                 events, left>>

\* Somebody the roster does not have gets no rank in it.
OnMode ==
  /\ Reads("mode")
  /\ LET f == Head(down)
     IN  /\ roster' = [roster EXCEPT ![f.channel][f.nick] = IF @ = "absent" THEN @ ELSE f.rank]
         /\ Emits(<<PersonUpdate("elevation", f.channel, f.nick, f.rank)>>)
  /\ UNCHANGED <<viewVars, serviceVars, clientVars, conn, pendingNames, asked, serverVars, up,
                 events, left>>

OnMessage ==
  /\ Reads("message")
  /\ Emits(<<ChannelUpdate("message", Head(down).channel)>>)
  /\ UNCHANGED <<viewVars, serviceVars, clientVars, sessionVars, serverVars, up, events, left>>

Session ==
  \/ OnWelcome \/ OnJoinMe \/ OnNames \/ OnEndOfNames \/ OnJoin \/ OnPart
  \/ OnPartMe \/ OnKickMe \/ OnQuit \/ OnNick \/ OnMode \/ OnMessage

-----------------------------------------------------------------------------
(* The chat server, external *)

Says(fs) == down' = down \o fs

ServerWelcomes ==
  /\ conn = "up"
  /\ ~online
  /\ online' = TRUE
  /\ Says(<<StatusUpdate("welcome")>>)
  /\ UNCHANGED <<viewVars, serviceVars, clientVars, sessionVars, updates, mine, members, said,
                 naming, blurred, up, events, left>>

\* The next command to reach the server: what the session has sent, then the
\* lines the client queued, which go out in whatever state the login is.
Commands == up \o outgoing

\* One command after the other, those of a client it does not know yet for
\* nothing.
ServerTakes(command) ==
  /\ conn = "up"
  /\ Commands # <<>>
  /\ Head(Commands).command = command
  /\ \A c \in Channel : naming[c] = "no"
  /\ IF up # <<>> THEN up' = Tail(up) /\ UNCHANGED outgoing
                  ELSE outgoing' = Tail(outgoing) /\ UNCHANGED up
  /\ UNCHANGED <<viewVars, serviceVars, wanted, sessionVars, updates, members, said, events, left,
                 online>>

Ignores(c) == ~online \/ c \notin mine

ServerTakesJoin ==
  /\ ServerTakes("JOIN")
  /\ LET c == Head(Commands).channel
     IN  IF ~online \/ c \in mine THEN UNCHANGED <<mine, naming, blurred, down>>
         ELSE /\ mine' = mine \cup {c}
              /\ naming' = [naming EXCEPT ![c] = "names"]
              /\ blurred' = blurred \ {c}
              /\ Says(<<ChannelUpdate("joinMe", c)>>)

ServerTakesPart ==
  /\ ServerTakes("PART")
  /\ LET c == Head(Commands).channel
     IN  IF Ignores(c) THEN UNCHANGED <<mine, down>>
         ELSE mine' = mine \ {c} /\ Says(<<ChannelUpdate("partMe", c)>>)
  /\ UNCHANGED <<naming, blurred>>

ServerTakesHistory ==
  /\ ServerTakes("CHATHISTORY")
  /\ LET c == Head(Commands).channel
     IN  IF Ignores(c) \/ c \notin said THEN UNCHANGED down
         ELSE Says(<<ChannelUpdate("message", c)>>)
  /\ UNCHANGED <<mine, naming, blurred>>

ServerNames(c) ==
  /\ naming[c] = "names"
  /\ naming' = [naming EXCEPT ![c] = "end"]
  /\ Says(<<RosterUpdate("names", c, members[c])>>)
  /\ UNCHANGED <<viewVars, serviceVars, clientVars, sessionVars, updates, online, mine, members,
                 said, blurred, up, events, left>>

ServerEndsNames(c) ==
  /\ naming[c] = "end"
  /\ naming' = [naming EXCEPT ![c] = "no"]
  /\ Says(<<ChannelUpdate("endOfNames", c)>>)
  /\ UNCHANGED <<viewVars, serviceVars, clientVars, sessionVars, updates, online, mine, members,
                 said, blurred, up, events, left>>

\* Something happens in channels cs: those who are in one of them are told.
Happens(cs, f) ==
  /\ Bounded
  /\ blurred' = blurred \cup {c \in cs \cap mine : naming[c] = "end"}
  /\ IF cs \cap mine = {} THEN UNCHANGED down ELSE Says(<<f>>)
  /\ UNCHANGED <<viewVars, serviceVars, clientVars, sessionVars, updates, online, naming, up,
                 left>>

ChannelsOf(n) == {c \in Channel : members[c][n] # "absent"}

OtherJoins(n, c) ==
  /\ members[c][n] = "absent"
  /\ members' = [members EXCEPT ![c][n] = "plain"]
  /\ Happens({c}, PersonUpdate("join", c, n, "plain"))
  /\ UNCHANGED <<mine, said>>

OtherParts(n, c) ==
  /\ members[c][n] # "absent"
  /\ members' = [members EXCEPT ![c][n] = "absent"]
  /\ Happens({c}, PersonUpdate("part", c, n, "absent"))
  /\ UNCHANGED <<mine, said>>

OtherQuits(n) ==
  /\ ChannelsOf(n) # {}
  /\ members' = [c \in Channel |-> [members[c] EXCEPT ![n] = "absent"]]
  /\ Happens(ChannelsOf(n), PersonUpdate("quit", "none", n, "absent"))
  /\ UNCHANGED <<mine, said>>

OtherRenames(n, m) ==
  /\ ChannelsOf(n) # {}
  /\ ChannelsOf(m) = {}
  /\ n # m
  /\ members' = [c \in Channel |-> Renamed(members[c], n, m)]
  /\ Happens(ChannelsOf(n), RenameUpdate("nick", n, m))
  /\ UNCHANGED <<mine, said>>

OtherIsOpped(n, c) ==
  /\ members[c][n] = "plain"
  /\ members' = [members EXCEPT ![c][n] = "op"]
  /\ Happens({c}, PersonUpdate("mode", c, n, "op"))
  /\ UNCHANGED <<mine, said>>

OtherSpeaks(c) ==
  /\ c \notin said
  /\ said' = said \cup {c}
  /\ Happens({c}, ChannelUpdate("message", c))
  /\ UNCHANGED <<mine, members>>

KicksMe(c) ==
  /\ c \in mine
  /\ naming[c] = "no"
  /\ mine' = mine \ {c}
  /\ Happens({c}, ChannelUpdate("kickMe", c))
  /\ UNCHANGED <<members, said>>

Server ==
  \/ ServerWelcomes \/ ServerTakesJoin \/ ServerTakesPart \/ ServerTakesHistory
  \/ \E c \in Channel : ServerNames(c) \/ ServerEndsNames(c)

Others ==
  \E c \in Channel :
    \/ OtherSpeaks(c) \/ KicksMe(c)
    \/ \E n \in Nick : OtherJoins(n, c) \/ OtherParts(n, c) \/ OtherIsOpped(n, c)

-----------------------------------------------------------------------------

ChatNext ==
  \/ \E c \in Channel : Join(c) \/ Leave(c)
  \/ Announce \/ JoinAnnounced \/ Relay \/ JoinAuto
  \/ Dial \/ ConnectionLost \/ ReportLost \/ Session
  \/ Server \/ Others
  \/ \E n \in Nick : OtherQuits(n) \/ \E m \in Nick : OtherRenames(n, m)

ChatSpec == ChatInit /\ [][ChatNext]_chatVars

-----------------------------------------------------------------------------

\* What an update or a line of the server may carry: all but a few are about a
\* channel, some about a person.
Carrying(types, everywhere, people) ==
  {u \in [type : types, channel : Channel \cup {"none"}, nick : Nick \cup {"nobody"},
          to : Nick \cup {"nobody"}, rank : Rank, names : Roster] :
     /\ u.type \notin everywhere => u.channel \in Channel
     /\ u.type \in people => u.nick \in Nick /\ u.to \in Nick}

ChatUpdate ==
  Carrying({"connected", "disconnected", "channelJoined", "channelLeft", "users", "userJoined",
           "userLeft", "elevation", "userRenamed", "message"},
          {"connected", "disconnected", "userRenamed"},
          {"userJoined", "userLeft", "elevation", "userRenamed"})

ServerLine ==
  Carrying({"welcome", "joinMe", "names", "endOfNames", "join", "part", "partMe", "kickMe", "quit",
           "nick", "mode", "message"},
          {"welcome", "quit", "nick"},
          {"join", "part", "quit", "nick", "mode"})

Command == [command : {"JOIN", "PART", "CHATHISTORY"}, channel : Channel]

ChatTypeOK ==
  /\ status \in {"connected", "disconnected"}
  /\ open \subseteq Channel
  /\ users \in [Channel -> Roster]
  /\ \A c \in Channel \ open : users[c] = Nobody
  /\ shown \in [Channel -> Nat]
  /\ announced \subseteq AutoJoin
  /\ lobby \in {"waiting", "announced", "done"}
  /\ relay \in {"relaying", "joining"}
  /\ wanted \subseteq Channel
  /\ outgoing \in Seq(Command)
  /\ conn \in {"down", "up", "lost"}
  /\ roster \in [Channel -> Roster]
  /\ pendingNames \in [Channel -> Roster]
  /\ asked \subseteq Channel
  /\ updates \in Seq(ChatUpdate)
  /\ Len(updates) <= UpdateCap + Cardinality(Channel)
  /\ online \in BOOLEAN
  /\ mine \subseteq Channel /\ blurred \subseteq Channel
  /\ members \in [Channel -> Roster]
  /\ said \subseteq Channel /\ left \subseteq Channel
  /\ naming \in [Channel -> {"no", "names", "end"}]
  /\ up \in Seq(Command) /\ down \in Seq(ServerLine)
  /\ events \in 0..MaxEvents

\* Every line has reached its end, and everybody is done with it.
Settled ==
  /\ conn = "up" /\ online
  /\ up = <<>> /\ down = <<>> /\ outgoing = <<>> /\ updates = <<>>
  /\ relay = "relaying" /\ lobby # "announced"
  /\ \A c \in Channel : naming[c] = "no"

\* What the screen shows, with the updates that are still on their way, is the
\* roster the session has: a QUIT reaches every channel the person was in, and
\* nothing of a lost connection is left over.
ScreenFollowsSession ==
  conn = "up" => ScreenAfter(users, updates) = roster

\* Once settled, the rosters on screen are those of the server, in every
\* channel where nothing happened while its names were being listed.
ScreenFollowsServer == Settled => \A c \in mine \ blurred : users[c] = members[c]

\* Every channel that is wanted is joined once settled, whether its JOIN came
\* before the login was through, was lost with a connection or follows a kick.
WantedIsJoined == Settled => wanted \subseteq mine

\* "The lobby socket and the IRC connection come up independently and in either
\* order" (state/chat.rs): the channels announced are joined in both.
AnnouncedIsJoined == Settled => announced \ left \subseteq mine

\* A message of a channel we are in is shown once settled, said before we came,
\* while we were away, or between the echo and the backfill.
NothingIsMissed == Settled => \A c \in mine \cap said : shown[c] > 0

-----------------------------------------------------------------------------
(* Refuted *)

\* "A rejoin must not duplicate the backfill" (irc_session.rs): the set that
\* prevents it forgets a channel that is left, and a session is born without,
\* while the tab keeps its messages.
NoMessageTwice == \A c \in Channel : shown[c] <= 1

\* "rather than trapping a tab open on a dead connection" (infra/irc.rs): a
\* PART that is lost, or sent before the login is through, is never echoed,
\* and the tab stays open on a channel we are not in.
OpenIsJoined == Settled => open \subseteq mine

\* 366 replaces the roster by the names collected: whoever came or went since
\* they were listed is missing, or a ghost.
RosterIsExact == Settled => \A c \in mine : users[c] = members[c]

\* A channel we are in is one the next connection joins again: a JOIN given
\* while the line that tells of a kick is on its way is forgotten with it.
JoinedIsWanted == Settled => mine \subseteq wanted
=============================================================================
