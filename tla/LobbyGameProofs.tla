--------------------------- MODULE LobbyGameProofs ---------------------------
(***************************************************************************)
(* What holds of the lobby service and the launcher however many commands, *)
(* launches, drops and cancels there are.                                  *)
(*                                                                         *)
(* The invariant has three layers. Tasks says what each kind of task may   *)
(* be at and may still have to do, and that one Connect task at most is in *)
(* its loop. Games rests on it: a child in the slot has a watcher or is    *)
(* about to have one, so the poll that empties the slot wakes somebody who *)
(* stops the adapter and ends the game on screen. Joins rests on it too: a *)
(* join on screen has somebody at work on it, and the connection is opened *)
(* only by the loop, when nothing of the previous one is left.             *)
(*                                                                         *)
(* Most actions only move one task to another label with another script;   *)
(* one lemma (PlainMove) covers them, and the others have a lemma each.    *)
(***************************************************************************)
EXTENDS LobbyGame, TLAPS

-----------------------------------------------------------------------------
(* Scripts: the effects a task has still to perform *)

Effects(s) == {s[i].do : i \in DOMAIN s}

\* A kill and the end of a loop come first, the connection last; a kill is
\* followed by what stops the adapter and ends the game on screen.
Shape(s) ==
  /\ \A i \in DOMAIN s : s[i].do \in {"kill", "finishLobby"} => i = 1 /\ s[i] = Do(s[i].do)
  /\ \A i \in DOMAIN s : s[i].do = "portConnect" => i = Len(s)
  /\ "kill" \in Effects(s) => {"iceStop", "GameTerminated"} \subseteq Effects(s)

Script(s, does) == s \in Seq(Effect) /\ Effects(s) = does /\ Shape(s)

LEMMA Nothing == Script(<<>>, {})
BY DEF Script, Effects, Shape

LEMMA One ==
  ASSUME NEW x \in Effect, x.do # "kill", x.do = "finishLobby" => x = Do("finishLobby")
  PROVE  Script(<<x>>, {x.do})
BY DEF Script, Effects, Shape

LEMMA Two ==
  ASSUME NEW x \in Effect, NEW y \in Effect,
         x.do \notin {"kill", "finishLobby", "portConnect"}, y.do \notin {"kill", "finishLobby"}
  PROVE  Script(<<x, y>>, {x.do, y.do})
<1> DEFINE s == <<x, y>>
<1>1. s \in Seq(Effect) /\ Len(s) = 2 /\ DOMAIN s = {1, 2} /\ s[1] = x /\ s[2] = y
  OBVIOUS
<1> HIDE DEF s
<1>2. Effects(s) = {x.do, y.do}
  BY <1>1 DEF Effects
<1>3. Shape(s)
  BY <1>1, <1>2 DEF Shape
<1>4. QED
  BY <1>1, <1>2, <1>3 DEF Script, s

LEMMA Three ==
  ASSUME NEW x \in Effect, NEW y \in Effect, NEW z \in Effect,
         x.do \notin {"kill", "portConnect"}, x.do = "finishLobby" => x = Do("finishLobby"),
         y.do \notin {"kill", "finishLobby", "portConnect"}, z.do \notin {"kill", "finishLobby"}
  PROVE  Script(<<x, y, z>>, {x.do, y.do, z.do})
<1> DEFINE s == <<x, y, z>>
<1>1. /\ s \in Seq(Effect)
      /\ Len(s) = 3
      /\ DOMAIN s = {1, 2, 3}
      /\ s[1] = x
      /\ s[2] = y
      /\ s[3] = z
  OBVIOUS
<1> HIDE DEF s
<1>2. Effects(s) = {x.do, y.do, z.do}
  BY <1>1 DEF Effects
<1>3. Shape(s)
  BY <1>1, <1>2 DEF Shape
<1>4. QED
  BY <1>1, <1>2, <1>3 DEF Script, s

LEMMA Four ==
  ASSUME NEW w \in Effect, NEW x \in Effect, NEW y \in Effect, NEW z \in Effect,
         w.do \notin {"finishLobby", "portConnect"},
         w.do = "kill" => w = Do("kill") /\ x.do = "iceStop" /\ z.do = "GameTerminated",
         \A e \in {x, y, z} : e.do \notin {"kill", "finishLobby", "portConnect"}
  PROVE  Script(<<w, x, y, z>>, {w.do, x.do, y.do, z.do})
<1> DEFINE s == <<w, x, y, z>>
<1>1. s \in Seq(Effect) /\ Len(s) = 4 /\ DOMAIN s = {1, 2, 3, 4}
  OBVIOUS
<1>2. s[1] = w /\ s[2] = x /\ s[3] = y /\ s[4] = z
  OBVIOUS
<1> HIDE DEF s
<1>3. Effects(s) = {w.do, x.do, y.do, z.do}
  BY <1>1, <1>2 DEF Effects
<1>4. Shape(s)
  BY <1>1, <1>2, <1>3 DEF Shape
<1>5. QED
  BY <1>1, <1>3, <1>4 DEF Script, s

LEMMA DoIsEffect ==
  /\ \A what \in EventName \cup CallName :
       Do(what) \in Effect /\ Do(what).do = what
  /\ \A what \in EventName \cup CallName, id \in GameId \cup {None} :
       DoFor(what, id) \in Effect /\ DoFor(what, id).do = what
BY DEF Do, DoFor, Effect

LEMMA Names ==
  {"clear", "cancel", "finishJoin", "finishLobby", "kill", "iceStop", "portConnect",
   "portDisconnect", "Joining", "JoiningPrepared", "Launched", "Preparing", "InGame",
   "NeedsModReplacement", "Failed", "LaunchFailed", "JoinCancelled", "GameTerminated",
   "Connecting", "Connected", "Disconnected"} \subseteq EventName \cup CallName
BY DEF EventName, CallName, JoinPhase

LEMMA TerminateScript == Script(Terminate, {"kill", "iceStop", "finishJoin", "GameTerminated"})
<1>1. /\ Do("kill") \in Effect /\ Do("iceStop") \in Effect
      /\ Do("finishJoin") \in Effect /\ Do("GameTerminated") \in Effect
      /\ Do("kill").do = "kill" /\ Do("iceStop").do = "iceStop"
      /\ Do("finishJoin").do = "finishJoin" /\ Do("GameTerminated").do = "GameTerminated"
  BY DoIsEffect, Names
<1>2. Script(<<Do("kill"), Do("iceStop"), Do("finishJoin"), Do("GameTerminated")>>,
             {Do("kill").do, Do("iceStop").do, Do("finishJoin").do, Do("GameTerminated").do})
  BY <1>1, Four
<1>3. QED
  BY <1>1, <1>2 DEF Terminate

\* One effect more before or after a script without kills, ends and connections.
Plain(does) == does \cap {"kill", "finishLobby", "portConnect"} = {}

LEMMA Longer ==
  ASSUME NEW s, NEW does, Script(s, does), Plain(does), NEW x \in Effect, Plain({x.do})
  PROVE  Script(<<x>> \o s, does \cup {x.do}) /\ Script(Append(s, x), does \cup {x.do})
<1>1. ASSUME NEW q \in Seq(Effect), Effects(q) = does \cup {x.do}
      PROVE  Script(q, does \cup {x.do})
  <2>1. \A i \in DOMAIN q : q[i].do \notin {"kill", "finishLobby", "portConnect"}
    BY <1>1 DEF Effects, Plain
  <2>2. QED
    BY <1>1, <2>1 DEF Script, Shape, Plain
<1>2. /\ s \in Seq(Effect) /\ Len(s) \in Nat /\ DOMAIN s = 1..Len(s)
      /\ Effects(s) = does
  BY DEF Script
<1>3. Script(<<x>> \o s, does \cup {x.do})
  <2> DEFINE q == <<x>> \o s
  <2>1. /\ q \in Seq(Effect) /\ DOMAIN q = 1..(Len(s) + 1) /\ q[1] = x
        /\ \A i \in 1..Len(s) : q[i + 1] = s[i]
    BY <1>2
  <2> HIDE DEF q
  <2>2. \A j \in DOMAIN q : j = 1 \/ (j - 1 \in DOMAIN s /\ q[j] = s[j - 1])
    BY <1>2, <2>1
  <2>3. \A i \in DOMAIN s : i + 1 \in DOMAIN q /\ q[i + 1] = s[i]
    BY <1>2, <2>1
  <2>4. 1 \in DOMAIN q
    BY <1>2, <2>1
  <2>5. Effects(q) = does \cup {x.do}
    BY <1>2, <2>1, <2>2, <2>3, <2>4 DEF Effects
  <2>6. QED
    BY <1>1, <2>1, <2>5 DEF q
<1>4. Script(Append(s, x), does \cup {x.do})
  <2> DEFINE q == Append(s, x)
  <2>1. /\ q \in Seq(Effect) /\ DOMAIN q = 1..(Len(s) + 1) /\ q[Len(s) + 1] = x
        /\ \A i \in 1..Len(s) : q[i] = s[i]
    BY <1>2
  <2> HIDE DEF q
  <2>2. \A j \in DOMAIN q : j = Len(s) + 1 \/ (j \in DOMAIN s /\ q[j] = s[j])
    BY <1>2, <2>1
  <2>3. \A i \in DOMAIN s : i \in DOMAIN q /\ q[i] = s[i]
    BY <1>2, <2>1
  <2>4. Len(s) + 1 \in DOMAIN q
    BY <1>2, <2>1
  <2>5. Effects(q) = does \cup {x.do}
    BY <1>2, <2>1, <2>2, <2>3, <2>4 DEF Effects
  <2>6. QED
    BY <1>1, <2>1, <2>5 DEF q
<1>5. QED
  BY <1>3, <1>4

LEMMA FailureScripts ==
  /\ Script(ReportFailure, {"iceStop", "LaunchFailed"})
  /\ Script(LaunchFailure, {"iceStop", "LaunchFailed", "finishJoin"})
  /\ Script(<<Do("finishJoin")>> \o ReportFailure, {"finishJoin", "iceStop", "LaunchFailed"})
  /\ Script(<<Do("iceStop")>> \o LaunchFailure, {"iceStop", "LaunchFailed", "finishJoin"})
  /\ \A id \in GameId \cup {None} :
       Script(<<DoFor("Launched", id)>> \o LaunchFailure,
              {"Launched", "iceStop", "LaunchFailed", "finishJoin"})
<1>1. Script(ReportFailure, {"iceStop", "LaunchFailed"})
  BY Two, DoIsEffect, Names DEF ReportFailure
<1>2. /\ Do("finishJoin") \in Effect /\ Do("finishJoin").do = "finishJoin"
      /\ Do("iceStop") \in Effect /\ Do("iceStop").do = "iceStop"
  BY DoIsEffect, Names
<1>3. /\ Plain({"iceStop", "LaunchFailed"}) /\ Plain({"finishJoin"}) /\ Plain({"iceStop"})
      /\ Plain({"Launched"}) /\ Plain({"iceStop", "LaunchFailed", "finishJoin"})
  BY DEF Plain
<1>4. Script(LaunchFailure, {"iceStop", "LaunchFailed", "finishJoin"})
  <2>1. Script(Append(ReportFailure, Do("finishJoin")), {"iceStop", "LaunchFailed"} \cup {"finishJoin"})
    BY <1>1, <1>2, <1>3, Longer
  <2>2. {"iceStop", "LaunchFailed"} \cup {"finishJoin"} = {"iceStop", "LaunchFailed", "finishJoin"}
    OBVIOUS
  <2>3. QED
    BY <2>1, <2>2 DEF LaunchFailure
<1>5. Script(<<Do("finishJoin")>> \o ReportFailure, {"finishJoin", "iceStop", "LaunchFailed"})
  <2>1. Script(<<Do("finishJoin")>> \o ReportFailure, {"iceStop", "LaunchFailed"} \cup {"finishJoin"})
    BY <1>1, <1>2, <1>3, Longer
  <2>2. {"iceStop", "LaunchFailed"} \cup {"finishJoin"} = {"finishJoin", "iceStop", "LaunchFailed"}
    OBVIOUS
  <2>3. QED
    BY <2>1, <2>2
<1>6. Script(<<Do("iceStop")>> \o LaunchFailure, {"iceStop", "LaunchFailed", "finishJoin"})
  <2>1. Script(<<Do("iceStop")>> \o LaunchFailure,
               {"iceStop", "LaunchFailed", "finishJoin"} \cup {"iceStop"})
    BY <1>2, <1>3, <1>4, Longer
  <2>2. {"iceStop", "LaunchFailed", "finishJoin"} \cup {"iceStop"}
          = {"iceStop", "LaunchFailed", "finishJoin"}
    OBVIOUS
  <2>3. QED
    BY <2>1, <2>2
<1>7. ASSUME NEW id \in GameId \cup {None}
      PROVE  Script(<<DoFor("Launched", id)>> \o LaunchFailure,
                    {"Launched", "iceStop", "LaunchFailed", "finishJoin"})
  <2>1. DoFor("Launched", id) \in Effect /\ DoFor("Launched", id).do = "Launched"
    BY DoIsEffect, Names
  <2>2. Script(<<DoFor("Launched", id)>> \o LaunchFailure,
               {"iceStop", "LaunchFailed", "finishJoin"} \cup {"Launched"})
    BY <1>3, <1>4, <2>1, Longer
  <2>3. {"iceStop", "LaunchFailed", "finishJoin"} \cup {"Launched"}
          = {"Launched", "iceStop", "LaunchFailed", "finishJoin"}
    OBVIOUS
  <2>4. QED
    BY <2>2, <2>3
<1>8. QED
  BY <1>1, <1>4, <1>5, <1>6, <1>7

\* The single effects, and the short scripts of the commands and handlers.
LEMMA ShortScripts ==
  /\ \A what \in {"Preparing", "clear", "JoinCancelled", "Connected", "Connecting",
                  "portDisconnect", "finishJoin"} : Script(<<Do(what)>>, {what})
  /\ Script(<<Do("finishJoin"), Do("JoinCancelled")>>, {"finishJoin", "JoinCancelled"})
  /\ Script(<<Do("cancel"), Do("finishJoin"), Do("JoinCancelled")>>,
            {"cancel", "finishJoin", "JoinCancelled"})
  /\ Script(Disconnect, {"JoinCancelled", "portDisconnect", "finishJoin"})
  /\ Script(<<Do("Connecting"), Do("portConnect")>>, {"Connecting", "portConnect"})
  /\ Script(<<Do("finishLobby"), Do("finishJoin"), Do("Disconnected")>>,
            {"finishLobby", "finishJoin", "Disconnected"})
  /\ Script(<<Do("iceStop"), Do("finishJoin")>>, {"iceStop", "finishJoin"})
  /\ \A n \in Launch : Script(Woken(n), {"iceStop", "GameTerminated"})
  /\ \A id \in GameId \cup {None} :
       /\ \A what \in {"Joining", "JoiningPrepared"} : Script(<<DoFor(what, id)>>, {what})
       /\ \A what \in {"Failed", "NeedsModReplacement"} :
            Script(<<Do("finishJoin"), DoFor(what, id)>>, {"finishJoin", what})
       /\ Script(<<DoFor("Launched", id), Do("clear")>>, {"Launched", "clear"})
<1> USE DoIsEffect, Names
<1>1. \A what \in {"Preparing", "clear", "JoinCancelled", "Connected", "Connecting",
                   "portDisconnect", "finishJoin"} : Script(<<Do(what)>>, {what})
  BY One
<1>2. /\ Script(<<Do("finishJoin"), Do("JoinCancelled")>>, {"finishJoin", "JoinCancelled"})
      /\ Script(<<Do("Connecting"), Do("portConnect")>>, {"Connecting", "portConnect"})
      /\ Script(<<Do("iceStop"), Do("finishJoin")>>, {"iceStop", "finishJoin"})
      /\ \A n \in Launch : Script(Woken(n), {"iceStop", "GameTerminated"})
  BY Two DEF Woken
<1>3. /\ Script(<<Do("cancel"), Do("finishJoin"), Do("JoinCancelled")>>,
                {"cancel", "finishJoin", "JoinCancelled"})
      /\ Script(Disconnect, {"JoinCancelled", "portDisconnect", "finishJoin"})
      /\ Script(<<Do("finishLobby"), Do("finishJoin"), Do("Disconnected")>>,
                {"finishLobby", "finishJoin", "Disconnected"})
  BY Three DEF Disconnect
<1>4. ASSUME NEW id \in GameId \cup {None}
      PROVE  /\ \A what \in {"Joining", "JoiningPrepared"} : Script(<<DoFor(what, id)>>, {what})
             /\ \A what \in {"Failed", "NeedsModReplacement"} :
                  Script(<<Do("finishJoin"), DoFor(what, id)>>, {"finishJoin", what})
             /\ Script(<<DoFor("Launched", id), Do("clear")>>, {"Launched", "clear"})
  BY One, Two
<1>5. QED
  BY <1>1, <1>2, <1>3, <1>4

\* A script whose first effect is performed.
LEMMA Performed ==
  ASSUME NEW s \in Seq(Effect), s # <<>>, Shape(s)
  PROVE  /\ Head(s) \in Effect /\ Tail(s) \in Seq(Effect) /\ Shape(Tail(s))
         /\ Effects(s) = {Head(s).do} \cup Effects(Tail(s))
         /\ Effects(Tail(s)) \cap {"kill", "finishLobby"} = {}
         /\ Head(s).do = "portConnect" => Tail(s) = <<>>
<1> DEFINE r == Tail(s)
<1>1. /\ Len(s) \in Nat \ {0} /\ DOMAIN s = 1..Len(s) /\ Head(s) = s[1] /\ Head(s) \in Effect
      /\ r \in Seq(Effect) /\ Len(r) = Len(s) - 1 /\ DOMAIN r = 1..(Len(s) - 1)
      /\ \A i \in 1..(Len(s) - 1) : r[i] = s[i + 1]
  OBVIOUS
<1> HIDE DEF r
<1>2. \A i \in DOMAIN r : i + 1 \in DOMAIN s /\ i + 1 # 1 /\ r[i] = s[i + 1]
  BY <1>1
<1>3. \A j \in DOMAIN s : j = 1 \/ (j - 1 \in DOMAIN r /\ s[j] = r[j - 1])
  BY <1>1
<1>4. Effects(s) = {Head(s).do} \cup Effects(r)
  <2>1. Effects(r) \subseteq Effects(s) /\ Head(s).do \in Effects(s)
    BY <1>1, <1>2 DEF Effects
  <2>2. Effects(s) \subseteq {Head(s).do} \cup Effects(r)
    BY <1>1, <1>3 DEF Effects
  <2>3. QED
    BY <2>1, <2>2
<1>5. Effects(r) \cap {"kill", "finishLobby"} = {}
  BY <1>2 DEF Effects, Shape
<1>6. Shape(r)
  <2>1. \A i \in DOMAIN r : r[i].do \notin {"kill", "finishLobby"}
    BY <1>2 DEF Shape
  <2>2. \A i \in DOMAIN r : r[i].do = "portConnect" => i = Len(r)
    BY <1>1, <1>2 DEF Shape
  <2>3. QED
    BY <1>5, <2>1, <2>2 DEF Shape
<1>7. Head(s).do = "portConnect" => r = <<>>
  BY <1>1 DEF Shape
<1>8. QED
  BY <1>1, <1>4, <1>5, <1>6, <1>7 DEF r

-----------------------------------------------------------------------------
(* Kinds of tasks and what each may be at *)

LEMMA KindsDiffer ==
  \A a \in Task :
    /\ a \in JoinTask => a \notin HostTask \cup UserTask \cup ConnectTask \cup Launch
    /\ a \in HostTask => a \notin JoinTask \cup UserTask \cup ConnectTask \cup Launch
    /\ a \in UserTask => a \notin JoinTask \cup HostTask \cup ConnectTask \cup Launch
    /\ a \in ConnectTask => a \notin JoinTask \cup HostTask \cup UserTask \cup Launch
    /\ a \in Launch => a \notin JoinTask \cup HostTask \cup UserTask \cup ConnectTask
<1> DEFINE Kind == <<JoinTask, HostTask, UserTask, ConnectTask, Launch>>
<1>1. \A i, j \in 1..5 : i # j => Kind[i] \cap Kind[j] = {}
  BY TasksDiffer
<1>2. /\ Kind[1] = JoinTask /\ Kind[2] = HostTask /\ Kind[3] = UserTask
      /\ Kind[4] = ConnectTask /\ Kind[5] = Launch
  OBVIOUS
<1> HIDE DEF Kind
<1>3. /\ Kind[1] \cap Kind[2] = {} /\ Kind[1] \cap Kind[3] = {} /\ Kind[1] \cap Kind[4] = {}
      /\ Kind[1] \cap Kind[5] = {} /\ Kind[2] \cap Kind[3] = {} /\ Kind[2] \cap Kind[4] = {}
      /\ Kind[2] \cap Kind[5] = {} /\ Kind[3] \cap Kind[4] = {} /\ Kind[3] \cap Kind[5] = {}
      /\ Kind[4] \cap Kind[5] = {}
  BY <1>1
<1>4. QED
  BY <1>2, <1>3

JoinLabel == {"new", "status", "find", "prepare", "prepared", "mods", "check", "recheck", "send",
              "sent", "done"}
HostLabel == {"new", "prepare", "prepared", "send", "sent", "done"}
UserLabel == {"new", "cancel", "startReplay", "replaying", "done"}
Starting == {"spawn", "start", "replace", "announce"}
InLaunch == {"prepare", "prepared", "check", "ice"} \cup Starting
ConnectLabel == {"new", "recv"} \cup InLaunch
LaunchLabel == {"new", "ordered", "waiting", "done"}

Labels ==
  /\ \A t \in JoinTask : pc[t] \in JoinLabel
  /\ \A t \in HostTask : pc[t] \in HostLabel
  /\ \A t \in UserTask : pc[t] \in UserLabel
  /\ \A t \in ConnectTask : pc[t] \in ConnectLabel
  /\ \A t \in Launch : pc[t] \in LaunchLabel

\* What is left to do has the shape of a script, and what only some tasks may
\* do is in no other task's script.
Scripted(a) ==
  /\ Shape(todo[a])
  /\ "InGame" \notin Effects(todo[a])
  /\ "finishLobby" \in Effects(todo[a]) => a \in ConnectTask /\ pc[a] = "new"
  /\ "portConnect" \in Effects(todo[a]) => a \in ConnectTask /\ pc[a] = "recv"
  /\ \A what \in {"Joining", "JoiningPrepared"} :
       what \in Effects(todo[a]) => a \in JoinTask /\ pc[a] \in {"find", "recheck"}
Scripts == \A a \in Task : Scripted(a)

\* One Connect task is in its loop or about to release it, while the flag says so.
InLoop(c) == pc[c] # "new" \/ "finishLobby" \in Effects(todo[c])
OneLoop ==
  /\ \A c, d \in ConnectTask : InLoop(c) /\ InLoop(d) => c = d
  /\ (\E c \in ConnectTask : InLoop(c)) <=> lobbyActive

\* A launch order has its launch.
LaunchKnown ==
  /\ \A c \in ConnectTask : pc[c] \in InLaunch => order[c].launch # None
  /\ \A i \in DOMAIN updates : updates[i].kind = "Launch" => updates[i].launch # None

Tasks == TypeOK /\ Labels /\ Scripts /\ OneLoop /\ LaunchKnown

-----------------------------------------------------------------------------
(* Games, cancels and joins *)

Due(what) == \E a \in Task : what \in Effects(todo[a])

\* A child in the slot has a watcher, or is about to have one.
Watched ==
  /\ slot # None => \/ \E n \in Launch : pc[n] = "waiting"
                    \/ \E c \in ConnectTask : pc[c] = "announce"
  /\ \A n \in Launch : pc[n] = "waiting" => n \in poller

\* The adapter serves a game, is about to, or is about to be stopped.
Served ==
  ice # None => \/ slot # None
                \/ \E c \in ConnectTask : pc[c] \in Starting
                \/ Due("iceStop")
                \/ \E n \in Launch : pc[n] = "waiting"

\* A launch is shown as one until its game is announced.
NotYetInGame ==
  \A c \in ConnectTask :
    pc[c] \in InLaunch /\ join.phase = "InGame" =>
      pc[c] # "announce" /\ "Launched" \in Effects(todo[c])

Backed ==
  join.phase = "InGame" => slot # None \/ Due("GameTerminated") \/ \E n \in Launch : pc[n] = "waiting"

Games == NoOrphanGame /\ Watched /\ Served /\ NotYetInGame /\ Backed

\* A join that was called off finds the flag set, wherever it is, unless the
\* flag was cleared since.
CallingOff ==
  \A t \in calledOff \cap JoinTask :
    t \notin revived => joinCancelled /\ pc[t] \in InPreparation \cup {"done"}

\* The connection is the loop's, and is new when it is opened.
Linked ==
  /\ stream # "closed" \/ updates # <<>> => \E c \in ConnectTask : pc[c] # "new"
  /\ stream = "closed" => ~port /\ outgoing = <<>>
  /\ Due("portConnect") => stream = "closed" /\ updates = <<>>

\* What takes a join off the screen, or on to its launch.
EndsJoining == {"Connecting", "Disconnected", "GameTerminated", "JoinCancelled", "Failed",
                "NeedsModReplacement", "LaunchFailed", "Launched", "Preparing"}
WorksOnJoin == {"status", "find", "prepare", "prepared", "mods", "check", "recheck", "send"}
EndingUpdate == {"JoinFailed", "Launch", "Reconnecting", "Kill"}

\* Somebody will: a join at work, an effect on its way, a frame the server
\* answers, an update that ends the join, or the end of the connection.
Answerable ==
  \/ \E t \in JoinTask : pc[t] \in WorksOnJoin
  \/ \E what \in EndsJoining : Due(what)
  \/ outgoing # <<>>
  \/ \E i \in DOMAIN updates : updates[i].kind \in EndingUpdate
  \/ stream = "dropped"
  \/ stream = "closed" /\ \E c \in ConnectTask : pc[c] # "new" /\ "portConnect" \notin Effects(todo[c])

Answered == join.phase \in {"Joining", "JoiningPrepared"} => Answerable

Joins == CallingOff /\ Linked /\ Answered

IInv == Tasks /\ Games /\ Joins

-----------------------------------------------------------------------------
(* Moves of tasks that only change their label and their script *)

\* A move to a label of the task's kind, with nothing in the script that only
\* special moves have.
Plainly(a, from, to, does) ==
  /\ \/ a \in JoinTask /\ {from, to} \subseteq JoinLabel /\ from \notin {"sent", "done"}
     \/ a \in HostTask /\ {from, to} \subseteq HostLabel
     \/ a \in UserTask /\ {from, to} \subseteq UserLabel
     \/ a \in ConnectTask /\ {from, to} \subseteq ConnectLabel \ {"new"}
  /\ does \cap {"InGame", "finishLobby", "portConnect"} = {}
  /\ does \cap {"Joining", "JoiningPrepared"} # {} => a \in JoinTask /\ to \in {"find", "recheck"}

\* The move leaves no game unannounced and no adapter running.
KeepsGame(a, from, to, does) ==
  a \in ConnectTask => /\ to \in InLaunch => \/ from \in InLaunch
                                             \/ to # "announce" /\ "Launched" \in does
                       /\ from \notin {"replace", "announce"}
                       /\ from \in {"spawn", "start"} => to \in Starting \/ "iceStop" \in does

\* The move leaves nobody waiting for the join, and no cancel unheard.
KeepsJoin(a, from, to, does) ==
  a \in JoinTask =>
    /\ from \in WorksOnJoin => to \in WorksOnJoin \/ does \cap EndsJoining # {}
    /\ from \in InPreparation => to \in InPreparation \cup {"done"} \/ ~joinCancelled

GoesTo(a, from, to, s, does) ==
  At(a, from) /\ Goto(a, to, s) /\ Script(s, does) /\ to \in Label /\ a \notin Launch
Moves(a, from, to, s, does) ==
  At(a, from) /\ Goto(a, to, s) /\ Script(s, does) /\ Plainly(a, from, to, does)

LEMMA AllLabels ==
  JoinLabel \cup HostLabel \cup UserLabel \cup ConnectLabel \cup LaunchLabel \subseteq Label
BY DEF JoinLabel, HostLabel, UserLabel, ConnectLabel, InLaunch, Starting, LaunchLabel, Label

LEMMA MovesGoes ==
  ASSUME NEW a \in Task, NEW from, NEW to, NEW s, NEW does, Moves(a, from, to, s, does)
  PROVE  GoesTo(a, from, to, s, does)
<1>1. to \in Label
  BY AllLabels DEF Moves, Plainly
<1>2. a \notin Launch
  BY KindsDiffer DEF Moves, Plainly
<1>3. QED
  BY <1>1, <1>2 DEF Moves, GoesTo

\* What such a move does to the programs.
Moved(a, from, to, s, does) ==
  /\ pc \in [Task -> Label] /\ todo \in [Task -> Seq(Effect)]
  /\ pc[a] = from /\ todo[a] = <<>> /\ Effects(todo[a]) = {}
  /\ pc' \in [Task -> Label] /\ todo' \in [Task -> Seq(Effect)]
  /\ pc'[a] = to /\ todo'[a] = s /\ Effects(todo'[a]) = does /\ Shape(todo'[a])
  /\ \A b \in Task : b # a => pc'[b] = pc[b] /\ todo'[b] = todo[b]
  /\ \A b \in Task : Effects(todo[b]) \subseteq Effects(todo'[b])
  /\ a \notin Launch

LEMMA MoveProgram ==
  ASSUME Tasks, NEW a \in Task, NEW from, NEW to, NEW s, NEW does, GoesTo(a, from, to, s, does)
  PROVE  Moved(a, from, to, s, does)
<1>1. /\ to \in Label /\ s \in Seq(Effect) /\ Effects(s) = does /\ Shape(s)
      /\ a \notin Launch
  BY DEF GoesTo, Script
<1>2. Effects(<<>>) = {}
  BY Nothing DEF Script
<1>3. QED
  BY <1>1, <1>2 DEF Tasks, TypeOK, GoesTo, At, Goto, Moved

LEMMA MoveTasks ==
  ASSUME Tasks, NEW a \in Task, NEW from, NEW to, NEW s, NEW does, Moves(a, from, to, s, does),
         lobbyActive' = lobbyActive
  PROVE  Labels' /\ Scripts' /\ OneLoop'
<1>0. Moved(a, from, to, s, does)
  BY MovesGoes, MoveProgram
<1> USE <1>0 DEF Moved
<1>1. Labels'
  <2>1. \A b \in Task : b # a => pc'[b] = pc[b]
    OBVIOUS
  <2>2. /\ pc'[a] = to
        /\ a \in JoinTask => to \in JoinLabel
        /\ a \in HostTask => to \in HostLabel
        /\ a \in UserTask => to \in UserLabel
        /\ a \in ConnectTask => to \in ConnectLabel
    BY KindsDiffer DEF Moves, Plainly
  <2>3. QED
    BY <2>1, <2>2 DEF Tasks, Labels, Task
<1>2. Scripts'
  <2>1. \A b \in Task : b # a => todo'[b] = todo[b] /\ pc'[b] = pc[b]
    OBVIOUS
  <2>2. /\ Shape(todo'[a])
        /\ Effects(todo'[a]) = does /\ pc'[a] = to
    BY DEF Moves, Script
  <2>3. /\ "InGame" \notin does /\ "finishLobby" \notin does /\ "portConnect" \notin does
        /\ \A what \in {"Joining", "JoiningPrepared"} :
             what \in does => a \in JoinTask /\ to \in {"find", "recheck"}
    BY DEF Moves, Plainly
  <2>4. ASSUME NEW b \in Task
        PROVE  Scripted(b)'
    <3>1. CASE b = a
      BY <3>1, <2>2, <2>3 DEF Scripted
    <3>2. CASE b # a
      <4>1. todo'[b] = todo[b] /\ pc'[b] = pc[b]
        BY <2>1, <3>2
      <4>2. QED
        BY <4>1 DEF Tasks, Scripts, Scripted
    <3>3. QED
      BY <3>1, <3>2
  <2>5. QED
    BY <2>4 DEF Scripts
<1>3. OneLoop'
  <2>1. \A c \in ConnectTask : InLoop(c)' <=> InLoop(c)
    BY KindsDiffer DEF InLoop, Moves, Plainly, Task
  <2>2. QED
    BY <2>1 DEF Tasks, OneLoop
<1>4. QED
  BY <1>1, <1>2, <1>3

LEMMA MoveGames ==
  ASSUME Tasks, Games, NEW a \in Task, NEW from, NEW to, NEW s, NEW does,
         GoesTo(a, from, to, s, does), KeepsGame(a, from, to, does),
         \A d \in ConnectTask \ {a} : order'[d] = order[d],
         UNCHANGED <<alive, signalled>> \/ NoOrphanGame',
         UNCHANGED <<join, slot, poller>>, ice' = ice \/ Served'
  PROVE  Games'
<1>0. Moved(a, from, to, s, does)
  BY MoveProgram
<1> USE <1>0 DEF Moved
<1>1. NoOrphanGame'
  <2>1. ASSUME NEW c \in ConnectTask, pc[c] = "replace"
        PROVE  pc'[c] = "replace" /\ order'[c] = order[c]
    <3>1. c # a /\ c \in Task
      BY <2>1 DEF KeepsGame, Task
    <3>2. QED
      BY <2>1, <3>1
  <2>2. QED
    BY <2>1 DEF Games, NoOrphanGame
<1>2. Watched'
  BY KindsDiffer DEF Games, Watched, KeepsGame, Task
<1>3. \A what : Due(what) => Due(what)'
  BY DEF Due
<1>4. Served'
  <2>1. ASSUME NEW c \in ConnectTask, pc[c] \in Starting
        PROVE  pc'[c] \in Starting \/ Due("iceStop")'
    <3>1. CASE c # a
      <4>1. pc'[c] = pc[c]
        BY <3>1 DEF Task
      <4>2. QED
        BY <2>1, <4>1
    <3>2. CASE c = a
      <4>1. to \in Starting \/ "iceStop" \in does
        BY <2>1, <3>2 DEF KeepsGame, Starting
      <4>2. todo'[a] = s /\ Effects(s) = does /\ pc'[a] = to
        OBVIOUS
      <4>3. QED
        BY <3>2, <4>1, <4>2 DEF Due
    <3>3. QED
      BY <3>1, <3>2
  <2>2. QED
    BY <1>3, <2>1 DEF Games, Served, Task
<1>5. NotYetInGame'
  <2>1. ASSUME NEW c \in ConnectTask, pc'[c] \in InLaunch, join'.phase = "InGame"
        PROVE  pc'[c] # "announce" /\ "Launched" \in Effects(todo'[c])
    <3>1. CASE c # a
      <4>1. pc'[c] = pc[c] /\ todo'[c] = todo[c]
        BY <3>1 DEF Task
      <4>2. QED
        BY <2>1, <4>1 DEF Games, NotYetInGame
    <3>2. CASE c = a
      <4>1. from = pc[c] /\ Effects(todo[c]) = {} /\ Effects(todo'[c]) = does /\ pc'[c] = to
        BY <3>2
      <4>2. from \in InLaunch \/ (to # "announce" /\ "Launched" \in does)
        BY <2>1, <3>2, <4>1 DEF KeepsGame
      <4>3. QED
        BY <2>1, <4>1, <4>2 DEF Games, NotYetInGame
    <3>3. QED
      BY <3>1, <3>2
  <2>2. QED
    BY <2>1 DEF NotYetInGame
<1>6. Backed'
  BY <1>3 DEF Games, Backed, Task
<1>7. QED
  BY <1>1, <1>2, <1>4, <1>5, <1>6 DEF Games

LEMMA MoveJoins ==
  ASSUME Tasks, Joins, NEW a \in Task, NEW from, NEW to, NEW s, NEW does,
         Moves(a, from, to, s, does), KeepsJoin(a, from, to, does),
         UNCHANGED <<join, joinCancelled, stream, port, outgoing, updates, calledOff, revived>>
  PROVE  Joins'
<1>0. Moved(a, from, to, s, does)
  BY MovesGoes, MoveProgram
<1> USE <1>0 DEF Moved
<1>1. CallingOff'
  BY KindsDiffer DEF Joins, CallingOff, Moves, Plainly, KeepsJoin, Task, InPreparation
<1>2. Linked'
  <2>1. \A c \in ConnectTask : pc[c] # "new" => pc'[c] # "new"
    BY KindsDiffer DEF Moves, Plainly, Task
  <2>2. Due("portConnect")' => Due("portConnect")
    <3>1. ASSUME NEW b \in Task, "portConnect" \in Effects(todo'[b])
          PROVE  "portConnect" \in Effects(todo[b])
      <4>1. "portConnect" \notin Effects(todo'[a])
        BY DEF Moves, Plainly
      <4>2. b # a /\ todo'[b] = todo[b]
        BY <3>1, <4>1
      <4>3. QED
        BY <3>1, <4>2
    <3>2. QED
      BY <3>1 DEF Due
  <2>3. QED
    BY <2>1, <2>2 DEF Joins, Linked
<1>3. Answered'
  <2>1. \A what : Due(what) => Due(what)'
    BY DEF Due
  <2>2. ASSUME NEW t \in JoinTask, pc[t] \in WorksOnJoin
        PROVE  pc'[t] \in WorksOnJoin \/ \E what \in EndsJoining : Due(what)'
    <3>1. CASE t # a
      <4>1. pc'[t] = pc[t]
        BY <3>1 DEF Task
      <4>2. QED
        BY <2>2, <4>1
    <3>2. CASE t = a
      <4>1. pc[a] = from /\ pc'[a] = to /\ todo'[a] = s /\ Effects(s) = does
        OBVIOUS
      <4>2. to \in WorksOnJoin \/ does \cap EndsJoining # {}
        BY <2>2, <3>2, <4>1 DEF KeepsJoin
      <4>3. QED
        BY <3>2, <4>1, <4>2 DEF Due
    <3>3. QED
      BY <3>1, <3>2
  <2>3. ASSUME NEW c \in ConnectTask, pc[c] # "new", "portConnect" \notin Effects(todo[c])
        PROVE  pc'[c] # "new" /\ "portConnect" \notin Effects(todo'[c])
    BY <2>3, KindsDiffer DEF Moves, Plainly, Task
  <2>4. Answerable => Answerable'
    BY <2>1, <2>2, <2>3 DEF Answerable
  <2>5. QED
    BY <2>4 DEF Joins, Answered
<1>4. QED
  BY <1>1, <1>2, <1>3 DEF Joins


LEMMA PlainMove ==
  ASSUME IInv, NEW a \in Task, NEW from, NEW to, NEW s, NEW does,
         Moves(a, from, to, s, does), KeepsGame(a, from, to, does) /\ KeepsJoin(a, from, to, does),
         a \in ConnectTask /\ to \in InLaunch => from \in InLaunch,
         joinActive' \in BOOLEAN, outcome' \in [Task -> {"ok", "failed"}], prepared' \subseteq Task,
         UNCHANGED <<appState, lobbyActive, joinCancelled, order, socket, game, calledOff, revived>>
  PROVE  IInv'
<1> USE DEF IInv
<1>0. GoesTo(a, from, to, s, does) /\ Moved(a, from, to, s, does)
  BY MovesGoes, MoveProgram
<1>1. TypeOK'
  BY <1>0 DEF Moved, Tasks, TypeOK, appState, socket, game
<1>2. Labels' /\ Scripts' /\ OneLoop'
  BY MoveTasks
<1>3. LaunchKnown'
  <2>1. ASSUME NEW c \in ConnectTask, pc'[c] \in InLaunch
        PROVE  pc[c] \in InLaunch
    BY <1>0, <2>1 DEF Moved, Task
  <2>2. order' = order /\ updates' = updates
    BY DEF socket
  <2>3. QED
    BY <2>1, <2>2 DEF Tasks, LaunchKnown
<1>4. Games'
  BY <1>0, MoveGames DEF appState, game
<1>5. Joins'
  BY MoveJoins DEF appState, socket
<1>6. QED
  BY <1>1, <1>2, <1>3, <1>4, <1>5 DEF Tasks

LEMMA IdleKeeps ==
  ASSUME IInv, Idle
  PROVE  /\ joinActive' \in BOOLEAN /\ outcome' \in [Task -> {"ok", "failed"}]
         /\ prepared' \subseteq Task
         /\ UNCHANGED <<appState, lobbyActive, joinCancelled, order, socket, game,
                        calledOff, revived>>
BY DEF IInv, Tasks, TypeOK, Idle, flags, history

\* A preparation that fails, or returns.
Prepares(t) == t \in JoinTask \cup HostTask \cup ConnectTask

LEMMA PrepareFailsMoves ==
  ASSUME NEW t \in Task, Prepares(t), NEW from \in {"prepare", "prepared", "mods"},
         t \notin JoinTask => from # "mods", At(t, from), PrepareFails(t)
  PROVE  \E to, s, does : /\ Moves(t, from, to, s, does)
                          /\ KeepsGame(t, from, to, does) /\ KeepsJoin(t, from, to, does)
                          /\ (t \in ConnectTask => to \notin InLaunch)
<1>1. CASE t \in JoinTask
  <2> DEFINE s == <<Do("finishJoin")>> \o ReportFailure
  <2>1. /\ Goto(t, "done", s) /\ Script(s, {"finishJoin", "iceStop", "LaunchFailed"})
    BY <1>1, FailureScripts DEF PrepareFails
  <2> HIDE DEF s
  <2>2. /\ Plainly(t, from, "done", {"finishJoin", "iceStop", "LaunchFailed"})
        /\ KeepsGame(t, from, "done", {"finishJoin", "iceStop", "LaunchFailed"})
        /\ KeepsJoin(t, from, "done", {"finishJoin", "iceStop", "LaunchFailed"})
    BY <1>1, KindsDiffer DEF Plainly, KeepsGame, KeepsJoin, JoinLabel, InPreparation,
                             EndsJoining
  <2>3. QED
    BY <1>1, <2>1, <2>2, KindsDiffer DEF Moves
<1>2. CASE t \in HostTask
  <2>1. /\ Goto(t, "done", ReportFailure) /\ Script(ReportFailure, {"iceStop", "LaunchFailed"})
    BY <1>2, FailureScripts, KindsDiffer DEF PrepareFails
  <2>2. /\ Plainly(t, from, "done", {"iceStop", "LaunchFailed"})
        /\ KeepsGame(t, from, "done", {"iceStop", "LaunchFailed"})
        /\ KeepsJoin(t, from, "done", {"iceStop", "LaunchFailed"})
    BY <1>2, KindsDiffer DEF Plainly, KeepsGame, KeepsJoin, HostLabel
  <2>3. QED
    BY <1>2, <2>1, <2>2, KindsDiffer DEF Moves
<1>3. CASE t \in ConnectTask
  <2>1. /\ Goto(t, "recv", LaunchFailure)
        /\ Script(LaunchFailure, {"iceStop", "LaunchFailed", "finishJoin"})
    BY <1>3, FailureScripts, KindsDiffer DEF PrepareFails
  <2>2. /\ Plainly(t, from, "recv", {"iceStop", "LaunchFailed", "finishJoin"})
        /\ KeepsGame(t, from, "recv", {"iceStop", "LaunchFailed", "finishJoin"})
        /\ KeepsJoin(t, from, "recv", {"iceStop", "LaunchFailed", "finishJoin"})
    BY <1>3, KindsDiffer DEF Plainly, KeepsGame, KeepsJoin, ConnectLabel, InLaunch, Starting
  <2>3. "recv" \notin InLaunch
    BY DEF InLaunch, Starting
  <2>4. QED
    BY <1>3, <2>1, <2>2, <2>3, KindsDiffer DEF Moves
<1>4. QED
  BY <1>1, <1>2, <1>3 DEF Prepares

LEMMA PreparationKeeps ==
  ASSUME IInv, NEW t \in Task, Prepares(t), Preparation(t)
  PROVE  IInv'
<1>1. CASE GenerateMapFails(t)
  <2>1. /\ Idle /\ \E to, s, does : /\ Moves(t, "prepare", to, s, does)
                                    /\ KeepsGame(t, "prepare", to, does)
                                    /\ KeepsJoin(t, "prepare", to, does)
                                    /\ (t \in ConnectTask => to \notin InLaunch)
    BY <1>1, PrepareFailsMoves DEF GenerateMapFails
  <2>2. QED
    BY <2>1, PlainMove, IdleKeeps
<1>2. CASE PrepareStep(t)
  <2> DEFINE s == <<Do("Preparing")>>
  <2>1. /\ Idle /\ At(t, "prepare") /\ Goto(t, "prepare", s) /\ Script(s, {"Preparing"})
    BY <1>2, ShortScripts DEF PrepareStep
  <2> HIDE DEF s
  <2>2. Plainly(t, "prepare", "prepare", {"Preparing"})
    BY KindsDiffer DEF Prepares, Plainly, JoinLabel, HostLabel, ConnectLabel, InLaunch, Starting
  <2>3. /\ KeepsGame(t, "prepare", "prepare", {"Preparing"})
        /\ KeepsJoin(t, "prepare", "prepare", {"Preparing"})
    BY DEF KeepsGame, KeepsJoin, InLaunch, Starting, WorksOnJoin, InPreparation
  <2>4. QED
    BY <2>1, <2>2, <2>3, PlainMove, IdleKeeps DEF Moves, InLaunch
<1>3. CASE PrepareFinished(t)
  <2>1. /\ At(t, "prepare") /\ Goto(t, "prepared", <<>>) /\ Script(<<>>, {})
        /\ joinActive' = joinActive
        /\ UNCHANGED <<appState, lobbyActive, joinCancelled, order, socket, game, calledOff, revived>>
    BY <1>3, Nothing DEF PrepareFinished, flags
  <2>2. Plainly(t, "prepare", "prepared", {})
    BY KindsDiffer DEF Prepares, Plainly, JoinLabel, HostLabel, ConnectLabel, InLaunch, Starting
  <2>3. KeepsGame(t, "prepare", "prepared", {}) /\ KeepsJoin(t, "prepare", "prepared", {})
    BY DEF KeepsGame, KeepsJoin, InLaunch, Starting, WorksOnJoin, InPreparation
  <2>4. /\ outcome' \in [Task -> {"ok", "failed"}]
        /\ prepared' \subseteq Task
        /\ joinActive' \in BOOLEAN
    BY <1>3, <2>1 DEF PrepareFinished, IInv, Tasks, TypeOK
  <2>5. QED
    BY <2>1, <2>2, <2>3, <2>4, PlainMove DEF Moves, InLaunch, Starting
<1>4. CASE PrepareReturns(t)
  <2>1. /\ At(t, "prepared")
        /\ UNCHANGED <<appState, lobbyActive, joinCancelled, order, socket, game, calledOff, revived>>
    BY <1>4 DEF PrepareReturns, flags, history
  <2>2. /\ outcome' \in [Task -> {"ok", "failed"}]
        /\ prepared' \subseteq Task
        /\ joinActive' \in BOOLEAN
    BY <1>4 DEF PrepareReturns, flags, history, IInv, Tasks, TypeOK
  <2>3. CASE PrepareFails(t)
    <3>1. \E to, s, does : /\ Moves(t, "prepared", to, s, does)
                           /\ KeepsGame(t, "prepared", to, does)
                           /\ KeepsJoin(t, "prepared", to, does)
                           /\ (t \in ConnectTask => to \notin InLaunch)
      BY <2>1, <2>3, PrepareFailsMoves
    <3>2. QED
      BY <2>1, <2>2, <3>1, PlainMove
  <2>4. CASE Goto(t, AfterPrepare(t), <<>>)
    <3>1. Plainly(t, "prepared", AfterPrepare(t), {})
      BY KindsDiffer DEF Prepares, AfterPrepare, Plainly, JoinLabel, HostLabel,
                         ConnectLabel, InLaunch, Starting
    <3>2. /\ KeepsGame(t, "prepared", AfterPrepare(t), {})
          /\ KeepsJoin(t, "prepared", AfterPrepare(t), {})
      BY DEF AfterPrepare, KeepsGame, KeepsJoin, InLaunch, Starting, WorksOnJoin, InPreparation
    <3>3. QED
      BY <2>1, <2>2, <2>4, <3>1, <3>2, Nothing, PlainMove DEF Moves, InLaunch, Starting
  <2>5. QED
    BY <1>4, <2>3, <2>4 DEF PrepareReturns
<1>5. QED
  BY <1>1, <1>2, <1>3, <1>4 DEF Preparation

-----------------------------------------------------------------------------
(* Joins, hosting and the other commands *)

LEMMA JoinMoveKeeps ==
  ASSUME IInv, NEW t \in JoinTask, NEW from \in WorksOnJoin \cup {"new"}, NEW to, NEW s, NEW does,
         At(t, from), Goto(t, to, s), Script(s, does), to \in JoinLabel,
         does \cap {"InGame", "finishLobby", "portConnect"} = {},
         does \cap {"Joining", "JoiningPrepared"} # {} => to \in {"find", "recheck"},
         to \in WorksOnJoin \/ does \cap EndsJoining # {} \/ from = "new",
         from \in InPreparation => to \in InPreparation \cup {"done"} \/ ~joinCancelled,
         joinActive' \in BOOLEAN, outcome' \in [Task -> {"ok", "failed"}], prepared' \subseteq Task,
         UNCHANGED <<appState, lobbyActive, joinCancelled, order, socket, game, calledOff, revived>>
  PROVE  IInv'
<1>1. from \in JoinLabel /\ from \notin {"sent", "done"} /\ ("new" \in WorksOnJoin => FALSE)
  BY DEF JoinLabel, WorksOnJoin
<1>2. /\ Plainly(t, from, to, does)
      /\ KeepsGame(t, from, to, does)
      /\ KeepsJoin(t, from, to, does)
      /\ t \in Task
      /\ t \notin ConnectTask
  BY <1>1, KindsDiffer DEF Plainly, KeepsGame, KeepsJoin, Task
<1>3. QED
  BY <1>2, PlainMove DEF Moves

LEMMA SendRequestKeeps ==
  ASSUME IInv, NEW t \in JoinTask \cup HostTask, SendRequest(t)
  PROVE  IInv'
<1> USE DEF IInv
<1>1. /\ At(t, "send") /\ t \in Task /\ t \notin ConnectTask
      /\ UNCHANGED <<appState, flags, outcome, order, stream, token, port, updates, drops, game, history>>
  BY KindsDiffer DEF SendRequest, Task
<1>2. CASE /\ port /\ Len(outgoing) < FrameCap
           /\ outgoing' = Append(outgoing, t)
           /\ Goto(t, "sent", <<>>)
  <2>1. Moves(t, "send", "sent", <<>>, {}) /\ KeepsGame(t, "send", "sent", {})
    BY <1>1, <1>2, Nothing, KindsDiffer DEF Moves, KeepsGame, Plainly, JoinLabel, HostLabel
  <2>a. GoesTo(t, "send", "sent", <<>>, {}) /\ Moved(t, "send", "sent", <<>>, {})
    BY <1>1, <2>1, MovesGoes, MoveProgram
  <2>2. /\ TypeOK'
        /\ outgoing' # <<>>
    <3>1. /\ outgoing' \in Seq(JoinTask \cup HostTask) /\ outgoing' # <<>>
          /\ Len(outgoing') <= FrameCap
      <4>1. outgoing \in Seq(JoinTask \cup HostTask) /\ FrameCap \in Nat
        BY CapAssumption DEF Tasks, TypeOK
      <4>2. /\ Append(outgoing, t) \in Seq(JoinTask \cup HostTask)
            /\ Len(Append(outgoing, t)) = Len(outgoing) + 1 /\ Len(outgoing) \in Nat
        BY <4>1
      <4>3. Append(outgoing, t) # <<>>
        BY <4>2
      <4>4. Len(outgoing) + 1 <= FrameCap
        BY <1>2, <4>1, <4>2
      <4>5. QED
        BY <1>2, <4>2, <4>3, <4>4
    <3>2. pc' \in [Task -> Label] /\ todo' \in [Task -> Seq(Effect)]
      BY <1>1, <2>a DEF Moved
    <3>3. QED
      BY <1>1, <3>1, <3>2 DEF Tasks, TypeOK, appState, flags, game, history
  <2>3. Labels' /\ Scripts' /\ OneLoop'
    BY <1>1, <2>1, MoveTasks DEF flags
  <2>4. LaunchKnown'
    <3>1. \A c \in ConnectTask : pc'[c] = pc[c]
      BY <1>1, <2>a DEF Moved, Task
    <3>2. QED
      BY <1>1, <3>1 DEF Tasks, LaunchKnown
  <2>5. Games'
    BY <1>1, <2>a, <2>1, MoveGames DEF appState, game
  <2>6. CallingOff'
    <3>1. t \in calledOff \cap JoinTask => t \in revived
      BY <1>1 DEF At, Joins, CallingOff, InPreparation
    <3>2. \A u \in JoinTask : u # t => pc'[u] = pc[u]
      BY <2>a DEF Moved, Task
    <3>3. QED
      BY <1>1, <3>1, <3>2 DEF Joins, CallingOff, flags, history
  <2>7. Linked'
    <3>1. stream # "closed"
      BY <1>2 DEF Joins, Linked
    <3>2. \E c \in ConnectTask : pc[c] # "new" /\ pc'[c] # "new"
      BY <1>1, <2>a, <3>1 DEF Moved, Joins, Linked, Task
    <3>3. ~Due("portConnect")'
      <4>1. Effects(todo'[t]) = {} /\ \A b \in Task : b # t => todo'[b] = todo[b]
        BY <1>1, <2>a DEF Moved
      <4>2. QED
        BY <3>1, <4>1 DEF Joins, Linked, Due
    <3>4. QED
      BY <1>1, <3>1, <3>2, <3>3 DEF Linked
  <2>8. Answered'
    BY <2>2 DEF Answered, Answerable
  <2>9. QED
    BY <2>2, <2>3, <2>4, <2>5, <2>6, <2>7, <2>8 DEF Tasks, Joins
<1>3. CASE /\ ~port \/ Len(outgoing) = FrameCap
           /\ UNCHANGED outgoing
           /\ Goto(t, "done", IF t \in JoinTask THEN <<Do("finishJoin"), DoFor("Failed", t)>> ELSE <<>>)
  <2>1. /\ UNCHANGED <<appState, lobbyActive, joinCancelled, order, socket, game, calledOff, revived>>
        /\ joinActive' \in BOOLEAN
        /\ outcome' \in [Task -> {"ok", "failed"}]
        /\ prepared' \subseteq Task
    BY <1>1, <1>3 DEF flags, history, socket, Tasks, TypeOK
  <2>2. CASE t \in JoinTask
    <3>1. Script(<<Do("finishJoin"), DoFor("Failed", t)>>, {"finishJoin", "Failed"})
      BY <2>2, ShortScripts DEF GameId
    <3>2. Goto(t, "done", <<Do("finishJoin"), DoFor("Failed", t)>>)
      BY <1>3, <2>2
    <3>3. QED
      BY <1>1, <2>1, <2>2, <3>1, <3>2, JoinMoveKeeps DEF WorksOnJoin, JoinLabel,
          EndsJoining, InPreparation
  <2>3. CASE t \in HostTask
    <3>1. Goto(t, "done", <<>>)
      BY <1>1, <1>3, <2>3, KindsDiffer
    <3>2. /\ Plainly(t, "send", "done", {})
          /\ KeepsGame(t, "send", "done", {})
          /\ KeepsJoin(t, "send", "done", {})
      BY <1>1, <2>3, KindsDiffer DEF Plainly, KeepsGame, KeepsJoin, HostLabel
    <3>3. QED
      BY <1>1, <2>1, <3>1, <3>2, Nothing, PlainMove DEF Moves
  <2>4. QED
    BY <2>2, <2>3
<1>4. QED
  BY <1>2, <1>3 DEF SendRequest

LEMMA JoinChecksCancelKeeps ==
  ASSUME IInv, NEW t \in JoinTask, NEW from, NEW to, NEW s, NEW does, Script(s, does),
         JoinChecksCancel(t, from, to, s),
         \/ from = "check" /\ to = "recheck" /\ does = {"JoiningPrepared"}
         \/ from = "recheck" /\ to = "send" /\ does = {}
  PROVE  IInv'
<1>1. At(t, from) /\ Idle
  BY DEF JoinChecksCancel
<1>2. CASE joinCancelled
  <2>1. /\ Goto(t, "done", <<Do("finishJoin"), Do("JoinCancelled")>>)
        /\ Script(<<Do("finishJoin"), Do("JoinCancelled")>>, {"finishJoin", "JoinCancelled"})
    BY <1>2, ShortScripts DEF JoinChecksCancel
  <2>2. QED
    BY <1>1, <2>1, JoinMoveKeeps, IdleKeeps DEF WorksOnJoin, JoinLabel, EndsJoining
<1>3. CASE ~joinCancelled
  <2>1. Goto(t, to, s)
    BY <1>3 DEF JoinChecksCancel
  <2>2. QED
    BY <1>1, <1>3, <2>1, JoinMoveKeeps, IdleKeeps DEF WorksOnJoin, JoinLabel
<1>4. QED
  BY <1>2, <1>3

LEMMA JoinKeeps ==
  ASSUME IInv, NEW t \in JoinTask, Join(t)
  PROVE  IInv'
<1> USE DEF WorksOnJoin, JoinLabel, EndsJoining, InPreparation
<1>0. t \in GameId \cup {None} /\ t \in Task
  BY DEF GameId, Task
<1>1. CASE JoinCommand(t)
  <2>1. /\ At(t, "new") /\ joinActive' \in BOOLEAN /\ outcome' \in [Task -> {"ok", "failed"}]
        /\ prepared' \subseteq Task
        /\ UNCHANGED <<appState, lobbyActive, joinCancelled, order, socket, game, calledOff, revived>>
    BY <1>1 DEF JoinCommand, history, IInv, Tasks, TypeOK
  <2>2. CASE joinActive
    <3>1. Goto(t, "done", <<>>)
      BY <1>1, <2>2 DEF JoinCommand
    <3>2. QED
      BY <2>1, <3>1, Nothing, JoinMoveKeeps
  <2>3. CASE ~joinActive
    <3>1. Goto(t, "status", <<Do("clear")>>) /\ Script(<<Do("clear")>>, {"clear"})
      BY <1>1, <2>3, ShortScripts DEF JoinCommand
    <3>2. QED
      BY <2>1, <3>1, JoinMoveKeeps
  <2>4. QED
    BY <2>2, <2>3
<1>2. CASE JoinChecksStatus(t)
  <2>1. At(t, "status") /\ Idle
    BY <1>2 DEF JoinChecksStatus
  <2>2. CASE status = "Connected"
    <3>1. /\ Goto(t, "find", <<DoFor("Joining", t)>>)
          /\ Script(<<DoFor("Joining", t)>>, {"Joining"})
      BY <1>0, <1>2, <2>2, ShortScripts DEF JoinChecksStatus
    <3>2. QED
      BY <2>1, <3>1, JoinMoveKeeps, IdleKeeps
  <2>3. CASE status # "Connected"
    <3>1. /\ Goto(t, "done", <<Do("finishJoin"), DoFor("Failed", t)>>)
          /\ Script(<<Do("finishJoin"), DoFor("Failed", t)>>, {"finishJoin", "Failed"})
      BY <1>0, <1>2, <2>3, ShortScripts DEF JoinChecksStatus
    <3>2. QED
      BY <2>1, <3>1, JoinMoveKeeps, IdleKeeps
  <2>4. QED
    BY <2>2, <2>3
<1>3. CASE JoinFindsGame(t)
  <2>1. At(t, "find") /\ Idle
    BY <1>3 DEF JoinFindsGame
  <2>2. CASE Goto(t, "prepare", <<>>)
    BY <2>1, <2>2, Nothing, JoinMoveKeeps, IdleKeeps
  <2>3. CASE Goto(t, "done", <<Do("finishJoin"), DoFor("Failed", t)>>)
    <3>1. Script(<<Do("finishJoin"), DoFor("Failed", t)>>, {"finishJoin", "Failed"})
      BY <1>0, ShortScripts
    <3>2. QED
      BY <2>1, <2>3, <3>1, JoinMoveKeeps, IdleKeeps
  <2>4. QED
    BY <1>3, <2>2, <2>3 DEF JoinFindsGame
<1>4. CASE Preparation(t)
  BY <1>0, <1>4, PreparationKeeps DEF Prepares
<1>5. CASE JoinEnsuresMods(t)
  <2>1. At(t, "mods") /\ Idle
    BY <1>5 DEF JoinEnsuresMods
  <2>2. CASE Goto(t, "check", <<>>)
    BY <2>1, <2>2, Nothing, JoinMoveKeeps, IdleKeeps
  <2>3. CASE Goto(t, "done", <<Do("finishJoin"), DoFor("NeedsModReplacement", t)>>)
    <3>1. Script(<<Do("finishJoin"), DoFor("NeedsModReplacement", t)>>,
                 {"finishJoin", "NeedsModReplacement"})
      BY <1>0, ShortScripts
    <3>2. QED
      BY <2>1, <2>3, <3>1, JoinMoveKeeps, IdleKeeps
  <2>4. CASE PrepareFails(t)
    <3>1. \E to, s, does : /\ Moves(t, "mods", to, s, does)
                           /\ KeepsGame(t, "mods", to, does)
                           /\ KeepsJoin(t, "mods", to, does)
                           /\ (t \in ConnectTask => to \notin InLaunch)
      BY <1>0, <2>1, <2>4, PrepareFailsMoves DEF Prepares
    <3>2. QED
      BY <1>0, <2>1, <3>1, PlainMove, IdleKeeps
  <2>5. QED
    BY <1>5, <2>2, <2>3, <2>4 DEF JoinEnsuresMods
<1>6. CASE JoinChecksCancel(t, "check", "recheck", <<DoFor("JoiningPrepared", t)>>)
  <2>1. Script(<<DoFor("JoiningPrepared", t)>>, {"JoiningPrepared"})
    BY <1>0, ShortScripts
  <2>2. QED
    BY <1>6, <2>1, JoinChecksCancelKeeps
<1>7. CASE JoinChecksCancel(t, "recheck", "send", <<>>)
  BY <1>7, Nothing, JoinChecksCancelKeeps
<1>8. CASE SendRequest(t)
  BY <1>8, SendRequestKeeps
<1>9. QED
  BY <1>1, <1>2, <1>3, <1>4, <1>5, <1>6, <1>7, <1>8 DEF Join

LEMMA HostKeeps ==
  ASSUME IInv, NEW t \in HostTask, Host(t)
  PROVE  IInv'
<1>0. t \in Task /\ t \notin ConnectTask
  BY KindsDiffer DEF Task
<1>1. CASE HostCommand(t)
  <2>1. At(t, "new") /\ Goto(t, "prepare", <<>>) /\ Idle
    BY <1>1 DEF HostCommand
  <2>2. /\ Plainly(t, "new", "prepare", {})
        /\ KeepsGame(t, "new", "prepare", {})
        /\ KeepsJoin(t, "new", "prepare", {})
    BY <1>0, KindsDiffer DEF Plainly, KeepsGame, KeepsJoin, HostLabel
  <2>3. QED
    BY <1>0, <2>1, <2>2, Nothing, PlainMove, IdleKeeps DEF Moves
<1>2. CASE Preparation(t)
  BY <1>0, <1>2, PreparationKeeps DEF Prepares
<1>3. CASE SendRequest(t)
  BY <1>3, SendRequestKeeps
<1>4. QED
  BY <1>1, <1>2, <1>3 DEF Host

LEMMA UserKeeps ==
  ASSUME IInv, NEW u \in UserTask,
         UserCancels(u) \/ UserCommand(u) \/ ReplayRuns(u) \/ ReplayExits(u)
  PROVE  IInv'
<1>0. u \in Task /\ u \notin ConnectTask /\ u \notin JoinTask
  BY KindsDiffer DEF Task
<1>1. ASSUME NEW from \in UserLabel, NEW to \in UserLabel, NEW s, NEW does,
             At(u, from), Goto(u, to, s), Script(s, does), Idle,
             does \cap {"InGame", "finishLobby", "portConnect", "Joining", "JoiningPrepared"} = {}
      PROVE  IInv'
  <2>1. /\ Plainly(u, from, to, does)
        /\ KeepsGame(u, from, to, does)
        /\ KeepsJoin(u, from, to, does)
    BY <1>0, <1>1 DEF Plainly, KeepsGame, KeepsJoin
  <2>2. QED
    BY <1>0, <1>1, <2>1, PlainMove, IdleKeeps DEF Moves
<1> USE DEF UserLabel
<1>2. CASE UserCancels(u)
  BY <1>1, <1>2, Nothing DEF UserCancels
<1>3. CASE At(u, "cancel") /\ Goto(u, "done", CancelJoin) /\ Idle
  <2>1. CASE join.phase \in {"Launched", "InGame"}
    BY <1>1, <1>3, <2>1, TerminateScript DEF CancelJoin
  <2>2. CASE join.phase \notin {"Launched", "InGame"}
    BY <1>1, <1>3, <2>2, ShortScripts DEF CancelJoin
  <2>3. QED
    BY <2>1, <2>2
<1>4. CASE At(u, "new") /\ Goto(u, "done", DeclineModReplacement) /\ Idle
  <2>1. CASE join.phase = "NeedsModReplacement"
    BY <1>1, <1>4, <2>1, ShortScripts DEF DeclineModReplacement
  <2>2. CASE join.phase # "NeedsModReplacement"
    BY <1>1, <1>4, <2>2, Nothing DEF DeclineModReplacement
  <2>3. QED
    BY <2>1, <2>2
<1>5. CASE At(u, "new") /\ Goto(u, "done", Terminate) /\ Idle
  BY <1>1, <1>5, TerminateScript
<1>6. CASE At(u, "new") /\ Goto(u, "done", Disconnect) /\ Idle
  BY <1>1, <1>6, ShortScripts
<1>7. CASE ReplayRuns(u) \/ ReplayExits(u)
  BY <1>1, <1>7, Nothing DEF ReplayRuns, ReplayExits
<1>8. QED
  BY <1>2, <1>3, <1>4, <1>5, <1>6, <1>7 DEF UserCommand

\* A replay takes an exited game out of its slot: whoever waits for that game
\* waits on, and the poll wakes it.
LEMMA WatchReplayKeeps ==
  ASSUME IInv, NEW u \in UserTask, WatchReplay(u)
  PROVE  IInv'
<1> USE DEF IInv
<1>1. /\ At(u, "new") /\ u \in Task /\ u \notin ConnectTask /\ u \notin JoinTask /\ u \notin Launch
      /\ slot' = IF slot \in alive THEN slot ELSE None
      /\ UNCHANGED <<appState, flags, outcome, order, socket, ice, alive, poller, signalled, history>>
  BY KindsDiffer DEF WatchReplay, Task
<1>2. PICK to \in {"done", "startReplay"} : Goto(u, to, <<>>)
  BY DEF WatchReplay
<1>3. Moves(u, "new", to, <<>>, {})
  BY <1>1, <1>2, Nothing DEF Moves, Plainly, UserLabel
<1>4. Moved(u, "new", to, <<>>, {})
  BY <1>1, <1>3, MovesGoes, MoveProgram
<1>5. KeepsJoin(u, "new", to, {})
  BY <1>1 DEF KeepsJoin
<1>6. TypeOK'
  <2>1. slot' \in Launch \cup {None}
    BY <1>1 DEF Tasks, TypeOK
  <2>2. QED
    BY <1>1, <1>4, <2>1 DEF Moved, Tasks, TypeOK, appState, flags, socket, history
<1>7. Labels' /\ Scripts' /\ OneLoop'
  BY <1>1, <1>3, MoveTasks DEF flags
<1>8. /\ \A d \in ConnectTask \cup Launch : pc'[d] = pc[d] /\ todo'[d] = todo[d]
      /\ \A what : Due(what) => Due(what)'
  BY <1>1, <1>4 DEF Moved, Task, Due
<1>9. LaunchKnown'
  BY <1>1, <1>8 DEF Tasks, LaunchKnown, socket
<1>10. join' = join
  BY <1>1 DEF appState
<1>11. NoOrphanGame' /\ Watched' /\ NotYetInGame'
  BY <1>1, <1>8, <1>10 DEF Games, NoOrphanGame, Watched, NotYetInGame
<1>12. slot # None => \/ \E n \in Launch : pc'[n] = "waiting"
                      \/ \E c \in ConnectTask : pc'[c] = "announce"
  BY <1>8 DEF Games, Watched
<1>13. Served'
  BY <1>1, <1>8, <1>12 DEF Games, Served, Starting
<1>14. Backed'
  BY <1>1, <1>8, <1>10, <1>12 DEF Games, Backed, NotYetInGame, InLaunch, Starting
<1>15. Joins'
  BY <1>1, <1>3, <1>5, MoveJoins DEF appState, flags, socket, history
<1>16. QED
  BY <1>6, <1>7, <1>9, <1>11, <1>13, <1>14, <1>15 DEF Tasks, Games

-----------------------------------------------------------------------------
(* The update loop *)

\* The first update and the others.
LEMMA FirstUpdate ==
  ASSUME Tasks, updates # <<>>, updates' = Tail(updates)
  PROVE  /\ Head(updates) \in Update /\ updates' \in Seq(Update) /\ Len(updates') <= UpdateCap + 1
         /\ 1 \in DOMAIN updates /\ Head(updates) = updates[1]
         /\ \A i \in DOMAIN updates' : \E j \in DOMAIN updates : updates'[i] = updates[j]
         /\ \A j \in DOMAIN updates :
              updates[j] = Head(updates) \/ \E i \in DOMAIN updates' : updates'[i] = updates[j]
<1>1. /\ updates \in Seq(Update) /\ Len(updates) <= UpdateCap + 1 /\ Len(updates) \in Nat \ {0}
      /\ UpdateCap \in Nat
  BY CapAssumption DEF Tasks, TypeOK
<1>2. /\ Head(updates) \in Update
      /\ Head(updates) = updates[1]
      /\ DOMAIN updates = 1..Len(updates)
      /\ updates' \in Seq(Update) /\ Len(updates') = Len(updates) - 1
      /\ DOMAIN updates' = 1..(Len(updates) - 1)
      /\ \A i \in 1..(Len(updates) - 1) : updates'[i] = updates[i + 1]
  BY <1>1
<1>3. \A i \in DOMAIN updates' : i + 1 \in DOMAIN updates /\ updates'[i] = updates[i + 1]
  BY <1>1, <1>2
<1>4. \A j \in DOMAIN updates : j = 1 \/ (j - 1 \in DOMAIN updates' /\ updates'[j - 1] = updates[j])
  BY <1>1, <1>2
<1>5. 1 \in DOMAIN updates /\ Len(updates') <= UpdateCap + 1
  BY <1>1, <1>2
<1>6. QED
  BY <1>2, <1>3, <1>4, <1>5

\* A move within the update loop that handles an update.
LEMMA ReceivedKeeps ==
  ASSUME IInv, NEW c \in ConnectTask, NEW kind, Received(c, kind),
         NEW to, NEW s, NEW does, Moves(c, "recv", to, s, does), KeepsGame(c, "recv", to, does),
         kind \in EndingUpdate => does \cap EndsJoining # {},
         order' \in [ConnectTask -> [id : GameId \cup {None}, launch : Launch \cup {None}]],
         \A d \in ConnectTask \ {c} : order'[d] = order[d],
         to \in InLaunch => order'[c].launch # None
  PROVE  IInv'
<1> USE DEF IInv
<1>0. /\ GoesTo(c, "recv", to, s, does) /\ Moved(c, "recv", to, s, does) /\ c \in Task
  BY MovesGoes, MoveProgram DEF Task
<1>1. /\ updates # <<>> /\ Head(updates).kind = kind /\ updates' = Tail(updates)
      /\ UNCHANGED <<appState, flags, outcome, stream, token, port, outgoing, drops, game, history>>
  BY DEF Received
<1>2. TypeOK'
  BY <1>0, <1>1, FirstUpdate DEF Moved, Tasks, TypeOK, appState, flags, game, history
<1>3. Labels' /\ Scripts' /\ OneLoop'
  BY <1>0, <1>1, MoveTasks DEF flags
<1>4. LaunchKnown'
  <2>1. \A d \in ConnectTask : pc'[d] \in InLaunch => order'[d].launch # None
    <3>1. \A d \in ConnectTask \ {c} : pc'[d] = pc[d]
      BY <1>0 DEF Moved, Task
    <3>2. pc'[c] = to
      BY <1>0 DEF Moved
    <3>3. QED
      BY <3>1, <3>2 DEF Tasks, LaunchKnown
  <2>2. \A i \in DOMAIN updates' : updates'[i].kind = "Launch" => updates'[i].launch # None
    BY <1>1, FirstUpdate DEF Tasks, LaunchKnown
  <2>3. QED
    BY <2>1, <2>2 DEF LaunchKnown
<1>5. Games'
  BY <1>0, <1>1, MoveGames DEF appState, game
<1>6. CallingOff'
  <2>1. \A t \in JoinTask : pc'[t] = pc[t]
    BY <1>0, KindsDiffer DEF Moved, Task
  <2>2. QED
    BY <1>1, <2>1 DEF Joins, CallingOff, flags, history
<1>7. ~Due("portConnect") /\ ~Due("portConnect")'
  <2>1. ~Due("portConnect")
    BY <1>1 DEF Joins, Linked
  <2>2. "portConnect" \notin Effects(todo'[c])
    BY <1>0 DEF Moves, Plainly, Moved
  <2>3. \A b \in Task : b # c => todo'[b] = todo[b]
    BY <1>0 DEF Moved
  <2>4. QED
    BY <2>1, <2>2, <2>3 DEF Due
<1>8. pc'[c] # "new"
  <2>1. to # "new"
    BY KindsDiffer, <1>0 DEF Moves, Plainly, ConnectLabel, InLaunch, Starting
  <2>2. QED
    BY <1>0, <2>1 DEF Moved
<1>9. Linked'
  BY <1>1, <1>7, <1>8 DEF Joins, Linked
<1>10. Answered'
  <2>1. \A what : Due(what) => Due(what)'
    BY <1>0 DEF Due, Moved
  <2>2. \A t \in JoinTask : pc'[t] = pc[t]
    BY <1>0, KindsDiffer DEF Moved, Task
  <2>3. CASE kind \in EndingUpdate
    <3>1. \E what \in EndsJoining : Due(what)'
      BY <1>0, <2>3 DEF Due, Moved
    <3>2. QED
      BY <3>1 DEF Answered, Answerable
  <2>4. CASE kind \notin EndingUpdate
    <3>1. (\E i \in DOMAIN updates : updates[i].kind \in EndingUpdate)
             => (\E i \in DOMAIN updates' : updates'[i].kind \in EndingUpdate)
      BY <1>1, <2>4, FirstUpdate
    <3>2. stream = "closed" =>
            /\ stream' = "closed"
            /\ \E d \in ConnectTask : pc'[d] # "new" /\ "portConnect" \notin Effects(todo'[d])
      BY <1>0, <1>1, <1>7, <1>8 DEF Due
    <3>3. Answerable => Answerable'
      BY <1>1, <2>1, <2>2, <3>1, <3>2 DEF Answerable
    <3>4. QED
      BY <1>1, <3>3 DEF Joins, Answered, appState
  <2>5. QED
    BY <2>3, <2>4
<1>11. QED
  BY <1>2, <1>3, <1>4, <1>5, <1>6, <1>9, <1>10 DEF Tasks, Joins

LEMMA HandlePlainKeeps ==
  ASSUME IInv, NEW c \in ConnectTask, HandlePlain(c)
  PROVE  IInv'
<1>1. ASSUME NEW kind, Received(c, kind), NEW s, NEW does, Goto(c, "recv", s), Script(s, does),
             does \cap {"InGame", "finishLobby", "portConnect", "Joining", "JoiningPrepared"} = {},
             kind \in EndingUpdate => does \cap EndsJoining # {}
      PROVE  IInv'
  <2>1. /\ Moves(c, "recv", "recv", s, does)
        /\ KeepsGame(c, "recv", "recv", does)
        /\ "recv" \notin InLaunch
    BY <1>1 DEF Received, Moves, Plainly, KeepsGame, ConnectLabel, InLaunch, Starting
  <2>2. /\ order' = order
        /\ order \in [ConnectTask -> [id : GameId \cup {None}, launch : Launch \cup {None}]]
    BY DEF HandlePlain, IInv, Tasks, TypeOK
  <2>3. QED
    BY <1>1, <2>1, <2>2, ReceivedKeeps
<1> USE DEF EndingUpdate, EndsJoining
<1>2. CASE Received(c, "Authenticated") /\ Goto(c, "recv", <<Do("Connected")>>)
  BY <1>1, <1>2, ShortScripts
<1>3. CASE Received(c, "Reconnecting") /\ Goto(c, "recv", <<Do("Connecting")>>)
  BY <1>1, <1>3, ShortScripts
<1>4. CASE Received(c, "JoinFailed")
             /\ Goto(c, "recv", <<Do("finishJoin"), DoFor("Failed", Head(updates).id)>>)
  <2>1. Head(updates).id \in GameId \cup {None}
    BY <1>4, FirstUpdate DEF Received, IInv, Update
  <2>2. Script(<<Do("finishJoin"), DoFor("Failed", Head(updates).id)>>, {"finishJoin", "Failed"})
    BY <2>1, ShortScripts
  <2>3. QED
    BY <1>1, <1>4, <2>2
<1>5. CASE Received(c, "Kill") /\ Goto(c, "recv", Terminate)
  BY <1>1, <1>5, TerminateScript
<1>6. CASE Received(c, "Kick") /\ Goto(c, "recv", <<Do("portDisconnect")>>)
  BY <1>1, <1>6, ShortScripts
<1>7. QED
  BY <1>2, <1>3, <1>4, <1>5, <1>6 DEF HandlePlain

LEMMA HandleLaunchKeeps ==
  ASSUME IInv, NEW c \in ConnectTask, HandleLaunch(c)
  PROVE  IInv'
<1> DEFINE id == Head(updates).id
           n == Head(updates).launch
<1>1. /\ Received(c, "Launch") /\ order' = [order EXCEPT ![c] = [id |-> id, launch |-> n]]
      /\ \/ Goto(c, IF join = [phase |-> "JoiningPrepared", id |-> id] THEN "ice" ELSE "prepare",
                 <<DoFor("Launched", id), Do("clear")>>)
         \/ Goto(c, "recv", <<DoFor("Launched", id)>> \o LaunchFailure)
  BY DEF HandleLaunch
<1>2. id \in GameId \cup {None} /\ n \in Launch /\ n # None
  <2>1. Head(updates) \in Update /\ 1 \in DOMAIN updates /\ Head(updates) = updates[1]
    BY <1>1, FirstUpdate DEF Received, IInv
  <2>2. n # None
    BY <1>1, <2>1 DEF IInv, Tasks, LaunchKnown, Received
  <2>3. QED
    BY <2>1, <2>2 DEF Update
<1> HIDE DEF id, n
<1>3. /\ order' \in [ConnectTask -> [id : GameId \cup {None}, launch : Launch \cup {None}]]
      /\ \A d \in ConnectTask \ {c} : order'[d] = order[d]
      /\ order'[c].launch # None
  <2>1. order \in [ConnectTask -> [id : GameId \cup {None}, launch : Launch \cup {None}]]
    BY DEF IInv, Tasks, TypeOK
  <2>2. [id |-> id, launch |-> n] \in [id : GameId \cup {None}, launch : Launch \cup {None}]
    BY <1>2
  <2>3. QED
    BY <1>1, <1>2, <2>1, <2>2
<1>4. ASSUME NEW to \in {"ice", "prepare", "recv"}, NEW s, NEW does, Goto(c, to, s), Script(s, does),
             does \cap {"InGame", "finishLobby", "portConnect", "Joining", "JoiningPrepared"} = {},
             "Launched" \in does
      PROVE  IInv'
  <2>1. Moves(c, "recv", to, s, does) /\ KeepsGame(c, "recv", to, does)
    BY <1>1, <1>4 DEF Received, Moves, Plainly, KeepsGame, ConnectLabel, InLaunch, Starting
  <2>2. does \cap EndsJoining # {}
    BY <1>4 DEF EndsJoining
  <2>3. QED
    BY <1>1, <1>3, <2>1, <2>2, ReceivedKeeps
<1>5. CASE Goto(c, IF join = [phase |-> "JoiningPrepared", id |-> id] THEN "ice" ELSE "prepare",
                <<DoFor("Launched", id), Do("clear")>>)
  <2>1. Script(<<DoFor("Launched", id), Do("clear")>>, {"Launched", "clear"})
    BY <1>2, ShortScripts
  <2>2. PICK to \in {"ice", "prepare"} : Goto(c, to, <<DoFor("Launched", id), Do("clear")>>)
    BY <1>5
  <2>3. QED
    BY <1>4, <2>1, <2>2
<1>6. CASE Goto(c, "recv", <<DoFor("Launched", id)>> \o LaunchFailure)
  BY <1>2, <1>4, <1>6, FailureScripts
<1>7. QED
  BY <1>1, <1>5, <1>6

LEMMA ConnectCommandKeeps ==
  ASSUME IInv, NEW c \in ConnectTask, ConnectCommand(c)
  PROVE  IInv'
<1> USE DEF IInv
<1> DEFINE s == <<Do("Connecting"), Do("portConnect")>>
<1>1. /\ At(c, "new") /\ ~lobbyActive /\ lobbyActive' = TRUE /\ Goto(c, "recv", s)
      /\ UNCHANGED <<appState, joinActive, joinCancelled, outcome, order, socket, game, history>>
  BY DEF ConnectCommand
<1>2. Script(s, {"Connecting", "portConnect"})
  BY ShortScripts
<1> HIDE DEF s
<1>3. c \in Task /\ c \notin Launch /\ c \notin JoinTask /\ "recv" \in Label
  BY KindsDiffer DEF Task, Label
<1>4. GoesTo(c, "new", "recv", s, {"Connecting", "portConnect"})
  BY <1>1, <1>2, <1>3 DEF GoesTo
<1>5. Moved(c, "new", "recv", s, {"Connecting", "portConnect"})
  BY <1>3, <1>4, MoveProgram
<1>6. KeepsGame(c, "new", "recv", {"Connecting", "portConnect"}) /\ "recv" \notin InLaunch
  BY DEF KeepsGame, InLaunch, Starting
<1>7. TypeOK'
  BY <1>1, <1>5 DEF Moved, Tasks, TypeOK, appState, socket, game, history
<1>8. Labels'
  BY <1>3, <1>5, KindsDiffer DEF Moved, Tasks, Labels, Task, ConnectLabel
<1>9. Scripts'
  <2>1. ASSUME NEW b \in Task
        PROVE  Scripted(b)'
    <3>1. CASE b = c
      BY <1>5, <3>1 DEF Moved, Scripted
    <3>2. CASE b # c
      <4>1. todo'[b] = todo[b] /\ pc'[b] = pc[b]
        BY <1>5, <3>2 DEF Moved
      <4>2. QED
        BY <4>1 DEF Tasks, Scripts, Scripted
    <3>3. QED
      BY <3>1, <3>2
  <2>2. QED
    BY <2>1 DEF Scripts
<1>10. /\ \A d \in ConnectTask : ~InLoop(d)
       /\ \A d \in ConnectTask \ {c} : pc'[d] = pc[d] /\ todo'[d] = todo[d]
       /\ pc'[c] = "recv"
  BY <1>1, <1>5 DEF Moved, Tasks, OneLoop, Task
<1>11. OneLoop'
  <2>1. \A d \in ConnectTask : InLoop(d)' <=> d = c
    BY <1>10 DEF InLoop
  <2>2. QED
    BY <1>1, <2>1 DEF OneLoop
<1>12. LaunchKnown'
  <2>1. \A d \in ConnectTask : pc'[d] \notin InLaunch
    BY <1>10 DEF InLoop, InLaunch, Starting
  <2>2. QED
    BY <1>1, <2>1 DEF Tasks, LaunchKnown, socket
<1>13. Games'
  BY <1>1, <1>3, <1>4, <1>6, MoveGames DEF appState, game
<1>14. CallingOff'
  <2>1. \A t \in JoinTask : pc'[t] = pc[t]
    BY <1>3, <1>5 DEF Moved, Task
  <2>2. QED
    BY <1>1, <2>1 DEF Joins, CallingOff, history
<1>15. Linked'
  <2>1. stream = "closed" /\ updates = <<>>
    BY <1>10 DEF Joins, Linked, InLoop
  <2>2. QED
    BY <1>1, <2>1 DEF Joins, Linked, socket
<1>16. Answered'
  <2>1. Due("Connecting")'
    BY <1>3, <1>5 DEF Moved, Due
  <2>2. QED
    BY <2>1 DEF Answered, Answerable, EndsJoining
<1>17. QED
  BY <1>7, <1>8, <1>9, <1>11, <1>12, <1>13, <1>14, <1>15, <1>16 DEF Tasks, Joins

LEMMA LoopEndsKeeps ==
  ASSUME IInv, NEW c \in ConnectTask, LoopEnds(c)
  PROVE  IInv'
<1> USE DEF IInv
<1> DEFINE s == <<Do("finishLobby"), Do("finishJoin"), Do("Disconnected")>>
           does == {"finishLobby", "finishJoin", "Disconnected"}
<1>1. /\ At(c, "recv") /\ stream = "closed" /\ updates = <<>> /\ Goto(c, "new", s)
      /\ UNCHANGED <<appState, flags, outcome, order, socket, game, history>>
  BY DEF LoopEnds, Idle
<1>2. Script(s, does)
  BY ShortScripts
<1> HIDE DEF s
<1>3. c \in Task /\ c \notin Launch /\ c \notin JoinTask /\ "new" \in Label
  BY KindsDiffer DEF Task, Label
<1>4. GoesTo(c, "recv", "new", s, does)
  BY <1>1, <1>2, <1>3 DEF GoesTo
<1>5. Moved(c, "recv", "new", s, does)
  BY <1>3, <1>4, MoveProgram
<1>6. KeepsGame(c, "recv", "new", does) /\ "new" \notin InLaunch
  BY DEF KeepsGame, InLaunch, Starting
<1>7. TypeOK'
  BY <1>1, <1>5 DEF Moved, Tasks, TypeOK, appState, flags, socket, game, history
<1>8. Labels'
  BY <1>3, <1>5, KindsDiffer DEF Moved, Tasks, Labels, Task, ConnectLabel
<1>9. Scripts'
  <2>1. ASSUME NEW b \in Task
        PROVE  Scripted(b)'
    <3>1. CASE b = c
      BY <1>5, <3>1 DEF Moved, Scripted
    <3>2. CASE b # c
      <4>1. todo'[b] = todo[b] /\ pc'[b] = pc[b]
        BY <1>5, <3>2 DEF Moved
      <4>2. QED
        BY <4>1 DEF Tasks, Scripts, Scripted
    <3>3. QED
      BY <3>1, <3>2
  <2>2. QED
    BY <2>1 DEF Scripts
<1>10. OneLoop'
  <2>1. \A d \in ConnectTask : InLoop(d)' <=> InLoop(d)
    <3>1. \A d \in ConnectTask \ {c} : pc'[d] = pc[d] /\ todo'[d] = todo[d]
      BY <1>5 DEF Moved, Task
    <3>2. InLoop(c) /\ InLoop(c)'
      BY <1>1, <1>5 DEF InLoop, Moved, At
    <3>3. QED
      BY <3>1, <3>2 DEF InLoop
  <2>2. QED
    BY <1>1, <2>1 DEF Tasks, OneLoop, flags
<1>11. LaunchKnown'
  <2>1. \A d \in ConnectTask : pc'[d] \in InLaunch => pc[d] \in InLaunch
    BY <1>5, <1>6 DEF Moved, Task
  <2>2. QED
    BY <1>1, <2>1 DEF Tasks, LaunchKnown, socket
<1>12. Games'
  BY <1>1, <1>3, <1>4, <1>6, MoveGames DEF appState, game
<1>13. CallingOff'
  <2>1. \A t \in JoinTask : pc'[t] = pc[t]
    BY <1>3, <1>5 DEF Moved, Task
  <2>2. QED
    BY <1>1, <2>1 DEF Joins, CallingOff, history, flags
<1>14. Linked'
  BY <1>1 DEF Joins, Linked, socket
<1>15. Answered'
  <2>1. Due("Disconnected")'
    BY <1>3, <1>5 DEF Moved, Due
  <2>2. QED
    BY <2>1 DEF Answered, Answerable, EndsJoining
<1>16. QED
  BY <1>7, <1>8, <1>9, <1>10, <1>11, <1>12, <1>13, <1>14, <1>15 DEF Tasks, Joins

LEMMA LaunchMoveKeeps ==
  ASSUME IInv, NEW c \in ConnectTask, NEW from \in {"check", "ice", "spawn", "start"},
         NEW to \in {"recv", "ice", "start"}, NEW s, NEW does, Script(s, does),
         At(c, from), Goto(c, to, s), Idle,
         from \in {"spawn", "start"} => to = "start" \/ "iceStop" \in does,
         does \cap {"InGame", "finishLobby", "portConnect", "Joining", "JoiningPrepared"} = {}
  PROVE  IInv'
<1>1. /\ Plainly(c, from, to, does) /\ KeepsGame(c, from, to, does) /\ from \in InLaunch
      /\ c \in Task
  BY DEF Plainly, KeepsGame, ConnectLabel, InLaunch, Starting, Task
<1>2. KeepsJoin(c, from, to, does)
  BY KindsDiffer, <1>1 DEF KeepsJoin
<1>3. QED
  BY <1>1, <1>2, PlainMove, IdleKeeps DEF Moves

LEMMA StartIceKeeps ==
  ASSUME IInv, NEW c \in ConnectTask, StartIce(c)
  PROVE  IInv'
<1> USE DEF IInv
<1>1. /\ At(c, "ice") /\ c \in Task
      /\ UNCHANGED <<appState, flags, outcome, order, socket, slot, alive, poller, signalled, history>>
  BY DEF StartIce, Task
<1>2. CASE ice' = order[c].launch /\ Goto(c, "spawn", <<>>)
  <2>1. Moves(c, "ice", "spawn", <<>>, {}) /\ KeepsGame(c, "ice", "spawn", {})
    BY <1>1, <1>2, Nothing DEF Moves, Plainly, KeepsGame, ConnectLabel, InLaunch, Starting
  <2>2. KeepsJoin(c, "ice", "spawn", {})
    BY KindsDiffer, <1>1 DEF KeepsJoin
  <2>3. GoesTo(c, "ice", "spawn", <<>>, {}) /\ Moved(c, "ice", "spawn", <<>>, {})
    BY <1>1, <2>1, MovesGoes, MoveProgram
  <2>4. TypeOK'
    <3>1. ice' \in Launch \cup {None}
      BY <1>2 DEF Tasks, TypeOK
    <3>2. QED
      BY <1>1, <2>3, <3>1 DEF Moved, Tasks, TypeOK, appState, flags, socket, history
  <2>5. Labels' /\ Scripts' /\ OneLoop'
    BY <1>1, <2>1, MoveTasks DEF flags
  <2>6. LaunchKnown'
    <3>1. \A d \in ConnectTask : pc'[d] \in InLaunch => pc[d] \in InLaunch
      BY <1>1, <2>3 DEF Moved, Task, At, InLaunch, Starting
    <3>2. QED
      BY <1>1, <3>1 DEF Tasks, LaunchKnown, socket
  <2>7. Served'
    BY <1>1, <2>3 DEF Served, Moved, Starting
  <2>8. Games'
    BY <1>1, <2>1, <2>3, <2>7, MoveGames DEF appState
  <2>9. Joins'
    BY <1>1, <2>1, <2>2, MoveJoins DEF appState, flags, socket, history
  <2>10. QED
    BY <2>4, <2>5, <2>6, <2>8, <2>9 DEF Tasks
<1>3. CASE UNCHANGED ice /\ Goto(c, "recv", LaunchFailure)
  <2>1. Idle
    BY <1>1, <1>3 DEF Idle, game
  <2>2. QED
    BY <1>1, <1>3, <2>1, FailureScripts, LaunchMoveKeeps
<1>4. QED
  BY <1>2, <1>3 DEF StartIce

LEMMA LaunchGameChecksKeeps ==
  ASSUME IInv, NEW c \in ConnectTask, LaunchGameChecks(c)
  PROVE  IInv'
<1>1. At(c, "spawn") /\ Idle
  BY DEF LaunchGameChecks
<1>2. CASE Goto(c, "start", <<>>)
  BY <1>1, <1>2, Nothing, LaunchMoveKeeps
<1>3. CASE Goto(c, "recv", <<Do("iceStop")>> \o LaunchFailure)
  BY <1>1, <1>3, FailureScripts, LaunchMoveKeeps
<1>4. QED
  BY <1>2, <1>3 DEF LaunchGameChecks

\* The launch under way is known, and leads from one label to the next.
LEMMA LaunchMoveTasks ==
  ASSUME IInv, NEW c \in ConnectTask,
         \/ At(c, "start") /\ Goto(c, "replace", <<>>)
         \/ At(c, "replace") /\ Goto(c, "announce", <<>>),
         UNCHANGED <<appState, flags, outcome, order, socket, ice, poller, history>>,
         slot' \in Launch \cup {None}, alive' \subseteq Launch, signalled' \subseteq alive'
  PROVE  /\ Tasks' /\ Joins'
         /\ order[c].launch \in Launch /\ order[c].launch # None
         /\ \A d \in ConnectTask : d # c => pc'[d] = pc[d] /\ todo'[d] = todo[d]
         /\ \A n \in Launch : pc'[n] = pc[n]
         /\ Effects(todo[c]) = {}
         /\ \/ pc[c] = "start" /\ pc'[c] = "replace"
            \/ pc[c] = "replace" /\ pc'[c] = "announce"
         /\ \A what : Due(what) => Due(what)'
<1> USE DEF IInv
<1>1. PICK from \in {"start", "replace"}, to \in {"replace", "announce"} :
        /\ At(c, from) /\ Goto(c, to, <<>>)
        /\ \/ from = "start" /\ to = "replace"
           \/ from = "replace" /\ to = "announce"
  OBVIOUS
<1>2. c \in Task
  BY DEF Task
<1>3. Moves(c, from, to, <<>>, {})
  BY <1>1, Nothing DEF Moves, Plainly, ConnectLabel, InLaunch, Starting
<1>4. Moved(c, from, to, <<>>, {}) /\ KeepsJoin(c, from, to, {})
  BY <1>2, <1>3, MovesGoes, MoveProgram, KindsDiffer DEF KeepsJoin
<1>5. TypeOK'
  BY <1>4 DEF Moved, Tasks, TypeOK, appState, flags, socket, history
<1>6. Labels' /\ Scripts' /\ OneLoop'
  BY <1>2, <1>3, MoveTasks DEF flags
<1>7. \A d \in ConnectTask : d # c => pc'[d] = pc[d] /\ todo'[d] = todo[d]
  BY <1>4 DEF Moved, Task
<1>8. pc[c] = from /\ pc'[c] = to /\ Effects(todo[c]) = {}
  BY <1>4 DEF Moved
<1>9. LaunchKnown'
  <2>1. \A d \in ConnectTask : pc'[d] \in InLaunch => pc[d] \in InLaunch
    BY <1>7, <1>8 DEF InLaunch, Starting
  <2>2. QED
    BY <2>1 DEF Tasks, LaunchKnown, socket
<1>10. order[c].launch \in Launch /\ order[c].launch # None
  BY <1>8 DEF Tasks, TypeOK, LaunchKnown, InLaunch, Starting
<1>11. \A n \in Launch : pc'[n] = pc[n]
  BY <1>4, KindsDiffer DEF Moved, Task
<1>12. Joins'
  BY <1>2, <1>3, <1>4, MoveJoins DEF appState, flags, socket, history
<1>13. \A what : Due(what) => Due(what)'
  BY <1>4 DEF Moved, Due
<1>14. QED
  BY <1>1, <1>5, <1>6, <1>7, <1>8, <1>9, <1>10, <1>11, <1>12, <1>13 DEF Tasks

LEMMA LaunchGameKeeps ==
  ASSUME IInv, NEW c \in ConnectTask, LaunchGame(c)
  PROVE  IInv'
<1> USE DEF IInv
<1> DEFINE n == order[c].launch
<1>1. /\ At(c, "start")
      /\ UNCHANGED <<appState, flags, outcome, order, socket, ice, slot, poller, signalled, history>>
  BY DEF LaunchGame
<1>2. CASE alive' = alive \cup {n} /\ Goto(c, "replace", <<>>)
  <2>1. n \in Launch
    BY <1>1 DEF Tasks, TypeOK, LaunchKnown, At, InLaunch, Starting
  <2>2. slot' \in Launch \cup {None} /\ alive' \subseteq Launch /\ signalled' \subseteq alive'
    BY <1>1, <1>2, <2>1 DEF Tasks, TypeOK
  <2>3. /\ Tasks' /\ Joins' /\ pc[c] = "start" /\ pc'[c] = "replace" /\ Effects(todo[c]) = {}
        /\ \A d \in ConnectTask : d # c => pc'[d] = pc[d] /\ todo'[d] = todo[d]
        /\ \A m \in Launch : pc'[m] = pc[m]
        /\ \A what : Due(what) => Due(what)'
    BY <1>1, <1>2, <2>2, LaunchMoveTasks DEF At
  <2>4. NoOrphanGame'
    BY <1>1, <1>2, <2>3 DEF Games, NoOrphanGame
  <2>5. Watched'
    BY <1>1, <2>3 DEF Games, Watched
  <2>6. Served'
    BY <2>3 DEF Served, Starting
  <2>7. join.phase # "InGame" /\ join' = join
    BY <1>1, <2>3 DEF Games, NotYetInGame, InLaunch, Starting, appState
  <2>8. NotYetInGame' /\ Backed'
    BY <2>7 DEF NotYetInGame, Backed
  <2>9. QED
    BY <2>3, <2>4, <2>5, <2>6, <2>8 DEF Games
<1>3. CASE UNCHANGED alive /\ Goto(c, "recv", <<Do("iceStop")>> \o LaunchFailure)
  <2>1. Idle
    BY <1>1, <1>3 DEF Idle, game
  <2>2. QED
    BY <1>1, <1>3, <2>1, FailureScripts, LaunchMoveKeeps
<1>4. QED
  BY <1>2, <1>3 DEF LaunchGame

LEMMA ReplaceChildKeeps ==
  ASSUME IInv, NEW c \in ConnectTask, ReplaceChild(c)
  PROVE  IInv'
<1> USE DEF IInv
<1> DEFINE n == order[c].launch
<1>1. /\ At(c, "replace") /\ Goto(c, "announce", <<>>)
      /\ signalled' = signalled \cup ({slot} \cap alive) /\ slot' = n
      /\ UNCHANGED <<appState, flags, outcome, order, socket, ice, alive, poller, history>>
  BY DEF ReplaceChild, Signal
<1>2. n \in Launch
  BY <1>1 DEF Tasks, TypeOK, LaunchKnown, At, InLaunch, Starting
<1>3. slot' \in Launch \cup {None} /\ alive' \subseteq Launch /\ signalled' \subseteq alive'
  BY <1>1, <1>2 DEF Tasks, TypeOK
<1>4. /\ Tasks' /\ Joins' /\ pc[c] = "replace" /\ pc'[c] = "announce" /\ Effects(todo[c]) = {}
      /\ \A d \in ConnectTask : d # c => pc'[d] = pc[d] /\ todo'[d] = todo[d]
      /\ \A m \in Launch : pc'[m] = pc[m]
      /\ n # None
  BY <1>1, <1>3, LaunchMoveTasks DEF At
<1> HIDE DEF n
<1>5. NoOrphanGame'
  <2>1. ASSUME NEW m \in alive
        PROVE  \/ m = slot' \/ m \in signalled'
               \/ \E d \in ConnectTask : pc'[d] = "replace" /\ order[d].launch = m
    <3>1. CASE m = slot \/ m \in signalled
      BY <1>1, <3>1
    <3>2. CASE \E d \in ConnectTask : pc[d] = "replace" /\ order[d].launch = m
      <4>1. PICK d \in ConnectTask : pc[d] = "replace" /\ order[d].launch = m
        BY <3>2
      <4>2. CASE d = c
        BY <1>1, <4>1, <4>2 DEF n
      <4>3. CASE d # c
        BY <1>4, <4>1, <4>3
      <4>4. QED
        BY <4>2, <4>3
    <3>3. QED
      BY <3>1, <3>2 DEF Games, NoOrphanGame
  <2>2. QED
    BY <1>1, <2>1 DEF NoOrphanGame
<1>6. Watched'
  BY <1>1, <1>4 DEF Games, Watched
<1>7. Served'
  BY <1>4 DEF Served, Starting
<1>8. NotYetInGame' /\ Backed'
  <2>1. join.phase # "InGame" /\ join' = join
    BY <1>1, <1>4 DEF Games, NotYetInGame, InLaunch, Starting, appState
  <2>2. QED
    BY <2>1 DEF NotYetInGame, Backed
<1>9. QED
  BY <1>4, <1>5, <1>6, <1>7, <1>8 DEF Games

LEMMA AnnounceGameKeeps ==
  ASSUME IInv, NEW c \in ConnectTask, AnnounceGame(c)
  PROVE  IInv'
<1> USE DEF IInv
<1> DEFINE n == order[c].launch
<1>1. /\ At(c, "announce") /\ c \in Task
      /\ poller' = poller \cup {n}
      /\ pc' = [pc EXCEPT ![c] = "recv", ![n] = "waiting"]
      /\ join' = JoinAfter(Do("InGame"))
      /\ todo' = [todo EXCEPT ![c] = <<Do("finishJoin")>>]
      /\ UNCHANGED <<status, flags, outcome, order, socket, ice, slot, alive, signalled, history>>
  BY DEF AnnounceGame, Task
<1>2. n \in Launch /\ n # None /\ n \in Task /\ c \notin Launch /\ c # n
  BY <1>1, KindsDiffer DEF Tasks, TypeOK, LaunchKnown, At, InLaunch, Starting, Task
<1> HIDE DEF n
<1>3. join' = [phase |-> "InGame", id |-> None]
  BY <1>1 DEF JoinAfter, Do, JoinPhase
<1>4. Script(<<Do("finishJoin")>>, {"finishJoin"})
  BY ShortScripts
<1>5. /\ pc \in [Task -> Label] /\ todo \in [Task -> Seq(Effect)]
      /\ pc[c] = "announce"
      /\ pc' \in [Task -> Label] /\ todo' \in [Task -> Seq(Effect)]
      /\ pc'[c] = "recv" /\ pc'[n] = "waiting"
      /\ \A b \in Task \ {c, n} : pc'[b] = pc[b]
      /\ \A b \in Task \ {c} : todo'[b] = todo[b]
      /\ Effects(todo'[c]) = {"finishJoin"} /\ Shape(todo'[c])
  BY <1>1, <1>2, <1>4 DEF Tasks, TypeOK, Label, At, Script
<1>6. TypeOK'
  <2>1. join' \in [phase : JoinPhase, id : GameId \cup {None}] /\ poller' \subseteq Launch
    BY <1>1, <1>2, <1>3 DEF Tasks, TypeOK, JoinPhase
  <2>2. pc' \in [Task -> Label] /\ todo' \in [Task -> Seq(Effect)]
    BY <1>5
  <2>3. UNCHANGED <<status, flags, outcome, order, socket, ice, slot, alive, signalled, history>>
    BY <1>1
  <2>4. QED
    BY <2>1, <2>2, <2>3 DEF Tasks, TypeOK, flags, socket, history
<1>7. Labels'
  <2>1. pc'[c] \in ConnectLabel /\ pc'[n] \in LaunchLabel
    BY <1>5 DEF ConnectLabel, LaunchLabel
  <2>2. \A b \in Task : b = c \/ b = n \/ pc'[b] = pc[b]
    BY <1>5
  <2>3. QED
    BY <1>1, <1>2, <2>1, <2>2, KindsDiffer DEF Tasks, Labels, Task
<1>8. Scripts'
  <2>1. ASSUME NEW b \in Task
        PROVE  Scripted(b)'
    <3>1. CASE b = c
      BY <1>5, <3>1 DEF Scripted
    <3>2. CASE b = n
      <4>1. todo'[b] = todo[b] /\ b \notin ConnectTask /\ b \notin JoinTask
        BY <1>2, <1>5, <3>2, KindsDiffer
      <4>2. QED
        BY <4>1 DEF Tasks, Scripts, Scripted
    <3>3. CASE b \notin {c, n}
      <4>1. todo'[b] = todo[b] /\ pc'[b] = pc[b]
        BY <1>5, <3>3
      <4>2. QED
        BY <4>1 DEF Tasks, Scripts, Scripted
    <3>4. QED
      BY <3>1, <3>2, <3>3
  <2>2. QED
    BY <2>1 DEF Scripts
<1>9. \A d \in ConnectTask \ {c} : d \in Task /\ pc'[d] = pc[d] /\ todo'[d] = todo[d]
  BY <1>2, <1>5, KindsDiffer DEF Task
<1>10. \A d \in ConnectTask : InLoop(d)' <=> InLoop(d)
  BY <1>5, <1>9 DEF InLoop
<1>11. OneLoop'
  BY <1>1, <1>10 DEF Tasks, OneLoop, flags
<1>12. \A d \in ConnectTask : pc'[d] \notin InLaunch
  <2>1. \A d \in ConnectTask : d # c => pc[d] = "new"
    BY <1>1, <1>5 DEF Tasks, OneLoop, InLoop
  <2>2. QED
    BY <1>5, <1>9, <2>1 DEF InLaunch, Starting
<1>13. LaunchKnown'
  BY <1>1, <1>12 DEF Tasks, LaunchKnown, socket
<1>14. NoOrphanGame'
  <2>1. \A d \in ConnectTask : pc[d] = "replace" => pc'[d] = "replace"
    BY <1>5, <1>9
  <2>2. QED
    BY <1>1, <2>1 DEF Games, NoOrphanGame
<1>15. Watched'
  <2>1. \A m \in Launch : m # n => pc'[m] = pc[m]
    BY <1>2, <1>5, KindsDiffer DEF Task
  <2>2. QED
    BY <1>1, <1>2, <1>5, <2>1 DEF Games, Watched
<1>16. Served' /\ Backed'
  BY <1>2, <1>5 DEF Served, Backed
<1>17. NotYetInGame'
  BY <1>12 DEF NotYetInGame
<1>18. CallingOff'
  <2>1. \A t \in JoinTask : pc'[t] = pc[t]
    BY <1>1, <1>2, <1>5, KindsDiffer DEF Task
  <2>2. QED
    BY <1>1, <2>1 DEF Joins, CallingOff, flags, history
<1>19. Linked'
  <2>1. Due("portConnect")' => Due("portConnect")
    <3>1. \A b \in Task : "portConnect" \in Effects(todo'[b]) => todo'[b] = todo[b]
      BY <1>5
    <3>2. QED
      BY <3>1 DEF Due
  <2>2. QED
    BY <1>1, <1>5, <2>1 DEF Joins, Linked, socket
<1>20. Answered'
  BY <1>3 DEF Answered
<1>21. QED
  BY <1>6, <1>7, <1>8, <1>11, <1>13, <1>14, <1>15, <1>16, <1>17, <1>18, <1>19, <1>20
     DEF Tasks, Games, Joins

LEMMA ConnectKeeps ==
  ASSUME IInv, NEW c \in ConnectTask, Connect(c)
  PROVE  IInv'
<1>1. CASE ConnectCommand(c)
  BY <1>1, ConnectCommandKeeps
<1>2. CASE HandlePlain(c)
  BY <1>2, HandlePlainKeeps
<1>3. CASE HandleLaunch(c)
  BY <1>3, HandleLaunchKeeps
<1>4. CASE LoopEnds(c)
  BY <1>4, LoopEndsKeeps
<1>5. CASE Preparation(c)
  BY <1>5, PreparationKeeps DEF Prepares, Task
<1>6. CASE LaunchChecksCancel(c)
  <2>1. At(c, "check") /\ Idle
    BY <1>6 DEF LaunchChecksCancel
  <2>2. CASE joinCancelled
    <3>1. Goto(c, "recv", <<Do("iceStop"), Do("finishJoin")>>)
      BY <1>6, <2>2 DEF LaunchChecksCancel
    <3>2. QED
      BY <2>1, <3>1, ShortScripts, LaunchMoveKeeps
  <2>3. CASE ~joinCancelled
    <3>1. Goto(c, "ice", <<>>)
      BY <1>6, <2>3 DEF LaunchChecksCancel
    <3>2. QED
      BY <2>1, <3>1, Nothing, LaunchMoveKeeps
  <2>4. QED
    BY <2>2, <2>3
<1>7. CASE StartIce(c)
  BY <1>7, StartIceKeeps
<1>8. CASE LaunchGameChecks(c) \/ LaunchGame(c)
  BY <1>8, LaunchGameChecksKeeps, LaunchGameKeeps
<1>9. CASE ReplaceChild(c)
  BY <1>9, ReplaceChildKeeps
<1>10. CASE AnnounceGame(c)
  BY <1>10, AnnounceGameKeeps
<1>11. QED
  BY <1>1, <1>2, <1>3, <1>4, <1>5, <1>6, <1>7, <1>8, <1>9, <1>10 DEF Connect

-----------------------------------------------------------------------------
(* Game processes *)

LEMMA GameExitsKeeps ==
  ASSUME IInv, NEW n \in Launch, GameExits(n)
  PROVE  IInv'
<1> USE DEF IInv
<1>1. /\ alive' = alive \ {n} /\ signalled' = signalled \ {n}
      /\ UNCHANGED <<appState, flags, program, socket, ice, slot, poller, history>>
  BY DEF GameExits
<1>2. /\ UNCHANGED <<status, join, lobbyActive, joinActive, joinCancelled, pc, todo, outcome, order>>
      /\ UNCHANGED <<stream, token, port, outgoing, updates, drops, ice, slot, poller>>
      /\ UNCHANGED <<prepared, calledOff, revived>>
  BY <1>1 DEF appState, flags, program, socket, history
<1>3. Tasks'
  BY <1>1, <1>2 DEF Tasks, TypeOK, Labels, Scripts, Scripted, OneLoop, InLoop, LaunchKnown
<1>4. Games'
  <2>1. Due("iceStop")' <=> Due("iceStop")
    BY <1>2 DEF Due
  <2>2. Due("GameTerminated")' <=> Due("GameTerminated")
    BY <1>2 DEF Due
  <2>3. QED
    BY <1>1, <1>2, <2>1, <2>2 DEF Games, NoOrphanGame, Watched, Served, NotYetInGame, Backed
<1>5. Joins'
  <2>1. \A what : Due(what)' <=> Due(what)
    BY <1>2 DEF Due
  <2>2. QED
    BY <1>1, <1>2, <2>1 DEF Joins, CallingOff, Linked, Answered, Answerable
<1>6. QED
  BY <1>3, <1>4, <1>5

LEMMA PollKeeps ==
  ASSUME IInv, NEW n \in Launch, Poll(n)
  PROVE  IInv'
<1> USE DEF IInv
<1>1. /\ n \in poller /\ slot \notin alive /\ slot' = None /\ poller' = poller \ {n}
      /\ pc' = [a \in Task |-> IF a \in Launch /\ pc[a] = "waiting" THEN "done" ELSE pc[a]]
      /\ todo' = [a \in Task |-> IF a \in Launch /\ pc[a] = "waiting" THEN Woken(a) ELSE todo[a]]
      /\ UNCHANGED <<appState, flags, outcome, order, socket, ice, alive, signalled, history>>
  BY DEF Poll
<1>2. /\ UNCHANGED <<status, join, lobbyActive, joinActive, joinCancelled, outcome, order>>
      /\ UNCHANGED <<stream, token, port, outgoing, updates, drops, ice, alive, signalled>>
      /\ UNCHANGED <<prepared, calledOff, revived>>
  BY <1>1 DEF appState, flags, socket, history
<1> DEFINE Woke(a) == a \in Launch /\ pc[a] = "waiting"
<1>3. \A a \in Task : /\ Woke(a) => /\ pc'[a] = "done" /\ todo'[a] = Woken(a)
                                    /\ Script(todo'[a], {"iceStop", "GameTerminated"})
                      /\ ~Woke(a) => pc'[a] = pc[a] /\ todo'[a] = todo[a]
  BY <1>1, ShortScripts
<1>4. \A a \in Task : a \notin Launch => pc'[a] = pc[a] /\ todo'[a] = todo[a]
  BY <1>3
<1>5. \A a \in Task : Woke(a) => /\ Shape(todo'[a]) /\ todo'[a] \in Seq(Effect)
                                 /\ Effects(todo'[a]) = {"iceStop", "GameTerminated"}
  BY <1>3 DEF Script
<1>6. TypeOK'
  <2>1. pc' \in [Task -> Label]
    BY <1>1 DEF Tasks, TypeOK, Label
  <2>2. todo' \in [Task -> Seq(Effect)]
    <3>1. \A a \in Task : todo'[a] \in Seq(Effect)
      BY <1>3, <1>5 DEF Tasks, TypeOK
    <3>2. QED
      BY <1>1, <3>1
  <2>3. QED
    BY <1>1, <1>2, <2>1, <2>2 DEF Tasks, TypeOK
<1>7. Labels'
  <2>1. \A a \in Launch : pc'[a] \in LaunchLabel
    BY <1>3 DEF Tasks, Labels, LaunchLabel, Task
  <2>2. \A a \in Task : a \notin Launch => pc'[a] = pc[a]
    BY <1>4
  <2>3. QED
    BY <2>1, <2>2, KindsDiffer DEF Tasks, Labels, Task
<1>8. Scripts'
  <2>1. ASSUME NEW b \in Task
        PROVE  Scripted(b)'
    <3>1. CASE Woke(b)
      <4>1. Shape(todo'[b]) /\ Effects(todo'[b]) = {"iceStop", "GameTerminated"}
        BY <1>5, <3>1 DEF Scripted
      <4>2. QED
        BY <4>1 DEF Scripted
    <3>2. CASE ~Woke(b)
      <4>1. todo'[b] = todo[b] /\ pc'[b] = pc[b]
        BY <1>3, <3>2
      <4>2. QED
        BY <4>1 DEF Tasks, Scripts, Scripted
    <3>3. QED
      BY <3>1, <3>2
  <2>2. QED
    BY <2>1 DEF Scripts
<1>9. \A c \in ConnectTask : pc'[c] = pc[c] /\ todo'[c] = todo[c]
  BY <1>4, KindsDiffer DEF Task
<1>10. OneLoop' /\ LaunchKnown'
  BY <1>2, <1>9 DEF Tasks, OneLoop, InLoop, LaunchKnown
<1>11. \A what : Due(what) => Due(what)' \/ what \notin {"iceStop", "GameTerminated"} \cup EndsJoining
                                         \/ \E a \in Launch : Woke(a)
  BY <1>3 DEF Due, Task
<1>12. (\E a \in Launch : Woke(a)) => Due("iceStop")' /\ Due("GameTerminated")'
  BY <1>5 DEF Due, Task
<1>13. NoOrphanGame' /\ Watched'
  <2>1. NoOrphanGame'
    BY <1>1, <1>2, <1>9 DEF Games, NoOrphanGame
  <2>2. \A a \in Launch : pc'[a] # "waiting"
    BY <1>3 DEF Task
  <2>3. QED
    BY <1>1, <1>2, <2>1, <2>2 DEF Watched
<1>14. Served'
  BY <1>2, <1>9, <1>11, <1>12 DEF Games, Served, Watched, Starting
<1>15. NotYetInGame'
  BY <1>2, <1>9 DEF Games, NotYetInGame
<1>16. Backed'
  <2>1. ASSUME join.phase = "InGame", ~\E a \in Launch : Woke(a)
        PROVE  Due("GameTerminated")
    BY <2>1 DEF Games, Backed, Watched, NotYetInGame, InLaunch, Starting
  <2>2. QED
    BY <1>2, <1>11, <1>12, <2>1 DEF Backed
<1>17. CallingOff'
  <2>1. \A t \in JoinTask : pc'[t] = pc[t]
    BY <1>4, KindsDiffer DEF Task
  <2>2. QED
    BY <1>2, <2>1 DEF Joins, CallingOff
<1>18. Linked'
  <2>1. Due("portConnect")' => Due("portConnect")
    BY <1>3, <1>5 DEF Due
  <2>2. QED
    BY <1>2, <1>9, <2>1 DEF Joins, Linked
<1>19. Answered'
  <2>1. (\E what \in EndsJoining : Due(what)) => \E what \in EndsJoining : Due(what)'
    BY <1>11, <1>12 DEF EndsJoining
  <2>2. \A t \in JoinTask : pc'[t] = pc[t]
    BY <1>4, KindsDiffer DEF Task
  <2>3. Answerable => Answerable'
    BY <1>2, <1>9, <2>1, <2>2 DEF Answerable
  <2>4. QED
    BY <1>2, <2>3 DEF Joins, Answered
<1>20. QED
  BY <1>6, <1>7, <1>8, <1>10, <1>13, <1>14, <1>15, <1>16, <1>17, <1>18, <1>19 DEF Tasks,
      Games, Joins

-----------------------------------------------------------------------------
(* The connection and the server *)

\* An update more.
LEMMA OneMoreUpdate ==
  ASSUME Tasks, NEW kind, NEW id, NEW n, Push(kind, id, n), ~Blocked,
         [kind |-> kind, id |-> id, launch |-> n] \in Update
  PROVE  /\ updates' \in Seq(Update) /\ Len(updates') <= UpdateCap + 1
         /\ \A i \in DOMAIN updates' : updates'[i] = [kind |-> kind, id |-> id, launch |-> n]
                                       \/ \E j \in DOMAIN updates : updates'[i] = updates[j]
         /\ \A j \in DOMAIN updates : \E i \in DOMAIN updates' : updates'[i] = updates[j]
         /\ \E i \in DOMAIN updates' : updates'[i].kind = kind
<1> DEFINE u == [kind |-> kind, id |-> id, launch |-> n]
<1>1. /\ u \in Update /\ updates' = Append(updates, u) /\ Len(updates) <= UpdateCap
      /\ updates \in Seq(Update) /\ UpdateCap \in Nat /\ u.kind = kind
  BY CapAssumption DEF Tasks, TypeOK, Push, Blocked
<1> HIDE DEF u
<1>2. /\ updates' \in Seq(Update) /\ Len(updates') = Len(updates) + 1 /\ Len(updates) \in Nat
      /\ DOMAIN updates = 1..Len(updates) /\ DOMAIN updates' = 1..(Len(updates) + 1)
      /\ updates'[Len(updates) + 1] = u
      /\ \A i \in 1..Len(updates) : updates'[i] = updates[i]
  BY <1>1
<1>3. \A i \in DOMAIN updates' : i = Len(updates) + 1 \/ i \in DOMAIN updates
  BY <1>2
<1>4. \A j \in DOMAIN updates : j \in DOMAIN updates'
  BY <1>2
<1>5. Len(updates) + 1 \in DOMAIN updates' /\ Len(updates') <= UpdateCap + 1
  BY <1>1, <1>2
<1>6. QED
  BY <1>1, <1>2, <1>3, <1>4, <1>5 DEF u

\* A launch order leaves the server: nothing else is at a new label.
Orders(n) == n \in Launch /\ pc[n] = "new" /\ pc' = [pc EXCEPT ![n] = "ordered"]

LEMMA ServerLeavesTasks ==
  ASSUME IInv, pc' = pc \/ \E n \in Launch : Orders(n),
         UNCHANGED <<appState, flags, todo, outcome, order, token, game, history>>
  PROVE  /\ pc' \in [Task -> Label] /\ Labels' /\ Scripts' /\ OneLoop' /\ Games' /\ CallingOff'
         /\ \A t \in JoinTask \cup ConnectTask : pc'[t] = pc[t]
<1> USE DEF IInv
<1>1. /\ UNCHANGED <<status, join, lobbyActive, joinActive, joinCancelled, todo, outcome, order>>
      /\ UNCHANGED <<token, ice, slot, alive, poller, signalled, prepared, calledOff, revived>>
  BY DEF appState, flags, game, history
<1>2. /\ pc \in [Task -> Label] /\ pc' \in [Task -> Label]
      /\ \A a \in Task : a \notin Launch => pc'[a] = pc[a]
      /\ \A a \in Launch : pc'[a] = pc[a] \/ (pc[a] = "new" /\ pc'[a] = "ordered")
  BY DEF Orders, Tasks, TypeOK, Label, Task
<1>3. /\ \A t \in JoinTask \cup HostTask \cup UserTask \cup ConnectTask : pc'[t] = pc[t]
      /\ \A t \in JoinTask \cup ConnectTask : pc'[t] = pc[t]
  BY <1>2, KindsDiffer DEF Task
<1>4. Labels'
  BY <1>2, <1>3 DEF Tasks, Labels, LaunchLabel
<1>5. Scripts'
  <2>1. \A t \in JoinTask \cup ConnectTask : pc'[t] = pc[t]
    BY <1>3
  <2>2. QED
    BY <1>1, <2>1 DEF Tasks, Scripts, Scripted
<1>6. OneLoop'
  BY <1>1, <1>3 DEF Tasks, OneLoop, InLoop
<1>7. \A what : Due(what)' <=> Due(what)
  BY <1>1 DEF Due
<1>8. \A n \in Launch : pc'[n] = "waiting" <=> pc[n] = "waiting"
  BY <1>2
<1>9. Games'
  BY <1>1, <1>3, <1>7, <1>8 DEF Games, NoOrphanGame, Watched, Served, NotYetInGame, Backed
<1>10. CallingOff'
  BY <1>1, <1>3 DEF Joins, CallingOff
<1>11. QED
  BY <1>2, <1>3, <1>4, <1>5, <1>6, <1>9, <1>10

\* The connection speaks: an update comes in while the stream is open.
LEMMA PushKeeps ==
  ASSUME IInv, pc' = pc \/ \E n \in Launch : Orders(n),
         NEW kind, NEW id, NEW n, Push(kind, id, n), ~Blocked, [kind |-> kind, id |-> id, launch |-> n] \in Update,
         kind = "Launch" => n # None, stream # "closed",
         stream' \in {"opening", "up"}, stream = "dropped" => kind \in EndingUpdate,
         \/ outgoing' = outgoing
         \/ /\ outgoing' \in Seq(JoinTask \cup HostTask) /\ Len(outgoing') <= FrameCap
            /\ kind \in EndingUpdate,
         UNCHANGED <<appState, flags, todo, outcome, order, token, port, drops, game, history>>
  PROVE  IInv'
<1> USE DEF IInv
<1>1. /\ pc' \in [Task -> Label] /\ Labels' /\ Scripts' /\ OneLoop' /\ Games' /\ CallingOff'
      /\ \A t \in JoinTask \cup ConnectTask : pc'[t] = pc[t]
  BY ServerLeavesTasks
<1>2. TypeOK'
  BY <1>1, OneMoreUpdate DEF Tasks, TypeOK, appState, flags, game, history
<1>3. LaunchKnown'
  BY <1>1, OneMoreUpdate DEF Tasks, LaunchKnown
<1>4. \A what : Due(what)' <=> Due(what)
  BY DEF Due
<1>5. Linked'
  BY <1>1, <1>4 DEF Joins, Linked
<1>6. Answered'
  <2>1. CASE kind \in EndingUpdate
    BY <2>1, OneMoreUpdate DEF Answered, Answerable
  <2>2. CASE kind \notin EndingUpdate
    <3>1. (\E i \in DOMAIN updates : updates[i].kind \in EndingUpdate)
             => (\E i \in DOMAIN updates' : updates'[i].kind \in EndingUpdate)
      BY OneMoreUpdate
    <3>2. Answerable => Answerable'
      BY <1>1, <1>4, <2>2, <3>1 DEF Answerable
    <3>3. QED
      BY <3>2 DEF Joins, Answered, appState
  <2>3. QED
    BY <2>1, <2>2
<1>7. QED
  BY <1>1, <1>2, <1>3, <1>5, <1>6 DEF Tasks, Joins

LEMMA SessionKeeps ==
  ASSUME IInv, Session
  PROVE  IInv'
<1> USE DEF IInv
<1>1. CASE SessionOpens
  <2>1. [kind |-> "Authenticated", id |-> None, launch |-> None] \in Update
    BY DEF Update
  <2>2. QED
    BY <1>1, <2>1, PushKeeps DEF SessionOpens, program
<1>2. CASE SessionRetries
  <2>1. [kind |-> "Reconnecting", id |-> None, launch |-> None] \in Update
    BY DEF Update
  <2>2. QED
    BY <1>2, <2>1, PushKeeps DEF SessionRetries, program, EndingUpdate
<1>3. CASE SessionDrops \/ SessionEnds
  <2>1. /\ stream \in {"opening", "up", "dropped"} /\ outgoing' = <<>>
        /\ UNCHANGED <<appState, flags, program, token, updates, game, history>>
    BY <1>3 DEF SessionDrops, SessionEnds
  <2>2. /\ UNCHANGED <<status, join, lobbyActive, joinActive, joinCancelled, pc, todo, outcome, order>>
        /\ UNCHANGED <<token, updates, ice, slot, alive, poller, signalled, prepared, calledOff, revived>>
    BY <2>1 DEF appState, flags, program, game, history
  <2>3. /\ stream' \in {"closed", "dropped"} /\ port' \in BOOLEAN /\ drops' \in 0..MaxDrops
        /\ stream' = "closed" => ~port'
    <3>1. CASE SessionDrops
      <4>1. drops' = drops + 1 /\ drops < MaxDrops /\ drops \in 0..MaxDrops /\ MaxDrops \in Nat
        BY <3>1, CapAssumption DEF SessionDrops, Tasks, TypeOK
      <4>2. QED
        BY <3>1, <4>1 DEF SessionDrops, Tasks, TypeOK
    <3>2. CASE SessionEnds
      BY <3>2 DEF SessionEnds, Tasks, TypeOK
    <3>3. QED
      BY <1>3, <3>1, <3>2
  <2>4. TypeOK'
    <3>1. outgoing' \in Seq(JoinTask \cup HostTask) /\ Len(outgoing') <= FrameCap
      BY <2>1, CapAssumption
    <3>2. QED
      BY <2>1, <2>2, <2>3, <3>1 DEF Tasks, TypeOK
  <2>5. LaunchKnown'
    BY <2>2 DEF Tasks, LaunchKnown
  <2>6. /\ Labels' /\ Scripts' /\ OneLoop' /\ Games' /\ CallingOff'
    BY <2>1, <2>2, ServerLeavesTasks
  <2>7. \A what : Due(what)' <=> Due(what)
    BY <2>2 DEF Due
  <2>8. ~Due("portConnect") /\ \E c \in ConnectTask : pc[c] # "new"
    BY <2>1 DEF Joins, Linked
  <2>9. Linked'
    BY <2>1, <2>2, <2>3, <2>7, <2>8 DEF Joins, Linked
  <2>10. Answered'
    <3>1. \A c \in ConnectTask : "portConnect" \notin Effects(todo'[c])
      BY <2>2, <2>8 DEF Due, Task
    <3>2. Answerable'
      BY <2>2, <2>3, <2>8, <3>1 DEF Answerable
    <3>3. QED
      BY <3>2 DEF Answered
  <2>11. QED
    BY <2>4, <2>5, <2>6, <2>9, <2>10 DEF Tasks, Joins
<1>4. QED
  BY <1>1, <1>2, <1>3 DEF Session

LEMMA ServerKeeps ==
  ASSUME IInv, Server
  PROVE  IInv'
<1> USE DEF IInv
<1>1. ASSUME NEW id \in GameId, NEW m \in Launch, pc[m] = "new", pc' = [pc EXCEPT ![m] = "ordered"],
             Push("Launch", id, m), stream = "up", ~Blocked,
             outgoing' \in Seq(JoinTask \cup HostTask), Len(outgoing') <= FrameCap,
             UNCHANGED <<appState, flags, todo, outcome, order, stream, token, port, drops, game, history>>
      PROVE  IInv'
  <2>1. [kind |-> "Launch", id |-> id, launch |-> m] \in Update /\ m # None
    BY TasksDiffer DEF Update, Task
  <2>2. \E n \in Launch : Orders(n)
    BY <1>1 DEF Orders
  <2>3. QED
    BY <1>1, <2>1, <2>2, PushKeeps DEF EndingUpdate
<1>2. CASE ServerAnswers
  <2>1. /\ stream = "up" /\ ~Blocked /\ outgoing # <<>> /\ outgoing' = Tail(outgoing)
        /\ \/ PushLaunch(Head(outgoing))
           \/ Head(outgoing) \in JoinTask /\ Push("JoinFailed", Head(outgoing), None) /\ UNCHANGED pc
        /\ UNCHANGED <<appState, flags, todo, outcome, order, stream, token, port, drops, game, history>>
    BY <1>2 DEF ServerAnswers
  <2>2. /\ Head(outgoing) \in JoinTask \cup HostTask /\ outgoing' \in Seq(JoinTask \cup HostTask)
        /\ Len(outgoing') <= FrameCap
    <3>1. outgoing \in Seq(JoinTask \cup HostTask) /\ Len(outgoing) <= FrameCap /\ FrameCap \in Nat
      BY CapAssumption DEF Tasks, TypeOK
    <3>2. QED
      BY <2>1, <3>1
  <2>3. CASE PushLaunch(Head(outgoing))
    <3>1. Head(outgoing) \in GameId
      BY <2>2 DEF GameId
    <3>2. PICK m \in Launch : /\ pc[m] = "new" /\ pc' = [pc EXCEPT ![m] = "ordered"]
                              /\ Push("Launch", Head(outgoing), m)
      BY <2>3 DEF PushLaunch
    <3>3. QED
      BY <1>1, <2>1, <2>2, <3>1, <3>2
  <2>4. CASE Head(outgoing) \in JoinTask /\ Push("JoinFailed", Head(outgoing), None) /\ UNCHANGED pc
    <3>1. [kind |-> "JoinFailed", id |-> Head(outgoing), launch |-> None] \in Update
      BY <2>4 DEF Update, GameId
    <3>2. QED
      BY <2>1, <2>2, <2>4, <3>1, PushKeeps DEF EndingUpdate
  <2>5. QED
    BY <2>1, <2>3, <2>4
<1>3. CASE ServerSpeaks
  <2>1. /\ stream = "up" /\ ~Blocked /\ outgoing' = outgoing
        /\ \/ PushLaunch(MatchGame)
           \/ \E notice \in Notice : Push(notice, None, None) /\ UNCHANGED pc
        /\ UNCHANGED <<appState, flags, todo, outcome, order, stream, token, port, drops, game, history>>
    BY <1>3 DEF ServerSpeaks
  <2>2. CASE PushLaunch(MatchGame)
    <3>1. /\ MatchGame \in GameId /\ outgoing' \in Seq(JoinTask \cup HostTask)
          /\ Len(outgoing') <= FrameCap
      BY <2>1 DEF GameId, Tasks, TypeOK
    <3>2. PICK m \in Launch : /\ pc[m] = "new" /\ pc' = [pc EXCEPT ![m] = "ordered"]
                              /\ Push("Launch", MatchGame, m)
      BY <2>2 DEF PushLaunch
    <3>3. QED
      BY <1>1, <2>1, <3>1, <3>2
  <2>3. CASE \E notice \in Notice : Push(notice, None, None) /\ UNCHANGED pc
    <3>1. PICK notice \in Notice : Push(notice, None, None) /\ UNCHANGED pc
      BY <2>3
    <3>2. [kind |-> notice, id |-> None, launch |-> None] \in Update /\ notice # "Launch"
      BY NoticesKnown DEF Update
    <3>3. QED
      BY <2>1, <3>1, <3>2, PushKeeps
  <2>4. QED
    BY <2>1, <2>2, <2>3
<1>4. QED
  BY <1>2, <1>3 DEF Server

-----------------------------------------------------------------------------
(* A task performs an effect *)

\* What the program of the task becomes, and what is due then.
LEMMA StepProgram ==
  ASSUME Tasks, NEW a \in Task, Step(a)
  PROVE  /\ todo[a] # <<>>
         /\ Head(todo[a]) \in Effect
         /\ pc' = pc
         /\ todo' \in [Task -> Seq(Effect)]
         /\ outcome' = outcome /\ order' = order
         /\ Shape(todo'[a]) /\ Effects(todo[a]) = {Head(todo[a]).do} \cup Effects(todo'[a])
         /\ Effects(todo'[a]) \cap {"kill", "finishLobby"} = {}
         /\ Head(todo[a]).do = "portConnect" => Effects(todo'[a]) = {}
         /\ \A b \in Task \ {a} : todo'[b] = todo[b]
         /\ \A b \in Task : Effects(todo'[b]) \subseteq Effects(todo[b])
         /\ \A what : Due(what)' => Due(what)
         /\ \A what : Due(what) => Due(what)' \/ what = Head(todo[a]).do
<1>1. /\ todo[a] # <<>> /\ todo' = [todo EXCEPT ![a] = Tail(@)] /\ pc' = pc
      /\ outcome' = outcome /\ order' = order
      /\ todo \in [Task -> Seq(Effect)] /\ todo[a] \in Seq(Effect) /\ Shape(todo[a])
  BY DEF Step, Tasks, TypeOK, Scripts, Scripted
<1>2. /\ Head(todo[a]) \in Effect /\ Tail(todo[a]) \in Seq(Effect) /\ Shape(Tail(todo[a]))
      /\ Effects(todo[a]) = {Head(todo[a]).do} \cup Effects(Tail(todo[a]))
      /\ Effects(Tail(todo[a])) \cap {"kill", "finishLobby"} = {}
      /\ Head(todo[a]).do = "portConnect" => Tail(todo[a]) = <<>>
  BY <1>1, Performed
<1>3. /\ todo' \in [Task -> Seq(Effect)] /\ todo'[a] = Tail(todo[a])
      /\ \A b \in Task \ {a} : todo'[b] = todo[b]
  BY <1>1, <1>2
<1>4. Effects(<<>>) = {}
  BY Nothing DEF Script
<1>5. \A b \in Task : Effects(todo'[b]) \subseteq Effects(todo[b])
  BY <1>2, <1>3
<1>6. \A what : Due(what)' => Due(what)
  BY <1>5 DEF Due
<1>7. \A what : Due(what) => Due(what)' \/ what = Head(todo[a]).do
  BY <1>2, <1>3 DEF Due
<1>8. QED
  BY <1>1, <1>2, <1>3, <1>4, <1>5, <1>6, <1>7

\* The programs stay well-formed whatever the effect.
LEMMA StepScripts ==
  ASSUME IInv, NEW a \in Task, Step(a)
  PROVE  Labels' /\ Scripts'
<1>1. /\ pc' = pc /\ Shape(todo'[a])
      /\ \A b \in Task \ {a} : todo'[b] = todo[b]
      /\ \A b \in Task : Effects(todo'[b]) \subseteq Effects(todo[b])
  BY StepProgram DEF IInv
<1>2. Labels'
  BY <1>1 DEF IInv, Tasks, Labels
<1>3. \A b \in Task : Shape(todo'[b])
  BY <1>1 DEF IInv, Tasks, Scripts, Scripted
<1>4. QED
  BY <1>1, <1>2, <1>3 DEF IInv, Tasks, Scripts, Scripted

LEMMA StepLoops ==
  ASSUME IInv, NEW a \in Task, Step(a),
         \/ Head(todo[a]).do = "finishLobby" /\ lobbyActive' = FALSE
         \/ Head(todo[a]).do # "finishLobby" /\ lobbyActive' = lobbyActive
  PROVE  OneLoop'
<1> DEFINE e == Head(todo[a])
<1>1. /\ pc' = pc /\ Effects(todo[a]) = {e.do} \cup Effects(todo'[a])
      /\ "finishLobby" \notin Effects(todo'[a])
      /\ \A b \in Task \ {a} : todo'[b] = todo[b]
  BY StepProgram DEF IInv
<1> HIDE DEF e
<1>2. CASE e.do = "finishLobby" /\ lobbyActive' = FALSE
  <2>1. a \in ConnectTask /\ pc[a] = "new" /\ InLoop(a)
    BY <1>1, <1>2 DEF IInv, Tasks, Scripts, Scripted, InLoop
  <2>2. \A c \in ConnectTask : ~InLoop(c)'
    BY <1>1, <2>1 DEF IInv, Tasks, OneLoop, InLoop, Task
  <2>3. QED
    BY <1>2, <2>2 DEF OneLoop
<1>3. CASE e.do # "finishLobby" /\ lobbyActive' = lobbyActive
  <2>1. \A c \in ConnectTask : InLoop(c)' <=> InLoop(c)
    BY <1>1, <1>3 DEF InLoop, Task
  <2>2. QED
    BY <1>3, <2>1 DEF IInv, Tasks, OneLoop
<1>4. QED
  BY <1>2, <1>3 DEF e

\* Where an event leaves the join.
LEMMA JoinAfterEvent ==
  ASSUME NEW e \in Effect, e.do \in EventName, join' = JoinAfter(e),
         join \in [phase : JoinPhase, id : GameId \cup {None}]
  PROVE  /\ join' \in [phase : JoinPhase, id : GameId \cup {None}]
         /\ join' = join \/ join'.phase = "Idle" \/ join'.phase = e.do
         /\ e.do \in JoinPhase => join'.phase = e.do
         /\ e.do = "GameTerminated" => join'.phase = "Idle"
         /\ /\ e.do \in {"Connecting", "Disconnected", "GameTerminated", "JoinCancelled"}
            /\ join.phase \in {"Joining", "JoiningPrepared"}
            => join'.phase = "Idle"
<1>1. e.id \in GameId \cup {None}
  BY DEF Effect
<1>2. CASE e.do \in JoinPhase
  <2>1. join' = [phase |-> e.do, id |-> e.id]
    BY <1>2 DEF JoinAfter
  <2>2. e.do \notin {"Connecting", "Disconnected", "GameTerminated", "JoinCancelled"}
    BY <1>2 DEF JoinPhase
  <2>3. QED
    BY <1>1, <1>2, <2>1, <2>2
<1>3. CASE e.do \notin JoinPhase
  <2>1. \/ join' = [phase |-> "Idle", id |-> None]
        \/ /\ join' = join
           /\ e.do \notin {"Connecting", "Disconnected", "GameTerminated"}
           /\ ~(e.do = "JoinCancelled" /\ join.phase \in {"Joining", "JoiningPrepared"})
    BY <1>3 DEF JoinAfter
  <2>2. QED
    BY <1>3, <2>1 DEF JoinPhase
<1>4. QED
  BY <1>2, <1>3

\* Effects that leave the games and the join on screen alone.
LEMMA StepLeavesGames ==
  ASSUME IInv, NEW a \in Task, Step(a), UNCHANGED <<join, game>>,
         Head(todo[a]).do \notin {"Launched", "iceStop", "GameTerminated"}
  PROVE  Games'
<1>1. /\ pc' = pc /\ order' = order
      /\ \A b \in Task : "Launched" \in Effects(todo[b]) => "Launched" \in Effects(todo'[b])
      /\ \A what \in {"iceStop", "GameTerminated"} : Due(what) => Due(what)'
  BY StepProgram DEF IInv
<1>2. UNCHANGED <<ice, slot, alive, poller, signalled, join>>
  BY DEF game
<1>3. QED
  BY <1>1, <1>2 DEF IInv, Games, NoOrphanGame, Watched, Served, NotYetInGame, Backed, Task

\* Effects that leave the joins, the cancels and the connection alone.
LEMMA StepLeavesJoins ==
  ASSUME IInv, NEW a \in Task, Step(a), UNCHANGED <<appState, joinCancelled, socket, revived>>,
         calledOff' \cap JoinTask = calledOff \cap JoinTask,
         Head(todo[a]).do \notin EndsJoining
  PROVE  Joins'
<1>1. /\ pc' = pc
      /\ \A what \in EndsJoining : Due(what) => Due(what)'
      /\ \A what : Due(what)' => Due(what)
      /\ \A b \in Task : Effects(todo'[b]) \subseteq Effects(todo[b])
  BY StepProgram DEF IInv
<1>2. UNCHANGED <<join, stream, token, port, outgoing, updates, drops>>
  BY DEF appState, socket
<1>3. CallingOff'
  BY <1>1 DEF IInv, Joins, CallingOff
<1>4. Linked'
  BY <1>1, <1>2 DEF IInv, Joins, Linked
<1>5. Answered'
  <2>1. Answerable => Answerable'
    BY <1>1, <1>2 DEF Answerable, Task
  <2>2. QED
    BY <1>2, <2>1 DEF IInv, Joins, Answered
<1>6. QED
  BY <1>3, <1>4, <1>5 DEF Joins

LEMMA EmitKeeps ==
  ASSUME IInv, NEW a \in Task, Step(a), Emit(Head(todo[a]))
  PROVE  IInv'
<1> DEFINE e == Head(todo[a])
<1>1. /\ e \in Effect /\ pc' = pc /\ todo' \in [Task -> Seq(Effect)]
      /\ outcome' = outcome /\ order' = order
      /\ Effects(todo[a]) = {e.do} \cup Effects(todo'[a])
      /\ \A b \in Task : Effects(todo'[b]) \subseteq Effects(todo[b])
      /\ \A b \in Task \ {a} : todo'[b] = todo[b]
      /\ \A what : Due(what)' => Due(what)
      /\ \A what : Due(what) => Due(what)' \/ what = e.do
  BY StepProgram DEF IInv
<1>2. /\ e.do \in EventName /\ join' = JoinAfter(e) /\ status' = StatusAfter(e)
      /\ UNCHANGED <<flags, socket, game, history>>
  BY DEF Emit
<1> HIDE DEF e
<1>3. /\ UNCHANGED <<lobbyActive, joinActive, joinCancelled, stream, token, port, outgoing, updates, drops>>
      /\ UNCHANGED <<ice, slot, alive, poller, signalled, prepared, calledOff, revived>>
  BY <1>2 DEF flags, socket, game, history
<1>4. join \in [phase : JoinPhase, id : GameId \cup {None}]
  BY DEF IInv, Tasks, TypeOK
<1>5. /\ join' \in [phase : JoinPhase, id : GameId \cup {None}]
      /\ join' = join \/ join'.phase = "Idle" \/ join'.phase = e.do
      /\ e.do \in JoinPhase => join'.phase = e.do
      /\ e.do = "GameTerminated" => join'.phase = "Idle"
      /\ /\ e.do \in {"Connecting", "Disconnected", "GameTerminated", "JoinCancelled"}
         /\ join.phase \in {"Joining", "JoiningPrepared"}
         => join'.phase = "Idle"
  BY <1>1, <1>2, <1>4, JoinAfterEvent
<1>6. e.do \notin CallName /\ e.do # "InGame"
  BY <1>1, <1>2 DEF EventName, CallName, JoinPhase, IInv, Tasks, Scripts, Scripted
<1>7. TypeOK'
  <2>1. status' \in {"Disconnected", "Connecting", "Connected"}
    BY <1>2 DEF StatusAfter, IInv, Tasks, TypeOK
  <2>2. QED
    BY <1>1, <1>3, <1>5, <2>1 DEF IInv, Tasks, TypeOK
<1>8. Labels' /\ Scripts'
  BY StepScripts
<1>9. OneLoop'
  BY <1>3, <1>6, StepLoops DEF e, CallName
<1>10. LaunchKnown'
  BY <1>1, <1>3 DEF IInv, Tasks, LaunchKnown
<1>11. Games'
  <2>1. join'.phase = "InGame" => join' = join /\ e.do \notin {"GameTerminated", "Launched"}
    BY <1>5, <1>6 DEF JoinPhase
  <2>2. Due("iceStop") => Due("iceStop")'
    BY <1>1, <1>6 DEF CallName
  <2>3. NoOrphanGame' /\ Watched' /\ Served'
    BY <1>1, <1>3, <2>2 DEF IInv, Games, NoOrphanGame, Watched, Served
  <2>4. NotYetInGame'
    <3>1. ASSUME NEW c \in ConnectTask, pc'[c] \in InLaunch, join'.phase = "InGame"
          PROVE  pc'[c] # "announce" /\ "Launched" \in Effects(todo'[c])
      <4>1. pc[c] # "announce" /\ "Launched" \in Effects(todo[c]) /\ e.do # "Launched"
        BY <1>1, <2>1, <3>1 DEF IInv, Games, NotYetInGame
      <4>2. CASE c = a
        BY <1>1, <4>1, <4>2
      <4>3. CASE c # a
        BY <1>1, <4>1, <4>3 DEF Task
      <4>4. QED
        BY <4>2, <4>3
    <3>2. QED
      BY <3>1 DEF NotYetInGame
  <2>5. Backed'
    BY <1>1, <1>3, <2>1 DEF IInv, Games, Backed
  <2>6. QED
    BY <2>3, <2>4, <2>5 DEF Games
<1>12. CallingOff'
  BY <1>1, <1>3 DEF IInv, Joins, CallingOff
<1>13. Linked'
  BY <1>1, <1>3 DEF IInv, Joins, Linked
<1>14. Answered'
  <2>1. CASE e.do \in {"Joining", "JoiningPrepared"}
    <3>1. a \in JoinTask /\ pc[a] \in {"find", "recheck"}
      BY <1>1, <2>1 DEF IInv, Tasks, Scripts, Scripted
    <3>2. QED
      BY <1>1, <3>1 DEF Answered, Answerable, WorksOnJoin
  <2>2. CASE e.do \notin {"Joining", "JoiningPrepared"}
    <3>1. ASSUME join'.phase \in {"Joining", "JoiningPrepared"}
          PROVE  join' = join /\ e.do \notin EndsJoining
      BY <1>5, <2>2, <3>1 DEF EndsJoining, JoinPhase
    <3>2. e.do \notin EndsJoining /\ Answerable => Answerable'
      <4>1. ASSUME e.do \notin EndsJoining
            PROVE  \A what \in EndsJoining : Due(what) => Due(what)'
        BY <1>1, <4>1
      <4>2. \A c \in ConnectTask : "portConnect" \notin Effects(todo[c])
                                     => "portConnect" \notin Effects(todo'[c])
        BY <1>1 DEF Task
      <4>3. QED
        BY <1>1, <1>3, <4>1, <4>2 DEF Answerable
    <3>3. QED
      BY <3>1, <3>2 DEF IInv, Joins, Answered
  <2>3. QED
    BY <2>1, <2>2
<1>15. QED
  BY <1>7, <1>8, <1>9, <1>10, <1>11, <1>12, <1>13, <1>14 DEF IInv, Tasks, Joins

LEMMA SetFlagKeeps ==
  ASSUME IInv, NEW a \in Task, Step(a), SetFlag(Head(todo[a]))
  PROVE  IInv'
<1> DEFINE e == Head(todo[a])
<1>1. /\ pc' = pc /\ todo' \in [Task -> Seq(Effect)] /\ outcome' = outcome /\ order' = order
      /\ \A what : Due(what)' => Due(what)
      /\ \A what : Due(what) => Due(what)' \/ what = e.do
      /\ \A b \in Task : Effects(todo'[b]) \subseteq Effects(todo[b])
  BY StepProgram DEF IInv
<1>2. /\ e.do \in {"clear", "cancel", "finishJoin", "finishLobby"}
      /\ UNCHANGED <<appState, socket, game, prepared>>
      /\ \/ e.do = "finishLobby" /\ lobbyActive' = FALSE
         \/ e.do # "finishLobby" /\ lobbyActive' = lobbyActive
  BY DEF SetFlag, history
<1>3. /\ joinActive' \in BOOLEAN /\ joinCancelled' \in BOOLEAN /\ lobbyActive' \in BOOLEAN
  BY DEF SetFlag, IInv, Tasks, TypeOK
<1>4. /\ calledOff' \subseteq Task /\ revived' \subseteq calledOff'
      /\ \/ calledOff' = calledOff /\ revived' = revived /\ joinCancelled' = joinCancelled
         \/ e.do = "clear" /\ calledOff' = calledOff /\ revived' = revived \cup calledOff
         \/ /\ e.do = "cancel" /\ calledOff' = calledOff \cup Preparing
            /\ revived' = revived /\ joinCancelled' = TRUE
  BY DEF SetFlag, history, Preparing, Task, IInv, Tasks, TypeOK
<1>5. /\ UNCHANGED <<status, join, stream, token, port, outgoing, updates, drops>>
      /\ UNCHANGED <<ice, slot, alive, poller, signalled>>
  BY <1>2 DEF appState, socket, game
<1>6. TypeOK'
  BY <1>1, <1>2, <1>3, <1>4, <1>5 DEF IInv, Tasks, TypeOK
<1>7. Labels' /\ Scripts' /\ OneLoop'
  BY <1>2, StepScripts, StepLoops
<1>8. LaunchKnown'
  BY <1>1, <1>5 DEF IInv, Tasks, LaunchKnown
<1>9. Games'
  BY <1>2, <1>5, StepLeavesGames
<1> HIDE DEF e
<1>10. e.do \notin EndsJoining /\ e.do # "portConnect"
  BY <1>2 DEF EndsJoining
<1>11. CallingOff'
  <2>1. CASE calledOff' = calledOff /\ revived' = revived /\ joinCancelled' = joinCancelled
    BY <1>1, <2>1 DEF IInv, Joins, CallingOff
  <2>2. CASE calledOff' = calledOff /\ revived' = revived \cup calledOff
    BY <2>2 DEF CallingOff
  <2>3. CASE calledOff' = calledOff \cup Preparing /\ revived' = revived /\ joinCancelled' = TRUE
    BY <1>1, <2>3 DEF IInv, Joins, CallingOff, Preparing
  <2>4. QED
    BY <1>4, <2>1, <2>2, <2>3
<1>12. Linked'
  BY <1>1, <1>5 DEF IInv, Joins, Linked
<1>13. Answered'
  <2>1. Answerable => Answerable'
    BY <1>1, <1>5, <1>10 DEF Answerable, Task
  <2>2. QED
    BY <1>5, <2>1 DEF IInv, Joins, Answered
<1>14. QED
  BY <1>6, <1>7, <1>8, <1>9, <1>11, <1>12, <1>13 DEF IInv, Tasks, Joins

LEMMA KillKeepsGames ==
  ASSUME IInv, NEW a \in Task, Step(a), Head(todo[a]).do = "kill", Kill, join' = join
  PROVE  Games'
<1>1. /\ pc' = pc /\ Effects(todo[a]) = {"kill"} \cup Effects(todo'[a])
      /\ \A b \in Task \ {a} : todo'[b] = todo[b]
  BY StepProgram DEF IInv
<1>2. /\ signalled' = signalled \cup ({slot} \cap alive) /\ slot' = None
      /\ alive' = alive /\ ice' = ice /\ poller' = poller /\ order' = order
  BY StepProgram DEF Kill, Signal, IInv
<1>3. Due("iceStop")' /\ Due("GameTerminated")'
  <2>1. {"iceStop", "GameTerminated"} \subseteq Effects(todo[a])
    BY <1>1 DEF IInv, Tasks, Scripts, Scripted, Shape
  <2>2. {"iceStop", "GameTerminated"} \subseteq Effects(todo'[a])
    BY <1>1, <2>1
  <2>3. QED
    BY <2>2 DEF Due
<1>4. NoOrphanGame'
  BY <1>1, <1>2 DEF IInv, Games, NoOrphanGame
<1>5. Watched' /\ Served' /\ Backed'
  BY <1>1, <1>2, <1>3 DEF IInv, Games, Watched, Served, Backed
<1>6. NotYetInGame'
  <2>1. \A b \in Task : "Launched" \in Effects(todo[b]) => "Launched" \in Effects(todo'[b])
    BY <1>1
  <2>2. QED
    BY <1>1, <2>1 DEF IInv, Games, NotYetInGame, Task
<1>7. QED
  BY <1>4, <1>5, <1>6 DEF Games

LEMMA IceStopKeepsGames ==
  ASSUME IInv, NEW a \in Task, Step(a), Head(todo[a]).do = "iceStop",
         ice' = None, UNCHANGED <<join, slot, alive, poller, signalled>>
  PROVE  Games'
<1>1. /\ pc' = pc /\ order' = order
      /\ Due("GameTerminated") => Due("GameTerminated")'
      /\ Effects(todo[a]) = {"iceStop"} \cup Effects(todo'[a])
      /\ \A b \in Task \ {a} : todo'[b] = todo[b]
  BY StepProgram DEF IInv
<1>2. \A b \in Task : "Launched" \in Effects(todo[b]) => "Launched" \in Effects(todo'[b])
  BY <1>1
<1>3. NoOrphanGame' /\ Watched'
  BY <1>1 DEF IInv, Games, NoOrphanGame, Watched
<1>4. Served'
  BY DEF Served
<1>5. NotYetInGame'
  BY <1>1, <1>2 DEF IInv, Games, NotYetInGame, Task
<1>6. Backed'
  BY <1>1 DEF IInv, Games, Backed
<1>7. QED
  BY <1>3, <1>4, <1>5, <1>6 DEF Games

LEMMA PortConnectKeepsJoins ==
  ASSUME IInv, NEW a \in Task, Step(a), Head(todo[a]).do = "portConnect", PortConnect,
         UNCHANGED <<appState, joinCancelled, calledOff, revived>>
  PROVE  Joins'
<1>1. /\ pc' = pc /\ Effects(todo[a]) = {"portConnect"} \cup Effects(todo'[a])
      /\ Effects(todo'[a]) = {}
      /\ \A b \in Task \ {a} : todo'[b] = todo[b]
      /\ \A what : Due(what) => Due(what)' \/ what = "portConnect"
  BY StepProgram DEF IInv
<1>2. /\ stream' = "opening" /\ outgoing' = <<>> /\ updates' = <<>>
      /\ join' = join
  BY DEF PortConnect, appState
<1>3. a \in ConnectTask /\ pc[a] = "recv" /\ Due("portConnect")
  BY <1>1 DEF IInv, Tasks, Scripts, Scripted, Due
<1>4. stream = "closed" /\ outgoing = <<>> /\ updates = <<>>
  BY <1>3 DEF IInv, Joins, Linked
<1>5. \A c \in ConnectTask : pc[c] # "new" => c = a
  BY <1>3 DEF IInv, Tasks, OneLoop, InLoop
<1>6. CallingOff'
  BY <1>1 DEF IInv, Joins, CallingOff
<1>7. Linked'
  <2>1. ASSUME NEW b \in Task, "portConnect" \in Effects(todo'[b])
        PROVE  FALSE
    <3>1. b # a /\ "portConnect" \in Effects(todo[b])
      BY <1>1, <2>1
    <3>2. b \in ConnectTask /\ pc[b] = "recv"
      BY <3>1 DEF IInv, Tasks, Scripts, Scripted
    <3>3. QED
      BY <1>5, <3>1, <3>2
  <2>2. ~Due("portConnect")'
    BY <2>1 DEF Due
  <2>3. QED
    BY <1>1, <1>2, <1>3, <2>2 DEF Linked
<1>8. Answered'
  <2>1. ~\E c \in ConnectTask : pc[c] # "new" /\ "portConnect" \notin Effects(todo[c])
    BY <1>1, <1>5
  <2>2. ~\E i \in DOMAIN updates : updates[i].kind \in EndingUpdate
    BY <1>4
  <2>3. \A what \in EndsJoining : Due(what) => Due(what)'
    BY <1>1 DEF EndsJoining
  <2>4. Answerable => Answerable'
    BY <1>1, <1>4, <2>1, <2>2, <2>3 DEF Answerable
  <2>5. QED
    BY <1>2, <2>4 DEF IInv, Joins, Answered
<1>9. QED
  BY <1>6, <1>7, <1>8 DEF Joins

LEMMA CallPortKeeps ==
  ASSUME IInv, NEW a \in Task, Step(a), CallPort(Head(todo[a]))
  PROVE  IInv'
<1> DEFINE e == Head(todo[a])
<1>1. /\ pc' = pc /\ todo' \in [Task -> Seq(Effect)] /\ outcome' = outcome /\ order' = order
      /\ \A what : Due(what)' => Due(what)
      /\ \A what : Due(what) => Due(what)' \/ what = e.do
      /\ \A b \in Task : Effects(todo'[b]) \subseteq Effects(todo[b])
  BY StepProgram DEF IInv
<1>2. /\ \/ e.do = "kill" /\ Kill /\ calledOff' = calledOff \cup Launching /\ UNCHANGED socket
         \/ e.do = "iceStop" /\ ice' = None /\ UNCHANGED <<slot, alive, poller, signalled, socket, calledOff>>
         \/ e.do = "portConnect" /\ PortConnect /\ UNCHANGED <<game, calledOff>>
         \/ e.do = "portDisconnect" /\ PortDisconnect /\ UNCHANGED <<game, calledOff>>
      /\ UNCHANGED <<appState, flags, prepared, revived>>
  BY DEF CallPort
<1>3. UNCHANGED <<status, join, lobbyActive, joinActive, joinCancelled>>
  BY <1>2 DEF appState, flags
<1>4. Launching \subseteq Launch
  <2>1. \A c \in ConnectTask : pc[c] \in InLaunch => order[c].launch \in Launch
    BY DEF IInv, Tasks, TypeOK, LaunchKnown
  <2>2. QED
    BY <2>1 DEF Launching, InLaunch, Starting
<1>5. calledOff' \subseteq Task /\ revived' \subseteq calledOff'
  BY <1>2, <1>4 DEF IInv, Tasks, TypeOK, Task
<1>6. calledOff' \cap JoinTask = calledOff \cap JoinTask
  <2>1. Launch \cap JoinTask = {}
    BY KindsDiffer DEF Task
  <2>2. QED
    BY <1>2, <1>4, <2>1
<1>7. TypeOK'
  <2>1. /\ ice' \in Launch \cup {None} /\ slot' \in Launch \cup {None}
        /\ alive' \subseteq Launch /\ poller' \subseteq Launch /\ signalled' \subseteq alive'
    BY <1>2 DEF Kill, Signal, game, IInv, Tasks, TypeOK
  <2>2. /\ stream' \in {"closed", "opening", "up", "dropped"}
        /\ token' \in {"none", "live", "cancelled"} /\ port' \in BOOLEAN
        /\ outgoing' \in Seq(JoinTask \cup HostTask) /\ Len(outgoing') <= FrameCap
        /\ updates' \in Seq(Update) /\ Len(updates') <= UpdateCap + 1 /\ drops' \in 0..MaxDrops
    <3>1. /\ stream \in {"closed", "opening", "up", "dropped"}
          /\ token \in {"none", "live", "cancelled"} /\ port \in BOOLEAN
          /\ outgoing \in Seq(JoinTask \cup HostTask) /\ Len(outgoing) <= FrameCap
          /\ updates \in Seq(Update) /\ Len(updates) <= UpdateCap + 1 /\ drops \in 0..MaxDrops
      BY DEF IInv, Tasks, TypeOK
    <3>2. UNCHANGED socket \/ PortConnect \/ PortDisconnect
      BY <1>2
    <3>3. CASE UNCHANGED socket
      BY <3>1, <3>3 DEF socket
    <3>4. CASE PortConnect
      <4>1. /\ <<>> \in Seq(Update)
            /\ <<>> \in Seq(JoinTask \cup HostTask)
            /\ Len(<<>>) <= UpdateCap + 1 /\ Len(<<>>) <= FrameCap
        BY CapAssumption
      <4>2. QED
        BY <3>1, <3>4, <4>1 DEF PortConnect
    <3>5. CASE PortDisconnect
      BY <3>1, <3>5 DEF PortDisconnect
    <3>6. QED
      BY <3>2, <3>3, <3>4, <3>5
  <2>3. QED
    BY <1>1, <1>2, <1>3, <1>5, <2>1, <2>2 DEF IInv, Tasks, TypeOK
<1>8. Labels' /\ Scripts' /\ OneLoop'
  BY <1>2, <1>3, StepScripts, StepLoops
<1>9. LaunchKnown'
  <2>1. updates' = updates \/ updates' = <<>>
    BY <1>2 DEF PortConnect, PortDisconnect, socket
  <2>2. QED
    BY <1>1, <2>1 DEF IInv, Tasks, LaunchKnown
<1>10. Games'
  BY <1>2, <1>3, KillKeepsGames, IceStopKeepsGames, StepLeavesGames
<1>11. Joins'
  <2>1. CASE e.do \in {"kill", "iceStop"}
    <3>1. UNCHANGED socket /\ e.do \notin EndsJoining
      BY <1>2, <2>1 DEF EndsJoining
    <3>2. QED
      BY <1>2, <1>3, <1>6, <3>1, StepLeavesJoins
  <2>2. CASE e.do = "portConnect"
    BY <1>2, <1>3, <2>2, PortConnectKeepsJoins
  <2>3. CASE e.do = "portDisconnect"
    <3>1. /\ port' = FALSE /\ UNCHANGED <<stream, outgoing, updates, calledOff, revived>>
      BY <1>2, <2>3 DEF PortDisconnect
    <3>2. CallingOff'
      BY <1>1, <1>3, <3>1 DEF IInv, Joins, CallingOff
    <3>3. Linked'
      BY <1>1, <3>1 DEF IInv, Joins, Linked
    <3>4. Answered'
      <4>1. \A what \in EndsJoining : Due(what) => Due(what)'
        BY <1>1, <2>3 DEF EndsJoining
      <4>2. Answerable => Answerable'
        BY <1>1, <3>1, <4>1 DEF Answerable, Task
      <4>3. QED
        BY <1>3, <4>2 DEF IInv, Joins, Answered
    <3>5. QED
      BY <3>2, <3>3, <3>4 DEF Joins
  <2>4. QED
    BY <1>2, <2>1, <2>2, <2>3
<1>12. QED
  BY <1>7, <1>8, <1>9, <1>10, <1>11 DEF IInv, Tasks

-----------------------------------------------------------------------------
(* The theorems *)

LEMMA InvariantInitially == Init => IInv
<1> SUFFICES ASSUME Init PROVE IInv
  OBVIOUS
<1>1. \A a \in Task : pc[a] = "new" /\ todo[a] = <<>>
  BY DEF Init
<1>2. Effects(<<>>) = {} /\ Shape(<<>>)
  BY Nothing DEF Script
<1>3. \A a \in Task : Effects(todo[a]) = {} /\ Shape(todo[a])
  BY <1>1, <1>2
<1>4. TypeOK
  <2>1. /\ None \in GameId \cup {None} /\ "new" \in Label /\ "Idle" \in JoinPhase
        /\ UpdateCap \in Nat /\ MaxDrops \in Nat /\ FrameCap \in Nat
    BY CapAssumption DEF Label, JoinPhase
  <2>2. /\ pc \in [Task -> Label] /\ todo \in [Task -> Seq(Effect)]
        /\ outcome \in [Task -> {"ok", "failed"}]
        /\ order \in [ConnectTask -> [id : GameId \cup {None}, launch : Launch \cup {None}]]
    BY <2>1 DEF Init
  <2>3. /\ join \in [phase : JoinPhase, id : GameId \cup {None}]
        /\ outgoing \in Seq(JoinTask \cup HostTask) /\ drops \in 0..MaxDrops
        /\ Len(outgoing) <= FrameCap
        /\ updates \in Seq(Update) /\ Len(updates) <= UpdateCap + 1
    BY <2>1 DEF Init
  <2>4. QED
    BY <2>2, <2>3 DEF Init, TypeOK
<1>5. Labels
  BY <1>1 DEF Labels, JoinLabel, HostLabel, UserLabel, ConnectLabel, LaunchLabel, Task
<1>6. Scripts
  BY <1>3 DEF Scripts, Scripted
<1>7. \A c \in ConnectTask : pc[c] = "new" /\ Effects(todo[c]) = {} /\ ~InLoop(c)
  BY <1>1, <1>3 DEF InLoop, Task
<1>8. OneLoop /\ LaunchKnown
  BY <1>7 DEF Init, OneLoop, LaunchKnown, InLaunch, Starting
<1>9. \A n \in Launch : pc[n] = "new"
  BY <1>1 DEF Task
<1>10. Games
  BY <1>7, <1>9 DEF Init, Games, NoOrphanGame, Watched, Served, NotYetInGame, Backed,
                    InLaunch
<1>11. \A what : ~Due(what)
  BY <1>3 DEF Due
<1>12. Joins
  BY <1>11 DEF Init, Joins, CallingOff, Linked, Answered
<1>13. QED
  BY <1>4, <1>5, <1>6, <1>8, <1>10, <1>12 DEF IInv, Tasks

LEMMA InvariantKept == IInv /\ [Next]_vars => IInv'
<1> SUFFICES ASSUME IInv, [Next]_vars PROVE IInv'
  OBVIOUS
<1>1. ASSUME NEW a \in Task, Step(a) PROVE IInv'
  <2>1. Emit(Head(todo[a])) \/ SetFlag(Head(todo[a])) \/ CallPort(Head(todo[a]))
    BY <1>1 DEF Step
  <2>2. QED
    BY <1>1, <2>1, EmitKeeps, SetFlagKeeps, CallPortKeeps
<1>2. ASSUME NEW t \in JoinTask, Join(t) PROVE IInv'
  BY <1>2, JoinKeeps
<1>3. ASSUME NEW t \in HostTask, Host(t) PROVE IInv'
  BY <1>3, HostKeeps
<1>4. ASSUME NEW u \in UserTask,
             UserCancels(u) \/ UserCommand(u) \/ WatchReplay(u) \/ ReplayRuns(u) \/ ReplayExits(u)
      PROVE  IInv'
  BY <1>4, UserKeeps, WatchReplayKeeps
<1>5. ASSUME NEW c \in ConnectTask, Connect(c) PROVE IInv'
  BY <1>5, ConnectKeeps
<1>6. ASSUME NEW n \in Launch, GameExits(n) \/ Poll(n) PROVE IInv'
  BY <1>6, GameExitsKeeps, PollKeeps
<1>7. CASE Session
  BY <1>7, SessionKeeps
<1>8. CASE Server
  BY <1>8, ServerKeeps
<1>9. CASE UNCHANGED vars
  <2>1. /\ UNCHANGED <<status, join, lobbyActive, joinActive, joinCancelled>>
        /\ UNCHANGED <<pc, todo, outcome, order, stream, token, port, outgoing, updates, drops>>
        /\ UNCHANGED <<ice, slot, alive, poller, signalled, prepared, calledOff, revived>>
    BY <1>9 DEF vars, appState, flags, program, socket, game, history
  <2>2. Tasks'
    BY <2>1 DEF IInv, Tasks, TypeOK, Labels, Scripts, Scripted, OneLoop, InLoop, LaunchKnown
  <2>3. \A what : Due(what)' <=> Due(what)
    BY <2>1 DEF Due
  <2>4. Games'
    BY <2>1, <2>3 DEF IInv, Games, NoOrphanGame, Watched, Served, NotYetInGame, Backed
  <2>5. Joins'
    BY <2>1, <2>3 DEF IInv, Joins, CallingOff, Linked, Answered, Answerable
  <2>6. QED
    BY <2>2, <2>4, <2>5 DEF IInv
<1>10. QED
  BY <1>1, <1>2, <1>3, <1>4, <1>5, <1>6, <1>7, <1>8, <1>9 DEF Next

LEMMA Invariant == Spec => []IInv
<1>1. Init => IInv
  BY InvariantInitially
<1>2. IInv /\ [Next]_vars => IInv'
  BY InvariantKept
<1>3. QED
  BY <1>1, <1>2, PTL DEF Spec

\* The words of the properties.
LEMMA DueIsPending == \A what : Due(what) <=> Pending(what)
BY DEF Due, Pending, Effects

\* Every value keeps its type: labels and effects of tasks, orders, frames and
\* updates within the channel, the adapter, the child and the polls.
THEOREM TypesHold == Spec => []TypeOK
<1>1. IInv => TypeOK
  BY DEF IInv, Tasks
<1>2. QED
  BY <1>1, Invariant, PTL

\* At most one Connect task is in its update loop or yet to release it, and one
\* is exactly while the lobby's flag is set: a second Connect is dropped until
\* the first loop has ended, however many commands, drops and retries there are
\* (runtime/mod.rs:29-31).
THEOREM LoopIsSingle == Spec => []OneUpdateLoop
<1>1. ASSUME IInv PROVE OneUpdateLoop
  <2>1. ASSUME NEW c \in ConnectTask PROVE InLoop(c) <=> Looping(c)
    <3>1. "finishLobby" \in Effects(todo[c]) => Do("finishLobby") \in {todo[c][i] : i \in DOMAIN todo[c]}
      BY <1>1 DEF IInv, Tasks, Scripts, Scripted, Shape, Effects, Task
    <3>2. Do("finishLobby") \in {todo[c][i] : i \in DOMAIN todo[c]} => "finishLobby" \in Effects(todo[c])
      BY DEF Effects, Do
    <3>3. QED
      BY <3>1, <3>2 DEF InLoop, Looping
  <2>2. QED
    BY <1>1, <2>1 DEF IInv, Tasks, OneLoop, OneUpdateLoop
<1>2. QED
  BY <1>1, Invariant, PTL

\* Every game process that runs is in the slot, has been told to end, or is
\* about to be put into the slot, whatever kills, exits, polls, replays and
\* launches interleave (game.rs:276-289).
THEOREM GamesAreReachable == Spec => []NoOrphanGame
<1>1. IInv => NoOrphanGame
  BY DEF IInv, Games
<1>2. QED
  BY <1>1, Invariant, PTL

\* A connectivity adapter that runs has a game, a launch about to start one, or
\* somebody about to stop it (launcher.rs:454-460, lobby.rs:731-736).
THEOREM AdaptersAreStopped == Spec => []NoOrphanAdapter
<1>1. ASSUME IInv PROVE NoOrphanAdapter
  BY <1>1, DueIsPending DEF IInv, Games, Served, Watched, NoOrphanAdapter, Starting
<1>2. QED
  BY <1>1, Invariant, PTL

\* A game shown in progress has a child, or the event that ends it is due, or a
\* watcher whose poll goes on will send it (launcher.rs:169-173).
THEOREM ShownGamesRun == Spec => []InGameIsBacked
<1>1. ASSUME IInv PROVE InGameIsBacked
  BY <1>1, DueIsPending DEF IInv, Games, Backed, Watched, InGameIsBacked
<1>2. QED
  BY <1>1, Invariant, PTL

\* A join that was called off while its files came down is sent only if the
\* flag it shares with later joins and launch orders was cleared meanwhile.
THEOREM CancelsAreHeard == Spec => []CalledOffNotSent
<1>1. ASSUME IInv PROVE CalledOffNotSent
  BY <1>1 DEF IInv, Joins, CallingOff, CalledOffNotSent, InPreparation
<1>2. QED
  BY <1>1, Invariant, PTL

\* A join shown in progress has somebody at work on it: its task, an effect on
\* its way, a frame the server answers, an update that ends it, or the end of
\* the connection that carried it (state/lobby.rs:639-643).
THEOREM JoinsAreFinished == Spec => []NoPhantomJoin
<1>1. ASSUME IInv PROVE NoPhantomJoin
  <2>1. ASSUME join.phase \in {"Joining", "JoiningPrepared"} PROVE Underway
    <3>1. Answerable
      BY <1>1, <2>1 DEF IInv, Joins, Answered
    <3>2. ASSUME NEW what, Due(what) PROVE \E a \in Task : todo[a] # <<>>
      <4>1. Effects(<<>>) = {}
        BY Nothing DEF Script
      <4>2. QED
        BY <3>2, <4>1 DEF Due
    <3>3. ASSUME NEW c \in ConnectTask, pc[c] # "new" PROVE lobbyActive
      BY <1>1, <3>3 DEF IInv, Tasks, OneLoop, InLoop
    <3>4. ASSUME NEW i \in DOMAIN updates PROVE updates # <<>>
      BY <3>4
    <3>5. QED
      BY <3>1, <3>2, <3>3, <3>4 DEF Answerable, Underway, WorksOnJoin
  <2>2. QED
    BY <2>1 DEF NoPhantomJoin
<1>2. QED
  BY <1>1, Invariant, PTL
=============================================================================
