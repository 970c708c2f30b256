-------------------------------- MODULE Auth --------------------------------
(***************************************************************************)
(* Signing in and out: the commands of the auth service as concurrent      *)
(* tasks, the OAuth provider they call with its access token, the refresh  *)
(* token in the keyring, the loops that renew the one from the other, and  *)
(* the auth slice the shell routes on.                                     *)
(*                                                                         *)
(* Every command is a task. A generation is named by the task that began   *)
(* it, a token by the account it was issued for.                           *)
(***************************************************************************)
EXTENDS Sequences

CONSTANTS Task,      \* commands that run at once
          Account,   \* FAF accounts the person at the keyboard has
          Loop,      \* refresh loops alive at once
          None

ASSUME NoneAssumption == None \notin Task \cup Account \cup Loop

VARIABLES
  auth,                    \* AppState.auth
  pc, kind, remember,      \* per task: where it is, its command and option
  who, verdict,            \* per task: the account it reached, how its call ended
  current,                 \* auth_generation: the task that began the newest one
  cancelSlot, cancelled,   \* auth_cancellation, and the tasks whose token is cancelled
  mutex,                   \* auth_mutation: its holder, then those who wait
  token, keyring,          \* access token in memory, refresh token on disk
  loop, refreshSlot,       \* the refresh loops, and the one in refresh_task
  restoreDue,              \* the shell is still loading the settings
  stored,                  \* history: tasks whose refresh token is kept and readable
  kept,                    \* history: so is that of the session shown
  late                     \* history: the restore began with a session in place

taskVars   == <<pc, kind, remember, who, verdict>>
orderVars  == <<current, cancelSlot, cancelled, mutex>>
secretVars == <<token, keyring, loop, refreshSlot>>
startVars  == <<restoreDue, late>>
vars == <<auth, taskVars, orderVars, secretVars, startVars, stored, kept>>

Kind == {"login", "cancelLogin", "restore", "playOffline", "logout", "logoutTest"}

-----------------------------------------------------------------------------
(* The reducer *)

LoggedOut == [status |-> "loggedOut", mode |-> "account", player |-> None]
LoggedIn(a) == [status |-> "loggedIn", mode |-> "account", player |-> a]
WentOffline == [status |-> "loggedIn", mode |-> "offline", player |-> None]
LoginStarted == [auth EXCEPT !.status = "loggingIn"]
LoginFailed == [auth EXCEPT !.status = "failed", !.player = None]

Asleep == [phase |-> "asleep", account |-> None, aborted |-> FALSE]
Off == [Asleep EXCEPT !.phase = "off"]

Init ==
  /\ auth = LoggedOut
  /\ pc = [t \in Task |-> "idle"]
  /\ kind = [t \in Task |-> "none"]
  /\ current = None
  /\ mutex = <<>>
  /\ remember = [t \in Task |-> FALSE]
  /\ who = [t \in Task |-> None]
  /\ verdict = [t \in Task |-> "none"]
  /\ cancelSlot = None
  /\ cancelled = {}
  /\ token = None
  /\ keyring \in Account \cup {None}
  /\ loop = [l \in Loop |-> Off]
  /\ refreshSlot = None
  /\ restoreDue = TRUE
  /\ stored = {}
  /\ kept = FALSE
  /\ late = FALSE

Goto(t, from, to) ==
  /\ pc[t] = from
  /\ pc' = [pc EXCEPT ![t] = to]

-----------------------------------------------------------------------------
(* What the UI offers, by the status and mode it shows *)

Offered(k) ==
  LET in == auth.status = "loggedIn" IN
  CASE k = "login"       -> ~in /\ auth.status # "loggingIn"
    [] k = "cancelLogin" -> auth.status = "loggingIn"
    [] k = "playOffline" -> ~in /\ auth.status # "loggingIn"
    [] k = "logout"      -> in /\ auth.mode = "account"
    [] k = "logoutTest"  -> in /\ auth.mode # "account"
    [] OTHER             -> FALSE

\* A task takes its token and its generation without waiting for anything, so
\* it has done both before the person at the screen clicks again.
Click(t, k, keep) ==
  /\ Offered(k)
  /\ keep => k = "login"
  /\ \A u \in Task : pc[u] \notin {"begin", "generation"}
  /\ Goto(t, "idle", "begin")
  /\ kind' = [kind EXCEPT ![t] = k]
  /\ remember' = [remember EXCEPT ![t] = keep]
  /\ UNCHANGED <<auth, who, verdict, orderVars, secretVars, startVars, stored, kept>>

SignsIn(t) == kind[t] \in {"login", "restore"} /\ verdict[t] = "ok"
InAccount == auth.status = "loggedIn" /\ auth.mode = "account"

\* The settings are loaded, and the shell asks for a Restore. The screen has
\* been in use all the while.
ShellRestores(t) ==
  /\ restoreDue
  /\ restoreDue' = FALSE
  /\ late' = (InAccount \/ \E u \in Task : pc[u] = "announce" /\ SignsIn(u))
  /\ Goto(t, "idle", "queued")
  /\ kind' = [kind EXCEPT ![t] = "restore"]
  /\ current' = t
  /\ mutex' = Append(mutex, t)
  /\ UNCHANGED <<auth, remember, who, verdict, cancelSlot, cancelled, secretVars, stored, kept>>

-----------------------------------------------------------------------------
(* The start every command of the screen shares *)

\* The login that runs is cancelled; a login leaves its own token in the slot.
CancelPrevious(t) ==
  /\ Goto(t, "begin", "generation")
  /\ cancelSlot' = IF kind[t] = "login" THEN t ELSE None
  /\ cancelled' = cancelled \cup ({cancelSlot} \ {t, None})
  /\ UNCHANGED <<auth, kind, remember, who, verdict, current, mutex, secretVars, startVars, stored, kept>>

UsesAccount(t) == kind[t] \in {"login", "restore", "logout"}

BeginGeneration(t) ==
  /\ Goto(t, "generation", IF UsesAccount(t) THEN "queued" ELSE "announce")
  /\ current' = t
  /\ mutex' = IF UsesAccount(t) THEN Append(mutex, t) ELSE mutex
  /\ UNCHANGED <<auth, kind, remember, who, verdict, cancelSlot, cancelled, secretVars, startVars, stored, kept>>

\* Mutant: the mutation guard is not waited for.
HoldsAnyway(t) == pc[t] \notin {"idle", "begin", "generation"}

Holds(t) == mutex # <<>> /\ Head(mutex) = t

\* Where each command starts its work, once it has the guard.
Work(t) == CASE kind[t] = "login" -> "starting"
             [] kind[t] = "restore" -> "restoring"
             [] OTHER -> "logout"

\* The end of a task: its guard goes to the next in line; what bears its name
\* (a generation, a token nobody listens to) means nothing any more.
Finish(t) ==
  /\ pc' = [pc EXCEPT ![t] = "idle"]
  /\ kind' = [kind EXCEPT ![t] = "none"]
  /\ remember' = [remember EXCEPT ![t] = FALSE]
  /\ who' = [who EXCEPT ![t] = None]
  /\ verdict' = [verdict EXCEPT ![t] = "none"]
  /\ cancelled' = cancelled \ {t}
  /\ current' = IF current = t THEN None ELSE current
  /\ cancelSlot' = IF cancelSlot = t THEN None ELSE cancelSlot
  /\ mutex' = IF mutex # <<>> /\ Head(mutex) = t THEN Tail(mutex) ELSE mutex
  /\ stored' = stored \ {t}

\* Overtaken while it waited, or a restore the settings do not want.
GivesWay(t) ==
  /\ pc[t] = "queued"
  /\ Holds(t)
  /\ \/ current # t
     \/ kind[t] = "login" /\ t \in cancelled
     \/ kind[t] = "restore"
  /\ Finish(t)
  /\ UNCHANGED <<auth, secretVars, startVars, kept>>

Proceeds(t) ==
  /\ Holds(t)
  /\ current = t
  /\ ~(kind[t] = "login" /\ t \in cancelled)
  /\ Goto(t, "queued", Work(t))
  /\ UNCHANGED <<auth, kind, remember, who, verdict, orderVars, secretVars, startVars, stored, kept>>

-----------------------------------------------------------------------------
(* The refresh loops *)

Alive(l) == loop[l].phase # "off" /\ ~loop[l].aborted

\* An aborted task ends where it awaits next: at once when it sleeps or waits
\* for the server, after it has used its answer otherwise.
Aborted(l) ==
  IF l = None \/ loop[l].phase = "off" THEN loop
  ELSE [loop EXCEPT ![l] = IF loop[l].phase \in {"asleep", "exchanging"} THEN Off
                           ELSE [loop[l] EXCEPT !.aborted = TRUE]]

\* Mutant: the loop of the previous session is left running.
ScheduleAnother ==
  /\ \E l \in Loop : loop[l].phase = "off"
  /\ LET l == CHOOSE x \in Loop : loop[x].phase = "off"
     IN  /\ refreshSlot' = l
         /\ loop' = [loop EXCEPT ![l] = Asleep]

\* Mutant: a loop is only spawned when the slot has none.
ScheduleOnce ==
  IF refreshSlot # None THEN UNCHANGED <<loop, refreshSlot>> ELSE ScheduleAnother

ScheduleRefresh ==
  /\ \E l \in Loop : loop[l].phase = "off"
  /\ LET l == CHOOSE x \in Loop : loop[x].phase = "off"
     IN  /\ refreshSlot' = l
         /\ loop' = [Aborted(refreshSlot) EXCEPT ![l] = Asleep]

\* Due: without a stored refresh token there is nothing to renew with.
LoopWakes(l) ==
  /\ loop[l].phase = "asleep"
  /\ loop' = [loop EXCEPT ![l] = IF keyring = None THEN Off
                                 ELSE [Asleep EXCEPT !.phase = "exchanging",
                                                     !.account = keyring]]
  /\ UNCHANGED <<auth, taskVars, orderVars, token, keyring, refreshSlot, startVars, stored, kept>>

\* A keyring that cannot be read is taken for an empty one: the loop ends.
LoopFindsNothing(l) ==
  /\ loop[l].phase = "asleep"
  /\ loop' = [loop EXCEPT ![l] = Off]
  /\ stored' = {}
  /\ kept' = FALSE
  /\ UNCHANGED <<auth, taskVars, orderVars, token, keyring, refreshSlot, startVars>>

\* Refused or out of reach: it sleeps and tries again.
LoopFails(l) ==
  /\ loop[l].phase = "exchanging"
  /\ loop' = [loop EXCEPT ![l] = Asleep]
  /\ UNCHANGED <<auth, taskVars, orderVars, token, keyring, refreshSlot, startVars, stored, kept>>

\* From the answer to the next sleep the loop awaits nothing.
LoopAnswered(l) ==
  /\ loop[l].phase = "exchanging"
  /\ loop' = [loop EXCEPT ![l].phase = "answered"]
  /\ UNCHANGED <<auth, taskVars, orderVars, token, keyring, refreshSlot, startVars, stored, kept>>

\* The answer may or may not carry a new refresh token, nor the keyring take it.
LoopRenews(l) ==
  /\ loop[l].phase = "answered"
  /\ token' = loop[l].account
  /\ keyring' \in {keyring, loop[l].account}
  /\ loop' = [loop EXCEPT ![l] = IF loop[l].aborted THEN Off ELSE Asleep]
  /\ UNCHANGED <<auth, taskVars, orderVars, refreshSlot, startVars, stored, kept>>

-----------------------------------------------------------------------------
(* AuthCommand::Login *)

LoginStarts(t) ==
  /\ Goto(t, "starting", "forgetting")
  /\ auth' = LoginStarted
  /\ UNCHANGED <<kind, remember, who, verdict, orderVars, secretVars, startVars, stored, kept>>

\* The old refresh token goes up front, if the keyring lets it go.
ForgetsPrevious(t) ==
  /\ kind[t] = "login"
  /\ Goto(t, "forgetting", "browser")
  /\ keyring' \in {None, keyring}
  /\ UNCHANGED <<auth, kind, remember, who, verdict, orderVars, token, loop, refreshSlot, startVars, stored, kept>>

\* The person signs in with an account of theirs, and the code is exchanged.
\* The answer may hold no refresh token, and the keyring may refuse it: the
\* login goes on, and its loop starts, all the same.
BrowserAnswers(t, a) ==
  /\ Goto(t, "browser", "profile")
  /\ who' = [who EXCEPT ![t] = a]
  /\ token' = a
  /\ IF remember[t] THEN ScheduleRefresh ELSE UNCHANGED <<loop, refreshSlot>>
  /\ \/ UNCHANGED <<keyring, stored>>
     \/ /\ remember[t]
        /\ keyring' = a
        /\ stored' = stored \cup {t}
  /\ UNCHANGED <<auth, kind, remember, verdict, orderVars, startVars, kept>>

Ends(t, v) ==
  /\ pc' = [pc EXCEPT ![t] = "answered"]
  /\ verdict' = [verdict EXCEPT ![t] = v]

\* Denied, timed out or unreachable, in the browser or at the profile.
LoginFails(t) ==
  /\ kind[t] = "login"
  /\ pc[t] \in {"browser", "profile"}
  /\ Ends(t, "error")
  /\ UNCHANGED <<auth, kind, remember, who, orderVars, secretVars, startVars, stored, kept>>

\* select! drops the provider's call where it stands.
LoginCancelled(t) ==
  /\ kind[t] = "login"
  /\ t \in cancelled
  /\ pc[t] \in {"forgetting", "browser", "profile"}
  /\ Ends(t, "cancelled")
  /\ UNCHANGED <<auth, kind, remember, who, orderVars, secretVars, startVars, stored, kept>>

ProfileLoaded(t) ==
  /\ pc[t] = "profile"
  /\ Ends(t, "ok")
  /\ UNCHANGED <<auth, kind, remember, who, orderVars, secretVars, startVars, stored, kept>>

-----------------------------------------------------------------------------
(* AuthCommand::Restore *)

RestoreAnswered(t) ==
  /\ keyring # None
  /\ Goto(t, "restoring", "profile")
  /\ who' = [who EXCEPT ![t] = keyring]
  /\ token' = keyring
  /\ stored' = stored \cup {t}
  /\ ScheduleRefresh
  /\ UNCHANGED <<auth, kind, remember, verdict, orderVars, keyring, startVars, kept>>

\* Nothing stored, or no answer: the login screen stays as it is.
RestoreGivesUp(t) ==
  /\ pc[t] = "restoring"
  /\ Finish(t)
  /\ UNCHANGED <<auth, secretVars, startVars, kept>>

RestoreFails(t) ==
  /\ kind[t] = "restore"
  /\ pc[t] = "profile"
  /\ Finish(t)
  /\ loop' = Aborted(refreshSlot)
  /\ refreshSlot' = None
  /\ token' = None
  /\ UNCHANGED <<auth, keyring, startVars, kept>>

-----------------------------------------------------------------------------
(* AuthCommand::Logout *)

LogoutCancelsRefresh(t) ==
  /\ Goto(t, "logout", "clearing")
  /\ loop' = Aborted(refreshSlot)
  /\ refreshSlot' = None
  /\ UNCHANGED <<auth, kind, remember, who, verdict, orderVars, token, keyring, startVars, stored, kept>>

LogoutClearsToken(t) ==
  /\ Goto(t, "clearing", "erasing")
  /\ token' = None
  /\ UNCHANGED <<auth, kind, remember, who, verdict, orderVars, keyring, loop, refreshSlot, startVars, stored, kept>>

LogoutClearsKeyring(t) ==
  /\ pc[t] = "erasing"
  /\ Ends(t, "ok")
  /\ keyring' \in {None, keyring}
  /\ UNCHANGED <<auth, kind, remember, who, orderVars, token, loop, refreshSlot, startVars, stored, kept>>

-----------------------------------------------------------------------------
(* The end: only the newest generation may land *)

Overtaken(t) ==
  /\ pc[t] = "answered"
  /\ current # t
  /\ Finish(t)
  /\ UNCHANGED <<auth, secretVars, startVars, kept>>

Lands(t) ==
  /\ current = t
  /\ Goto(t, "answered", "announce")
  /\ UNCHANGED <<auth, kind, remember, who, verdict, orderVars, secretVars, startVars, stored, kept>>

\* Mutant: a cancelled login is left to show its own end.
ShownQuietly(t) ==
  CASE kind[t] = "cancelLogin" -> auth
    [] kind[t] = "playOffline" -> WentOffline
    [] SignsIn(t)              -> LoggedIn(who[t])
    [] verdict[t] = "error"    -> LoginFailed
    [] OTHER                   -> LoggedOut

Shown(t) ==
  CASE kind[t] = "playOffline" -> WentOffline
    [] SignsIn(t)              -> LoggedIn(who[t])
    [] verdict[t] = "error"    -> LoginFailed
    [] OTHER                   -> LoggedOut

Announce(t) ==
  /\ pc[t] = "announce"
  /\ auth' = Shown(t)
  /\ kept' = (SignsIn(t) /\ t \in stored)
  /\ Finish(t)
  /\ UNCHANGED <<secretVars, startVars>>

-----------------------------------------------------------------------------

TaskStep(t) ==
  \/ CancelPrevious(t) \/ BeginGeneration(t) \/ GivesWay(t) \/ Proceeds(t)
  \/ LoginStarts(t) \/ ForgetsPrevious(t) \/ LoginFails(t) \/ LoginCancelled(t)
  \/ \E a \in Account : BrowserAnswers(t, a)
  \/ ProfileLoaded(t) \/ RestoreAnswered(t) \/ RestoreGivesUp(t) \/ RestoreFails(t)
  \/ LogoutCancelsRefresh(t) \/ LogoutClearsToken(t) \/ LogoutClearsKeyring(t)
  \/ Overtaken(t) \/ Lands(t) \/ Announce(t)

LoopStep(l) ==
  \/ LoopWakes(l) \/ LoopFindsNothing(l) \/ LoopFails(l) \/ LoopAnswered(l) \/ LoopRenews(l)

Next ==
  \/ \E t \in Task, k \in Kind, keep \in BOOLEAN : Click(t, k, keep)
  \/ \E t \in Task : ShellRestores(t) \/ TaskStep(t)
  \/ \E l \in Loop : LoopStep(l)

Spec == Init /\ [][Next]_vars

\* Commands are run by the executor, and every wait of theirs is bounded: the
\* browser by LOGIN_TIMEOUT, requests by the HTTP client.
FairSpec == Spec /\ \A t \in Task : WF_vars(TaskStep(t))

-----------------------------------------------------------------------------

PC == {"idle", "begin", "generation", "queued", "starting", "forgetting", "browser",
       "profile", "restoring", "logout", "clearing", "erasing", "answered", "announce"}

TypeOK ==
  /\ auth \in [status : {"loggedOut", "loggingIn", "loggedIn", "failed"},
               mode : {"account", "offline"}, player : Account \cup {None}]
  /\ pc \in [Task -> PC]
  /\ kind \in [Task -> Kind \cup {"none"}]
  /\ remember \in [Task -> BOOLEAN]
  /\ who \in [Task -> Account \cup {None}]
  /\ verdict \in [Task -> {"none", "ok", "error", "cancelled"}]
  /\ current \in Task \cup {None}
  /\ cancelSlot \in Task \cup {None}
  /\ cancelled \subseteq Task
  /\ mutex \in Seq(Task)
  /\ token \in Account \cup {None}
  /\ keyring \in Account \cup {None}
  /\ loop \in [Loop -> [phase : {"off", "asleep", "exchanging", "answered"},
                        account : Account \cup {None}, aborted : BOOLEAN]]
  /\ refreshSlot \in Loop \cup {None}
  /\ restoreDue \in BOOLEAN
  /\ stored \subseteq Task
  /\ kept \in BOOLEAN
  /\ late \in BOOLEAN

Quiet == \A t \in Task : pc[t] = "idle"

\* A session of an account never settles without an access token, in whatever
\* order restore, logins, cancels and logouts interleave: a restore that fails
\* must not take the token of a login, nor a logout that was overtaken leave
\* its session on screen. Not so in a client where a login was quicker than the
\* loading of the settings, and the restore began with its session in place:
\* see SessionKeepsToken below.
SignedInHoldsToken == Quiet /\ InAccount /\ ~late => token # None

\* "A second login replaces it rather than leaving two loops refreshing the
\* same store" (oauth.rs, refresh_task).
OneRefreshLoop == \A l, m \in Loop : Alive(l) /\ Alive(m) => l = m

\* A session that left a refresh token, which the keyring took and gives back,
\* settles with a loop that renews its access token, although logins empty the
\* keyring the loops live on and a loop that finds nothing there ends for good
\* (oauth.rs:162-166).
SessionIsRenewed == Quiet /\ InAccount /\ kept /\ ~late => \E l \in Loop : Alive(l)

\* Once the restore of the start has had its turn, a login that got as far as
\* the browser and is the newest command is settled on screen, also when a
\* cancel takes its right to land away.
InBrowser(t) ==
  /\ auth.status = "loggingIn" /\ kind[t] = "login"
  /\ current = t /\ pc[t] \in {"browser", "profile"}
LoginSettles ==
  (~restoreDue /\ \E t \in Task : InBrowser(t)) ~> (auth.status # "loggingIn")

-----------------------------------------------------------------------------
(* Refuted *)

\* "Only an account session has anything to hand back: the other two never
\* held a token" (AccountSupportSettingsSection.tsx): a restore that is
\* answered after the person chose to play offline leaves its token and its
\* refresh loop in the offline session, and leaving that session keeps them.
OfflineHoldsNoToken == Quiet /\ auth.mode = "offline" => token = None

\* "Remove the old token up front so an account switch cannot retain the
\* previous account" (oauth.rs, login): the loop of the previous account may be
\* waiting for its answer, and a login that is not to be remembered leaves it
\* running.
TokenIsOfPlayer == Quiet /\ InAccount => token = auth.player

\* "The refresh loop goes first: left running it would immediately put a fresh
\* token back into the store" (oauth.rs, logout): abort does not stop a loop
\* that already has its answer; and a cancelled login keeps its token.
SignedOutHoldsNoToken == Quiet /\ auth.status = "loggedOut" => token = None

\* "should leave the normal login screen usable" (auth.rs:60-62): a restore that
\* begins while a login waits for its browser overtakes it, the login then ends
\* in silence, and so may the restore. A login also shows its start after it
\* was cancelled, and then returns in silence.
LoginEnds == (auth.status = "loggingIn") ~> (auth.status # "loggingIn")

\* "only a successful restore changes the authenticated state" (auth.rs:60-62):
\* one that fails takes the token of the session that was quicker than it, and
\* one that overtakes a logout leaves the session on screen, its token erased.
SessionKeepsToken == Quiet /\ InAccount => token # None
=============================================================================
