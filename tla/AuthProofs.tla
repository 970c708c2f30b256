----------------------------- MODULE AuthProofs -----------------------------
(***************************************************************************)
(* Proofs about Auth: for any number of commands and accounts, the session *)
(* is renewed by one loop at most, and a session that settles has its      *)
(* access token and, if it is to be remembered, the loop that renews it.   *)
(***************************************************************************)
EXTENDS Auth, Integers, TLAPS

\* A loop that lives is the one in the slot; only one that has its answer can
\* have been aborted and still run.
SlotHoldsLoop ==
  \A l \in Loop : /\ Alive(l) => l = refreshSlot
                  /\ loop[l].aborted => loop[l].phase = "answered"

IInv == TypeOK /\ SlotHoldsLoop

-----------------------------------------------------------------------------
(* Queues, and the operators the loops are changed with *)

LEMMA TailFacts ==
  ASSUME NEW S, NEW s \in Seq(S), s # <<>>
  PROVE  /\ Tail(s) \in Seq(S) /\ Len(Tail(s)) = Len(s) - 1 /\ Len(s) \in Nat \ {0}
         /\ Head(s) = s[1]
         /\ \A i \in 1..(Len(s) - 1) : Tail(s)[i] = s[i + 1]
OBVIOUS

LEMMA AppendFacts ==
  ASSUME NEW S, NEW s \in Seq(S), NEW e \in S
  PROVE  /\ Append(s, e) \in Seq(S) /\ Len(Append(s, e)) = Len(s) + 1 /\ Len(s) \in Nat
         /\ \A i \in 1..Len(s) : Append(s, e)[i] = s[i]
         /\ Append(s, e)[Len(s) + 1] = e
OBVIOUS

LoopType == [phase : {"off", "asleep", "exchanging", "answered"},
             account : Account \cup {None}, aborted : BOOLEAN]

LEMMA AsleepIsLoop == Asleep \in LoopType /\ Off \in LoopType
  BY DEF Asleep, Off, LoopType

\* Aborting the loop in the slot leaves none alive.
LEMMA AbortedFacts ==
  ASSUME IInv
  PROVE  /\ Aborted(refreshSlot) \in [Loop -> LoopType]
         /\ \A l \in Loop :
              LET after == Aborted(refreshSlot)[l] IN
              /\ after.phase # "off" => after.aborted
              /\ after.aborted => after.phase = "answered"
<1> DEFINE s == refreshSlot
<1>1. loop \in [Loop -> LoopType] /\ (s \in Loop \/ s = None) /\ None \notin Loop
  BY NoneAssumption DEF IInv, TypeOK, LoopType
<1>2. CASE s = None \/ loop[s].phase = "off"
  <2>1. Aborted(s) = loop
    BY <1>2 DEF Aborted
  <2>2. \A l \in Loop : ~Alive(l)
    BY <1>1, <1>2 DEF IInv, SlotHoldsLoop, Alive
  <2>3. QED
    BY <1>1, <2>1, <2>2 DEF IInv, SlotHoldsLoop, Alive
<1>3. CASE s \in Loop /\ loop[s].phase \in {"asleep", "exchanging"}
  <2>1. Aborted(s) = [loop EXCEPT ![s] = Off]
    BY <1>1, <1>3 DEF Aborted
  <2>2. Aborted(s) \in [Loop -> LoopType]
    BY <1>1, <2>1, AsleepIsLoop
  <2>3. QED
    BY <1>1, <1>3, <2>1, <2>2 DEF IInv, SlotHoldsLoop, Alive, Off, Asleep
<1>4. CASE s \in Loop /\ loop[s].phase = "answered"
  <2>1. Aborted(s) = [loop EXCEPT ![s] = [loop[s] EXCEPT !.aborted = TRUE]]
    BY <1>1, <1>4 DEF Aborted
  <2>2. [loop[s] EXCEPT !.aborted = TRUE] \in LoopType
    BY <1>1, <1>4 DEF LoopType
  <2>3. Aborted(s) \in [Loop -> LoopType]
    BY <1>1, <2>1, <2>2
  <2>4. [loop[s] EXCEPT !.aborted = TRUE].phase = "answered" /\ [loop[s] EXCEPT !.aborted = TRUE].aborted
    BY <1>1, <1>4 DEF LoopType
  <2>5. \A l \in Loop : l # s => Aborted(s)[l] = loop[l] /\ ~Alive(l)
    BY <1>1, <2>1 DEF IInv, SlotHoldsLoop
  <2>6. QED
    BY <1>1, <1>4, <2>1, <2>3, <2>4, <2>5 DEF IInv, SlotHoldsLoop, Alive
<1>5. QED
  BY <1>1, <1>2, <1>3, <1>4 DEF LoopType

\* A new loop in the slot is the only one alive.
LEMMA ScheduleFacts ==
  ASSUME IInv, ScheduleRefresh
  PROVE  /\ loop' \in [Loop -> LoopType]
         /\ refreshSlot' \in Loop
         /\ SlotHoldsLoop'
<1> DEFINE l == CHOOSE x \in Loop : loop[x].phase = "off"
<1>1. l \in Loop /\ refreshSlot' = l /\ loop' = [Aborted(refreshSlot) EXCEPT ![l] = Asleep]
  BY DEF ScheduleRefresh
<1> HIDE DEF l
<1>2. loop' \in [Loop -> LoopType]
  BY <1>1, AbortedFacts, AsleepIsLoop
<1>3. SlotHoldsLoop'
  BY <1>1, AbortedFacts DEF SlotHoldsLoop, Alive, Asleep
<1>4. QED
  BY <1>1, <1>2, <1>3

\* An empty slot after an abort leaves no loop alive.
LEMMA CancelFacts ==
  ASSUME IInv, loop' = Aborted(refreshSlot), refreshSlot' = None
  PROVE  loop' \in [Loop -> LoopType] /\ SlotHoldsLoop'
BY AbortedFacts DEF SlotHoldsLoop, Alive

\* The guard's queue loses its head or stays.
LEMMA FinishFacts ==
  ASSUME IInv, NEW t \in Task, Finish(t)
  PROVE  /\ pc' \in [Task -> PC] /\ kind' \in [Task -> Kind \cup {"none"}]
         /\ remember' \in [Task -> BOOLEAN] /\ who' \in [Task -> Account \cup {None}]
         /\ verdict' \in [Task -> {"none", "ok", "error", "cancelled"}]
         /\ current' \in Task \cup {None} /\ cancelSlot' \in Task \cup {None}
         /\ cancelled' \subseteq Task /\ mutex' \in Seq(Task) /\ stored' \subseteq Task
<1>1. mutex' \in Seq(Task)
  <2>1. mutex \in Seq(Task) /\ (mutex # <<>> => Tail(mutex) \in Seq(Task))
    BY DEF IInv, TypeOK
  <2>2. mutex' \in {mutex, Tail(mutex)} /\ (mutex = <<>> => mutex' = mutex)
    BY DEF Finish
  <2>3. QED
    BY <2>1, <2>2
<1>2. QED
  BY <1>1 DEF IInv, TypeOK, Finish, PC

-----------------------------------------------------------------------------
(* Init and the steps *)

LEMMA InitInv == Init => IInv
<1> SUFFICES ASSUME Init PROVE IInv
  OBVIOUS
<1>2. TypeOK
  <2>1. mutex \in Seq(Task)
    BY DEF Init
  <2>2. pc \in [Task -> PC] /\ kind \in [Task -> Kind \cup {"none"}]
    BY DEF Init, PC, Kind
  <2>3. loop \in [Loop -> LoopType]
    BY AsleepIsLoop DEF Init
  <2>4. QED
    BY <2>1, <2>2, <2>3 DEF Init, TypeOK, LoopType, LoggedOut
<1>3. SlotHoldsLoop
  BY DEF Init, SlotHoldsLoop, Alive, Off, Asleep
<1>4. QED
  BY <1>2, <1>3 DEF IInv

LEMMA ClickInv ==
  ASSUME IInv, NEW t \in Task, NEW k \in Kind, NEW keep \in BOOLEAN, Click(t, k, keep)
  PROVE  IInv'
<1>1. TypeOK'
  BY DEF IInv, TypeOK, PC, Kind, Click, Goto, taskVars, orderVars, secretVars, startVars
<1>2. SlotHoldsLoop'
  BY DEF IInv, SlotHoldsLoop, Alive, Click, Goto, secretVars, startVars
<1>3. QED
  BY <1>1, <1>2 DEF IInv

LEMMA ShellRestoresInv ==
  ASSUME IInv, NEW t \in Task, ShellRestores(t)
  PROVE  IInv'
<1>1. TypeOK'
  <2>1. mutex' \in Seq(Task)
    BY AppendFacts DEF IInv, TypeOK, ShellRestores
  <2>2. late' \in BOOLEAN
    BY DEF ShellRestores
  <2>3. QED
    BY <2>1, <2>2 DEF IInv, TypeOK, PC, Kind, ShellRestores, Goto, secretVars
<1>2. SlotHoldsLoop'
  BY DEF IInv, SlotHoldsLoop, Alive, ShellRestores, secretVars
<1>3. QED
  BY <1>1, <1>2 DEF IInv

LEMMA CancelPreviousInv ==
  ASSUME IInv, NEW t \in Task, CancelPrevious(t)
  PROVE  IInv'
<1>1. TypeOK'
  BY DEF IInv, TypeOK, PC, Kind, CancelPrevious, Goto, taskVars, orderVars, secretVars, startVars
<1>2. SlotHoldsLoop'
  BY DEF IInv, SlotHoldsLoop, Alive, CancelPrevious, Goto, secretVars, startVars
<1>3. QED
  BY <1>1, <1>2 DEF IInv

LEMMA BeginGenerationInv ==
  ASSUME IInv, NEW t \in Task, BeginGeneration(t)
  PROVE  IInv'
<1>1. TypeOK'
  BY DEF IInv, TypeOK, PC, Kind, BeginGeneration, Goto, taskVars, orderVars, secretVars, startVars
<1>2. SlotHoldsLoop'
  BY DEF IInv, SlotHoldsLoop, Alive, BeginGeneration, Goto, secretVars, startVars
<1>3. QED
  BY <1>1, <1>2 DEF IInv

LEMMA ProceedsInv ==
  ASSUME IInv, NEW t \in Task, Proceeds(t)
  PROVE  IInv'
<1>1. TypeOK'
  BY DEF IInv, TypeOK, PC, Kind, Proceeds, Goto, Work, taskVars, orderVars, secretVars, startVars
<1>2. SlotHoldsLoop'
  BY DEF IInv, SlotHoldsLoop, Alive, Proceeds, Goto, Work, secretVars, startVars
<1>3. QED
  BY <1>1, <1>2 DEF IInv

LEMMA LoginStartsInv ==
  ASSUME IInv, NEW t \in Task, LoginStarts(t)
  PROVE  IInv'
<1>1. TypeOK'
  BY DEF IInv, TypeOK, PC, Kind, LoginStarts, Goto, LoginStarted, taskVars, orderVars,
         secretVars, startVars
<1>2. SlotHoldsLoop'
  BY DEF IInv, SlotHoldsLoop, Alive, LoginStarts, Goto, LoginStarted, secretVars, startVars
<1>3. QED
  BY <1>1, <1>2 DEF IInv

LEMMA ForgetsPreviousInv ==
  ASSUME IInv, NEW t \in Task, ForgetsPrevious(t)
  PROVE  IInv'
<1>1. TypeOK'
  BY DEF IInv, TypeOK, PC, Kind, ForgetsPrevious, Goto, taskVars, orderVars, secretVars, startVars
<1>2. SlotHoldsLoop'
  BY DEF IInv, SlotHoldsLoop, Alive, ForgetsPrevious, Goto, secretVars, startVars
<1>3. QED
  BY <1>1, <1>2 DEF IInv

LEMMA LoginFailsInv ==
  ASSUME IInv, NEW t \in Task, LoginFails(t)
  PROVE  IInv'
<1>1. TypeOK'
  BY DEF IInv, TypeOK, PC, Kind, LoginFails, Ends, taskVars, orderVars, secretVars, startVars
<1>2. SlotHoldsLoop'
  BY DEF IInv, SlotHoldsLoop, Alive, LoginFails, Ends, secretVars, startVars
<1>3. QED
  BY <1>1, <1>2 DEF IInv

LEMMA LoginCancelledInv ==
  ASSUME IInv, NEW t \in Task, LoginCancelled(t)
  PROVE  IInv'
<1>1. TypeOK'
  BY DEF IInv, TypeOK, PC, Kind, LoginCancelled, Ends, taskVars, orderVars, secretVars, startVars
<1>2. SlotHoldsLoop'
  BY DEF IInv, SlotHoldsLoop, Alive, LoginCancelled, Ends, secretVars, startVars
<1>3. QED
  BY <1>1, <1>2 DEF IInv

LEMMA ProfileLoadedInv ==
  ASSUME IInv, NEW t \in Task, ProfileLoaded(t)
  PROVE  IInv'
<1>1. TypeOK'
  BY DEF IInv, TypeOK, PC, Kind, ProfileLoaded, Ends, taskVars, orderVars, secretVars, startVars
<1>2. SlotHoldsLoop'
  BY DEF IInv, SlotHoldsLoop, Alive, ProfileLoaded, Ends, secretVars, startVars
<1>3. QED
  BY <1>1, <1>2 DEF IInv

LEMMA LogoutClearsTokenInv ==
  ASSUME IInv, NEW t \in Task, LogoutClearsToken(t)
  PROVE  IInv'
<1>1. TypeOK'
  BY DEF IInv, TypeOK, PC, Kind, LogoutClearsToken, Goto, taskVars, orderVars, secretVars, startVars
<1>2. SlotHoldsLoop'
  BY DEF IInv, SlotHoldsLoop, Alive, LogoutClearsToken, Goto, secretVars, startVars
<1>3. QED
  BY <1>1, <1>2 DEF IInv

LEMMA LogoutClearsKeyringInv ==
  ASSUME IInv, NEW t \in Task, LogoutClearsKeyring(t)
  PROVE  IInv'
<1>1. TypeOK'
  BY DEF IInv, TypeOK, PC, Kind, LogoutClearsKeyring, Ends, taskVars, orderVars, secretVars, startVars
<1>2. SlotHoldsLoop'
  BY DEF IInv, SlotHoldsLoop, Alive, LogoutClearsKeyring, Ends, secretVars, startVars
<1>3. QED
  BY <1>1, <1>2 DEF IInv

LEMMA LandsInv ==
  ASSUME IInv, NEW t \in Task, Lands(t)
  PROVE  IInv'
<1>1. TypeOK'
  BY DEF IInv, TypeOK, PC, Kind, Lands, Goto, taskVars, orderVars, secretVars, startVars
<1>2. SlotHoldsLoop'
  BY DEF IInv, SlotHoldsLoop, Alive, Lands, Goto, secretVars, startVars
<1>3. QED
  BY <1>1, <1>2 DEF IInv

LEMMA GivesWayInv ==
  ASSUME IInv, NEW t \in Task, GivesWay(t)
  PROVE  IInv'
<1>1. TypeOK'
  <2>1. Finish(t)
    BY DEF GivesWay
  <2>2. QED
    BY <2>1, FinishFacts DEF IInv, TypeOK, GivesWay, secretVars, startVars
<1>2. SlotHoldsLoop'
  BY DEF IInv, SlotHoldsLoop, Alive, GivesWay, secretVars, startVars
<1>3. QED
  BY <1>1, <1>2 DEF IInv

LEMMA RestoreGivesUpInv ==
  ASSUME IInv, NEW t \in Task, RestoreGivesUp(t)
  PROVE  IInv'
<1>1. TypeOK'
  <2>1. Finish(t)
    BY DEF RestoreGivesUp
  <2>2. QED
    BY <2>1, FinishFacts DEF IInv, TypeOK, RestoreGivesUp, secretVars, startVars
<1>2. SlotHoldsLoop'
  BY DEF IInv, SlotHoldsLoop, Alive, RestoreGivesUp, secretVars, startVars
<1>3. QED
  BY <1>1, <1>2 DEF IInv

LEMMA OvertakenInv ==
  ASSUME IInv, NEW t \in Task, Overtaken(t)
  PROVE  IInv'
<1>1. TypeOK'
  <2>1. Finish(t)
    BY DEF Overtaken
  <2>2. QED
    BY <2>1, FinishFacts DEF IInv, TypeOK, Overtaken, secretVars, startVars
<1>2. SlotHoldsLoop'
  BY DEF IInv, SlotHoldsLoop, Alive, Overtaken, secretVars, startVars
<1>3. QED
  BY <1>1, <1>2 DEF IInv

LEMMA AnnounceInv ==
  ASSUME IInv, NEW t \in Task, Announce(t)
  PROVE  IInv'
<1>1. TypeOK'
  <2>1. Finish(t)
    BY DEF Announce
  <2>2. auth' \in [status : {"loggedOut", "loggingIn", "loggedIn", "failed"},
                  mode : {"account", "offline"}, player : Account \cup {None}]
    BY DEF IInv, TypeOK, Announce, Shown, LoggedIn, LoggedOut, WentOffline, LoginFailed
  <2>3. kept' \in BOOLEAN
    BY DEF IInv, TypeOK, Announce, SignsIn
  <2>4. QED
    BY <2>1, <2>2, <2>3, FinishFacts DEF IInv, TypeOK, Announce, secretVars, startVars
<1>2. SlotHoldsLoop'
  BY DEF IInv, SlotHoldsLoop, Alive, Announce, secretVars, startVars
<1>3. QED
  BY <1>1, <1>2 DEF IInv

LEMMA BrowserAnswersInv ==
  ASSUME IInv, NEW t \in Task, NEW a \in Account, BrowserAnswers(t, a)
  PROVE  IInv'
<1>0. keyring' \in Account \cup {None} /\ stored' \subseteq Task
  BY DEF BrowserAnswers, IInv, TypeOK
<1>1. /\ loop' \in [Loop -> LoopType] /\ refreshSlot' \in Loop \cup {None}
      /\ SlotHoldsLoop'
  <2>1. CASE remember[t]
    BY <2>1, ScheduleFacts DEF BrowserAnswers
  <2>2. CASE ~remember[t]
    BY <2>2 DEF BrowserAnswers, IInv, TypeOK, SlotHoldsLoop, Alive, LoopType
  <2>3. QED
    BY <2>1, <2>2
<1>2. TypeOK'
  BY <1>0, <1>1 DEF IInv, TypeOK, PC, LoopType, BrowserAnswers, Goto, orderVars, startVars
<1>3. QED
  BY <1>1, <1>2 DEF IInv

LEMMA RestoreAnsweredInv ==
  ASSUME IInv, NEW t \in Task, RestoreAnswered(t)
  PROVE  IInv'
<1>1. loop' \in [Loop -> LoopType] /\ refreshSlot' \in Loop /\ SlotHoldsLoop'
  BY ScheduleFacts DEF RestoreAnswered
<1>2. TypeOK'
  BY <1>1 DEF IInv, TypeOK, PC, LoopType, RestoreAnswered, Goto, orderVars, startVars
<1>3. QED
  BY <1>1, <1>2 DEF IInv

LEMMA RestoreFailsInv ==
  ASSUME IInv, NEW t \in Task, RestoreFails(t)
  PROVE  IInv'
<1>1. loop' \in [Loop -> LoopType] /\ SlotHoldsLoop'
  BY CancelFacts DEF RestoreFails
<1>2. TypeOK'
  <2>1. Finish(t)
    BY DEF RestoreFails
  <2>2. QED
    BY <1>1, <2>1, FinishFacts DEF IInv, TypeOK, LoopType, RestoreFails, startVars
<1>3. QED
  BY <1>1, <1>2 DEF IInv

LEMMA LogoutCancelsRefreshInv ==
  ASSUME IInv, NEW t \in Task, LogoutCancelsRefresh(t)
  PROVE  IInv'
<1>1. loop' \in [Loop -> LoopType] /\ SlotHoldsLoop'
  BY CancelFacts DEF LogoutCancelsRefresh
<1>2. TypeOK'
  BY <1>1 DEF IInv, TypeOK, PC, LoopType, LogoutCancelsRefresh, Goto, orderVars, startVars
<1>3. QED
  BY <1>1, <1>2 DEF IInv

LEMMA LoopWakesInv ==
  ASSUME IInv, NEW l \in Loop, LoopWakes(l)
  PROVE  IInv'
<1>1. TypeOK'
  <2>1. loop \in [Loop -> LoopType]
    BY DEF IInv, TypeOK, LoopType
  <2>2. loop' \in [Loop -> LoopType]
    BY <2>1, AsleepIsLoop DEF LoopWakes, IInv, TypeOK, LoopType, Asleep
  <2>3. QED
    BY <2>1, <2>2 DEF IInv, TypeOK, LoopType, LoopWakes, taskVars, orderVars, startVars
<1>2. SlotHoldsLoop'
  BY DEF IInv, TypeOK, SlotHoldsLoop, Alive, LoopWakes, Asleep, Off
<1>3. QED
  BY <1>1, <1>2 DEF IInv

LEMMA LoopFindsNothingInv ==
  ASSUME IInv, NEW l \in Loop, LoopFindsNothing(l)
  PROVE  IInv'
<1>1. TypeOK'
  <2>1. loop \in [Loop -> LoopType]
    BY DEF IInv, TypeOK, LoopType
  <2>2. loop' \in [Loop -> LoopType]
    BY <2>1, AsleepIsLoop DEF LoopFindsNothing
  <2>3. QED
    BY <2>1, <2>2 DEF IInv, TypeOK, LoopType, LoopFindsNothing, taskVars, orderVars, startVars
<1>2. SlotHoldsLoop'
  BY DEF IInv, TypeOK, SlotHoldsLoop, Alive, LoopFindsNothing, Asleep, Off
<1>3. QED
  BY <1>1, <1>2 DEF IInv

LEMMA LoopFailsInv ==
  ASSUME IInv, NEW l \in Loop, LoopFails(l)
  PROVE  IInv'
<1>1. TypeOK'
  <2>1. loop \in [Loop -> LoopType]
    BY DEF IInv, TypeOK, LoopType
  <2>2. loop' \in [Loop -> LoopType]
    BY <2>1, AsleepIsLoop DEF LoopFails, IInv, TypeOK, LoopType, Asleep
  <2>3. QED
    BY <2>1, <2>2 DEF IInv, TypeOK, LoopType, LoopFails, taskVars, orderVars, startVars
<1>2. SlotHoldsLoop'
  BY DEF IInv, TypeOK, SlotHoldsLoop, Alive, LoopFails, Asleep, Off
<1>3. QED
  BY <1>1, <1>2 DEF IInv

LEMMA LoopAnsweredInv ==
  ASSUME IInv, NEW l \in Loop, LoopAnswered(l)
  PROVE  IInv'
<1>1. TypeOK'
  <2>1. loop \in [Loop -> LoopType]
    BY DEF IInv, TypeOK, LoopType
  <2>2. loop' \in [Loop -> LoopType]
    BY <2>1, AsleepIsLoop DEF LoopAnswered, IInv, TypeOK, LoopType, Asleep
  <2>3. QED
    BY <2>1, <2>2 DEF IInv, TypeOK, LoopType, LoopAnswered, taskVars, orderVars, startVars
<1>2. SlotHoldsLoop'
  BY DEF IInv, TypeOK, SlotHoldsLoop, Alive, LoopAnswered, Asleep, Off
<1>3. QED
  BY <1>1, <1>2 DEF IInv

LEMMA LoopRenewsInv ==
  ASSUME IInv, NEW l \in Loop, LoopRenews(l)
  PROVE  IInv'
<1>1. TypeOK'
  <2>1. loop \in [Loop -> LoopType]
    BY DEF IInv, TypeOK, LoopType
  <2>2. loop' \in [Loop -> LoopType]
    BY <2>1, AsleepIsLoop DEF LoopRenews, IInv, TypeOK, LoopType, Asleep
  <2>3. QED
    BY <2>1, <2>2 DEF IInv, TypeOK, LoopType, LoopRenews, taskVars, orderVars, startVars
<1>2. SlotHoldsLoop'
  BY DEF IInv, TypeOK, SlotHoldsLoop, Alive, LoopRenews, Asleep, Off
<1>3. QED
  BY <1>1, <1>2 DEF IInv

-----------------------------------------------------------------------------
(* The specification *)

LEMMA TaskStepInv ==
  ASSUME IInv, NEW t \in Task, TaskStep(t)
  PROVE  IInv'
BY CancelPreviousInv, BeginGenerationInv, GivesWayInv, ProceedsInv, LoginStartsInv,
   ForgetsPreviousInv, LoginFailsInv, LoginCancelledInv, BrowserAnswersInv,
   ProfileLoadedInv, RestoreAnsweredInv, RestoreGivesUpInv, RestoreFailsInv,
   LogoutCancelsRefreshInv, LogoutClearsTokenInv, LogoutClearsKeyringInv,
   OvertakenInv, LandsInv, AnnounceInv DEF TaskStep

LEMMA NextInv == IInv /\ [Next]_vars => IInv'
<1> SUFFICES ASSUME IInv, [Next]_vars PROVE IInv'
  OBVIOUS
<1>1. ASSUME NEW t \in Task, NEW k \in Kind, NEW keep \in BOOLEAN, Click(t, k, keep) PROVE IInv'
  BY <1>1, ClickInv
<1>2. ASSUME NEW t \in Task, ShellRestores(t) \/ TaskStep(t) PROVE IInv'
  BY <1>2, ShellRestoresInv, TaskStepInv
<1>3. ASSUME NEW l \in Loop, LoopStep(l) PROVE IInv'
  BY <1>3, LoopWakesInv, LoopFindsNothingInv, LoopFailsInv, LoopAnsweredInv, LoopRenewsInv DEF LoopStep
<1>4. CASE UNCHANGED vars
  <2>1. TypeOK'
    BY <1>4 DEF IInv, TypeOK, vars, taskVars, orderVars, secretVars, startVars
  <2>2. SlotHoldsLoop'
    BY <1>4 DEF IInv, SlotHoldsLoop, Alive, vars, secretVars, startVars
  <2>3. QED
    BY <2>1, <2>2 DEF IInv
<1>5. QED
  BY <1>1, <1>2, <1>3, <1>4 DEF Next

\* The variables keep their types, for any number of commands and accounts.
THEOREM AuthTypeCorrect == Spec => []TypeOK
<1>1. IInv => TypeOK
  BY DEF IInv
<1>2. QED
  BY <1>1, InitInv, NextInv, PTL DEF Spec

\* At most one loop renews the token (oauth.rs, refresh_task), however many
\* restores, logins and logouts overtake each other.
THEOREM OneLoopRenews == Spec => []OneRefreshLoop
<1>1. IInv => OneRefreshLoop
  BY DEF IInv, SlotHoldsLoop, OneRefreshLoop
<1>2. QED
  BY <1>1, InitInv, NextInv, PTL DEF Spec

-----------------------------------------------------------------------------
(* Who holds the guard, and who is cancelled *)

\* From the guard to the end of the command.
Using == {"starting", "forgetting", "browser", "profile", "restoring",
          "logout", "clearing", "erasing", "answered"}
Working(t) == pc[t] \in Using \cup {"announce"} /\ UsesAccount(t)

\* Only the holder of auth_mutation works with the account.
HolderWorks == \A t \in Task : Working(t) => Holds(t)

\* A task is only where its command brings it.
KindFits ==
  \A t \in Task :
    /\ pc[t] \in {"starting", "forgetting", "browser"} => kind[t] = "login"
    /\ pc[t] = "restoring" => kind[t] = "restore"
    /\ pc[t] = "profile" => kind[t] \in {"login", "restore"}
    /\ pc[t] \in {"logout", "clearing", "erasing"} => kind[t] = "logout"
    /\ pc[t] \in Using \cup {"queued"} => UsesAccount(t)
    /\ pc[t] = "idle" => kind[t] = "none"
    /\ pc[t] \in {"begin", "generation"} => kind[t] # "restore"

\* The screen is not used between two tokens.
OneBegins ==
  \A t, u \in Task : pc[t] \in {"begin", "generation"} /\ pc[u] \in {"begin", "generation"} => t = u

\* The newest command is only cancelled by one that is about to replace it.
CancelsNewest ==
  /\ cancelSlot # None => pc[cancelSlot] \notin {"idle", "begin"}
  /\ \A t \in cancelled : /\ pc[t] \notin {"idle", "begin", "generation"}
                          /\ current = t => \E v \in Task : pc[v] = "generation"

\* Who waits for the guard stands in its queue once, the newest command last.
QueueOrder ==
  /\ \A i, j \in 1..Len(mutex) : mutex[i] = mutex[j] => i = j
  /\ \A i \in 1..Len(mutex) : /\ pc[mutex[i]] \in Using \cup {"queued", "announce"}
                              /\ UsesAccount(mutex[i])
                              /\ mutex[i] = current => i = Len(mutex)
  /\ \A t \in Task : pc[t] = "queued" => \E i \in 1..Len(mutex) : mutex[i] = t

Control == HolderWorks /\ KindFits /\ OneBegins /\ CancelsNewest /\ QueueOrder

LEMMA ShellRestoresControl ==
  ASSUME IInv, Control, NEW t \in Task, ShellRestores(t)
  PROVE  Control'
<1> USE DEF IInv, TypeOK, PC, ShellRestores, Goto, secretVars
<1>1. HolderWorks'
  <2>1. \A u \in Task : Working(u)' => Working(u)
    BY DEF Working, Using, UsesAccount
  <2>2. mutex # <<>> => mutex' # <<>> /\ Head(mutex') = Head(mutex)
    OBVIOUS
  <2>3. QED
    BY <2>1, <2>2 DEF Control, HolderWorks, Holds
<1>2. KindFits'
  BY DEF Control, KindFits, UsesAccount, Using
<1>3. OneBegins'
  BY DEF Control, OneBegins
<1>4. CancelsNewest'
  BY NoneAssumption DEF Control, CancelsNewest
<1>5. QueueOrder'
  <2>1. mutex' = Append(mutex, t) /\ current' = t /\ \A i \in 1..Len(mutex) : mutex[i] # t
    BY DEF Control, QueueOrder, Using
  <2>2. QED
    BY <2>1, AppendFacts DEF Control, QueueOrder, Using, UsesAccount
<1>6. QED
  BY <1>1, <1>2, <1>3, <1>4, <1>5 DEF Control

LEMMA ClickControl ==
  ASSUME IInv, Control, NEW t \in Task, NEW k \in Kind, NEW keep \in BOOLEAN, Click(t, k, keep)
  PROVE  Control'
<1> USE DEF IInv, TypeOK, PC, Click, Offered, Goto, orderVars, secretVars, startVars
<1>1. HolderWorks'
  BY DEF Control, HolderWorks, KindFits, Working, Using, Holds, UsesAccount
<1>2. KindFits'
  BY DEF Control, KindFits, UsesAccount, Using
<1>3. OneBegins'
  BY DEF Control, OneBegins
<1>4. CancelsNewest'
  BY NoneAssumption DEF Control, CancelsNewest, OneBegins
<1>5. QueueOrder'
  BY DEF Control, QueueOrder, KindFits, Using, UsesAccount
<1>6. QED
  BY <1>1, <1>2, <1>3, <1>4, <1>5 DEF Control

LEMMA CancelPreviousControl ==
  ASSUME IInv, Control, NEW t \in Task, CancelPrevious(t)
  PROVE  Control'
<1> USE DEF IInv, TypeOK, PC, CancelPrevious, Goto, secretVars, startVars
<1>1. HolderWorks'
  BY DEF Control, HolderWorks, KindFits, Working, Using, Holds, UsesAccount
<1>2. KindFits'
  BY DEF Control, KindFits, UsesAccount, Using
<1>3. OneBegins'
  BY DEF Control, OneBegins
<1>4. CancelsNewest'
  BY NoneAssumption DEF Control, CancelsNewest, OneBegins
<1>5. QueueOrder'
  BY DEF Control, QueueOrder, KindFits, Using, UsesAccount
<1>6. QED
  BY <1>1, <1>2, <1>3, <1>4, <1>5 DEF Control

LEMMA BeginGenerationControl ==
  ASSUME IInv, Control, NEW t \in Task, BeginGeneration(t)
  PROVE  Control'
<1> USE DEF IInv, TypeOK, PC, BeginGeneration, Goto, secretVars, startVars
<1>1. HolderWorks'
  <2>1. \A u \in Task : pc'[u] \in Using \cup {"announce"} /\ UsesAccount(u) => Working(u)
    BY DEF Working, Using, UsesAccount
  <2>2. mutex # <<>> => mutex' # <<>> /\ Head(mutex') = Head(mutex)
    OBVIOUS
  <2>3. QED
    BY <2>1, <2>2 DEF Control, HolderWorks, Working, Holds, UsesAccount
<1>2. KindFits'
  BY DEF Control, KindFits, UsesAccount, Using
<1>3. OneBegins'
  BY DEF Control, OneBegins
<1>4. CancelsNewest'
  BY NoneAssumption DEF Control, CancelsNewest, OneBegins
<1>5. QueueOrder'
  <2>1. current' = t /\ \A k \in 1..Len(mutex) : mutex[k] # t
    BY DEF Control, QueueOrder, Using
  <2>2. CASE UsesAccount(t)
    BY <2>1, <2>2, AppendFacts DEF Control, QueueOrder, Using, UsesAccount
  <2>3. CASE ~UsesAccount(t)
    BY <2>1, <2>3 DEF Control, QueueOrder, Using, UsesAccount
  <2>4. QED
    BY <2>2, <2>3
<1>6. QED
  BY <1>1, <1>2, <1>3, <1>4, <1>5 DEF Control

LEMMA ProceedsControl ==
  ASSUME IInv, Control, NEW t \in Task, Proceeds(t)
  PROVE  Control'
<1> USE DEF IInv, TypeOK, PC, Proceeds, Goto, Work, orderVars, secretVars, startVars
<1>1. HolderWorks'
  BY DEF Control, HolderWorks, KindFits, Working, Using, Holds, UsesAccount
<1>2. KindFits'
  BY DEF Control, KindFits, UsesAccount, Using
<1>3. OneBegins'
  BY DEF Control, OneBegins
<1>4. CancelsNewest'
  BY NoneAssumption DEF Control, CancelsNewest, OneBegins
<1>5. QueueOrder'
  BY DEF Control, QueueOrder, KindFits, Using, UsesAccount
<1>6. QED
  BY <1>1, <1>2, <1>3, <1>4, <1>5 DEF Control

LEMMA LoginStartsControl ==
  ASSUME IInv, Control, NEW t \in Task, LoginStarts(t)
  PROVE  Control'
<1> USE DEF IInv, TypeOK, PC, LoginStarts, Goto, orderVars, secretVars, startVars
<1>1. HolderWorks'
  BY DEF Control, HolderWorks, KindFits, Working, Using, Holds, UsesAccount
<1>2. KindFits'
  BY DEF Control, KindFits, UsesAccount, Using
<1>3. OneBegins'
  BY DEF Control, OneBegins
<1>4. CancelsNewest'
  BY NoneAssumption DEF Control, CancelsNewest, OneBegins
<1>5. QueueOrder'
  BY DEF Control, QueueOrder, KindFits, Using, UsesAccount
<1>6. QED
  BY <1>1, <1>2, <1>3, <1>4, <1>5 DEF Control

LEMMA ForgetsPreviousControl ==
  ASSUME IInv, Control, NEW t \in Task, ForgetsPrevious(t)
  PROVE  Control'
<1> USE DEF IInv, TypeOK, PC, ForgetsPrevious, Goto, orderVars, secretVars, startVars
<1>1. HolderWorks'
  BY DEF Control, HolderWorks, KindFits, Working, Using, Holds, UsesAccount
<1>2. KindFits'
  BY DEF Control, KindFits, UsesAccount, Using
<1>3. OneBegins'
  BY DEF Control, OneBegins
<1>4. CancelsNewest'
  BY NoneAssumption DEF Control, CancelsNewest, OneBegins
<1>5. QueueOrder'
  BY DEF Control, QueueOrder, KindFits, Using, UsesAccount
<1>6. QED
  BY <1>1, <1>2, <1>3, <1>4, <1>5 DEF Control

LEMMA LoginFailsControl ==
  ASSUME IInv, Control, NEW t \in Task, LoginFails(t)
  PROVE  Control'
<1> USE DEF IInv, TypeOK, PC, LoginFails, Ends, orderVars, secretVars, startVars
<1>1. HolderWorks'
  BY DEF Control, HolderWorks, KindFits, Working, Using, Holds, UsesAccount
<1>2. KindFits'
  BY DEF Control, KindFits, UsesAccount, Using
<1>3. OneBegins'
  BY DEF Control, OneBegins
<1>4. CancelsNewest'
  BY NoneAssumption DEF Control, CancelsNewest, OneBegins
<1>5. QueueOrder'
  BY DEF Control, QueueOrder, KindFits, Using, UsesAccount
<1>6. QED
  BY <1>1, <1>2, <1>3, <1>4, <1>5 DEF Control

LEMMA LoginCancelledControl ==
  ASSUME IInv, Control, NEW t \in Task, LoginCancelled(t)
  PROVE  Control'
<1> USE DEF IInv, TypeOK, PC, LoginCancelled, Ends, orderVars, secretVars, startVars
<1>1. HolderWorks'
  BY DEF Control, HolderWorks, KindFits, Working, Using, Holds, UsesAccount
<1>2. KindFits'
  BY DEF Control, KindFits, UsesAccount, Using
<1>3. OneBegins'
  BY DEF Control, OneBegins
<1>4. CancelsNewest'
  BY NoneAssumption DEF Control, CancelsNewest, OneBegins
<1>5. QueueOrder'
  BY DEF Control, QueueOrder, KindFits, Using, UsesAccount
<1>6. QED
  BY <1>1, <1>2, <1>3, <1>4, <1>5 DEF Control

LEMMA BrowserAnswersControl ==
  ASSUME IInv, Control, NEW t \in Task, NEW a \in Account, BrowserAnswers(t, a)
  PROVE  Control'
<1> USE DEF IInv, TypeOK, PC, BrowserAnswers, Goto, orderVars, secretVars, startVars
<1>1. HolderWorks'
  BY DEF Control, HolderWorks, KindFits, Working, Using, Holds, UsesAccount
<1>2. KindFits'
  BY DEF Control, KindFits, UsesAccount, Using
<1>3. OneBegins'
  BY DEF Control, OneBegins
<1>4. CancelsNewest'
  BY NoneAssumption DEF Control, CancelsNewest, OneBegins
<1>5. QueueOrder'
  BY DEF Control, QueueOrder, KindFits, Using, UsesAccount
<1>6. QED
  BY <1>1, <1>2, <1>3, <1>4, <1>5 DEF Control

LEMMA ProfileLoadedControl ==
  ASSUME IInv, Control, NEW t \in Task, ProfileLoaded(t)
  PROVE  Control'
<1> USE DEF IInv, TypeOK, PC, ProfileLoaded, Ends, orderVars, secretVars, startVars
<1>1. HolderWorks'
  BY DEF Control, HolderWorks, KindFits, Working, Using, Holds, UsesAccount
<1>2. KindFits'
  BY DEF Control, KindFits, UsesAccount, Using
<1>3. OneBegins'
  BY DEF Control, OneBegins
<1>4. CancelsNewest'
  BY NoneAssumption DEF Control, CancelsNewest, OneBegins
<1>5. QueueOrder'
  BY DEF Control, QueueOrder, KindFits, Using, UsesAccount
<1>6. QED
  BY <1>1, <1>2, <1>3, <1>4, <1>5 DEF Control

LEMMA RestoreAnsweredControl ==
  ASSUME IInv, Control, NEW t \in Task, RestoreAnswered(t)
  PROVE  Control'
<1> USE DEF IInv, TypeOK, PC, RestoreAnswered, Goto, orderVars, secretVars, startVars
<1>1. HolderWorks'
  BY DEF Control, HolderWorks, KindFits, Working, Using, Holds, UsesAccount
<1>2. KindFits'
  BY DEF Control, KindFits, UsesAccount, Using
<1>3. OneBegins'
  BY DEF Control, OneBegins
<1>4. CancelsNewest'
  BY NoneAssumption DEF Control, CancelsNewest, OneBegins
<1>5. QueueOrder'
  BY DEF Control, QueueOrder, KindFits, Using, UsesAccount
<1>6. QED
  BY <1>1, <1>2, <1>3, <1>4, <1>5 DEF Control

LEMMA LogoutCancelsRefreshControl ==
  ASSUME IInv, Control, NEW t \in Task, LogoutCancelsRefresh(t)
  PROVE  Control'
<1> USE DEF IInv, TypeOK, PC, LogoutCancelsRefresh, Goto, orderVars, secretVars, startVars
<1>1. HolderWorks'
  BY DEF Control, HolderWorks, KindFits, Working, Using, Holds, UsesAccount
<1>2. KindFits'
  BY DEF Control, KindFits, UsesAccount, Using
<1>3. OneBegins'
  BY DEF Control, OneBegins
<1>4. CancelsNewest'
  BY NoneAssumption DEF Control, CancelsNewest, OneBegins
<1>5. QueueOrder'
  BY DEF Control, QueueOrder, KindFits, Using, UsesAccount
<1>6. QED
  BY <1>1, <1>2, <1>3, <1>4, <1>5 DEF Control

LEMMA LogoutClearsTokenControl ==
  ASSUME IInv, Control, NEW t \in Task, LogoutClearsToken(t)
  PROVE  Control'
<1> USE DEF IInv, TypeOK, PC, LogoutClearsToken, Goto, orderVars, secretVars, startVars
<1>1. HolderWorks'
  BY DEF Control, HolderWorks, KindFits, Working, Using, Holds, UsesAccount
<1>2. KindFits'
  BY DEF Control, KindFits, UsesAccount, Using
<1>3. OneBegins'
  BY DEF Control, OneBegins
<1>4. CancelsNewest'
  BY NoneAssumption DEF Control, CancelsNewest, OneBegins
<1>5. QueueOrder'
  BY DEF Control, QueueOrder, KindFits, Using, UsesAccount
<1>6. QED
  BY <1>1, <1>2, <1>3, <1>4, <1>5 DEF Control

LEMMA LogoutClearsKeyringControl ==
  ASSUME IInv, Control, NEW t \in Task, LogoutClearsKeyring(t)
  PROVE  Control'
<1> USE DEF IInv, TypeOK, PC, LogoutClearsKeyring, Ends, orderVars, secretVars, startVars
<1>1. HolderWorks'
  BY DEF Control, HolderWorks, KindFits, Working, Using, Holds, UsesAccount
<1>2. KindFits'
  BY DEF Control, KindFits, UsesAccount, Using
<1>3. OneBegins'
  BY DEF Control, OneBegins
<1>4. CancelsNewest'
  BY NoneAssumption DEF Control, CancelsNewest, OneBegins
<1>5. QueueOrder'
  BY DEF Control, QueueOrder, KindFits, Using, UsesAccount
<1>6. QED
  BY <1>1, <1>2, <1>3, <1>4, <1>5 DEF Control

LEMMA LandsControl ==
  ASSUME IInv, Control, NEW t \in Task, Lands(t)
  PROVE  Control'
<1> USE DEF IInv, TypeOK, PC, Lands, Goto, orderVars, secretVars, startVars
<1>1. HolderWorks'
  BY DEF Control, HolderWorks, KindFits, Working, Using, Holds, UsesAccount
<1>2. KindFits'
  BY DEF Control, KindFits, UsesAccount, Using
<1>3. OneBegins'
  BY DEF Control, OneBegins
<1>4. CancelsNewest'
  BY NoneAssumption DEF Control, CancelsNewest, OneBegins
<1>5. QueueOrder'
  BY DEF Control, QueueOrder, KindFits, Using, UsesAccount
<1>6. QED
  BY <1>1, <1>2, <1>3, <1>4, <1>5 DEF Control

\* A task that ends hands the guard on, and nothing bears its name any more.
LEMMA FinishControl ==
  ASSUME IInv, Control, NEW t \in Task, Finish(t), pc[t] \notin {"begin", "generation"},
         Holds(t) \/ ~UsesAccount(t)
  PROVE  Control'
<1> USE DEF IInv, TypeOK, PC, Finish
<1>1. HolderWorks'
  <2>1. \A u \in Task : Working(u)' => Working(u) /\ u # t
    BY DEF Working, Using, UsesAccount
  <2>2. \A u \in Task : Working(u) /\ u # t => Holds(u) /\ ~Holds(t)
    BY DEF Control, HolderWorks, Holds
  <2>3. QED
    BY <2>1, <2>2 DEF HolderWorks, Holds
<1>2. KindFits'
  BY DEF Control, KindFits, UsesAccount, Using
<1>3. OneBegins'
  BY DEF Control, OneBegins
<1>4. CancelsNewest'
  BY NoneAssumption DEF Control, CancelsNewest
<1>5. QueueOrder'
  <2>1. /\ pc' = [pc EXCEPT ![t] = "idle"] /\ kind' = [kind EXCEPT ![t] = "none"]
        /\ current' \in {current, None} /\ \A i \in 1..Len(mutex) : mutex[i] # None
    BY NoneAssumption
  <2>2. CASE Holds(t)
    <3>1. mutex \in Seq(Task) /\ mutex # <<>> /\ mutex[1] = t /\ mutex' = Tail(mutex)
      BY <2>2, TailFacts DEF Holds
    <3>2. /\ Len(mutex') = Len(mutex) - 1 /\ Len(mutex) \in Nat \ {0}
          /\ \A i \in 1..Len(mutex') : mutex'[i] = mutex[i + 1] /\ i + 1 \in 1..Len(mutex)
      <4>1. /\ Len(mutex') = Len(mutex) - 1 /\ Len(mutex) \in Nat \ {0}
            /\ \A i \in 1..(Len(mutex) - 1) : mutex'[i] = mutex[i + 1]
        BY <3>1, TailFacts
      <4>2. QED
        BY <4>1
    <3>3. \A i \in 1..Len(mutex') : mutex'[i] # t /\ mutex'[i] \in Task
      <4>1. ASSUME NEW i \in 1..Len(mutex') PROVE mutex'[i] # t /\ mutex'[i] \in Task
        <5>1. /\ mutex'[i] = mutex[i + 1] /\ i + 1 \in 1..Len(mutex)
              /\ 1 \in 1..Len(mutex) /\ i + 1 # 1
          BY <3>2
        <5>2. mutex[i + 1] \in Task /\ mutex[i + 1] # mutex[1]
          BY <3>1, <5>1 DEF Control, QueueOrder
        <5>3. QED
          BY <3>1, <5>1, <5>2
      <4>2. QED
        BY <4>1
    <3>4. \A i, j \in 1..Len(mutex') : mutex'[i] = mutex'[j] => i = j
      BY <3>2 DEF Control, QueueOrder
    <3>5. ASSUME NEW i \in 1..Len(mutex')
          PROVE  /\ pc'[mutex'[i]] \in Using \cup {"queued", "announce"}
                 /\ UsesAccount(mutex[i])'
                 /\ mutex'[i] = current' => i = Len(mutex')
      <4>1. mutex'[i] = mutex[i + 1] /\ i + 1 \in 1..Len(mutex) /\ mutex'[i] # t /\ mutex'[i] \in Task
        BY <3>2, <3>3
      <4>2. /\ pc[mutex[i + 1]] \in Using \cup {"queued", "announce"}
            /\ UsesAccount(mutex[i + 1])
            /\ mutex[i + 1] = current => i + 1 = Len(mutex)
        BY <4>1 DEF Control, QueueOrder
      <4>3. mutex[i + 1] # None
        BY <2>1, <4>1
      <4>4. pc'[mutex'[i]] = pc[mutex[i + 1]] /\ kind'[mutex'[i]] = kind[mutex[i + 1]]
        BY <2>1, <4>1
      <4>5. mutex'[i] = current' => i = Len(mutex')
        <5>1. mutex'[i] = current' => mutex[i + 1] = current
          BY <2>1, <4>1, <4>3
        <5>2. i \in Int /\ Len(mutex) \in Int /\ Len(mutex') = Len(mutex) - 1
          BY <3>2
        <5>3. QED
          BY <4>2, <5>1, <5>2
      <4>6. QED
        BY <4>2, <4>4, <4>5 DEF UsesAccount
    <3>6. ASSUME NEW u \in Task, pc'[u] = "queued"
          PROVE  \E i \in 1..Len(mutex') : mutex'[i] = u
      <4>1. u # t /\ pc[u] = "queued"
        BY <2>1, <3>6
      <4>2. PICK k \in 1..Len(mutex) : mutex[k] = u
        BY <4>1 DEF Control, QueueOrder
      <4>3. k # 1 /\ k \in 1..Len(mutex)
        BY <3>1, <4>1, <4>2
      <4>4. PICK i \in 1..Len(mutex') : i + 1 = k
        <5>1. k - 1 \in 1..Len(mutex') /\ (k - 1) + 1 = k
          BY <3>2, <4>3
        <5>2. QED
          BY <5>1
      <4>5. mutex'[i] = mutex[k]
        BY <3>2, <4>4
      <4>6. QED
        BY <4>2, <4>5
    <3>7. QED
      BY <3>4, <3>5, <3>6 DEF QueueOrder
  <2>3. CASE ~Holds(t)
    <3>1. mutex' = mutex /\ ~UsesAccount(t)
      BY <2>3 DEF Holds
    <3>2. \A i \in 1..Len(mutex) : mutex[i] # t
      BY <3>1 DEF Control, QueueOrder
    <3>3. QED
      BY <2>1, <3>1, <3>2 DEF Control, QueueOrder, UsesAccount
  <2>4. QED
    BY <2>2, <2>3
<1>6. QED
  BY <1>1, <1>2, <1>3, <1>4, <1>5 DEF Control

LEMMA TaskControl ==
  ASSUME IInv, Control, NEW t \in Task, TaskStep(t)
  PROVE  Control'
<1>1. ASSUME GivesWay(t) \/ RestoreGivesUp(t) \/ RestoreFails(t) \/ Overtaken(t) \/ Announce(t)
      PROVE  Control'
  <2>1. Finish(t) /\ pc[t] \notin {"begin", "generation"}
    BY <1>1 DEF GivesWay, RestoreGivesUp, RestoreFails, Overtaken, Announce
  <2>2. Holds(t) \/ ~UsesAccount(t)
    BY <1>1 DEF GivesWay, RestoreGivesUp, RestoreFails, Overtaken, Announce, Control,
                HolderWorks, Working, Using, KindFits
  <2>3. QED
    BY <2>1, <2>2, FinishControl
<1>2. QED
  BY <1>1, CancelPreviousControl, BeginGenerationControl, ProceedsControl, LoginStartsControl,
     ForgetsPreviousControl, LoginFailsControl, LoginCancelledControl, BrowserAnswersControl,
     ProfileLoadedControl, RestoreAnsweredControl, LogoutCancelsRefreshControl,
     LogoutClearsTokenControl, LogoutClearsKeyringControl, LandsControl DEF TaskStep

LEMMA InitControl == Init => Control
<1> SUFFICES ASSUME Init PROVE Control
  OBVIOUS
<1>1. HolderWorks /\ KindFits
  BY DEF Init, HolderWorks, Working, KindFits, Using, UsesAccount
<1>2. OneBegins /\ CancelsNewest
  BY DEF Init, OneBegins, CancelsNewest
<1>3. QueueOrder
  BY DEF Init, QueueOrder
<1>4. QED
  BY <1>1, <1>2, <1>3 DEF Control

LEMMA ControlStays ==
  ASSUME Control, UNCHANGED <<taskVars, orderVars>>
  PROVE  Control'
BY DEF Control, HolderWorks, KindFits, OneBegins, CancelsNewest, QueueOrder, Working, Using, Holds,
       UsesAccount, taskVars, orderVars

-----------------------------------------------------------------------------
(* What the session on screen rests on *)

\* A loop that asked for a token asked for an account.
Waking ==
  \A l \in Loop : loop[l].phase \in {"exchanging", "answered"} => loop[l].account # None

\* No session is on screen while a restore or a login is under way: the one on
\* screen is never the one whose tokens they replace.
NotYetIn ==
  \A t \in Task :
    \/ kind[t] = "restore"
    \/ kind[t] = "login" /\ pc[t] \in {"forgetting", "browser", "profile", "answered", "announce"}
    => ~InAccount

\* Nor is a session about to be shown by someone else while a restore waits.
Landing(t) == pc[t] = "announce" /\ SignsIn(t)
RestoreAlone ==
  \A t, u \in Task : kind[t] = "restore" /\ u # t => ~Landing(u)

\* A refresh token is stored with the answer, and its task forgotten at its end.
StoredLater == \A t \in stored : pc[t] \in {"profile", "answered", "announce"}

Remembered(t) == t \in stored
Renewing == keyring # None /\ \E l \in Loop : Alive(l)
Reached(t) == \/ pc[t] = "profile"
              \/ pc[t] \in {"answered", "announce"} /\ SignsIn(t)

\* A command that will show a session has put there what the session needs, and
\* nobody takes it before the session is shown.
ReachedHolds ==
  \A t \in Task : Reached(t) => token # None /\ (Remembered(t) => Renewing)

SignsOut(t) == pc[t] \in {"logout", "clearing", "erasing"}

\* The session on screen is on its way out: a command that will replace it has
\* not got its generation yet, or is the newest, or is past the check that lands it.
Leaves(t) ==
  \/ pc[t] \in {"begin", "generation"}
  \/ pc[t] = "announce" /\ ~SignsIn(t)
  \/ /\ current = t
     /\ \/ pc[t] \in {"queued", "starting"}
        \/ pc[t] = "answered" /\ kind[t] = "logout"
        \/ SignsOut(t)

\* Why a settled session is whole: what takes its tokens away is the newest
\* command, or is followed by one that is.
Settling ==
  InAccount => \/ \E t \in Task : Leaves(t)
               \/ /\ token # None
                  /\ kept => Renewing
                  /\ \A t \in Task : ~SignsOut(t)

Session == Waking /\ NotYetIn /\ RestoreAlone /\ StoredLater /\ ReachedHolds /\ Settling

\* The guard has one holder.
LEMMA OneWorks ==
  ASSUME Control, NEW t \in Task, NEW u \in Task, Working(t), Working(u)
  PROVE  t = u
BY DEF Control, HolderWorks, Holds

\* Who has reached a session still has the guard.
LEMMA ReachedWorks ==
  ASSUME Control, NEW t \in Task, Reached(t)
  PROVE  Working(t)
BY DEF Control, KindFits, Reached, Working, Using, SignsIn, UsesAccount

LEMMA AbortedWaking ==
  ASSUME IInv, Waking
  PROVE  \A l \in Loop : Aborted(refreshSlot)[l].phase \in {"exchanging", "answered"}
                           => Aborted(refreshSlot)[l].account # None
BY DEF Waking, Aborted, Off, Asleep, IInv, TypeOK

LEMMA ScheduleRenews ==
  ASSUME IInv, Waking, ScheduleRefresh
  PROVE  Waking' /\ \E l \in Loop : Alive(l)'
<1>1. PICK l \in Loop : loop' = [Aborted(refreshSlot) EXCEPT ![l] = Asleep]
  BY DEF ScheduleRefresh
<1>2. Waking'
  BY <1>1, AbortedFacts, AbortedWaking DEF Waking, Asleep
<1>3. Alive(l)'
  BY <1>1, AbortedFacts DEF Alive, Asleep
<1>4. QED
  BY <1>2, <1>3

\* A restore that is not the newest command's has had its turn.
LEMMA NewestAlone ==
  ASSUME IInv, Control, NEW u \in Task, Working(u), current = u,
         NEW t \in Task, kind[t] = "restore"
  PROVE  t = u
<1> USE DEF IInv, TypeOK, PC
<1>1. mutex # <<>> /\ mutex[1] = u /\ Len(mutex) \in Nat \ {0}
  <2>1. mutex \in Seq(Task) /\ mutex # <<>> /\ Head(mutex) = u
    BY DEF Control, HolderWorks, Holds
  <2>2. QED
    BY <2>1, TailFacts
<1>2. Len(mutex) = 1
  <2>1. 1 \in 1..Len(mutex) /\ mutex[1] = current
    BY <1>1
  <2>2. QED
    BY <2>1 DEF Control, QueueOrder
<1>3. CASE pc[t] = "queued"
  BY <1>1, <1>2, <1>3 DEF Control, QueueOrder
<1>4. CASE pc[t] # "queued"
  <2>1. Working(t)
    BY <1>4 DEF Control, KindFits, Working, Using, UsesAccount
  <2>2. QED
    BY <2>1, OneWorks
<1>5. QED
  BY <1>3, <1>4

\* A restore that begins with no session in place, and none about to be.
LEMMA ShellRestoresSession ==
  ASSUME IInv, Control, Session, NEW t \in Task, ShellRestores(t), ~late'
  PROVE  Session'
<1> USE DEF IInv, TypeOK, PC, ShellRestores, Goto, secretVars
<1>1. ~InAccount /\ ~InAccount' /\ \A u \in Task : ~Landing(u)
  BY DEF InAccount, Landing
<1>2. Waking'
  BY DEF Session, Waking
<1>3. NotYetIn' /\ Settling'
  BY <1>1 DEF NotYetIn, Settling
<1>4. RestoreAlone' /\ StoredLater'
  BY <1>1 DEF Session, RestoreAlone, Landing, SignsIn, StoredLater
<1>5. ReachedHolds'
  <2>1. \A u \in Task : Reached(u)' => Reached(u) /\ u # t
    BY DEF Reached, SignsIn
  <2>2. QED
    BY <2>1 DEF Session, ReachedHolds, Remembered, Renewing, Alive
<1>6. QED
  BY <1>2, <1>3, <1>4, <1>5 DEF Session

LEMMA ClickSession ==
  ASSUME IInv, Control, Session, NEW t \in Task, NEW k \in Kind, NEW keep \in BOOLEAN,
  Click(t, k, keep)
  PROVE  Session'
<1> USE DEF IInv, TypeOK, PC, Click, Offered, Goto, orderVars, secretVars, startVars
<1>1. Waking'
  BY NoneAssumption DEF Session, Waking
<1>2. NotYetIn'
  BY DEF Session, NotYetIn, InAccount, LoginStarted, Control, KindFits, UsesAccount
<1>3. ReachedHolds'
  BY OneWorks DEF Session, ReachedHolds, Reached, Remembered, SignsIn, Renewing, Alive,
                  Control, KindFits
<1>4. Settling'
  BY NoneAssumption DEF Session, Settling, Leaves, InAccount, LoginStarted, NotYetIn,
                        SignsIn, SignsOut, Renewing, Alive, Control, KindFits, UsesAccount,
                        CancelsNewest
<1>5. RestoreAlone' /\ StoredLater'
  BY DEF Session, RestoreAlone, Landing, SignsIn, StoredLater, UsesAccount, Control, KindFits
<1>6. QED
  BY <1>1, <1>2, <1>3, <1>4, <1>5 DEF Session

LEMMA CancelPreviousSession ==
  ASSUME IInv, Control, Session, NEW t \in Task, CancelPrevious(t)
  PROVE  Session'
<1> USE DEF IInv, TypeOK, PC, CancelPrevious, Goto, secretVars, startVars
<1>1. Waking'
  BY NoneAssumption DEF Session, Waking
<1>2. NotYetIn'
  BY DEF Session, NotYetIn, InAccount, LoginStarted, Control, KindFits, UsesAccount
<1>3. ReachedHolds'
  BY OneWorks DEF Session, ReachedHolds, Reached, Remembered, SignsIn, Renewing, Alive,
                  Control, KindFits
<1>4. Settling'
  BY NoneAssumption DEF Session, Settling, Leaves, InAccount, LoginStarted, NotYetIn,
                        SignsIn, SignsOut, Renewing, Alive, Control, KindFits, UsesAccount,
                        CancelsNewest
<1>5. RestoreAlone' /\ StoredLater'
  BY DEF Session, RestoreAlone, Landing, SignsIn, StoredLater, UsesAccount, Control, KindFits
<1>6. QED
  BY <1>1, <1>2, <1>3, <1>4, <1>5 DEF Session

LEMMA BeginGenerationSession ==
  ASSUME IInv, Control, Session, NEW t \in Task, BeginGeneration(t)
  PROVE  Session'
<1> USE DEF IInv, TypeOK, PC, BeginGeneration, Goto, secretVars, startVars
<1>1. Waking'
  BY NoneAssumption DEF Session, Waking
<1>2. NotYetIn'
  BY DEF Session, NotYetIn, InAccount, LoginStarted, Control, KindFits, UsesAccount
<1>3. ReachedHolds'
  <2>1. \A u \in Task : Reached(u)' => Reached(u) /\ (Remembered(u)' => Remembered(u))
    BY DEF Reached, Remembered, SignsIn, UsesAccount
  <2>2. QED
    BY <2>1 DEF Session, ReachedHolds, Renewing, Alive
<1>4. Settling'
  BY NoneAssumption DEF Session, Settling, Leaves, InAccount, LoginStarted, NotYetIn,
                        SignsIn, SignsOut, Renewing, Alive, Control, KindFits, UsesAccount,
                        CancelsNewest
<1>5. RestoreAlone' /\ StoredLater'
  BY DEF Session, RestoreAlone, Landing, SignsIn, StoredLater, UsesAccount, Control, KindFits
<1>6. QED
  BY <1>1, <1>2, <1>3, <1>4, <1>5 DEF Session

LEMMA ProceedsSession ==
  ASSUME IInv, Control, Session, NEW t \in Task, Proceeds(t)
  PROVE  Session'
<1> USE DEF IInv, TypeOK, PC, Proceeds, Goto, Work, orderVars, secretVars, startVars
<1>1. Waking'
  BY NoneAssumption DEF Session, Waking
<1>2. NotYetIn'
  BY DEF Session, NotYetIn, InAccount, LoginStarted, Control, KindFits, UsesAccount
<1>3. ReachedHolds'
  BY OneWorks DEF Session, ReachedHolds, Reached, Remembered, SignsIn, Renewing, Alive,
                  Control, KindFits
<1>4. Settling'
  BY NoneAssumption DEF Session, Settling, Leaves, InAccount, LoginStarted, NotYetIn,
                        SignsIn, SignsOut, Renewing, Alive, Control, KindFits, UsesAccount,
                        CancelsNewest
<1>5. RestoreAlone' /\ StoredLater'
  BY DEF Session, RestoreAlone, Landing, SignsIn, StoredLater, UsesAccount, Control, KindFits
<1>6. QED
  BY <1>1, <1>2, <1>3, <1>4, <1>5 DEF Session

LEMMA LoginStartsSession ==
  ASSUME IInv, Control, Session, NEW t \in Task, LoginStarts(t)
  PROVE  Session'
<1> USE DEF IInv, TypeOK, PC, LoginStarts, Goto, orderVars, secretVars, startVars
<1>1. Waking'
  BY NoneAssumption DEF Session, Waking
<1>2. NotYetIn'
  BY DEF Session, NotYetIn, InAccount, LoginStarted, Control, KindFits, UsesAccount
<1>3. ReachedHolds'
  BY OneWorks DEF Session, ReachedHolds, Reached, Remembered, SignsIn, Renewing, Alive,
                  Control, KindFits
<1>4. Settling'
  BY NoneAssumption DEF Session, Settling, Leaves, InAccount, LoginStarted, NotYetIn,
                        SignsIn, SignsOut, Renewing, Alive, Control, KindFits, UsesAccount,
                        CancelsNewest
<1>5. RestoreAlone' /\ StoredLater'
  BY DEF Session, RestoreAlone, Landing, SignsIn, StoredLater, UsesAccount, Control, KindFits
<1>6. QED
  BY <1>1, <1>2, <1>3, <1>4, <1>5 DEF Session

LEMMA ForgetsPreviousSession ==
  ASSUME IInv, Control, Session, NEW t \in Task, ForgetsPrevious(t)
  PROVE  Session'
<1> USE DEF IInv, TypeOK, PC, ForgetsPrevious, Goto, orderVars, secretVars, startVars
<1>1. Waking'
  BY NoneAssumption DEF Session, Waking
<1>2. NotYetIn'
  BY DEF Session, NotYetIn, InAccount, LoginStarted, Control, KindFits, UsesAccount
<1>3. ReachedHolds'
  <2>1. Working(t) /\ ~Reached(t)'
    BY DEF Control, KindFits, Working, Using, UsesAccount, Reached, SignsIn
  <2>2. \A u \in Task : u # t => ~Reached(u)
    BY <2>1, OneWorks, ReachedWorks
  <2>3. \A u \in Task : u # t => ~Reached(u)'
    BY <2>2 DEF Reached, SignsIn
  <2>4. QED
    BY <2>1, <2>3 DEF ReachedHolds
<1>4. Settling'
  BY NoneAssumption DEF Session, Settling, Leaves, InAccount, LoginStarted, NotYetIn,
                        SignsIn, SignsOut, Renewing, Alive, Control, KindFits, UsesAccount,
                        CancelsNewest
<1>5. RestoreAlone' /\ StoredLater'
  BY DEF Session, RestoreAlone, Landing, SignsIn, StoredLater, UsesAccount, Control, KindFits
<1>6. QED
  BY <1>1, <1>2, <1>3, <1>4, <1>5 DEF Session

LEMMA LoginFailsSession ==
  ASSUME IInv, Control, Session, NEW t \in Task, LoginFails(t)
  PROVE  Session'
<1> USE DEF IInv, TypeOK, PC, LoginFails, Ends, orderVars, secretVars, startVars
<1>1. Waking'
  BY NoneAssumption DEF Session, Waking
<1>2. NotYetIn'
  BY DEF Session, NotYetIn, InAccount, LoginStarted, Control, KindFits, UsesAccount
<1>3. ReachedHolds'
  BY OneWorks DEF Session, ReachedHolds, Reached, Remembered, SignsIn, Renewing, Alive,
                  Control, KindFits
<1>4. Settling'
  BY NoneAssumption DEF Session, Settling, Leaves, InAccount, LoginStarted, NotYetIn,
                        SignsIn, SignsOut, Renewing, Alive, Control, KindFits, UsesAccount,
                        CancelsNewest
<1>5. RestoreAlone' /\ StoredLater'
  BY DEF Session, RestoreAlone, Landing, SignsIn, StoredLater, UsesAccount, Control, KindFits
<1>6. QED
  BY <1>1, <1>2, <1>3, <1>4, <1>5 DEF Session

LEMMA LoginCancelledSession ==
  ASSUME IInv, Control, Session, NEW t \in Task, LoginCancelled(t)
  PROVE  Session'
<1> USE DEF IInv, TypeOK, PC, LoginCancelled, Ends, orderVars, secretVars, startVars
<1>1. Waking'
  BY NoneAssumption DEF Session, Waking
<1>2. NotYetIn'
  BY DEF Session, NotYetIn, InAccount, LoginStarted, Control, KindFits, UsesAccount
<1>3. ReachedHolds'
  BY OneWorks DEF Session, ReachedHolds, Reached, Remembered, SignsIn, Renewing, Alive,
                  Control, KindFits
<1>4. Settling'
  BY NoneAssumption DEF Session, Settling, Leaves, InAccount, LoginStarted, NotYetIn,
                        SignsIn, SignsOut, Renewing, Alive, Control, KindFits, UsesAccount,
                        CancelsNewest
<1>5. RestoreAlone' /\ StoredLater'
  BY DEF Session, RestoreAlone, Landing, SignsIn, StoredLater, UsesAccount, Control, KindFits
<1>6. QED
  BY <1>1, <1>2, <1>3, <1>4, <1>5 DEF Session

LEMMA BrowserAnswersSession ==
  ASSUME IInv, Control, Session, NEW t \in Task, NEW a \in Account, BrowserAnswers(t, a)
  PROVE  Session'
<1> USE DEF IInv, TypeOK, PC, BrowserAnswers, Goto, orderVars, secretVars, startVars
<1>1. Waking'
  BY ScheduleRenews DEF Session, Waking
<1>2. NotYetIn'
  BY DEF Session, NotYetIn, InAccount, LoginStarted, Control, KindFits, UsesAccount
<1>3. ReachedHolds'
  <2>1. Working(t)
    BY DEF Control, KindFits, Working, Using, UsesAccount
  <2>2. \A u \in Task : u # t => ~Reached(u)
    BY <2>1, OneWorks, ReachedWorks
  <2>3. \A u \in Task : u # t => ~Reached(u)'
    BY <2>2 DEF Reached, SignsIn
  <2>4. token' # None /\ (Remembered(t)' => Renewing')
    <3>1. token' = a /\ a # None
      BY NoneAssumption
    <3>2. t \in stored' => remember[t] /\ keyring' = a /\ ScheduleRefresh
      BY DEF Session, StoredLater
    <3>3. ScheduleRefresh => \E l \in Loop : Alive(l)'
      BY ScheduleRenews DEF Session
    <3>4. QED
      BY <3>1, <3>2, <3>3 DEF Remembered, Renewing
  <2>5. QED
    BY <2>3, <2>4 DEF ReachedHolds
<1>4. Settling'
  BY NoneAssumption DEF Session, Settling, Leaves, InAccount, LoginStarted, NotYetIn,
                        SignsIn, SignsOut, Renewing, Alive, Control, KindFits, UsesAccount,
                        CancelsNewest
<1>5. RestoreAlone' /\ StoredLater'
  BY DEF Session, RestoreAlone, Landing, SignsIn, StoredLater, UsesAccount, Control, KindFits
<1>6. QED
  BY <1>1, <1>2, <1>3, <1>4, <1>5 DEF Session

LEMMA ProfileLoadedSession ==
  ASSUME IInv, Control, Session, NEW t \in Task, ProfileLoaded(t)
  PROVE  Session'
<1> USE DEF IInv, TypeOK, PC, ProfileLoaded, Ends, orderVars, secretVars, startVars
<1>1. Waking'
  BY NoneAssumption DEF Session, Waking
<1>2. NotYetIn'
  BY DEF Session, NotYetIn, InAccount, LoginStarted, Control, KindFits, UsesAccount
<1>3. ReachedHolds'
  BY OneWorks DEF Session, ReachedHolds, Reached, Remembered, SignsIn, Renewing, Alive,
                  Control, KindFits
<1>4. Settling'
  BY NoneAssumption DEF Session, Settling, Leaves, InAccount, LoginStarted, NotYetIn,
                        SignsIn, SignsOut, Renewing, Alive, Control, KindFits, UsesAccount,
                        CancelsNewest
<1>5. RestoreAlone' /\ StoredLater'
  BY DEF Session, RestoreAlone, Landing, SignsIn, StoredLater, UsesAccount, Control, KindFits
<1>6. QED
  BY <1>1, <1>2, <1>3, <1>4, <1>5 DEF Session

LEMMA RestoreAnsweredSession ==
  ASSUME IInv, Control, Session, NEW t \in Task, RestoreAnswered(t)
  PROVE  Session'
<1> USE DEF IInv, TypeOK, PC, RestoreAnswered, Goto, orderVars, secretVars, startVars
<1>1. Waking'
  BY ScheduleRenews DEF Session, Waking
<1>2. NotYetIn'
  BY DEF Session, NotYetIn, InAccount, LoginStarted, Control, KindFits, UsesAccount
<1>3. ReachedHolds'
  <2>1. Working(t)
    BY DEF Control, KindFits, Working, Using, UsesAccount
  <2>2. \A u \in Task : u # t => ~Reached(u)
    BY <2>1, OneWorks, ReachedWorks
  <2>3. \A u \in Task : u # t => ~Reached(u)'
    BY <2>2 DEF Reached, SignsIn
  <2>4. token' # None /\ (Remembered(t)' => Renewing')
    BY <1>1, NoneAssumption, ScheduleRenews DEF Session, Remembered, Renewing, Control,
        KindFits
  <2>5. QED
    BY <2>3, <2>4 DEF ReachedHolds
<1>4. Settling'
  BY NoneAssumption DEF Session, Settling, Leaves, InAccount, LoginStarted, NotYetIn,
                        SignsIn, SignsOut, Renewing, Alive, Control, KindFits, UsesAccount,
                        CancelsNewest
<1>5. RestoreAlone' /\ StoredLater'
  BY DEF Session, RestoreAlone, Landing, SignsIn, StoredLater, UsesAccount, Control, KindFits
<1>6. QED
  BY <1>1, <1>2, <1>3, <1>4, <1>5 DEF Session

LEMMA LogoutCancelsRefreshSession ==
  ASSUME IInv, Control, Session, NEW t \in Task, LogoutCancelsRefresh(t)
  PROVE  Session'
<1> USE DEF IInv, TypeOK, PC, LogoutCancelsRefresh, Goto, orderVars, secretVars, startVars
<1>1. Waking'
  BY AbortedWaking DEF Session, Waking
<1>2. NotYetIn'
  BY DEF Session, NotYetIn, InAccount, LoginStarted, Control, KindFits, UsesAccount
<1>3. ReachedHolds'
  <2>1. Working(t) /\ ~Reached(t)'
    BY DEF Control, KindFits, Working, Using, UsesAccount, Reached, SignsIn
  <2>2. \A u \in Task : u # t => ~Reached(u)
    BY <2>1, OneWorks, ReachedWorks
  <2>3. \A u \in Task : u # t => ~Reached(u)'
    BY <2>2 DEF Reached, SignsIn
  <2>4. QED
    BY <2>1, <2>3 DEF ReachedHolds
<1>4. Settling'
  BY NoneAssumption DEF Session, Settling, Leaves, InAccount, LoginStarted, NotYetIn,
                        SignsIn, SignsOut, Renewing, Alive, Control, KindFits, UsesAccount,
                        CancelsNewest
<1>5. RestoreAlone' /\ StoredLater'
  BY DEF Session, RestoreAlone, Landing, SignsIn, StoredLater, UsesAccount, Control, KindFits
<1>6. QED
  BY <1>1, <1>2, <1>3, <1>4, <1>5 DEF Session

LEMMA LogoutClearsTokenSession ==
  ASSUME IInv, Control, Session, NEW t \in Task, LogoutClearsToken(t)
  PROVE  Session'
<1> USE DEF IInv, TypeOK, PC, LogoutClearsToken, Goto, orderVars, secretVars, startVars
<1>1. Waking'
  BY NoneAssumption DEF Session, Waking
<1>2. NotYetIn'
  BY DEF Session, NotYetIn, InAccount, LoginStarted, Control, KindFits, UsesAccount
<1>3. ReachedHolds'
  <2>1. Working(t) /\ ~Reached(t)'
    BY DEF Control, KindFits, Working, Using, UsesAccount, Reached, SignsIn
  <2>2. \A u \in Task : u # t => ~Reached(u)
    BY <2>1, OneWorks, ReachedWorks
  <2>3. \A u \in Task : u # t => ~Reached(u)'
    BY <2>2 DEF Reached, SignsIn
  <2>4. QED
    BY <2>1, <2>3 DEF ReachedHolds
<1>4. Settling'
  BY NoneAssumption DEF Session, Settling, Leaves, InAccount, LoginStarted, NotYetIn,
                        SignsIn, SignsOut, Renewing, Alive, Control, KindFits, UsesAccount,
                        CancelsNewest
<1>5. RestoreAlone' /\ StoredLater'
  BY DEF Session, RestoreAlone, Landing, SignsIn, StoredLater, UsesAccount, Control, KindFits
<1>6. QED
  BY <1>1, <1>2, <1>3, <1>4, <1>5 DEF Session

LEMMA LogoutClearsKeyringSession ==
  ASSUME IInv, Control, Session, NEW t \in Task, LogoutClearsKeyring(t)
  PROVE  Session'
<1> USE DEF IInv, TypeOK, PC, LogoutClearsKeyring, Ends, orderVars, secretVars, startVars
<1>1. Waking'
  BY NoneAssumption DEF Session, Waking
<1>2. NotYetIn'
  BY DEF Session, NotYetIn, InAccount, LoginStarted, Control, KindFits, UsesAccount
<1>3. ReachedHolds'
  <2>1. Working(t) /\ ~Reached(t)'
    BY DEF Control, KindFits, Working, Using, UsesAccount, Reached, SignsIn
  <2>2. \A u \in Task : u # t => ~Reached(u)
    BY <2>1, OneWorks, ReachedWorks
  <2>3. \A u \in Task : u # t => ~Reached(u)'
    BY <2>2 DEF Reached, SignsIn
  <2>4. QED
    BY <2>1, <2>3 DEF ReachedHolds
<1>4. Settling'
  BY NoneAssumption DEF Session, Settling, Leaves, InAccount, LoginStarted, NotYetIn,
                        SignsIn, SignsOut, Renewing, Alive, Control, KindFits, UsesAccount,
                        CancelsNewest
<1>5. RestoreAlone' /\ StoredLater'
  BY DEF Session, RestoreAlone, Landing, SignsIn, StoredLater, UsesAccount, Control, KindFits
<1>6. QED
  BY <1>1, <1>2, <1>3, <1>4, <1>5 DEF Session

LEMMA LandsSession ==
  ASSUME IInv, Control, Session, NEW t \in Task, Lands(t)
  PROVE  Session'
<1> USE DEF IInv, TypeOK, PC, Lands, Goto, orderVars, secretVars, startVars
<1>1. Waking'
  BY NoneAssumption DEF Session, Waking
<1>2. NotYetIn'
  BY DEF Session, NotYetIn, InAccount, LoginStarted, Control, KindFits, UsesAccount
<1>3. ReachedHolds'
  BY OneWorks DEF Session, ReachedHolds, Reached, Remembered, SignsIn, Renewing, Alive,
                  Control, KindFits
<1>4. Settling'
  BY NoneAssumption DEF Session, Settling, Leaves, InAccount, LoginStarted, NotYetIn,
                        SignsIn, SignsOut, Renewing, Alive, Control, KindFits, UsesAccount,
                        CancelsNewest
<1>5. RestoreAlone' /\ StoredLater'
  <2>1. Working(t) /\ current = t
    BY DEF Control, KindFits, Working, Using
  <2>2. \A u \in Task : kind[u] = "restore" => u = t
    BY <2>1, NewestAlone
  <2>3. QED
    BY <2>2 DEF Session, RestoreAlone, Landing, SignsIn, StoredLater
<1>6. QED
  BY <1>1, <1>2, <1>3, <1>4, <1>5 DEF Session

\* What ends without a word leaves the session as it was.
LEMMA QuietEndSession ==
  ASSUME IInv, Control, Session, NEW t \in Task, Finish(t), UNCHANGED <<auth, kept>>,
         \/ UNCHANGED secretVars
         \/ kind[t] = "restore" /\ Working(t) /\ Waking',
         pc[t] \notin {"begin", "generation", "announce"},
         \/ kind[t] = "restore"
         \/ current # t
         \/ pc[t] = "queued" /\ t \in cancelled
  PROVE  Session'
<1> USE DEF IInv, TypeOK, PC, Finish
<1>1. Waking'
  BY DEF Session, Waking, secretVars, startVars
<1>2. NotYetIn'
  BY DEF Session, NotYetIn, InAccount
<1>3. ReachedHolds'
  <2>1. ~Reached(t)'
    BY DEF Reached, SignsIn
  <2>2. \A u \in Task : u # t /\ Reached(u)' => Reached(u) /\ ~Working(t)
    BY <2>1, OneWorks, ReachedWorks DEF Reached, SignsIn
  <2>3. QED
    BY <2>1, <2>2 DEF Session, ReachedHolds, Remembered, Renewing, Alive, secretVars
<1>4. Settling'
  <2>1. SUFFICES ASSUME InAccount PROVE Settling'
    BY DEF Settling, InAccount
  <2>2. kind[t] # "restore"
    BY <2>1 DEF Session, NotYetIn
  <2>3. \A u \in Task : u # t /\ Leaves(u) => Leaves(u)'
    BY DEF Leaves, SignsIn, SignsOut
  <2>4. Leaves(t) => \E v \in Task : v # t /\ Leaves(v)
    BY <2>2 DEF Leaves, SignsOut, Control, CancelsNewest
  <2>5. \A u \in Task : SignsOut(u)' => SignsOut(u)
    BY DEF SignsOut
  <2>6. QED
    BY <2>1, <2>2, <2>3, <2>4, <2>5 DEF Session, Settling, Renewing, Alive, secretVars, startVars
<1>5. RestoreAlone' /\ StoredLater'
  BY DEF Session, RestoreAlone, Landing, SignsIn, StoredLater
<1>6. QED
  BY <1>1, <1>2, <1>3, <1>4, <1>5 DEF Session

LEMMA GivesWaySession ==
  ASSUME IInv, Control, Session, NEW t \in Task, GivesWay(t)
  PROVE  Session'
BY QuietEndSession DEF GivesWay

LEMMA OvertakenSession ==
  ASSUME IInv, Control, Session, NEW t \in Task, Overtaken(t)
  PROVE  Session'
BY QuietEndSession DEF Overtaken

LEMMA RestoreGivesUpSession ==
  ASSUME IInv, Control, Session, NEW t \in Task, RestoreGivesUp(t)
  PROVE  Session'
BY QuietEndSession DEF RestoreGivesUp, Control, KindFits

LEMMA RestoreFailsSession ==
  ASSUME IInv, Control, Session, NEW t \in Task, RestoreFails(t)
  PROVE  Session'
<1>1. Waking'
  BY AbortedWaking DEF RestoreFails, Session, Waking
<1>2. Working(t)
  BY DEF RestoreFails, Working, Using, UsesAccount
<1>3. QED
  BY <1>1, <1>2, QuietEndSession DEF RestoreFails

\* What is announced as a session has its token, and its loop if it is kept.
LEMMA AnnounceSession ==
  ASSUME IInv, Control, Session, NEW t \in Task, Announce(t)
  PROVE  Session'
<1> USE DEF IInv, TypeOK, PC, Finish
<1>1. Waking'
  BY DEF Announce, secretVars, startVars, Session, Waking
<1>2. InAccount' => SignsIn(t) /\ Working(t) /\ Reached(t)
  BY DEF Announce, InAccount, Shown, WentOffline, LoginFailed, LoggedOut, SignsIn,
         Working, UsesAccount, Reached
<1>3. NotYetIn'
  <2>1. SUFFICES ASSUME InAccount' PROVE NotYetIn'
    BY DEF NotYetIn
  <2>2. \A u \in Task : u # t => ~Working(u) /\ kind[u] # "restore"
    BY <1>2, <2>1, OneWorks DEF Session, RestoreAlone, Landing, Announce
  <2>3. QED
    BY <2>2 DEF Announce, NotYetIn, Working, Using, UsesAccount
<1>4. ReachedHolds'
  BY DEF Announce, secretVars, startVars, Session, ReachedHolds, Reached, Remembered, SignsIn,
         Renewing, Alive
<1>5. Settling'
  <2>1. SUFFICES ASSUME InAccount' PROVE Settling'
    BY DEF Settling
  <2>2. \A u \in Task : u # t => ~Working(u)
    BY <1>2, <2>1, OneWorks
  <2>3. \A u \in Task : ~SignsOut(u)'
    BY <2>2 DEF Announce, SignsOut, Control, KindFits, Working, Using, UsesAccount
  <2>4. token' # None /\ (kept' => Renewing')
    BY <1>2, <2>1 DEF Announce, secretVars, startVars, Session, ReachedHolds, Remembered, Renewing, Alive
  <2>5. QED
    BY <2>3, <2>4 DEF Settling
<1>6. RestoreAlone' /\ StoredLater'
  BY DEF Announce, Session, RestoreAlone, Landing, SignsIn, StoredLater
<1>7. QED
  BY <1>1, <1>3, <1>4, <1>5, <1>6 DEF Session

LEMMA TaskSession ==
  ASSUME IInv, Control, Session, NEW t \in Task, TaskStep(t)
  PROVE  Session'
BY CancelPreviousSession, BeginGenerationSession, GivesWaySession, ProceedsSession,
   LoginStartsSession, ForgetsPreviousSession, LoginFailsSession, LoginCancelledSession,
   BrowserAnswersSession, ProfileLoadedSession, RestoreAnsweredSession, RestoreGivesUpSession,
   RestoreFailsSession, LogoutCancelsRefreshSession, LogoutClearsTokenSession,
   LogoutClearsKeyringSession, OvertakenSession, LandsSession, AnnounceSession DEF TaskStep

\* A loop only ever leaves more to sign in with.
LEMMA LoopSession ==
  ASSUME IInv, Session, NEW l \in Loop, LoopStep(l)
  PROVE  Session'
<1> USE DEF IInv, TypeOK
<1>1. /\ UNCHANGED <<auth, taskVars, orderVars>>
      /\ \/ UNCHANGED <<stored, kept>>
         \/ stored' = {} /\ kept' = FALSE
      /\ LoopFindsNothing(l) => stored' = {} /\ kept' = FALSE
  BY DEF LoopStep, LoopWakes, LoopFindsNothing, LoopFails, LoopAnswered, LoopRenews
<1>2. Waking'
  <2>1. CASE LoopWakes(l)
    BY <2>1, NoneAssumption DEF LoopWakes, Session, Waking, Asleep, Off
  <2>2. CASE LoopFails(l)
    BY <2>2 DEF LoopFails, Session, Waking, Asleep
  <2>3. CASE LoopAnswered(l)
    <3>1. [loop[l] EXCEPT !.phase = "answered"].account = loop[l].account
      BY DEF LoopType
    <3>2. QED
      BY <2>3, <3>1 DEF LoopAnswered, Session, Waking
  <2>4. CASE LoopRenews(l)
    BY <2>4 DEF LoopRenews, Session, Waking, Asleep, Off
  <2>5. CASE LoopFindsNothing(l)
    BY <2>5 DEF LoopFindsNothing, Session, Waking, Asleep, Off
  <2>6. QED
    BY <2>1, <2>2, <2>3, <2>4, <2>5 DEF LoopStep
<1>3. token # None => token' # None
  BY NoneAssumption DEF LoopStep, LoopWakes, LoopFindsNothing, LoopFails, LoopAnswered, LoopRenews, Session,
                        Waking
<1>4. ~LoopFindsNothing(l) /\ Renewing => Renewing'
  <2>1. SUFFICES ASSUME ~LoopFindsNothing(l), Renewing
        PROVE  keyring' # None /\ \E m \in Loop : Alive(m)'
    BY DEF Renewing
  <2>2. PICK m \in Loop : Alive(m)
    BY <2>1 DEF Renewing
  <2>3. keyring' # None
    BY <2>1, NoneAssumption DEF Renewing, LoopStep, LoopWakes, LoopFails, LoopAnswered, LoopRenews, Session,
                Waking
  <2>4. Alive(m)'
    <3>1. CASE LoopWakes(l)
      BY <2>1, <2>2, <3>1 DEF Renewing, Alive, LoopWakes, Asleep
    <3>2. CASE LoopFails(l) \/ LoopAnswered(l)
      BY <2>2, <3>2 DEF Alive, LoopFails, LoopAnswered, Asleep
    <3>3. CASE LoopRenews(l)
      BY <2>2, <3>3 DEF Alive, LoopRenews, Asleep
    <3>4. QED
      BY <2>1, <3>1, <3>2, <3>3 DEF LoopStep
  <2>5. QED
    BY <2>3, <2>4
<1>5. NotYetIn' /\ RestoreAlone' /\ StoredLater'
  BY <1>1 DEF Session, NotYetIn, RestoreAlone, Landing, SignsIn, StoredLater, InAccount, taskVars,
              orderVars
<1>6. /\ \A t \in Task : /\ Remembered(t)' => Remembered(t) /\ ~LoopFindsNothing(l)
                         /\ Reached(t)' => Reached(t)
      /\ kept' => kept /\ ~LoopFindsNothing(l)
  BY <1>1 DEF Remembered, Reached, SignsIn, taskVars
<1>7. ReachedHolds'
  BY <1>3, <1>4, <1>6 DEF Session, ReachedHolds
<1>8. Settling'
  BY <1>1, <1>3, <1>4, <1>6 DEF Session, Settling, InAccount, SignsIn, SignsOut, Leaves, taskVars, orderVars
<1>9. QED
  BY <1>2, <1>5, <1>7, <1>8 DEF Session

LEMMA InitSession == Init => Session
<1> SUFFICES ASSUME Init PROVE Session
  OBVIOUS
<1>1. Waking /\ NotYetIn /\ Settling
  BY DEF Init, Waking, Off, Asleep, NotYetIn, Settling, InAccount, LoggedOut
<1>2. ReachedHolds /\ RestoreAlone /\ StoredLater
  BY DEF Init, ReachedHolds, Reached, SignsIn, RestoreAlone, StoredLater
<1>3. QED
  BY <1>1, <1>2 DEF Session

\* A client is late once and for all.
LateOnce == late => ~restoreDue

LEMMA NextSession ==
  ASSUME IInv, Control, LateOnce, late \/ Session, [Next]_vars
  PROVE  Control' /\ LateOnce' /\ (late' \/ Session')
<1>1. ASSUME NEW t \in Task, NEW k \in Kind, NEW keep \in BOOLEAN, Click(t, k, keep)
      PROVE  Control' /\ UNCHANGED startVars /\ (late' \/ Session')
  BY <1>1, ClickControl, ClickSession DEF Click, startVars
<1>2. ASSUME NEW t \in Task, TaskStep(t)
      PROVE  Control' /\ UNCHANGED startVars /\ (late' \/ Session')
  <2>1. UNCHANGED startVars
    BY <1>2 DEF TaskStep, CancelPrevious, BeginGeneration, GivesWay, Proceeds, LoginStarts,
                ForgetsPrevious, LoginFails, LoginCancelled, BrowserAnswers, ProfileLoaded,
                RestoreAnswered, RestoreGivesUp, RestoreFails, LogoutCancelsRefresh,
                LogoutClearsToken, LogoutClearsKeyring, Overtaken, Lands, Announce
  <2>2. QED
    BY <1>2, <2>1, TaskControl, TaskSession DEF startVars
<1>3. ASSUME NEW l \in Loop, LoopStep(l)
      PROVE  Control' /\ UNCHANGED startVars /\ (late' \/ Session')
  <2>1. UNCHANGED <<taskVars, orderVars, startVars>>
    BY <1>3 DEF LoopStep, LoopWakes, LoopFindsNothing, LoopFails, LoopAnswered, LoopRenews
  <2>2. QED
    BY <1>3, <2>1, ControlStays, LoopSession DEF startVars
<1>4. CASE UNCHANGED vars
  <2>1. Control'
    BY <1>4, ControlStays DEF vars
  <2>2. Session => Session'
    BY <1>4 DEF vars, taskVars, orderVars, secretVars, Session, Waking, NotYetIn, ReachedHolds,
       RestoreAlone, Landing, StoredLater, Settling, InAccount, Reached, Remembered, SignsIn,
       SignsOut, Leaves, Renewing, Alive
  <2>3. QED
    BY <1>4, <2>1, <2>2 DEF vars, startVars, LateOnce
<1>5. ASSUME NEW t \in Task, ShellRestores(t)
      PROVE  Control' /\ LateOnce' /\ (late' \/ Session')
  <2>1. ~late /\ ~restoreDue'
    BY <1>5 DEF ShellRestores, LateOnce
  <2>2. QED
    BY <1>5, <2>1, ShellRestoresControl, ShellRestoresSession DEF LateOnce
<1>6. QED
  BY <1>1, <1>2, <1>3, <1>4, <1>5 DEF Next, LateOnce, startVars

LEMMA NextSessionStep ==
  IInv /\ Control /\ LateOnce /\ (late \/ Session) /\ [Next]_vars
    => Control' /\ LateOnce' /\ (late' \/ Session')
BY NextSession

LEMMA InitStart == Init => LateOnce
BY DEF Init, LateOnce

\* A session of an account never settles without an access token, in a client
\* whose restore began before there was one.
THEOREM SignedInSettlesWithToken == Spec => []SignedInHoldsToken
<1>1. Control /\ (late \/ Session) => SignedInHoldsToken
  BY DEF Control, Session, Settling, Leaves, SignsOut, SignedInHoldsToken, Quiet
<1>2. QED
  BY <1>1, InitInv, NextInv, InitControl, InitSession, InitStart, NextSessionStep, PTL DEF Spec

\* A session whose refresh token was stored, and can be read, settles with a
\* loop that renews its access token.
THEOREM RememberedSettlesWithLoop == Spec => []SessionIsRenewed
<1>1. Control /\ (late \/ Session) => SessionIsRenewed
  BY DEF Control, Session, Settling, Leaves, SignsOut, SessionIsRenewed, Quiet, Renewing
<1>2. QED
  BY <1>1, InitInv, NextInv, InitControl, InitSession, InitStart, NextSessionStep, PTL DEF Spec
=============================================================================
