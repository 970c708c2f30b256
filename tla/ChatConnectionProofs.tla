------------------------ MODULE ChatConnectionProofs -------------------------
(* Who owns the chat connection, for every number of concurrent commands,  *)
(* every channel size and every number of faults.                          *)
EXTENDS ChatConnection, TLAPS

-----------------------------------------------------------------------------
(* The watchdog's schedule *)

LEMMA DefaultInRange == RetryDefault \in RetryState
BY BackoffAssumption DEF RetryDefault, RetryState

\* A tick leaves the schedule in its range, whatever the link and the user do.
LEMMA TickedInRange ==
  ASSUME NEW r \in RetryState, NEW l \in Link, NEW w \in BOOLEAN
  PROVE  Ticked(r, l, w) \in RetryState
<1> USE BackoffAssumption DEF Ticked, Dials, Link, RetryState
<1>1. CASE ~w \/ l = "Up"
  BY <1>1, DefaultInRange
<1>2. CASE w /\ l = "Pending"
  BY <1>2
<1>3. CASE w /\ l = "Down" /\ r.countdown > 0
  BY <1>3
<1>4. CASE w /\ l = "Down" /\ r.countdown = 0
  <2>1. Ticked(r, l, w) = AfterDial(r)
    BY <1>4
  <2>2. AfterDial(r) \in RetryState
    BY DEF AfterDial, Smaller
  <2>3. QED
    BY <2>1, <2>2
<1>5. QED
  BY <1>1, <1>2, <1>3, <1>4

\* A supervisor that is still trying has attempts left, and has failed at
\* least as often as it has failed in a row.
AttemptsLeft ==
  \A d \in Dialer : /\ fruitless[d] <= failures[d]
                    /\ sup[d] # "release" => failures[d] < MaxFailures

\* Each part is inductive only with the others: the token in the client's slot
\* belongs to the flight's owner because there is one owner, and a dialer
\* takes the slots over only while no other supervisor runs.
Ownership == OneConnection /\ LiveIsCancellable /\ GivingUpClosesTheStream /\ AttemptsLeft
IInv == TypeOK /\ Ownership

-----------------------------------------------------------------------------

LEMMA InitIInv == Init => IInv
<1> SUFFICES ASSUME Init PROVE IInv
  OBVIOUS
<1>1. TypeOK
  <2>1. retry \in RetryState
    BY DefaultInRange DEF Init
  <2>2. sup \in [Dialer -> SupState] /\ updates \in [Dialer -> Seq(Status)]
    BY DEF Init, SupState
  <2>3. failures \in [Dialer -> 0..MaxFailures] /\ fruitless \in [Dialer -> 0..MaxFailures]
    BY LimitAssumption DEF Init
  <2>4. \A d \in Dialer : Len(updates[d]) <= UpdateCap
    BY LimitAssumption DEF Init
  <2>5. pc \in [Dialer \cup Hanger -> {"idle", "arm", "redial", "start", "connecting", "open",
                                     "relay", "closing", "disarm", "hangUp"}]
    BY DEF Init
  <2>6. faults \in 0..MaxFaults
    BY LimitAssumption DEF Init
  <2>7. QED
    BY <2>1, <2>2, <2>3, <2>4, <2>5, <2>6 DEF Init, TypeOK, Status
<1>2. Ownership
  BY TaskAssumption, LimitAssumption
  DEF Init, Ownership, OneConnection, LiveIsCancellable, GivingUpClosesTheStream, AttemptsLeft, Owner
<1>3. QED
  BY <1>1, <1>2 DEF IInv

\* A command moves between labels at which it owns nothing.
LEMMA CommandStep ==
  ASSUME IInv,
         NEW t \in Dialer \cup Hanger, NEW to,
         pc' = [pc EXCEPT ![t] = to],
         pc[t] \notin {"connecting", "open", "relay"},
         to \notin {"connecting", "open", "relay"},
         UNCHANGED <<active, clientVars, sup, failures, fruitless>>
  PROVE  Ownership'
<1> USE DEF IInv, TypeOK, clientVars
<1>1. \A d \in Dialer : Owner(d)' <=> Owner(d)
  BY DEF Owner
<1>2. \A d \in Dialer : sup[d] # "off" => pc'[d] = "relay"
  BY DEF Ownership, OneConnection
<1>3. OneConnection'
  BY <1>1, <1>2 DEF Ownership, OneConnection
<1>4. QED
  BY <1>3 DEF Ownership, LiveIsCancellable, GivingUpClosesTheStream, AttemptsLeft

\* The supervisor of one connection moves on, without ending.
LEMMA SupervisorStep ==
  ASSUME IInv,
         NEW d \in Dialer, NEW to,
         sup[d] # "off", to # "off",
         sup' = [sup EXCEPT ![d] = to],
         UNCHANGED <<active, pc, clientVars>>
  PROVE  (OneConnection /\ LiveIsCancellable /\ GivingUpClosesTheStream)'
<1> USE DEF IInv, TypeOK, Ownership, clientVars
<1>1. OneConnection'
  BY DEF OneConnection, Owner
<1>2. LiveIsCancellable'
  BY DEF LiveIsCancellable
<1>3. GivingUpClosesTheStream'
  BY DEF GivingUpClosesTheStream
<1>4. QED
  BY <1>1, <1>2, <1>3

\* A supervisor moves on without losing an attempt.
LEMMA AttemptsKept ==
  ASSUME IInv,
         NEW d \in Dialer, NEW to,
         sup[d] \notin {"off", "release"},
         sup' = [sup EXCEPT ![d] = to],
         UNCHANGED <<failures, fruitless>>
  PROVE  AttemptsLeft'
BY DEF IInv, Ownership, TypeOK, AttemptsLeft

-----------------------------------------------------------------------------
(* The user, the UI, the token and the watchdog *)

LEMMA SignStep ==
  ASSUME IInv,
         \/ \E d \in Dialer : SignIn(d) \/ UserConnects(d)
         \/ \E h \in Hanger : SignOut(h) \/ UserDisconnects(h)
  PROVE  IInv'
<1>1. /\ signedIn' \in BOOLEAN /\ token' \in {"none", "valid", "expired"}
      /\ UNCHANGED <<flagVars, retry, clientVars, supVars, faults, wanted>>
  BY DEF SignIn, UserConnects, SignOut, UserDisconnects, authVars, IInv, TypeOK
<1>2. PICK t \in Dialer \cup Hanger, to \in {"arm", "disarm"} :
        pc[t] = "idle" /\ pc' = [pc EXCEPT ![t] = to]
  BY DEF SignIn, UserConnects, SignOut, UserDisconnects, Goto
<1> USE DEF flagVars, clientVars, supVars
<1>3. UNCHANGED <<active, clientVars, sup, failures, fruitless>>
  BY <1>1
<1>4. TypeOK'
  BY <1>1, <1>2 DEF IInv, TypeOK
<1>5. Ownership'
  BY <1>2, <1>3, CommandStep
<1>6. QED
  BY <1>4, <1>5 DEF IInv

LEMMA TokenStep ==
  ASSUME IInv, TokenExpires \/ TokenRenewed
  PROVE  IInv'
<1> USE DEF IInv, TokenExpires, TokenRenewed, flagVars, clientVars, supVars
<1> faults' \in 0..MaxFaults
  <2>1. faults \in 0..MaxFaults /\ MaxFaults \in Nat
    BY LimitAssumption DEF TypeOK
  <2>2. QED
    BY <2>1
<1>1. TypeOK'
  BY DEF TypeOK
<1>2. Ownership'
  BY DEF Ownership, OneConnection, LiveIsCancellable, GivingUpClosesTheStream, AttemptsLeft, Owner
<1>3. QED
  BY <1>1, <1>2

LEMMA WatchdogStep ==
  ASSUME IInv, WatchdogTick
  PROVE  IInv'
<1> USE DEF WatchdogTick, authVars, flagVars, clientVars, supVars
<1>1. retry' \in RetryState
  BY TickedInRange, DefaultInRange DEF IInv, TypeOK, LinkOf, Link, Status
<1>2. CASE UNCHANGED pc
  <2>1. TypeOK'
    BY <1>1, <1>2 DEF IInv, TypeOK
  <2>2. Ownership'
    BY <1>2 DEF IInv, Ownership, OneConnection, LiveIsCancellable, GivingUpClosesTheStream,
                AttemptsLeft, Owner
  <2>3. QED
    BY <2>1, <2>2 DEF IInv
<1>3. ASSUME NEW d \in Dialer, Goto(d, "idle", "redial") PROVE IInv'
  <2>1. TypeOK'
    BY <1>1, <1>3 DEF IInv, TypeOK, Goto
  <2>2. pc[d] = "idle" /\ pc' = [pc EXCEPT ![d] = "redial"]
    BY <1>3 DEF Goto
  <2>3. Ownership'
    BY <2>2, CommandStep
  <2>4. QED
    BY <2>1, <2>3 DEF IInv
<1>4. QED
  BY <1>2, <1>3

-----------------------------------------------------------------------------
(* The commands *)

\* The token in the client's slot is that of the flight's owner, if any runs.
LEMMA OpenStep ==
  ASSUME IInv, NEW d \in Dialer, Open(d)
  PROVE  IInv'
<1> USE DEF IInv, Ownership, Open, Goto
<1>1. TypeOK'
  <2>1. sup' \in [Dialer -> SupState] /\ cancelled' \subseteq Dialer
    BY DEF TypeOK, SupState
  <2>2. QED
    BY <2>1 DEF TypeOK, authVars, flagVars
<1>2. \A e \in Dialer : e # d => sup[e] = "off"
  BY DEF OneConnection, Owner
<1>3. \A e \in Dialer : Owner(e)' <=> Owner(e)
  BY DEF Owner, TypeOK
<1>4. active' = active
  BY DEF flagVars
<1>5. OneConnection'
  BY <1>2, <1>3, <1>4 DEF OneConnection, TypeOK
<1>6. LiveIsCancellable' /\ GivingUpClosesTheStream'
  BY <1>2 DEF LiveIsCancellable, GivingUpClosesTheStream, TypeOK
<1>7. AttemptsLeft'
  <2>1. sup[d] = "off"
    BY DEF OneConnection
  <2>2. UNCHANGED <<failures, fruitless>> /\ \A e \in Dialer \ {d} : sup'[e] = sup[e]
    BY DEF TypeOK
  <2>3. QED
    BY <2>1, <2>2 DEF AttemptsLeft
<1>8. QED
  BY <1>1, <1>5, <1>6, <1>7

LEMMA ConnectStep ==
  ASSUME IInv, NEW d \in Dialer, Connect(d)
  PROVE  IInv'
<1> USE DEF authVars, flagVars, clientVars, supVars
<1>1. CASE Arm(d)
  <2>1. TypeOK'
    BY <1>1 DEF Arm, IInv, TypeOK
  <2>2. Ownership'
    BY <1>1, CommandStep DEF Arm
  <2>3. QED
    BY <2>1, <2>2 DEF IInv
<1>2. CASE Start(d)
  <2>1. TypeOK'
    BY <1>2 DEF Start, Goto, IInv, TypeOK
  <2>2. CASE active
    BY <1>2, <2>1, <2>2, CommandStep DEF Start, Goto, IInv, TypeOK
  <2>3. CASE ~active
    <3>1. \A e \in Dialer : ~Owner(e) /\ sup[e] = "off"
      BY <2>3 DEF IInv, Ownership, OneConnection, Owner
    <3>2. OneConnection'
      BY <1>2, <2>3, <3>1 DEF Start, Goto, IInv, TypeOK, OneConnection, Owner
    <3>3. QED
      BY <1>2, <2>1, <3>2 DEF Start, IInv, Ownership, LiveIsCancellable,
                              GivingUpClosesTheStream, AttemptsLeft
  <2>4. QED
    BY <2>2, <2>3 DEF IInv, TypeOK
<1>3. CASE EmitConnecting(d)
  <2>1. TypeOK'
    BY <1>3 DEF EmitConnecting, Goto, IInv, TypeOK, Status
  <2>2. \A e \in Dialer : (Owner(e)' <=> Owner(e)) /\ (sup[e] # "off" => pc'[e] = "relay")
    BY <1>3 DEF EmitConnecting, Goto, IInv, TypeOK, Ownership, OneConnection, Owner
  <2>3. OneConnection'
    BY <1>3, <2>2 DEF EmitConnecting, IInv, Ownership, OneConnection
  <2>4. QED
    BY <1>3, <2>1, <2>3 DEF EmitConnecting, IInv, Ownership, LiveIsCancellable,
                            GivingUpClosesTheStream, AttemptsLeft
<1>4. CASE Open(d)
  BY <1>4, OpenStep
<1>5. CASE Relay(d)
  <2>1. Head(updates[d]) \in Status /\ Tail(updates[d]) \in Seq(Status)
        /\ Len(Tail(updates[d])) <= UpdateCap
    BY <1>5, LimitAssumption DEF Relay, IInv, TypeOK
  <2>2. TypeOK'
    BY <1>5, <2>1 DEF Relay, IInv, TypeOK
  <2>3. Ownership'
    BY <1>5 DEF Relay, IInv, Ownership, OneConnection, LiveIsCancellable,
                GivingUpClosesTheStream, AttemptsLeft, Owner
  <2>4. QED
    BY <2>2, <2>3 DEF IInv
<1>6. CASE LoopEnds(d)
  <2>1. TypeOK'
    BY <1>6 DEF LoopEnds, Goto, IInv, TypeOK
  <2>2. \A e \in Dialer : ~Owner(e)' /\ sup[e] = "off"
    BY <1>6 DEF LoopEnds, StreamClosed, Goto, IInv, TypeOK, Ownership, OneConnection, Owner
  <2>3. OneConnection'
    BY <1>6, <2>2 DEF LoopEnds, OneConnection
  <2>4. QED
    BY <1>6, <2>1, <2>3 DEF LoopEnds, IInv, Ownership, LiveIsCancellable,
                            GivingUpClosesTheStream, AttemptsLeft
<1>7. CASE EmitDisconnected(d)
  <2>1. TypeOK'
    BY <1>7 DEF EmitDisconnected, Goto, IInv, TypeOK, Status
  <2>2. Ownership'
    BY <1>7, CommandStep DEF EmitDisconnected, Goto
  <2>3. QED
    BY <2>1, <2>2 DEF IInv
<1>8. QED
  BY <1>1, <1>2, <1>3, <1>4, <1>5, <1>6, <1>7 DEF Connect

LEMMA HangerStep ==
  ASSUME IInv, NEW h \in Hanger, Disarm(h) \/ HangUp(h)
  PROVE  IInv'
<1> USE DEF authVars, flagVars, clientVars, supVars
<1>1. CASE Disarm(h)
  <2>1. TypeOK'
    BY <1>1 DEF Disarm, Goto, IInv, TypeOK
  <2>2. Ownership'
    BY <1>1, CommandStep DEF Disarm, Goto
  <2>3. QED
    BY <2>1, <2>2 DEF IInv
<1>2. CASE HangUp(h)
  <2>1. TypeOK'
    BY <1>2 DEF HangUp, Goto, IInv, TypeOK
  <2>2. \A d \in Dialer : (Owner(d)' <=> Owner(d)) /\ pc'[d] = pc[d]
    BY <1>2, TaskAssumption DEF HangUp, Goto, IInv, TypeOK, Owner
  <2>3. OneConnection'
    BY <1>2, <2>2 DEF HangUp, IInv, Ownership, OneConnection
  <2>4. LiveIsCancellable' /\ GivingUpClosesTheStream' /\ AttemptsLeft'
    BY <1>2, TaskAssumption DEF HangUp, IInv, Ownership, LiveIsCancellable,
                                GivingUpClosesTheStream, AttemptsLeft
  <2>5. QED
    BY <2>1, <2>3, <2>4 DEF IInv, Ownership
<1>3. QED
  BY <1>1, <1>2
-----------------------------------------------------------------------------
(* The supervisor *)

\* A status pushed into a channel with room leaves it well-formed.
LEMMA PushStep ==
  ASSUME IInv, NEW d \in Dialer, NEW from, NEW to \in SupState, NEW s \in Status,
         Push(d, from, to, s)
  PROVE  /\ sup' \in [Dialer -> SupState]
         /\ updates' \in [Dialer -> Seq(Status)]
         /\ \A e \in Dialer : Len(updates'[e]) <= UpdateCap
<1> USE DEF IInv, TypeOK, Push
<1>1. Append(updates[d], s) \in Seq(Status) /\ Len(Append(updates[d], s)) = Len(updates[d]) + 1
  OBVIOUS
<1>2. Len(Append(updates[d], s)) <= UpdateCap
  BY <1>1, LimitAssumption
<1>3. QED
  BY <1>1, <1>2

LEMMA SuperviseStep ==
  ASSUME IInv, NEW d \in Dialer, Supervise(d) \/ Fault(d)
  PROVE  IInv'
<1> USE DEF authVars, flagVars, clientVars, supVars
<1>1. CASE Announce(d)
  <2>1. TypeOK'
    BY <1>1, PushStep DEF Announce, IInv, TypeOK, SupState, Status
  <2>2. Ownership'
    BY <1>1, SupervisorStep, AttemptsKept DEF Announce, Push, Ownership
  <2>3. QED
    BY <2>1, <2>2 DEF IInv
<1>2. CASE Dial(d)
  <2>1. PICK to \in {"release", "refused", "session"} : Move(d, "dial", to)
    BY <1>2 DEF Dial
  <2>2. TypeOK'
    BY <1>2, <2>1 DEF Dial, Move, IInv, TypeOK, SupState
  <2>3. Ownership'
    BY <1>2, <2>1, SupervisorStep, AttemptsKept DEF Dial, Move, Ownership
  <2>4. QED
    BY <2>2, <2>3 DEF IInv
<1>3. CASE Register(d)
  <2>1. fruitless' \in [Dialer -> 0..MaxFailures]
    BY <1>3, LimitAssumption DEF Register, IInv, TypeOK
  <2>2. TypeOK'
    BY <1>3, <2>1, PushStep DEF Register, IInv, TypeOK, SupState, Status
  <2>3. AttemptsLeft'
    BY <1>3, LimitAssumption DEF Register, Push, IInv, TypeOK, Ownership, AttemptsLeft
  <2>4. Ownership'
    BY <1>3, <2>3, SupervisorStep DEF Register, Push, Ownership
  <2>5. QED
    BY <2>2, <2>4 DEF IInv
<1>4. CASE NoticeCancel(d)
  <2>1. PICK s \in {"session", "online"} : Move(d, s, "hungUp")
    BY <1>4 DEF NoticeCancel
  <2>2. TypeOK'
    BY <1>4, <2>1 DEF NoticeCancel, Move, IInv, TypeOK, SupState
  <2>3. Ownership'
    BY <1>4, <2>1, SupervisorStep, AttemptsKept DEF NoticeCancel, Move, Ownership
  <2>4. QED
    BY <2>2, <2>3 DEF IInv
<1>5. CASE ReportDrop(d)
  <2> DEFINE to == IF failures[d] + 1 >= MaxFailures THEN "release" ELSE "backoff"
  <2>1. Push(d, "dropped", to, "Disconnected") /\ to \in SupState /\ to # "off"
    BY <1>5 DEF ReportDrop, SupState
  <2>2. failures[d] < MaxFailures /\ fruitless[d] <= failures[d]
    BY <2>1 DEF Push, IInv, Ownership, AttemptsLeft
  <2>3. failures' \in [Dialer -> 0..MaxFailures] /\ fruitless' \in [Dialer -> 0..MaxFailures]
    <3>1. failures \in [Dialer -> 0..MaxFailures] /\ fruitless \in [Dialer -> 0..MaxFailures]
      BY DEF IInv, TypeOK
    <3>2. failures[d] + 1 \in 0..MaxFailures /\ fruitless[d] + 1 \in 0..MaxFailures
      BY <2>2, <3>1, LimitAssumption
    <3>3. /\ failures' = [failures EXCEPT ![d] = @ + 1]
          /\ fruitless' = [fruitless EXCEPT ![d] = @ + 1]
      BY <1>5 DEF ReportDrop
    <3>4. QED
      BY <3>1, <3>2, <3>3
  <2>4. /\ sup' \in [Dialer -> SupState]
        /\ updates' \in [Dialer -> Seq(Status)]
        /\ \A e \in Dialer : Len(updates'[e]) <= UpdateCap
    BY <2>1, PushStep DEF Status
  <2>5. TypeOK'
    BY <1>5, <2>3, <2>4 DEF ReportDrop, IInv, TypeOK
  <2>6. AttemptsLeft'
    <3>1. sup'[d] = to /\ failures'[d] = failures[d] + 1 /\ fruitless'[d] = fruitless[d] + 1
      BY <1>5, <2>1 DEF ReportDrop, Push, IInv, TypeOK
    <3>2. fruitless'[d] <= failures'[d] /\ (to # "release" => failures'[d] < MaxFailures)
      BY <2>2, <3>1, LimitAssumption DEF IInv, TypeOK
    <3>3. \A e \in Dialer : e # d => /\ sup'[e] = sup[e]
                                     /\ failures'[e] = failures[e]
                                     /\ fruitless'[e] = fruitless[e]
      BY <1>5, <2>1 DEF ReportDrop, Push, IInv, TypeOK
    <3>4. QED
      BY <3>1, <3>2, <3>3 DEF AttemptsLeft, IInv, Ownership
  <2>7. UNCHANGED <<active, pc, clientVars>> /\ sup[d] # "off" /\ sup' = [sup EXCEPT ![d] = to]
    BY <1>5, <2>1 DEF ReportDrop, Push
  <2> HIDE DEF to
  <2>8. Ownership'
    BY <2>1, <2>6, <2>7, SupervisorStep DEF Ownership
  <2>9. QED
    BY <2>5, <2>8 DEF IInv
<1>6. CASE ReportEnd(d)
  <2>1. PICK s \in {"refused", "hungUp"} : Push(d, s, "release", "Disconnected")
    BY <1>6 DEF ReportEnd
  <2>2. TypeOK'
    BY <1>6, <2>1, PushStep DEF ReportEnd, IInv, TypeOK, SupState, Status
  <2>3. Ownership'
    BY <1>6, <2>1, SupervisorStep, AttemptsKept DEF ReportEnd, Push, Ownership
  <2>4. QED
    BY <2>2, <2>3 DEF IInv
<1>7. CASE Backoff(d)
  <2>1. PICK to \in {"announce", "release"} : Move(d, "backoff", to)
    BY <1>7 DEF Backoff
  <2>2. TypeOK'
    BY <1>7, <2>1 DEF Backoff, Move, IInv, TypeOK, SupState
  <2>3. Ownership'
    BY <1>7, <2>1, SupervisorStep, AttemptsKept DEF Backoff, Move, Ownership
  <2>4. QED
    BY <2>2, <2>3 DEF IInv
<1>8. CASE Release(d)
  <2>1. TypeOK'
    <3>1. failures' \in [Dialer -> 0..MaxFailures] /\ fruitless' \in [Dialer -> 0..MaxFailures]
      BY <1>8, LimitAssumption DEF Release, IInv, TypeOK
    <3>2. QED
      BY <1>8, <3>1 DEF Release, Move, IInv, TypeOK, SupState
  <2>2. OneConnection'
    BY <1>8 DEF Release, Move, IInv, TypeOK, Ownership, OneConnection, Owner
  <2>3. LiveIsCancellable' /\ AttemptsLeft'
    BY <1>8, LimitAssumption
       DEF Release, Move, IInv, TypeOK, Ownership, LiveIsCancellable, AttemptsLeft
  <2>4. GivingUpClosesTheStream'
    BY <1>8, TaskAssumption DEF Release, Move, IInv, TypeOK, Ownership, GivingUpClosesTheStream
  <2>5. QED
    BY <2>1, <2>2, <2>3, <2>4 DEF IInv, Ownership
<1>9. CASE Fault(d)
  <2>1. PICK from \in {"dial", "session", "online"}, to \in {"dropped", "refused"} : Move(d, from, to)
    BY <1>9 DEF Fault
  <2>2. TypeOK'
    BY <1>9, <2>1, LimitAssumption DEF Fault, Move, IInv, TypeOK, SupState
  <2>3. Ownership'
    BY <1>9, <2>1, SupervisorStep, AttemptsKept DEF Fault, Move, Ownership
  <2>4. QED
    BY <2>2, <2>3 DEF IInv
<1>10. QED
  BY <1>1, <1>2, <1>3, <1>4, <1>5, <1>6, <1>7, <1>8, <1>9 DEF Supervise

-----------------------------------------------------------------------------

LEMMA NextStep ==
  ASSUME IInv, [Next]_vars
  PROVE  IInv'
<1>1. CASE \E d \in Dialer : SignIn(d) \/ UserConnects(d)
  BY <1>1, SignStep
<1>2. CASE \E h \in Hanger : SignOut(h) \/ UserDisconnects(h)
  BY <1>2, SignStep
<1>3. ASSUME NEW d \in Dialer, Connect(d) PROVE IInv'
  BY <1>3, ConnectStep
<1>4. ASSUME NEW d \in Dialer, Supervise(d) \/ Fault(d) PROVE IInv'
  BY <1>4, SuperviseStep
<1>5. ASSUME NEW h \in Hanger, Disarm(h) \/ HangUp(h) PROVE IInv'
  BY <1>5, HangerStep
<1>6. CASE TokenExpires \/ TokenRenewed
  BY <1>6, TokenStep
<1>7. CASE WatchdogTick
  BY <1>7, WatchdogStep
<1>8. CASE UNCHANGED vars
  <2>1. TypeOK'
    BY <1>8 DEF vars, authVars, flagVars, clientVars, supVars, IInv, TypeOK
  <2>2. Ownership'
    BY <1>8 DEF vars, authVars, flagVars, clientVars, supVars, IInv, Ownership, OneConnection,
                Owner, LiveIsCancellable, GivingUpClosesTheStream, AttemptsLeft
  <2>3. QED
    BY <2>1, <2>2 DEF IInv
<1>9. QED
  BY <1>1, <1>2, <1>3, <1>4, <1>5, <1>6, <1>7, <1>8 DEF Next

\* The invariant the theorems below are read from.
THEOREM Invariance == Spec => []IInv
<1>1. Init => IInv
  BY InitIInv
<1>2. IInv /\ [Next]_vars => IInv'
  BY NextStep
<1>3. QED
  BY <1>1, <1>2, PTL DEF Spec

\* No channel overflows, no supervisor loses more attempts than it has and the
\* schedule stays in range, whatever the number of commands and faults.
THEOREM ChatTypeCorrect == Spec => []TypeOK
<1>1. IInv => TypeOK
  BY DEF IInv
<1>2. QED
  BY <1>1, Invariance, PTL

\* However many Connect commands of the user, the UI and the watchdog race,
\* one of them owns the connection and its supervisor is the only one running.
THEOREM OneConnectionHolds == Spec => []OneConnection
<1>1. IInv => OneConnection
  BY DEF IInv, Ownership
<1>2. QED
  BY <1>1, Invariance, PTL

\* At no point does a live connection's token get lost without having been
\* cancelled: there is always somebody who can stop it.
THEOREM Cancellable == Spec => []LiveIsCancellable
<1>1. IInv => LiveIsCancellable
  BY DEF IInv, Ownership
<1>2. QED
  BY <1>1, Invariance, PTL

\* Once a supervisor has given up, no sender of the client keeps its stream
\* open, so the service's loop can end and the next Connect is not dropped.
THEOREM StreamCloses == Spec => []GivingUpClosesTheStream
<1>1. IInv => GivingUpClosesTheStream
  BY DEF IInv, Ownership
<1>2. QED
  BY <1>1, Invariance, PTL

-----------------------------------------------------------------------------
(* The watchdog over a line and a user that do anything: Watchdog, for     *)
(* every ceiling and saturation point.                                     *)

VARIABLES line, wish, schedule, idled
Free == INSTANCE Watchdog WITH link <- line, wanted <- wish, retry <- schedule, waited <- idled

\* What was waited and what is left to wait always add up to the backoff the
\* last attempt earned: the fact the spacing of attempts rests on.
FreeInv == Free!TypeOK /\ Free!WaitAddsUp

\* A tick keeps the schedule in its range and the sum intact.
LEMMA TickStep ==
  ASSUME FreeInv, Free!Tick
  PROVE  FreeInv'
<1> USE BackoffAssumption DEF FreeInv, Free!TypeOK, Free!WaitAddsUp, Free!Tick, Free!Ticked, Free!Dials,
                              Free!Link, Free!RetryState, Free!RetryDefault, Free!Smaller
<1>1. CASE ~wish \/ line = "Up"
  BY <1>1
<1>2. CASE wish /\ line = "Pending"
  BY <1>2
<1>3. CASE wish /\ line = "Down" /\ schedule.countdown > 0
  <2>1. schedule' = [schedule EXCEPT !.countdown = @ - 1] /\ idled' = idled + 1
    BY <1>3
  <2>2. schedule'.attempts = schedule.attempts /\ schedule'.countdown = schedule.countdown - 1
    BY <2>1
  <2>3. QED
    BY <1>3, <2>1, <2>2
<1>4. CASE wish /\ line = "Down" /\ schedule.countdown = 0
  <2>1. schedule' = Free!AfterDial(schedule) /\ idled' = 0
    BY <1>4
  <2>2. QED
    BY <1>4, <2>1 DEF Free!AfterDial
<1>5. QED
  BY <1>1, <1>2, <1>3, <1>4

\* The schedule is consistent in every reachable state.
LEMMA FreeInvariance == Free!Spec => []FreeInv
<1>1. Free!Init => FreeInv
  <2> SUFFICES ASSUME Free!Init
               PROVE  FreeInv
    OBVIOUS
  <2>1. 0 \in 0..MaxAttempts /\ 0 \in 0..MaxBackoffTicks
    BY BackoffAssumption
  <2>2. schedule \in Free!RetryState /\ schedule.attempts = 0 /\ schedule.countdown = 0
    BY <2>1 DEF Free!Init, Free!RetryState, Free!RetryDefault
  <2>3. Free!WaitAddsUp
    BY <2>2, BackoffAssumption DEF Free!Init, Free!WaitAddsUp, Free!Smaller
  <2>4. Free!TypeOK
    BY <2>1, <2>2 DEF Free!Init, Free!TypeOK, Free!Link
  <2>5. QED
    BY <2>3, <2>4 DEF FreeInv
<1>2. FreeInv /\ [Free!Next]_(Free!vars) => FreeInv'
  <2> SUFFICES ASSUME FreeInv, [Free!Next]_(Free!vars)
               PROVE  FreeInv'
    OBVIOUS
  <2>1. CASE Free!LinkChanges
    BY <2>1 DEF Free!LinkChanges, FreeInv, Free!TypeOK, Free!WaitAddsUp
  <2>2. CASE Free!WantedChanges
    BY <2>2 DEF Free!WantedChanges, FreeInv, Free!TypeOK, Free!WaitAddsUp
  <2>3. CASE Free!Tick
    BY <2>3, TickStep
  <2>4. CASE UNCHANGED Free!vars
    BY <2>4 DEF Free!vars, FreeInv, Free!TypeOK, Free!WaitAddsUp
  <2>5. QED
    BY <2>1, <2>2, <2>3, <2>4 DEF Free!Next
<1>3. QED
  BY <1>1, <1>2, PTL DEF Free!Spec

\* The wait never passes the ceiling, whatever the number of attempts.
THEOREM ScheduleInRange == Free!Spec => []Free!TypeOK
<1>1. FreeInv => Free!TypeOK
  BY DEF FreeInv
<1>2. QED
  BY <1>1, FreeInvariance, PTL

\* Attempts with no success between them are spaced by the backoff.
THEOREM Spacing == Free!Spec => Free!BackoffBetweenDials
<1>1. FreeInv /\ [Free!Next]_(Free!vars)
        => [Free!Dial => idled = Free!Smaller(schedule.attempts, MaxBackoffTicks)]_(Free!vars)
  BY BackoffAssumption DEF FreeInv, Free!WaitAddsUp, Free!TypeOK, Free!RetryState, Free!Dial,
                           Free!Dials, Free!Smaller
<1>2. QED
  BY <1>1, FreeInvariance, PTL DEF Free!Spec, Free!BackoffBetweenDials

-----------------------------------------------------------------------------
(* The chat connection's watchdog is that one *)

\* The line and the wish change between ticks, one at a time, and the
\* schedule does not.
LEMMA ElsewhereStep ==
  ASSUME IInv, retry' = retry, armed' \in BOOLEAN, signedIn' \in BOOLEAN, status' \in Status,
         status' = status \/ (armed' = armed /\ signedIn' = signedIn)
  PROVE  [Schedule!Next]_(Schedule!vars)
<1>1. CASE status' = status /\ (signedIn /\ armed) = (signedIn' /\ armed')
  BY <1>1 DEF Schedule!vars
<1>2. CASE status' = status /\ (signedIn /\ armed) # (signedIn' /\ armed')
  <2>1. Schedule!WantedChanges
    BY <1>2 DEF Schedule!WantedChanges, IInv, TypeOK
  <2>2. QED
    BY <2>1 DEF Schedule!Next
<1>3. CASE status' # status
  <2>1. LinkOf(status') # LinkOf(status) /\ LinkOf(status') \in Link
    BY <1>3 DEF LinkOf, Link, Status, IInv, TypeOK
  <2>2. Schedule!LinkChanges
    BY <1>3, <2>1 DEF Schedule!LinkChanges, Schedule!Link, Link
  <2>3. QED
    BY <2>2 DEF Schedule!Next
<1>4. QED
  BY <1>1, <1>2, <1>3

LEMMA CommandsElsewhere ==
  ASSUME IInv, NEW d \in Dialer, SignIn(d) \/ UserConnects(d) \/ Connect(d)
  PROVE  [Schedule!Next]_(Schedule!vars)
<1> USE DEF authVars, flagVars, clientVars, supVars, IInv, TypeOK
<1>1. CASE SignIn(d) \/ UserConnects(d)
  BY <1>1, ElsewhereStep DEF SignIn, UserConnects
<1>2. CASE Arm(d) \/ Start(d) \/ Open(d) \/ LoopEnds(d)
  BY <1>2, ElsewhereStep DEF Arm, Start, Open, LoopEnds
<1>3. CASE EmitConnecting(d) \/ EmitDisconnected(d)
  BY <1>3, ElsewhereStep DEF EmitConnecting, EmitDisconnected, Status
<1>4. CASE Relay(d)
  <2>1. Head(updates[d]) \in Status
    BY <1>4 DEF Relay
  <2>2. QED
    BY <1>4, <2>1, ElsewhereStep DEF Relay
<1>5. QED
  BY <1>1, <1>2, <1>3, <1>4 DEF Connect

LEMMA HangersElsewhere ==
  ASSUME IInv, NEW h \in Hanger, SignOut(h) \/ UserDisconnects(h) \/ Disarm(h) \/ HangUp(h)
  PROVE  [Schedule!Next]_(Schedule!vars)
BY ElsewhereStep DEF SignOut, UserDisconnects, Disarm, HangUp, authVars, flagVars, clientVars,
                     supVars, IInv, TypeOK

LEMMA SupervisorElsewhere ==
  ASSUME IInv, NEW d \in Dialer, Supervise(d) \/ Fault(d)
  PROVE  [Schedule!Next]_(Schedule!vars)
<1>1. UNCHANGED <<retry, armed, signedIn, status>>
  BY DEF Supervise, Fault, Announce, Dial, Register, NoticeCancel, ReportDrop, ReportEnd, Backoff,
         Release, authVars, flagVars
<1>2. QED
  BY <1>1, ElsewhereStep DEF IInv, TypeOK

\* A tick of chat's watchdog is a tick of the watchdog: what has been waited
\* grows as what is left to wait shrinks.
LEMMA TickImplements ==
  ASSUME IInv, WatchdogTick
  PROVE  Schedule!Tick
<1> USE BackoffAssumption
<1>1. /\ retry \in RetryState /\ signedIn \in BOOLEAN /\ armed \in BOOLEAN /\ status \in Status
      /\ UNCHANGED <<status, signedIn, armed>>
      /\ retry' = IF signedIn THEN Ticked(retry, LinkOf(status), armed) ELSE RetryDefault
  BY DEF IInv, TypeOK, WatchdogTick, authVars, flagVars
<1>2. PICK seen \in Link : seen = LinkOf(status)
  BY <1>1 DEF LinkOf, Status, Link
<1>3. PICK wishes \in BOOLEAN : wishes <=> signedIn /\ armed
  OBVIOUS
<1> DEFINE gone == Smaller(retry.attempts, MaxBackoffTicks) - retry.countdown
           goneNext == Smaller(retry'.attempts, MaxBackoffTicks) - retry'.countdown
<1>4. Schedule!Ticked(retry, seen, wishes) = retry'
  <2>1. CASE signedIn
    <3>1. wishes = armed
      BY <1>1, <1>3, <2>1
    <3>2. retry' = Ticked(retry, seen, wishes)
      BY <1>1, <1>2, <2>1, <3>1
    <3>3. QED
      BY <3>2 DEF Schedule!Ticked, Ticked, Schedule!RetryDefault, RetryDefault, Schedule!Dials, Dials,
                  Schedule!AfterDial, AfterDial, Schedule!Smaller, Smaller
  <2>2. CASE ~signedIn
    <3>1. ~wishes /\ retry' = RetryDefault
      BY <1>1, <1>3, <2>2
    <3>2. QED
      BY <3>1 DEF Schedule!Ticked, Schedule!Dials, Schedule!RetryDefault, RetryDefault
  <2>3. QED
    BY <1>1, <2>1, <2>2
<1>5. goneNext = IF ~wishes \/ seen = "Up" \/ Schedule!Dials(retry, seen, wishes) THEN 0
                 ELSE IF seen = "Down" THEN gone + 1 ELSE gone
  <2> USE DEF Schedule!Dials
  <2>1. CASE ~wishes \/ seen = "Up"
    <3>1. retry' = Schedule!RetryDefault
      BY <1>4, <2>1 DEF Schedule!Ticked
    <3>2. QED
      BY <2>1, <3>1 DEF Schedule!RetryDefault, Smaller
  <2>2. CASE wishes /\ seen = "Pending"
    BY <1>4, <2>2 DEF Schedule!Ticked
  <2>3. CASE wishes /\ seen = "Down" /\ retry.countdown > 0
    <3>1. retry' = [retry EXCEPT !.countdown = @ - 1]
      BY <1>4, <2>3 DEF Schedule!Ticked
    <3>2. retry'.attempts = retry.attempts /\ retry'.countdown = retry.countdown - 1
      BY <1>1, <3>1 DEF RetryState
    <3>3. QED
      BY <1>1, <2>3, <3>2 DEF RetryState, Smaller
  <2>4. CASE wishes /\ seen = "Down" /\ retry.countdown = 0
    <3>1. retry' = Schedule!AfterDial(retry)
      BY <1>4, <2>4 DEF Schedule!Ticked
    <3>2. QED
      BY <1>1, <2>4, <3>1 DEF Schedule!AfterDial, Schedule!Smaller, RetryState, Smaller
  <2>5. QED
    BY <1>1, <1>2, <2>1, <2>2, <2>3, <2>4 DEF Link, RetryState
<1>6. QED
  BY <1>1, <1>2, <1>3, <1>4, <1>5 DEF Schedule!Tick

LEMMA WatchdogStepImplements ==
  ASSUME IInv, [Next]_vars
  PROVE  [Schedule!Next]_(Schedule!vars)
<1>1. ASSUME NEW d \in Dialer, SignIn(d) \/ UserConnects(d) \/ Connect(d)
      PROVE  [Schedule!Next]_(Schedule!vars)
  BY <1>1, CommandsElsewhere
<1>2. ASSUME NEW d \in Dialer, Supervise(d) \/ Fault(d) PROVE [Schedule!Next]_(Schedule!vars)
  BY <1>2, SupervisorElsewhere
<1>3. ASSUME NEW h \in Hanger, SignOut(h) \/ UserDisconnects(h) \/ Disarm(h) \/ HangUp(h)
      PROVE  [Schedule!Next]_(Schedule!vars)
  BY <1>3, HangersElsewhere
<1>4. CASE TokenExpires \/ TokenRenewed
  BY <1>4, ElsewhereStep DEF TokenExpires, TokenRenewed, flagVars, IInv, TypeOK
<1>5. CASE WatchdogTick
  BY <1>5, TickImplements DEF Schedule!Next
<1>6. CASE UNCHANGED vars
  BY <1>6, ElsewhereStep DEF vars, authVars, flagVars, IInv, TypeOK
<1>7. QED
  BY <1>1, <1>2, <1>3, <1>4, <1>5, <1>6 DEF Next

\* Chat's watchdog implements the watchdog: only its ticks move the schedule,
\* each tick sees the link and the wish as they are, and signing out forgets it.
THEOREM WatchdogImplemented == Spec => ImplementsWatchdog
<1>1. Init => Schedule!Init
  <2> SUFFICES ASSUME Init PROVE Schedule!Init
    OBVIOUS
  <2>1. Smaller(retry.attempts, MaxBackoffTicks) - retry.countdown = 0
    BY BackoffAssumption DEF Init, RetryDefault, Smaller
  <2>2. QED
    BY <2>1 DEF Init, Schedule!Init, LinkOf, RetryDefault, Schedule!RetryDefault
<1>2. IInv /\ [Next]_vars => [Schedule!Next]_(Schedule!vars)
  BY WatchdogStepImplements
<1>3. QED
  BY <1>1, <1>2, Invariance, PTL DEF Spec, ImplementsWatchdog, Schedule!Spec

=============================================================================
