-------------------------- MODULE LobbySocketProofs --------------------------
(* Who owns the lobby connection and where its queued frames may go, for   *)
(* every number of commands and frames, every channel size and every       *)
(* number of faults.                                                       *)
EXTENDS LobbySocket, TLAPS

-----------------------------------------------------------------------------
(* The watchdog's schedule *)

LEMMA DefaultInRange == RetryDefault \in RetryState
BY BackoffAssumption DEF RetryDefault, RetryState

\* A tick leaves the schedule in its range, whatever the link and the user do.
LEMMA TickedInRange ==
  ASSUME NEW r \in RetryState, NEW l \in Link, NEW w \in BOOLEAN
  PROVE  Ticked(r, l, w) \in RetryState
<1> USE BackoffAssumption DEF Ticked, Dials, Link, RetryState
<1>1. CASE ~w \/ l = "Up"
  BY <1>1, DefaultInRange
<1>2. CASE w /\ l = "Pending"
  BY <1>2
<1>3. CASE w /\ l = "Down" /\ r.countdown > 0
  BY <1>3
<1>4. CASE w /\ l = "Down" /\ r.countdown = 0
  <2>1. Ticked(r, l, w) = AfterDial(r)
    BY <1>4
  <2>2. AfterDial(r) \in RetryState
    BY DEF AfterDial, Smaller
  <2>3. QED
    BY <2>1, <2>2
<1>5. QED
  BY <1>1, <1>2, <1>3, <1>4

\* A supervisor that is still trying has attempts left, and all of its losses
\* but the first were in vain.
AttemptsLeft ==
  \A d \in Dialer : /\ failures[d] <= fruitless[d] + 1
                    /\ fruitless[d] <= failures[d]
                    /\ sup[d] # "off" => failures[d] < MaxFailures

\* A queued frame is queued once, in one queue, and has not been written.
QueuedOnce ==
  /\ \A d \in Dialer : \A i, j \in DOMAIN outgoing[d] :
        outgoing[d][i] = outgoing[d][j] => i = j
  /\ \A d, e \in Dialer : \A i \in DOMAIN outgoing[d] : \A j \in DOMAIN outgoing[e] :
        outgoing[d][i] = outgoing[e][j] => d = e
  /\ \A d \in Dialer : \A i \in DOMAIN outgoing[d] : outgoing[d][i] \notin sent

\* The frames of a lost socket are in a queue only until the supervisor has
\* dealt with the loss, or for good once it has ended.
Drained ==
  \A d \in Dialer : sup[d] \notin {"lost", "lostUp", "off"} =>
    \A i \in DOMAIN outgoing[d] : outgoing[d][i] \notin dying

Ownership == OneConnection /\ LiveIsCancellable
Queues == QueuedOnce /\ Drained /\ LostFramesStayLost
IInv == TypeOK /\ Ownership /\ AttemptsLeft /\ Queues

-----------------------------------------------------------------------------
(* Queues as sequences *)

LEMMA EmptyQueue == Len(<<>>) = 0 /\ DOMAIN <<>> = {}
OBVIOUS

LEMMA AppendFacts ==
  ASSUME NEW S, NEW s \in Seq(S), NEW x \in S
  PROVE  /\ Append(s, x) \in Seq(S)
         /\ Len(Append(s, x)) = Len(s) + 1
         /\ DOMAIN Append(s, x) = DOMAIN s \cup {Len(s) + 1}
         /\ \A i \in DOMAIN s : Append(s, x)[i] = s[i]
         /\ Append(s, x)[Len(s) + 1] = x
<1>1. DOMAIN s = 1..Len(s) /\ Len(s) \in Nat
  OBVIOUS
<1>2. Append(s, x) \in Seq(S) /\ Len(Append(s, x)) = Len(s) + 1
  OBVIOUS
<1>3. DOMAIN Append(s, x) = 1..(Len(s) + 1)
  BY <1>2
<1>4. 1..(Len(s) + 1) = 1..Len(s) \cup {Len(s) + 1}
  BY <1>1
<1>5. Append(s, x)[Len(s) + 1] = x /\ \A i \in DOMAIN s : Append(s, x)[i] = s[i]
  BY <1>1
<1>6. QED
  BY <1>1, <1>2, <1>3, <1>4, <1>5

LEMMA TailFacts ==
  ASSUME NEW S, NEW s \in Seq(S), s # <<>>
  PROVE  /\ Head(s) \in S /\ 1 \in DOMAIN s /\ Head(s) = s[1]
         /\ Tail(s) \in Seq(S) /\ Len(Tail(s)) = Len(s) - 1
         /\ \A i \in DOMAIN Tail(s) : /\ i \in Nat
                                      /\ i + 1 \in DOMAIN s /\ i + 1 # 1
                                      /\ Tail(s)[i] = s[i + 1]
<1>1. DOMAIN s = 1..Len(s) /\ Len(s) \in Nat \ {0}
  OBVIOUS
<1>2. Tail(s) \in Seq(S) /\ Len(Tail(s)) = Len(s) - 1
  OBVIOUS
<1>3. DOMAIN Tail(s) = 1..(Len(s) - 1)
  BY <1>2
<1>4. \A i \in 1..(Len(s) - 1) : Tail(s)[i] = s[i + 1]
  BY <1>1
<1>5. Head(s) \in S /\ 1 \in DOMAIN s /\ Head(s) = s[1]
  BY <1>1
<1>6. QED
  BY <1>1, <1>2, <1>3, <1>4, <1>5

-----------------------------------------------------------------------------
LEMMA InitIInv == Init => IInv
<1> SUFFICES ASSUME Init PROVE IInv
  OBVIOUS
<1>1. TypeOK
  <2>1. retry \in RetryState
    BY DefaultInRange DEF Init
  <2>2. failures \in [Dialer -> 0..MaxFailures] /\ fruitless \in [Dialer -> 0..MaxFailures]
    BY LimitAssumption DEF Init
  <2>3. \A d \in Dialer : Len(updates[d]) <= UpdateCap + 1 /\ Len(outgoing[d]) <= FrameCap
    BY LimitAssumption DEF Init
  <2>4. faults \in 0..MaxFaults
    BY LimitAssumption DEF Init
  <2>5. /\ updates \in [Dialer -> Seq({"Authenticated", "Reconnecting", "News"})]
        /\ outgoing \in [Dialer -> Seq(Frame)]
        /\ sup \in [Dialer -> {"off", "dial", "handshake", "up", "lost", "lostUp", "reopen", "backoff"}]
    BY DEF Init
  <2>6. pc \in [Dialer \cup Hanger -> {"idle", "start", "connecting", "open", "relay", "closing", "hangUp"}]
    BY DEF Init
  <2>7. QED
    BY <2>1, <2>2, <2>3, <2>4, <2>5, <2>6 DEF Init, TypeOK
<1>2. Ownership
  BY TaskAssumption DEF Init, Ownership, OneConnection, LiveIsCancellable, Owner
<1>3. AttemptsLeft
  BY LimitAssumption DEF Init, AttemptsLeft
<1>4. Queues
  BY DEF Init, Queues, QueuedOnce, Drained, LostFramesStayLost
<1>5. QED
  BY <1>1, <1>2, <1>3, <1>4 DEF IInv

\* What none of the parts but TypeOK looks at.
LEMMA Untouched ==
  ASSUME IInv, UNCHANGED <<active, pc, clientVars, supVars, frameVars>>
  PROVE  Ownership' /\ AttemptsLeft' /\ Queues'
<1> USE DEF IInv, clientVars, supVars, frameVars
<1>1. Ownership'
  BY DEF Ownership, OneConnection, LiveIsCancellable, Owner
<1>2. AttemptsLeft'
  BY DEF AttemptsLeft
<1>3. Queues'
  BY DEF Queues, QueuedOnce, Drained, LostFramesStayLost
<1>4. QED
  BY <1>1, <1>2, <1>3

\* A command moves between labels at which it owns nothing.
LEMMA CommandStep ==
  ASSUME IInv,
         NEW t \in Dialer \cup Hanger, NEW to,
         pc' = [pc EXCEPT ![t] = to],
         pc[t] \notin {"connecting", "open", "relay"},
         to \notin {"connecting", "open", "relay"},
         UNCHANGED <<active, clientVars, sup>>
  PROVE  Ownership'
<1> USE DEF IInv, TypeOK, clientVars
<1>1. \A d \in Dialer : Owner(d)' <=> Owner(d)
  BY DEF Owner
<1>2. \A d \in Dialer : sup[d] # "off" => pc'[d] = "relay"
  BY DEF Ownership, OneConnection
<1>3. OneConnection'
  BY <1>1, <1>2 DEF Ownership, OneConnection
<1>4. QED
  BY <1>3 DEF Ownership, LiveIsCancellable

\* The supervisor of one connection moves on or ends.
LEMMA SupervisorStep ==
  ASSUME IInv,
         NEW d \in Dialer, NEW to,
         sup[d] # "off",
         sup' = [sup EXCEPT ![d] = to],
         UNCHANGED <<active, pc, clientVars>>
  PROVE  Ownership'
<1> USE DEF IInv, TypeOK, Ownership, clientVars
<1>1. OneConnection'
  BY DEF OneConnection, Owner
<1>2. LiveIsCancellable'
  BY DEF LiveIsCancellable
<1>3. QED
  BY <1>1, <1>2

\* ... without losing an attempt.
LEMMA AttemptsKept ==
  ASSUME IInv,
         NEW d \in Dialer, NEW to,
         sup[d] # "off",
         sup' = [sup EXCEPT ![d] = to],
         UNCHANGED <<failures, fruitless>>
  PROVE  AttemptsLeft'
BY DEF IInv, TypeOK, AttemptsLeft

\* ... without a loss to deal with before it, and none after.
LEMMA QueuesKept ==
  ASSUME IInv,
         NEW d \in Dialer, NEW to,
         sup[d] \notin {"lost", "lostUp", "off"},
         sup' = [sup EXCEPT ![d] = to],
         UNCHANGED frameVars
  PROVE  Queues'
BY DEF IInv, TypeOK, Queues, QueuedOnce, Drained, LostFramesStayLost, frameVars

\* The socket is lost, and everything in its queue with it.
LEMMA QueuesLost ==
  ASSUME IInv,
         NEW d \in Dialer, NEW to \in {"lost", "lostUp", "off"},
         sup' = [sup EXCEPT ![d] = to],
         dying' = dying \cup QueuedFor(d),
         UNCHANGED <<outgoing, sent, between>>
  PROVE  Queues' /\ dying' \subseteq Frame
<1> USE DEF IInv, TypeOK, Queues
<1>1. \A i \in DOMAIN outgoing[d] : outgoing[d][i] \in Frame
  OBVIOUS
<1>2. dying' \subseteq Frame
  BY <1>1 DEF QueuedFor
<1>3. QueuedOnce'
  BY DEF QueuedOnce
<1>4. LostFramesStayLost'
  BY DEF QueuedOnce, LostFramesStayLost, QueuedFor
<1>5. Drained'
  <2> SUFFICES ASSUME NEW e \in Dialer, sup'[e] \notin {"lost", "lostUp", "off"},
                      NEW i \in DOMAIN outgoing[e]
               PROVE  outgoing[e][i] \notin dying'
    BY DEF Drained
  <2>1. e # d /\ sup'[e] = sup[e]
    OBVIOUS
  <2>2. outgoing[e][i] \notin dying
    BY <2>1 DEF Drained
  <2>3. outgoing[e][i] \notin QueuedFor(d)
    BY <2>1 DEF QueuedFor, QueuedOnce
  <2>4. QED
    BY <2>2, <2>3
<1>6. QED
  BY <1>2, <1>3, <1>4, <1>5

-----------------------------------------------------------------------------
(* The user, the UI, the watchdog and the commands *)

LEMMA SignStep ==
  ASSUME IInv,
         \/ \E d \in Dialer : SignIn(d) \/ UserConnects(d)
         \/ \E h \in Hanger : SignOut(h) \/ UserDisconnects(h)
  PROVE  IInv'
<1>1. /\ signedIn' \in BOOLEAN
      /\ UNCHANGED <<flagVars, retry, clientVars, supVars, updates, aliveVars, frameVars, faults, wanted>>
  BY DEF SignIn, UserConnects, SignOut, UserDisconnects, IInv, TypeOK
<1>2. PICK t \in Dialer \cup Hanger, to \in {"start", "hangUp"} :
        pc[t] = "idle" /\ pc' = [pc EXCEPT ![t] = to]
  BY DEF SignIn, UserConnects, SignOut, UserDisconnects, Goto
<1> USE DEF flagVars, clientVars, supVars, aliveVars, frameVars
<1>3. UNCHANGED <<active, clientVars, supVars, frameVars>>
  BY <1>1
<1> TypeOK'
  BY <1>1, <1>2 DEF IInv, TypeOK
<1>4. Ownership'
  BY <1>2, <1>3, CommandStep
<1>5. AttemptsLeft' /\ Queues'
  BY <1>3 DEF IInv, AttemptsLeft, Queues, QueuedOnce, Drained, LostFramesStayLost
<1>6. QED
  BY <1>4, <1>5 DEF IInv

LEMMA WatchdogStep ==
  ASSUME IInv, WatchdogTick
  PROVE  IInv'
<1> USE DEF WatchdogTick
<1>1. retry' \in RetryState
  BY TickedInRange, DefaultInRange DEF IInv, TypeOK, LinkOf, Link, Armed
<1>2. UNCHANGED pc
  BY DEF Armed, Dials
<1>3. TypeOK'
  BY <1>1, <1>2 DEF IInv, TypeOK, flagVars, clientVars, supVars, aliveVars, frameVars
<1>4. QED
  BY <1>2, <1>3, Untouched DEF IInv, flagVars

\* The frames of a finished connection go with its queue.
LEMMA OpenStep ==
  ASSUME IInv, NEW d \in Dialer, Open(d)
  PROVE  IInv'
<1> USE DEF IInv, Open, Goto
<1>1. TypeOK'
  <2>1. outgoing' \in [Dialer -> Seq(Frame)] /\ \A e \in Dialer : Len(outgoing'[e]) <= FrameCap
    <3>1. outgoing' = [outgoing EXCEPT ![d] = <<>>] /\ outgoing \in [Dialer -> Seq(Frame)]
      BY DEF TypeOK
    <3>2. outgoing'[d] = <<>> /\ \A e \in Dialer : e # d => outgoing'[e] = outgoing[e]
      BY <3>1
    <3>3. \A e \in Dialer : Len(outgoing[e]) <= FrameCap
      BY DEF TypeOK
    <3>4. 0 <= FrameCap
      BY LimitAssumption
    <3>5. QED
      BY <3>1, <3>2, <3>3, <3>4, EmptyQueue
  <2>2. failures' \in [Dialer -> 0..MaxFailures] /\ fruitless' \in [Dialer -> 0..MaxFailures]
    BY LimitAssumption DEF TypeOK
  <2>3. cancelled' \subseteq Dialer
    BY DEF TypeOK
  <2>4. QED
    BY <2>1, <2>2, <2>3 DEF TypeOK, flagVars, aliveVars
<1>2. \A e \in Dialer : e # d => sup[e] = "off"
  BY DEF Ownership, OneConnection, Owner
<1>3. \A e \in Dialer : Owner(e)' <=> Owner(e)
  BY DEF Owner, TypeOK
<1>4. OneConnection'
  BY <1>2, <1>3 DEF Ownership, OneConnection, TypeOK, flagVars
<1>5. LiveIsCancellable'
  BY <1>2 DEF LiveIsCancellable, TypeOK
<1>6. AttemptsLeft'
  BY <1>2, LimitAssumption DEF AttemptsLeft, TypeOK
<1>7. Queues'
  <2>1. \A e \in Dialer : \A i \in DOMAIN outgoing'[e] :
          e # d /\ i \in DOMAIN outgoing[e] /\ outgoing'[e][i] = outgoing[e][i]
    BY DEF TypeOK
  <2>2. \A e \in Dialer : e # d => sup'[e] = sup[e]
    BY DEF TypeOK
  <2>3. QueuedOnce'
    BY <2>1 DEF Queues, QueuedOnce
  <2>4. Drained'
    BY <2>1, <2>2 DEF Queues, Drained
  <2>5. QED
    BY <2>3, <2>4 DEF Queues, LostFramesStayLost
<1>8. QED
  BY <1>1, <1>4, <1>5, <1>6, <1>7 DEF Ownership

LEMMA ConnectStep ==
  ASSUME IInv, NEW d \in Dialer, Connect(d)
  PROVE  IInv'
<1> USE DEF flagVars, clientVars, supVars, aliveVars, frameVars
<1>1. CASE Start(d)
  <2>1. TypeOK'
    BY <1>1 DEF Start, Goto, IInv, TypeOK
  <2>2. Ownership'
    <3>1. CASE active
      BY <1>1, <3>1, CommandStep DEF Start, Goto, IInv, TypeOK
    <3>2. CASE ~active
      <4>1. \A e \in Dialer : ~Owner(e) /\ sup[e] = "off"
        BY <3>2 DEF IInv, Ownership, OneConnection, Owner
      <4>2. OneConnection'
        BY <1>1, <3>2, <4>1 DEF Start, Goto, IInv, TypeOK, OneConnection, Owner
      <4>3. QED
        BY <1>1, <4>2 DEF Start, IInv, Ownership, LiveIsCancellable
    <3>3. QED
      BY <3>1, <3>2 DEF IInv, TypeOK
  <2>3. AttemptsLeft' /\ Queues'
    BY <1>1 DEF Start, IInv, AttemptsLeft, Queues, QueuedOnce, Drained, LostFramesStayLost
  <2>4. QED
    BY <2>1, <2>2, <2>3 DEF IInv
<1>2. CASE EmitConnecting(d)
  <2>1. TypeOK'
    BY <1>2 DEF EmitConnecting, Goto, IInv, TypeOK
  <2>2. \A e \in Dialer : (Owner(e)' <=> Owner(e)) /\ (sup[e] # "off" => pc'[e] = "relay")
    BY <1>2 DEF EmitConnecting, Goto, IInv, TypeOK, Ownership, OneConnection, Owner
  <2>3. Ownership'
    BY <1>2, <2>2 DEF EmitConnecting, IInv, Ownership, OneConnection, LiveIsCancellable
  <2>4. AttemptsLeft' /\ Queues'
    BY <1>2 DEF EmitConnecting, IInv, AttemptsLeft, Queues, QueuedOnce, Drained, LostFramesStayLost
  <2>5. QED
    BY <2>1, <2>3, <2>4 DEF IInv
<1>3. CASE Open(d)
  BY <1>3, OpenStep
<1>4. CASE Relay(d)
  <2>1. /\ Tail(updates[d]) \in Seq({"Authenticated", "Reconnecting", "News"})
        /\ Len(Tail(updates[d])) <= UpdateCap + 1
    BY <1>4, LimitAssumption DEF Relay, IInv, TypeOK
  <2>2. TypeOK'
    <3>1. status' \in {"Disconnected", "Connecting", "Connected"}
      BY <1>4 DEF Relay, StatusAfter, IInv, TypeOK
    <3>2. /\ updates' \in [Dialer -> Seq({"Authenticated", "Reconnecting", "News"})]
          /\ \A e \in Dialer : Len(updates'[e]) <= UpdateCap + 1
      BY <1>4, <2>1 DEF Relay, IInv, TypeOK
    <3>3. QED
      BY <1>4, <3>1, <3>2 DEF Relay, IInv, TypeOK
  <2>3. QED
    BY <1>4, <2>2, Untouched DEF Relay, IInv
<1>5. CASE LoopEnds(d)
  <2>1. TypeOK'
    BY <1>5 DEF LoopEnds, Goto, IInv, TypeOK
  <2>2. \A e \in Dialer : ~Owner(e)' /\ sup[e] = "off"
    BY <1>5 DEF LoopEnds, Goto, IInv, TypeOK, Ownership, OneConnection, Owner
  <2>3. Ownership'
    BY <1>5, <2>2 DEF LoopEnds, IInv, Ownership, OneConnection, LiveIsCancellable
  <2>4. AttemptsLeft' /\ Queues'
    BY <1>5 DEF LoopEnds, IInv, AttemptsLeft, Queues, QueuedOnce, Drained, LostFramesStayLost
  <2>5. QED
    BY <2>1, <2>3, <2>4 DEF IInv
<1>6. CASE EmitDisconnected(d)
  <2>1. TypeOK'
    BY <1>6 DEF EmitDisconnected, Goto, IInv, TypeOK
  <2>2. Ownership'
    BY <1>6, CommandStep DEF EmitDisconnected, Goto
  <2>3. AttemptsLeft' /\ Queues'
    BY <1>6 DEF EmitDisconnected, IInv, AttemptsLeft, Queues, QueuedOnce, Drained, LostFramesStayLost
  <2>4. QED
    BY <2>1, <2>2, <2>3 DEF IInv
<1>7. QED
  BY <1>1, <1>2, <1>3, <1>4, <1>5, <1>6 DEF Connect

LEMMA HangUpStep ==
  ASSUME IInv, NEW h \in Hanger, HangUp(h)
  PROVE  IInv'
<1> USE DEF HangUp, Goto, flagVars, clientVars, supVars, aliveVars, frameVars
<1>1. TypeOK'
  BY DEF IInv, TypeOK
<1>2. \A d \in Dialer : (Owner(d)' <=> Owner(d)) /\ pc'[d] = pc[d]
  BY TaskAssumption DEF IInv, TypeOK, Owner
<1>3. OneConnection'
  BY <1>2 DEF IInv, Ownership, OneConnection
<1>4. LiveIsCancellable'
  BY TaskAssumption DEF IInv, Ownership, LiveIsCancellable
<1>5. AttemptsLeft' /\ Queues'
  BY DEF IInv, AttemptsLeft, Queues, QueuedOnce, Drained, LostFramesStayLost
<1>6. QED
  BY <1>1, <1>3, <1>4, <1>5 DEF IInv, Ownership

-----------------------------------------------------------------------------
(* Frames *)

LEMMA QueueStep ==
  ASSUME IInv, NEW f \in Frame, QueueFrame(f)
  PROVE  IInv'
<1> USE DEF IInv
<1> DEFINE d == outSlot
<1>1. d \in Dialer /\ sup[d] # "off" /\ Len(outgoing[d]) < FrameCap
  BY DEF QueueFrame, TypeOK
<1>2. f \notin sent /\ f \notin dying /\ \A e \in Dialer : \A i \in DOMAIN outgoing[e] : outgoing[e][i] # f
  BY DEF QueueFrame
<1>3. /\ outgoing' = [outgoing EXCEPT ![d] = Append(outgoing[d], f)]
      /\ dying' = IF sup[d] \in {"lost", "lostUp"} THEN dying \cup {f} ELSE dying
      /\ sent' = sent /\ sup' = sup /\ failures' = failures /\ fruitless' = fruitless
  BY DEF QueueFrame, supVars
<1> HIDE DEF d
<1>4. /\ Append(outgoing[d], f) \in Seq(Frame)
      /\ Len(Append(outgoing[d], f)) <= FrameCap
      /\ DOMAIN Append(outgoing[d], f) = DOMAIN outgoing[d] \cup {Len(outgoing[d]) + 1}
      /\ \A i \in DOMAIN outgoing[d] : Append(outgoing[d], f)[i] = outgoing[d][i]
      /\ Append(outgoing[d], f)[Len(outgoing[d]) + 1] = f
      /\ Len(outgoing[d]) + 1 \notin DOMAIN outgoing[d]
  <2>1. outgoing[d] \in Seq(Frame) /\ Len(outgoing[d]) + 1 <= FrameCap
    BY <1>1, LimitAssumption DEF TypeOK
  <2>2. Len(outgoing[d]) + 1 \notin DOMAIN outgoing[d]
    BY <2>1
  <2>3. QED
    BY <2>1, <2>2, AppendFacts
<1>5. /\ outgoing' \in [Dialer -> Seq(Frame)]
      /\ \A e \in Dialer : Len(outgoing'[e]) <= FrameCap
      /\ outgoing'[d] = Append(outgoing[d], f)
      /\ \A e \in Dialer : e # d => outgoing'[e] = outgoing[e]
  BY <1>1, <1>3, <1>4 DEF TypeOK
<1>6. TypeOK'
  <2>1. dying' \subseteq Frame /\ between' \subseteq Frame
    BY DEF QueueFrame, TypeOK
  <2>2. \A e \in Dialer : Len(updates[e]) <= UpdateCap + 1
    BY DEF TypeOK
  <2>3. /\ UNCHANGED <<signedIn, flagVars, retry, pc, clientVars, supVars, updates, aliveVars>>
        /\ UNCHANGED <<sent, faults, wanted>>
    BY DEF QueueFrame
  <2>4. QED
    BY <1>5, <2>1, <2>2, <2>3 DEF TypeOK, flagVars, clientVars, supVars, aliveVars
<1>7. Ownership' /\ AttemptsLeft'
  BY DEF QueueFrame, flagVars, clientVars, supVars, Ownership, OneConnection, Owner,
         LiveIsCancellable, AttemptsLeft
<1>8. \A e \in Dialer : \A i \in DOMAIN outgoing'[e] :
        \/ i \in DOMAIN outgoing[e] /\ outgoing'[e][i] = outgoing[e][i] /\ outgoing'[e][i] # f
        \/ e = d /\ i = Len(outgoing[d]) + 1 /\ outgoing'[e][i] = f
  BY <1>1, <1>2, <1>4, <1>5
<1>9. QueuedOnce'
  BY <1>2, <1>3, <1>8 DEF Queues, QueuedOnce
<1>10. Drained'
  BY <1>2, <1>3, <1>8 DEF Queues, Drained
<1>11. LostFramesStayLost'
  BY <1>2, <1>3 DEF Queues, LostFramesStayLost
<1>12. QED
  BY <1>6, <1>7, <1>9, <1>10, <1>11 DEF Queues

\* What is written was in the queue of a socket that is up, so it is not dying,
\* and it is in no queue afterwards.
LEMMA WriteStep ==
  ASSUME IInv, NEW d \in Dialer, WriteFrame(d)
  PROVE  IInv'
<1> USE DEF IInv
<1>1. /\ sup[d] = "up" /\ outgoing[d] # <<>>
      /\ sent' = sent \cup {Head(outgoing[d])}
      /\ outgoing' = [outgoing EXCEPT ![d] = Tail(@)]
      /\ sup' = sup /\ dying' = dying
  BY DEF WriteFrame, supVars
<1>2. /\ Head(outgoing[d]) \in Frame /\ 1 \in DOMAIN outgoing[d] /\ Head(outgoing[d]) = outgoing[d][1]
      /\ Tail(outgoing[d]) \in Seq(Frame) /\ Len(Tail(outgoing[d])) <= FrameCap
      /\ \A i \in DOMAIN Tail(outgoing[d]) : /\ i \in Nat
                                             /\ i + 1 \in DOMAIN outgoing[d] /\ i + 1 # 1
                                             /\ Tail(outgoing[d])[i] = outgoing[d][i + 1]
  <2>1. outgoing[d] \in Seq(Frame) /\ Len(outgoing[d]) - 1 <= FrameCap
    BY LimitAssumption DEF TypeOK
  <2>2. QED
    BY <1>1, <2>1, TailFacts
<1>3. /\ outgoing' \in [Dialer -> Seq(Frame)]
      /\ \A e \in Dialer : Len(outgoing'[e]) <= FrameCap
      /\ outgoing'[d] = Tail(outgoing[d])
      /\ \A e \in Dialer : e # d => outgoing'[e] = outgoing[e]
  BY <1>1, <1>2 DEF TypeOK
<1>4. TypeOK'
  BY <1>1, <1>2, <1>3 DEF WriteFrame, TypeOK, flagVars, clientVars, supVars, aliveVars
<1>5. Ownership' /\ AttemptsLeft'
  BY DEF WriteFrame, flagVars, clientVars, supVars, Ownership, OneConnection, Owner,
         LiveIsCancellable, AttemptsLeft
<1>6. QueuedOnce'
  <2>1. \A e \in Dialer : \A i, j \in DOMAIN outgoing'[e] : outgoing'[e][i] = outgoing'[e][j] => i = j
    <3> SUFFICES ASSUME NEW e \in Dialer, NEW i \in DOMAIN outgoing'[e], NEW j \in DOMAIN outgoing'[e],
                        outgoing'[e][i] = outgoing'[e][j]
                 PROVE  i = j
      OBVIOUS
    <3>1. CASE e # d
      BY <1>3, <3>1 DEF Queues, QueuedOnce
    <3>2. CASE e = d
      <4>1. i \in Nat /\ j \in Nat /\ outgoing[d][i + 1] = outgoing[d][j + 1]
            /\ i + 1 \in DOMAIN outgoing[d] /\ j + 1 \in DOMAIN outgoing[d]
        BY <1>2, <1>3, <3>2
      <4>2. i + 1 = j + 1
        BY <4>1 DEF Queues, QueuedOnce
      <4>3. QED
        BY <4>1, <4>2
    <3>3. QED
      BY <3>1, <3>2
  <2>2. \A e \in Dialer : \A i \in DOMAIN outgoing'[e] :
          \E k \in DOMAIN outgoing[e] : outgoing'[e][i] = outgoing[e][k] /\ (e = d => k # 1)
    <3>1. ASSUME NEW i \in DOMAIN outgoing'[d]
          PROVE \E k \in DOMAIN outgoing[d] : outgoing'[d][i] = outgoing[d][k] /\ k # 1
      BY <1>2, <1>3
    <3>2. QED
      BY <1>3, <3>1
  <2>3. \A e \in Dialer : \A i \in DOMAIN outgoing'[e] : outgoing'[e][i] # outgoing[d][1]
    BY <1>2, <2>2 DEF Queues, QueuedOnce
  <2>4. QED
    BY <1>1, <1>2, <2>1, <2>2, <2>3 DEF Queues, QueuedOnce
<1>7. Drained'
  <2>1. \A i \in DOMAIN outgoing'[d] : outgoing'[d][i] \notin dying
    BY <1>1, <1>2, <1>3 DEF Queues, Drained
  <2>2. QED
    BY <1>1, <1>3, <2>1 DEF Queues, Drained
<1>8. LostFramesStayLost'
  BY <1>1, <1>2 DEF Queues, Drained, LostFramesStayLost
<1>9. QED
  BY <1>4, <1>5, <1>6, <1>7, <1>8 DEF Queues
-----------------------------------------------------------------------------
(* The supervisor and its session *)

LEMMA PushStep ==
  ASSUME IInv, NEW d \in Dialer, NEW u \in {"Authenticated", "Reconnecting", "News"}, Push(d, u)
  PROVE  /\ updates' \in [Dialer -> Seq({"Authenticated", "Reconnecting", "News"})]
         /\ \A e \in Dialer : Len(updates'[e]) <= UpdateCap + 1
<1> USE DEF IInv, TypeOK, Push, Blocked
<1>1. /\ Append(updates[d], u) \in Seq({"Authenticated", "Reconnecting", "News"})
      /\ Len(Append(updates[d], u)) = Len(updates[d]) + 1
  BY AppendFacts
<1>2. Len(Append(updates[d], u)) <= UpdateCap + 1
  BY <1>1, LimitAssumption
<1>3. QED
  BY <1>1, <1>2

\* The steps between two phases that neither lose a socket nor repair a loss.
LEMMA PhaseStep ==
  ASSUME IInv, NEW d \in Dialer,
         Dial(d) \/ Welcome(d) \/ NoticeCancel(d) \/ AnnounceReconnecting(d) \/ Backoff(d)
  PROVE  IInv'
<1> USE DEF flagVars, clientVars, supVars, aliveVars, frameVars
<1>1. PICK from \in {"dial", "handshake", "up", "reopen", "backoff"},
           to \in {"off", "dial", "handshake", "up", "backoff"} : Move(d, from, to)
  <2>1. CASE Dial(d)
    BY <2>1 DEF Dial
  <2>2. CASE Welcome(d)
    BY <2>2 DEF Welcome
  <2>3. CASE NoticeCancel(d)
    BY <2>3 DEF NoticeCancel
  <2>4. CASE AnnounceReconnecting(d)
    BY <2>4 DEF AnnounceReconnecting
  <2>5. CASE Backoff(d)
    BY <2>5 DEF Backoff
  <2>6. QED
    BY <2>1, <2>2, <2>3, <2>4, <2>5
<1>2. sup[d] = from /\ sup' = [sup EXCEPT ![d] = to]
  BY <1>1 DEF Move
<1>3. UNCHANGED <<active, pc, clientVars, failures, fruitless, frameVars>>
  BY DEF Dial, Welcome, NoticeCancel, AnnounceReconnecting, Backoff
<1>4. /\ updates' \in [Dialer -> Seq({"Authenticated", "Reconnecting", "News"})]
      /\ \A e \in Dialer : Len(updates'[e]) <= UpdateCap + 1
  <2>1. CASE Welcome(d)
    BY <2>1, PushStep DEF Welcome
  <2>2. CASE AnnounceReconnecting(d)
    BY <2>2, PushStep DEF AnnounceReconnecting
  <2>3. CASE UNCHANGED updates
    BY <2>3 DEF IInv, TypeOK
  <2>4. QED
    BY <2>1, <2>2, <2>3 DEF Dial, NoticeCancel, Backoff
<1>5. /\ UNCHANGED <<signedIn, status, retry, faults, wanted>>
      /\ pinged' \in [Dialer -> BOOLEAN] /\ silent' \in [Dialer -> BOOLEAN]
  BY DEF Dial, Welcome, NoticeCancel, AnnounceReconnecting, Backoff, IInv, TypeOK
<1> sup' \in [Dialer -> {"off", "dial", "handshake", "up", "lost", "lostUp", "reopen", "backoff"}]
  BY <1>2 DEF IInv, TypeOK
<1>6. TypeOK'
  BY <1>3, <1>4, <1>5 DEF IInv, TypeOK
<1>7. Ownership' /\ AttemptsLeft' /\ Queues'
  BY <1>2, <1>3, SupervisorStep, AttemptsKept, QueuesKept
<1>8. QED
  BY <1>6, <1>7 DEF IInv

\* The keepalive, or a frame from a server that is there.
LEMMA AliveStep ==
  ASSUME IInv, NEW d \in Dialer,
         GoSilent(d) \/ Hear(d) \/ (Keepalive(d) /\ sup' = sup)
  PROVE  IInv'
<1> USE DEF flagVars, clientVars, supVars, aliveVars, frameVars
<1>1. faults' \in 0..MaxFaults
  <2>1. faults' = faults \/ (faults < MaxFaults /\ faults' = faults + 1)
    BY DEF GoSilent, Hear, Keepalive
  <2>2. faults \in 0..MaxFaults /\ MaxFaults \in Nat
    BY LimitAssumption DEF IInv, TypeOK
  <2>3. QED
    BY <2>1, <2>2
<1>2. dying' = dying
  BY DEF GoSilent, Hear, Keepalive, Move, IInv, TypeOK
<1>3. /\ pinged' \in [Dialer -> BOOLEAN] /\ silent' \in [Dialer -> BOOLEAN]
      /\ UNCHANGED <<signedIn, flagVars, retry, pc, clientVars, supVars, outgoing, sent, between, wanted>>
  BY DEF GoSilent, Hear, Keepalive, IInv, TypeOK
<1>4. /\ updates' \in [Dialer -> Seq({"Authenticated", "Reconnecting", "News"})]
      /\ \A e \in Dialer : Len(updates'[e]) <= UpdateCap + 1
  <2>1. CASE Push(d, "News")
    BY <2>1, PushStep
  <2>2. CASE UNCHANGED updates
    BY <2>2 DEF IInv, TypeOK
  <2>3. QED
    BY <2>1, <2>2 DEF GoSilent, Hear, Keepalive
<1>5. TypeOK'
  BY <1>1, <1>2, <1>3, <1>4 DEF IInv, TypeOK
<1>6. QED
  BY <1>2, <1>3, <1>5, Untouched DEF IInv

\* The socket is lost, by a fault or by the keepalive.
LEMMA LossStep ==
  ASSUME IInv, NEW d \in Dialer, Fault(d) \/ (Keepalive(d) /\ sup' # sup)
  PROVE  IInv'
<1> USE DEF flagVars, clientVars, supVars, aliveVars, frameVars
<1>1. PICK from \in {"dial", "handshake", "up"}, to \in {"lost", "lostUp", "off"} : Move(d, from, to)
  BY DEF Fault, Keepalive
<1>2. sup[d] = from /\ sup' = [sup EXCEPT ![d] = to]
  BY <1>1 DEF Move
<1>3. /\ dying' = dying \cup QueuedFor(d)
      /\ UNCHANGED <<signedIn, flagVars, retry, pc, clientVars, failures, fruitless, updates,
                     aliveVars, outgoing, sent, between, wanted>>
  BY DEF Fault, Keepalive
<1>4. faults' \in 0..MaxFaults
  <2>1. faults' = faults \/ (faults < MaxFaults /\ faults' = faults + 1)
    BY DEF Fault, Keepalive
  <2>2. faults \in 0..MaxFaults /\ MaxFaults \in Nat
    BY LimitAssumption DEF IInv, TypeOK
  <2>3. QED
    BY <2>1, <2>2
<1>5. Queues' /\ dying' \subseteq Frame
  BY <1>2, <1>3, QueuesLost
<1>6. TypeOK'
  BY <1>2, <1>3, <1>4, <1>5 DEF IInv, TypeOK
<1>7. Ownership' /\ AttemptsLeft'
  BY <1>2, <1>3, SupervisorStep, AttemptsKept
<1>8. QED
  BY <1>5, <1>6, <1>7 DEF IInv

\* The supervisor deals with a loss.
LEMMA AfterLossStep ==
  ASSUME IInv, NEW d \in Dialer, AfterLoss(d)
  PROVE  IInv'
<1> USE DEF flagVars, clientVars, supVars, aliveVars
<1>1. PICK to \in {"off", "reopen"} :
        /\ sup' = [sup EXCEPT ![d] = to]
        /\ to = "off" => FailuresAfter(d) >= MaxFailures /\ outgoing' = outgoing
        /\ to = "reopen" => /\ FailuresAfter(d) < MaxFailures
                            /\ outgoing' = [outgoing EXCEPT ![d] = <<>>]
  <2>1. CASE FailuresAfter(d) >= MaxFailures
    BY <2>1 DEF AfterLoss
  <2>2. CASE ~(FailuresAfter(d) >= MaxFailures)
    <3>1. failures[d] \in Nat /\ MaxFailures \in Nat
      BY LimitAssumption DEF IInv, TypeOK
    <3> FailuresAfter(d) < MaxFailures
      BY <2>2, <3>1 DEF FailuresAfter
    <3>2. QED
      BY <2>2 DEF AfterLoss, DrainQueued
  <2>3. QED
    BY <2>1, <2>2
<1>2. /\ sup[d] \in {"lost", "lostUp"}
      /\ failures' = [failures EXCEPT ![d] = FailuresAfter(d)]
      /\ fruitless' = [fruitless EXCEPT ![d] = IF sup[d] = "lostUp" THEN 0 ELSE @ + 1]
      /\ UNCHANGED <<signedIn, flagVars, retry, pc, clientVars, updates, aliveVars, sent, dying,
                     between, faults, wanted>>
  BY DEF AfterLoss
<1>3. /\ failures[d] < MaxFailures /\ failures[d] <= fruitless[d] + 1 /\ fruitless[d] <= failures[d]
      /\ failures[d] \in Nat /\ fruitless[d] \in Nat /\ MaxFailures \in Nat \ {0}
  BY <1>2, LimitAssumption DEF IInv, TypeOK, AttemptsLeft
<1>4. /\ failures'[d] = FailuresAfter(d) /\ failures'[d] \in 0..MaxFailures
      /\ fruitless'[d] \in 0..MaxFailures
      /\ failures'[d] <= fruitless'[d] + 1 /\ fruitless'[d] <= failures'[d]
  <2>1. /\ failures'[d] = FailuresAfter(d)
        /\ fruitless'[d] = IF sup[d] = "lostUp" THEN 0 ELSE fruitless[d] + 1
    BY <1>2 DEF IInv, TypeOK
  <2>2. QED
    BY <1>3, <2>1 DEF FailuresAfter
<1>5. \A e \in Dialer : e # d => /\ failures'[e] = failures[e] /\ fruitless'[e] = fruitless[e]
                                 /\ sup'[e] = sup[e]
  BY <1>1, <1>2 DEF IInv, TypeOK
<1>6. /\ outgoing' \in [Dialer -> Seq(Frame)]
      /\ \A e \in Dialer : Len(outgoing'[e]) <= FrameCap
      /\ \A e \in Dialer : \A i \in DOMAIN outgoing'[e] :
           i \in DOMAIN outgoing[e] /\ outgoing'[e][i] = outgoing[e][i] /\ (e = d => to = "off")
  <2>1. CASE to = "off"
    BY <1>1, <2>1 DEF IInv, TypeOK
  <2>2. CASE to = "reopen"
    <3> outgoing' = [outgoing EXCEPT ![d] = <<>>]
      BY <1>1, <2>2
    <3>1. /\ outgoing'[d] = <<>>
          /\ \A e \in Dialer : e # d => outgoing'[e] = outgoing[e]
      BY DEF IInv, TypeOK
    <3>2. outgoing' \in [Dialer -> Seq(Frame)]
      BY DEF IInv, TypeOK
    <3>3. \A e \in Dialer : Len(outgoing'[e]) <= FrameCap
      BY <3>1, EmptyQueue, LimitAssumption DEF IInv, TypeOK
    <3>4. DOMAIN outgoing'[d] = {}
      BY <3>1, EmptyQueue
    <3>5. QED
      BY <3>1, <3>2, <3>3, <3>4
  <2>3. QED
    BY <2>1, <2>2
<1>7. TypeOK'
  <2>1. failures' \in [Dialer -> 0..MaxFailures] /\ fruitless' \in [Dialer -> 0..MaxFailures]
    BY <1>2, <1>4, <1>5 DEF IInv, TypeOK
  <2>2. sup' \in [Dialer -> {"off", "dial", "handshake", "up", "lost", "lostUp", "reopen", "backoff"}]
    BY <1>1 DEF IInv, TypeOK
  <2>3. QED
    BY <1>2, <1>6, <2>1, <2>2 DEF IInv, TypeOK
<1>8. Ownership'
  BY <1>1, <1>2, SupervisorStep
<1>9. AttemptsLeft'
  <2>1. sup'[d] # "off" => failures'[d] < MaxFailures
    BY <1>1, <1>4 DEF IInv, TypeOK
  <2>2. QED
    BY <1>4, <1>5, <2>1 DEF IInv, AttemptsLeft
<1>10. Queues'
  <2> QueuedOnce
    BY DEF IInv, Queues
  <2>1. QueuedOnce'
    <3>1. \A e \in Dialer : \A i, j \in DOMAIN outgoing'[e] :
            outgoing'[e][i] = outgoing'[e][j] => i = j
      BY <1>6 DEF QueuedOnce
    <3>2. \A e, g \in Dialer : \A i \in DOMAIN outgoing'[e] : \A j \in DOMAIN outgoing'[g] :
            outgoing'[e][i] = outgoing'[g][j] => e = g
      BY <1>6 DEF QueuedOnce
    <3>3. \A e \in Dialer : \A i \in DOMAIN outgoing'[e] : outgoing'[e][i] \notin sent'
      BY <1>2, <1>6 DEF QueuedOnce
    <3>4. QED
      BY <3>1, <3>2, <3>3 DEF QueuedOnce
  <2>2. Drained'
    <3> SUFFICES ASSUME NEW e \in Dialer, sup'[e] \notin {"lost", "lostUp", "off"},
                        NEW i \in DOMAIN outgoing'[e]
                 PROVE  outgoing'[e][i] \notin dying'
      BY DEF Drained
    <3>1. e # d
      BY <1>1, <1>6 DEF IInv, TypeOK
    <3>2. QED
      BY <1>2, <1>5, <1>6, <3>1 DEF IInv, Queues, Drained
  <2>3. QED
    BY <1>2, <2>1, <2>2 DEF IInv, Queues, LostFramesStayLost
<1>11. QED
  BY <1>7, <1>8, <1>9, <1>10 DEF IInv
-----------------------------------------------------------------------------

LEMMA NextStep ==
  ASSUME IInv, [Next]_vars
  PROVE  IInv'
<1>1. CASE \E d \in Dialer : SignIn(d) \/ UserConnects(d)
  BY <1>1, SignStep
<1>2. CASE \E h \in Hanger : SignOut(h) \/ UserDisconnects(h)
  BY <1>2, SignStep
<1>3. ASSUME NEW d \in Dialer, Connect(d) PROVE IInv'
  BY <1>3, ConnectStep
<1>4. ASSUME NEW d \in Dialer, Supervise(d) \/ NoticeCancel(d) PROVE IInv'
  BY <1>4, PhaseStep, AfterLossStep DEF Supervise
<1>5. ASSUME NEW d \in Dialer, WriteFrame(d) PROVE IInv'
  BY <1>5, WriteStep
<1>6. ASSUME NEW d \in Dialer, GoSilent(d) \/ Hear(d) \/ Keepalive(d) \/ Fault(d) PROVE IInv'
  BY <1>6, AliveStep, LossStep
<1>7. ASSUME NEW h \in Hanger, HangUp(h) PROVE IInv'
  BY <1>7, HangUpStep
<1>8. ASSUME NEW f \in Frame, QueueFrame(f) PROVE IInv'
  BY <1>8, QueueStep
<1>9. CASE WatchdogTick
  BY <1>9, WatchdogStep
<1>10. CASE UNCHANGED vars
  <2>1. TypeOK'
    BY <1>10 DEF vars, flagVars, clientVars, supVars, aliveVars, frameVars, IInv, TypeOK
  <2>2. QED
    BY <1>10, <2>1, Untouched DEF vars, flagVars, clientVars, supVars, frameVars, IInv
<1>11. QED
  BY <1>1, <1>2, <1>3, <1>4, <1>5, <1>6, <1>7, <1>8, <1>9, <1>10 DEF Next

\* The invariant the theorems below are read from.
THEOREM Invariance == Spec => []IInv
<1>1. Init => IInv
  BY InitIInv
<1>2. IInv /\ [Next]_vars => IInv'
  BY NextStep
<1>3. QED
  BY <1>1, <1>2, PTL DEF Spec

\* However many Connect commands race, one of them owns the lobby connection and
\* its supervisor is the only one running.
THEOREM OneConnectionHolds == Spec => []OneConnection
<1>1. IInv => OneConnection
  BY DEF IInv, Ownership
<1>2. QED
  BY <1>1, Invariance, PTL

\* The client never loses the token of a live connection before it is cancelled.
THEOREM Cancellable == Spec => []LiveIsCancellable
<1>1. IInv => LiveIsCancellable
  BY DEF IInv, Ownership
<1>2. QED
  BY <1>1, Invariance, PTL

\* No frame that was queued when its socket was lost is ever written, whatever
\* the lengths of the queues and however often the connection is replaced.
THEOREM NothingReplayed == Spec => []LostFramesStayLost
<1>1. IInv => LostFramesStayLost
  BY DEF IInv, Queues
<1>2. QED
  BY <1>1, Invariance, PTL

\* A supervisor that reaches its limit has lost at least MaxFailures - 1
\* attempts in a row that never came up.
LEMMA LimitStep ==
  ASSUME IInv, IInv', [Next]_vars
  PROVE  \A d \in Dialer : failures'[d] > failures[d] /\ failures'[d] = MaxFailures
           => fruitless'[d] + 1 >= MaxFailures
<1> SUFFICES ASSUME NEW d \in Dialer, failures'[d] = MaxFailures
             PROVE  fruitless'[d] + 1 >= MaxFailures
  OBVIOUS
<1>1. failures'[d] <= fruitless'[d] + 1 /\ fruitless'[d] \in Nat
  BY DEF IInv, TypeOK, AttemptsLeft
<1>2. QED
  BY <1>1, LimitAssumption

\* A line that drops again and again is not given up on while sessions keep
\* coming up in between, for every limit.
THEOREM GivesUpInVain == Spec => GivesUpOnlyInVain
<1>1. IInv /\ IInv' /\ [Next]_vars =>
        [\A d \in Dialer : failures'[d] > failures[d] /\ failures'[d] = MaxFailures
           => fruitless'[d] + 1 >= MaxFailures]_vars
  BY LimitStep
<1>2. QED
  BY <1>1, Invariance, PTL DEF Spec, GivesUpOnlyInVain
=============================================================================
