--------------------------- MODULE SettingsProofs ---------------------------
(***************************************************************************)
(* Proofs about Settings: for any number of commands, changes, messages    *)
(* and faults, the file never goes back to older settings of those that    *)
(* were loaded, never holds half of a document, and ends up with what the  *)
(* state holds.                                                            *)
(***************************************************************************)
EXTENDS Settings, TLAPS

-----------------------------------------------------------------------------
(* The inductive invariant *)

States == {"idle", "setChat", "select", "arm", "quiet", "persist", "queued", "write", "replace"}
Waiting == {"queued", "write", "replace"}
Writing(t) == pc[t] \in {"write", "replace"}

\* Whoever is in the queue waits or saves, stands there once, and saves only
\* at its head.
Serial ==
  /\ \A i \in DOMAIN queue : pc[queue[i]] \in Waiting
  /\ \A i, j \in DOMAIN queue : queue[i] = queue[j] => i = j
  /\ \A t \in Task : pc[t] \in {"write", "replace"} => Holds(t)

\* What goes back to a Load: the state once the Load is over, the copy it has
\* read before that, and what was taken from the state to be saved.
Origin ==
  /\ settings.loaded <=> up = "ready"
  /\ up \in {"importing", "inspecting"} => copy.loaded
  /\ \A t \in Task : Writing(t) /\ draft[t].loaded => up = "ready"

\* Of what goes back to a Load the file is the oldest ...
Oldest ==
  file.loaded =>
    /\ up = "ready" => file.stamp <= settings.stamp
    /\ up \in {"importing", "inspecting"} => file.stamp <= copy.stamp
    /\ \A t \in Task : Writing(t) /\ draft[t].loaded => file.stamp <= draft[t].stamp

\* ... and the state is the newest.
Newest == \A t \in Task : Writing(t) /\ draft[t].loaded => draft[t].stamp <= settings.stamp

Order == Origin /\ Oldest /\ Newest

IInv == TypeOK /\ Serial /\ Order

-----------------------------------------------------------------------------
(* Facts about settings and queues *)

LEMMA DefaultIsSettings ==
  /\ Default \in SettingsState /\ Default.stamp = 0 /\ ~Default.loaded
  /\ 0 \in 0..MaxMessages
  BY BoundAssumption DEF Default, SettingsState

LEMMA FieldsTyped ==
  ASSUME NEW s \in SettingsState, NEW n \in Nat, NEW m \in 0..MaxMessages
  PROVE  /\ [s EXCEPT !.stamp = n] \in SettingsState
         /\ [s EXCEPT !.stamp = n].stamp = n /\ [s EXCEPT !.stamp = n].loaded = s.loaded
         /\ [s EXCEPT !.theme = n] \in SettingsState /\ [s EXCEPT !.theme = n].loaded = s.loaded
         /\ [s EXCEPT !.option = n, !.marker = m] \in SettingsState
         /\ [s EXCEPT !.option = n, !.marker = m].loaded = s.loaded
  BY DEF SettingsState

\* A change that is emitted leaves settings of the same origin behind, one
\* stamp newer.
LEMMA EmitTyped ==
  ASSUME settings \in SettingsState, NEW s \in SettingsState, s.loaded = settings.loaded, Emit(s)
  PROVE  /\ settings' \in SettingsState /\ settings'.stamp = settings.stamp + 1
         /\ settings'.loaded = settings.loaded
<1>1. settings' = [s EXCEPT !.stamp = settings.stamp + 1] /\ settings.stamp + 1 \in Nat
  BY DEF Emit, SettingsState
<1>2. 0 \in 0..MaxMessages
  BY BoundAssumption
<1>3. QED
  BY <1>1, <1>2, FieldsTyped

LEMMA AskedTyped ==
  ASSUME changes \in 0..MaxChanges, Asked
  PROVE  changes' \in 0..MaxChanges /\ changes' \in Nat
  BY BoundAssumption DEF Asked

LEMMA FaultTyped ==
  ASSUME faults \in 0..MaxFaults, Fault
  PROVE  faults' \in 0..MaxFaults
  BY BoundAssumption DEF Fault

LEMMA StatesOfPC == IInv => pc \in [Task -> States]
BY DEF IInv, TypeOK, States

\* A step of neither state, copy nor file, which puts nobody to writing.
LEMMA OrderKept ==
  ASSUME IInv, UNCHANGED <<up, copy, settings, file>>,
         \A u \in Task : Writing(u)' => Writing(u) /\ draft'[u] = draft[u]
  PROVE  Order'
BY DEF IInv, Order, Origin, Oldest, Newest

\* A change of the state.
LEMMA OrderEmit ==
  ASSUME IInv, UNCHANGED <<up, copy, file>>, settings' \in SettingsState,
         settings'.stamp = settings.stamp + 1, settings'.loaded = settings.loaded,
         \A u \in Task : Writing(u)' => Writing(u) /\ draft'[u] = draft[u]
  PROVE  Order'
<1>1. /\ file.stamp \in Nat /\ settings.stamp \in Nat /\ settings'.stamp \in Nat
      /\ \A u \in Task : draft[u].stamp \in Nat
  BY DEF IInv, TypeOK, SettingsState
<1>2. QED
  BY <1>1 DEF IInv, Order, Origin, Oldest, Newest

\* The queue as a sequence: one more at its end, or without its head.
LEMMA QueueGrows ==
  ASSUME NEW q \in Seq(Task), NEW t \in Task
  PROVE  /\ Append(q, t) \in Seq(Task)
         /\ DOMAIN Append(q, t) = DOMAIN q \cup {Len(q) + 1}
         /\ Len(q) + 1 \notin DOMAIN q
         /\ \A i \in DOMAIN q : Append(q, t)[i] = q[i]
         /\ Append(q, t)[Len(q) + 1] = t
         /\ q # <<>> => Append(q, t) # <<>> /\ Head(Append(q, t)) = Head(q)
<1>1. DOMAIN q = 1..Len(q) /\ Len(q) \in Nat
  OBVIOUS
<1>2. Append(q, t) \in Seq(Task) /\ Len(Append(q, t)) = Len(q) + 1
  OBVIOUS
<1>3. DOMAIN Append(q, t) = 1..(Len(q) + 1)
  BY <1>2
<1>4. 1..(Len(q) + 1) = 1..Len(q) \cup {Len(q) + 1} /\ Len(q) + 1 \notin 1..Len(q)
  BY <1>1
<1>5. Append(q, t)[Len(q) + 1] = t /\ \A i \in DOMAIN q : Append(q, t)[i] = q[i]
  BY <1>1
<1>6. ASSUME q # <<>> PROVE Append(q, t) # <<>> /\ Head(Append(q, t)) = Head(q)
  <2>1. 1 \in DOMAIN q /\ Head(q) = q[1]
    BY <1>1, <1>6
  <2>2. Head(Append(q, t)) = Append(q, t)[1] /\ Append(q, t) # <<>>
    BY <1>1, <1>2
  <2>3. QED
    BY <1>5, <2>1, <2>2
<1>7. QED
  BY <1>1, <1>2, <1>3, <1>4, <1>5, <1>6

LEMMA QueueShrinks ==
  ASSUME NEW q \in Seq(Task), q # <<>>
  PROVE  /\ Tail(q) \in Seq(Task)
         /\ 1 \in DOMAIN q /\ Head(q) = q[1]
         /\ \A i \in DOMAIN Tail(q) : i + 1 \in DOMAIN q /\ i + 1 # 1 /\ Tail(q)[i] = q[i + 1] /\ i \in Int
<1>1. DOMAIN q = 1..Len(q) /\ Len(q) \in Nat \ {0}
  OBVIOUS
<1>2. Tail(q) \in Seq(Task) /\ Len(Tail(q)) = Len(q) - 1
  OBVIOUS
<1>3. DOMAIN Tail(q) = 1..(Len(q) - 1)
  BY <1>2
<1>4. \A i \in 1..(Len(q) - 1) : Tail(q)[i] = q[i + 1]
  BY <1>1
<1>5. QED
  BY <1>1, <1>2, <1>3, <1>4

\* A task that ends leaves the queue, if it was at its head.
LEMMA FinishSerial ==
  ASSUME IInv, NEW t \in Task, Finish(t), pc[t] \in {"quiet", "write", "replace"}
  PROVE  queue' \in Seq(Task) /\ Serial'
<1>1. /\ queue \in Seq(Task) /\ pc' = [pc EXCEPT ![t] = "idle"] /\ pc \in [Task -> States]
      /\ queue' = IF Holds(t) THEN Tail(queue) ELSE queue
  BY StatesOfPC DEF IInv, TypeOK, Finish, States
<1>2. CASE pc[t] = "quiet"
  <2>1. \A i \in DOMAIN queue : queue[i] # t
    BY <1>2 DEF IInv, Serial, Waiting
  <2>2. ~Holds(t)
    BY <1>1, <2>1, QueueShrinks DEF Holds
  <2>3. QED
    BY <1>1, <1>2, <2>1, <2>2 DEF IInv, Serial, Holds
<1>3. CASE pc[t] \in {"write", "replace"}
  <2>1. Holds(t) /\ queue # <<>> /\ queue[1] = t /\ 1 \in DOMAIN queue
    BY <1>1, <1>3, QueueShrinks DEF IInv, Serial, Holds
  <2>2. queue' = Tail(queue) /\ queue' \in Seq(Task)
    BY <1>1, <2>1, QueueShrinks
  <2>3. ASSUME NEW i \in DOMAIN queue' PROVE pc'[queue'[i]] \in Waiting
    <3>1. i + 1 \in DOMAIN queue /\ i + 1 # 1 /\ queue'[i] = queue[i + 1]
      BY <1>1, <2>1, <2>2, QueueShrinks
    <3>2. queue[i + 1] # t /\ pc[queue[i + 1]] \in Waiting /\ queue[i + 1] \in Task
      BY <1>1, <2>1, <3>1 DEF IInv, Serial
    <3>3. QED
      BY <1>1, <3>1, <3>2
  <2>4. ASSUME NEW i \in DOMAIN queue', NEW j \in DOMAIN queue', queue'[i] = queue'[j] PROVE i = j
    <3>1. /\ i + 1 \in DOMAIN queue /\ queue'[i] = queue[i + 1] /\ i \in Int
          /\ j + 1 \in DOMAIN queue /\ queue'[j] = queue[j + 1] /\ j \in Int
      BY <1>1, <2>1, <2>2, QueueShrinks
    <3>2. i + 1 = j + 1
      BY <2>4, <3>1 DEF IInv, Serial
    <3>3. QED
      BY <3>1, <3>2
  <2>5. ASSUME NEW u \in Task, pc'[u] \in {"write", "replace"} PROVE FALSE
    <3>1. u # t /\ pc[u] \in {"write", "replace"}
      BY <1>1, <2>5
    <3>2. QED
      BY <2>1, <3>1 DEF IInv, Serial, Holds
  <2>6. QED
    BY <2>2, <2>3, <2>4, <2>5 DEF Serial
<1>4. QED
  BY <1>2, <1>3

\* A step that is not about the queue leaves it in order.
LEMMA OtherSerial ==
  ASSUME IInv, NEW t \in Task, pc[t] \notin Waiting, NEW s \in States,
         s \notin {"write", "replace"}, pc' = [pc EXCEPT ![t] = s], queue' = queue
  PROVE  Serial'
<1>1. pc \in [Task -> States] /\ queue \in Seq(Task)
  BY StatesOfPC DEF IInv, TypeOK, States
<1>2. \A i \in DOMAIN queue : queue[i] \in Task /\ queue[i] # t
  BY <1>1 DEF IInv, Serial
<1>3. QED
  BY <1>1, <1>2 DEF IInv, Serial, Holds

-----------------------------------------------------------------------------
(* Init and the steps *)

LEMMA InitInv == Init => IInv
<1> SUFFICES ASSUME Init PROVE IInv
  OBVIOUS
<1>1. TypeOK
  <2>1. [Default EXCEPT !.loaded = TRUE] \in SettingsState
    BY DefaultIsSettings DEF SettingsState
  <2>2. QED
    BY <2>1, DefaultIsSettings, BoundAssumption DEF Init, TypeOK
<1>2. Serial /\ Order
  BY DEF Init, Serial, Order, Origin, Oldest, Newest, Writing, Default
<1>3. QED
  BY <1>1, <1>2 DEF IInv

\* The copy is at least as new as what was read, and counts as loaded.
LEMMA DiscoverTyped ==
  ASSUME changes \in 0..MaxChanges, NEW s \in SettingsState, Discover(s)
  PROVE  /\ up' \in {"importing", "inspecting"}
         /\ copy' \in SettingsState /\ copy'.loaded /\ s.stamp <= copy'.stamp
         /\ changes' \in 0..MaxChanges
         /\ up' = "inspecting" => copy' = [s EXCEPT !.loaded = TRUE]
<1>1. s.stamp \in Nat /\ s.stamp + 1 \in Nat /\ s.stamp <= s.stamp + 1
  BY DEF SettingsState
<1>2. CASE up' = "inspecting" /\ copy' = [s EXCEPT !.loaded = TRUE] /\ UNCHANGED changes
  <2>1. /\ [s EXCEPT !.loaded = TRUE] \in SettingsState
        /\ [s EXCEPT !.loaded = TRUE].stamp = s.stamp
        /\ [s EXCEPT !.loaded = TRUE].loaded = TRUE
    BY DEF SettingsState
  <2>2. s.stamp <= s.stamp
    BY <1>1
  <2>3. QED
    BY <1>2, <2>1, <2>2
<1>3. CASE /\ up' = "importing" /\ Asked
           /\ copy' = [s EXCEPT !.loaded = TRUE, !.theme = changes', !.stamp = s.stamp + 1]
  <2>1. changes' \in 0..MaxChanges /\ changes' \in Nat
    BY <1>3, AskedTyped
  <2>2. QED
    BY <1>1, <1>3, <2>1 DEF SettingsState
<1>4. QED
  BY <1>2, <1>3 DEF Discover

LEMMA LoadReadsInv ==
  ASSUME IInv, LoadReads
  PROVE  IInv'
<1>1. TypeOK'
  <2>1. copy' \in SettingsState /\ changes' \in 0..MaxChanges /\ up' \in {"importing", "inspecting"}
    BY DiscoverTyped DEF IInv, TypeOK, LoadReads
  <2>2. QED
    BY <2>1 DEF IInv, TypeOK, LoadReads, taskVars
<1>2. Serial'
  BY DEF IInv, Serial, Holds, LoadReads, taskVars
<1>3. Order'
  <2>1. /\ up' \in {"importing", "inspecting"} /\ copy'.loaded /\ file.stamp <= copy'.stamp
        /\ up = "reading" /\ UNCHANGED <<settings, file, taskVars>>
    BY DiscoverTyped DEF IInv, TypeOK, LoadReads
  <2>2. ~settings.loaded /\ \A u \in Task : Writing(u) => ~draft[u].loaded
    BY <2>1 DEF IInv, Order, Origin
  <2>3. QED
    BY <2>1, <2>2 DEF Order, Origin, Oldest, Newest, Writing, taskVars
<1>4. QED
  BY <1>1, <1>2, <1>3 DEF IInv

LEMMA LoadFailsInv ==
  ASSUME IInv, LoadFails
  PROVE  IInv'
<1>1. TypeOK'
  <2>1. [Default EXCEPT !.stamp = file.stamp] \in SettingsState
    BY DefaultIsSettings, FieldsTyped DEF IInv, TypeOK, SettingsState
  <2>2. copy' \in SettingsState /\ changes' \in 0..MaxChanges /\ up' \in {"importing", "inspecting"}
    BY <2>1, DiscoverTyped DEF IInv, TypeOK, LoadFails
  <2>3. QED
    BY <2>2, FaultTyped DEF IInv, TypeOK, LoadFails, taskVars
<1>2. Serial'
  BY DEF IInv, Serial, Holds, LoadFails, taskVars
<1>3. Order'
  <2>1. /\ up' \in {"importing", "inspecting"} /\ copy'.loaded /\ file.stamp <= copy'.stamp
        /\ up = "reading" /\ UNCHANGED <<settings, file, taskVars>>
    <3>1. /\ [Default EXCEPT !.stamp = file.stamp] \in SettingsState
          /\ [Default EXCEPT !.stamp = file.stamp].stamp = file.stamp
      BY DefaultIsSettings, FieldsTyped DEF IInv, TypeOK, SettingsState
    <3>2. QED
      BY <3>1, DiscoverTyped DEF IInv, TypeOK, LoadFails
  <2>2. ~settings.loaded /\ \A u \in Task : Writing(u) => ~draft[u].loaded
    BY <2>1 DEF IInv, Order, Origin
  <2>3. QED
    BY <2>1, <2>2 DEF Order, Origin, Oldest, Newest, Writing, taskVars
<1>4. QED
  BY <1>1, <1>2, <1>3 DEF IInv

LEMMA LoadSavesInv ==
  ASSUME IInv, LoadSaves
  PROVE  IInv'
<1>1. TypeOK'
  BY DEF IInv, TypeOK, LoadSaves, taskVars
<1>2. Serial'
  BY DEF IInv, Serial, Holds, LoadSaves, taskVars
<1>3. Order'
  <2>1. up = "importing" /\ \A u \in Task : Writing(u) => ~draft[u].loaded
    BY DEF IInv, Order, Origin, LoadSaves
  <2>2. copy.stamp <= copy.stamp /\ copy.loaded
    BY <2>1 DEF IInv, TypeOK, SettingsState, Order, Origin
  <2>3. QED
    BY <2>1, <2>2 DEF IInv, Order, Origin, Oldest, Newest, Writing, LoadSaves, taskVars
<1>4. QED
  BY <1>1, <1>2, <1>3 DEF IInv

LEMMA LoadSaveFailsInv ==
  ASSUME IInv, LoadSaveFails
  PROVE  IInv'
<1>1. TypeOK'
  BY FaultTyped DEF IInv, TypeOK, LoadSaveFails, taskVars
<1>2. Serial'
  BY DEF IInv, Serial, Holds, LoadSaveFails, taskVars
<1>3. Order'
  BY DEF IInv, Order, Origin, Oldest, Newest, Writing, LoadSaveFails, taskVars
<1>4. QED
  BY <1>1, <1>2, <1>3 DEF IInv

LEMMA LoadEndsInv ==
  ASSUME IInv, LoadEnds
  PROVE  IInv'
<1>1. TypeOK'
  BY DefaultIsSettings DEF IInv, TypeOK, LoadEnds, taskVars
<1>2. Serial'
  BY DEF IInv, Serial, Holds, LoadEnds, taskVars
<1>3. Order'
  <2>1. up = "inspecting" /\ \A u \in Task : Writing(u) => ~draft[u].loaded
    BY DEF IInv, Order, Origin, LoadEnds
  <2>2. QED
    BY <2>1 DEF IInv, Order, Origin, Oldest, Newest, Writing, LoadEnds, taskVars
<1>4. QED
  BY <1>1, <1>2, <1>3 DEF IInv

LEMMA CrashInv ==
  ASSUME IInv, Crash
  PROVE  IInv'
<1>1. TypeOK'
  BY FaultTyped, DefaultIsSettings DEF IInv, TypeOK, Crash
<1>2. Serial' /\ Order'
  BY DEF Serial, Order, Origin, Oldest, Newest, Writing, Crash, Default
<1>3. QED
  BY <1>1, <1>2 DEF IInv

LEMMA MessageArrivesInv ==
  ASSUME IInv, MessageArrives
  PROVE  IInv'
<1>1. TypeOK'
  <2>1. newest' \in 0..MaxMessages
    BY BoundAssumption DEF IInv, TypeOK, MessageArrives
  <2>2. QED
    BY <2>1 DEF IInv, TypeOK, MessageArrives, taskVars, loadVars
<1>2. Serial'
  BY DEF IInv, Serial, Holds, MessageArrives, taskVars
<1>3. Order'
  BY OrderKept DEF MessageArrives, Writing, taskVars, loadVars
<1>4. QED
  BY <1>1, <1>2, <1>3 DEF IInv

LEMMA MirrorInv ==
  ASSUME IInv, Mirror
  PROVE  IInv'
<1>1. TypeOK'
  <2>1. settings.marker \in 0..MaxMessages
    BY DEF IInv, TypeOK, SettingsState
  <2>2. QED
    BY <2>1 DEF IInv, TypeOK, Mirror, taskVars, loadVars
<1>2. Serial'
  BY DEF IInv, Serial, Holds, Mirror, taskVars
<1>3. Order'
  BY OrderKept DEF Mirror, Writing, taskVars, loadVars
<1>4. QED
  BY <1>1, <1>2, <1>3 DEF IInv

LEMMA SetThemeInv ==
  ASSUME IInv, NEW t \in Task, SetTheme(t)
  PROVE  IInv'
<1>1. /\ settings' \in SettingsState /\ settings'.stamp = settings.stamp + 1
      /\ settings'.loaded = settings.loaded
  <2>1. /\ [settings EXCEPT !.theme = changes'] \in SettingsState
        /\ [settings EXCEPT !.theme = changes'].loaded = settings.loaded
    BY AskedTyped, FieldsTyped, DefaultIsSettings DEF IInv, TypeOK, SetTheme
  <2>2. QED
    BY <2>1, EmitTyped DEF IInv, TypeOK, SetTheme
<1>2. TypeOK'
  BY <1>1, AskedTyped, DefaultIsSettings DEF IInv, TypeOK, SetTheme, Goto, loadVars
<1>3. Serial'
  BY StatesOfPC, OtherSerial DEF SetTheme, Goto, Waiting, States
<1>4. Order'
  BY <1>1, StatesOfPC, OrderEmit DEF SetTheme, Goto, Writing, States, loadVars
<1>5. QED
  BY <1>2, <1>3, <1>4 DEF IInv

LEMMA SendChatInv ==
  ASSUME IInv, NEW t \in Task, SendChat(t)
  PROVE  IInv'
<1>1. TypeOK'
  <2>1. [Default EXCEPT !.option = changes', !.marker = shown] \in SettingsState
    BY AskedTyped, FieldsTyped, DefaultIsSettings DEF IInv, TypeOK, SendChat
  <2>2. QED
    BY <2>1, AskedTyped DEF IInv, TypeOK, SendChat, Goto, loadVars
<1>2. Serial'
  BY StatesOfPC, OtherSerial DEF SendChat, Goto, Waiting, States
<1>3. Order'
  BY StatesOfPC, OrderKept DEF SendChat, Goto, Writing, States, loadVars
<1>4. QED
  BY <1>1, <1>2, <1>3 DEF IInv

LEMMA SelectChannelInv ==
  ASSUME IInv, NEW t \in Task, SelectChannel(t)
  PROVE  IInv'
<1>1. TypeOK'
  <2>1. [Default EXCEPT !.option = settings.option, !.marker = newest] \in SettingsState
    BY FieldsTyped, DefaultIsSettings DEF IInv, TypeOK, SettingsState
  <2>2. QED
    BY <2>1, AskedTyped DEF IInv, TypeOK, SelectChannel, Goto, loadVars
<1>2. Serial'
  BY StatesOfPC, OtherSerial DEF SelectChannel, Goto, Waiting, States
<1>3. Order'
  BY StatesOfPC, OrderKept DEF SelectChannel, Goto, Writing, States, loadVars
<1>4. QED
  BY <1>1, <1>2, <1>3 DEF IInv

LEMMA SetChatInv ==
  ASSUME IInv, NEW t \in Task, SetChat(t)
  PROVE  IInv'
<1>1. /\ settings' \in SettingsState /\ settings'.stamp = settings.stamp + 1
      /\ settings'.loaded = settings.loaded
  <2>1. draft[t] \in SettingsState /\ draft[t].option \in Nat /\ draft[t].marker \in 0..MaxMessages
    BY DEF IInv, TypeOK, SettingsState
  <2>2. /\ [settings EXCEPT !.option = draft[t].option, !.marker = draft[t].marker] \in SettingsState
        /\ [settings EXCEPT !.option = draft[t].option, !.marker = draft[t].marker].loaded = settings.loaded
    BY <2>1 DEF IInv, TypeOK, SettingsState
  <2>3. QED
    BY <2>2, EmitTyped DEF IInv, TypeOK, SetChat
<1>2. TypeOK'
  BY <1>1, AskedTyped, DefaultIsSettings DEF IInv, TypeOK, SetChat, Goto, loadVars
<1>3. Serial'
  BY StatesOfPC, OtherSerial DEF SetChat, Goto, Waiting, States
<1>4. Order'
  BY <1>1, StatesOfPC, OrderEmit DEF SetChat, Goto, Writing, States, loadVars
<1>5. QED
  BY <1>2, <1>3, <1>4 DEF IInv

LEMMA MarkReadInv ==
  ASSUME IInv, NEW t \in Task, MarkRead(t)
  PROVE  IInv'
<1>1. /\ settings' \in SettingsState /\ settings'.stamp = settings.stamp + 1
      /\ settings'.loaded = settings.loaded
  <2>1. draft[t] \in SettingsState /\ draft[t].option \in Nat /\ draft[t].marker \in 0..MaxMessages
    BY DEF IInv, TypeOK, SettingsState
  <2>2. /\ [settings EXCEPT !.option = draft[t].option, !.marker = draft[t].marker] \in SettingsState
        /\ [settings EXCEPT !.option = draft[t].option, !.marker = draft[t].marker].loaded = settings.loaded
    BY <2>1 DEF IInv, TypeOK, SettingsState
  <2>3. QED
    BY <2>2, EmitTyped DEF IInv, TypeOK, MarkRead
<1>2. TypeOK'
  BY <1>1, AskedTyped, DefaultIsSettings DEF IInv, TypeOK, MarkRead, Goto, loadVars
<1>3. Serial'
  BY StatesOfPC, OtherSerial DEF MarkRead, Goto, Waiting, States
<1>4. Order'
  BY <1>1, StatesOfPC, OrderEmit DEF MarkRead, Goto, Writing, States, loadVars
<1>5. QED
  BY <1>2, <1>3, <1>4 DEF IInv

LEMMA ArmTimerInv ==
  ASSUME IInv, NEW t \in Task, ArmTimer(t)
  PROVE  IInv'
<1>1. TypeOK'
  BY DEF IInv, TypeOK, ArmTimer, Goto, loadVars
<1>2. Serial'
  BY StatesOfPC, OtherSerial DEF ArmTimer, Goto, Waiting, States
<1>3. Order'
  BY StatesOfPC, OrderKept DEF ArmTimer, Goto, Writing, States, loadVars
<1>4. QED
  BY <1>1, <1>2, <1>3 DEF IInv

LEMMA TimerFiresInv ==
  ASSUME IInv, NEW t \in Task, TimerFires(t)
  PROVE  IInv'
<1>1. TypeOK'
  BY DEF IInv, TypeOK, TimerFires, Goto, loadVars
<1>2. Serial'
  BY StatesOfPC, OtherSerial DEF TimerFires, Goto, Waiting, States
<1>3. Order'
  BY StatesOfPC, OrderKept DEF TimerFires, Goto, Writing, States, loadVars
<1>4. QED
  BY <1>1, <1>2, <1>3 DEF IInv

LEMMA HangUpInv ==
  ASSUME IInv, NEW t \in Task, HangUp(t)
  PROVE  IInv'
<1>1. TypeOK'
  BY DEF IInv, TypeOK, HangUp, Goto, loadVars
<1>2. Serial'
  BY StatesOfPC, OtherSerial DEF HangUp, Goto, Waiting, States
<1>3. Order'
  BY StatesOfPC, OrderKept DEF HangUp, Goto, Writing, States, loadVars
<1>4. QED
  BY <1>1, <1>2, <1>3 DEF IInv

LEMMA TimerOvertakenInv ==
  ASSUME IInv, NEW t \in Task, TimerOvertaken(t)
  PROVE  IInv'
<1>1. TypeOK' /\ Serial'
  <2>1. queue' \in Seq(Task) /\ Serial'
    BY FinishSerial DEF TimerOvertaken
  <2>2. QED
    BY <2>1, DefaultIsSettings DEF IInv, TypeOK, TimerOvertaken, Finish, loadVars
<1>2. Order'
  BY StatesOfPC, OrderKept DEF TimerOvertaken, Finish, Writing, States, loadVars
<1>3. QED
  BY <1>1, <1>2 DEF IInv

LEMMA JoinQueueInv ==
  ASSUME IInv, NEW t \in Task, JoinQueue(t)
  PROVE  IInv'
<1>1. TypeOK'
  <2>1. queue' \in Seq(Task)
    BY QueueGrows DEF JoinQueue, IInv, TypeOK
  <2>2. QED
    BY <2>1 DEF IInv, TypeOK, JoinQueue, Goto, loadVars
<1>2. Serial'
  <2>1. /\ queue \in Seq(Task) /\ pc \in [Task -> States] /\ pc[t] = "persist"
        /\ queue' = Append(queue, t) /\ pc' = [pc EXCEPT ![t] = "queued"]
    BY StatesOfPC DEF IInv, TypeOK, JoinQueue, Goto, States
  <2>2. \A i \in DOMAIN queue : queue[i] \in Task /\ queue[i] # t /\ pc[queue[i]] \in Waiting
    BY <2>1 DEF IInv, Serial, Waiting
  <2>3. \A i \in DOMAIN queue' : pc'[queue'[i]] \in Waiting
    BY <2>1, <2>2, QueueGrows DEF Waiting
  <2>4. \A i, j \in DOMAIN queue' : queue'[i] = queue'[j] => i = j
    BY <2>1, <2>2, QueueGrows DEF IInv, Serial
  <2>5. \A u \in Task : pc'[u] \in {"write", "replace"} => Holds(u)'
    BY <2>1, QueueGrows DEF IInv, Serial, Holds
  <2>6. QED
    BY <2>3, <2>4, <2>5 DEF Serial
<1>3. Order'
  BY StatesOfPC, OrderKept DEF JoinQueue, Goto, Writing, States, loadVars
<1>4. QED
  BY <1>1, <1>2, <1>3 DEF IInv

LEMMA ReadSettingsInv ==
  ASSUME IInv, NEW t \in Task, ReadSettings(t)
  PROVE  IInv'
<1>1. TypeOK'
  BY DEF IInv, TypeOK, ReadSettings, Goto, loadVars
<1>2. Serial'
  <2>1. /\ queue \in Seq(Task) /\ pc \in [Task -> States] /\ queue' = queue
        /\ \E s \in {"write", "replace"} : pc' = [pc EXCEPT ![t] = s]
        /\ Holds(t)
    BY StatesOfPC DEF IInv, TypeOK, Serial, ReadSettings, Goto, States
  <2>2. QED
    BY <2>1 DEF IInv, Serial, Holds, Waiting
<1>3. Order'
  <2>1. /\ pc \in [Task -> States] /\ draft \in [Task -> SettingsState]
        /\ pc' = [pc EXCEPT ![t] = "write"] /\ draft' = [draft EXCEPT ![t] = settings]
        /\ UNCHANGED <<up, copy, settings, file>>
    BY StatesOfPC DEF IInv, TypeOK, ReadSettings, Goto, loadVars
  <2>2. settings.stamp <= settings.stamp
    BY DEF IInv, TypeOK, SettingsState
  <2>3. QED
    BY <2>1, <2>2 DEF IInv, Order, Origin, Oldest, Newest, Writing
<1>4. QED
  BY <1>1, <1>2, <1>3 DEF IInv

LEMMA WriteTemporaryInv ==
  ASSUME IInv, NEW t \in Task, WriteTemporary(t)
  PROVE  IInv'
<1>1. TypeOK'
  BY DEF IInv, TypeOK, WriteTemporary, Goto, loadVars
<1>2. Serial'
  <2>1. /\ queue \in Seq(Task) /\ pc \in [Task -> States] /\ queue' = queue
        /\ \E s \in {"write", "replace"} : pc' = [pc EXCEPT ![t] = s]
        /\ Holds(t)
    BY StatesOfPC DEF IInv, TypeOK, Serial, WriteTemporary, Goto, States
  <2>2. QED
    BY <2>1 DEF IInv, Serial, Holds, Waiting
<1>3. Order'
  BY StatesOfPC, OrderKept DEF WriteTemporary, Goto, Writing, States, loadVars
<1>4. QED
  BY <1>1, <1>2, <1>3 DEF IInv

LEMMA ReplaceInv ==
  ASSUME IInv, NEW t \in Task, Replace(t)
  PROVE  IInv'
<1>1. TypeOK' /\ Serial'
  <2>1. queue' \in Seq(Task) /\ Serial'
    BY FinishSerial DEF Replace
  <2>2. QED
    BY <2>1, DefaultIsSettings DEF IInv, TypeOK, Replace, Finish, loadVars
<1>2. Order'
  <2>1. /\ \A u \in Task : ~Writing(u)'
        /\ Writing(t) /\ file' = draft[t] /\ UNCHANGED <<up, copy, settings>>
    BY StatesOfPC DEF IInv, Serial, Holds, Replace, Finish, Writing, States, loadVars
  <2>2. draft[t].loaded => up = "ready" /\ draft[t].stamp <= settings.stamp
    BY <2>1 DEF IInv, Order, Origin, Newest
  <2>3. QED
    BY <2>1, <2>2 DEF IInv, Order, Origin, Oldest, Newest
<1>3. QED
  BY <1>1, <1>2 DEF IInv

LEMMA SaveFailsInv ==
  ASSUME IInv, NEW t \in Task, SaveFails(t)
  PROVE  IInv'
<1>1. TypeOK' /\ Serial'
  <2>1. queue' \in Seq(Task) /\ Serial'
    BY FinishSerial DEF SaveFails
  <2>2. QED
    BY <2>1, FaultTyped, DefaultIsSettings DEF IInv, TypeOK, SaveFails, Finish, loadVars
<1>2. Order'
  BY StatesOfPC, OrderKept DEF SaveFails, Finish, Writing, States, loadVars
<1>3. QED
  BY <1>1, <1>2 DEF IInv

-----------------------------------------------------------------------------
(* The specification *)

LEMMA StutterInv ==
  ASSUME IInv, UNCHANGED vars
  PROVE  IInv'
<1>1. TypeOK' /\ Serial'
  BY DEF IInv, TypeOK, Serial, Holds, vars, taskVars, loadVars
<1>2. Order'
  BY OrderKept DEF Writing, vars, taskVars, loadVars
<1>3. QED
  BY <1>1, <1>2 DEF IInv

LEMMA NextInv == IInv /\ [Next]_vars => IInv'
<1> SUFFICES ASSUME IInv, [Next]_vars PROVE IInv'
  OBVIOUS
<1>1. CASE LoadReads \/ LoadFails \/ LoadSaves \/ LoadSaveFails \/ LoadEnds
  BY <1>1, LoadReadsInv, LoadFailsInv, LoadSavesInv, LoadSaveFailsInv, LoadEndsInv
<1>2. CASE Crash \/ MessageArrives \/ Mirror
  BY <1>2, CrashInv, MessageArrivesInv, MirrorInv
<1>3. ASSUME NEW t \in Task, SetTheme(t) \/ SendChat(t) \/ SelectChannel(t) \/ HangUp(t) PROVE IInv'
  BY <1>3, SetThemeInv, SendChatInv, SelectChannelInv, HangUpInv
<1>4. ASSUME NEW t \in Task, Work(t) PROVE IInv'
  BY <1>4, SetChatInv, MarkReadInv, ArmTimerInv, TimerOvertakenInv, TimerFiresInv,
     JoinQueueInv, ReadSettingsInv, WriteTemporaryInv, ReplaceInv DEF Work
<1>5. ASSUME NEW t \in Task, SaveFails(t) PROVE IInv'
  BY <1>5, SaveFailsInv
<1>6. CASE UNCHANGED vars
  BY <1>6, StutterInv
<1>7. QED
  BY <1>1, <1>2, <1>3, <1>4, <1>5, <1>6 DEF Next

Forward == file' \in SettingsState /\ (file.loaded /\ file'.loaded => file'.stamp >= file.stamp)

\* Of all steps only the end of a save changes the file, and to no older state.
LEMMA NextForward == IInv /\ [Next]_vars => Forward
<1> SUFFICES ASSUME IInv, [Next]_vars PROVE Forward
  OBVIOUS
<1>1. /\ file \in SettingsState /\ copy \in SettingsState /\ file.stamp \in Nat /\ copy.stamp \in Nat
      /\ \A t \in Task : draft[t] \in SettingsState /\ draft[t].stamp \in Nat
  BY DEF IInv, TypeOK, SettingsState
<1>2. ASSUME NEW t \in Task, Replace(t) PROVE Forward
  <2>1. Writing(t) /\ file' = draft[t]
    BY <1>2 DEF Replace, Writing
  <2>2. QED
    BY <1>1, <2>1 DEF Forward, IInv, Order, Oldest
<1>3. CASE LoadSaves
  BY <1>1, <1>3 DEF Forward, LoadSaves, IInv, Order, Oldest
<1>4. CASE file' = file
  BY <1>1, <1>4 DEF Forward
<1>5. file' = file \/ LoadSaves \/ \E t \in Task : Replace(t)
  BY DEF Next, LoadReads, LoadFails, LoadSaveFails, LoadEnds, Crash, MessageArrives, Mirror, SetTheme,
     SendChat, SelectChannel, HangUp, Work, SetChat, MarkRead, ArmTimer, TimerOvertaken, TimerFires,
     JoinQueue, ReadSettings, WriteTemporary, SaveFails, vars
<1>6. QED
  BY <1>2, <1>3, <1>4, <1>5

\* The variables keep their types, for any number of commands, changes and
\* faults.
THEOREM SettingsTypeCorrect == Spec => []TypeOK
<1>1. IInv => TypeOK
  BY DEF IInv
<1>2. QED
  BY <1>1, InitInv, NextInv, PTL DEF Spec

\* Of settings that were loaded no save puts older ones over newer ones, nor
\* half a document over a whole one (settings_file.rs, write_atomically;
\* services/settings.rs, Load and persist), whenever the client dies and however
\* many saves queue, those of the commands that run before the Load is over
\* included.
THEOREM SavesGoForward == Spec => FileNeverGoesBack
<1>1. IInv /\ [Next]_vars =>
        [file' \in SettingsState /\ (file.loaded /\ file'.loaded => file'.stamp >= file.stamp)]_vars
  BY NextForward DEF Forward
<1>2. QED
  BY <1>1, InitInv, NextInv, PTL DEF Spec, FileNeverGoesBack

-----------------------------------------------------------------------------
(* Why the file catches up *)

\* A task that will still bring the file up to what the state is now.
Saver(t) ==
  \/ pc[t] \in {"arm", "persist", "queued"}
  \/ pc[t] = "quiet" /\ latest = t
  \/ pc[t] \in {"write", "replace"} /\ draft[t] = settings

\* What neither the file holds nor a save will bring it has somebody who will
\* come after; a save of older settings counts on it even while the last one
\* failed, as its own success makes the failure forgotten. A save of settings
\* that were not loaded shows in the file.
CaughtUp ==
  \/ \E t \in Task : Saver(t)
  \/ /\ saved /\ file.loaded => file = settings
     /\ \A t \in Task : Writing(t) => ~draft[t].loaded

\* The Load has read, or saved, what the file holds.
CopyIsFile == saved /\ file.loaded => file = copy

CatchingUp ==
  /\ up = "inspecting" => CopyIsFile
  /\ up = "ready" => CaughtUp

\* A step that is not the Load's keeps what the Load has read.
LEMMA CommandCatchesUp ==
  ASSUME CatchingUp, UNCHANGED <<up, copy>>, CopyIsFile => CopyIsFile',
         up = "ready" /\ CaughtUp => CaughtUp'
  PROVE  CatchingUp'
BY DEF CatchingUp

\* One saver is enough.
LEMMA SaverCatchesUp ==
  ASSUME NEW t \in Task, Saver(t)'
  PROVE  CaughtUp'
BY DEF CaughtUp

LEMMA SaverBegins ==
  ASSUME IInv, CatchingUp, NEW t \in Task,
         \/ SetTheme(t) \/ SetChat(t) \/ MarkRead(t) \/ ArmTimer(t) \/ TimerFires(t)
         \/ HangUp(t) \/ JoinQueue(t) \/ ReadSettings(t)
  PROVE  CatchingUp'
<1>1. pc \in [Task -> States] /\ draft \in [Task -> SettingsState]
  BY StatesOfPC DEF IInv, TypeOK
<1>2. Saver(t)'
  BY <1>1 DEF Saver, SetTheme, SetChat, MarkRead, ArmTimer, TimerFires, HangUp, JoinQueue,
              ReadSettings, Goto
<1>3. UNCHANGED <<up, copy, file, saved>>
  BY DEF SetTheme, SetChat, MarkRead, ArmTimer, TimerFires, HangUp, JoinQueue, ReadSettings, loadVars
<1>4. QED
  BY <1>2, <1>3, SaverCatchesUp, CommandCatchesUp DEF CopyIsFile

\* A copy is taken, a timer gives up, the temporary file is complete: nobody
\* who was to save is lost.
LEMMA SaverUntouched ==
  ASSUME IInv, CatchingUp, NEW t \in Task,
         SendChat(t) \/ SelectChannel(t) \/ TimerOvertaken(t) \/ WriteTemporary(t)
  PROVE  CatchingUp'
<1>1. pc \in [Task -> States] /\ draft \in [Task -> SettingsState] /\ None \notin Task
  BY StatesOfPC, NoneAssumption DEF IInv, TypeOK
<1>2. UNCHANGED <<up, copy, file, settings, saved>>
  BY DEF SendChat, SelectChannel, TimerOvertaken, WriteTemporary, loadVars
<1>3. ASSUME NEW u \in Task, Saver(u) PROVE Saver(u)'
  BY <1>1, <1>3 DEF Saver, SendChat, SelectChannel, TimerOvertaken, WriteTemporary, Finish, Goto
<1>4. CASE \E u \in Task : Saver(u)
  BY <1>2, <1>3, <1>4, SaverCatchesUp, CommandCatchesUp DEF CopyIsFile
<1>5. CASE \A u \in Task : ~Saver(u)
  <2>1. \A u \in Task : Writing(u)' => Writing(u) /\ draft'[u] = draft[u]
    BY <1>1 DEF SendChat, SelectChannel, TimerOvertaken, WriteTemporary, Finish, Goto, Writing
  <2>2. CaughtUp => CaughtUp'
    BY <1>2, <1>5, <2>1 DEF CaughtUp
  <2>3. QED
    BY <1>2, <2>2, CommandCatchesUp DEF CopyIsFile
<1>6. QED
  BY <1>4, <1>5

\* A save that ends was the only one: it brought the file up to the state, it
\* failed, it was of settings that were not loaded, or somebody waits who will.
LEMMA SaveEnds ==
  ASSUME IInv, CatchingUp, NEW t \in Task, Replace(t) \/ SaveFails(t)
  PROVE  CatchingUp'
<1>1. pc \in [Task -> States] /\ draft \in [Task -> SettingsState] /\ None \notin Task
  BY StatesOfPC, NoneAssumption DEF IInv, TypeOK
<1>2. Writing(t) /\ Finish(t) /\ UNCHANGED <<settings, up, copy>>
  BY DEF Replace, SaveFails, Writing, loadVars
<1>3. \A u \in Task : ~Writing(u)'
  BY <1>1, <1>2 DEF IInv, Serial, Holds, Finish, Writing
<1>4. saved' /\ file'.loaded => file' = draft[t] /\ draft[t].loaded /\ up = "ready"
  BY <1>2 DEF Replace, SaveFails, IInv, Order, Origin
<1>5. up = "inspecting" => CopyIsFile'
  BY <1>4 DEF CopyIsFile
<1>6. up = "ready" => CaughtUp'
  <2>1. SUFFICES ASSUME up = "ready" PROVE CaughtUp'
    OBVIOUS
  <2>2. CASE \E u \in Task : u # t /\ Saver(u)
    <3>1. PICK u \in Task : u # t /\ Saver(u)
      BY <2>2
    <3>2. Saver(u)'
      BY <1>1, <1>2, <3>1 DEF Saver, Finish
    <3>3. QED
      BY <3>2, SaverCatchesUp
  <2>3. CASE \A u \in Task : u # t => ~Saver(u)
    <3>1. CASE draft[t].loaded
      <4>1. Saver(t) /\ draft[t] = settings
        BY <1>2, <2>1, <2>3, <3>1 DEF CatchingUp, CaughtUp, Saver, Writing
      <4>2. QED
        BY <1>2, <1>3, <1>4, <4>1 DEF CaughtUp
    <3>2. CASE ~draft[t].loaded
      BY <1>3, <1>4, <3>2 DEF CaughtUp
    <3>3. QED
      BY <3>1, <3>2
  <2>4. QED
    BY <2>2, <2>3
<1>7. QED
  BY <1>2, <1>5, <1>6 DEF CatchingUp

LEMMA InitCatchingUp == Init => CatchingUp
BY DEF Init, CatchingUp

LEMMA LoadCatchingUp ==
  ASSUME IInv, CatchingUp, LoadReads \/ LoadFails \/ LoadSaves \/ LoadSaveFails \/ LoadEnds
  PROVE  CatchingUp'
<1>1. CASE LoadReads
  <2>1. file \in SettingsState /\ changes \in 0..MaxChanges
    BY DEF IInv, TypeOK
  <2>2. /\ up' \in {"importing", "inspecting"} /\ file' = file
        /\ up' = "inspecting" => copy' = [file EXCEPT !.loaded = TRUE]
    BY <1>1, <2>1, DiscoverTyped DEF LoadReads
  <2>3. file.loaded => file = [file EXCEPT !.loaded = TRUE]
    BY <2>1 DEF SettingsState
  <2>4. QED
    BY <2>2, <2>3 DEF CatchingUp, CopyIsFile
<1>2. CASE LoadFails
  BY <1>2 DEF LoadFails, Discover, CatchingUp, CopyIsFile
<1>3. CASE LoadSaves \/ LoadSaveFails
  BY <1>3 DEF LoadSaves, LoadSaveFails, CatchingUp, CopyIsFile
<1>4. CASE LoadEnds
  <2>1. \A t \in Task : Writing(t) => ~draft[t].loaded
    BY <1>4 DEF LoadEnds, IInv, Order, Origin
  <2>2. QED
    BY <1>4, <2>1 DEF LoadEnds, CatchingUp, CopyIsFile, CaughtUp, Writing, taskVars
<1>5. QED
  BY <1>1, <1>2, <1>3, <1>4

LEMMA NextCatchingUp == IInv /\ CatchingUp /\ [Next]_vars => CatchingUp'
<1> SUFFICES ASSUME IInv, CatchingUp, [Next]_vars PROVE CatchingUp'
  OBVIOUS
<1>1. CASE LoadReads \/ LoadFails \/ LoadSaves \/ LoadSaveFails \/ LoadEnds
  BY <1>1, LoadCatchingUp
<1>2. CASE Crash
  BY <1>2 DEF Crash, CatchingUp
<1>3. CASE MessageArrives \/ Mirror \/ UNCHANGED vars
  <2>1. UNCHANGED <<loadVars, settings, file, taskVars, saved>>
    BY <1>3 DEF MessageArrives, Mirror, vars
  <2>2. QED
    BY <2>1 DEF CatchingUp, CaughtUp, CopyIsFile, Saver, Writing, taskVars, loadVars
<1>4. ASSUME NEW t \in Task,
             SetTheme(t) \/ SendChat(t) \/ SelectChannel(t) \/ HangUp(t) \/ Work(t) \/ SaveFails(t)
      PROVE  CatchingUp'
  BY <1>4, SaverBegins, SaverUntouched, SaveEnds DEF Work
<1>5. QED
  BY <1>1, <1>2, <1>3, <1>4 DEF Next

\* Once the load, every command and every timer have run the file holds what the
\* state holds, if the disk took it and the last to be saved were settings that
\* had been loaded, however many timers overtake each other.
THEOREM FileEndsUpCurrent == Spec => []FileCatchesUp
<1>1. CatchingUp => FileCatchesUp
  BY DEF CatchingUp, CaughtUp, Saver, FileCatchesUp, Quiet
<1>2. QED
  BY <1>1, InitInv, NextInv, InitCatchingUp, NextCatchingUp, PTL DEF Spec
=============================================================================
