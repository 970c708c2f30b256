---------------------------- MODULE ScreenProofs ----------------------------
(***************************************************************************)
(* What the screen shows, proved from both ends of its way. StateMirror,   *)
(* for any number of emitters, any events, any ring size and any number of *)
(* losses and failures: the store is the backend's state. ChatSession, for *)
(* any people and channels, any size of the update channel and any number  *)
(* of events: the chat part of that state is what the session knows, and   *)
(* the session what the server does.                                       *)
(***************************************************************************)
EXTENDS StateMirror, ChatSession, TLAPS, WellFoundedInduction, SequenceTheorems, FiniteSetTheorems

-----------------------------------------------------------------------------
(* StateMirror: the inductive invariant *)

\* The event with revision r is the r-th reduced one.
EventSound(r, e) == r \in 1..Len(state) /\ e = state[r]

SnapshotSound(s) == s.revision \in 0..Len(state) /\ s.state = Prefix(state, s.revision)

MessageSound(m) ==
  /\ m.kind = "event" => EventSound(m.revision, m.body)
  /\ m.kind = "snapshot" => SnapshotSound([revision |-> m.revision, state |-> m.body])

\* At most one emitter is between its reduction and its send, it holds the
\* guard, and what it has to send is the newest event.
GuardInv ==
  \/ /\ lock = {}
     /\ \A t \in Emitter : staged[t] = <<>>
     /\ Len(sent) = Len(state)
  \/ \E t \in Emitter :
     /\ lock = {t}
     /\ \A u \in Emitter \ {t} : staged[u] = <<>>
     /\ Len(sent) + 1 = Len(state)
     /\ staged[t] = <<[revision |-> Len(state), event |-> state[Len(state)]]>>

WireInv == \A i \in 1..Len(wire) : MessageSound(wire[i])

PendingInv == \A i \in DOMAIN pending : EventSound(i, pending[i])

AnswerInv == \A r \in Requester : SnapshotSound(answer[r])

IInv ==
  /\ TypeOK
  /\ GuardInv
  /\ BroadcastInOrder
  /\ WireInv
  /\ PendingInv
  /\ AnswerInv
  /\ MirrorIsAuthoritative

-----------------------------------------------------------------------------
(* StateMirror: prefixes of the history *)

\* A non-empty set of natural numbers has a least element.
LEMMA LeastNumber ==
  ASSUME NEW T, T \subseteq Nat, T # {}
  PROVE  \E x \in T : \A y \in T : x <= y
<1> DEFINE R == OpToRel(<, Nat)
<1>1. \A x, y \in Nat : y < x => <<y, x>> \in R
  BY DEF OpToRel
<1>2. IsWellFoundedOn(R, Nat)
  BY NatLessThanWellFounded
<1> HIDE DEF R
<1>3. \E x \in T : \A y \in T : ~ (<<y, x>> \in R)
  BY <1>2, WFMin
<1>4. PICK x \in T : \A y \in T : ~ (<<y, x>> \in R)
  BY <1>3
<1>5. ASSUME NEW y \in T PROVE x <= y
  <2>1. x \in Nat /\ y \in Nat
    BY <1>4
  <2>2. ~ (y < x)
    BY <1>1, <1>4, <2>1
  <2>3. QED
    BY <2>1, <2>2
<1>6. QED
  BY <1>4, <1>5

\* A prefix, element by element.
LEMMA PrefixElements ==
  ASSUME NEW s \in Seq(Event), NEW n \in 0..Len(s)
  PROVE  /\ Prefix(s, n) \in Seq(Event)
         /\ Len(Prefix(s, n)) = n
         /\ \A i \in 1..n : Prefix(s, n)[i] = s[i]
<1>1. \A i \in 1..n : s[i] \in Event
  BY ElementOfSeq
<1>2. QED
  BY <1>1, SubSeqProperties DEF Prefix

\* Appending an event changes no prefix and no element there already was.
LEMMA PrefixOfAppend ==
  ASSUME NEW s \in Seq(Event), NEW e \in Event, NEW n \in 0..Len(s)
  PROVE  Prefix(Append(s, e), n) = Prefix(s, n)
<1>1. /\ Append(s, e) \in Seq(Event)
      /\ Len(Append(s, e)) = Len(s) + 1
      /\ \A i \in 1..Len(s) : Append(s, e)[i] = s[i]
  BY AppendProperties
<1>2. n \in 0..Len(Append(s, e))
  BY <1>1
<1>3. /\ Prefix(Append(s, e), n) \in Seq(Event)
      /\ Len(Prefix(Append(s, e), n)) = n
      /\ \A i \in 1..n : Prefix(Append(s, e), n)[i] = Append(s, e)[i]
  <2> DEFINE a == Append(s, e)
  <2>1. a \in Seq(Event) /\ n \in 0..Len(a)
    BY <1>1, <1>2
  <2> HIDE DEF a
  <2>2. /\ Prefix(a, n) \in Seq(Event)
        /\ Len(Prefix(a, n)) = n
        /\ \A i \in 1..n : Prefix(a, n)[i] = a[i]
    BY <2>1, PrefixElements
  <2>3. QED
    BY <2>2 DEF a
<1>4. \A i \in 1..n : Append(s, e)[i] = s[i]
  BY <1>1
<1>5. /\ Prefix(s, n) \in Seq(Event)
      /\ Len(Prefix(s, n)) = n
      /\ \A i \in 1..n : Prefix(s, n)[i] = s[i]
  BY PrefixElements
<1>6. QED
  BY <1>3, <1>4, <1>5, SeqEqual

\* A prefix continued by the next events is a longer prefix.
LEMMA PrefixContinued ==
  ASSUME NEW s \in Seq(Event), NEW r \in 0..Len(s), NEW m \in r..Len(s),
         NEW b, \A i \in 1..(m - r) : b[r + i] = s[r + i]
  PROVE  Prefix(s, r) \o [i \in 1..(m - r) |-> b[r + i]] = Prefix(s, m)
<1> DEFINE c == [i \in 1..(m - r) |-> b[r + i]]
<1>1. \A i \in 1..(m - r) : r + i \in 1..Len(s) /\ b[r + i] \in Event
  BY ElementOfSeq
<1>2. c \in Seq(Event) /\ Len(c) = m - r
  <2>1. m - r \in Nat /\ c \in [1..(m - r) -> Event]
    BY <1>1, LenProperties
  <2>2. QED
    BY <2>1, SeqDef
<1>3. Prefix(s, r) \in Seq(Event) /\ Len(Prefix(s, r)) = r
      /\ \A i \in 1..r : Prefix(s, r)[i] = s[i]
  BY PrefixElements
<1>4. m \in 0..Len(s)
  OBVIOUS
<1>5. Prefix(s, m) \in Seq(Event) /\ Len(Prefix(s, m)) = m
      /\ \A i \in 1..m : Prefix(s, m)[i] = s[i]
  BY <1>4, PrefixElements
<1>6. /\ Prefix(s, r) \o c \in Seq(Event)
      /\ Len(Prefix(s, r) \o c) = m
      /\ \A i \in 1..m : (Prefix(s, r) \o c)[i] =
            IF i <= r THEN Prefix(s, r)[i] ELSE c[i - r]
  <2> HIDE DEF c
  <2>1. /\ Prefix(s, r) \o c \in Seq(Event)
        /\ Len(Prefix(s, r) \o c) = Len(Prefix(s, r)) + Len(c)
        /\ \A i \in 1..Len(Prefix(s, r)) + Len(c) : (Prefix(s, r) \o c)[i] =
              IF i <= Len(Prefix(s, r)) THEN Prefix(s, r)[i] ELSE c[i - Len(Prefix(s, r))]
    BY <1>2, <1>3, ConcatProperties
  <2>2. QED
    BY <1>2, <1>3, <2>1
<1>7. ASSUME NEW i \in 1..m
      PROVE  (Prefix(s, r) \o c)[i] = s[i]
  <2>1. CASE i <= r
    BY <1>3, <1>6, <2>1
  <2>2. CASE ~(i <= r)
    <3>1. i - r \in 1..(m - r) /\ r + (i - r) = i
      BY <2>2
    <3>2. c[i - r] = s[i]
      BY <3>1
    <3>3. QED
      BY <1>6, <2>2, <3>2
  <2>3. QED
    BY <2>1, <2>2
<1>8. QED
  <2> HIDE DEF c
  <2>1. Prefix(s, r) \o c = Prefix(s, m)
    BY <1>5, <1>6, <1>7, SeqEqual
  <2>2. QED
    BY <2>1 DEF c

-----------------------------------------------------------------------------
(* StateMirror: the operations of the webview's mirror *)

\* drainPending stops, and never beyond the revisions of the backend.
LEMMA DrainStops ==
  ASSUME state \in Seq(Event), NEW r \in 0..Len(state), NEW buffer,
         \A i \in DOMAIN buffer : EventSound(i, buffer[i])
  PROVE  /\ DrainedTo(r, buffer) \in r..Len(state)
         /\ (r + 1)..DrainedTo(r, buffer) \subseteq DOMAIN buffer
<1> DEFINE Missing == {k \in Nat : k > r /\ k \notin DOMAIN buffer}
           Stop(m) == /\ m >= r
                      /\ (r + 1)..m \subseteq DOMAIN buffer
                      /\ m + 1 \notin DOMAIN buffer
<1>1. Len(state) \in Nat /\ r \in Nat
  BY LenProperties
<1>2. Len(state) + 1 \in Missing
  BY <1>1 DEF EventSound
<1>3. PICK x \in Missing : \A y \in Missing : x <= y
  <2> HIDE DEF Missing
  <2>1. Missing \subseteq Nat
    BY DEF Missing
  <2>2. QED
    BY <1>2, <2>1, LeastNumber
<1>4. x \in Nat /\ x > r /\ x \notin DOMAIN buffer
  OBVIOUS
<1>5. \A y \in (r + 1)..(x - 1) : y \in DOMAIN buffer
  BY <1>1, <1>3, <1>4
<1>6. x - 1 \in {r} \cup DOMAIN buffer /\ Stop(x - 1)
  BY <1>1, <1>4, <1>5
<1>7. DrainedTo(r, buffer) \in {r} \cup DOMAIN buffer /\ Stop(DrainedTo(r, buffer))
  <2>1. DrainedTo(r, buffer) = CHOOSE m \in {r} \cup DOMAIN buffer : Stop(m)
    BY DEF DrainedTo
  <2> HIDE DEF Stop
  <2>2. QED
    BY <1>6, <2>1
<1>8. QED
  BY <1>1, <1>7 DEF EventSound

\* Draining a sound buffer over a sound mirror leaves both sound.
LEMMA DrainSound ==
  ASSUME state \in Seq(Event), NEW r \in 0..Len(state), NEW buffer,
         \A i \in DOMAIN buffer : EventSound(i, buffer[i]),
         Drain(r, Prefix(state, r), buffer)
  PROVE  /\ mirrorRev' \in r..Len(state)
         /\ mirror' = Prefix(state, mirrorRev')
         /\ \A i \in DOMAIN pending' : EventSound(i, pending'[i])
<1> DEFINE m == DrainedTo(r, buffer)
<1>1. m \in r..Len(state) /\ (r + 1)..m \subseteq DOMAIN buffer
  BY DrainStops
<1>2. /\ mirrorRev' = m
      /\ mirror' = Prefix(state, r) \o [i \in 1..(m - r) |-> buffer[r + i]]
      /\ pending' = [i \in DOMAIN buffer \ ((r + 1)..m) |-> buffer[i]]
  BY DEF Drain
<1> HIDE DEF m
<1>3. \A i \in 1..(m - r) : buffer[r + i] = state[r + i]
  <2>1. \A i \in 1..(m - r) : r + i \in (r + 1)..m
    BY <1>1, LenProperties
  <2>2. QED
    BY <1>1, <2>1 DEF EventSound
<1>4. mirror' = Prefix(state, m)
  BY <1>1, <1>2, <1>3, PrefixContinued
<1>5. QED
  BY <1>1, <1>2, <1>4 DEF EventSound

\* replace(snapshot) keeps the mirror sound and never takes it back.
LEMMA ReplaceSound ==
  ASSUME IInv, NEW s, SnapshotSound(s), Replace(s)
  PROVE  /\ mirrorRev' \in Nat \cup {Null}
         /\ mirrorRev' >= mirrorRev
         /\ mirrorRev' # Null =>
               mirrorRev' <= Len(state) /\ mirror' = Prefix(state, mirrorRev')
         /\ mirrorRev = Null => mirrorRev' # Null
         /\ mirror' \in Seq(Event)
         /\ \A i \in DOMAIN pending' : EventSound(i, pending'[i])
<1> USE DEF Null
<1>1. /\ state \in Seq(Event) /\ revision = Len(state) /\ Len(state) \in Nat
      /\ mirrorRev \in Nat \cup {Null} /\ mirror \in Seq(Event)
  BY LenProperties DEF IInv, TypeOK
<1>2. CASE mirrorRev # Null /\ s.revision < mirrorRev
  BY <1>1, <1>2 DEF IInv, Replace, PendingInv, MirrorIsAuthoritative
<1>3. CASE ~(mirrorRev # Null /\ s.revision < mirrorRev)
  <2> DEFINE above == Above(s.revision, pending)
  <2>1. s.revision \in 0..Len(state) /\ s.state = Prefix(state, s.revision)
    BY DEF SnapshotSound
  <2>2. \A i \in DOMAIN above : EventSound(i, above[i])
    BY DEF Above, IInv, PendingInv
  <2>3. Drain(s.revision, Prefix(state, s.revision), above)
    BY <1>3, <2>1 DEF Replace
  <2>4. /\ mirrorRev' \in s.revision..Len(state)
        /\ mirror' = Prefix(state, mirrorRev')
        /\ \A i \in DOMAIN pending' : EventSound(i, pending'[i])
    <3> HIDE DEF above
    <3>1. QED
      BY <1>1, <2>1, <2>2, <2>3, DrainSound
  <2>5. mirrorRev' >= mirrorRev
    BY <1>1, <1>3, <2>1, <2>4
  <2>6. mirror' \in Seq(Event)
    <3>1. mirrorRev' \in 0..Len(state)
      BY <1>1, <2>1, <2>4
    <3>2. QED
      BY <1>1, <2>4, <3>1, PrefixElements
  <2>7. QED
    BY <1>1, <2>1, <2>4, <2>5, <2>6
<1>4. QED
  BY <1>2, <1>3

-----------------------------------------------------------------------------
(* StateMirror: the backend's steps *)

\* What was sound before an event is reduced is sound after it.
LEMMA SoundnessIsStable ==
  ASSUME state \in Seq(Event), NEW e \in Event, state' = Append(state, e)
  PROVE  /\ state' \in Seq(Event)
         /\ Len(state') = Len(state) + 1
         /\ state'[Len(state')] = e
         /\ \A i \in 1..Len(state) : state'[i] = state[i]
         /\ \A n \in 0..Len(state) : Prefix(state', n) = Prefix(state, n)
         /\ \A r, x : EventSound(r, x) => EventSound(r, x)'
         /\ \A s : SnapshotSound(s) => SnapshotSound(s)'
         /\ \A m : MessageSound(m) => MessageSound(m)'
<1>1. /\ state' \in Seq(Event)
      /\ Len(state') = Len(state) + 1
      /\ state'[Len(state)+1] = e
      /\ \A i \in 1..Len(state) : state'[i] = state[i]
  BY AppendProperties
<1>2. \A n \in 0..Len(state) : Prefix(state', n) = Prefix(state, n)
  BY PrefixOfAppend
<1>3. Len(state) \in Nat
  BY LenProperties
<1>4. ASSUME NEW r, NEW x, EventSound(r, x)
      PROVE  EventSound(r, x)'
  <2>1. r \in 1..Len(state) /\ x = state[r]
    BY <1>4 DEF EventSound
  <2>2. r \in 1..Len(state') /\ x = state'[r]
    BY <1>1, <1>3, <2>1
  <2>3. QED
    BY <2>2 DEF EventSound
<1>5. ASSUME NEW s, SnapshotSound(s)
      PROVE  SnapshotSound(s)'
  <2>1. s.revision \in 0..Len(state) /\ s.state = Prefix(state, s.revision)
    BY <1>5 DEF SnapshotSound
  <2>2. s.revision \in 0..Len(state') /\ s.state = Prefix(state', s.revision)
    BY <1>1, <1>2, <1>3, <2>1
  <2>3. QED
    BY <2>2 DEF SnapshotSound
<1>6. ASSUME NEW m, MessageSound(m)
      PROVE  MessageSound(m)'
  <2>1. m.kind = "event" => EventSound(m.revision, m.body)'
    BY <1>4, <1>6 DEF MessageSound
  <2>2. m.kind = "snapshot" => SnapshotSound([revision |-> m.revision, state |-> m.body])'
    BY <1>5, <1>6 DEF MessageSound
  <2>3. QED
    BY <2>1, <2>2 DEF MessageSound
<1>7. QED
  BY <1>1, <1>2, <1>3, <1>4, <1>5, <1>6

LEMMA EmitReduceStep ==
  ASSUME IInv, NEW t \in Emitter, EmitReduce(t)
  PROVE  IInv'
<1>1. PICK e \in Event :
         /\ state' = Append(state, e)
         /\ staged' = [staged EXCEPT ![t] = <<[revision |-> revision + 1, event |-> e]>>]
  BY DEF EmitReduce, NextRevision
<1>2. /\ lock = {} /\ lock' = {t} /\ revision' = revision + 1
      /\ UNCHANGED <<sent, cursor, wire, listening, mirrorRev, mirror, pending,
                     recoveryRequested, request, answer, failed, lost>>
  BY DEF EmitReduce, NextRevision, mirrorVars, requestVars
<1>3. TypeOK
  BY DEF IInv
<1>4. state \in Seq(Event) /\ revision = Len(state) /\ Len(state) \in Nat
  BY <1>3, LenProperties DEF TypeOK
<1>5. /\ state' \in Seq(Event)
      /\ Len(state') = Len(state) + 1
      /\ state'[Len(state')] = e
      /\ \A i \in 1..Len(state) : state'[i] = state[i]
      /\ \A n \in 0..Len(state) : Prefix(state', n) = Prefix(state, n)
      /\ \A r, x : EventSound(r, x) => EventSound(r, x)'
      /\ \A s : SnapshotSound(s) => SnapshotSound(s)'
      /\ \A m : MessageSound(m) => MessageSound(m)'
  BY <1>1, <1>4, SoundnessIsStable
<1>6. TypeOK'
  <2>1. <<[revision |-> revision + 1, event |-> e]>> \in Seq(VersionedEvent)
    BY <1>4 DEF VersionedEvent
  <2>2. staged' \in [Emitter -> Seq(VersionedEvent)]
    BY <1>1, <1>3, <2>1 DEF TypeOK
  <2>3. lock' \subseteq Emitter /\ revision' = Len(state')
    BY <1>2, <1>4, <1>5
  <2>4. QED
    BY <1>2, <1>3, <1>5, <2>2, <2>3 DEF TypeOK
<1>7. GuardInv'
  <2>1. \A u \in Emitter : staged[u] = <<>>
    BY <1>2 DEF IInv, GuardInv
  <2>2. Len(sent) = Len(state)
    BY <1>2 DEF IInv, GuardInv
  <2>3. /\ \A u \in Emitter \ {t} : staged'[u] = <<>>
        /\ staged'[t] = <<[revision |-> Len(state'), event |-> state'[Len(state')]]>>
    BY <1>1, <1>3, <1>4, <1>5, <2>1 DEF TypeOK
  <2>4. Len(sent') + 1 = Len(state')
    BY <1>2, <1>5, <2>2
  <2>5. QED
    BY <1>2, <2>3, <2>4 DEF GuardInv
<1>8. BroadcastInOrder'
  <2>1. Len(sent) = Len(state)
    BY <1>2 DEF IInv, GuardInv
  <2>2. QED
    BY <1>2, <1>5, <2>1 DEF IInv, BroadcastInOrder
<1>9. WireInv' /\ PendingInv' /\ AnswerInv'
  BY <1>2, <1>5 DEF IInv, WireInv, PendingInv, AnswerInv
<1>10. MirrorIsAuthoritative'
  <2>1. mirrorRev # Null => mirrorRev \in 0..Len(state)
    BY <1>3, <1>4 DEF IInv, MirrorIsAuthoritative, TypeOK
  <2>2. QED
    BY <1>2, <1>4, <1>5, <2>1 DEF IInv, MirrorIsAuthoritative
<1>11. QED
  BY <1>6, <1>7, <1>8, <1>9, <1>10 DEF IInv

LEMMA EmitSendStep ==
  ASSUME IInv, NEW t \in Emitter, EmitSend(t)
  PROVE  IInv'
<1> DEFINE v == [revision |-> Len(state), event |-> state[Len(state)]]
<1>1. /\ staged[t] # <<>>
      /\ sent' = sent \o staged[t]
      /\ staged' = [staged EXCEPT ![t] = <<>>]
      /\ lock' = lock \ {t}
      /\ UNCHANGED <<state, revision, cursor, wire, listening, mirrorRev, mirror, pending,
                     recoveryRequested, request, answer, failed, lost>>
  BY DEF EmitSend, mirrorVars, requestVars
<1>2. TypeOK /\ state \in Seq(Event) /\ sent \in Seq(VersionedEvent)
      /\ Len(state) \in Nat /\ Len(sent) \in Nat
  BY LenProperties DEF IInv, TypeOK
<1>3. /\ lock = {t}
      /\ \A u \in Emitter \ {t} : staged[u] = <<>>
      /\ Len(sent) + 1 = Len(state)
      /\ staged[t] = <<v>>
  BY <1>1 DEF IInv, GuardInv
<1>4. v \in VersionedEvent
  BY <1>2, <1>3, ElementOfSeq DEF VersionedEvent
<1>5. sent' = Append(sent, v)
  <2> HIDE DEF v
  <2>1. QED
    BY <1>1, <1>2, <1>3, <1>4, AppendIsConcat
<1>6. /\ sent' \in Seq(VersionedEvent)
      /\ Len(sent') = Len(state)
      /\ \A i \in 1..Len(sent) : sent'[i] = sent[i]
      /\ sent'[Len(sent) + 1] = v
  <2> HIDE DEF v
  <2>1. QED
    BY <1>2, <1>3, <1>4, <1>5, AppendProperties
<1>7. staged' \in [Emitter -> Seq(VersionedEvent)] /\ \A u \in Emitter : staged'[u] = <<>>
  BY <1>1, <1>2, <1>3 DEF TypeOK
<1>8. TypeOK'
  BY <1>1, <1>2, <1>3, <1>6, <1>7 DEF TypeOK
<1>9. GuardInv'
  BY <1>1, <1>3, <1>6, <1>7 DEF GuardInv
<1>10. BroadcastInOrder'
  BY <1>1, <1>2, <1>3, <1>6 DEF IInv, BroadcastInOrder
<1>11. (WireInv /\ PendingInv /\ AnswerInv /\ MirrorIsAuthoritative)'
  BY <1>1 DEF IInv, WireInv, PendingInv, AnswerInv, MirrorIsAuthoritative,
              MessageSound, EventSound, SnapshotSound
<1>12. QED
  BY <1>8, <1>9, <1>10, <1>11 DEF IInv

-----------------------------------------------------------------------------
(* StateMirror: the forwarder's steps *)

\* A sound message on its way to the window leaves the channel sound.
LEMMA ToWindowSound ==
  ASSUME IInv, NEW m \in Message, MessageSound(m), ToWindow(m), UNCHANGED backendVars
  PROVE  wire' \in Seq(Message) /\ lost' \in 0..MaxLost /\ WireInv'
<1>1. wire \in Seq(Message) /\ lost \in 0..MaxLost /\ WireInv
  BY DEF IInv, TypeOK
<1>2. \A x : MessageSound(x) <=> MessageSound(x)'
  BY DEF backendVars, MessageSound, EventSound, SnapshotSound
<1>3. CASE wire' = Append(wire, m) /\ UNCHANGED lost
  <2>1. /\ wire' \in Seq(Message)
        /\ Len(wire') = Len(wire) + 1
        /\ \A i \in 1..Len(wire) : wire'[i] = wire[i]
        /\ wire'[Len(wire) + 1] = m
    BY <1>1, <1>3, AppendProperties
  <2>2. Len(wire) \in Nat
    BY <1>1, LenProperties
  <2>3. \A i \in 1..Len(wire') : MessageSound(wire'[i])
    BY <1>1, <2>1, <2>2 DEF WireInv
  <2>4. QED
    BY <1>1, <1>2, <1>3, <2>1, <2>3 DEF WireInv
<1>4. CASE UNCHANGED wire /\ lost' \in {lost, lost + 1} /\ (lost' # lost => lost < MaxLost)
  BY <1>1, <1>2, <1>4, BoundAssumption DEF WireInv
<1>5. QED
  BY <1>1, <1>3, <1>4 DEF ToWindow

\* A step of the forwarder that sends a sound message preserves the invariant.
LEMMA ForwarderStep ==
  ASSUME IInv, NEW m \in Message, MessageSound(m), ToWindow(m),
         cursor' \in Nat \ {0},
         UNCHANGED <<backendVars, listening, mirrorVars, requestVars>>
  PROVE  IInv'
<1>1. wire' \in Seq(Message) /\ lost' \in 0..MaxLost /\ WireInv'
  BY ToWindowSound
<1>2. TypeOK'
  BY <1>1 DEF IInv, TypeOK, backendVars, mirrorVars, requestVars
<1>3. (GuardInv /\ BroadcastInOrder /\ PendingInv /\ AnswerInv /\ MirrorIsAuthoritative)'
  BY DEF IInv, GuardInv, BroadcastInOrder, PendingInv, AnswerInv, MirrorIsAuthoritative,
         EventSound, SnapshotSound, backendVars, mirrorVars, requestVars
<1>4. QED
  BY <1>1, <1>2, <1>3 DEF IInv

LEMMA ForwardEventStep ==
  ASSUME IInv, ForwardEvent
  PROVE  IInv'
<1> DEFINE v == sent[cursor]
<1>1. /\ TypeOK /\ cursor \in Nat \ {0} /\ cursor <= Len(sent)
      /\ sent \in Seq(VersionedEvent) /\ Len(sent) \in Nat
  BY LenProperties DEF IInv, TypeOK, ForwardEvent
<1>2. cursor \in 1..Len(sent)
  BY <1>1
<1>3. v = [revision |-> cursor, event |-> state[cursor]]
  BY <1>2 DEF IInv, BroadcastInOrder
<1>4. v \in VersionedEvent
  BY <1>1, <1>2, ElementOfSeq
<1>5. Len(sent) <= Len(state) /\ Len(state) \in Nat
  <2>1. Len(state) \in Nat
    BY LenProperties DEF IInv, TypeOK
  <2>2. QED
    BY <1>1, <2>1 DEF IInv, GuardInv
<1>6. EventSound(v.revision, v.event)
  BY <1>2, <1>3, <1>5 DEF EventSound
<1>7. EventMessage(v) \in Message /\ MessageSound(EventMessage(v))
  BY <1>4, <1>6 DEF EventMessage, Message, MessageSound, VersionedEvent
<1>8. /\ ToWindow(EventMessage(v))
      /\ cursor' \in Nat \ {0}
      /\ UNCHANGED <<backendVars, listening, mirrorVars, requestVars>>
  BY <1>1 DEF ForwardEvent
<1>9. QED
  BY <1>7, <1>8, ForwarderStep

\* A snapshot taken under the lock is the newest state.
LEMMA FreshSnapshot ==
  ASSUME IInv
  PROVE  SnapshotSound(VersionedSnapshot) /\ VersionedSnapshot \in Snapshot
<1>1. state \in Seq(Event) /\ revision = Len(state) /\ Len(state) \in Nat
  BY LenProperties DEF IInv, TypeOK
<1>2. Prefix(state, Len(state)) = state
  BY <1>1, SubSeqFull DEF Prefix
<1>3. QED
  BY <1>1, <1>2 DEF SnapshotSound, VersionedSnapshot, Snapshot

LEMMA ForwardResubscribeStep ==
  ASSUME IInv, ForwardResubscribe
  PROVE  IInv'
<1> DEFINE m == SnapshotMessage(VersionedSnapshot)
<1>1. m \in Message /\ MessageSound(m)
  BY FreshSnapshot DEF SnapshotMessage, Message, MessageSound, Snapshot, VersionedSnapshot,
                       SnapshotSound
<1>2. cursor' \in Nat \ {0}
  BY LenProperties DEF IInv, TypeOK, ForwardResubscribe
<1>3. /\ ToWindow(m)
      /\ UNCHANGED <<backendVars, listening, mirrorVars, requestVars>>
  BY DEF ForwardResubscribe
<1> HIDE DEF m
<1>4. QED
  BY <1>1, <1>2, <1>3, ForwarderStep

-----------------------------------------------------------------------------
(* StateMirror: the webview's steps *)

\* What the mirror's variables have to satisfy after a step.
MirrorSound ==
  /\ mirrorRev \in Nat \cup {Null}
  /\ mirror \in Seq(Event)
  /\ mirrorRev # Null => mirrorRev <= Len(state) /\ mirror = Prefix(state, mirrorRev)
  /\ PendingInv

\* The shapes of the variables that hold requests.
RequestsOK ==
  /\ recoveryRequested \in BOOLEAN
  /\ request \in [Requester -> {"idle", "asked", "answered", "done", "failed"}]
  /\ answer \in [Requester -> Snapshot]
  /\ failed \in 0..MaxFailed

\* A step of the webview that leaves the mirror sound preserves the invariant.
LEMMA WebviewStep ==
  ASSUME IInv, UNCHANGED <<backendVars, cursor, lost>>,
         listening' \in BOOLEAN,
         wire' \in Seq(Message), WireInv', MirrorSound', RequestsOK', AnswerInv'
  PROVE  IInv'
<1>1. TypeOK'
  <2>1. DOMAIN pending' \subseteq Nat
    BY DEF MirrorSound, PendingInv, EventSound
  <2>2. \A i \in DOMAIN pending' : pending'[i] \in Event
    BY ElementOfSeq DEF MirrorSound, PendingInv, EventSound, IInv, TypeOK, backendVars
  <2>3. QED
    BY <2>1, <2>2 DEF IInv, TypeOK, backendVars, MirrorSound, RequestsOK
<1>2. (GuardInv /\ BroadcastInOrder)'
  BY DEF IInv, GuardInv, BroadcastInOrder, backendVars
<1>3. MirrorIsAuthoritative'
  BY DEF MirrorSound, MirrorIsAuthoritative, IInv, TypeOK, backendVars
<1>4. QED
  BY <1>1, <1>2, <1>3 DEF IInv, MirrorSound

\* Soundness only depends on the authoritative state.
LEMMA SoundnessUnchanged ==
  ASSUME UNCHANGED backendVars
  PROVE  /\ \A r, x : EventSound(r, x) <=> EventSound(r, x)'
         /\ \A x : SnapshotSound(x) <=> SnapshotSound(x)'
         /\ \A x : MessageSound(x) <=> MessageSound(x)'
BY DEF backendVars, MessageSound, EventSound, SnapshotSound

\* Taking a message off the window channel leaves the rest sound.
LEMMA PopSound ==
  ASSUME IInv, wire # <<>>, wire' = Tail(wire), UNCHANGED backendVars
  PROVE  /\ Head(wire) \in Message /\ MessageSound(Head(wire))
         /\ wire' \in Seq(Message) /\ WireInv'
<1>1. wire \in Seq(Message) /\ Len(wire) \in Nat
  BY LenProperties DEF IInv, TypeOK
<1>2. /\ Head(wire) \in Message
      /\ Tail(wire) \in Seq(Message)
      /\ Len(Tail(wire)) = Len(wire) - 1
      /\ \A i \in 1..Len(Tail(wire)) : Tail(wire)[i] = wire[i + 1]
  BY <1>1, HeadTailProperties
<1>3. Len(wire) # 0 /\ Head(wire) = wire[1]
  BY <1>1, EmptySeq
<1>4. MessageSound(Head(wire))
  BY <1>1, <1>3 DEF IInv, WireInv
<1>5. \A i \in 1..Len(Tail(wire)) : MessageSound(Tail(wire)[i])
  BY <1>1, <1>2 DEF IInv, WireInv
<1>6. WireInv'
  BY <1>5, SoundnessUnchanged DEF WireInv
<1>7. QED
  BY <1>2, <1>4, <1>6

\* Asking for a recovery keeps requests and answers well-formed.
LEMMA RequestRecoverySound ==
  ASSUME IInv, NEW now \in BOOLEAN, RequestRecovery(now), UNCHANGED backendVars
  PROVE  RequestsOK' /\ AnswerInv'
<1>1. RequestsOK
  BY DEF IInv, TypeOK, RequestsOK
<1>2. RequestsOK' /\ answer' = answer
  <2>1. CASE now /\ request["recovery"] # "idle"
    BY <1>1, <2>1 DEF RequestRecovery, RequestsOK, requestVars
  <2>2. CASE now /\ request["recovery"] = "idle"
    BY <1>1, <2>2 DEF RequestRecovery, RequestsOK, requestVars, Requester
  <2>3. CASE ~now
    BY <1>1, <2>3 DEF RequestRecovery, RequestsOK, requestVars
  <2>4. QED
    BY <2>1, <2>2, <2>3
<1>3. QED
  BY <1>2, SoundnessUnchanged DEF IInv, AnswerInv

\* replace() establishes what a webview step needs of the mirror.
LEMMA ReplaceMirrorSound ==
  ASSUME IInv, NEW s, SnapshotSound(s), Replace(s), UNCHANGED backendVars
  PROVE  MirrorSound' /\ mirrorRev' >= mirrorRev
<1>1. /\ mirrorRev' \in Nat \cup {Null}
      /\ mirrorRev' >= mirrorRev
      /\ mirrorRev' # Null =>
            mirrorRev' <= Len(state) /\ mirror' = Prefix(state, mirrorRev')
      /\ mirror' \in Seq(Event)
      /\ \A i \in DOMAIN pending' : EventSound(i, pending'[i])
  BY ReplaceSound
<1>2. PendingInv'
  BY <1>1, SoundnessUnchanged DEF PendingInv
<1>3. QED
  BY <1>1, <1>2 DEF MirrorSound, backendVars

LEMMA ReceiveSnapshotStep ==
  ASSUME IInv, ReceiveSnapshot
  PROVE  IInv' /\ mirrorRev' >= mirrorRev
<1> DEFINE s == [revision |-> Head(wire).revision, state |-> Head(wire).body]
           gap == HasRevisionGap(mirrorRev', pending')
<1>1. /\ wire # <<>> /\ Head(wire).kind = "snapshot" /\ wire' = Tail(wire)
      /\ Replace(s) /\ RequestRecovery(gap)
      /\ UNCHANGED <<backendVars, cursor, listening, lost>>
  BY DEF ReceiveSnapshot
<1>2. MessageSound(Head(wire)) /\ wire' \in Seq(Message) /\ WireInv'
  BY <1>1, PopSound
<1>3. SnapshotSound(s)
  BY <1>1, <1>2 DEF MessageSound
<1>4. gap \in BOOLEAN
  BY DEF HasRevisionGap
<1> HIDE DEF s, gap
<1>5. MirrorSound' /\ mirrorRev' >= mirrorRev
  BY <1>1, <1>3, ReplaceMirrorSound
<1>6. RequestsOK' /\ AnswerInv'
  BY <1>1, <1>4, RequestRecoverySound
<1>7. listening' \in BOOLEAN
  BY <1>1 DEF IInv, TypeOK
<1>8. QED
  BY <1>1, <1>2, <1>5, <1>6, <1>7, WebviewStep

LEMMA ReceiveEarlySound ==
  ASSUME IInv, NEW m \in Message, m.kind = "event", MessageSound(m),
         ReceiveEarly(m), UNCHANGED backendVars
  PROVE  MirrorSound' /\ RequestsOK' /\ AnswerInv' /\ mirrorRev' >= mirrorRev
<1> USE DEF Null
<1>1. EventSound(m.revision, m.body)
  BY DEF MessageSound
<1>2. pending' = Buffered(m) /\ UNCHANGED <<mirrorRev, mirror>>
      /\ RequestRecovery(mirrorRev # Null)
  BY DEF ReceiveEarly
<1>3. \A i \in DOMAIN pending' : EventSound(i, pending'[i])
  BY <1>1, <1>2 DEF Buffered, IInv, PendingInv
<1>4. PendingInv'
  BY <1>3, SoundnessUnchanged DEF PendingInv
<1>5. MirrorSound'
  BY <1>2, <1>4 DEF MirrorSound, IInv, TypeOK, MirrorIsAuthoritative, backendVars
<1>6. RequestsOK' /\ AnswerInv'
  BY <1>2, RequestRecoverySound
<1>7. mirrorRev' >= mirrorRev
  BY <1>2 DEF IInv, TypeOK
<1>8. QED
  BY <1>5, <1>6, <1>7

LEMMA ReceiveKnownSound ==
  ASSUME IInv, NEW m, ReceiveKnown(m), UNCHANGED backendVars
  PROVE  MirrorSound' /\ RequestsOK' /\ AnswerInv' /\ mirrorRev' >= mirrorRev
<1>1. UNCHANGED <<mirrorRev, mirror, pending, recoveryRequested, request, answer, failed>>
  BY DEF ReceiveKnown, mirrorVars, requestVars
<1>2. PendingInv' /\ AnswerInv'
  BY <1>1, SoundnessUnchanged DEF IInv, PendingInv, AnswerInv
<1>3. QED
  BY <1>1, <1>2 DEF MirrorSound, RequestsOK, IInv, TypeOK, MirrorIsAuthoritative,
                    backendVars, Null

LEMMA ReceiveNextSound ==
  ASSUME IInv, NEW m \in Message, m.kind = "event", MessageSound(m),
         ReceiveNext(m), UNCHANGED backendVars
  PROVE  MirrorSound' /\ RequestsOK' /\ AnswerInv' /\ mirrorRev' >= mirrorRev
<1> DEFINE r == mirrorRev + 1
           gap == HasRevisionGap(mirrorRev', pending')
<1>1. /\ mirrorRev # Null /\ m.revision = r
      /\ Drain(m.revision, Append(mirror, m.body), pending)
      /\ RequestRecovery(gap)
  BY DEF ReceiveNext
<1>2. /\ state \in Seq(Event) /\ revision = Len(state) /\ Len(state) \in Nat
      /\ mirrorRev \in Nat /\ mirrorRev <= Len(state)
      /\ mirror = Prefix(state, mirrorRev) /\ mirror \in Seq(Event)
  BY <1>1, LenProperties DEF IInv, TypeOK, MirrorIsAuthoritative, Null
<1>3. r \in 1..Len(state) /\ m.body = state[r]
  BY <1>1 DEF MessageSound, EventSound
<1>4. Append(mirror, m.body) = Prefix(state, r)
  <2>1. r \in Nat /\ mirrorRev = r - 1
    BY <1>2
  <2>2. Prefix(state, r) = Prefix(state, r - 1) \o <<state[r]>>
    <3>1. 1 \in 1..Len(state) /\ r \in 1..Len(state)
      BY <1>3
    <3>2. SubSeq(state, 1, r) = SubSeq(state, 1, r - 1) \o <<state[r]>>
      <4> HIDE DEF r
      <4>1. QED
        BY <1>2, <3>1, SubSeqRecursiveSecond
    <3>3. QED
      BY <3>2 DEF Prefix
  <2>3. state[r] \in Event
    BY <1>2, <1>3, ElementOfSeq
  <2>4. Append(mirror, state[r]) = mirror \o <<state[r]>>
    <3> HIDE DEF r
    <3>1. QED
      BY <1>2, <2>3, AppendIsConcat
  <2>5. QED
    BY <1>2, <1>3, <2>1, <2>2, <2>4
<1>5. r \in 0..Len(state) /\ Drain(r, Prefix(state, r), pending)
  BY <1>1, <1>3, <1>4
<1>6. gap \in BOOLEAN
  BY DEF HasRevisionGap
<1>7. \A i \in DOMAIN pending : EventSound(i, pending[i])
  BY DEF IInv, PendingInv
<1>8. mirrorRev < r
  BY <1>2
<1> HIDE DEF r, gap
<1>9. /\ mirrorRev' \in r..Len(state)
      /\ mirror' = Prefix(state, mirrorRev')
      /\ \A i \in DOMAIN pending' : EventSound(i, pending'[i])
  BY <1>2, <1>5, <1>7, DrainSound
<1>10. mirrorRev' \in 0..Len(state) /\ mirrorRev' >= mirrorRev
  BY <1>2, <1>5, <1>8, <1>9
<1>11. PendingInv'
  BY <1>9, SoundnessUnchanged DEF PendingInv
<1>12. mirror' \in Seq(Event)
  BY <1>2, <1>9, <1>10, PrefixElements
<1>13. MirrorSound'
  BY <1>9, <1>10, <1>11, <1>12 DEF MirrorSound, backendVars
<1>14. RequestsOK' /\ AnswerInv'
  BY <1>1, <1>6, RequestRecoverySound
<1>15. QED
  BY <1>10, <1>13, <1>14

LEMMA ReceiveEventStep ==
  ASSUME IInv, ReceiveEvent
  PROVE  IInv' /\ mirrorRev' >= mirrorRev
<1> DEFINE m == Head(wire)
<1>1. /\ wire # <<>> /\ m.kind = "event" /\ wire' = Tail(wire)
      /\ ReceiveEarly(m) \/ ReceiveKnown(m) \/ ReceiveNext(m)
      /\ UNCHANGED <<backendVars, cursor, listening, lost>>
  BY DEF ReceiveEvent
<1>2. m \in Message /\ MessageSound(m) /\ wire' \in Seq(Message) /\ WireInv'
  BY <1>1, PopSound
<1> HIDE DEF m
<1>3. MirrorSound' /\ RequestsOK' /\ AnswerInv' /\ mirrorRev' >= mirrorRev
  BY <1>1, <1>2, ReceiveEarlySound, ReceiveKnownSound, ReceiveNextSound
<1>4. listening' \in BOOLEAN
  BY <1>1 DEF IInv, TypeOK
<1>5. QED
  BY <1>1, <1>2, <1>3, <1>4, WebviewStep

\* A step that leaves window channel and mirror alone keeps them sound.
LEMMA MirrorUntouched ==
  ASSUME IInv, UNCHANGED <<backendVars, wire, mirrorRev, mirror, pending>>
  PROVE  /\ wire' \in Seq(Message) /\ WireInv'
         /\ MirrorSound' /\ mirrorRev' >= mirrorRev
<1>1. wire' \in Seq(Message) /\ WireInv' /\ PendingInv'
  BY SoundnessUnchanged DEF IInv, TypeOK, WireInv, PendingInv
<1>2. QED
  BY <1>1 DEF MirrorSound, IInv, TypeOK, MirrorIsAuthoritative, backendVars, Null

LEMMA AskStep ==
  ASSUME IInv, Listen \/ AskBootSnapshot \/ BootFailed \/ RecoveryFailed
  PROVE  IInv' /\ mirrorRev' >= mirrorRev
<1>1. /\ UNCHANGED <<backendVars, wire, mirrorRev, mirror, pending, cursor, lost, answer>>
      /\ listening' \in BOOLEAN /\ RequestsOK'
  <2>1. CASE Listen
    BY <2>1 DEF Listen, IInv, TypeOK, RequestsOK, mirrorVars, requestVars
  <2>2. CASE AskBootSnapshot
    BY <2>2 DEF AskBootSnapshot, IInv, TypeOK, RequestsOK, mirrorVars, Requester
  <2>3. CASE RecoveryFailed
    <3>1. recoveryRequested' \in BOOLEAN
      BY <2>3 DEF RecoveryFailed, RecoverySettled
    <3>2. failed' \in 0..MaxFailed
      BY <2>3, BoundAssumption DEF RecoveryFailed, IInv, TypeOK
    <3>3. request' \in [Requester -> {"idle", "asked", "answered", "done", "failed"}]
      BY <2>3 DEF RecoveryFailed, RecoverySettled, IInv, TypeOK
    <3>4. QED
      BY <2>3, <3>1, <3>2, <3>3 DEF RecoveryFailed, IInv, TypeOK, RequestsOK
  <2>4. CASE BootFailed
    <3>1. failed' \in 0..MaxFailed
      BY <2>4, BoundAssumption DEF BootFailed, IInv, TypeOK
    <3>2. request' \in [Requester -> {"idle", "asked", "answered", "done", "failed"}]
      BY <2>4 DEF BootFailed, IInv, TypeOK
    <3>3. QED
      BY <2>4, <3>1, <3>2 DEF BootFailed, IInv, TypeOK, RequestsOK, mirrorVars
  <2>5. QED
    BY <2>1, <2>2, <2>3, <2>4
<1>2. AnswerInv'
  BY <1>1, SoundnessUnchanged DEF IInv, AnswerInv
<1>3. QED
  BY <1>1, <1>2, MirrorUntouched, WebviewStep

LEMMA ServeSnapshotStep ==
  ASSUME IInv, NEW r \in Requester, ServeSnapshot(r)
  PROVE  IInv' /\ mirrorRev' >= mirrorRev
<1>1. /\ UNCHANGED <<backendVars, wire, mirrorRev, mirror, pending, cursor, lost, listening>>
      /\ UNCHANGED <<recoveryRequested, failed>>
      /\ request' = [request EXCEPT ![r] = "answered"]
      /\ answer' = [answer EXCEPT ![r] = VersionedSnapshot]
  BY DEF ServeSnapshot, mirrorVars
<1>2. SnapshotSound(VersionedSnapshot) /\ VersionedSnapshot \in Snapshot
  BY FreshSnapshot
<1>3. RequestsOK' /\ listening' \in BOOLEAN
  BY <1>1, <1>2 DEF IInv, TypeOK, RequestsOK
<1>4. \A x \in Requester : SnapshotSound(answer'[x])
  BY <1>1, <1>2 DEF IInv, TypeOK, AnswerInv
<1>5. AnswerInv'
  BY <1>1, <1>4, SoundnessUnchanged DEF AnswerInv
<1>6. QED
  BY <1>1, <1>3, <1>5, MirrorUntouched, WebviewStep

LEMMA AnsweredStep ==
  ASSUME IInv, BootAnswered \/ RecoveryAnswered
  PROVE  IInv' /\ mirrorRev' >= mirrorRev
<1>1. PICK r \in Requester : Replace(answer[r])
  BY DEF BootAnswered, RecoveryAnswered, Requester
<1>2. /\ UNCHANGED <<backendVars, cursor, wire, listening, answer, failed, lost>>
      /\ RequestsOK'
  <2>1. CASE BootAnswered
    BY <2>1 DEF BootAnswered, IInv, TypeOK, RequestsOK, Requester, HasRevisionGap
  <2>2. CASE RecoveryAnswered
    BY <2>2 DEF RecoveryAnswered, RecoverySettled, IInv, TypeOK, RequestsOK, Requester
  <2>3. QED
    BY <2>1, <2>2
<1>3. MirrorSound' /\ mirrorRev' >= mirrorRev
  BY <1>1, <1>2, ReplaceMirrorSound DEF IInv, AnswerInv
<1>4. wire' \in Seq(Message) /\ WireInv' /\ AnswerInv' /\ listening' \in BOOLEAN
  BY <1>2, SoundnessUnchanged DEF IInv, TypeOK, WireInv, AnswerInv
<1>5. QED
  BY <1>2, <1>3, <1>4, WebviewStep

-----------------------------------------------------------------------------
(* StateMirror: the theorems *)

LEMMA InitSound == Init => IInv
<1>1. SUFFICES ASSUME Init PROVE IInv
  OBVIOUS
<1>2. /\ <<>> \in Seq(Event) /\ <<>> \in Seq(VersionedEvent) /\ <<>> \in Seq(Message)
      /\ Len(<<>>) = 0
  BY EmptySeq
<1>3. SnapshotSound([revision |-> 0, state |-> <<>>])
  BY <1>1, <1>2, SubSeqEmpty DEF Init, SnapshotSound, Prefix
<1>4. TypeOK
  <2>1. answer \in [Requester -> Snapshot]
    BY <1>1, <1>2 DEF Init, Snapshot
  <2>2. staged \in [Emitter -> Seq(VersionedEvent)]
    BY <1>1, <1>2 DEF Init
  <2>3. DOMAIN pending = {}
    BY <1>1 DEF Init
  <2>4. /\ state \in Seq(Event) /\ sent \in Seq(VersionedEvent) /\ wire \in Seq(Message)
        /\ mirror \in Seq(Event) /\ revision = Len(state)
    BY <1>1, <1>2 DEF Init
  <2>5. /\ lock \subseteq Emitter /\ cursor \in Nat \ {0} /\ listening \in BOOLEAN
        /\ mirrorRev \in Nat \cup {Null} /\ recoveryRequested \in BOOLEAN
        /\ request \in [Requester -> {"idle", "asked", "answered", "done", "failed"}]
        /\ lost \in 0..MaxLost /\ failed \in 0..MaxFailed
    <3>1. request \in [Requester -> {"idle", "asked", "answered", "done", "failed"}]
      BY <1>1 DEF Init
    <3>2. listening \in BOOLEAN /\ recoveryRequested \in BOOLEAN
      BY <1>1 DEF Init
    <3>3. lost \in 0..MaxLost /\ failed \in 0..MaxFailed
      BY <1>1, BoundAssumption DEF Init
    <3>4. lock \subseteq Emitter /\ cursor \in Nat \ {0} /\ mirrorRev \in Nat \cup {Null}
      BY <1>1 DEF Init
    <3>5. QED
      BY <3>1, <3>2, <3>3, <3>4
  <2>6. QED
    BY <2>1, <2>2, <2>3, <2>4, <2>5 DEF TypeOK
<1>5. GuardInv /\ BroadcastInOrder /\ WireInv
  BY <1>1, <1>2 DEF Init, GuardInv, BroadcastInOrder, WireInv
<1>6. PendingInv /\ AnswerInv /\ MirrorIsAuthoritative
  BY <1>1, <1>3 DEF Init, PendingInv, AnswerInv, MirrorIsAuthoritative
<1>7. QED
  BY <1>4, <1>5, <1>6 DEF IInv

\* Steps of the emitters and of the forwarder leave the mirror alone; every
\* other step leaves the authoritative state alone.
LEMMA NextSound ==
  ASSUME IInv, [Next]_vars
  PROVE  /\ IInv'
         /\ \/ /\ UNCHANGED <<mirrorRev, mirror>>
               /\ \/ UNCHANGED state
                  \/ \E e \in Event : state' = Append(state, e)
            \/ UNCHANGED state /\ mirrorRev' >= mirrorRev
<1>1. ASSUME NEW t \in Emitter, EmitReduce(t)
      PROVE  /\ IInv' /\ UNCHANGED <<mirrorRev, mirror>>
             /\ \E e \in Event : state' = Append(state, e)
  BY <1>1, EmitReduceStep DEF EmitReduce, mirrorVars
<1>2. ASSUME NEW t \in Emitter, EmitSend(t)
      PROVE  IInv' /\ UNCHANGED <<mirrorRev, mirror, state>>
  BY <1>2, EmitSendStep DEF EmitSend, mirrorVars
<1>3. ASSUME ForwardEvent
      PROVE  IInv' /\ UNCHANGED <<mirrorRev, mirror, state>>
  BY <1>3, ForwardEventStep DEF ForwardEvent, mirrorVars, backendVars
<1>4. ASSUME ForwardResubscribe
      PROVE  IInv' /\ UNCHANGED <<mirrorRev, mirror, state>>
  BY <1>4, ForwardResubscribeStep DEF ForwardResubscribe, mirrorVars, backendVars
<1>5. ASSUME ReceiveSnapshot
      PROVE  IInv' /\ mirrorRev' >= mirrorRev /\ UNCHANGED state
  BY <1>5, ReceiveSnapshotStep DEF ReceiveSnapshot, backendVars
<1>6. ASSUME ReceiveEvent
      PROVE  IInv' /\ mirrorRev' >= mirrorRev /\ UNCHANGED state
  BY <1>6, ReceiveEventStep DEF ReceiveEvent, backendVars
<1>7. ASSUME Listen \/ AskBootSnapshot \/ BootFailed \/ RecoveryFailed
      PROVE  IInv' /\ mirrorRev' >= mirrorRev /\ UNCHANGED state
  BY <1>7, AskStep DEF Listen, AskBootSnapshot, BootFailed, RecoveryFailed, backendVars
<1>8. ASSUME NEW r \in Requester, ServeSnapshot(r)
      PROVE  IInv' /\ mirrorRev' >= mirrorRev /\ UNCHANGED state
  BY <1>8, ServeSnapshotStep DEF ServeSnapshot, backendVars
<1>9. ASSUME BootAnswered \/ RecoveryAnswered
      PROVE  IInv' /\ mirrorRev' >= mirrorRev /\ UNCHANGED state
  BY <1>9, AnsweredStep DEF BootAnswered, RecoveryAnswered, backendVars
<1>10. ASSUME UNCHANGED vars
       PROVE  IInv' /\ UNCHANGED <<mirrorRev, mirror, state>>
  <2>1. UNCHANGED <<backendVars, cursor, wire, listening, mirrorVars, requestVars, lost>>
    BY <1>10 DEF vars
  <2>2. TypeOK'
    BY <2>1 DEF IInv, TypeOK, backendVars, mirrorVars, requestVars
  <2>3. (GuardInv /\ BroadcastInOrder /\ MirrorIsAuthoritative)'
    BY <2>1 DEF IInv, GuardInv, BroadcastInOrder, MirrorIsAuthoritative, backendVars,
                mirrorVars
  <2>4. (WireInv /\ PendingInv /\ AnswerInv)'
    BY <2>1, SoundnessUnchanged DEF IInv, WireInv, PendingInv, AnswerInv, mirrorVars,
                                    requestVars
  <2>5. QED
    BY <2>1, <2>2, <2>3, <2>4 DEF IInv, backendVars, mirrorVars
<1>11. QED
  BY <1>1, <1>2, <1>3, <1>4, <1>5, <1>6, <1>7, <1>8, <1>9, <1>10
     DEF Next, Forwarder, Webview

THEOREM Invariance == Spec => []IInv
<1>1. Init => IInv
  BY InitSound
<1>2. IInv /\ [Next]_vars => IInv'
  BY NextSound
<1>3. QED
  BY <1>1, <1>2, PTL DEF Spec

\* Every variable keeps its shape: revisions count the reduced events
\* (runtime/mod.rs:179-184) and the counters of losses stay in their bounds.
THEOREM TypeCorrect == Spec => []TypeOK
<1>1. IInv => TypeOK
  BY DEF IInv
<1>2. QED
  BY <1>1, Invariance, PTL

\* Whatever is lost, lags, fails or answers late, the frontend store is the
\* authoritative state of the revision it claims (revisionedMirror.ts:5-12).
THEOREM MirrorCorrect == Spec => []MirrorIsAuthoritative
<1>1. IInv => MirrorIsAuthoritative
  BY DEF IInv
<1>2. QED
  BY <1>1, Invariance, PTL

\* The broadcast channel never carries revision N+1 before N, however many
\* tasks emit at once (runtime/mod.rs:168-178).
THEOREM BroadcastCorrect == Spec => []BroadcastInOrder
<1>1. IInv => BroadcastInOrder
  BY DEF IInv
<1>2. QED
  BY <1>1, Invariance, PTL

\* The mirror's revision never goes down (revisionedMirror.ts:46-51).
THEOREM NoRollback == Spec => NeverRollsBack
<1>1. IInv /\ [Next]_vars => [mirrorRev' >= mirrorRev]_vars
  <2>1. SUFFICES ASSUME IInv, [Next]_vars PROVE mirrorRev' >= mirrorRev
    OBVIOUS
  <2>2. mirrorRev \in Nat \cup {Null}
    BY <2>1 DEF IInv, TypeOK
  <2>3. QED
    BY <2>1, <2>2, NextSound DEF Null
<1>2. QED
  BY <1>1, Invariance, PTL DEF Spec, NeverRollsBack

\* The whole path, from concurrent emitters through lag, loss and recovery to
\* the store, is a viewer that shows growing prefixes of the backend's history.
THEOREM Refinement == Spec => ImplementsView
<1>1. Init => View!ViewInit
  BY DEF Init, View!ViewInit
<1>2. IInv /\ IInv' /\ [Next]_vars => [View!ViewNext]_View!viewVars
  <2>1. SUFFICES ASSUME IInv, IInv', [Next]_vars
                 PROVE  View!ViewNext \/ UNCHANGED View!viewVars
    OBVIOUS
  <2>2. CASE UNCHANGED <<mirrorRev, mirror>> /\ UNCHANGED state
    BY <2>2 DEF View!viewVars
  <2>3. CASE UNCHANGED <<mirrorRev, mirror>> /\ \E e \in Event : state' = Append(state, e)
    BY <2>3 DEF View!ViewNext, View!Reduced
  <2>4. CASE UNCHANGED state /\ mirrorRev' >= mirrorRev
    <3>1. /\ state \in Seq(Event) /\ revision = Len(state) /\ Len(state) \in Nat
          /\ mirrorRev \in Nat \cup {Null}
          /\ mirrorRev # Null => mirrorRev <= Len(state) /\ mirror = Prefix(state, mirrorRev)
      BY <2>1, LenProperties DEF IInv, TypeOK, MirrorIsAuthoritative
    <3>2. /\ mirrorRev' \in Nat \cup {Null} /\ revision' = Len(state')
          /\ mirrorRev' # Null =>
                mirrorRev' <= Len(state) /\ mirror' = Prefix(state, mirrorRev')
      BY <2>1, <2>4 DEF IInv, TypeOK, MirrorIsAuthoritative
    <3>3. CASE mirrorRev' = Null
      <4>1. mirrorRev = Null
        BY <2>4, <3>1, <3>3 DEF Null
      <4>2. QED
        BY <2>4, <3>3, <4>1 DEF View!viewVars
    <3>4. CASE mirrorRev' # Null
      <4>1. mirrorRev' \in 0..Len(state)
        BY <3>1, <3>2, <3>4 DEF Null
      <4>2. mirrorRev # Null => Len(mirror) = mirrorRev
        BY <3>1, PrefixElements DEF Null
      <4>3. \A s \in (IF mirrorRev = Null THEN {} ELSE {mirror}) : Len(s) <= mirrorRev'
        BY <2>4, <4>2
      <4>4. (IF mirrorRev' = Null THEN {} ELSE {mirror'}) = {SubSeq(state, 1, mirrorRev')}
        BY <3>2, <3>4 DEF Prefix
      <4>5. View!Shown
        BY <2>4, <4>1, <4>3, <4>4 DEF View!Shown, View!Prefix
      <4>6. QED
        BY <4>5 DEF View!ViewNext
    <3>5. QED
      BY <3>3, <3>4
  <2>5. QED
    BY <2>1, <2>2, <2>3, <2>4, NextSound
<1>3. QED
  BY <1>1, <1>2, Invariance, PTL DEF Spec, ImplementsView, View!ViewSpec

-----------------------------------------------------------------------------
(* ChatSession: facts about its queues, and the screen after some updates *)

\* The elements of a finite set, each once.
LEMMA SetAsSeq ==
  ASSUME NEW S, IsFiniteSet(S)
  PROVE  /\ SetToSeq(S) \in Seq(S)
         /\ Len(SetToSeq(S)) = Cardinality(S)
         /\ Cardinality(S) \in Nat
         /\ \A x \in S : \E i \in 1..Len(SetToSeq(S)) : SetToSeq(S)[i] = x
<1> DEFINE n == Cardinality(S)
           One(f) == f \in [1..n -> S] /\ IsInjective(f)
<1>1. n \in Nat /\ \E f : One(f)
  BY FS_CardinalityType DEF ExistsBijection, Bijection, Injection
<1>2. SetToSeq(S) = CHOOSE f \in [1..n -> S] : IsInjective(f)
  BY DEF SetToSeq
<1>3. One(SetToSeq(S))
  BY <1>1, <1>2
<1> DEFINE q == SetToSeq(S)
<1>4. q \in Seq(S) /\ Len(q) = n
  BY <1>1, <1>3
<1>5. \A x \in S : \E i \in 1..n : q[i] = x
  <2>1. IsFiniteSet(1..n) /\ Cardinality(1..n) = n
    BY <1>1, FS_Interval
  <2>2. q \in Injection(1..n, S)
    BY <1>3 DEF Injection
  <2>3. q \in Surjection(1..n, S)
    BY <2>1, <2>2, FS_Injection
  <2>4. QED
    BY <2>3 DEF Surjection
<1>6. QED
  BY <1>1, <1>4, <1>5

\* us after each of ups, and us before them.
Plays(S, us, ups) ==
  /\ S \in Seq([Channel -> Roster])
  /\ Len(S) = Len(ups) + 1
  /\ S[1] = us
  /\ \A i \in 1..Len(ups) : S[i + 1] = UsersAfter(S[i], ups[i])

LEMMA PlaysEnd ==
  ASSUME NEW us, NEW ups, Len(ups) \in Nat, NEW S, Plays(S, us, ups)
  PROVE  ScreenAfter(us, ups) = S[Len(S)]
<1> DEFINE n == Len(ups)
           Good(f) == f = [i \in 0..n |-> IF i = 0 THEN us ELSE UsersAfter(f[i - 1], ups[i])]
           g == CHOOSE f : Good(f)
           w == [i \in 0..n |-> S[i + 1]]
<1>1. Good(w)
  <2>1. ASSUME NEW i \in 0..n
        PROVE  S[i + 1] = IF i = 0 THEN us ELSE UsersAfter(w[i - 1], ups[i])
    <3>1. CASE i = 0
      BY <3>1 DEF Plays
    <3>2. CASE i # 0
      <4>1. i \in 1..n /\ i - 1 \in 0..n /\ w[i - 1] = S[i]
        BY <3>2
      <4>2. QED
        BY <3>2, <4>1 DEF Plays
    <3>3. QED
      BY <3>1, <3>2
  <2>2. QED
    BY <2>1
<1>2. Good(g)
  <2> HIDE DEF Good
  <2>1. QED
    BY <1>1
<1>3. ScreenAfter(us, ups) = g[n]
  BY DEF ScreenAfter
<1>4. w[n] = S[Len(S)]
  BY DEF Plays
<1> HIDE DEF g
<1>5. \A i \in 0..n : g[i] = IF i = 0 THEN us ELSE UsersAfter(g[i - 1], ups[i])
  BY <1>2
<1>6. \A i \in 0..n : w[i] = IF i = 0 THEN us ELSE UsersAfter(w[i - 1], ups[i])
  <2> HIDE DEF w
  <2>1. QED
    BY <1>1
<1>7. ASSUME g[n] # w[n] PROVE FALSE
  <2> HIDE DEF w, n
  <2> DEFINE T == {i \in 0..n : g[i] # w[i]}
  <2>1. n \in T /\ T \subseteq Nat
    BY <1>7 DEF n
  <2>2. PICK x \in T : \A y \in T : x <= y
    BY <2>1, LeastNumber
  <2>3. x \in 0..n /\ n \in Nat /\ x # 0
    BY <1>5, <1>6, <2>2 DEF n
  <2>4. x - 1 \in 0..n /\ g[x - 1] = w[x - 1]
    BY <2>2, <2>3
  <2>5. QED
    BY <1>5, <1>6, <2>2, <2>3, <2>4
<1>8. QED
  BY <1>3, <1>4, <1>7

-----------------------------------------------------------------------------
(* ChatSession: what updates and lines carry *)

LEMMA UpdateFields ==
  \A t, c, n, m, k, r : LET u == Update(t, c, n, m, k, r)
                        IN  /\ u.type = t /\ u.channel = c /\ u.nick = n
                            /\ u.to = m /\ u.rank = k /\ u.names = r
BY DEF Update

LEMMA Carried ==
  ASSUME NEW types, NEW everywhere, NEW people, NEW t \in types,
         NEW c \in Channel \cup {"none"}, NEW n \in Nick \cup {"nobody"},
         NEW m \in Nick \cup {"nobody"}, NEW k \in Rank, NEW r \in Roster,
         t \notin everywhere => c \in Channel, t \in people => n \in Nick /\ m \in Nick
  PROVE  Update(t, c, n, m, k, r) \in Carrying(types, everywhere, people)
BY DEF Update, Carrying

LEMMA NobodyIsRoster == Nobody \in Roster /\ NoRosters \in [Channel -> Roster]
BY DEF Nobody, NoRosters, Roster, Rank

LEMMA UpdatesTyped ==
  /\ \A t \in {"connected", "disconnected"} : StatusUpdate(t) \in ChatUpdate
  /\ \A t \in {"channelJoined", "channelLeft", "message"}, c \in Channel :
       ChannelUpdate(t, c) \in ChatUpdate
  /\ \A c \in Channel, r \in Roster : RosterUpdate("users", c, r) \in ChatUpdate
  /\ \A t \in {"userJoined", "userLeft", "elevation"}, c \in Channel, n \in Nick, k \in Rank :
       PersonUpdate(t, c, n, k) \in ChatUpdate
  /\ \A n, m \in Nick : RenameUpdate("userRenamed", n, m) \in ChatUpdate
<1> USE Carried, NobodyIsRoster
<1> DEFINE types == {"connected", "disconnected", "channelJoined", "channelLeft", "users",
                     "userJoined", "userLeft", "elevation", "userRenamed", "message"}
           everywhere == {"connected", "disconnected", "userRenamed"}
           people == {"userJoined", "userLeft", "elevation", "userRenamed"}
<1>1. ChatUpdate = Carrying(types, everywhere, people)
  BY DEF ChatUpdate
<1> HIDE DEF types, everywhere, people
<1>2. "absent" \in Rank /\ "none" \in Channel \cup {"none"} /\ "nobody" \in Nick \cup {"nobody"}
  BY DEF Rank
<1>3. \A t \in {"connected", "disconnected"} : StatusUpdate(t) \in ChatUpdate
  BY <1>1, <1>2 DEF StatusUpdate, types, everywhere, people
<1>4. \A t \in {"channelJoined", "channelLeft", "message"}, c \in Channel :
        ChannelUpdate(t, c) \in ChatUpdate
  BY <1>1, <1>2 DEF ChannelUpdate, types, everywhere, people
<1>5. \A c \in Channel, r \in Roster : RosterUpdate("users", c, r) \in ChatUpdate
  BY <1>1, <1>2 DEF RosterUpdate, types, everywhere, people
<1>6. \A t \in {"userJoined", "userLeft", "elevation"}, c \in Channel, n \in Nick, k \in Rank :
        PersonUpdate(t, c, n, k) \in ChatUpdate
  BY <1>1, <1>2 DEF PersonUpdate, types, everywhere, people
<1>7. \A n, m \in Nick : RenameUpdate("userRenamed", n, m) \in ChatUpdate
  BY <1>1, <1>2 DEF RenameUpdate, types, everywhere, people
<1>8. QED
  BY <1>3, <1>4, <1>5, <1>6, <1>7

LEMMA LinesTyped ==
  /\ StatusUpdate("welcome") \in ServerLine
  /\ \A t \in {"joinMe", "endOfNames", "partMe", "kickMe", "message"}, c \in Channel :
       ChannelUpdate(t, c) \in ServerLine
  /\ \A c \in Channel, r \in Roster : RosterUpdate("names", c, r) \in ServerLine
  /\ \A t \in {"join", "part", "mode"}, c \in Channel, n \in Nick, k \in Rank :
       PersonUpdate(t, c, n, k) \in ServerLine
  /\ \A n \in Nick : PersonUpdate("quit", "none", n, "absent") \in ServerLine
  /\ \A n, m \in Nick : RenameUpdate("nick", n, m) \in ServerLine
<1> USE Carried, NobodyIsRoster
<1> DEFINE types == {"welcome", "joinMe", "names", "endOfNames", "join", "part", "partMe", "kickMe",
                     "quit", "nick", "mode", "message"}
           everywhere == {"welcome", "quit", "nick"}
           people == {"join", "part", "quit", "nick", "mode"}
<1>1. ServerLine = Carrying(types, everywhere, people)
  BY DEF ServerLine
<1> HIDE DEF types, everywhere, people
<1>2. "absent" \in Rank /\ "none" \in Channel \cup {"none"} /\ "nobody" \in Nick \cup {"nobody"}
  BY DEF Rank
<1>3. StatusUpdate("welcome") \in ServerLine
  BY <1>1, <1>2 DEF StatusUpdate, types, everywhere, people
<1>4. ASSUME NEW t \in {"joinMe", "endOfNames", "partMe", "kickMe", "message"}, NEW c \in Channel
      PROVE  ChannelUpdate(t, c) \in ServerLine
  <2>1. t \in types /\ t \notin people /\ c \in Channel \cup {"none"}
    BY DEF types, people
  <2>2. Update(t, c, "nobody", "nobody", "absent", Nobody) \in Carrying(types, everywhere, people)
    BY <1>2, <2>1
  <2>3. QED
    BY <1>1, <2>2 DEF ChannelUpdate
<1>5. \A c \in Channel, r \in Roster : RosterUpdate("names", c, r) \in ServerLine
  BY <1>1, <1>2 DEF RosterUpdate, types, everywhere, people
<1>6. \A t \in {"join", "part", "mode"}, c \in Channel, n \in Nick, k \in Rank :
        PersonUpdate(t, c, n, k) \in ServerLine
  BY <1>1, <1>2 DEF PersonUpdate, types, everywhere, people
<1>7. ASSUME NEW n \in Nick PROVE PersonUpdate("quit", "none", n, "absent") \in ServerLine
  <2>1. "quit" \in types /\ "quit" \in everywhere /\ n \in Nick \cup {"nobody"}
    BY DEF types, everywhere
  <2>2. Update("quit", "none", n, n, "absent", Nobody) \in Carrying(types, everywhere, people)
    BY <1>2, <2>1
  <2>3. QED
    BY <1>1, <2>2 DEF PersonUpdate
<1>8. \A n, m \in Nick : RenameUpdate("nick", n, m) \in ServerLine
  BY <1>1, <1>2 DEF RenameUpdate, types, everywhere, people
<1>9. QED
  BY <1>3, <1>4, <1>5, <1>6, <1>7, <1>8

\* The fields of a line, by what it says.
LEMMA LineFields ==
  ASSUME NEW f \in ServerLine
  PROVE  /\ f.type \notin {"welcome", "quit", "nick"} => f.channel \in Channel
         /\ f.type \in {"join", "part", "quit", "nick", "mode"} => f.nick \in Nick /\ f.to \in Nick
         /\ f.rank \in Rank /\ f.names \in Roster
BY DEF ServerLine, Carrying

LEMMA ChatUpdateFields ==
  ASSUME NEW u \in ChatUpdate
  PROVE  /\ u.type \in {"connected", "disconnected", "channelJoined", "channelLeft", "users",
                        "userJoined", "userLeft", "elevation", "userRenamed", "message"}
         /\ u.type \notin {"connected", "disconnected", "userRenamed"} => u.channel \in Channel
         /\ u.type \in {"userJoined", "userLeft", "elevation", "userRenamed"}
              => u.nick \in Nick /\ u.to \in Nick
         /\ u.rank \in Rank /\ u.names \in Roster
BY DEF ChatUpdate, Carrying

LEMMA RenamedTyped ==
  ASSUME NEW r \in Roster, NEW n \in Nick, NEW m \in Nick
  PROVE  Renamed(r, n, m) \in Roster /\ (r = Nobody => Renamed(r, n, m) = Nobody)
BY DEF Renamed, Roster, Rank, Nobody

\* An update makes rosters of rosters, and shows nobody in a channel that has
\* no tab.
LEMMA UsersTyped ==
  ASSUME NEW us \in [Channel -> Roster], NEW u \in ChatUpdate
  PROVE  /\ UsersAfter(us, u) \in [Channel -> Roster]
         /\ \A c \in Channel : us[c] = Nobody /\ ~(u.type \in Opens /\ u.channel = c)
                               => UsersAfter(us, u)[c] = Nobody
         /\ u.type = "channelLeft" => UsersAfter(us, u)[u.channel] = Nobody
<1> USE ChatUpdateFields, NobodyIsRoster
<1>1. CASE u.type = "users"
  BY <1>1 DEF UsersAfter, Opens
<1>2. CASE u.type = "userJoined"
  BY <1>2 DEF UsersAfter, Opens, Roster, Rank
<1>3. CASE u.type = "userLeft"
  BY <1>3 DEF UsersAfter, Opens, Roster, Rank, Nobody
<1>4. CASE u.type = "elevation"
  BY <1>4 DEF UsersAfter, Opens, Roster, Rank, Nobody
<1>5. CASE u.type = "userRenamed"
  BY <1>5, RenamedTyped DEF UsersAfter, Opens
<1>6. CASE u.type = "channelLeft"
  BY <1>6 DEF UsersAfter, Opens
<1>7. CASE u.type = "disconnected"
  BY <1>7 DEF UsersAfter, Opens, NoRosters
<1>8. CASE u.type \in {"connected", "channelJoined", "message"}
  BY <1>8 DEF UsersAfter
<1>9. QED
  BY <1>1, <1>2, <1>3, <1>4, <1>5, <1>6, <1>7, <1>8

-----------------------------------------------------------------------------
(* ChatSession: queues *)

\* One more at the end of a queue.
LEMMA OneMore ==
  ASSUME NEW T, NEW s \in Seq(T), NEW x \in T
  PROVE  /\ s \o <<x>> \in Seq(T) /\ Append(s, x) = s \o <<x>>
         /\ Len(s \o <<x>>) = Len(s) + 1
         /\ \A i \in 1..Len(s) : (s \o <<x>>)[i] = s[i]
         /\ (s \o <<x>>)[Len(s) + 1] = x
OBVIOUS

\* One less at its front.
LEMMA OneLess ==
  ASSUME NEW T, NEW s \in Seq(T), s # <<>>
  PROVE  /\ Head(s) \in T /\ Head(s) = s[1]
         /\ Tail(s) \in Seq(T)
         /\ Len(s) \in Nat \ {0} /\ Len(Tail(s)) = Len(s) - 1
         /\ \A i \in 1..Len(s) - 1 : Tail(s)[i] = s[i + 1]
OBVIOUS

LEMMA ChannelCount == Cardinality(Channel) \in Nat
BY ChannelAssumption, FS_CardinalityType

\* A JOIN for each of some channels.
Joins(cs) == SetToSeq({Line("JOIN", c) : c \in cs})

LEMMA JoinsFacts ==
  ASSUME NEW cs \in SUBSET Channel
  PROVE  /\ Joins(cs) \in Seq(Command)
         /\ \A i \in 1..Len(Joins(cs)) : Joins(cs)[i].command = "JOIN"
         /\ \A c \in cs : \E i \in 1..Len(Joins(cs)) : Joins(cs)[i] = Line("JOIN", c)
<1> DEFINE T == {Line("JOIN", c) : c \in cs}
           f == [c \in cs |-> Line("JOIN", c)]
<1>1. f \in Surjection(cs, T)
  BY DEF Surjection
<1>2. IsFiniteSet(T)
  BY <1>1, ChannelAssumption, FS_Subset, FS_Surjection
<1>3. \A x \in T : x \in Command /\ x.command = "JOIN"
  BY DEF Line, Command
<1> HIDE DEF T
<1> DEFINE q == SetToSeq(T)
<1>4. q \in Seq(T) /\ \A x \in T : \E i \in 1..Len(q) : q[i] = x
  BY <1>2, SetAsSeq
<1> HIDE DEF q
<1>5. q \in Seq(Command) /\ \A i \in 1..Len(q) : q[i].command = "JOIN"
  BY <1>3, <1>4
<1>6. \A c \in cs : \E i \in 1..Len(q) : q[i] = Line("JOIN", c)
  BY <1>4 DEF T
<1>7. QED
  BY <1>5, <1>6 DEF q, T, Joins

\* The departures a QUIT brings, one for each channel the person was in.
Departures(n) == SetToSeq({PersonUpdate("userLeft", c, n, "absent") : c \in ChannelsWith(n)})

LEMMA DepartureFacts ==
  ASSUME NEW n \in Nick
  PROVE  /\ Departures(n) \in Seq(ChatUpdate)
         /\ Len(Departures(n)) <= Cardinality(Channel)
         /\ \A i \in 1..Len(Departures(n)) : \E c \in ChannelsWith(n) :
              Departures(n)[i] = PersonUpdate("userLeft", c, n, "absent")
         /\ \A c \in ChannelsWith(n) : \E i \in 1..Len(Departures(n)) :
              Departures(n)[i] = PersonUpdate("userLeft", c, n, "absent")
<1> DEFINE cs == ChannelsWith(n)
           T == {PersonUpdate("userLeft", c, n, "absent") : c \in cs}
           f == [c \in cs |-> PersonUpdate("userLeft", c, n, "absent")]
<1>1. cs \in SUBSET Channel
  BY DEF ChannelsWith
<1> HIDE DEF cs
<1>2. f \in Surjection(cs, T)
  BY DEF Surjection
<1>3. IsFiniteSet(T) /\ Cardinality(T) <= Cardinality(cs) /\ Cardinality(cs) <= Cardinality(Channel)
  BY <1>1, <1>2, ChannelAssumption, FS_Subset, FS_Surjection
<1>4. Cardinality(cs) \in Nat
  BY <1>1, ChannelAssumption, FS_Subset, FS_CardinalityType
<1>5. \A x \in T : x \in ChatUpdate /\ \E c \in cs : x = PersonUpdate("userLeft", c, n, "absent")
  BY <1>1, UpdatesTyped DEF Rank
<1>6. \A c \in cs : PersonUpdate("userLeft", c, n, "absent") \in T
  OBVIOUS
<1> HIDE DEF T
<1> DEFINE q == SetToSeq(T)
<1>7. /\ q \in Seq(T) /\ Len(q) = Cardinality(T) /\ Cardinality(T) \in Nat
      /\ \A x \in T : \E i \in 1..Len(q) : q[i] = x
  BY <1>3, SetAsSeq
<1> HIDE DEF q
<1>8. q = Departures(n)
  BY DEF q, T, cs, Departures
<1>9. Len(q) <= Cardinality(Channel)
  BY <1>3, <1>4, <1>7, ChannelCount
<1>10. QED
  BY <1>5, <1>6, <1>7, <1>8, <1>9 DEF cs

LEMMA ReadsTyped ==
  ASSUME ChatTypeOK, NEW t, Reads(t)
  PROVE  /\ Head(down) \in ServerLine /\ Head(down).type = t
         /\ down' \in Seq(ServerLine)
         /\ Len(updates) < UpdateCap
BY DEF ChatTypeOK, Reads

LEMMA EmitsTyped ==
  ASSUME ChatTypeOK, NEW us \in Seq(ChatUpdate), Len(us) <= 1 \/ Len(us) <= Cardinality(Channel),
         Emits(us), Len(updates) < UpdateCap
  PROVE  updates' \in Seq(ChatUpdate) /\ Len(updates') <= UpdateCap + Cardinality(Channel)
BY ChannelCount, LimitAssumption DEF ChatTypeOK, Emits

-----------------------------------------------------------------------------
(* ChatSession: types *)

LEMMA JoinChannelsTyped ==
  ASSUME ChatTypeOK, NEW cs \in SUBSET Channel, JoinChannels(cs)
  PROVE  wanted' \subseteq Channel /\ outgoing' \in Seq(Command)
<1>1. outgoing' = outgoing \o Joins(cs) /\ wanted' = wanted \cup cs
  BY DEF JoinChannels, Joins
<1>2. QED
  BY <1>1, JoinsFacts DEF ChatTypeOK

LEMMA UserTyped ==
  ASSUME ChatTypeOK, NEW c \in Channel, Join(c) \/ Leave(c)
  PROVE  ChatTypeOK'
<1> USE DEF viewVars, serviceVars, sessionVars, serverVars, Bounded
<1>1. CASE Join(c)
  <2>1. wanted' \subseteq Channel /\ outgoing' \in Seq(Command)
    BY <1>1, JoinChannelsTyped DEF Join
  <2>2. QED
    BY <1>1, <2>1, LimitAssumption DEF Join, ChatTypeOK
<1>2. CASE Leave(c)
  <2>1. Line("PART", c) \in Command
    BY DEF Line, Command
  <2>2. QED
    BY <1>2, <2>1, LimitAssumption DEF Leave, ChatTypeOK
<1>3. QED
  BY <1>1, <1>2

LEMMA ServicesTyped ==
  ASSUME ChatTypeOK, Announce \/ JoinAnnounced \/ JoinAuto
  PROVE  ChatTypeOK'
<1> USE DEF viewVars, clientVars, sessionVars, serverVars
<1>1. announced \in SUBSET Channel
  BY AutoJoinAssumption DEF ChatTypeOK
<1>2. CASE Announce
  BY <1>2 DEF Announce, ChatTypeOK
<1>3. CASE JoinAnnounced
  <2>1. wanted' \subseteq Channel /\ outgoing' \in Seq(Command)
    BY <1>1, <1>3, JoinChannelsTyped DEF JoinAnnounced, ChatTypeOK
  <2>2. QED
    BY <1>3, <2>1 DEF JoinAnnounced, ChatTypeOK
<1>4. CASE JoinAuto
  <2>1. wanted' \subseteq Channel /\ outgoing' \in Seq(Command)
    BY <1>1, <1>4, JoinChannelsTyped DEF JoinAuto
  <2>2. QED
    BY <1>4, <2>1 DEF JoinAuto, ChatTypeOK
<1>5. QED
  BY <1>2, <1>3, <1>4

LEMMA RelayTyped ==
  ASSUME ChatTypeOK, Relay
  PROVE  ChatTypeOK'
<1> DEFINE u == Head(updates)
<1>1. u \in ChatUpdate /\ updates' \in Seq(ChatUpdate) /\ Len(updates') <= Len(updates)
  BY DEF Relay, ChatTypeOK
<1>2. /\ users' = UsersAfter(users, u)
      /\ open' = IF u.type \in Opens THEN open \cup {u.channel}
                 ELSE IF u.type = "channelLeft" THEN open \ {u.channel}
                 ELSE open
      /\ shown' = IF u.type = "message" THEN [shown EXCEPT ![u.channel] = @ + 1] ELSE shown
      /\ status' = IF u.type \in {"connected", "disconnected"} THEN u.type ELSE status
      /\ relay' \in {"relaying", "joining"}
  BY DEF Relay
<1> HIDE DEF u
<1>3. users' \in [Channel -> Roster]
  BY <1>1, <1>2, UsersTyped DEF ChatTypeOK
<1>4. open' \subseteq Channel /\ \A c \in Channel \ open' : users'[c] = Nobody
  <2>1. u.type \in Opens => u.channel \in Channel
    BY <1>1, ChatUpdateFields DEF Opens
  <2>2. open' \subseteq Channel
    BY <1>2, <2>1 DEF ChatTypeOK
  <2>3. ASSUME NEW c \in Channel \ open' PROVE users'[c] = Nobody
    <3>1. CASE u.type = "channelLeft" /\ c = u.channel
      BY <1>1, <1>2, <3>1, UsersTyped DEF ChatTypeOK
    <3>2. CASE ~(u.type = "channelLeft" /\ c = u.channel)
      <4>1. c \notin open /\ ~(u.type \in Opens /\ u.channel = c)
        BY <1>2, <2>3, <3>2
      <4>2. QED
        BY <1>1, <1>2, <4>1, UsersTyped DEF ChatTypeOK
    <3>3. QED
      BY <3>1, <3>2
  <2>4. QED
    BY <2>2, <2>3
<1>5. shown' \in [Channel -> Nat]
  BY <1>1, <1>2, ChatUpdateFields DEF ChatTypeOK
<1>6. Len(updates') <= UpdateCap + Cardinality(Channel)
  BY <1>1, ChannelCount, LimitAssumption DEF ChatTypeOK
<1>7. status' \in {"connected", "disconnected"}
  BY <1>2 DEF ChatTypeOK
<1>8. QED
  BY <1>1, <1>2, <1>3, <1>4, <1>5, <1>6, <1>7
     DEF Relay, ChatTypeOK, clientVars, sessionVars, serverVars

LEMMA SupervisorTyped ==
  ASSUME ChatTypeOK, Dial \/ ConnectionLost \/ ReportLost
  PROVE  ChatTypeOK'
<1> USE NobodyIsRoster DEF viewVars, serviceVars, clientVars, serverVars, Bounded
<1>1. CASE Dial
  BY <1>1 DEF Dial, ChatTypeOK
<1>2. CASE ConnectionLost
  <2>1. events' \in 0..MaxEvents
    BY <1>2, LimitAssumption DEF ConnectionLost, ChatTypeOK
  <2>2. naming' \in [Channel -> {"no", "names", "end"}] /\ up' = <<>> /\ down' = <<>>
    BY <1>2 DEF ConnectionLost
  <2>3. up' \in Seq(Command) /\ down' \in Seq(ServerLine)
    BY <2>2
  <2>4. conn' = "lost" /\ online' = FALSE /\ mine' = {} /\ blurred' = {}
        /\ UNCHANGED <<viewVars, serviceVars, clientVars, roster, pendingNames, asked, updates,
                       members, said, left>>
    BY <1>2 DEF ConnectionLost
  <2>5. QED
    BY <2>1, <2>2, <2>3, <2>4 DEF ChatTypeOK
<1>3. CASE ReportLost
  <2>1. updates' \in Seq(ChatUpdate) /\ Len(updates') <= UpdateCap + Cardinality(Channel)
    BY <1>3, UpdatesTyped, ChannelCount, LimitAssumption DEF ReportLost, ChatTypeOK
  <2>2. QED
    BY <1>3, <2>1 DEF ReportLost, ChatTypeOK
<1>4. QED
  BY <1>1, <1>2, <1>3

\* What a line read may change.
LEMMA SessionFrame ==
  ASSUME ChatTypeOK, Session,
         roster' \in [Channel -> Roster], pendingNames' \in [Channel -> Roster],
         wanted' \subseteq Channel, asked' \subseteq Channel, left' \subseteq Channel,
         up' \in Seq(Command), down' \in Seq(ServerLine), updates' \in Seq(ChatUpdate),
         Len(updates') <= UpdateCap + Cardinality(Channel)
  PROVE  ChatTypeOK'
<1>1. UNCHANGED <<viewVars, serviceVars, outgoing, conn, serverVars, events>>
  BY DEF Session, OnWelcome, OnJoinMe, OnNames, OnEndOfNames, OnJoin, OnPart, OnPartMe, OnKickMe,
         OnQuit, OnNick, OnMode, OnMessage, clientVars, sessionVars
<1>2. QED
  BY <1>1 DEF ChatTypeOK, viewVars, serviceVars, serverVars

LEMMA SessionTyped ==
  ASSUME ChatTypeOK, Session
  PROVE  ChatTypeOK'
<1> DEFINE f == Head(down)
<1>1. PICK t : Reads(t)
  BY DEF Session, OnWelcome, OnJoinMe, OnNames, OnEndOfNames, OnJoin, OnPart, OnPartMe, OnKickMe,
         OnQuit, OnNick, OnMode, OnMessage
<1>2. down' \in Seq(ServerLine) /\ f \in ServerLine /\ Len(updates) < UpdateCap
  BY <1>1, ReadsTyped
<1>3. f.type = t
  BY <1>1 DEF Reads
<1> HIDE DEF f
<1>4. /\ f.type \notin {"welcome", "quit", "nick"} => f.channel \in Channel
      /\ f.type \in {"join", "part", "quit", "nick", "mode"} => f.nick \in Nick /\ f.to \in Nick
      /\ f.rank \in Rank /\ f.names \in Roster
  BY <1>2, LineFields
<1>5. ASSUME NEW us \in Seq(ChatUpdate), Len(us) <= 1 \/ Len(us) <= Cardinality(Channel), Emits(us)
      PROVE  updates' \in Seq(ChatUpdate) /\ Len(updates') <= UpdateCap + Cardinality(Channel)
  BY <1>2, <1>5, EmitsTyped
<1>6. ASSUME NEW u \in ChatUpdate, Emits(<<u>>)
      PROVE  updates' \in Seq(ChatUpdate) /\ Len(updates') <= UpdateCap + Cardinality(Channel)
  <2>1. <<u>> \in Seq(ChatUpdate) /\ Len(<<u>>) <= 1
    OBVIOUS
  <2>2. QED
    BY <1>5, <1>6, <2>1
<1> USE NobodyIsRoster DEF viewVars, serviceVars, clientVars, sessionVars, serverVars
<1>7. CASE OnWelcome
  <2>1. wanted \in SUBSET Channel
    BY DEF ChatTypeOK
  <2>2. up' \in Seq(Command)
    <3>1. up' = up \o Joins(wanted)
      BY <1>7 DEF OnWelcome, Joins
    <3>2. QED
      BY <2>1, <3>1, JoinsFacts DEF ChatTypeOK
  <2>3. QED
    BY <1>2, <1>6, <1>7, <2>2, UpdatesTyped, SessionFrame DEF OnWelcome, ChatTypeOK
<1>8. CASE OnJoinMe
  <2>1. f.channel \in Channel /\ Emits(<<ChannelUpdate("channelJoined", f.channel)>>)
        /\ asked' = asked \cup {f.channel}
        /\ up' = IF f.channel \in asked THEN up ELSE Append(up, Line("CHATHISTORY", f.channel))
    BY <1>4, <1>8 DEF OnJoinMe, Reads, f
  <2>2. Line("CHATHISTORY", f.channel) \in Command
    BY <2>1 DEF Line, Command
  <2>3. up' \in Seq(Command) /\ asked' \subseteq Channel
    BY <2>1, <2>2 DEF ChatTypeOK
  <2>4. QED
    BY <1>2, <1>6, <1>8, <2>1, <2>3, UpdatesTyped, SessionFrame DEF OnJoinMe, ChatTypeOK
<1>9. CASE OnNames
  <2>1. f.channel \in Channel
        /\ pendingNames' = [pendingNames EXCEPT ![f.channel] =
                              [n \in Nick |-> IF f.names[n] = "absent" THEN @[n] ELSE f.names[n]]]
    BY <1>4, <1>9 DEF OnNames, Reads, f
  <2>2. pendingNames' \in [Channel -> Roster]
    BY <1>4, <2>1 DEF ChatTypeOK, Roster
  <2>3. QED
    BY <1>2, <1>9, <2>2, SessionFrame DEF OnNames, ChatTypeOK
<1>10. CASE OnEndOfNames
  <2>1. /\ f.channel \in Channel
        /\ Emits(<<RosterUpdate("users", f.channel, pendingNames[f.channel])>>)
        /\ roster' = [roster EXCEPT ![f.channel] = pendingNames[f.channel]]
        /\ pendingNames' = [pendingNames EXCEPT ![f.channel] = Nobody]
    BY <1>4, <1>10 DEF OnEndOfNames, Reads, f
  <2>2. pendingNames' \in [Channel -> Roster] /\ roster' \in [Channel -> Roster]
        /\ pendingNames[f.channel] \in Roster
    BY <2>1 DEF ChatTypeOK
  <2>3. QED
    BY <1>2, <1>6, <1>10, <2>1, <2>2, UpdatesTyped, SessionFrame DEF OnEndOfNames, ChatTypeOK
<1>11. CASE OnJoin
  <2>1. f.channel \in Channel /\ f.nick \in Nick
        /\ Emits(<<PersonUpdate("userJoined", f.channel, f.nick, "plain")>>)
        /\ roster' = [roster EXCEPT ![f.channel][f.nick] = "plain"]
    BY <1>4, <1>11 DEF OnJoin, Reads, f
  <2>2. roster' \in [Channel -> Roster] /\ "plain" \in Rank
    BY <2>1 DEF ChatTypeOK, Roster, Rank
  <2>3. QED
    BY <1>2, <1>6, <1>11, <2>1, <2>2, UpdatesTyped, SessionFrame DEF OnJoin, ChatTypeOK
<1>12. CASE OnPart
  <2>1. f.channel \in Channel /\ f.nick \in Nick
        /\ Emits(<<PersonUpdate("userLeft", f.channel, f.nick, "absent")>>)
        /\ roster' = [roster EXCEPT ![f.channel][f.nick] = "absent"]
    BY <1>4, <1>12 DEF OnPart, Reads, f
  <2>2. roster' \in [Channel -> Roster] /\ "absent" \in Rank
    BY <2>1 DEF ChatTypeOK, Roster, Rank
  <2>3. QED
    BY <1>2, <1>6, <1>12, <2>1, <2>2, UpdatesTyped, SessionFrame DEF OnPart, ChatTypeOK
<1>13. CASE OnPartMe \/ OnKickMe
  <2>1. f.channel \in Channel /\ Emits(<<ChannelUpdate("channelLeft", f.channel)>>)
        /\ roster' = [roster EXCEPT ![f.channel] = Nobody]
        /\ asked' = asked \ {f.channel}
        /\ wanted' \subseteq wanted /\ left' \subseteq left \cup {f.channel}
    BY <1>4, <1>13 DEF OnPartMe, OnKickMe, Forget, Reads, f
  <2>2. roster' \in [Channel -> Roster]
    BY <2>1 DEF ChatTypeOK
  <2>3. QED
    BY <1>2, <1>6, <1>13, <2>1, <2>2, UpdatesTyped, SessionFrame DEF OnPartMe, OnKickMe, ChatTypeOK
<1>14. CASE OnQuit
  <2>1. f.nick \in Nick /\ Emits(Departures(f.nick))
        /\ roster' = [c \in Channel |-> [roster[c] EXCEPT ![f.nick] = "absent"]]
    BY <1>4, <1>14 DEF OnQuit, Departures, Reads, f
  <2>2. roster' \in [Channel -> Roster]
    BY <2>1 DEF ChatTypeOK, Roster, Rank
  <2>3. updates' \in Seq(ChatUpdate) /\ Len(updates') <= UpdateCap + Cardinality(Channel)
    BY <1>5, <2>1, DepartureFacts
  <2>4. QED
    BY <1>2, <1>14, <2>2, <2>3, SessionFrame DEF OnQuit, ChatTypeOK
<1>15. CASE OnNick
  <2>1. f.nick \in Nick /\ f.to \in Nick /\ Emits(<<RenameUpdate("userRenamed", f.nick, f.to)>>)
        /\ roster' = [c \in Channel |-> Renamed(roster[c], f.nick, f.to)]
    BY <1>4, <1>15 DEF OnNick, Reads, f
  <2>2. roster' \in [Channel -> Roster]
    BY <2>1, RenamedTyped DEF ChatTypeOK
  <2>3. QED
    BY <1>2, <1>6, <1>15, <2>1, <2>2, UpdatesTyped, SessionFrame DEF OnNick, ChatTypeOK
<1>16. CASE OnMode
  <2>1. f.channel \in Channel /\ f.nick \in Nick /\ f.rank \in Rank
        /\ Emits(<<PersonUpdate("elevation", f.channel, f.nick, f.rank)>>)
        /\ roster' = [roster EXCEPT ![f.channel][f.nick] = IF @ = "absent" THEN @ ELSE f.rank]
    BY <1>4, <1>16 DEF OnMode, Reads, f
  <2>2. roster' \in [Channel -> Roster]
    BY <2>1 DEF ChatTypeOK, Roster, Rank
  <2>3. QED
    BY <1>2, <1>6, <1>16, <2>1, <2>2, UpdatesTyped, SessionFrame DEF OnMode, ChatTypeOK
<1>17. CASE OnMessage
  <2>1. f.channel \in Channel /\ Emits(<<ChannelUpdate("message", f.channel)>>)
    BY <1>4, <1>17 DEF OnMessage, Reads, f
  <2>2. QED
    BY <1>2, <1>6, <1>17, <2>1, UpdatesTyped, SessionFrame DEF OnMessage, ChatTypeOK
<1>18. QED
  BY <1>7, <1>8, <1>9, <1>10, <1>11, <1>12, <1>13, <1>14, <1>15, <1>16, <1>17 DEF Session

LEMMA ServerTyped ==
  ASSUME ChatTypeOK, Server
  PROVE  ChatTypeOK'
<1> USE DEF viewVars, serviceVars, clientVars, sessionVars, Says
<1>1. ASSUME NEW t, ServerTakes(t)
      PROVE  /\ up' \in Seq(Command) /\ outgoing' \in Seq(Command)
             /\ Head(Commands) \in Command /\ Head(Commands).channel \in Channel
             /\ UNCHANGED <<viewVars, serviceVars, wanted, sessionVars, updates, members, said,
                            events, left, online>>
  <2>1. /\ Commands = up \o outgoing /\ Commands # <<>>
        /\ up \in Seq(Command) /\ outgoing \in Seq(Command)
    BY <1>1 DEF ServerTakes, Commands, ChatTypeOK
  <2>2. Head(Commands) = (IF up # <<>> THEN Head(up) ELSE Head(outgoing))
        /\ (up = <<>> => outgoing # <<>>)
    BY <2>1
  <2>4. Head(Commands) \in Command
    BY <2>1, <2>2
  <2>5. up' \in Seq(Command) /\ outgoing' \in Seq(Command)
    <3>1. \/ up' = Tail(up) /\ up # <<>> /\ outgoing' = outgoing
          \/ outgoing' = Tail(outgoing) /\ outgoing # <<>> /\ up' = up
      BY <1>1, <2>2 DEF ServerTakes
    <3>2. QED
      BY <2>1, <3>1, OneLess
  <2>6. Head(Commands).channel \in Channel
    BY <2>4 DEF Command
  <2>7. QED
    BY <1>1, <2>4, <2>5, <2>6 DEF ServerTakes
<1>2. ASSUME up' \in Seq(Command), outgoing' \in Seq(Command), down' \in Seq(ServerLine),
             online' \in BOOLEAN, mine' \subseteq Channel, blurred' \subseteq Channel,
             naming' \in [Channel -> {"no", "names", "end"}],
             UNCHANGED <<viewVars, serviceVars, wanted, sessionVars, updates, members, said,
                         events, left>>
      PROVE  ChatTypeOK'
  BY <1>2 DEF ChatTypeOK
<1>13. ASSUME NEW x \in ServerLine PROVE down \o <<x>> \in Seq(ServerLine)
  BY OneMore DEF ChatTypeOK
<1>14. down \in Seq(ServerLine)
  BY DEF ChatTypeOK
<1>3. CASE ServerWelcomes
  <2>1. down' \in Seq(ServerLine)
    BY <1>3, <1>13, LinesTyped DEF ServerWelcomes
  <2>2. QED
    BY <1>2, <1>3, <2>1 DEF ServerWelcomes, ChatTypeOK
<1>4. CASE ServerTakesJoin
  <2> DEFINE c == Head(Commands).channel
  <2>1. c \in Channel /\ up' \in Seq(Command) /\ outgoing' \in Seq(Command)
        /\ UNCHANGED <<viewVars, serviceVars, wanted, sessionVars, updates, members, said,
                       events, left, online>>
    BY <1>1, <1>4 DEF ServerTakesJoin
  <2>2. \/ UNCHANGED <<mine, naming, blurred, down>>
        \/ /\ mine' = mine \cup {c} /\ naming' = [naming EXCEPT ![c] = "names"]
           /\ blurred' = blurred \ {c} /\ down' = down \o <<ChannelUpdate("joinMe", c)>>
    BY <1>4 DEF ServerTakesJoin
  <2> HIDE DEF c
  <2>3. down' \in Seq(ServerLine)
    BY <1>13, <1>14, <2>1, <2>2, LinesTyped
  <2>4. mine' \subseteq Channel /\ blurred' \subseteq Channel
        /\ naming' \in [Channel -> {"no", "names", "end"}]
    BY <2>1, <2>2 DEF ChatTypeOK
  <2>5. QED
    BY <1>2, <2>1, <2>3, <2>4 DEF ChatTypeOK
<1>5. CASE ServerTakesPart
  <2> DEFINE c == Head(Commands).channel
  <2>1. c \in Channel /\ up' \in Seq(Command) /\ outgoing' \in Seq(Command)
        /\ UNCHANGED <<viewVars, serviceVars, wanted, sessionVars, updates, members, said,
                       events, left, online>>
    BY <1>1, <1>5 DEF ServerTakesPart
  <2>2. mine' \subseteq mine /\ down' \in {down, down \o <<ChannelUpdate("partMe", c)>>}
        /\ UNCHANGED <<naming, blurred>>
    BY <1>5 DEF ServerTakesPart
  <2> HIDE DEF c
  <2>3. down' \in Seq(ServerLine)
    BY <1>13, <1>14, <2>1, <2>2, LinesTyped
  <2>4. QED
    BY <1>2, <2>1, <2>2, <2>3 DEF ChatTypeOK
<1>6. CASE ServerTakesHistory
  <2> DEFINE c == Head(Commands).channel
  <2>1. c \in Channel /\ up' \in Seq(Command) /\ outgoing' \in Seq(Command)
        /\ UNCHANGED <<viewVars, serviceVars, wanted, sessionVars, updates, members, said,
                       events, left, online>>
    BY <1>1, <1>6 DEF ServerTakesHistory
  <2>2. down' \in {down, down \o <<ChannelUpdate("message", c)>>}
        /\ UNCHANGED <<mine, naming, blurred>>
    BY <1>6 DEF ServerTakesHistory
  <2> HIDE DEF c
  <2>3. down' \in Seq(ServerLine)
    BY <1>13, <1>14, <2>1, <2>2, LinesTyped
  <2>4. QED
    BY <1>2, <2>1, <2>2, <2>3 DEF ChatTypeOK
<1>7. ASSUME NEW c \in Channel, ServerNames(c) PROVE ChatTypeOK'
  <2>1. members[c] \in Roster
    BY DEF ChatTypeOK
  <2>2. down' \in Seq(ServerLine)
    BY <1>7, <1>13, <2>1, LinesTyped DEF ServerNames
  <2>3. QED
    BY <1>2, <1>7, <2>2 DEF ServerNames, ChatTypeOK
<1>8. ASSUME NEW c \in Channel, ServerEndsNames(c) PROVE ChatTypeOK'
  <2>1. down' \in Seq(ServerLine)
    BY <1>8, <1>13, LinesTyped DEF ServerEndsNames
  <2>2. QED
    BY <1>2, <1>8, <2>1 DEF ServerEndsNames, ChatTypeOK
<1>9. QED
  BY <1>3, <1>4, <1>5, <1>6, <1>7, <1>8 DEF Server

\* What other people do.
OtherStep ==
  \/ Others
  \/ \E n \in Nick : OtherQuits(n) \/ \E m \in Nick : OtherRenames(n, m)

\* What an event changes, and the line that tells of it.
LEMMA HappensTyped ==
  ASSUME ChatTypeOK, NEW cs \in SUBSET Channel, NEW f \in ServerLine, Happens(cs, f),
         mine' \subseteq mine, members' \in [Channel -> Roster], said' \subseteq Channel
  PROVE  ChatTypeOK'
<1>1. events' \in 0..MaxEvents
  BY LimitAssumption DEF Happens, Bounded, ChatTypeOK
<1>2. down' \in Seq(ServerLine)
  <2>1. down \in Seq(ServerLine) /\ down' \in {down, down \o <<f>>}
    BY DEF Happens, Says, ChatTypeOK
  <2>2. QED
    BY <2>1, OneMore
<1>3. blurred' \subseteq Channel /\ mine' \subseteq Channel
  BY DEF Happens, ChatTypeOK
<1>4. UNCHANGED <<viewVars, serviceVars, clientVars, sessionVars, updates, online, naming, up,
                  left>>
  BY DEF Happens
<1>5. QED
  BY <1>1, <1>2, <1>3, <1>4
     DEF ChatTypeOK, viewVars, serviceVars, clientVars, sessionVars

LEMMA OthersTyped ==
  ASSUME ChatTypeOK, OtherStep
  PROVE  ChatTypeOK'
<1> USE LinesTyped, HappensTyped
<1>1. ASSUME NEW c \in Channel, NEW n \in Nick, OtherJoins(n, c) PROVE ChatTypeOK'
  <2>1. members' \in [Channel -> Roster]
    BY <1>1 DEF OtherJoins, ChatTypeOK, Roster, Rank
  <2>2. QED
    BY <1>1, <2>1 DEF OtherJoins, ChatTypeOK, Rank
<1>2. ASSUME NEW c \in Channel, NEW n \in Nick, OtherParts(n, c) PROVE ChatTypeOK'
  <2>1. members' \in [Channel -> Roster]
    BY <1>2 DEF OtherParts, ChatTypeOK, Roster, Rank
  <2>2. QED
    BY <1>2, <2>1 DEF OtherParts, ChatTypeOK, Rank
<1>3. ASSUME NEW c \in Channel, NEW n \in Nick, OtherIsOpped(n, c) PROVE ChatTypeOK'
  <2>1. members' \in [Channel -> Roster]
    BY <1>3 DEF OtherIsOpped, ChatTypeOK, Roster, Rank
  <2>2. QED
    BY <1>3, <2>1 DEF OtherIsOpped, ChatTypeOK, Rank
<1>4. ASSUME NEW c \in Channel, OtherSpeaks(c) PROVE ChatTypeOK'
  <2>1. said' \subseteq Channel /\ mine' \subseteq mine /\ members' \in [Channel -> Roster]
    BY <1>4 DEF OtherSpeaks, ChatTypeOK
  <2>2. QED
    BY <1>4, <2>1 DEF OtherSpeaks
<1>5. ASSUME NEW c \in Channel, KicksMe(c) PROVE ChatTypeOK'
  <2>1. said' \subseteq Channel /\ mine' \subseteq mine /\ members' \in [Channel -> Roster]
    BY <1>5 DEF KicksMe, ChatTypeOK
  <2>2. QED
    BY <1>5, <2>1 DEF KicksMe
<1>6. ASSUME NEW n \in Nick, OtherQuits(n) PROVE ChatTypeOK'
  <2>1. members' \in [Channel -> Roster] /\ ChannelsOf(n) \in SUBSET Channel
    BY <1>6 DEF OtherQuits, ChannelsOf, ChatTypeOK, Roster, Rank
  <2>2. QED
    BY <1>6, <2>1 DEF OtherQuits, ChatTypeOK
<1>7. ASSUME NEW n \in Nick, NEW m \in Nick, OtherRenames(n, m) PROVE ChatTypeOK'
  <2>1. members' = [c \in Channel |-> Renamed(members[c], n, m)]
    BY <1>7 DEF OtherRenames
  <2>2. members' \in [Channel -> Roster] /\ ChannelsOf(n) \in SUBSET Channel
    BY <2>1, RenamedTyped DEF ChannelsOf, ChatTypeOK
  <2>3. QED
    BY <1>7, <2>2 DEF OtherRenames, ChatTypeOK
<1>8. QED
  BY <1>1, <1>2, <1>3, <1>4, <1>5, <1>6, <1>7 DEF OtherStep, Others

LEMMA ChatTypesKept ==
  ASSUME ChatTypeOK, [ChatNext]_chatVars
  PROVE  ChatTypeOK'
<1>1. CASE UNCHANGED chatVars
  BY <1>1 DEF ChatTypeOK, chatVars, viewVars, serviceVars, clientVars, sessionVars, serverVars
<1>2. CASE ChatNext
  BY <1>2, UserTyped, ServicesTyped, RelayTyped, SupervisorTyped, SessionTyped, ServerTyped,
     OthersTyped DEF ChatNext, OtherStep
<1>3. QED
  BY <1>1, <1>2

LEMMA ChatTypesBegin == ChatInit => ChatTypeOK
<1>1. SUFFICES ASSUME ChatInit PROVE ChatTypeOK
  OBVIOUS
<1>2. members \in [Channel -> Roster]
  BY <1>1 DEF ChatInit, Roster, Rank
<1>5. up = <<>> /\ down = <<>> /\ outgoing = <<>> /\ updates = <<>>
  BY <1>1 DEF ChatInit
<1>4. /\ up \in Seq(Command) /\ down \in Seq(ServerLine) /\ outgoing \in Seq(Command)
      /\ updates \in Seq(ChatUpdate) /\ Len(updates) <= UpdateCap + Cardinality(Channel)
  BY <1>5, ChannelCount, LimitAssumption
<1>6. /\ users = NoRosters /\ roster = NoRosters /\ pendingNames = NoRosters
      /\ \A c \in Channel : users[c] = Nobody
  BY <1>1 DEF ChatInit, NoRosters
<1>7. shown \in [Channel -> Nat] /\ naming \in [Channel -> {"no", "names", "end"}]
  BY <1>1 DEF ChatInit
<1>8. status = "disconnected" /\ lobby = "waiting" /\ relay = "relaying" /\ conn = "down"
      /\ online = FALSE
  BY <1>1 DEF ChatInit
<1>9. open = {} /\ announced = {} /\ wanted = {} /\ asked = {} /\ mine = {} /\ left = {}
      /\ blurred = {} /\ said \subseteq Channel
  BY <1>1 DEF ChatInit
<1>10. events \in 0..MaxEvents
  BY <1>1, LimitAssumption DEF ChatInit
<1>11. /\ users \in [Channel -> Roster] /\ roster \in [Channel -> Roster]
       /\ pendingNames \in [Channel -> Roster]
  BY <1>6, NobodyIsRoster
<1>12. QED
  BY <1>2, <1>4, <1>6, <1>7, <1>8, <1>9, <1>10, <1>11 DEF ChatTypeOK

\* A queue that grows by one update, or loses its first.
LEMMA PlaysMore ==
  ASSUME NEW us, NEW ups \in Seq(ChatUpdate), NEW u \in ChatUpdate, NEW S, Plays(S, us, ups)
  PROVE  LET S2 == Append(S, UsersAfter(S[Len(S)], u))
         IN  /\ Plays(S2, us, ups \o <<u>>)
             /\ S2[Len(S2)] = UsersAfter(S[Len(S)], u)
<1> DEFINE n == Len(ups)
           x == UsersAfter(S[n + 1], u)
           S2 == Append(S, x)
           ups2 == ups \o <<u>>
<1>1. S \in Seq([Channel -> Roster]) /\ Len(S) = n + 1 /\ S[1] = us /\ n \in Nat
      /\ \A i \in 1..n : S[i + 1] = UsersAfter(S[i], ups[i])
  BY DEF Plays
<1>2. S[n + 1] \in [Channel -> Roster]
  BY <1>1
<1>3. x \in [Channel -> Roster]
  BY <1>2, UsersTyped
<1> HIDE DEF x
<1>4. /\ ups2 \in Seq(ChatUpdate) /\ Len(ups2) = n + 1 /\ ups2[n + 1] = u
      /\ \A i \in 1..n : ups2[i] = ups[i]
  BY OneMore
<1>5. /\ S2 \in Seq([Channel -> Roster]) /\ Len(S2) = n + 2 /\ S2[n + 2] = x
      /\ \A i \in 1..n + 1 : S2[i] = S[i]
  BY <1>1, <1>3
<1> HIDE DEF S2, ups2
<1>6. \A i \in 1..n + 1 : S2[i + 1] = UsersAfter(S2[i], ups2[i])
  <2>1. ASSUME NEW i \in 1..n PROVE S2[i + 1] = UsersAfter(S2[i], ups2[i])
    <3>1. i \in 1..n + 1 /\ i + 1 \in 1..n + 1
      BY <1>1
    <3>2. QED
      BY <1>1, <1>4, <1>5, <3>1
  <2>2. S2[n + 1] = S[n + 1] /\ n + 1 \in 1..n + 1 /\ S2[(n + 1) + 1] = x
    BY <1>1, <1>5
  <2>3. S2[(n + 1) + 1] = UsersAfter(S2[n + 1], ups2[n + 1])
    BY <1>4, <2>2 DEF x
  <2> HIDE DEF n
  <2>4. QED
    BY <1>1, <2>1, <2>3
<1>7. 1 \in 1..n + 1
  BY <1>1
<1>8. Plays(S2, us, ups2)
  BY <1>1, <1>4, <1>5, <1>6, <1>7 DEF Plays
<1>9. S2[Len(S2)] = x
  BY <1>5
<1>10. QED
  BY <1>1, <1>8, <1>9 DEF x, S2, ups2

LEMMA PlaysLess ==
  ASSUME NEW us, NEW ups \in Seq(ChatUpdate), ups # <<>>, NEW S, Plays(S, us, ups)
  PROVE  /\ Plays(Tail(S), UsersAfter(us, Head(ups)), Tail(ups))
         /\ Tail(S)[Len(Tail(S))] = S[Len(S)]
<1> DEFINE n == Len(ups)
           S2 == Tail(S)
           ups2 == Tail(ups)
<1>1. S \in Seq([Channel -> Roster]) /\ Len(S) = n + 1 /\ S[1] = us /\ n \in Nat \ {0}
      /\ \A i \in 1..n : S[i + 1] = UsersAfter(S[i], ups[i])
  BY DEF Plays
<1>2. /\ ups2 \in Seq(ChatUpdate) /\ Len(ups2) = n - 1 /\ Head(ups) = ups[1]
      /\ \A i \in 1..n - 1 : ups2[i] = ups[i + 1]
  BY OneLess
<1>3. S # <<>>
  BY <1>1
<1>4. /\ S2 \in Seq([Channel -> Roster]) /\ Len(S2) = n
      /\ \A i \in 1..n : S2[i] = S[i + 1]
  BY <1>1, <1>3, OneLess
<1> HIDE DEF S2, ups2, n
<1>5. ASSUME NEW i \in 1..n - 1 PROVE S2[i + 1] = UsersAfter(S2[i], ups2[i])
  <2>1. i + 1 \in 1..n /\ i \in 1..n
    BY <1>1
  <2>2. S[(i + 1) + 1] = UsersAfter(S[i + 1], ups[i + 1])
    BY <1>1, <2>1
  <2>3. QED
    BY <1>2, <1>4, <2>1, <2>2
<1>6. S2[1] = UsersAfter(us, Head(ups)) /\ S2[n] = S[n + 1]
  BY <1>1, <1>2, <1>4
<1>7. Plays(S2, UsersAfter(us, Head(ups)), ups2)
  BY <1>1, <1>2, <1>4, <1>5, <1>6 DEF Plays
<1>8. QED
  BY <1>1, <1>4, <1>6, <1>7 DEF S2, ups2

\* The session's rosters without somebody.
Without(n) == [c \in Channel |-> [roster[c] EXCEPT ![n] = "absent"]]

\* A QUIT takes the person out of every channel on screen, one after the other.
LEMMA PlaysQuit ==
  ASSUME NEW us, NEW ups \in Seq(ChatUpdate), NEW S, Plays(S, us, ups),
         roster \in [Channel -> Roster], S[Len(S)] = roster, NEW n \in Nick
  PROVE  \E S2 : /\ Plays(S2, us, ups \o Departures(n))
                 /\ S2[Len(S2)] = Without(n)
<1> DEFINE k == Len(ups)
           D == Departures(n)
           e == Len(D)
           Out(c) == [roster[c] EXCEPT ![n] = "absent"]
           X(j) == [c \in Channel |-> IF \E h \in 1..j : D[h].channel = c
                                      THEN Out(c) ELSE roster[c]]
           ups2 == ups \o D
           S2 == [i \in 1..k + e + 1 |-> IF i <= k + 1 THEN S[i] ELSE X(i - (k + 1))]
<1>1. S \in Seq([Channel -> Roster]) /\ Len(S) = k + 1 /\ S[1] = us /\ k \in Nat
      /\ \A i \in 1..k : S[i + 1] = UsersAfter(S[i], ups[i])
  BY DEF Plays
<1>2. S[k + 1] = roster
  BY <1>1
<1>3. /\ D \in Seq(ChatUpdate) /\ e \in Nat
      /\ \A i \in 1..e : \E c \in ChannelsWith(n) : D[i] = PersonUpdate("userLeft", c, n, "absent")
      /\ \A c \in ChannelsWith(n) : \E i \in 1..e : D[i] = PersonUpdate("userLeft", c, n, "absent")
  BY DepartureFacts
<1> HIDE DEF D
<1>4. /\ ups2 \in Seq(ChatUpdate) /\ Len(ups2) = k + e
      /\ \A i \in 1..k : ups2[i] = ups[i]
      /\ \A i \in 1..e : ups2[k + i] = D[i]
  BY <1>1, <1>3
<1> HIDE DEF ups2
<1>5. \A c \in Channel : Out(c) \in Roster
  BY DEF Roster, Rank
<1>6. \A j \in 0..e : X(j) \in [Channel -> Roster]
  BY <1>5
<1>7. X(0) = roster
  BY <1>3
<1>8. ASSUME NEW j \in 1..e PROVE X(j) = UsersAfter(X(j - 1), D[j])
  <2>1. PICK d \in ChannelsWith(n) : D[j] = PersonUpdate("userLeft", d, n, "absent")
    BY <1>3
  <2>2. d \in Channel /\ D[j].channel = d /\ D[j].nick = n /\ D[j].type = "userLeft"
    BY <2>1, UpdateFields DEF ChannelsWith, PersonUpdate
  <2>3. UsersAfter(X(j - 1), D[j]) = [X(j - 1) EXCEPT ![d][n] = "absent"]
    BY <2>2 DEF UsersAfter
  <2>4. X(j - 1) \in [Channel -> Roster]
    <3>1. j - 1 \in 0..e
      BY <1>3
    <3> HIDE DEF X
    <3>2. QED
      BY <1>6, <3>1
  <2>5. ASSUME NEW c \in Channel
        PROVE  X(j)[c] = [X(j - 1) EXCEPT ![d][n] = "absent"][c]
    <3>1. (\E h \in 1..j : D[h].channel = c) <=> c = d \/ \E h \in 1..j - 1 : D[h].channel = c
      BY <1>3, <2>2
    <3>2. CASE c = d
      <4>1. X(j)[c] = Out(c)
        BY <3>1, <3>2
      <4>2. X(j - 1)[c] = Out(c) \/ X(j - 1)[c] = roster[c]
        OBVIOUS
      <4>3. [X(j - 1) EXCEPT ![d][n] = "absent"][c] = [X(j - 1)[c] EXCEPT ![n] = "absent"]
        BY <2>4, <3>2
      <4>4. [Out(c) EXCEPT ![n] = "absent"] = Out(c)
        BY DEF Roster
      <4>5. QED
        BY <4>1, <4>2, <4>3, <4>4
    <3>3. CASE c # d
      <4>1. X(j)[c] = X(j - 1)[c]
        BY <3>1, <3>3
      <4>2. QED
        BY <2>4, <3>3, <4>1
    <3>4. QED
      BY <3>2, <3>3
  <2>6. DOMAIN X(j) = Channel /\ DOMAIN [X(j - 1) EXCEPT ![d][n] = "absent"] = Channel
    OBVIOUS
  <2>7. X(j) = [X(j - 1) EXCEPT ![d][n] = "absent"]
    <3> DEFINE a == X(j)
               b == [X(j - 1) EXCEPT ![d][n] = "absent"]
    <3>1. a = [c \in Channel |-> a[c]] /\ b = [c \in Channel |-> b[c]]
      OBVIOUS
    <3>2. \A c \in Channel : a[c] = b[c]
      BY <2>5
    <3> HIDE DEF a, b
    <3>3. a = b
      BY <3>1, <3>2
    <3>4. QED
      BY <3>3 DEF a, b
  <2>8. QED
    BY <2>3, <2>7
<1>9. X(e) = [c \in Channel |-> Out(c)]
  <2>1. ASSUME NEW c \in Channel PROVE X(e)[c] = Out(c)
    <3>1. CASE c \in ChannelsWith(n)
      BY <1>3, <3>1, UpdateFields DEF PersonUpdate
    <3>2. CASE c \notin ChannelsWith(n)
      <4>1. roster[c] \in [Nick -> Rank] /\ roster[c][n] = "absent"
        BY <3>2 DEF ChannelsWith, Roster
      <4>2. Out(c) = roster[c]
        BY <4>1
      <4>3. QED
        BY <4>2
    <3>3. QED
      BY <3>1, <3>2
  <2>2. QED
    BY <2>1
<1> HIDE DEF X
<1>10. \A i \in 1..k + 1 : S2[i] = S[i]
  BY <1>1, <1>3
<1>11. \A j \in 0..e : S2[k + 1 + j] = X(j)
  <2>1. ASSUME NEW j \in 0..e PROVE S2[k + 1 + j] = X(j)
    <3>1. CASE j = 0
      BY <1>1, <1>2, <1>3, <1>7, <1>10, <3>1
    <3>2. CASE j # 0
      <4>1. k + 1 + j \in 1..k + e + 1 /\ ~(k + 1 + j <= k + 1) /\ (k + 1 + j) - (k + 1) = j
        BY <1>1, <1>3, <3>2
      <4>2. QED
        BY <4>1
    <3>3. QED
      BY <3>1, <3>2
  <2>2. QED
    BY <2>1
<1>12. S2 \in Seq([Channel -> Roster]) /\ Len(S2) = k + e + 1
  <2>1. \A i \in 1..k + e + 1 : S2[i] \in [Channel -> Roster]
    <3>1. ASSUME NEW i \in 1..k + e + 1, i <= k + 1 PROVE S2[i] \in [Channel -> Roster]
      BY <1>1, <3>1
    <3>2. ASSUME NEW i \in 1..k + e + 1, ~(i <= k + 1) PROVE S2[i] \in [Channel -> Roster]
      <4>1. i - (k + 1) \in 0..e
        BY <1>1, <1>3, <3>2
      <4>2. QED
        BY <1>6, <3>2, <4>1
    <3>3. QED
      BY <3>1, <3>2
  <2>2. k + e + 1 \in Nat
    BY <1>1, <1>3
  <2> HIDE DEF k, e
  <2>3. S2 \in [1..k + e + 1 -> [Channel -> Roster]]
    BY <2>1
  <2> HIDE DEF S2
  <2>4. QED
    BY <2>2, <2>3
<1> HIDE DEF S2, k, e
<1>13. ASSUME NEW i \in 1..k + e PROVE S2[i + 1] = UsersAfter(S2[i], ups2[i])
  <2>1. CASE i <= k
    <3>1. i \in 1..k /\ i + 1 \in 1..k + 1 /\ i \in 1..k + 1
      BY <1>1, <1>3, <2>1
    <3>2. QED
      BY <1>1, <1>4, <1>10, <3>1
  <2>2. CASE ~(i <= k)
    <3>1. PICK j \in 1..e : i = k + j
      <4>1. i - k \in 1..e /\ i = k + (i - k)
        BY <1>1, <1>3, <2>2
      <4>2. QED
        BY <4>1
    <3>2. j - 1 \in 0..e /\ j \in 0..e /\ i + 1 = k + 1 + j /\ i = k + 1 + (j - 1)
      BY <1>1, <1>3, <3>1
    <3>3. S2[i + 1] = X(j) /\ S2[i] = X(j - 1) /\ ups2[i] = D[j]
      BY <1>4, <1>11, <3>1, <3>2
    <3>4. QED
      BY <1>8, <3>3
  <2>3. QED
    BY <2>1, <2>2
<1>14. S2[1] = us
  BY <1>1, <1>10
<1>15. Plays(S2, us, ups2)
  BY <1>4, <1>12, <1>13, <1>14 DEF Plays
<1>16. S2[Len(S2)] = X(e)
  BY <1>1, <1>3, <1>11, <1>12
<1>17. QED
  BY <1>9, <1>15, <1>16 DEF ups2, D, Without

-----------------------------------------------------------------------------
(* ChatSession: the screen follows the session *)

\* The rosters on screen, once all updates are applied, are those of the
\* session; and nothing is left on it of a connection whose loss was reported.
Screen ==
  \E S : /\ Plays(S, users, updates)
         /\ conn = "up" => S[Len(S)] = roster
         /\ conn = "down" => S[Len(S)] = NoRosters

LEMMA ScreenBegins == ChatTypeOK /\ ChatInit => Screen
<1>1. SUFFICES ASSUME ChatTypeOK, ChatInit PROVE Screen
  OBVIOUS
<1> DEFINE S == <<users>>
<1>2. Len(updates) = 0 /\ users = NoRosters /\ conn = "down"
  BY <1>1 DEF ChatInit
<1>3. S \in Seq([Channel -> Roster]) /\ Len(S) = 1 /\ S[1] = users
  BY <1>1 DEF ChatTypeOK
<1>4. Plays(S, users, updates)
  BY <1>2, <1>3 DEF Plays
<1>5. QED
  BY <1>2, <1>3, <1>4 DEF Screen

\* The session's own change of a roster is what the update it sends makes of
\* the screen.
LEMMA ScreenRead ==
  ASSUME ChatTypeOK, Screen, NEW u \in ChatUpdate, Emits(<<u>>), UNCHANGED users,
         conn' = "up", conn = "up", roster' = UsersAfter(roster, u)
  PROVE  Screen'
<1>1. PICK S : Plays(S, users, updates) /\ S[Len(S)] = roster
  BY DEF Screen
<1>2. updates \in Seq(ChatUpdate) /\ updates' = updates \o <<u>>
  BY DEF ChatTypeOK, Emits
<1>3. QED
  BY <1>1, <1>2, PlaysMore DEF Screen

LEMMA ScreenSame ==
  ASSUME Screen, UNCHANGED <<users, updates>>,
         conn' = "up" => \/ conn = "up" /\ roster' = roster
                         \/ conn = "down" /\ roster' = NoRosters,
         conn' = "down" => conn = "down"
  PROVE  Screen'
BY DEF Screen

LEMMA ScreenSession ==
  ASSUME ChatTypeOK, Screen, Session
  PROVE  Screen'
<1> DEFINE f == Head(down)
<1>1. PICK t : Reads(t)
  BY DEF Session, OnWelcome, OnJoinMe, OnNames, OnEndOfNames, OnJoin, OnPart, OnPartMe, OnKickMe,
         OnQuit, OnNick, OnMode, OnMessage
<1>2. f \in ServerLine /\ f.type = t
  BY <1>1, ReadsTyped
<1> HIDE DEF f
<1>3. /\ f.type \notin {"welcome", "quit", "nick"} => f.channel \in Channel
      /\ f.type \in {"join", "part", "quit", "nick", "mode"} => f.nick \in Nick /\ f.to \in Nick
      /\ f.rank \in Rank /\ f.names \in Roster
  BY <1>2, LineFields
<1>4. conn = "up" /\ conn' = "up" /\ users' = users
  BY <1>1 DEF Reads, Session, OnWelcome, OnJoinMe, OnNames, OnEndOfNames, OnJoin, OnPart, OnPartMe,
         OnKickMe, OnQuit, OnNick, OnMode, OnMessage, sessionVars, viewVars
<1>5. ASSUME NEW u \in ChatUpdate, Emits(<<u>>), roster' = UsersAfter(roster, u)
      PROVE  Screen'
  BY <1>4, <1>5, ScreenRead
<1> USE UpdatesTyped
<1>7. CASE OnWelcome
  <2>1. UsersAfter(roster, StatusUpdate("connected")) = roster
    BY UpdateFields DEF UsersAfter, StatusUpdate
  <2>2. QED
    BY <1>5, <1>7, <2>1 DEF OnWelcome, sessionVars
<1>8. CASE OnJoinMe
  <2>1. f.channel \in Channel /\ Emits(<<ChannelUpdate("channelJoined", f.channel)>>)
    BY <1>3, <1>8 DEF OnJoinMe, Reads, f
  <2>2. UsersAfter(roster, ChannelUpdate("channelJoined", f.channel)) = roster
    BY UpdateFields DEF UsersAfter, ChannelUpdate
  <2>3. QED
    BY <1>5, <1>8, <2>1, <2>2 DEF OnJoinMe
<1>9. CASE OnNames
  BY <1>4, <1>9, ScreenSame DEF OnNames, viewVars
<1>10. CASE OnEndOfNames
  <2> DEFINE u == RosterUpdate("users", f.channel, pendingNames[f.channel])
  <2>1. f.channel \in Channel /\ Emits(<<u>>)
        /\ roster' = [roster EXCEPT ![f.channel] = pendingNames[f.channel]]
    BY <1>3, <1>10 DEF OnEndOfNames, Reads, f
  <2>2. u.type = "users" /\ u.channel = f.channel /\ u.names = pendingNames[f.channel]
    BY UpdateFields DEF RosterUpdate
  <2>3. u \in ChatUpdate
    BY <2>1 DEF ChatTypeOK
  <2> HIDE DEF u
  <2>4. QED
    BY <1>5, <2>1, <2>2, <2>3 DEF UsersAfter
<1>11. CASE OnJoin
  <2> DEFINE u == PersonUpdate("userJoined", f.channel, f.nick, "plain")
  <2>1. f.channel \in Channel /\ f.nick \in Nick /\ Emits(<<u>>)
        /\ roster' = [roster EXCEPT ![f.channel][f.nick] = "plain"]
    BY <1>3, <1>11 DEF OnJoin, Reads, f
  <2>2. u.type = "userJoined" /\ u.channel = f.channel /\ u.nick = f.nick
    BY UpdateFields DEF PersonUpdate
  <2>3. u \in ChatUpdate
    BY <2>1 DEF Rank
  <2> HIDE DEF u
  <2>4. QED
    BY <1>5, <2>1, <2>2, <2>3 DEF UsersAfter
<1>12. CASE OnPart
  <2> DEFINE u == PersonUpdate("userLeft", f.channel, f.nick, "absent")
  <2>1. f.channel \in Channel /\ f.nick \in Nick /\ Emits(<<u>>)
        /\ roster' = [roster EXCEPT ![f.channel][f.nick] = "absent"]
    BY <1>3, <1>12 DEF OnPart, Reads, f
  <2>2. u.type = "userLeft" /\ u.channel = f.channel /\ u.nick = f.nick
    BY UpdateFields DEF PersonUpdate
  <2>3. u \in ChatUpdate
    BY <2>1 DEF Rank
  <2> HIDE DEF u
  <2>4. QED
    BY <1>5, <2>1, <2>2, <2>3 DEF UsersAfter
<1>13. CASE OnPartMe \/ OnKickMe
  <2> DEFINE u == ChannelUpdate("channelLeft", f.channel)
  <2>1. f.channel \in Channel /\ Emits(<<u>>) /\ roster' = [roster EXCEPT ![f.channel] = Nobody]
    BY <1>3, <1>13 DEF OnPartMe, OnKickMe, Forget, Reads, f
  <2>2. u.type = "channelLeft" /\ u.channel = f.channel
    BY UpdateFields DEF ChannelUpdate
  <2>3. u \in ChatUpdate
    BY <2>1
  <2> HIDE DEF u
  <2>4. QED
    BY <1>5, <2>1, <2>2, <2>3 DEF UsersAfter
<1>14. CASE OnQuit
  <2>1. f.nick \in Nick /\ Emits(Departures(f.nick))
        /\ roster' = [c \in Channel |-> [roster[c] EXCEPT ![f.nick] = "absent"]]
    BY <1>3, <1>14 DEF OnQuit, Departures, Reads, f
  <2>2. PICK S : Plays(S, users, updates) /\ S[Len(S)] = roster
    BY <1>4 DEF Screen
  <2>3. updates \in Seq(ChatUpdate) /\ roster \in [Channel -> Roster]
    BY DEF ChatTypeOK
  <2>7. \E S2 : /\ Plays(S2, users, updates \o Departures(f.nick))
                /\ S2[Len(S2)] = Without(f.nick)
    BY <2>1, <2>2, <2>3, PlaysQuit
  <2>4. PICK S2 : Plays(S2, users, updates \o Departures(f.nick)) /\ S2[Len(S2)] = roster'
    BY <2>1, <2>7 DEF Without
  <2>5. updates' = updates \o Departures(f.nick)
    BY <2>1 DEF Emits
  <2>6. QED
    BY <1>4, <2>4, <2>5 DEF Screen
<1>15. CASE OnNick
  <2> DEFINE u == RenameUpdate("userRenamed", f.nick, f.to)
  <2>1. f.nick \in Nick /\ f.to \in Nick /\ Emits(<<u>>)
        /\ roster' = [c \in Channel |-> Renamed(roster[c], f.nick, f.to)]
    BY <1>3, <1>15 DEF OnNick, Reads, f
  <2>2. u.type = "userRenamed" /\ u.nick = f.nick /\ u.to = f.to
    BY UpdateFields DEF RenameUpdate
  <2>3. u \in ChatUpdate
    BY <2>1
  <2> HIDE DEF u
  <2>4. QED
    BY <1>5, <2>1, <2>2, <2>3 DEF UsersAfter
<1>16. CASE OnMode
  <2> DEFINE u == PersonUpdate("elevation", f.channel, f.nick, f.rank)
  <2>1. f.channel \in Channel /\ f.nick \in Nick /\ f.rank \in Rank /\ Emits(<<u>>)
        /\ roster' = [roster EXCEPT ![f.channel][f.nick] = IF @ = "absent" THEN @ ELSE f.rank]
    BY <1>3, <1>16 DEF OnMode, Reads, f
  <2>2. u.type = "elevation" /\ u.channel = f.channel /\ u.nick = f.nick /\ u.rank = f.rank
    BY UpdateFields DEF PersonUpdate
  <2>3. u \in ChatUpdate
    BY <2>1
  <2> HIDE DEF u
  <2>4. QED
    BY <1>5, <2>1, <2>2, <2>3 DEF UsersAfter
<1>17. CASE OnMessage
  <2>1. f.channel \in Channel /\ Emits(<<ChannelUpdate("message", f.channel)>>)
    BY <1>3, <1>17 DEF OnMessage, Reads, f
  <2>2. UsersAfter(roster, ChannelUpdate("message", f.channel)) = roster
    BY UpdateFields DEF UsersAfter, ChannelUpdate
  <2>3. QED
    BY <1>5, <1>17, <2>1, <2>2 DEF OnMessage, sessionVars
<1>18. QED
  BY <1>7, <1>8, <1>9, <1>10, <1>11, <1>12, <1>13, <1>14, <1>15, <1>16, <1>17 DEF Session

\* What other people do is told in a line of the server, if at all.
LEMMA OtherFrame ==
  OtherStep => UNCHANGED <<viewVars, serviceVars, clientVars, sessionVars, updates, online, naming,
                           up, left>>
<1>1. ASSUME NEW c \in Channel, NEW n \in Nick, OtherJoins(n, c) \/ OtherParts(n, c)
                                                \/ OtherIsOpped(n, c)
      PROVE  UNCHANGED <<viewVars, serviceVars, clientVars, sessionVars, updates, online, naming,
                         up, left>>
  BY <1>1 DEF OtherJoins, OtherParts, OtherIsOpped, Happens
<1>2. ASSUME NEW c \in Channel, OtherSpeaks(c) \/ KicksMe(c)
      PROVE  UNCHANGED <<viewVars, serviceVars, clientVars, sessionVars, updates, online, naming,
                         up, left>>
  BY <1>2 DEF OtherSpeaks, KicksMe, Happens
<1>3. ASSUME NEW n \in Nick, OtherQuits(n) \/ \E m \in Nick : OtherRenames(n, m)
      PROVE  UNCHANGED <<viewVars, serviceVars, clientVars, sessionVars, updates, online, naming,
                         up, left>>
  BY <1>3 DEF OtherQuits, OtherRenames, Happens
<1>4. QED
  BY <1>1, <1>2, <1>3 DEF OtherStep, Others

LEMMA ScreenKept ==
  ASSUME ChatTypeOK, Screen, [ChatNext]_chatVars
  PROVE  Screen'
<1>1. CASE Relay
  <2>1. PICK S : /\ Plays(S, users, updates)
                 /\ conn = "up" => S[Len(S)] = roster
                 /\ conn = "down" => S[Len(S)] = NoRosters
    BY DEF Screen
  <2>2. /\ updates # <<>> /\ updates \in Seq(ChatUpdate) /\ updates' = Tail(updates)
        /\ users' = UsersAfter(users, Head(updates)) /\ UNCHANGED <<conn, roster>>
    BY <1>1 DEF Relay, ChatTypeOK, sessionVars
  <2>3. QED
    BY <2>1, <2>2, PlaysLess DEF Screen
<1>2. CASE ReportLost
  <2> DEFINE u == StatusUpdate("disconnected")
  <2>1. PICK S : Plays(S, users, updates)
    BY DEF Screen
  <2>2. u.type = "disconnected" /\ u \in ChatUpdate
    BY UpdateFields, UpdatesTyped DEF StatusUpdate
  <2>3. updates \in Seq(ChatUpdate) /\ updates' = Append(updates, u) /\ users' = users
        /\ conn' = "down"
    BY <1>2 DEF ReportLost, ChatTypeOK, viewVars
  <2> HIDE DEF u
  <2>4. UsersAfter(S[Len(S)], u) = NoRosters
    BY <2>2 DEF UsersAfter
  <2>5. updates' = updates \o <<u>>
    BY <2>2, <2>3, OneMore
  <2>6. QED
    BY <2>1, <2>2, <2>3, <2>4, <2>5, PlaysMore DEF Screen
<1>3. CASE Session
  BY <1>3, ScreenSession
<1>4. CASE Dial \/ ConnectionLost
  BY <1>4, ScreenSame DEF Dial, ConnectionLost, viewVars
<1>5. CASE UNCHANGED <<users, updates, conn, roster>>
  BY <1>5, ScreenSame DEF ChatTypeOK
<1>6. QED
  <2> USE DEF viewVars, sessionVars, serviceVars, clientVars
  <2>1. ASSUME NEW c \in Channel, Join(c) \/ Leave(c) PROVE Screen'
    BY <1>5, <2>1 DEF Join, Leave
  <2>2. CASE Announce \/ JoinAnnounced \/ JoinAuto
    BY <1>5, <2>2 DEF Announce, JoinAnnounced, JoinAuto
  <2>3. CASE Server
    BY <1>5, <2>3 DEF Server, ServerWelcomes, ServerTakesJoin, ServerTakesPart, ServerTakesHistory,
       ServerTakes, ServerNames, ServerEndsNames
  <2>4. CASE OtherStep
    BY <1>5, <2>4, OtherFrame
  <2>5. CASE UNCHANGED chatVars
    BY <1>5, <2>5 DEF chatVars
  <2>6. QED
    BY <1>1, <1>2, <1>3, <1>4, <2>1, <2>2, <2>3, <2>4, <2>5 DEF ChatNext, OtherStep

LEMMA ScreenIsFollowed == ChatTypeOK /\ Screen => ScreenFollowsSession
<1>1. SUFFICES ASSUME ChatTypeOK, Screen, conn = "up" PROVE ScreenAfter(users, updates) = roster
  BY DEF ScreenFollowsSession
<1>2. PICK S : Plays(S, users, updates) /\ S[Len(S)] = roster
  BY <1>1 DEF Screen
<1>3. Len(updates) \in Nat
  BY <1>1 DEF ChatTypeOK
<1>4. QED
  BY <1>2, <1>3, PlaysEnd

-----------------------------------------------------------------------------
(* ChatSession: what is known of a connection that is gone *)

\* Without a connection nothing is under way and we are in no channel; nothing
\* is said to a client that is not registered.
Present ==
  /\ online => conn = "up"
  /\ conn # "up" => up = <<>>
  /\ ~online => mine = {} /\ down = <<>>
  /\ \A c \in Channel : naming[c] # "no" => c \in mine
  /\ \A i \in 1..Len(up) : up[i].command # "PART"

LEMMA PresentBegins == ChatInit => Present
BY DEF ChatInit, Present

\* An event that nobody is there to see brings no line.
LEMMA PresentEvent ==
  ASSUME Present, NEW cs, NEW f, Happens(cs, f), mine' \subseteq mine,
         \A c \in Channel : naming[c] # "no" => c \in mine'
  PROVE  Present'
<1>1. UNCHANGED <<conn, online, naming, up>>
  BY DEF Happens, sessionVars
<1>2. ~online => mine' = {} /\ down' = <<>>
  BY DEF Happens, Present
<1>3. QED
  BY <1>1, <1>2 DEF Present

LEMMA PresentOther ==
  ASSUME Present, OtherStep
  PROVE  Present'
<1>1. ASSUME NEW cs, NEW f, Happens(cs, f), mine' = mine PROVE Present'
  <2>1. \A c \in Channel : naming[c] # "no" => c \in mine'
    BY <1>1 DEF Present
  <2>2. QED
    BY <1>1, <2>1, PresentEvent
<1>2. ASSUME NEW c \in Channel, OtherSpeaks(c) PROVE Present'
  BY <1>1, <1>2 DEF OtherSpeaks
<1>3. ASSUME NEW c \in Channel, KicksMe(c) PROVE Present'
  <2>1. Happens({c}, ChannelUpdate("kickMe", c)) /\ c \in mine /\ mine' = mine \ {c}
        /\ naming[c] = "no"
    BY <1>3 DEF KicksMe
  <2>2. mine' \subseteq mine /\ \A d \in Channel : naming[d] # "no" => d \in mine'
    BY <2>1 DEF Present
  <2>3. QED
    BY <2>1, <2>2, PresentEvent
<1>4. ASSUME NEW n \in Nick, OtherQuits(n) PROVE Present'
  BY <1>1, <1>4 DEF OtherQuits
<1>5. ASSUME NEW n \in Nick, NEW m \in Nick, OtherRenames(n, m) PROVE Present'
  BY <1>1, <1>5 DEF OtherRenames
<1>6. ASSUME NEW c \in Channel, NEW n \in Nick, OtherJoins(n, c) PROVE Present'
  BY <1>1, <1>6 DEF OtherJoins
<1>7. ASSUME NEW c \in Channel, NEW n \in Nick, OtherParts(n, c) PROVE Present'
  BY <1>1, <1>7 DEF OtherParts
<1>8. ASSUME NEW c \in Channel, NEW n \in Nick, OtherIsOpped(n, c) PROVE Present'
  BY <1>1, <1>8 DEF OtherIsOpped
<1>9. QED
  BY <1>2, <1>3, <1>4, <1>5, <1>6, <1>7, <1>8 DEF OtherStep, Others

\* The lines the session sends in answer to one it reads.
LEMMA SessionSends ==
  ASSUME ChatTypeOK, Session
  PROVE  /\ \/ up' = up
            \/ Head(down).type = "welcome" /\ up' = up \o Joins(wanted)
            \/ /\ Head(down).type = "joinMe"
               /\ up' = up \o <<Line("CHATHISTORY", Head(down).channel)>>
         /\ Head(down).type = "welcome" => up' = up \o Joins(wanted)
         /\ Head(down).type = "joinMe" /\ Head(down).channel \notin asked
              => up' = up \o <<Line("CHATHISTORY", Head(down).channel)>>
         /\ down # <<>> /\ down' = Tail(down) /\ conn = "up" /\ conn' = "up"
         /\ UNCHANGED serverVars
         /\ UNCHANGED <<viewVars, serviceVars, outgoing, events>>
<1>1. down # <<>> /\ down' = Tail(down) /\ conn = "up" /\ conn' = "up" /\ UNCHANGED serverVars
      /\ UNCHANGED <<viewVars, serviceVars, outgoing, events>>
  BY DEF Session, Reads, OnWelcome, OnJoinMe, OnNames, OnEndOfNames, OnJoin, OnPart, OnPartMe,
         OnKickMe, OnQuit, OnNick, OnMode, OnMessage, sessionVars, clientVars
<1>2. CASE OnWelcome
  BY <1>1, <1>2 DEF OnWelcome, Reads, Joins
<1>3. CASE OnJoinMe
  <2>1. Head(down) \in ServerLine /\ Head(down).type = "joinMe"
    BY <1>3, ReadsTyped DEF OnJoinMe
  <2>2. Line("CHATHISTORY", Head(down).channel) \in Command
    BY <2>1, LineFields DEF Line, Command
  <2>3. QED
    BY <1>1, <1>3, <2>1, <2>2, OneMore DEF OnJoinMe, ChatTypeOK
<1>4. CASE ~(OnWelcome \/ OnJoinMe)
  BY <1>1, <1>4 DEF Session, Reads, OnNames, OnEndOfNames, OnJoin, OnPart, OnPartMe, OnKickMe,
     OnQuit, OnNick, OnMode, OnMessage
<1>5. QED
  BY <1>2, <1>3, <1>4

LEMMA PresentSession ==
  ASSUME ChatTypeOK, Present, Session
  PROVE  Present'
<1>1. UNCHANGED <<online, mine, naming>> /\ conn' = "up" /\ down # <<>>
  BY SessionSends DEF serverVars
<1>2. \A i \in 1..Len(up') : up'[i].command # "PART"
  <2>1. up \in Seq(Command) /\ \A i \in 1..Len(up) : up[i].command # "PART"
    BY DEF ChatTypeOK, Present
  <2>2. CASE up' = up
    BY <2>1, <2>2
  <2>3. CASE up' = up \o Joins(wanted)
    <3> DEFINE q == Joins(wanted)
    <3>1. q \in Seq(Command) /\ \A i \in 1..Len(q) : q[i].command = "JOIN"
      BY JoinsFacts DEF ChatTypeOK
    <3> HIDE DEF q
    <3>2. \A i \in 1..Len(up) + Len(q) :
            (up \o q)[i] = IF i <= Len(up) THEN up[i] ELSE q[i - Len(up)]
      BY <2>1, <3>1
    <3>3. Len(up \o q) = Len(up) + Len(q) /\ Len(up) \in Nat /\ Len(q) \in Nat
      BY <2>1, <3>1
    <3>4. \A i \in 1..Len(up) + Len(q) : (up \o q)[i].command # "PART"
      BY <2>1, <3>1, <3>2, <3>3
    <3>5. QED
      BY <2>3, <3>3, <3>4 DEF q
  <2>4. CASE /\ Head(down).type = "joinMe"
             /\ up' = up \o <<Line("CHATHISTORY", Head(down).channel)>>
    <3> DEFINE x == Line("CHATHISTORY", Head(down).channel)
    <3>1. Head(down) \in ServerLine
      BY <1>1, OneLess DEF ChatTypeOK
    <3>2. x \in Command /\ x.command = "CHATHISTORY"
      BY <2>4, <3>1, LineFields DEF Line, Command
    <3> HIDE DEF x
    <3>3. up' = up \o <<x>>
      BY <2>4 DEF x
    <3>4. QED
      BY <2>1, <3>2, <3>3, OneMore
  <2>5. QED
    BY <2>2, <2>3, <2>4, SessionSends
<1>3. QED
  BY <1>1, <1>2 DEF Present

\* What the server takes comes out of a queue.
LEMMA TakenFrom ==
  ASSUME ChatTypeOK, NEW t, ServerTakes(t)
  PROVE  /\ \/ /\ up # <<>> /\ Head(Commands) = Head(up) /\ up' = Tail(up)
               /\ outgoing' = outgoing
            \/ /\ up = <<>> /\ outgoing # <<>> /\ Head(Commands) = Head(outgoing)
               /\ outgoing' = Tail(outgoing) /\ up' = up
         /\ Head(Commands) \in Command /\ Head(Commands).channel \in Channel
         /\ Head(Commands).command = t
<1>1. /\ Commands = up \o outgoing /\ Commands # <<>>
      /\ up \in Seq(Command) /\ outgoing \in Seq(Command)
  BY DEF ServerTakes, Commands, ChatTypeOK
<1>2. Head(Commands) = (IF up # <<>> THEN Head(up) ELSE Head(outgoing))
      /\ (up = <<>> => outgoing # <<>>)
  BY <1>1
<1>3. Head(Commands) \in Command
  BY <1>1, <1>2
<1>4. Head(Commands).channel \in Channel
  BY <1>3 DEF Command
<1>5. QED
  BY <1>2, <1>3, <1>4 DEF ServerTakes

LEMMA PresentServer ==
  ASSUME ChatTypeOK, Present, Server
  PROVE  Present'
<1>1. ASSUME NEW t, ServerTakes(t)
      PROVE  /\ \A i \in 1..Len(up') : up'[i].command # "PART"
             /\ conn = "up" /\ UNCHANGED <<conn, online>>
             /\ \A c \in Channel : naming[c] = "no"
  <2>1. up \in Seq(Command)
    BY DEF ChatTypeOK
  <2>2. \/ up # <<>> /\ up' = Tail(up)
        \/ up' = up
    BY <1>1, TakenFrom
  <2>3. \A i \in 1..Len(up') : up'[i].command # "PART"
    BY <2>1, <2>2, OneLess DEF Present
  <2>4. QED
    BY <1>1, <2>3 DEF ServerTakes, sessionVars
<1>2. CASE ServerWelcomes
  BY <1>2 DEF ServerWelcomes, Present, sessionVars
<1>3. CASE ServerTakesJoin
  <2> DEFINE c == Head(Commands).channel
  <2>1. \/ UNCHANGED <<mine, naming, down>>
        \/ /\ online /\ mine' = mine \cup {c} /\ naming' = [naming EXCEPT ![c] = "names"]
    BY <1>3 DEF ServerTakesJoin
  <2>2. ServerTakes("JOIN")
    BY <1>3 DEF ServerTakesJoin
  <2> HIDE DEF c
  <2>3. QED
    BY <1>1, <2>1, <2>2 DEF Present, ChatTypeOK
<1>4. CASE ServerTakesPart
  <2> DEFINE c == Head(Commands).channel
  <2>1. /\ \/ UNCHANGED <<mine, down>>
           \/ online /\ mine' = mine \ {c}
        /\ naming' = naming
    BY <1>4 DEF ServerTakesPart, Ignores
  <2>2. ServerTakes("PART")
    BY <1>4 DEF ServerTakesPart
  <2> HIDE DEF c
  <2>3. QED
    BY <1>1, <2>1, <2>2 DEF Present
<1>5. CASE ServerTakesHistory
  <2>1. (online \/ down' = down) /\ UNCHANGED <<mine, naming>>
    BY <1>5 DEF ServerTakesHistory, Ignores
  <2>2. ServerTakes("CHATHISTORY")
    BY <1>5 DEF ServerTakesHistory
  <2>3. QED
    BY <1>1, <2>1, <2>2 DEF Present
<1>6. ASSUME NEW c \in Channel, ServerNames(c) PROVE Present'
  BY <1>6 DEF ServerNames, Present, sessionVars, ChatTypeOK
<1>7. ASSUME NEW c \in Channel, ServerEndsNames(c) PROVE Present'
  BY <1>7 DEF ServerEndsNames, Present, sessionVars, ChatTypeOK
<1>8. QED
  BY <1>2, <1>3, <1>4, <1>5, <1>6, <1>7 DEF Server

LEMMA PresentKept ==
  ASSUME ChatTypeOK, Present, [ChatNext]_chatVars
  PROVE  Present'
<1>1. CASE UNCHANGED <<conn, online, mine, naming, up, down>>
  BY <1>1 DEF Present
<1> USE DEF viewVars, sessionVars, serverVars
<1>2. ASSUME NEW c \in Channel, Join(c) \/ Leave(c) PROVE Present'
  BY <1>1, <1>2 DEF Join, Leave
<1>3. CASE Announce \/ JoinAnnounced \/ JoinAuto \/ Relay
  BY <1>1, <1>3 DEF Announce, JoinAnnounced, JoinAuto, Relay
<1>4. CASE UNCHANGED chatVars
  BY <1>1, <1>4 DEF chatVars
<1>5. CASE Dial \/ ReportLost
  BY <1>5 DEF Dial, ReportLost, Present
<1>6. CASE ConnectionLost
  BY <1>6 DEF ConnectionLost, Present
<1>7. QED
  BY <1>2, <1>3, <1>4, <1>5, <1>6, PresentSession, PresentServer, PresentOther
     DEF ChatNext, OtherStep

-----------------------------------------------------------------------------
(* ChatSession: the session follows the server *)

\* What the session has of a channel.
Known == [roster : Roster, pending : Roster, asked : {"yes", "no"}]
Knows(c) ==
  [roster |-> roster[c], pending |-> pendingNames[c],
   asked |-> IF c \in asked THEN "yes" ELSE "no"]

Collected(r, names) == [n \in Nick |-> IF names[n] = "absent" THEN r[n] ELSE names[n]]
Ranked(r, n, rank) == [r EXCEPT ![n] = IF @ = "absent" THEN @ ELSE rank]

\* What a line makes of it.
Told(c, e, f) ==
  [roster |->
     CASE f.type = "endOfNames" /\ f.channel = c        -> e.pending
       [] f.type \in {"partMe", "kickMe"} /\ f.channel = c -> Nobody
       [] f.type = "join" /\ f.channel = c              -> [e.roster EXCEPT ![f.nick] = "plain"]
       [] f.type = "part" /\ f.channel = c              -> [e.roster EXCEPT ![f.nick] = "absent"]
       [] f.type = "quit"                               -> [e.roster EXCEPT ![f.nick] = "absent"]
       [] f.type = "nick"                               -> Renamed(e.roster, f.nick, f.to)
       [] f.type = "mode" /\ f.channel = c              -> Ranked(e.roster, f.nick, f.rank)
       [] OTHER                                         -> e.roster,
   pending |->
     CASE f.type = "names" /\ f.channel = c      -> Collected(e.pending, f.names)
       [] f.type = "endOfNames" /\ f.channel = c -> Nobody
       [] OTHER                                  -> e.pending,
   asked |->
     CASE f.type = "joinMe" /\ f.channel = c               -> "yes"
       [] f.type \in {"partMe", "kickMe"} /\ f.channel = c -> "no"
       [] OTHER                                            -> e.asked]

\* Reading a line, the session does to every channel what the line tells of it.
LEMMA ToldIsRead ==
  ASSUME ChatTypeOK, Session, NEW c \in Channel
  PROVE  Knows(c)' = Told(c, Knows(c), Head(down))
<1> DEFINE f == Head(down)
<1>1. PICK t : Reads(t)
  BY DEF Session, OnWelcome, OnJoinMe, OnNames, OnEndOfNames, OnJoin, OnPart, OnPartMe, OnKickMe,
         OnQuit, OnNick, OnMode, OnMessage
<1>2. f \in ServerLine /\ f.type = t
  BY <1>1, ReadsTyped
<1> HIDE DEF f
<1>3. /\ f.type \notin {"welcome", "quit", "nick"} => f.channel \in Channel
      /\ f.type \in {"join", "part", "quit", "nick", "mode"} => f.nick \in Nick /\ f.to \in Nick
      /\ f.rank \in Rank /\ f.names \in Roster
  BY <1>2, LineFields
<1>4. /\ roster \in [Channel -> Roster] /\ pendingNames \in [Channel -> Roster]
      /\ asked \subseteq Channel
  BY DEF ChatTypeOK
<1>5. SUFFICES /\ roster'[c] = Told(c, Knows(c), f).roster
               /\ pendingNames'[c] = Told(c, Knows(c), f).pending
               /\ (IF c \in asked' THEN "yes" ELSE "no") = Told(c, Knows(c), f).asked
  BY DEF Knows, Told, f
<1> USE DEF Knows, Told
<1>7. CASE OnWelcome
  <2>1. f.type = "welcome" /\ UNCHANGED <<roster, pendingNames, asked>>
    BY <1>7 DEF OnWelcome, Reads, f, sessionVars
  <2>2. QED
    BY <2>1
<1>8. CASE OnJoinMe
  <2>1. f.type = "joinMe" /\ asked' = asked \cup {f.channel} /\ UNCHANGED <<roster, pendingNames>>
    BY <1>8 DEF OnJoinMe, Reads, f
  <2>2. QED
    BY <1>3, <1>4, <2>1
<1>9. CASE OnNames
  <2>1. f.type = "names" /\ UNCHANGED <<roster, asked>>
        /\ pendingNames' = [pendingNames EXCEPT ![f.channel] =
                              [n \in Nick |-> IF f.names[n] = "absent" THEN @[n] ELSE f.names[n]]]
    BY <1>9 DEF OnNames, Reads, f
  <2>2. pendingNames'[c] = IF f.channel = c THEN Collected(pendingNames[c], f.names)
                           ELSE pendingNames[c]
    BY <1>3, <1>4, <2>1 DEF Collected
  <2>3. QED
    BY <2>1, <2>2
<1>10. CASE OnEndOfNames
  <2>1. f.type = "endOfNames" /\ UNCHANGED asked
        /\ roster' = [roster EXCEPT ![f.channel] = pendingNames[f.channel]]
        /\ pendingNames' = [pendingNames EXCEPT ![f.channel] = Nobody]
    BY <1>10 DEF OnEndOfNames, Reads, f
  <2>2. QED
    BY <1>3, <1>4, <2>1
<1>11. CASE OnJoin
  <2>1. f.type = "join" /\ UNCHANGED <<pendingNames, asked>>
        /\ roster' = [roster EXCEPT ![f.channel][f.nick] = "plain"]
    BY <1>11 DEF OnJoin, Reads, f
  <2>2. QED
    BY <1>3, <1>4, <2>1
<1>12. CASE OnPart
  <2>1. f.type = "part" /\ UNCHANGED <<pendingNames, asked>>
        /\ roster' = [roster EXCEPT ![f.channel][f.nick] = "absent"]
    BY <1>12 DEF OnPart, Reads, f
  <2>2. QED
    BY <1>3, <1>4, <2>1
<1>13. CASE OnPartMe \/ OnKickMe
  <2>1. f.type \in {"partMe", "kickMe"} /\ UNCHANGED pendingNames
        /\ roster' = [roster EXCEPT ![f.channel] = Nobody] /\ asked' = asked \ {f.channel}
    BY <1>13 DEF OnPartMe, OnKickMe, Forget, Reads, f
  <2>2. QED
    BY <1>3, <1>4, <2>1
<1>14. CASE OnQuit
  <2>1. f.type = "quit" /\ UNCHANGED <<pendingNames, asked>>
        /\ roster' = [d \in Channel |-> [roster[d] EXCEPT ![f.nick] = "absent"]]
    BY <1>14 DEF OnQuit, Reads, f
  <2>2. QED
    BY <1>3, <1>4, <2>1
<1>15. CASE OnNick
  <2>1. f.type = "nick" /\ UNCHANGED <<pendingNames, asked>>
        /\ roster' = [d \in Channel |-> Renamed(roster[d], f.nick, f.to)]
    BY <1>15 DEF OnNick, Reads, f
  <2>2. QED
    BY <1>3, <1>4, <2>1
<1>16. CASE OnMode
  <2>1. f.type = "mode" /\ UNCHANGED <<pendingNames, asked>>
        /\ roster' = [roster EXCEPT ![f.channel][f.nick] = IF @ = "absent" THEN @ ELSE f.rank]
    BY <1>16 DEF OnMode, Reads, f
  <2>2. roster'[c] = IF f.channel = c THEN Ranked(roster[c], f.nick, f.rank) ELSE roster[c]
    BY <1>3, <1>4, <2>1 DEF Ranked, Roster
  <2>3. QED
    BY <2>1, <2>2
<1>17. CASE OnMessage
  <2>1. f.type = "message" /\ UNCHANGED <<roster, pendingNames, asked>>
    BY <1>17 DEF OnMessage, Reads, f, sessionVars
  <2>2. QED
    BY <2>1
<1>18. QED
  BY <1>7, <1>8, <1>9, <1>10, <1>11, <1>12, <1>13, <1>14, <1>15, <1>16, <1>17 DEF Session

LEMMA KnownTyped ==
  ASSUME ChatTypeOK, NEW c \in Channel
  PROVE  Knows(c) \in Known
BY DEF ChatTypeOK, Knows, Known

LEMMA ToldTyped ==
  ASSUME NEW c \in Channel, NEW e \in Known, NEW f \in ServerLine
  PROVE  Told(c, e, f) \in Known
<1>1. e.roster \in Roster /\ e.pending \in Roster /\ e.asked \in {"yes", "no"}
  BY DEF Known
<1>2. f.rank \in Rank /\ f.names \in Roster
      /\ (f.type \in {"join", "part", "quit", "nick", "mode"} => f.nick \in Nick /\ f.to \in Nick)
  BY LineFields
<1>3. Told(c, e, f).roster \in Roster
  <2>1. f.type \in {"join", "part", "quit", "nick", "mode"} =>
          /\ [e.roster EXCEPT ![f.nick] = "plain"] \in Roster
          /\ [e.roster EXCEPT ![f.nick] = "absent"] \in Roster
          /\ Renamed(e.roster, f.nick, f.to) \in Roster
          /\ Ranked(e.roster, f.nick, f.rank) \in Roster
    BY <1>1, <1>2, RenamedTyped DEF Roster, Rank, Ranked
  <2>2. QED
    BY <1>1, <2>1, NobodyIsRoster DEF Told
<1>4. Told(c, e, f).pending \in Roster
  <2>1. Collected(e.pending, f.names) \in Roster
    BY <1>1, <1>2 DEF Collected, Roster
  <2>2. QED
    BY <1>1, <2>1, NobodyIsRoster DEF Told
<1>5. Told(c, e, f).asked \in {"yes", "no"}
  BY <1>1 DEF Told
<1>6. QED
  BY <1>3, <1>4, <1>5 DEF Told, Known

\* What is known of channel c before and after each of some lines.
Hears(S, c, e, fs) ==
  /\ S \in Seq(Known)
  /\ Len(S) = Len(fs) + 1
  /\ S[1] = e
  /\ \A i \in 1..Len(fs) : S[i + 1] = Told(c, S[i], fs[i])

\* S2 has one more than S at its end, or one less at its front.
More(S2, S, x) ==
  /\ S \in Seq(Known) /\ S2[Len(S2)] = x /\ S[Len(S)] \in Known
  /\ \A i \in 1..Len(S) : S2[i] = S[i]
Less(S2, S, n) == S2[Len(S2)] = S[Len(S)] /\ \A i \in 1..n - 1 : S2[i] = S[i + 1]

LEMMA HearsMore ==
  ASSUME NEW c \in Channel, NEW e, NEW fs \in Seq(ServerLine), NEW f \in ServerLine,
         NEW S, Hears(S, c, e, fs)
  PROVE  \E S2 : /\ Hears(S2, c, e, fs \o <<f>>)
                 /\ More(S2, S, Told(c, S[Len(S)], f))
<1> DEFINE n == Len(fs)
           x == Told(c, S[n + 1], f)
           S2 == Append(S, x)
           fs2 == fs \o <<f>>
<1>1. S \in Seq(Known) /\ Len(S) = n + 1 /\ S[1] = e /\ n \in Nat
      /\ \A i \in 1..n : S[i + 1] = Told(c, S[i], fs[i])
  BY DEF Hears
<1>2. S[n + 1] \in Known
  BY <1>1
<1>3. x \in Known
  BY <1>2, ToldTyped
<1> HIDE DEF x
<1>4. /\ fs2 \in Seq(ServerLine) /\ Len(fs2) = n + 1 /\ fs2[n + 1] = f
      /\ \A i \in 1..n : fs2[i] = fs[i]
  BY OneMore
<1>5. /\ S2 \in Seq(Known) /\ Len(S2) = n + 2 /\ S2[n + 2] = x
      /\ \A i \in 1..n + 1 : S2[i] = S[i]
  BY <1>1, <1>3
<1> HIDE DEF S2, fs2
<1>6. \A i \in 1..n + 1 : S2[i + 1] = Told(c, S2[i], fs2[i])
  <2>1. ASSUME NEW i \in 1..n PROVE S2[i + 1] = Told(c, S2[i], fs2[i])
    <3>1. i \in 1..n + 1 /\ i + 1 \in 1..n + 1
      BY <1>1
    <3>2. QED
      BY <1>1, <1>4, <1>5, <3>1
  <2>2. S2[n + 1] = S[n + 1] /\ n + 1 \in 1..n + 1 /\ S2[(n + 1) + 1] = x
    BY <1>1, <1>5
  <2>3. S2[(n + 1) + 1] = Told(c, S2[n + 1], fs2[n + 1])
    BY <1>4, <2>2 DEF x
  <2> HIDE DEF n
  <2>4. QED
    BY <1>1, <2>1, <2>3
<1>7. 1 \in 1..n + 1
  BY <1>1
<1>8. Hears(S2, c, e, fs2)
  BY <1>1, <1>4, <1>5, <1>6, <1>7 DEF Hears
<1>9. S2[Len(S2)] = x
  BY <1>5
<1>10. S2[Len(S2)] = Told(c, S[Len(S)], f) /\ S[Len(S)] \in Known
       /\ \A i \in 1..Len(S) : S2[i] = S[i]
  BY <1>1, <1>2, <1>5, <1>9 DEF x
<1>11. More(S2, S, Told(c, S[Len(S)], f))
  BY <1>1, <1>10 DEF More
<1>12. QED
  BY <1>8, <1>11 DEF fs2

LEMMA HearsLess ==
  ASSUME NEW c \in Channel, NEW e, NEW fs \in Seq(ServerLine), fs # <<>>, NEW S,
         Hears(S, c, e, fs)
  PROVE  \E S2 : /\ Hears(S2, c, Told(c, e, Head(fs)), Tail(fs))
                 /\ Less(S2, S, Len(fs))
<1> DEFINE n == Len(fs)
           S2 == Tail(S)
           fs2 == Tail(fs)
<1>1. S \in Seq(Known) /\ Len(S) = n + 1 /\ S[1] = e /\ n \in Nat \ {0}
      /\ \A i \in 1..n : S[i + 1] = Told(c, S[i], fs[i])
  BY DEF Hears
<1>2. /\ fs2 \in Seq(ServerLine) /\ Len(fs2) = n - 1 /\ Head(fs) = fs[1]
      /\ \A i \in 1..n - 1 : fs2[i] = fs[i + 1]
  BY OneLess
<1>3. S # <<>>
  BY <1>1
<1>4. /\ S2 \in Seq(Known) /\ Len(S2) = n
      /\ \A i \in 1..n : S2[i] = S[i + 1]
  BY <1>1, <1>3, OneLess
<1> HIDE DEF S2, fs2, n
<1>5. ASSUME NEW i \in 1..n - 1 PROVE S2[i + 1] = Told(c, S2[i], fs2[i])
  <2>1. i + 1 \in 1..n /\ i \in 1..n
    BY <1>1
  <2>2. S[(i + 1) + 1] = Told(c, S[i + 1], fs[i + 1])
    BY <1>1, <2>1
  <2>3. QED
    BY <1>2, <1>4, <2>1, <2>2
<1>6. S2[1] = Told(c, e, Head(fs)) /\ S2[n] = S[n + 1]
  BY <1>1, <1>2, <1>4
<1>7. Hears(S2, c, Told(c, e, Head(fs)), fs2)
  BY <1>1, <1>2, <1>4, <1>5, <1>6 DEF Hears
<1>8. \A i \in 1..n - 1 : S2[i] = S[i + 1]
  BY <1>1, <1>4
<1>9. S2[Len(S2)] = S[Len(S)]
  BY <1>1, <1>4, <1>6
<1>10. Less(S2, S, n)
  BY <1>8, <1>9 DEF Less
<1>11. QED
  BY <1>7, <1>10 DEF fs2, n

\* What the session knows of channel c once it has read every line is what the
\* server does: which channels we are in, how far the names are, and, unless
\* something happened while they were being listed, who is there.
Agrees(c, e) ==
  /\ e.asked = "yes" <=> c \in mine
  /\ naming[c] # "end" => e.pending = Nobody
  /\ naming[c] = "end" /\ c \notin blurred => e.pending = members[c]
  /\ naming[c] = "no" /\ c \in mine \ blurred => e.roster = members[c]

\* The echo of a JOIN is read by a session that does not know of the channel.
NewlyJoined(S, c) ==
  \A i \in 1..Len(down) : down[i].type = "joinMe" /\ down[i].channel = c => S[i].asked = "no"

Informed(c) ==
  \E S : Hears(S, c, Knows(c), down) /\ NewlyJoined(S, c) /\ Agrees(c, S[Len(S)])

Follows == conn = "up" => \A c \in Channel : Informed(c)

\* A line more, a line read, neither.
LEMMA InformedMore ==
  ASSUME ChatTypeOK, NEW c \in Channel, Informed(c), NEW f \in ServerLine,
         down' = down \o <<f>>, UNCHANGED <<roster, pendingNames, asked>>,
         \A e \in Known : Agrees(c, e) =>
            /\ f.type = "joinMe" /\ f.channel = c => e.asked = "no"
            /\ \A e2 : e2 = Told(c, e, f) => Agrees(c, e2)'
  PROVE  Informed(c)'
<1>1. PICK S : Hears(S, c, Knows(c), down) /\ NewlyJoined(S, c) /\ Agrees(c, S[Len(S)])
  BY DEF Informed
<1>2. PICK e : e = S[Len(S)]
  OBVIOUS
<1>3. PICK x : x = Told(c, e, f)
  OBVIOUS
<1>5. down \in Seq(ServerLine) /\ Len(S) = Len(down) + 1 /\ Len(down) \in Nat
  BY <1>1 DEF Hears, ChatTypeOK
<1>4. PICK S2 : Hears(S2, c, Knows(c), down \o <<f>>) /\ More(S2, S, x)
  BY <1>1, <1>2, <1>3, <1>5, HearsMore
<1>6. /\ Hears(S2, c, Knows(c), down') /\ S2[Len(S2)] = x /\ e \in Known
      /\ \A i \in 1..Len(S) : S2[i] = S[i]
  BY <1>2, <1>4 DEF More
<1>7. Agrees(c, x)'
  BY <1>1, <1>2, <1>3, <1>6 DEF Agrees
<1>8. NewlyJoined(S2, c)'
  <2>1. Len(down') = Len(down) + 1 /\ down'[Len(down) + 1] = f
        /\ \A i \in 1..Len(down) : down'[i] = down[i]
    BY <1>5, OneMore
  <2>2. ASSUME NEW i \in 1..Len(down), down'[i].type = "joinMe", down'[i].channel = c
        PROVE  S2[i].asked = "no"
    BY <1>1, <1>5, <1>6, <2>1, <2>2 DEF NewlyJoined
  <2>3. f.type = "joinMe" /\ f.channel = c => S2[Len(down) + 1].asked = "no"
    BY <1>1, <1>2, <1>5, <1>6
  <2>4. QED
    BY <1>5, <2>1, <2>2, <2>3 DEF NewlyJoined
<1>9. Knows(c)' = Knows(c)
  BY DEF Knows
<1>10. QED
  BY <1>6, <1>7, <1>8, <1>9 DEF Informed

LEMMA InformedLess ==
  ASSUME ChatTypeOK, NEW c \in Channel, Informed(c), down # <<>>, down' = Tail(down),
         Knows(c)' = Told(c, Knows(c), Head(down)), UNCHANGED <<mine, naming, blurred, members>>
  PROVE  /\ Informed(c)'
         /\ Head(down).type = "joinMe" /\ Head(down).channel = c => c \notin asked
<1>1. PICK S : Hears(S, c, Knows(c), down) /\ NewlyJoined(S, c) /\ Agrees(c, S[Len(S)])
  BY DEF Informed
<1>3. /\ down \in Seq(ServerLine) /\ Len(down) \in Nat \ {0} /\ Head(down) = down[1]
      /\ Len(down') = Len(down) - 1 /\ \A i \in 1..Len(down) - 1 : down'[i] = down[i + 1]
  BY OneLess DEF ChatTypeOK
<1>2. PICK S2 : Hears(S2, c, Told(c, Knows(c), Head(down)), Tail(down)) /\ Less(S2, S, Len(down))
  BY <1>1, <1>3, HearsLess
<1>4. /\ Hears(S2, c, Knows(c)', down') /\ S2[Len(S2)] = S[Len(S)]
      /\ \A i \in 1..Len(down) - 1 : S2[i] = S[i + 1]
  BY <1>2 DEF Less
<1>5. Agrees(c, S2[Len(S2)])'
  BY <1>1, <1>4 DEF Agrees
<1>6. NewlyJoined(S2, c)'
  <2>1. ASSUME NEW i \in 1..Len(down) - 1, down'[i].type = "joinMe", down'[i].channel = c
        PROVE  S2[i].asked = "no"
    <3>1. i + 1 \in 1..Len(down)
      BY <1>3
    <3>2. QED
      BY <1>1, <1>3, <1>4, <2>1, <3>1 DEF NewlyJoined
  <2>2. QED
    BY <1>3, <2>1 DEF NewlyJoined
<1>7. Head(down).type = "joinMe" /\ Head(down).channel = c => c \notin asked
  <2>1. S[1] = Knows(c)
    BY <1>1 DEF Hears
  <2>2. QED
    BY <1>1, <1>3, <2>1 DEF NewlyJoined, Knows
<1>8. QED
  BY <1>4, <1>5, <1>6, <1>7 DEF Informed

LEMMA InformedSame ==
  ASSUME NEW c \in Channel, Informed(c), ChatTypeOK,
         UNCHANGED <<down, roster, pendingNames, asked>>,
         \A e \in Known : Agrees(c, e) => Agrees(c, e)'
  PROVE  Informed(c)'
<1>1. PICK S : Hears(S, c, Knows(c), down) /\ NewlyJoined(S, c) /\ Agrees(c, S[Len(S)])
  BY DEF Informed
<1>2. S[Len(S)] \in Known
  BY <1>1 DEF Hears, ChatTypeOK
<1>3. Agrees(c, S[Len(S)])'
  BY <1>1, <1>2
<1>4. Knows(c)' = Knows(c) /\ NewlyJoined(S, c)'
  BY <1>1 DEF Knows, NewlyJoined
<1>5. QED
  BY <1>1, <1>3, <1>4 DEF Informed

LEMMA FollowsSession ==
  ASSUME ChatTypeOK, Follows, Session
  PROVE  /\ Follows'
         /\ Head(down).type = "joinMe" => Head(down).channel \notin asked
<1>1. /\ down # <<>> /\ down' = Tail(down) /\ conn = "up" /\ conn' = "up"
      /\ UNCHANGED <<mine, naming, blurred, members>>
  BY SessionSends DEF serverVars
<1>2. ASSUME NEW c \in Channel
      PROVE  /\ Informed(c)'
             /\ Head(down).type = "joinMe" /\ Head(down).channel = c => c \notin asked
  <2>1. Informed(c)
    BY <1>1 DEF Follows
  <2>2. Knows(c)' = Told(c, Knows(c), Head(down))
    BY ToldIsRead
  <2>3. QED
    BY <1>1, <2>1, <2>2, InformedLess
<1>3. Head(down).type = "joinMe" => Head(down).channel \in Channel
  BY <1>1, OneLess, LineFields DEF ChatTypeOK
<1>4. QED
  BY <1>2, <1>3 DEF Follows

\* A line says something of the channels it is about only, and only some lines
\* say anything of the names and of us.
LEMMA ToldOther ==
  ASSUME NEW c \in Channel, NEW e \in Known, NEW f \in ServerLine,
         f.channel # c, f.type \notin {"quit", "nick"}
  PROVE  Told(c, e, f) = e
BY DEF Told, Known

LEMMA ToldEvent ==
  ASSUME NEW c \in Channel, NEW e \in Known, NEW f \in ServerLine,
         f.type \in {"welcome", "join", "part", "quit", "nick", "mode", "message"}
  PROVE  /\ Told(c, e, f).asked = e.asked
         /\ Told(c, e, f).pending = e.pending
         /\ f.type \in {"welcome", "message"} => Told(c, e, f) = e
BY DEF Told, Known

\* Something happens that concerns other people only.
LEMMA FollowsEvent ==
  ASSUME ChatTypeOK, Present, Follows, NEW cs, NEW f \in ServerLine, Happens(cs, f), mine' = mine,
         f.type \in {"join", "part", "quit", "nick", "mode", "message"},
         \A c \in Channel \ cs : members'[c] = members[c],
         \A c \in Channel : \A e \in Known :
            e.roster = members[c] => Told(c, e, f).roster = members'[c]
  PROVE  Follows'
<1>1. SUFFICES ASSUME conn' = "up", NEW c \in Channel PROVE Informed(c)'
  BY DEF Follows
<1>2. /\ UNCHANGED <<conn, roster, pendingNames, asked, naming>>
      /\ blurred' = blurred \cup {d \in cs \cap mine : naming[d] = "end"}
      /\ IF cs \cap mine = {} THEN down' = down ELSE down' = down \o <<f>>
  BY DEF Happens, sessionVars, Says
<1>3. Informed(c)
  BY <1>1, <1>2 DEF Follows
<1>4. naming[c] = "end" => c \in mine
  BY DEF Present
<1>5. CASE cs \cap mine = {}
  <2>1. c \in mine => members'[c] = members[c]
    BY <1>5
  <2>2. \A e \in Known : Agrees(c, e) => Agrees(c, e)'
    BY <1>2, <1>4, <1>5, <2>1 DEF Agrees
  <2>3. QED
    BY <1>2, <1>3, <1>5, <2>2, InformedSame
<1>6. CASE cs \cap mine # {}
  <2>1. ASSUME NEW e \in Known, Agrees(c, e), NEW e2, e2 = Told(c, e, f)
        PROVE  Agrees(c, e2)'
    <3>1. e2.asked = e.asked /\ e2.pending = e.pending
          /\ (e.roster = members[c] => e2.roster = members'[c])
      BY <2>1, ToldEvent
    <3>2. naming[c] = "end" /\ c \notin blurred' => c \notin blurred /\ members'[c] = members[c]
      BY <1>2, <1>4
    <3>3. QED
      BY <1>2, <2>1, <3>1, <3>2 DEF Agrees
  <2>2. f.type # "joinMe"
    OBVIOUS
  <2>3. \A e \in Known : Agrees(c, e) =>
            /\ f.type = "joinMe" /\ f.channel = c => e.asked = "no"
            /\ \A e2 : e2 = Told(c, e, f) => Agrees(c, e2)'
    BY <2>1, <2>2
  <2>4. QED
    BY <1>2, <1>3, <1>6, <2>3, InformedMore
<1>7. QED
  BY <1>5, <1>6

LEMMA FollowsOther ==
  ASSUME ChatTypeOK, Present, Follows, OtherStep
  PROVE  Follows'
<1> USE DEF Rank
<1>0. members \in [Channel -> Roster] /\ \A c \in Channel : members[c] \in [Nick -> Rank]
  BY DEF ChatTypeOK, Roster
<1>1. ASSUME NEW d \in Channel, NEW n \in Nick, OtherJoins(n, d) PROVE Follows'
  <2>1. PICK f : f = PersonUpdate("join", d, n, "plain")
    OBVIOUS
  <2>2. f \in ServerLine /\ f.type = "join" /\ f.channel = d /\ f.nick = n
    BY <2>1, LinesTyped, UpdateFields DEF PersonUpdate
  <2>3. Happens({d}, f) /\ mine' = mine /\ members' = [members EXCEPT ![d][n] = "plain"]
    BY <1>1, <2>1 DEF OtherJoins
  <2>4. \A c \in Channel \ {d} : members'[c] = members[c]
    BY <1>0, <2>3
  <2>5. \A c \in Channel : \A e \in Known :
          e.roster = members[c] => Told(c, e, f).roster = members'[c]
    BY <1>0, <2>2, <2>3 DEF Told
  <2>6. QED
    BY <2>2, <2>3, <2>4, <2>5, FollowsEvent
<1>2. ASSUME NEW d \in Channel, NEW n \in Nick, OtherParts(n, d) PROVE Follows'
  <2>1. PICK f : f = PersonUpdate("part", d, n, "absent")
    OBVIOUS
  <2>2. f \in ServerLine /\ f.type = "part" /\ f.channel = d /\ f.nick = n
    BY <2>1, LinesTyped, UpdateFields DEF PersonUpdate
  <2>3. Happens({d}, f) /\ mine' = mine /\ members' = [members EXCEPT ![d][n] = "absent"]
    BY <1>2, <2>1 DEF OtherParts
  <2>4. \A c \in Channel \ {d} : members'[c] = members[c]
    BY <1>0, <2>3
  <2>5. \A c \in Channel : \A e \in Known :
          e.roster = members[c] => Told(c, e, f).roster = members'[c]
    BY <1>0, <2>2, <2>3 DEF Told
  <2>6. QED
    BY <2>2, <2>3, <2>4, <2>5, FollowsEvent
<1>3. ASSUME NEW d \in Channel, NEW n \in Nick, OtherIsOpped(n, d) PROVE Follows'
  <2>1. PICK f : f = PersonUpdate("mode", d, n, "op")
    OBVIOUS
  <2>2. f \in ServerLine /\ f.type = "mode" /\ f.channel = d /\ f.nick = n /\ f.rank = "op"
    BY <2>1, LinesTyped, UpdateFields DEF PersonUpdate
  <2>3. Happens({d}, f) /\ mine' = mine /\ members' = [members EXCEPT ![d][n] = "op"]
        /\ members[d][n] = "plain"
    BY <1>3, <2>1 DEF OtherIsOpped
  <2>4. \A c \in Channel \ {d} : members'[c] = members[c]
    BY <1>0, <2>3
  <2>5. Ranked(members[d], n, "op") = members'[d]
    BY <1>0, <2>3 DEF Ranked
  <2>6. \A c \in Channel : \A e \in Known :
          e.roster = members[c] => Told(c, e, f).roster = members'[c]
    BY <1>0, <2>2, <2>4, <2>5 DEF Told
  <2>7. QED
    BY <2>2, <2>3, <2>4, <2>6, FollowsEvent
<1>4. ASSUME NEW d \in Channel, OtherSpeaks(d) PROVE Follows'
  <2>1. PICK f : f = ChannelUpdate("message", d)
    OBVIOUS
  <2>2. f \in ServerLine /\ f.type = "message"
    BY <2>1, LinesTyped, UpdateFields DEF ChannelUpdate
  <2>3. Happens({d}, f) /\ mine' = mine /\ members' = members
    BY <1>4, <2>1 DEF OtherSpeaks
  <2>4. \A c \in Channel : \A e \in Known :
          e.roster = members[c] => Told(c, e, f).roster = members'[c]
    BY <2>2, <2>3, ToldEvent
  <2>5. QED
    BY <2>2, <2>3, <2>4, FollowsEvent
<1>5. ASSUME NEW d \in Channel, KicksMe(d) PROVE Follows'
  <2>1. PICK f : f = ChannelUpdate("kickMe", d)
    OBVIOUS
  <2>2. f \in ServerLine /\ f.type = "kickMe" /\ f.channel = d
    BY <2>1, LinesTyped, UpdateFields DEF ChannelUpdate
  <2>3. /\ Happens({d}, f) /\ naming[d] = "no"
        /\ d \in mine /\ mine' = mine \ {d} /\ members' = members
    BY <1>5, <2>1 DEF KicksMe
  <2>4. /\ UNCHANGED <<conn, roster, pendingNames, asked, naming>>
        /\ down' = down \o <<f>>
        /\ \A c \in Channel : c \in blurred <=> c \in blurred'
    BY <2>3 DEF Happens, sessionVars, Says
  <2>5. SUFFICES ASSUME conn' = "up", NEW c \in Channel PROVE Informed(c)'
    BY DEF Follows
  <2>6. Informed(c)
    BY <2>4, <2>5 DEF Follows
  <2>7. ASSUME NEW e \in Known, Agrees(c, e), NEW e2, e2 = Told(c, e, f)
        PROVE  Agrees(c, e2)'
    <3>1. CASE c = d
      <4>1. e2.asked = "no" /\ e2.pending = e.pending
        BY <2>2, <2>7, <3>1 DEF Told
      <4>2. QED
        BY <2>3, <2>4, <2>7, <3>1, <4>1 DEF Agrees
    <3>2. CASE c # d
      <4>1. e2 = e
        BY <2>2, <2>7, <3>2, ToldOther
      <4>2. QED
        BY <2>3, <2>4, <2>7, <3>2, <4>1 DEF Agrees
    <3>3. QED
      BY <3>1, <3>2
  <2>8. \A e \in Known : Agrees(c, e) =>
            /\ f.type = "joinMe" /\ f.channel = c => e.asked = "no"
            /\ \A e2 : e2 = Told(c, e, f) => Agrees(c, e2)'
    BY <2>2, <2>7
  <2>9. QED
    BY <2>2, <2>4, <2>6, <2>8, InformedMore
<1>6. ASSUME NEW n \in Nick, OtherQuits(n) PROVE Follows'
  <2>1. PICK f : f = PersonUpdate("quit", "none", n, "absent")
    OBVIOUS
  <2>2. f \in ServerLine /\ f.type = "quit" /\ f.nick = n
    BY <2>1, LinesTyped, UpdateFields DEF PersonUpdate
  <2>3. /\ Happens(ChannelsOf(n), f) /\ mine' = mine
        /\ members' = [c \in Channel |-> [members[c] EXCEPT ![n] = "absent"]]
    BY <1>6, <2>1 DEF OtherQuits
  <2>4. ASSUME NEW c \in Channel \ ChannelsOf(n) PROVE members'[c] = members[c]
    <3>1. members[c][n] = "absent"
      BY DEF ChannelsOf
    <3>2. QED
      BY <1>0, <2>3, <3>1
  <2>5. \A c \in Channel : \A e \in Known :
          e.roster = members[c] => Told(c, e, f).roster = members'[c]
    BY <2>2, <2>3 DEF Told
  <2>6. QED
    BY <2>2, <2>3, <2>4, <2>5, FollowsEvent
<1>7. ASSUME NEW n \in Nick, NEW m \in Nick, OtherRenames(n, m) PROVE Follows'
  <2>1. PICK f : f = RenameUpdate("nick", n, m)
    OBVIOUS
  <2>2. f \in ServerLine /\ f.type = "nick" /\ f.nick = n /\ f.to = m
    BY <2>1, LinesTyped, UpdateFields DEF RenameUpdate
  <2>3. /\ Happens(ChannelsOf(n), f) /\ mine' = mine
        /\ members' = [c \in Channel |-> Renamed(members[c], n, m)]
    BY <1>7, <2>1 DEF OtherRenames
  <2>4. ASSUME NEW c \in Channel \ ChannelsOf(n) PROVE members'[c] = members[c]
    <3>1. members[c][n] = "absent"
      BY DEF ChannelsOf
    <3>2. QED
      BY <2>3, <3>1 DEF Renamed
  <2>5. \A c \in Channel : \A e \in Known :
          e.roster = members[c] => Told(c, e, f).roster = members'[c]
    BY <2>2, <2>3 DEF Told
  <2>6. QED
    BY <2>2, <2>3, <2>4, <2>5, FollowsEvent
<1>8. QED
  BY <1>1, <1>2, <1>3, <1>4, <1>5, <1>6, <1>7 DEF OtherStep, Others

LEMMA FollowsServer ==
  ASSUME ChatTypeOK, Present, Follows, Server
  PROVE  Follows'
<1>1. UNCHANGED <<conn, roster, pendingNames, asked, members>>
  BY DEF Server, ServerWelcomes, ServerTakesJoin, ServerTakesPart, ServerTakesHistory, ServerTakes,
         ServerNames, ServerEndsNames, sessionVars
<1>2. SUFFICES ASSUME conn' = "up", NEW c \in Channel PROVE Informed(c)'
  BY DEF Follows
<1>3. Informed(c)
  BY <1>1, <1>2 DEF Follows
<1>4. ASSUME NEW f \in ServerLine, down' = down \o <<f>>,
             \A e \in Known : Agrees(c, e) =>
               /\ f.type = "joinMe" /\ f.channel = c => e.asked = "no"
               /\ \A e2 : e2 = Told(c, e, f) => Agrees(c, e2)'
      PROVE  Informed(c)'
  BY <1>1, <1>3, <1>4, InformedMore
<1>5. ASSUME UNCHANGED <<down, mine, naming, blurred>>
      PROVE  Informed(c)'
  <2>1. \A e \in Known : Agrees(c, e) => Agrees(c, e)'
    BY <1>1, <1>5 DEF Agrees
  <2>2. QED
    BY <1>1, <1>3, <1>5, <2>1, InformedSame
<1>6. CASE ServerWelcomes
  <2>1. PICK f : f = StatusUpdate("welcome")
    OBVIOUS
  <2>2. f \in ServerLine /\ f.type = "welcome"
    BY <2>1, LinesTyped, UpdateFields DEF StatusUpdate
  <2>3. down' = down \o <<f>> /\ UNCHANGED <<mine, naming, blurred>>
    BY <1>6, <2>1 DEF ServerWelcomes, Says
  <2>4. ASSUME NEW e \in Known, Agrees(c, e), NEW e2, e2 = Told(c, e, f)
        PROVE  Agrees(c, e2)'
    <3>1. e2 = e
      BY <2>2, <2>4, ToldEvent
    <3>2. QED
      BY <1>1, <2>3, <2>4, <3>1 DEF Agrees
  <2>5. QED
    BY <1>4, <2>2, <2>3, <2>4
<1>7. CASE ServerTakesJoin
  <2>1. PICK d : d = Head(Commands).channel
    OBVIOUS
  <2>2. d \in Channel /\ \A x \in Channel : naming[x] = "no"
    BY <1>7, <2>1, TakenFrom DEF ServerTakesJoin, ServerTakes
  <2>3. CASE UNCHANGED <<mine, naming, blurred, down>>
    BY <1>5, <2>3
  <2>4. CASE /\ d \notin mine /\ mine' = mine \cup {d} /\ naming' = [naming EXCEPT ![d] = "names"]
             /\ blurred' = blurred \ {d} /\ down' = down \o <<ChannelUpdate("joinMe", d)>>
    <3>1. PICK f : f = ChannelUpdate("joinMe", d)
      OBVIOUS
    <3>2. f \in ServerLine /\ f.type = "joinMe" /\ f.channel = d
      BY <2>2, <3>1, LinesTyped, UpdateFields DEF ChannelUpdate
    <3>3. \A e \in Known : Agrees(c, e) /\ f.channel = c => e.asked = "no"
      BY <2>4, <3>2 DEF Agrees, Known
    <3>4. /\ \A x \in Channel : naming'[x] = IF x = d THEN "names" ELSE "no"
          /\ \A x \in Channel : x # d => (x \in blurred' <=> x \in blurred)
                                      /\ (x \in mine' <=> x \in mine)
          /\ d \in mine'
      BY <2>2, <2>4 DEF ChatTypeOK
    <3>5. ASSUME NEW e \in Known, Agrees(c, e), NEW e2, e2 = Told(c, e, f)
          PROVE  Agrees(c, e2)'
      <4>1. CASE c = d
        <5>1. e2.asked = "yes" /\ e2.pending = e.pending
          BY <3>2, <3>5, <4>1 DEF Told
        <5>2. QED
          BY <2>2, <3>4, <3>5, <4>1, <5>1 DEF Agrees
      <4>2. CASE c # d
        <5>1. e2 = e
          BY <3>2, <3>5, <4>2, ToldOther
        <5>2. QED
          BY <1>1, <2>2, <3>4, <3>5, <4>2, <5>1 DEF Agrees
      <4>3. QED
        BY <4>1, <4>2
    <3>6. QED
      BY <1>4, <2>4, <3>1, <3>2, <3>3, <3>5
  <2>5. QED
    BY <1>7, <2>1, <2>3, <2>4 DEF ServerTakesJoin, Says
<1>8. CASE ServerTakesPart
  <2>1. PICK d : d = Head(Commands).channel
    OBVIOUS
  <2>2. /\ d \in Channel /\ UNCHANGED <<naming, blurred>>
        /\ \A x \in Channel : naming[x] = "no"
    BY <1>8, <2>1, TakenFrom DEF ServerTakesPart, ServerTakes
  <2>3. CASE UNCHANGED <<mine, down>>
    BY <1>5, <2>2, <2>3
  <2>4. CASE mine' = mine \ {d} /\ down' = down \o <<ChannelUpdate("partMe", d)>>
    <3>1. PICK f : f = ChannelUpdate("partMe", d)
      OBVIOUS
    <3>2. f \in ServerLine /\ f.type = "partMe" /\ f.channel = d
      BY <2>2, <3>1, LinesTyped, UpdateFields DEF ChannelUpdate
    <3>3. ASSUME NEW e \in Known, Agrees(c, e), NEW e2, e2 = Told(c, e, f)
          PROVE  Agrees(c, e2)'
      <4>1. CASE c = d
        <5>1. e2.asked = "no" /\ e2.pending = e.pending
          BY <3>2, <3>3, <4>1 DEF Told
        <5>2. QED
          BY <2>2, <2>4, <3>3, <4>1, <5>1 DEF Agrees
      <4>2. CASE c # d
        <5>1. e2 = e
          BY <3>2, <3>3, <4>2, ToldOther
        <5>2. QED
          BY <1>1, <2>2, <2>4, <3>3, <4>2, <5>1 DEF Agrees
      <4>3. QED
        BY <4>1, <4>2
    <3>4. QED
      BY <1>4, <2>4, <3>1, <3>2, <3>3
  <2>5. QED
    BY <1>8, <2>1, <2>3, <2>4 DEF ServerTakesPart, Says
<1>9. CASE ServerTakesHistory
  <2>1. PICK d : d = Head(Commands).channel
    OBVIOUS
  <2>2. d \in Channel /\ UNCHANGED <<mine, naming, blurred>>
    BY <1>9, <2>1, TakenFrom DEF ServerTakesHistory
  <2>3. CASE down' = down
    BY <1>5, <2>2, <2>3
  <2>4. CASE down' = down \o <<ChannelUpdate("message", d)>>
    <3>1. PICK f : f = ChannelUpdate("message", d)
      OBVIOUS
    <3>2. f \in ServerLine /\ f.type = "message"
      BY <2>2, <3>1, LinesTyped, UpdateFields DEF ChannelUpdate
    <3>3. ASSUME NEW e \in Known, Agrees(c, e), NEW e2, e2 = Told(c, e, f)
          PROVE  Agrees(c, e2)'
      <4>1. e2 = e
        BY <3>2, <3>3, ToldEvent
      <4>2. QED
        BY <1>1, <2>2, <3>3, <4>1 DEF Agrees
    <3>4. QED
      BY <1>4, <2>4, <3>1, <3>2, <3>3
  <2>5. QED
    BY <1>9, <2>1, <2>3, <2>4 DEF ServerTakesHistory, Says
<1>10. ASSUME NEW d \in Channel, ServerNames(d) PROVE Informed(c)'
  <2>1. PICK f : f = RosterUpdate("names", d, members[d])
    OBVIOUS
  <2>2. members[d] \in Roster
    BY DEF ChatTypeOK
  <2>3. f \in ServerLine /\ f.type = "names" /\ f.channel = d /\ f.names = members[d]
    BY <2>1, <2>2, LinesTyped, UpdateFields DEF RosterUpdate
  <2>4. /\ naming[d] = "names" /\ naming' = [naming EXCEPT ![d] = "end"]
        /\ down' = down \o <<f>> /\ UNCHANGED <<mine, blurred>>
    BY <1>10, <2>1 DEF ServerNames, Says
  <2>5. Collected(Nobody, members[d]) = members[d]
    BY <2>2 DEF Collected, Nobody, Roster
  <2>6. ASSUME NEW e \in Known, Agrees(c, e), NEW e2, e2 = Told(c, e, f)
        PROVE  Agrees(c, e2)'
    <3>1. CASE c = d
      <4>1. e2.asked = e.asked /\ e2.pending = Collected(e.pending, members[d])
        BY <2>3, <2>6, <3>1 DEF Told
      <4>2. naming'[c] = "end" /\ e.pending = Nobody
        BY <2>4, <2>6, <3>1 DEF Agrees, ChatTypeOK
      <4>3. QED
        BY <1>1, <2>4, <2>5, <2>6, <3>1, <4>1, <4>2 DEF Agrees
    <3>2. CASE c # d
      <4>1. e2 = e
        BY <2>3, <2>6, <3>2, ToldOther
      <4>2. naming'[c] = naming[c]
        BY <2>4, <3>2 DEF ChatTypeOK
      <4>3. QED
        BY <1>1, <2>4, <2>6, <4>1, <4>2 DEF Agrees
    <3>3. QED
      BY <3>1, <3>2
  <2>7. QED
    BY <1>4, <2>3, <2>4, <2>6
<1>11. ASSUME NEW d \in Channel, ServerEndsNames(d) PROVE Informed(c)'
  <2>1. PICK f : f = ChannelUpdate("endOfNames", d)
    OBVIOUS
  <2>3. f \in ServerLine /\ f.type = "endOfNames" /\ f.channel = d
    BY <2>1, LinesTyped, UpdateFields DEF ChannelUpdate
  <2>4. /\ naming[d] = "end" /\ naming' = [naming EXCEPT ![d] = "no"]
        /\ down' = down \o <<f>> /\ UNCHANGED <<mine, blurred>>
    BY <1>11, <2>1 DEF ServerEndsNames, Says
  <2>6. ASSUME NEW e \in Known, Agrees(c, e), NEW e2, e2 = Told(c, e, f)
        PROVE  Agrees(c, e2)'
    <3>1. CASE c = d
      <4>1. e2.asked = e.asked /\ e2.pending = Nobody /\ e2.roster = e.pending
        BY <2>3, <2>6, <3>1 DEF Told
      <4>2. naming'[c] = "no"
        BY <2>4, <3>1 DEF ChatTypeOK
      <4>3. QED
        BY <1>1, <2>4, <2>6, <3>1, <4>1, <4>2 DEF Agrees
    <3>2. CASE c # d
      <4>1. e2 = e
        BY <2>3, <2>6, <3>2, ToldOther
      <4>2. naming'[c] = naming[c]
        BY <2>4, <3>2 DEF ChatTypeOK
      <4>3. QED
        BY <1>1, <2>4, <2>6, <4>1, <4>2 DEF Agrees
    <3>3. QED
      BY <3>1, <3>2
  <2>7. QED
    BY <1>4, <2>3, <2>4, <2>6
<1>12. QED
  BY <1>6, <1>7, <1>8, <1>9, <1>10, <1>11 DEF Server

\* A session that begins knows nothing, and the server has said nothing to it.
LEMMA FollowsDial ==
  ASSUME ChatTypeOK, Present, Dial
  PROVE  Follows'
<1>1. SUFFICES ASSUME NEW c \in Channel PROVE Informed(c)'
  BY DEF Follows
<1>2. PICK e : e = [roster |-> Nobody, pending |-> Nobody, asked |-> "no"]
  OBVIOUS
<1>3. e \in Known /\ e.asked = "no" /\ e.pending = Nobody
  BY <1>2, NobodyIsRoster DEF Known
<1>4. /\ roster' = NoRosters /\ pendingNames' = NoRosters /\ asked' = {}
      /\ UNCHANGED <<down, mine, naming, blurred, members>> /\ conn # "up"
  BY DEF Dial, serverVars
<1>5. mine = {} /\ down = <<>> /\ naming[c] = "no"
  BY <1>4 DEF Present, ChatTypeOK
<1>6. Knows(c)' = e
  BY <1>2, <1>4 DEF Knows, NoRosters
<1>7. PICK S : S = <<e>>
  OBVIOUS
<1>8. S \in Seq(Known) /\ Len(S) = 1 /\ S[1] = e
  BY <1>3, <1>7
<1>9. Hears(S, c, e, <<>>)
  BY <1>8 DEF Hears
<1>10. Agrees(c, S[Len(S)])'
  BY <1>3, <1>4, <1>5, <1>8 DEF Agrees
<1>11. NewlyJoined(S, c)'
  BY <1>4, <1>5 DEF NewlyJoined
<1>12. down' = <<>>
  BY <1>4, <1>5
<1>13. QED
  BY <1>6, <1>9, <1>10, <1>11, <1>12 DEF Informed

LEMMA FollowsKept ==
  ASSUME ChatTypeOK, Present, Follows, [ChatNext]_chatVars
  PROVE  Follows'
<1>1. CASE UNCHANGED <<conn, down, roster, pendingNames, asked, mine, naming, blurred, members>>
  BY <1>1 DEF Follows, Informed, Knows, NewlyJoined, Agrees
<1> USE DEF sessionVars, serverVars
<1>2. ASSUME NEW c \in Channel, Join(c) \/ Leave(c) PROVE Follows'
  BY <1>1, <1>2 DEF Join, Leave
<1>3. CASE Announce \/ JoinAnnounced \/ JoinAuto \/ Relay
  BY <1>1, <1>3 DEF Announce, JoinAnnounced, JoinAuto, Relay
<1>4. CASE UNCHANGED chatVars
  BY <1>1, <1>4 DEF chatVars
<1>5. CASE ReportLost \/ ConnectionLost
  BY <1>5 DEF ReportLost, ConnectionLost, Follows
<1>6. QED
  BY <1>2, <1>3, <1>4, <1>5, FollowsDial, FollowsSession, FollowsServer, FollowsOther
     DEF ChatNext, OtherStep

LEMMA FollowsBegins == ChatInit => Follows
BY DEF ChatInit, Follows

LEMMA ServerIsFollowed ==
  ASSUME ChatTypeOK, Screen, Follows
  PROVE  ScreenFollowsServer
<1>1. SUFFICES ASSUME Settled, NEW c \in mine \ blurred PROVE users[c] = members[c]
  BY DEF ScreenFollowsServer
<1>2. conn = "up" /\ down = <<>> /\ updates = <<>> /\ c \in Channel /\ naming[c] = "no"
  BY <1>1 DEF Settled, ChatTypeOK
<1>3. PICK S : Hears(S, c, Knows(c), down) /\ Agrees(c, S[Len(S)])
  BY <1>2 DEF Follows, Informed
<1>4. Len(S) = 1 /\ S[1] = Knows(c)
  BY <1>2, <1>3 DEF Hears
<1>5. roster[c] = members[c]
  BY <1>2, <1>3, <1>4 DEF Agrees, Knows
<1>6. PICK P : Plays(P, users, updates) /\ P[Len(P)] = roster
  BY <1>2 DEF Screen
<1>7. users = roster
  BY <1>2, <1>6 DEF Plays
<1>8. QED
  BY <1>5, <1>7

-----------------------------------------------------------------------------
(* ChatSession: what is wanted is joined *)

LEMMA ToSetIs ==
  ASSUME NEW T, NEW s \in Seq(T)
  PROVE  ToSet(s) = {s[i] : i \in 1..Len(s)}
BY DEF ToSet

LEMMA ToSetJoined ==
  ASSUME NEW T, NEW s \in Seq(T), NEW r \in Seq(T)
  PROVE  ToSet(s \o r) = ToSet(s) \cup ToSet(r)
<1> DEFINE q == s \o r
<1>1. /\ q \in Seq(T) /\ Len(q) = Len(s) + Len(r) /\ Len(s) \in Nat /\ Len(r) \in Nat
      /\ \A i \in 1..Len(s) : q[i] = s[i]
      /\ \A i \in 1..Len(r) : q[Len(s) + i] = r[i]
  OBVIOUS
<1> HIDE DEF q
<1>2. \A i \in 1..Len(q) : q[i] \in ToSet(s) \cup ToSet(r)
  <2>1. ASSUME NEW i \in 1..Len(q), i <= Len(s) PROVE q[i] \in ToSet(s)
    BY <1>1, <2>1 DEF ToSet
  <2>2. ASSUME NEW i \in 1..Len(q), ~(i <= Len(s)) PROVE q[i] \in ToSet(r)
    <3>1. PICK j \in 1..Len(r) : i = Len(s) + j
      <4>1. i - Len(s) \in 1..Len(r) /\ i = Len(s) + (i - Len(s))
        BY <1>1, <2>2
      <4>2. QED
        BY <4>1
    <3>2. QED
      BY <1>1, <3>1 DEF ToSet
  <2>3. QED
    BY <2>1, <2>2
<1>3. \A i \in 1..Len(s) : s[i] \in ToSet(q)
  BY <1>1 DEF ToSet
<1>4. \A i \in 1..Len(r) : r[i] \in ToSet(q)
  <2>1. ASSUME NEW i \in 1..Len(r) PROVE r[i] \in ToSet(q)
    <3>1. Len(s) + i \in 1..Len(q) /\ q[Len(s) + i] = r[i]
      BY <1>1
    <3>2. QED
      BY <1>1, <3>1 DEF ToSet
  <2>2. QED
    BY <2>1
<1>5. QED
  <2>1. ToSet(q) = {q[i] : i \in 1..Len(q)} /\ ToSet(s) = {s[i] : i \in 1..Len(s)}
        /\ ToSet(r) = {r[i] : i \in 1..Len(r)}
    BY <1>1, ToSetIs
  <2>2. ToSet(q) \subseteq ToSet(s) \cup ToSet(r)
    BY <1>2, <2>1
  <2>3. ToSet(s) \subseteq ToSet(q) /\ ToSet(r) \subseteq ToSet(q)
    BY <1>3, <1>4, <2>1
  <2>4. QED
    BY <2>2, <2>3 DEF q

LEMMA ToSetMore ==
  ASSUME NEW T, NEW s \in Seq(T), NEW x \in T
  PROVE  ToSet(s \o <<x>>) = ToSet(s) \cup {x}
<1>1. PICK r : r = <<x>>
  OBVIOUS
<1>2. r \in Seq(T) /\ ToSet(r) = {x}
  BY <1>1 DEF ToSet
<1>3. ToSet(s \o r) = ToSet(s) \cup {x}
  BY <1>2, ToSetJoined
<1>4. QED
  BY <1>1, <1>3

LEMMA ToSetLess ==
  ASSUME NEW T, NEW s \in Seq(T), s # <<>>
  PROVE  ToSet(s) = {Head(s)} \cup ToSet(Tail(s))
<1>1. /\ Head(s) = s[1] /\ Len(s) \in Nat \ {0} /\ Len(Tail(s)) = Len(s) - 1
      /\ \A i \in 1..Len(s) - 1 : Tail(s)[i] = s[i + 1]
      /\ Tail(s) \in Seq(T)
  BY OneLess
<1> DEFINE q == Tail(s)
<1> HIDE DEF q
<1>2. /\ Len(q) = Len(s) - 1 /\ \A i \in 1..Len(s) - 1 : q[i] = s[i + 1]
      /\ q \in Seq(T)
  BY <1>1 DEF q
<1>3. \A i \in 1..Len(q) : q[i] \in ToSet(s)
  BY <1>1, <1>2 DEF ToSet
<1>4. ASSUME NEW i \in 1..Len(s) PROVE s[i] \in {Head(s)} \cup ToSet(q)
  <2>1. CASE i = 1
    BY <1>1, <2>1
  <2>2. CASE i # 1
    <3>1. i - 1 \in 1..Len(q) /\ q[i - 1] = s[i]
      BY <1>1, <1>2, <2>2
    <3>2. QED
      BY <1>2, <3>1 DEF ToSet
  <2>3. QED
    BY <2>1, <2>2
<1>5. QED
  <2>1. ToSet(q) = {q[i] : i \in 1..Len(q)} /\ ToSet(s) = {s[i] : i \in 1..Len(s)}
    BY <1>1, <1>2 DEF ToSet
  <2>2. ToSet(q) \subseteq ToSet(s) /\ Head(s) \in ToSet(s)
    BY <1>1, <1>3, <2>1
  <2>3. ToSet(s) \subseteq {Head(s)} \cup ToSet(q)
    BY <1>4, <2>1
  <2>4. QED
    BY <2>2, <2>3 DEF q

LEMMA ToSetEmpty == ToSet(<<>>) = {}
BY DEF ToSet

LEMMA LineFacts ==
  /\ \A t, c : Line(t, c).command = t /\ Line(t, c).channel = c
  /\ \A x \in Command : x = Line(x.command, x.channel)
  /\ \A t, u, c, d : Line(t, c) = Line(u, d) <=> t = u /\ c = d
BY DEF Line, Command

\* A line on its way that says this of a channel; a welcome on its way.
Coming(t, c) == \E f \in ToSet(down) : f.type = t /\ f.channel = c
Welcoming == \E f \in ToSet(down) : f.type = "welcome"

\* A channel is parted while it is wanted only to be joined again.
JoinedLast ==
  \A c \in wanted : \A i \in 1..Len(outgoing) :
    outgoing[i] = Line("PART", c) => \E j \in i + 1..Len(outgoing) : outgoing[j] = Line("JOIN", c)

\* A channel that is wanted is joined, or its JOIN is under way, or the line
\* that ends the wish.
Rejoins ==
  conn = "up" /\ online /\ ~Welcoming =>
    \A c \in wanted : c \in mine \/ Coming("kickMe", c)
                      \/ Line("JOIN", c) \in ToSet(up) \/ Line("JOIN", c) \in ToSet(outgoing)

\* The client queues lines: JOINs of what it wants, a PART of what it no longer
\* does.
LEMMA JoinedLastMore ==
  ASSUME ChatTypeOK, JoinedLast, NEW cs \in SUBSET Channel, JoinChannels(cs)
  PROVE  JoinedLast'
<1>1. wanted' = wanted \cup cs /\ outgoing' = outgoing \o Joins(cs)
  BY DEF JoinChannels, Joins
<1> DEFINE q == Joins(cs)
<1>2. /\ q \in Seq(Command)
      /\ \A i \in 1..Len(q) : q[i].command = "JOIN"
      /\ \A c \in cs : \E i \in 1..Len(q) : q[i] = Line("JOIN", c)
  BY JoinsFacts
<1> HIDE DEF q
<1>3. PICK r : r = outgoing
  OBVIOUS
<1>4. PICK s : s = r \o q
  OBVIOUS
<1>5. /\ r \in Seq(Command) /\ s \in Seq(Command) /\ Len(s) = Len(r) + Len(q)
      /\ Len(r) \in Nat /\ Len(q) \in Nat
      /\ \A i \in 1..Len(r) : s[i] = r[i]
      /\ \A i \in 1..Len(q) : s[Len(r) + i] = q[i]
  <2>1. r \in Seq(Command)
    BY <1>3 DEF ChatTypeOK
  <2>2. QED
    BY <1>2, <1>4, <2>1
<1>6. ASSUME NEW c \in wanted \cup cs, NEW i \in 1..Len(s), s[i] = Line("PART", c)
      PROVE  \E j \in i + 1..Len(s) : s[j] = Line("JOIN", c)
  <2>1. i \in 1..Len(r)
    <3>1. CASE i > Len(r)
      <4>1. PICK k \in 1..Len(q) : i = Len(r) + k
        <5>1. i - Len(r) \in 1..Len(q) /\ i = Len(r) + (i - Len(r))
          BY <1>5, <3>1
        <5>2. QED
          BY <5>1
      <4>2. s[i].command = "JOIN"
        BY <1>2, <1>5, <4>1
      <4>3. QED
        BY <1>6, <4>2, LineFacts
    <3>2. QED
      BY <1>5, <3>1
  <2>2. CASE c \in cs
    <3>1. PICK k \in 1..Len(q) : q[k] = Line("JOIN", c)
      BY <1>2, <2>2
    <3>2. Len(r) + k \in i + 1..Len(s) /\ s[Len(r) + k] = Line("JOIN", c)
      BY <1>5, <2>1, <3>1
    <3>3. QED
      BY <3>2
  <2>3. CASE c \in wanted
    <3>1. PICK j \in i + 1..Len(r) : r[j] = Line("JOIN", c)
      BY <1>3, <1>5, <1>6, <2>1, <2>3 DEF JoinedLast
    <3>2. j \in 1..Len(r) /\ j \in i + 1..Len(s)
      BY <1>5, <2>1, <3>1
    <3>3. QED
      BY <1>5, <3>1, <3>2
  <2>4. QED
    BY <2>2, <2>3
<1>7. outgoing' = s
  BY <1>1, <1>3, <1>4 DEF q
<1>8. QED
  BY <1>1, <1>6, <1>7 DEF JoinedLast

LEMMA JoinedLastPart ==
  ASSUME ChatTypeOK, JoinedLast, NEW c \in Channel, wanted' = wanted \ {c},
         outgoing' = Append(outgoing, Line("PART", c))
  PROVE  JoinedLast'
<1>1. PICK r : r = outgoing
  OBVIOUS
<1>2. PICK x : x = Line("PART", c)
  OBVIOUS
<1>3. x \in Command /\ r \in Seq(Command)
  BY <1>1, <1>2 DEF Line, Command, ChatTypeOK
<1>4. PICK s : s = r \o <<x>>
  OBVIOUS
<1>5. /\ s \in Seq(Command) /\ Len(s) = Len(r) + 1 /\ s[Len(r) + 1] = x /\ Len(r) \in Nat
      /\ \A i \in 1..Len(r) : s[i] = r[i]
  BY <1>3, <1>4, OneMore
<1>6. outgoing' = s
  BY <1>1, <1>2, <1>3, <1>4, OneMore
<1>7. ASSUME NEW d \in wanted, d # c, NEW i \in 1..Len(s), s[i] = Line("PART", d)
      PROVE  \E j \in i + 1..Len(s) : s[j] = Line("JOIN", d)
  <2>1. i \in 1..Len(r)
    <3>1. s[i] # x
      BY <1>2, <1>7, LineFacts
    <3>2. QED
      BY <1>5, <3>1
  <2>2. PICK j \in i + 1..Len(r) : r[j] = Line("JOIN", d)
    BY <1>1, <1>5, <1>7, <2>1 DEF JoinedLast
  <2>3. j \in 1..Len(r) /\ j \in i + 1..Len(s)
    BY <1>5, <2>1, <2>2
  <2>4. QED
    BY <1>5, <2>2, <2>3
<1>8. QED
  BY <1>6, <1>7 DEF JoinedLast

LEMMA JoinedLastTaken ==
  ASSUME ChatTypeOK, JoinedLast, outgoing # <<>>, outgoing' = Tail(outgoing), wanted' = wanted
  PROVE  /\ JoinedLast'
         /\ \A c \in wanted : Head(outgoing) = Line("PART", c)
                              => Line("JOIN", c) \in ToSet(outgoing')
<1>1. PICK r : r = outgoing
  OBVIOUS
<1>2. PICK s : s = outgoing'
  OBVIOUS
<1>3. /\ s \in Seq(Command) /\ Len(r) \in Nat \ {0} /\ Len(s) = Len(r) - 1 /\ Head(r) = r[1]
      /\ \A i \in 1..Len(r) - 1 : s[i] = r[i + 1]
  BY <1>1, <1>2, OneLess DEF ChatTypeOK
<1>4. \A c \in wanted : \A i \in 1..Len(r) :
        r[i] = Line("PART", c) => \E j \in i + 1..Len(r) : r[j] = Line("JOIN", c)
  BY <1>1 DEF JoinedLast
<1>5. ASSUME NEW c \in wanted, NEW i \in 1..Len(s), s[i] = Line("PART", c)
      PROVE  \E j \in i + 1..Len(s) : s[j] = Line("JOIN", c)
  <2>1. i + 1 \in 1..Len(r) /\ r[i + 1] = Line("PART", c)
    BY <1>3, <1>5
  <2>2. PICK j \in (i + 1) + 1..Len(r) : r[j] = Line("JOIN", c)
    BY <1>4, <2>1
  <2>3. j - 1 \in i + 1..Len(s) /\ j - 1 \in 1..Len(r) - 1 /\ (j - 1) + 1 = j
    BY <1>3, <2>2
  <2>4. s[j - 1] = Line("JOIN", c)
    BY <1>3, <2>2, <2>3
  <2>5. QED
    BY <2>3, <2>4
<1>6. ASSUME NEW c \in wanted, r[1] = Line("PART", c)
      PROVE  Line("JOIN", c) \in ToSet(s)
  <2>1. PICK j \in 1 + 1..Len(r) : r[j] = Line("JOIN", c)
    BY <1>3, <1>4, <1>6
  <2>2. j - 1 \in 1..Len(s) /\ (j - 1) + 1 = j
    BY <1>3, <2>1
  <2>3. s[j - 1] = Line("JOIN", c)
    BY <1>3, <2>1, <2>2
  <2>4. QED
    BY <1>3, <2>2, <2>3 DEF ToSet
<1>7. JoinedLast'
  BY <1>2, <1>5 DEF JoinedLast
<1>8. QED
  BY <1>1, <1>2, <1>3, <1>6, <1>7

\* Of a line that tells of a kick the session takes note.
LEMMA SessionWants ==
  ASSUME Session
  PROVE  IF Head(down).type = "kickMe"
         THEN wanted' = wanted \ {Head(down).channel} /\ left' = left \cup {Head(down).channel}
         ELSE wanted' = wanted /\ left' = left
<1>1. CASE OnKickMe
  BY <1>1 DEF OnKickMe, Reads
<1>2. CASE ~OnKickMe
  BY <1>2 DEF Session, OnWelcome, OnJoinMe, OnNames, OnEndOfNames, OnJoin, OnPart, OnPartMe,
         OnQuit, OnNick, OnMode, OnMessage, Reads, clientVars
<1>3. QED
  BY <1>1, <1>2

\* What the server says is added to what it has said.
LEMMA SaysMore ==
  ASSUME ChatTypeOK, Server \/ OtherStep
  PROVE  ToSet(down) \subseteq ToSet(down') /\ down' \in Seq(ServerLine)
<1>1. ChatTypeOK'
  BY ServerTyped, OthersTyped
<1>2. down \in Seq(ServerLine) /\ down' \in Seq(ServerLine)
  BY <1>1 DEF ChatTypeOK
<1>8. SUFFICES ToSet(down) \subseteq ToSet(down')
  BY <1>2
<1>3. ASSUME NEW f \in ServerLine, down' \in {down, down \o <<f>>}
      PROVE  ToSet(down) \subseteq ToSet(down')
  <2>1. CASE down' = down
    BY <2>1
  <2>2. CASE down' = down \o <<f>>
    <3>1. ToSet(down \o <<f>>) = ToSet(down) \cup {f}
      BY <1>2, ToSetMore
    <3>2. QED
      BY <2>2, <3>1
  <2>3. QED
    BY <1>3, <2>1, <2>2
<1>4. ASSUME NEW cs, NEW f \in ServerLine, Happens(cs, f) PROVE ToSet(down) \subseteq ToSet(down')
  <2>1. down' \in {down, down \o <<f>>}
    BY <1>4 DEF Happens, Says
  <2>2. QED
    BY <1>3, <2>1
<1>5. CASE Server
  <2> DEFINE c == Head(Commands).channel
  <2>1. CASE ServerWelcomes
    BY <1>3, <2>1, LinesTyped DEF ServerWelcomes, Says
  <2>2. CASE ServerTakesJoin
    <3>1. down' \in {down, down \o <<ChannelUpdate("joinMe", c)>>}
      BY <2>2 DEF ServerTakesJoin, Says
    <3>2. ChannelUpdate("joinMe", c) \in ServerLine
      BY <2>2, TakenFrom, LinesTyped DEF ServerTakesJoin
    <3>3. QED
      BY <1>3, <3>1, <3>2
  <2>3. CASE ServerTakesPart
    <3>1. down' \in {down, down \o <<ChannelUpdate("partMe", c)>>}
      BY <2>3 DEF ServerTakesPart, Says
    <3>2. ChannelUpdate("partMe", c) \in ServerLine
      BY <2>3, TakenFrom, LinesTyped DEF ServerTakesPart
    <3>3. QED
      BY <1>3, <3>1, <3>2
  <2>4. CASE ServerTakesHistory
    <3>1. down' \in {down, down \o <<ChannelUpdate("message", c)>>}
      BY <2>4 DEF ServerTakesHistory, Says
    <3>2. ChannelUpdate("message", c) \in ServerLine
      BY <2>4, TakenFrom, LinesTyped DEF ServerTakesHistory
    <3>3. QED
      BY <1>3, <3>1, <3>2
  <2>5. ASSUME NEW d \in Channel, ServerNames(d) PROVE ToSet(down) \subseteq ToSet(down')
    <3>1. RosterUpdate("names", d, members[d]) \in ServerLine
      BY LinesTyped DEF ChatTypeOK
    <3>2. QED
      BY <1>3, <2>5, <3>1 DEF ServerNames, Says
  <2>6. ASSUME NEW d \in Channel, ServerEndsNames(d) PROVE ToSet(down) \subseteq ToSet(down')
    BY <1>3, <2>6, LinesTyped DEF ServerEndsNames, Says
  <2> HIDE DEF c
  <2>7. QED
    BY <1>5, <2>1, <2>2, <2>3, <2>4, <2>5, <2>6 DEF Server
<1>6. CASE OtherStep
  <2> USE LinesTyped DEF Rank
  <2>1. ASSUME NEW c \in Channel, OtherSpeaks(c) PROVE ToSet(down) \subseteq ToSet(down')
    BY <1>4, <2>1 DEF OtherSpeaks
  <2>2. ASSUME NEW c \in Channel, KicksMe(c) PROVE ToSet(down) \subseteq ToSet(down')
    BY <1>4, <2>2 DEF KicksMe
  <2>3. ASSUME NEW c \in Channel, NEW n \in Nick, OtherJoins(n, c)
        PROVE  ToSet(down) \subseteq ToSet(down')
    BY <1>4, <2>3 DEF OtherJoins
  <2>4. ASSUME NEW c \in Channel, NEW n \in Nick, OtherParts(n, c)
        PROVE  ToSet(down) \subseteq ToSet(down')
    BY <1>4, <2>4 DEF OtherParts
  <2>5. ASSUME NEW c \in Channel, NEW n \in Nick, OtherIsOpped(n, c)
        PROVE  ToSet(down) \subseteq ToSet(down')
    BY <1>4, <2>5 DEF OtherIsOpped
  <2>6. ASSUME NEW n \in Nick, OtherQuits(n) PROVE ToSet(down) \subseteq ToSet(down')
    BY <1>4, <2>6 DEF OtherQuits
  <2>7. ASSUME NEW n \in Nick, NEW m \in Nick, OtherRenames(n, m)
        PROVE  ToSet(down) \subseteq ToSet(down')
    BY <1>4, <2>7 DEF OtherRenames
  <2>8. QED
    BY <1>6, <2>1, <2>2, <2>3, <2>4, <2>5, <2>6, <2>7 DEF OtherStep, Others
<1>7. QED
  BY <1>2, <1>5, <1>6

\* Who leaves whom, of what other people do.
LEMMA OtherMine ==
  ASSUME ChatTypeOK, OtherStep
  PROVE  /\ mine' \subseteq mine
         /\ \A c \in mine : c \in mine' \/ Coming("kickMe", c)'
         /\ \A c \in said' \cap mine : c \in said \/ Coming("message", c)'
<1>1. down \in Seq(ServerLine)
  BY DEF ChatTypeOK
<1>2. ASSUME NEW c \in Channel, OtherSpeaks(c)
      PROVE  /\ mine' = mine
             /\ \A d \in said' \cap mine : d \in said \/ Coming("message", d)'
  <2>1. PICK f : f = ChannelUpdate("message", c)
    OBVIOUS
  <2>2. f \in ServerLine /\ f.type = "message" /\ f.channel = c
    BY <2>1, LinesTyped, UpdateFields DEF ChannelUpdate
  <2>3. said' = said \cup {c} /\ mine' = mine /\ (c \in mine => down' = down \o <<f>>)
    BY <1>2, <2>1 DEF OtherSpeaks, Happens, Says
  <2>4. c \in mine => f \in ToSet(down')
    <3>1. ToSet(down \o <<f>>) = ToSet(down) \cup {f}
      BY <1>1, <2>2, ToSetMore
    <3>2. QED
      BY <2>3, <3>1
  <2>5. QED
    BY <2>2, <2>3, <2>4 DEF Coming
<1>3. ASSUME NEW c \in Channel, KicksMe(c)
      PROVE  /\ mine' \subseteq mine /\ said' = said
             /\ \A d \in mine : d \in mine' \/ Coming("kickMe", d)'
  <2>1. PICK f : f = ChannelUpdate("kickMe", c)
    OBVIOUS
  <2>2. f \in ServerLine /\ f.type = "kickMe" /\ f.channel = c
    BY <2>1, LinesTyped, UpdateFields DEF ChannelUpdate
  <2>3. c \in mine /\ mine' = mine \ {c} /\ down' = down \o <<f>> /\ said' = said
    BY <1>3, <2>1 DEF KicksMe, Happens, Says
  <2>4. f \in ToSet(down')
    BY <1>1, <2>2, <2>3, ToSetMore
  <2>5. QED
    BY <2>2, <2>3, <2>4 DEF Coming
<1>4. ASSUME NEW c \in Channel, NEW n \in Nick, OtherJoins(n, c) \/ OtherParts(n, c)
                                                \/ OtherIsOpped(n, c)
      PROVE  mine' = mine /\ said' = said
  BY <1>4 DEF OtherJoins, OtherParts, OtherIsOpped
<1>5. ASSUME NEW n \in Nick, OtherQuits(n) \/ \E m \in Nick : OtherRenames(n, m)
      PROVE  mine' = mine /\ said' = said
  BY <1>5 DEF OtherQuits, OtherRenames
<1>6. QED
  BY <1>2, <1>3, <1>4, <1>5 DEF OtherStep, Others

LEMMA RejoinsSession ==
  ASSUME ChatTypeOK, Rejoins, Session
  PROVE  Rejoins'
<1> DEFINE f == Head(down)
<1>1. /\ down # <<>> /\ down' = Tail(down) /\ conn = "up" /\ UNCHANGED <<online, mine, outgoing>>
      /\ f.type = "welcome" => up' = up \o Joins(wanted)
      /\ \/ up' = up \/ f.type = "welcome"
         \/ f.type = "joinMe" /\ up' = up \o <<Line("CHATHISTORY", f.channel)>>
  BY SessionSends DEF serverVars
<1>2. f \in ServerLine
  BY <1>1, OneLess DEF ChatTypeOK
<1>3. ToSet(down) = {f} \cup ToSet(down')
  BY <1>1, ToSetLess DEF ChatTypeOK
<1>4. wanted' \subseteq wanted /\ (f.type = "kickMe" => f.channel \notin wanted')
  BY SessionWants
<1> HIDE DEF f
<1>5. up \in Seq(Command) /\ up' \in Seq(Command)
  BY SessionTyped DEF ChatTypeOK
<1>6. CASE f.type = "welcome"
  <2>1. Joins(wanted) \in Seq(Command)
        /\ \A c \in wanted : \E i \in 1..Len(Joins(wanted)) : Joins(wanted)[i] = Line("JOIN", c)
    BY JoinsFacts DEF ChatTypeOK
  <2>2. \A c \in wanted : Line("JOIN", c) \in ToSet(Joins(wanted))
    BY <2>1, ToSetIs
  <2>3. ToSet(up') = ToSet(up) \cup ToSet(Joins(wanted))
    BY <1>1, <1>5, <1>6, <2>1, ToSetJoined
  <2>4. QED
    BY <1>4, <2>2, <2>3 DEF Rejoins
<1>7. CASE f.type # "welcome"
  <2>1. ToSet(up) \subseteq ToSet(up')
    <3>1. CASE up' = up
      BY <3>1
    <3>2. CASE f.type = "joinMe" /\ up' = up \o <<Line("CHATHISTORY", f.channel)>>
      <4>1. Line("CHATHISTORY", f.channel) \in Command
        BY <1>2, <3>2, LineFields DEF Line, Command
      <4>2. QED
        BY <1>5, <3>2, <4>1, ToSetMore
    <3>3. QED
      BY <1>1, <1>7, <3>1, <3>2
  <2>2. Welcoming => Welcoming'
    BY <1>3, <1>7 DEF Welcoming
  <2>3. \A c \in wanted' : Coming("kickMe", c) => Coming("kickMe", c)'
    BY <1>3, <1>4 DEF Coming
  <2>4. QED
    BY <1>1, <1>4, <2>1, <2>2, <2>3 DEF Rejoins
<1>8. QED
  BY <1>6, <1>7

\* A wish whose JOIN the server takes is granted; a PART it takes of what is
\* wanted again has a JOIN behind it.
LEMMA RejoinsServer ==
  ASSUME ChatTypeOK, Present, JoinedLast, Rejoins, Server
  PROVE  JoinedLast' /\ Rejoins'
<1>1. wanted' = wanted /\ conn' = conn
  BY DEF Server, ServerWelcomes, ServerTakesJoin, ServerTakesPart, ServerTakesHistory, ServerTakes,
         ServerNames, ServerEndsNames, sessionVars, clientVars
<1>2. ToSet(down) \subseteq ToSet(down')
  BY SaysMore
<1>3. /\ Welcoming => Welcoming'
      /\ \A c : Coming("kickMe", c) => Coming("kickMe", c)'
  BY <1>2 DEF Welcoming, Coming
<1>4. CASE ServerWelcomes
  <2>1. PICK f : f = StatusUpdate("welcome")
    OBVIOUS
  <2>2. f \in ServerLine /\ f.type = "welcome"
    BY <2>1, LinesTyped, UpdateFields DEF StatusUpdate
  <2>3. down' = down \o <<f>> /\ outgoing' = outgoing
    BY <1>4, <2>1 DEF ServerWelcomes, Says, clientVars
  <2>4. ToSet(down \o <<f>>) = ToSet(down) \cup {f}
    BY <2>2, ToSetMore DEF ChatTypeOK
  <2>5. Welcoming'
    BY <2>2, <2>3, <2>4 DEF Welcoming
  <2>6. QED
    BY <1>1, <2>3, <2>5 DEF JoinedLast, Rejoins
<1>5. ASSUME NEW c \in Channel, ServerNames(c) \/ ServerEndsNames(c)
      PROVE  JoinedLast' /\ Rejoins'
  <2>1. UNCHANGED <<outgoing, up, mine, online>>
    BY <1>5 DEF ServerNames, ServerEndsNames, clientVars
  <2>2. QED
    BY <1>1, <1>3, <2>1 DEF JoinedLast, Rejoins
<1>6. ASSUME NEW t, ServerTakes(t),
             \/ mine' = mine \cup {Head(Commands).channel}
             \/ mine' = mine
             \/ t = "PART" /\ mine' = mine \ {Head(Commands).channel},
             t = "JOIN" /\ online => Head(Commands).channel \in mine'
      PROVE  JoinedLast' /\ Rejoins'
  <2> DEFINE x == Head(Commands)
  <2>1. /\ \/ /\ up # <<>> /\ x = Head(up) /\ up' = Tail(up) /\ outgoing' = outgoing
           \/ /\ up = <<>> /\ outgoing # <<>> /\ x = Head(outgoing)
              /\ outgoing' = Tail(outgoing) /\ up' = up
        /\ x \in Command /\ x.channel \in Channel /\ x.command = t
    BY <1>6, TakenFrom
  <2>2. online' = online
    BY <1>6 DEF ServerTakes
  <2> HIDE DEF x
  <2>3. x = Line(t, x.channel)
    BY <2>1, LineFacts
  <2>4. up \in Seq(Command) /\ outgoing \in Seq(Command)
    BY DEF ChatTypeOK
  <2>5. ToSet(up) \cup ToSet(outgoing) \subseteq {x} \cup ToSet(up') \cup ToSet(outgoing')
    BY <2>1, <2>4, ToSetLess
  <2>6. JoinedLast'
    <3>1. CASE outgoing' = outgoing
      BY <1>1, <3>1 DEF JoinedLast
    <3>2. CASE outgoing # <<>> /\ outgoing' = Tail(outgoing)
      BY <1>1, <3>2, JoinedLastTaken
    <3>3. QED
      BY <2>1, <3>1, <3>2
  <2>7. t = "PART" /\ x.channel \in wanted => Line("JOIN", x.channel) \in ToSet(outgoing')
    <3>1. SUFFICES ASSUME t = "PART", x.channel \in wanted
                   PROVE  Line("JOIN", x.channel) \in ToSet(outgoing')
      OBVIOUS
    <3>2. ~(up # <<>> /\ x = Head(up))
      BY <2>1, <2>4, <3>1, OneLess DEF Present
    <3>3. outgoing # <<>> /\ x = Head(outgoing) /\ outgoing' = Tail(outgoing)
      BY <2>1, <3>2
    <3>4. QED
      BY <1>1, <2>3, <3>1, <3>3, JoinedLastTaken
  <2>8. SUFFICES ASSUME conn = "up", online, ~Welcoming, NEW c \in wanted
                 PROVE  \/ c \in mine' \/ Coming("kickMe", c)'
                        \/ Line("JOIN", c) \in ToSet(up') \/ Line("JOIN", c) \in ToSet(outgoing')
    BY <1>1, <1>3, <2>2, <2>6 DEF Rejoins
  <2>9. \/ c \in mine \/ Coming("kickMe", c)
        \/ Line("JOIN", c) \in ToSet(up) \/ Line("JOIN", c) \in ToSet(outgoing)
    BY <2>8 DEF Rejoins
  <2>10. c \in mine => c \in mine' \/ Line("JOIN", c) \in ToSet(outgoing')
    BY <1>6, <2>7, <2>8 DEF x
  <2>11. Line("JOIN", c) = x => c \in mine'
    <3>1. Line("JOIN", c) = x => t = "JOIN" /\ c = x.channel
      BY <2>1, LineFacts
    <3>2. QED
      BY <1>6, <2>8, <3>1 DEF x
  <2>12. QED
    BY <1>3, <2>5, <2>9, <2>10, <2>11
<1>7. CASE ServerTakesJoin
  <2>1. ServerTakes("JOIN")
    BY <1>7 DEF ServerTakesJoin
  <2>2. mine' = mine \cup {Head(Commands).channel} \/ mine' = mine
    BY <1>7 DEF ServerTakesJoin
  <2>3. online => Head(Commands).channel \in mine'
    BY <1>7 DEF ServerTakesJoin
  <2>4. QED
    BY <1>6, <2>1, <2>2, <2>3
<1>8. CASE ServerTakesPart
  <2>1. ServerTakes("PART")
    BY <1>8 DEF ServerTakesPart
  <2>2. mine' = mine \ {Head(Commands).channel} \/ mine' = mine
    BY <1>8 DEF ServerTakesPart
  <2>3. QED
    BY <1>6, <2>1, <2>2
<1>9. CASE ServerTakesHistory
  <2>1. ServerTakes("CHATHISTORY") /\ mine' = mine
    BY <1>9 DEF ServerTakesHistory
  <2>2. QED
    BY <1>6, <2>1
<1>10. QED
  BY <1>4, <1>5, <1>7, <1>8, <1>9 DEF Server

LEMMA RejoinsQueued ==
  ASSUME ChatTypeOK, JoinedLast, Rejoins, NEW cs \in SUBSET Channel, JoinChannels(cs),
         UNCHANGED <<conn, online, mine, down, up>>
  PROVE  JoinedLast' /\ Rejoins'
<1>1. wanted' = wanted \cup cs /\ outgoing' = outgoing \o Joins(cs)
  BY DEF JoinChannels, Joins
<1>2. /\ Joins(cs) \in Seq(Command)
      /\ \A c \in cs : \E i \in 1..Len(Joins(cs)) : Joins(cs)[i] = Line("JOIN", c)
  BY JoinsFacts
<1>3. \A c \in cs : Line("JOIN", c) \in ToSet(Joins(cs))
  BY <1>2, ToSetIs
<1>4. ToSet(outgoing \o Joins(cs)) = ToSet(outgoing) \cup ToSet(Joins(cs))
  BY <1>2, ToSetJoined DEF ChatTypeOK
<1>5. (Welcoming <=> Welcoming') /\ \A c : Coming("kickMe", c) <=> Coming("kickMe", c)'
  BY DEF Welcoming, Coming
<1>6. Rejoins'
  BY <1>1, <1>3, <1>4, <1>5 DEF Rejoins
<1>7. QED
  BY <1>6, JoinedLastMore

LEMMA RejoinsLeave ==
  ASSUME ChatTypeOK, JoinedLast, Rejoins, NEW c \in Channel, Leave(c)
  PROVE  JoinedLast' /\ Rejoins'
<1>1. /\ wanted' = wanted \ {c} /\ outgoing' = Append(outgoing, Line("PART", c))
      /\ UNCHANGED <<conn, online, mine, down, up>>
  BY DEF Leave, sessionVars, serverVars
<1>2. PICK x : x = Line("PART", c)
  OBVIOUS
<1>3. x \in Command /\ outgoing \in Seq(Command)
  BY <1>2 DEF Line, Command, ChatTypeOK
<1>4. outgoing' = outgoing \o <<x>>
  BY <1>1, <1>2, <1>3, OneMore
<1>5. ToSet(outgoing \o <<x>>) = ToSet(outgoing) \cup {x}
  BY <1>3, ToSetMore
<1>6. (Welcoming <=> Welcoming') /\ \A d : Coming("kickMe", d) <=> Coming("kickMe", d)'
  BY <1>1 DEF Welcoming, Coming
<1>7. Rejoins'
  BY <1>1, <1>4, <1>5, <1>6 DEF Rejoins
<1>8. QED
  BY <1>1, <1>7, JoinedLastPart

LEMMA RejoinsKept ==
  ASSUME ChatTypeOK, Present, JoinedLast, Rejoins, [ChatNext]_chatVars
  PROVE  JoinedLast' /\ Rejoins'
<1>1. CASE UNCHANGED <<wanted, outgoing, conn, online, mine, down, up>>
  BY <1>1 DEF JoinedLast, Rejoins, Welcoming, Coming
<1>2. ASSUME NEW c \in Channel, Join(c) PROVE JoinedLast' /\ Rejoins'
  BY <1>2, RejoinsQueued DEF Join, sessionVars, serverVars
<1>3. ASSUME NEW c \in Channel, Leave(c) PROVE JoinedLast' /\ Rejoins'
  BY <1>3, RejoinsLeave
<1>4. announced \in SUBSET Channel
  BY AutoJoinAssumption DEF ChatTypeOK
<1>5. CASE JoinAnnounced
  <2>1. CASE status = "connected"
    BY <1>4, <1>5, <2>1, RejoinsQueued DEF JoinAnnounced, sessionVars, serverVars
  <2>2. CASE status # "connected"
    BY <1>1, <1>5, <2>2 DEF JoinAnnounced, sessionVars, serverVars, clientVars
  <2>3. QED
    BY <2>1, <2>2
<1>6. CASE JoinAuto
  BY <1>4, <1>6, RejoinsQueued DEF JoinAuto, sessionVars, serverVars
<1>7. CASE Announce \/ Relay
  BY <1>1, <1>7 DEF Announce, Relay, sessionVars, serverVars, clientVars
<1>8. CASE Dial
  <2>1. UNCHANGED <<wanted, outgoing, online>> /\ conn # "up"
    BY <1>8 DEF Dial, clientVars, serverVars
  <2>2. QED
    BY <2>1 DEF Present, JoinedLast, Rejoins
<1>9. CASE ConnectionLost \/ ReportLost
  BY <1>9 DEF ConnectionLost, ReportLost, clientVars, JoinedLast, Rejoins
<1>10. CASE Session
  <2>1. outgoing' = outgoing /\ wanted' \subseteq wanted
    BY <1>10, SessionSends, SessionWants
  <2>2. JoinedLast'
    BY <2>1 DEF JoinedLast
  <2>3. QED
    BY <1>10, <2>2, RejoinsSession
<1>11. CASE OtherStep
  <2>1. UNCHANGED <<wanted, outgoing, conn, online, up>>
    BY <1>11, OtherFrame DEF clientVars, sessionVars
  <2>2. /\ Welcoming => Welcoming'
        /\ \A c : Coming("kickMe", c) => Coming("kickMe", c)'
    BY <1>11, SaysMore DEF Welcoming, Coming
  <2>3. \A c \in mine : c \in mine' \/ Coming("kickMe", c)'
    BY <1>11, OtherMine
  <2>4. QED
    BY <2>1, <2>2, <2>3 DEF JoinedLast, Rejoins
<1>12. CASE UNCHANGED chatVars
  BY <1>1, <1>12 DEF chatVars, clientVars, sessionVars, serverVars
<1>13. QED
  BY <1>2, <1>3, <1>5, <1>6, <1>7, <1>8, <1>9, <1>10, <1>11, <1>12, RejoinsServer
     DEF ChatNext, OtherStep

LEMMA RejoinsBegins == ChatInit => JoinedLast /\ Rejoins
BY DEF ChatInit, JoinedLast, Rejoins

LEMMA WantedAreJoined == Rejoins => WantedIsJoined
<1>1. SUFFICES ASSUME Rejoins, Settled PROVE wanted \subseteq mine
  BY DEF WantedIsJoined
<1>2. conn = "up" /\ online /\ ToSet(down) = {} /\ ToSet(up) = {} /\ ToSet(outgoing) = {}
  BY <1>1, ToSetEmpty DEF Settled
<1>3. QED
  BY <1>1, <1>2 DEF Rejoins, Welcoming, Coming

-----------------------------------------------------------------------------
(* ChatSession: what is announced is joined, and what is said is shown *)

\* The session never reports a loss; it reports a login and a message when it
\* reads of one.
LEMMA SessionEmits ==
  ASSUME ChatTypeOK, Session
  PROVE  \E us \in Seq(ChatUpdate) :
           /\ updates' = updates \o us
           /\ \A u \in ToSet(us) : u.type # "disconnected"
           /\ Head(down).type = "welcome" => \E u \in ToSet(us) : u.type = "connected"
           /\ Head(down).type = "message" =>
                \E u \in ToSet(us) : u.type = "message" /\ u.channel = Head(down).channel
<1> DEFINE f == Head(down)
           Good(us) == /\ us \in Seq(ChatUpdate)
                       /\ updates' = updates \o us
                       /\ \A u \in ToSet(us) : u.type # "disconnected"
                       /\ f.type = "welcome" => \E u \in ToSet(us) : u.type = "connected"
                       /\ f.type = "message" =>
                            \E u \in ToSet(us) : u.type = "message" /\ u.channel = f.channel
<1>1. SUFFICES \E us : Good(us)
  OBVIOUS
<1>2. PICK t : Reads(t)
  BY DEF Session, OnWelcome, OnJoinMe, OnNames, OnEndOfNames, OnJoin, OnPart, OnPartMe, OnKickMe,
         OnQuit, OnNick, OnMode, OnMessage
<1>3. f \in ServerLine /\ f.type = t
  BY <1>2, ReadsTyped
<1>4. /\ f.type \notin {"welcome", "quit", "nick"} => f.channel \in Channel
      /\ f.type \in {"join", "part", "quit", "nick", "mode"} => f.nick \in Nick /\ f.to \in Nick
      /\ f.rank \in Rank /\ f.names \in Roster
  BY <1>3, LineFields
<1>5. ASSUME NEW u \in ChatUpdate, Emits(<<u>>), u.type # "disconnected",
             f.type = "welcome" => u.type = "connected",
             f.type = "message" => u.type = "message" /\ u.channel = f.channel
      PROVE  \E us : Good(us)
  <2>1. PICK us : us = <<u>>
    OBVIOUS
  <2>2. us \in Seq(ChatUpdate) /\ ToSet(us) = {u}
    BY <2>1 DEF ToSet
  <2>3. updates' = updates \o us
    BY <1>5, <2>1 DEF Emits
  <2>4. Good(us)
    BY <1>5, <2>2, <2>3
  <2>5. QED
    BY <2>4
<1> USE UpdatesTyped
<1>6. ASSUME NEW x \in {"connected"}, Emits(<<StatusUpdate(x)>>), f.type # "message"
      PROVE  \E us : Good(us)
  <2>1. PICK u : u = StatusUpdate(x)
    OBVIOUS
  <2>2. u \in ChatUpdate /\ u.type = "connected"
    BY <2>1, UpdateFields DEF StatusUpdate
  <2> HIDE DEF Good
  <2>3. QED
    BY <1>5, <1>6, <2>1, <2>2
<1>7. ASSUME NEW x \in {"channelJoined", "channelLeft", "message"}, NEW c \in Channel,
             Emits(<<ChannelUpdate(x, c)>>), f.type # "welcome",
             f.type = "message" => x = "message" /\ c = f.channel
      PROVE  \E us : Good(us)
  <2>1. PICK u : u = ChannelUpdate(x, c)
    OBVIOUS
  <2>2. u \in ChatUpdate /\ u.type = x /\ u.channel = c
    BY <2>1, UpdateFields DEF ChannelUpdate
  <2> HIDE DEF Good
  <2>3. QED
    BY <1>5, <1>7, <2>1, <2>2
<1>8. ASSUME NEW x \in {"userJoined", "userLeft", "elevation"}, NEW c \in Channel, NEW n \in Nick,
             NEW k \in Rank, Emits(<<PersonUpdate(x, c, n, k)>>),
             f.type \notin {"welcome", "message"}
      PROVE  \E us : Good(us)
  <2>1. PICK u : u = PersonUpdate(x, c, n, k)
    OBVIOUS
  <2>2. u \in ChatUpdate /\ u.type = x
    BY <2>1, UpdateFields DEF PersonUpdate
  <2> HIDE DEF Good
  <2>3. QED
    BY <1>5, <1>8, <2>1, <2>2
<1>9. ASSUME NEW c \in Channel, NEW r \in Roster, Emits(<<RosterUpdate("users", c, r)>>),
             f.type \notin {"welcome", "message"}
      PROVE  \E us : Good(us)
  <2>1. PICK u : u = RosterUpdate("users", c, r)
    OBVIOUS
  <2>2. u \in ChatUpdate /\ u.type = "users"
    BY <2>1, UpdateFields DEF RosterUpdate
  <2> HIDE DEF Good
  <2>3. QED
    BY <1>5, <1>9, <2>1, <2>2
<1>10. ASSUME NEW n \in Nick, NEW m \in Nick, Emits(<<RenameUpdate("userRenamed", n, m)>>),
              f.type \notin {"welcome", "message"}
       PROVE  \E us : Good(us)
  <2>1. PICK u : u = RenameUpdate("userRenamed", n, m)
    OBVIOUS
  <2>2. u \in ChatUpdate /\ u.type = "userRenamed"
    BY <2>1, UpdateFields DEF RenameUpdate
  <2> HIDE DEF Good
  <2>3. QED
    BY <1>5, <1>10, <2>1, <2>2
<1>11. CASE OnNames
  <2>1. f.type = "names" /\ updates' = updates
    BY <1>11 DEF OnNames, Reads
  <2>2. <<>> \in Seq(ChatUpdate) /\ updates' = updates \o <<>>
    BY <2>1 DEF ChatTypeOK
  <2>3. QED
    BY <2>1, <2>2, ToSetEmpty
<1>12. CASE OnQuit
  <2>1. f.nick \in Nick /\ f.type = "quit" /\ updates' = updates \o Departures(f.nick)
    BY <1>4, <1>12 DEF OnQuit, Departures, Reads, Emits
  <2>2. PICK us : us = Departures(f.nick)
    OBVIOUS
  <2>3. us \in Seq(ChatUpdate)
        /\ \A i \in 1..Len(us) : \E c \in ChannelsWith(f.nick) :
              us[i] = PersonUpdate("userLeft", c, f.nick, "absent")
    BY <2>1, <2>2, DepartureFacts
  <2>4. \A i \in 1..Len(us) : us[i].type = "userLeft"
    BY <2>3, UpdateFields DEF PersonUpdate
  <2>5. \A u \in ToSet(us) : u.type # "disconnected"
    BY <2>3, <2>4, ToSetIs
  <2>6. QED
    BY <2>1, <2>2, <2>3, <2>5
<1>13. CASE ~(OnNames \/ OnQuit)
  <2>1. roster \in [Channel -> Roster] /\ \A c \in Channel : pendingNames[c] \in Roster
    BY DEF ChatTypeOK
  <2>2. "plain" \in Rank /\ "absent" \in Rank
    BY DEF Rank
  <2> HIDE DEF Good
  <2>3. CASE OnWelcome
    BY <1>6, <2>3 DEF OnWelcome, Reads
  <2>4. CASE OnJoinMe
    BY <1>4, <1>7, <2>4 DEF OnJoinMe, Reads
  <2>5. CASE OnEndOfNames
    BY <1>4, <1>9, <2>1, <2>5 DEF OnEndOfNames, Reads
  <2>6. CASE OnJoin
    BY <1>4, <1>8, <2>2, <2>6 DEF OnJoin, Reads
  <2>7. CASE OnPart
    BY <1>4, <1>8, <2>2, <2>7 DEF OnPart, Reads
  <2>8. CASE OnPartMe
    BY <1>4, <1>7, <2>8 DEF OnPartMe, Reads
  <2>9. CASE OnKickMe
    BY <1>4, <1>7, <2>9 DEF OnKickMe, Reads
  <2>10. CASE OnNick
    BY <1>4, <1>10, <2>10 DEF OnNick, Reads
  <2>11. CASE OnMode
    BY <1>4, <1>8, <2>11 DEF OnMode, Reads
  <2>12. CASE OnMessage
    BY <1>4, <1>7, <2>12 DEF OnMessage, Reads
  <2>13. QED
    BY <1>13, <2>3, <2>4, <2>5, <2>6, <2>7, <2>8, <2>9, <2>10, <2>11, <2>12 DEF Session
<1>14. QED
  BY <1>11, <1>12, <1>13

\* The status on screen once the updates under way are applied is "connected".
StatusHolds(st, ups) ==
  \E k \in 0..Len(ups) :
    /\ IF k = 0 THEN st = "connected" ELSE ups[k].type = "connected"
    /\ \A j \in k + 1..Len(ups) : ups[j].type # "disconnected"

\* What is announced is wanted by a chat that shows it is connected and has
\* joined it, but for what has been closed since; a session that is logged in
\* shows that it is.
Announces ==
  /\ lobby = "waiting" => announced = {}
  /\ conn = "up" /\ online /\ ~Welcoming => StatusHolds(status, updates)
  /\ status = "connected" /\ relay = "relaying" /\ lobby = "done"
       => announced \ left \subseteq wanted

LEMMA AnnouncesBegins == ChatInit => Announces
BY DEF ChatInit, Announces

LEMMA StatusMore ==
  ASSUME NEW st, NEW s \in Seq(ChatUpdate), NEW us \in Seq(ChatUpdate),
         \A u \in ToSet(us) : u.type # "disconnected",
         StatusHolds(st, s) \/ \E u \in ToSet(us) : u.type = "connected"
  PROVE  StatusHolds(st, s \o us)
<1>1. PICK q : q = s \o us
  OBVIOUS
<1>2. /\ q \in Seq(ChatUpdate) /\ Len(q) = Len(s) + Len(us) /\ Len(s) \in Nat /\ Len(us) \in Nat
      /\ \A i \in 1..Len(s) : q[i] = s[i]
      /\ \A i \in 1..Len(us) : q[Len(s) + i] = us[i]
  BY <1>1
<1>3. \A i \in 1..Len(us) : us[i].type # "disconnected"
  BY ToSetIs
<1>4. \A i \in Len(s) + 1..Len(q) : q[i].type # "disconnected"
  <2>1. ASSUME NEW i \in Len(s) + 1..Len(q) PROVE q[i].type # "disconnected"
    <3>1. i - Len(s) \in 1..Len(us) /\ Len(s) + (i - Len(s)) = i
      BY <1>2
    <3>2. q[i] = us[i - Len(s)]
      BY <1>2, <3>1
    <3>3. QED
      BY <1>3, <3>1, <3>2
  <2>2. QED
    BY <2>1
<1>5. CASE StatusHolds(st, s)
  <2>1. PICK k \in 0..Len(s) : /\ IF k = 0 THEN st = "connected" ELSE s[k].type = "connected"
                               /\ \A j \in k + 1..Len(s) : s[j].type # "disconnected"
    BY <1>5 DEF StatusHolds
  <2>2. k \in 0..Len(q) /\ (IF k = 0 THEN st = "connected" ELSE q[k].type = "connected")
    BY <1>2, <2>1
  <2>3. \A j \in k + 1..Len(q) : q[j].type # "disconnected"
    <3>1. ASSUME NEW j \in k + 1..Len(q) PROVE q[j].type # "disconnected"
      <4>1. CASE j <= Len(s)
        BY <1>2, <2>1, <4>1
      <4>2. CASE ~(j <= Len(s))
        BY <1>2, <1>4, <2>1, <4>2
      <4>3. QED
        BY <4>1, <4>2
    <3>2. QED
      BY <3>1
  <2>4. QED
    BY <1>1, <2>2, <2>3 DEF StatusHolds
<1>6. CASE \E u \in ToSet(us) : u.type = "connected"
  <2>1. PICK i \in 1..Len(us) : us[i].type = "connected"
    BY <1>6, ToSetIs
  <2>2. PICK k : k = Len(s) + i
    OBVIOUS
  <2>3. k \in 0..Len(q) /\ k # 0 /\ q[k].type = "connected"
    BY <1>2, <2>1, <2>2
  <2>4. \A j \in k + 1..Len(q) : q[j].type # "disconnected"
    BY <1>2, <1>4, <2>2
  <2>5. QED
    BY <1>1, <2>3, <2>4 DEF StatusHolds
<1>7. QED
  BY <1>5, <1>6

LEMMA StatusLess ==
  ASSUME NEW st, NEW s \in Seq(ChatUpdate), s # <<>>, StatusHolds(st, s)
  PROVE  StatusHolds(IF Head(s).type \in {"connected", "disconnected"} THEN Head(s).type ELSE st,
                     Tail(s))
<1>1. PICK q : q = Tail(s)
  OBVIOUS
<1>2. PICK st2 : st2 = IF Head(s).type \in {"connected", "disconnected"} THEN Head(s).type ELSE st
  OBVIOUS
<1>3. /\ Head(s) = s[1] /\ Len(s) \in Nat \ {0} /\ Len(q) = Len(s) - 1
      /\ \A i \in 1..Len(s) - 1 : q[i] = s[i + 1]
  BY <1>1, OneLess
<1>4. PICK k \in 0..Len(s) : /\ IF k = 0 THEN st = "connected" ELSE s[k].type = "connected"
                             /\ \A j \in k + 1..Len(s) : s[j].type # "disconnected"
  BY DEF StatusHolds
<1>5. \E m \in 0..Len(q) : /\ IF m = 0 THEN st2 = "connected" ELSE q[m].type = "connected"
                           /\ \A j \in m + 1..Len(q) : j + 1 \in k + 1..Len(s)
  <2>1. CASE k = 0
    <3>1. s[1].type # "disconnected"
      BY <1>3, <1>4, <2>1
    <3>2. st2 = "connected"
      BY <1>2, <1>3, <1>4, <2>1, <3>1
    <3>3. 0 \in 0..Len(q) /\ \A j \in 0 + 1..Len(q) : j + 1 \in k + 1..Len(s)
      BY <1>3, <2>1
    <3>4. QED
      BY <3>2, <3>3
  <2>2. CASE k # 0
    <3>1. PICK m : m = k - 1
      OBVIOUS
    <3>2. m \in 0..Len(q) /\ \A j \in m + 1..Len(q) : j + 1 \in k + 1..Len(s)
      BY <1>3, <1>4, <2>2, <3>1
    <3>3. IF m = 0 THEN st2 = "connected" ELSE q[m].type = "connected"
      <4>1. CASE m = 0
        BY <1>2, <1>3, <1>4, <2>2, <3>1, <4>1
      <4>2. CASE m # 0
        <5>1. m \in 1..Len(s) - 1 /\ m + 1 = k
          BY <1>3, <1>4, <2>2, <3>1, <4>2
        <5>2. q[m] = s[k]
          BY <1>3, <5>1
        <5>3. QED
          BY <1>4, <2>2, <4>2, <5>2
      <4>3. QED
        BY <4>1, <4>2
    <3>4. QED
      BY <3>2, <3>3
  <2>3. QED
    BY <2>1, <2>2
<1>6. PICK m \in 0..Len(q) : /\ IF m = 0 THEN st2 = "connected" ELSE q[m].type = "connected"
                             /\ \A j \in m + 1..Len(q) : j + 1 \in k + 1..Len(s)
  BY <1>5
<1>7. \A j \in m + 1..Len(q) : q[j].type # "disconnected"
  <2>1. ASSUME NEW j \in m + 1..Len(q) PROVE q[j].type # "disconnected"
    <3>1. j \in 1..Len(s) - 1 /\ j + 1 \in k + 1..Len(s)
      BY <1>3, <1>6
    <3>2. q[j] = s[j + 1]
      BY <1>3, <3>1
    <3>3. QED
      BY <1>4, <3>1, <3>2
  <2>2. QED
    BY <2>1
<1>8. StatusHolds(st2, q)
  BY <1>6, <1>7 DEF StatusHolds
<1>9. QED
  BY <1>1, <1>2, <1>8

LEMMA AnnouncesSession ==
  ASSUME ChatTypeOK, Announces, Session
  PROVE  Announces'
<1>1. PICK f : f = Head(down)
  OBVIOUS
<1>2. /\ down # <<>> /\ down' = Tail(down) /\ conn = "up" /\ conn' = "up"
      /\ UNCHANGED <<online, status, lobby, announced, relay>>
  BY SessionSends DEF serverVars, viewVars, serviceVars
<1>3. ToSet(down) = {f} \cup ToSet(down')
  BY <1>1, <1>2, ToSetLess DEF ChatTypeOK
<1>4. \/ wanted' = wanted /\ left' = left
      \/ \E c : wanted' = wanted \ {c} /\ left' = left \cup {c}
  BY SessionWants
<1>5. announced \ left \subseteq wanted => announced' \ left' \subseteq wanted'
  BY <1>2, <1>4
<1>6. ASSUME online', ~Welcoming' PROVE StatusHolds(status', updates')
  <2>1. PICK us \in Seq(ChatUpdate) :
           /\ updates' = updates \o us
           /\ \A u \in ToSet(us) : u.type # "disconnected"
           /\ f.type = "welcome" => \E u \in ToSet(us) : u.type = "connected"
    BY <1>1, SessionEmits
  <2>2. f.type = "welcome" \/ ~Welcoming
    BY <1>3, <1>6 DEF Welcoming
  <2>3. StatusHolds(status, updates) \/ \E u \in ToSet(us) : u.type = "connected"
    BY <1>2, <1>6, <2>1, <2>2 DEF Announces
  <2>4. updates \in Seq(ChatUpdate)
    BY DEF ChatTypeOK
  <2>5. StatusHolds(status, updates \o us)
    BY <2>1, <2>3, <2>4, StatusMore
  <2>6. QED
    BY <1>2, <2>1, <2>5
<1>7. lobby' = "waiting" => announced' = {}
  BY <1>2 DEF Announces
<1>8. /\ status' = "connected" /\ relay' = "relaying" /\ lobby' = "done"
         => announced' \ left' \subseteq wanted'
  BY <1>2, <1>5 DEF Announces
<1>9. QED
  BY <1>6, <1>7, <1>8 DEF Announces

LEMMA AnnouncesRelay ==
  ASSUME ChatTypeOK, Announces, Relay
  PROVE  Announces'
<1>1. PICK u : u = Head(updates)
  OBVIOUS
<1>2. /\ updates # <<>> /\ updates' = Tail(updates) /\ relay = "relaying"
      /\ status' = (IF u.type \in {"connected", "disconnected"} THEN u.type ELSE status)
      /\ relay' = (IF u.type = "connected" THEN "joining" ELSE "relaying")
      /\ UNCHANGED <<conn, online, down, lobby, announced, left, wanted>>
  BY <1>1 DEF Relay, clientVars, sessionVars, serverVars
<1>3. StatusHolds(status, updates) => StatusHolds(status', updates')
  BY <1>1, <1>2, StatusLess DEF ChatTypeOK
<1>4. Welcoming' = Welcoming
  BY <1>2 DEF Welcoming
<1>5. status' = "connected" /\ relay' = "relaying" => status = "connected"
  BY <1>2
<1>6. QED
  BY <1>2, <1>3, <1>4, <1>5 DEF Announces

LEMMA AnnouncesKept ==
  ASSUME ChatTypeOK, Present, Announces, [ChatNext]_chatVars
  PROVE  Announces'
<1> USE DEF viewVars, serviceVars, clientVars, sessionVars, serverVars
<1>1. ASSUME UNCHANGED <<conn, online, down, status, updates, announced, lobby>>,
             relay' = relay \/ relay' = "joining" \/ announced' \ left' \subseteq wanted',
             announced \ left \subseteq wanted => announced' \ left' \subseteq wanted'
      PROVE  Announces'
  <2>1. Welcoming' = Welcoming
    BY <1>1 DEF Welcoming
  <2>2. QED
    BY <1>1, <2>1 DEF Announces
<1>2. ASSUME NEW c \in Channel, Join(c) PROVE Announces'
  <2>1. wanted' = wanted \cup {c} /\ left' = left \ {c}
    BY <1>2 DEF Join, JoinChannels
  <2>2. QED
    BY <1>1, <1>2, <2>1 DEF Join
<1>3. ASSUME NEW c \in Channel, Leave(c) PROVE Announces'
  BY <1>1, <1>3 DEF Leave
<1>4. CASE Announce
  <2>1. Welcoming' = Welcoming
    BY <1>4 DEF Announce, Welcoming
  <2>2. QED
    BY <1>4, <2>1 DEF Announce, Announces
<1>5. CASE JoinAnnounced
  <2>1. Welcoming' = Welcoming
    BY <1>5 DEF JoinAnnounced, Welcoming
  <2>2. status = "connected" => announced' \ left' \subseteq wanted'
    BY <1>5 DEF JoinAnnounced, JoinChannels
  <2>3. QED
    BY <1>5, <2>1, <2>2 DEF JoinAnnounced, Announces
<1>6. CASE JoinAuto
  <2>1. announced' \ left' \subseteq wanted'
    BY <1>6 DEF JoinAuto, JoinChannels
  <2>2. QED
    BY <1>1, <1>6, <2>1 DEF JoinAuto
<1>7. CASE Relay
  BY <1>7, AnnouncesRelay
<1>8. CASE Dial
  BY <1>8 DEF Dial, Present, Announces
<1>9. CASE ConnectionLost \/ ReportLost
  BY <1>9 DEF ConnectionLost, ReportLost, Announces
<1>10. CASE Session
  BY <1>10, AnnouncesSession
<1>11. ASSUME UNCHANGED <<conn, status, updates, announced, lobby, relay, left, wanted>>,
              online' = online \/ Welcoming', Welcoming => Welcoming'
       PROVE  Announces'
  BY <1>11 DEF Announces
<1>12. CASE Server
  <2>1. Welcoming => Welcoming'
    BY <1>12, SaysMore DEF Welcoming
  <2>2. UNCHANGED <<conn, status, updates, announced, lobby, relay, left, wanted>>
    BY <1>12 DEF Server, ServerWelcomes, ServerTakesJoin, ServerTakesPart, ServerTakesHistory,
       ServerTakes, ServerNames, ServerEndsNames
  <2>3. CASE ServerWelcomes
    <3>1. PICK f : f = StatusUpdate("welcome")
      OBVIOUS
    <3>2. f \in ServerLine /\ f.type = "welcome"
      BY <3>1, LinesTyped, UpdateFields DEF StatusUpdate
    <3>3. down' = down \o <<f>>
      BY <2>3, <3>1 DEF ServerWelcomes, Says
    <3>4. ToSet(down \o <<f>>) = ToSet(down) \cup {f}
      BY <3>2, ToSetMore DEF ChatTypeOK
    <3>5. Welcoming'
      BY <3>2, <3>3, <3>4 DEF Welcoming
    <3>6. QED
      BY <1>11, <2>1, <2>2, <3>5
  <2>4. CASE ~ServerWelcomes
    <3>1. online' = online
      BY <1>12, <2>4 DEF Server, ServerTakesJoin, ServerTakesPart, ServerTakesHistory,
         ServerTakes, ServerNames, ServerEndsNames
    <3>2. QED
      BY <1>11, <2>1, <2>2, <3>1
  <2>5. QED
    BY <2>3, <2>4
<1>13. CASE OtherStep
  <2>1. Welcoming => Welcoming'
    BY <1>13, SaysMore DEF Welcoming
  <2>2. QED
    BY <1>11, <1>13, <2>1, OtherFrame
<1>14. CASE UNCHANGED chatVars
  BY <1>1, <1>14 DEF chatVars
<1>15. QED
  BY <1>2, <1>3, <1>4, <1>5, <1>6, <1>7, <1>8, <1>9, <1>10, <1>12, <1>13, <1>14
     DEF ChatNext, OtherStep

LEMMA AnnouncedAreJoined == ChatTypeOK /\ Rejoins /\ Announces => AnnouncedIsJoined
<1>1. SUFFICES ASSUME ChatTypeOK, Rejoins, Announces, Settled PROVE announced \ left \subseteq mine
  BY DEF AnnouncedIsJoined
<1>2. wanted \subseteq mine
  BY <1>1, WantedAreJoined DEF WantedIsJoined
<1>3. CASE lobby = "waiting"
  BY <1>1, <1>3 DEF Announces
<1>4. CASE lobby = "done"
  <2>1. conn = "up" /\ online /\ ~Welcoming /\ Len(updates) = 0 /\ relay = "relaying"
    BY <1>1, ToSetEmpty DEF Settled, Welcoming
  <2>2. StatusHolds(status, updates)
    BY <1>1, <2>1 DEF Announces
  <2>3. status = "connected"
    BY <2>1, <2>2 DEF StatusHolds
  <2>4. QED
    BY <1>1, <1>2, <1>4, <2>1, <2>3 DEF Announces
<1>5. QED
  <2>1. lobby # "announced"
    BY <1>1 DEF Settled
  <2>2. QED
    BY <1>1, <1>3, <1>4, <2>1 DEF ChatTypeOK

\* A message of a channel is shown, or on one of the stages of its way: the
\* echo of the JOIN, the request for the backfill, the line, the update.
Queued(c) == \E u \in ToSet(updates) : u.type = "message" /\ u.channel = c

Shows(c) ==
  \/ shown[c] > 0
  \/ Queued(c)
  \/ Coming("message", c)
  \/ Line("CHATHISTORY", c) \in ToSet(up)
  \/ Coming("joinMe", c)

Showing == conn = "up" => \A c \in mine \cap said : Shows(c)

LEMMA ShowsBegins == ChatInit => Showing
BY DEF ChatInit, Showing

LEMMA ShowsRelay ==
  ASSUME ChatTypeOK, Relay, NEW c \in Channel, Shows(c)
  PROVE  Shows(c)'
<1>1. PICK u : u = Head(updates)
  OBVIOUS
<1>2. /\ updates # <<>> /\ updates' = Tail(updates) /\ UNCHANGED <<up, down>>
      /\ shown' = IF u.type = "message" THEN [shown EXCEPT ![u.channel] = @ + 1] ELSE shown
  BY <1>1 DEF Relay
<1>3. u \in ChatUpdate /\ ToSet(updates) = {u} \cup ToSet(updates')
  BY <1>1, <1>2, OneLess, ToSetLess DEF ChatTypeOK
<1>4. u.type = "message" => u.channel \in Channel
  BY <1>3, ChatUpdateFields
<1>5. shown \in [Channel -> Nat]
  BY DEF ChatTypeOK
<1>6. shown[c] > 0 => shown'[c] > 0
  BY <1>2, <1>4, <1>5
<1>7. Queued(c) => Queued(c)' \/ shown'[c] > 0
  BY <1>2, <1>3, <1>4, <1>5 DEF Queued
<1>8. \A t : Coming(t, c)' = Coming(t, c)
  BY <1>2 DEF Coming
<1>9. QED
  BY <1>2, <1>6, <1>7, <1>8 DEF Shows

LEMMA ShowsSession ==
  ASSUME ChatTypeOK, Follows, Session, NEW c \in Channel, Shows(c)
  PROVE  Shows(c)'
<1>1. PICK f : f = Head(down)
  OBVIOUS
<1>2. /\ down # <<>> /\ down' = Tail(down) /\ shown' = shown
      /\ \/ up' = up
         \/ f.type = "welcome" /\ up' = up \o Joins(wanted)
         \/ f.type = "joinMe" /\ up' = up \o <<Line("CHATHISTORY", f.channel)>>
      /\ f.type = "joinMe" => up' = up \o <<Line("CHATHISTORY", f.channel)>>
  <2>1. f.type = "joinMe" => f.channel \notin asked
    BY <1>1, FollowsSession
  <2>2. QED
    BY <1>1, <2>1, SessionSends DEF viewVars
<1>3. f \in ServerLine /\ ToSet(down) = {f} \cup ToSet(down')
  BY <1>1, <1>2, OneLess, ToSetLess DEF ChatTypeOK
<1>4. up \in Seq(Command) /\ updates \in Seq(ChatUpdate)
  BY DEF ChatTypeOK
<1>5. f.type = "joinMe" => ToSet(up') = ToSet(up) \cup {Line("CHATHISTORY", f.channel)}
  <2>1. SUFFICES ASSUME f.type = "joinMe"
                 PROVE  ToSet(up') = ToSet(up) \cup {Line("CHATHISTORY", f.channel)}
    OBVIOUS
  <2>2. PICK x : x = Line("CHATHISTORY", f.channel)
    OBVIOUS
  <2>3. x \in Command
    BY <1>3, <2>1, <2>2, LineFields DEF Line, Command
  <2>4. ToSet(up \o <<x>>) = ToSet(up) \cup {x}
    BY <1>4, <2>3, ToSetMore
  <2>5. QED
    BY <1>2, <2>1, <2>2, <2>4
<1>6. ToSet(up) \subseteq ToSet(up')
  <2>1. CASE up' = up
    BY <2>1
  <2>2. CASE up' = up \o Joins(wanted)
    <3>1. Joins(wanted) \in Seq(Command)
      BY JoinsFacts DEF ChatTypeOK
    <3>2. ToSet(up \o Joins(wanted)) = ToSet(up) \cup ToSet(Joins(wanted))
      BY <1>4, <3>1, ToSetJoined
    <3>3. QED
      BY <2>2, <3>2
  <2>3. CASE f.type = "joinMe"
    BY <1>5, <2>3
  <2>4. QED
    BY <1>2, <2>1, <2>2, <2>3
<1>7. PICK us \in Seq(ChatUpdate) :
        /\ updates' = updates \o us
        /\ f.type = "message" =>
             \E u \in ToSet(us) : u.type = "message" /\ u.channel = f.channel
  BY <1>1, SessionEmits
<1>8. ToSet(updates') = ToSet(updates) \cup ToSet(us)
  <2>1. ToSet(updates \o us) = ToSet(updates) \cup ToSet(us)
    BY <1>4, <1>7, ToSetJoined
  <2>2. QED
    BY <1>7, <2>1
<1>9. Queued(c) => Queued(c)'
  BY <1>8 DEF Queued
<1>10. Coming("message", c) => Coming("message", c)' \/ Queued(c)'
  <2>1. CASE f.type = "message" /\ f.channel = c
    BY <1>7, <1>8, <2>1 DEF Queued
  <2>2. CASE ~(f.type = "message" /\ f.channel = c)
    BY <1>3, <2>2 DEF Coming
  <2>3. QED
    BY <2>1, <2>2
<1>11. Coming("joinMe", c) => Coming("joinMe", c)' \/ Line("CHATHISTORY", c) \in ToSet(up')
  <2>1. CASE f.type = "joinMe" /\ f.channel = c
    BY <1>5, <2>1
  <2>2. CASE ~(f.type = "joinMe" /\ f.channel = c)
    BY <1>3, <2>2 DEF Coming
  <2>3. QED
    BY <2>1, <2>2
<1>12. QED
  BY <1>2, <1>6, <1>9, <1>10, <1>11 DEF Shows

LEMMA ShowsServer ==
  ASSUME ChatTypeOK, Present, Showing, Server
  PROVE  Showing'
<1>1. UNCHANGED <<conn, shown, updates, said>>
  BY DEF Server, ServerWelcomes, ServerTakesJoin, ServerTakesPart, ServerTakesHistory, ServerTakes,
         ServerNames, ServerEndsNames, sessionVars, viewVars
<1>2. ToSet(down) \subseteq ToSet(down')
  BY SaysMore
<1>3. \A t, c : Coming(t, c) => Coming(t, c)'
  BY <1>2 DEF Coming
<1>4. \A c : Queued(c) => Queued(c)'
  BY <1>1 DEF Queued
<1>5. ASSUME mine' \subseteq mine,
             \A c \in mine' \cap said :
               Line("CHATHISTORY", c) \in ToSet(up)
                 => Line("CHATHISTORY", c) \in ToSet(up') \/ Coming("message", c)'
      PROVE  Showing'
  BY <1>1, <1>3, <1>4, <1>5 DEF Showing, Shows
<1>6. ASSUME NEW t, ServerTakes(t)
      PROVE  \A c : Line("CHATHISTORY", c) \in ToSet(up) => \/ Line("CHATHISTORY", c) \in ToSet(up')
                                                            \/ /\ t = "CHATHISTORY"
                                                               /\ Head(Commands).channel = c
  <2>1. PICK x : x = Head(Commands)
    OBVIOUS
  <2>2. /\ \/ up # <<>> /\ x = Head(up) /\ up' = Tail(up)
           \/ up' = up
        /\ x.command = t
    BY <1>6, <2>1, TakenFrom
  <2>3. ToSet(up) \subseteq {x} \cup ToSet(up') \/ ToSet(up) = ToSet(up')
    BY <2>2, ToSetLess DEF ChatTypeOK
  <2>4. ASSUME NEW c, Line("CHATHISTORY", c) = x PROVE t = "CHATHISTORY" /\ x.channel = c
    BY <2>2, <2>4, LineFacts
  <2>5. QED
    BY <2>1, <2>3, <2>4
<1>7. CASE ServerWelcomes \/ \E c \in Channel : ServerNames(c) \/ ServerEndsNames(c)
  <2>1. UNCHANGED <<up, mine>>
    BY <1>7 DEF ServerWelcomes, ServerNames, ServerEndsNames
  <2>2. QED
    BY <1>5, <2>1
<1>8. CASE ServerTakesPart
  <2>1. ServerTakes("PART")
    BY <1>8 DEF ServerTakesPart
  <2>2. mine' \subseteq mine
    BY <1>8 DEF ServerTakesPart
  <2>3. QED
    BY <1>5, <1>6, <2>1, <2>2
<1>9. CASE ServerTakesHistory
  <2>1. PICK d : d = Head(Commands).channel
    OBVIOUS
  <2>2. ServerTakes("CHATHISTORY") /\ mine' = mine
    BY <1>9 DEF ServerTakesHistory
  <2>3. d \in mine \cap said => Coming("message", d)'
    <3>1. SUFFICES ASSUME d \in mine \cap said PROVE Coming("message", d)'
      OBVIOUS
    <3>2. online /\ d \in Channel
      BY <3>1 DEF Present, ChatTypeOK
    <3>3. PICK f : f = ChannelUpdate("message", d)
      OBVIOUS
    <3>4. f \in ServerLine /\ f.type = "message" /\ f.channel = d
      BY <3>2, <3>3, LinesTyped, UpdateFields DEF ChannelUpdate
    <3>5. down' = down \o <<f>>
      BY <1>9, <2>1, <3>1, <3>2, <3>3 DEF ServerTakesHistory, Ignores, Says
    <3>6. ToSet(down \o <<f>>) = ToSet(down) \cup {f}
      BY <3>4, ToSetMore DEF ChatTypeOK
    <3>7. QED
      BY <3>4, <3>5, <3>6 DEF Coming
  <2>4. QED
    BY <1>5, <1>6, <2>1, <2>2, <2>3
<1>10. CASE ServerTakesJoin
  <2>1. PICK d : d = Head(Commands).channel
    OBVIOUS
  <2>2. ServerTakes("JOIN")
    BY <1>10 DEF ServerTakesJoin
  <2>3. CASE mine' = mine
    BY <1>5, <1>6, <2>2, <2>3
  <2>4. CASE mine' # mine
    <3>1. PICK f : f = ChannelUpdate("joinMe", d)
      OBVIOUS
    <3>2. mine' = mine \cup {d} /\ down' = down \o <<f>>
      BY <1>10, <2>1, <2>4, <3>1 DEF ServerTakesJoin, Says
    <3>3. d \in Channel
      BY <2>1, <2>2, TakenFrom
    <3>4. f \in ServerLine /\ f.type = "joinMe" /\ f.channel = d
      BY <3>1, <3>3, LinesTyped, UpdateFields DEF ChannelUpdate
    <3>5. ToSet(down \o <<f>>) = ToSet(down) \cup {f}
      BY <3>4, ToSetMore DEF ChatTypeOK
    <3>6. Coming("joinMe", d)'
      BY <3>2, <3>4, <3>5 DEF Coming
    <3>7. \A c : Line("CHATHISTORY", c) \in ToSet(up) => Line("CHATHISTORY", c) \in ToSet(up')
      BY <1>6, <2>2
    <3>8. QED
      BY <1>1, <1>3, <1>4, <3>2, <3>6, <3>7 DEF Showing, Shows
  <2>5. QED
    BY <2>3, <2>4
<1>11. QED
  BY <1>7, <1>8, <1>9, <1>10 DEF Server

LEMMA ShowsKept ==
  ASSUME ChatTypeOK, Present, Follows, Showing, [ChatNext]_chatVars
  PROVE  Showing'
<1>1. CASE UNCHANGED <<conn, shown, updates, mine, said, up, down>>
  BY <1>1 DEF Showing, Shows, Queued, Coming
<1> USE DEF viewVars, sessionVars, serverVars
<1>2. ASSUME NEW c \in Channel, Join(c) \/ Leave(c) PROVE Showing'
  BY <1>1, <1>2 DEF Join, Leave
<1>3. CASE Announce \/ JoinAnnounced \/ JoinAuto \/ UNCHANGED chatVars
  BY <1>1, <1>3 DEF Announce, JoinAnnounced, JoinAuto, chatVars
<1>4. CASE Relay
  <2>1. UNCHANGED <<conn, mine, said>>
    BY <1>4 DEF Relay
  <2>2. QED
    BY <1>4, <2>1, ShowsRelay DEF Showing, ChatTypeOK
<1>5. CASE Dial
  BY <1>5 DEF Dial, Present, Showing
<1>6. CASE ConnectionLost \/ ReportLost
  BY <1>6 DEF ConnectionLost, ReportLost, Showing
<1>7. CASE Session
  <2>1. UNCHANGED <<conn, mine, said>>
    BY <1>7, SessionSends
  <2>2. QED
    BY <1>7, <2>1, ShowsSession DEF Showing, ChatTypeOK
<1>8. CASE OtherStep
  <2>1. UNCHANGED <<conn, shown, updates, up>>
    BY <1>8, OtherFrame
  <2>2. ToSet(down) \subseteq ToSet(down')
    BY <1>8, SaysMore
  <2>3. \A c : Shows(c) => Shows(c)'
    BY <2>1, <2>2 DEF Shows, Queued, Coming
  <2>4. mine' \subseteq mine /\ \A c \in said' \cap mine : c \in said \/ Coming("message", c)'
    BY <1>8, OtherMine
  <2>5. \A c : Coming("message", c)' => Shows(c)'
    BY DEF Shows
  <2>6. QED
    BY <2>1, <2>3, <2>4, <2>5 DEF Showing
<1>9. QED
  BY <1>2, <1>3, <1>4, <1>5, <1>6, <1>7, <1>8, ShowsServer DEF ChatNext, OtherStep

LEMMA NothingMissed == ChatTypeOK /\ Showing => NothingIsMissed
<1>1. SUFFICES ASSUME ChatTypeOK, Showing, Settled, NEW c \in mine \cap said PROVE shown[c] > 0
  BY DEF NothingIsMissed
<1>2. conn = "up" /\ ToSet(down) = {} /\ ToSet(up) = {} /\ ToSet(updates) = {}
  BY <1>1, ToSetEmpty DEF Settled
<1>3. QED
  BY <1>1, <1>2 DEF Showing, Shows, Queued, Coming

-----------------------------------------------------------------------------
(* ChatSession: the theorems *)

\* The parts above, each kept by every step given the ones before it.
ChatInv ==
  /\ ChatTypeOK
  /\ Screen
  /\ Present
  /\ Follows
  /\ JoinedLast /\ Rejoins
  /\ Announces
  /\ Showing

LEMMA ChatInvariant == ChatSpec => []ChatInv
<1>1. ChatInit => ChatInv
  BY ChatTypesBegin, ScreenBegins, PresentBegins, FollowsBegins, RejoinsBegins, AnnouncesBegins,
     ShowsBegins DEF ChatInv
<1>2. ASSUME ChatInv, [ChatNext]_chatVars PROVE ChatInv'
  <2>1. ChatTypeOK /\ Screen /\ Present /\ Follows /\ JoinedLast /\ Rejoins /\ Announces /\ Showing
    BY <1>2 DEF ChatInv
  <2>2. ChatTypeOK' /\ Screen' /\ Present' /\ Follows'
    BY <1>2, <2>1, ChatTypesKept, ScreenKept, PresentKept, FollowsKept
  <2>3. JoinedLast' /\ Rejoins' /\ Announces' /\ Showing'
    BY <1>2, <2>1, RejoinsKept, AnnouncesKept, ShowsKept
  <2>4. QED
    BY <2>2, <2>3 DEF ChatInv
<1>3. QED
  BY <1>1, <1>2, PTL DEF ChatSpec

\* What the four parties and the three queues between them hold is always well
\* formed, and the queue of updates never holds more than its slots and the
\* departures one QUIT adds: the session stops reading while it is full.
THEOREM ChatTypesHold == ChatSpec => []ChatTypeOK
<1>1. ChatInv => ChatTypeOK
  BY DEF ChatInv
<1>2. QED
  BY <1>1, ChatInvariant, PTL

\* The rosters on screen, with the updates under way, are the session's: no
\* line of the server changes one of the two and not the other, and what a lost
\* connection left is gone before the next is read (infra/irc_session.rs,
\* state/chat.rs).
THEOREM ScreenIsTheSessions == ChatSpec => []ScreenFollowsSession
<1>1. ChatInv => ScreenFollowsSession
  BY ScreenIsFollowed DEF ChatInv
<1>2. QED
  BY <1>1, ChatInvariant, PTL

\* The rosters on screen are the server's once everything has arrived, in each
\* channel whose names were listed undisturbed, whatever the order in which
\* people came, went, were renamed and the connection was lost and joined anew.
THEOREM ScreenIsTheServers == ChatSpec => []ScreenFollowsServer
<1>1. ChatInv => ScreenFollowsServer
  BY ServerIsFollowed DEF ChatInv
<1>2. QED
  BY <1>1, ChatInvariant, PTL

\* A channel the user wants is joined in the end of every JOIN, PART, login,
\* loss and kick that was under way (infra/irc.rs, infra/irc_session.rs).
THEOREM WishIsGranted == ChatSpec => []WantedIsJoined
<1>1. ChatInv => WantedIsJoined
  BY WantedAreJoined DEF ChatInv
<1>2. QED
  BY <1>1, ChatInvariant, PTL

\* The channels the lobby server announces are joined whichever of the two
\* connections came up first (services/lobby.rs, services/chat.rs).
THEOREM AnnouncementIsHeard == ChatSpec => []AnnouncedIsJoined
<1>1. ChatInv => AnnouncedIsJoined
  BY AnnouncedAreJoined DEF ChatInv
<1>2. QED
  BY <1>1, ChatInvariant, PTL

\* What was said in a channel we are in is shown: live, or by the backfill asked
\* for when the JOIN is echoed (infra/irc_session.rs).
THEOREM NoMessageIsMissed == ChatSpec => []NothingIsMissed
<1>1. ChatInv => NothingIsMissed
  BY NothingMissed DEF ChatInv
<1>2. QED
  BY <1>1, ChatInvariant, PTL
=============================================================================
