----------------------------- MODULE StateMirror -----------------------------
(***************************************************************************)
(* The path of the application state from the services to the webview:     *)
(*                                                                         *)
(*   EventSink::emit --> broadcast channel --> Tauri forwarder             *)
(*                                 --> window event channel --> the mirror *)
(*                                                                         *)
(* and, beside it, the `snapshot` IPC command the webview calls once at    *)
(* start and again whenever it sees a hole in the revisions.               *)
(*                                                                         *)
(* The reducer is free (the state after some events is the sequence of     *)
(* those events), so the mirror equals the authoritative state of its      *)
(* revision only if it applied exactly the same events in the same order.  *)
(***************************************************************************)
EXTENDS Integers, Sequences, FiniteSets

CONSTANTS Emitter,      \* the command tasks that call EventSink::emit
          Event,        \* what they emit
          Capacity,     \* slots of the broadcast ring (256 in the code)
          MaxRevision,  \* bound: events emitted in a behaviour
          MaxLost,      \* bound: messages the window system drops
          MaxFailed     \* bound: snapshot commands that fail

ASSUME EmitterAssumption == Emitter # {}
ASSUME EventAssumption == Event # {}
ASSUME BoundAssumption == /\ Capacity \in Nat \ {0}
                          /\ MaxRevision \in Nat
                          /\ MaxLost \in Nat
                          /\ MaxFailed \in Nat

Null == -1                            \* the mirror has no revision yet
Requester == {"boot", "recovery"}     \* who asks for a snapshot

VARIABLES
  state,        \* the events reduced into the authoritative AppState
  revision,     \* the revision counter
  lock,         \* the emitters holding the write guard
  staged,       \* per emitter: the versioned event it has still to send
  sent,         \* every versioned event put on the broadcast ring, in order
  cursor,       \* the forwarder's receive position in sent
  wire,         \* frontend messages emitted to the window, not yet delivered
  listening,    \* the webview has registered its listener
  mirrorRev,    \* RevisionedMirror.revision
  mirror,       \* the frontend store's state
  pending,      \* RevisionedMirror.pending: revision -> event
  recoveryRequested,
  request,      \* per requester: idle, asked, answered, done or failed
  answer,       \* per requester: the snapshot on its way back
  lost,         \* messages dropped by the window system so far
  failed        \* snapshot commands failed so far

backendVars  == <<state, revision, lock, staged, sent>>
mirrorVars   == <<mirrorRev, mirror, pending, recoveryRequested>>
requestVars  == <<request, answer, failed>>
vars == <<backendVars, cursor, wire, listening, mirrorVars, requestVars, lost>>

-----------------------------------------------------------------------------
(* Messages *)

VersionedEvent == [revision : Nat, event : Event]
Snapshot == [revision : Nat, state : Seq(Event)]
Message == [kind : {"event"}, revision : Nat, body : Event]
           \cup [kind : {"snapshot"}, revision : Nat, body : Seq(Event)]

EventMessage(v)    == [kind |-> "event", revision |-> v.revision, body |-> v.event]
SnapshotMessage(s) == [kind |-> "snapshot", revision |-> s.revision, body |-> s.state]

\* versioned_snapshot: both fields are read under the state lock.
VersionedSnapshot == [revision |-> revision, state |-> state]

Init ==
  /\ state = <<>>
  /\ revision = 0
  /\ lock = {}
  /\ staged = [t \in Emitter |-> <<>>]
  /\ sent = <<>>
  /\ cursor = 1
  /\ wire = <<>>
  /\ listening = FALSE
  /\ mirrorRev = Null
  /\ mirror = <<>>
  /\ pending = <<>>
  /\ recoveryRequested = FALSE
  /\ request = [r \in Requester |-> "idle"]
  /\ answer = [r \in Requester |-> [revision |-> 0, state |-> <<>>]]
  /\ lost = 0
  /\ failed = 0

-----------------------------------------------------------------------------
(* The backend: EventSink::emit holds the write guard from the reduction   *)
(* to the broadcast, so it is two steps with the guard held in between.    *)

\* fetch_add(1) + 1
NextRevision == revision + 1

EmitReduce(t) ==
  /\ lock = {}
  /\ staged[t] = <<>>
  /\ revision < MaxRevision
  /\ \E e \in Event :
        /\ state' = Append(state, e)
        /\ staged' = [staged EXCEPT ![t] = <<[revision |-> NextRevision, event |-> e]>>]
  /\ revision' = NextRevision
  /\ lock' = {t}
  /\ UNCHANGED <<sent, cursor, wire, listening, mirrorVars, requestVars, lost>>

EmitSend(t) ==
  /\ staged[t] # <<>>
  /\ sent' = sent \o staged[t]
  /\ staged' = [staged EXCEPT ![t] = <<>>]
  /\ lock' = lock \ {t}
  /\ UNCHANGED <<state, revision, cursor, wire, listening, mirrorVars, requestVars, lost>>

-----------------------------------------------------------------------------
(* The forwarder task. handle.emit's error is discarded, and a message     *)
(* emitted before the webview listens reaches nobody.                      *)

ToWindow(message) ==
  \/ /\ wire' = IF listening THEN Append(wire, message) ELSE wire
     /\ UNCHANGED lost
  \/ /\ listening
     /\ lost < MaxLost
     /\ lost' = lost + 1
     /\ UNCHANGED wire

\* The ring has overwritten the entry the receiver is at.
Lagged == Len(sent) - cursor + 1 > Capacity

ForwardEvent ==
  /\ cursor <= Len(sent)
  /\ ~Lagged
  /\ ToWindow(EventMessage(sent[cursor]))
  /\ cursor' = cursor + 1
  /\ UNCHANGED <<backendVars, listening, mirrorVars, requestVars>>

\* Mutant: resubscribing at the tail without sending a snapshot.
ForwardSkip ==
  /\ Lagged
  /\ lock = {}
  /\ cursor' = Len(sent) + 1
  /\ UNCHANGED <<backendVars, wire, lost, listening, mirrorVars, requestVars>>

\* Err(Lagged): subscribe at the tail and snapshot under one read guard.
ForwardResubscribe ==
  /\ Lagged
  /\ lock = {}
  /\ cursor' = Len(sent) + 1
  /\ ToWindow(SnapshotMessage(VersionedSnapshot))
  /\ UNCHANGED <<backendVars, listening, mirrorVars, requestVars>>

-----------------------------------------------------------------------------
(* RevisionedMirror *)

\* Where drainPending's loop stops, having started at revision r.
DrainedTo(r, buffer) ==
  CHOOSE m \in {r} \cup DOMAIN buffer :
     /\ m >= r
     /\ (r + 1)..m \subseteq DOMAIN buffer
     /\ m + 1 \notin DOMAIN buffer

\* The buffer without the revisions up to r.
Above(r, buffer) == [i \in {j \in DOMAIN buffer : j > r} |-> buffer[i]]

Buffered(message) ==
  [i \in DOMAIN pending \cup {message.revision} |->
      IF i = message.revision THEN message.body ELSE pending[i]]

HasRevisionGap(r, buffer) == r # Null /\ \E i \in DOMAIN buffer : i > r + 1

\* The mirror at revision r showing s, after drainPending over buffer. The
\* loop removes from the buffer exactly what it applies.
Drain(r, s, buffer) ==
  LET m == DrainedTo(r, buffer) IN
  /\ mirrorRev' = m
  /\ mirror' = s \o [i \in 1..(m - r) |-> buffer[r + i]]
  /\ pending' = [i \in DOMAIN buffer \ ((r + 1)..m) |-> buffer[i]]

\* requestRecovery, called (or not) from the event handler.
RequestRecovery(wanted) ==
  CASE wanted /\ request["recovery"] # "idle" ->
         /\ recoveryRequested' = TRUE
         /\ UNCHANGED requestVars
    [] wanted /\ request["recovery"] = "idle" ->
         /\ recoveryRequested' = FALSE
         /\ request' = [request EXCEPT !["recovery"] = "asked"]
         /\ UNCHANGED <<answer, failed>>
    [] OTHER -> UNCHANGED <<recoveryRequested, requestVars>>

\* Mutant: a late, older snapshot replaces the mirror too.
ReplaceAlways(snapshot) ==
  Drain(snapshot.revision, snapshot.state, Above(snapshot.revision, pending))

\* replace(snapshot), up to the recovery request it may end with.
Replace(snapshot) ==
  IF mirrorRev # Null /\ snapshot.revision < mirrorRev
  THEN UNCHANGED <<mirrorRev, mirror, pending>>
  ELSE Drain(snapshot.revision, snapshot.state, Above(snapshot.revision, pending))

\* receive(message) for the message at the head of the window channel.
ReceiveSnapshot ==
  /\ wire # <<>>
  /\ Head(wire).kind = "snapshot"
  /\ wire' = Tail(wire)
  /\ Replace([revision |-> Head(wire).revision, state |-> Head(wire).body])
  /\ RequestRecovery(HasRevisionGap(mirrorRev', pending'))
  /\ UNCHANGED <<backendVars, cursor, listening, lost>>

\* Before hydration, or beyond a hole: buffer, and ask for a snapshot if a
\* hole is what kept the event from being applied.
ReceiveEarly(message) ==
  /\ mirrorRev = Null \/ message.revision > mirrorRev + 1
  /\ pending' = Buffered(message)
  /\ UNCHANGED <<mirrorRev, mirror>>
  /\ RequestRecovery(mirrorRev # Null)

ReceiveKnown(message) ==
  /\ mirrorRev # Null
  /\ message.revision <= mirrorRev
  /\ UNCHANGED <<mirrorVars, requestVars>>

\* Mutant: an event beyond a hole is applied.
ReceiveAnyLater(message) ==
  /\ mirrorRev # Null
  /\ message.revision > mirrorRev
  /\ Drain(message.revision, Append(mirror, message.body), pending)
  /\ RequestRecovery(HasRevisionGap(mirrorRev', pending'))

ReceiveNext(message) ==
  /\ mirrorRev # Null
  /\ message.revision = mirrorRev + 1
  /\ Drain(message.revision, Append(mirror, message.body), pending)
  /\ RequestRecovery(HasRevisionGap(mirrorRev', pending'))

ReceiveEvent ==
  /\ wire # <<>>
  /\ Head(wire).kind = "event"
  /\ wire' = Tail(wire)
  /\ \/ ReceiveEarly(Head(wire))
     \/ ReceiveKnown(Head(wire))
     \/ ReceiveNext(Head(wire))
  /\ UNCHANGED <<backendVars, cursor, listening, lost>>

-----------------------------------------------------------------------------
(* bootstrap() and the `snapshot` command, whose answers are scheduled     *)
(* independently of the window channel.                                    *)

Listen ==
  /\ ~listening
  /\ request["boot"] = "idle"
  /\ listening' = TRUE
  /\ UNCHANGED <<backendVars, cursor, wire, mirrorVars, requestVars, lost>>

AskBootSnapshot ==
  /\ listening
  /\ request["boot"] = "idle"
  /\ request' = [request EXCEPT !["boot"] = "asked"]
  /\ UNCHANGED <<backendVars, cursor, wire, listening, mirrorVars, answer, failed, lost>>

ServeSnapshot(r) ==
  /\ request[r] = "asked"
  /\ lock = {}
  /\ request' = [request EXCEPT ![r] = "answered"]
  /\ answer' = [answer EXCEPT ![r] = VersionedSnapshot]
  /\ UNCHANGED <<backendVars, cursor, wire, listening, mirrorVars, failed, lost>>

BootAnswered ==
  /\ request["boot"] = "answered"
  /\ Replace(answer["boot"])
  /\ LET gap == HasRevisionGap(mirrorRev', pending')
         idle == request["recovery"] = "idle" IN
     /\ request' = [request EXCEPT !["boot"] = "done",
                                   !["recovery"] = IF gap /\ idle THEN "asked" ELSE @]
     /\ recoveryRequested' = IF gap THEN ~idle ELSE recoveryRequested
  /\ UNCHANGED <<backendVars, cursor, wire, listening, answer, failed, lost>>

\* onMessage or the snapshot command is rejected: bootstrap's catch puts the
\* startup error on screen. Nothing asks again, and a listener that was
\* registered stays and feeds a mirror nobody sees.
BootFailed ==
  /\ request["boot"] = IF listening THEN "asked" ELSE "idle"
  /\ failed < MaxFailed
  /\ failed' = failed + 1
  /\ request' = [request EXCEPT !["boot"] = "failed"]
  /\ UNCHANGED <<backendVars, cursor, wire, listening, mirrorVars, answer, lost>>

\* Mutant: finally clears the flight but forgets what was asked meanwhile.
RecoveryForgotten(wanted) ==
  /\ request' = [request EXCEPT !["recovery"] = "idle"]
  /\ recoveryRequested' = (recoveryRequested /\ ~wanted)

\* The promise's then, catch and finally run back to back. replace is called
\* while the recovery still counts as in flight, so a hole it leaves is
\* remembered, and finally asks again.
RecoverySettled(wanted) ==
  /\ request' = [request EXCEPT !["recovery"] = IF wanted THEN "asked" ELSE "idle"]
  /\ recoveryRequested' = (recoveryRequested /\ ~wanted)

RecoveryAnswered ==
  /\ request["recovery"] = "answered"
  /\ Replace(answer["recovery"])
  /\ RecoverySettled(recoveryRequested \/ HasRevisionGap(mirrorRev', pending'))
  /\ UNCHANGED <<backendVars, cursor, wire, listening, answer, failed, lost>>

RecoveryFailed ==
  /\ request["recovery"] = "asked"
  /\ failed < MaxFailed
  /\ failed' = failed + 1
  /\ RecoverySettled(recoveryRequested)
  /\ UNCHANGED <<backendVars, cursor, wire, listening, mirrorRev, mirror, pending, answer, lost>>

-----------------------------------------------------------------------------

Forwarder == ForwardEvent \/ ForwardResubscribe
Webview   == ReceiveSnapshot \/ ReceiveEvent

Next ==
  \/ \E t \in Emitter : EmitReduce(t) \/ EmitSend(t)
  \/ Forwarder
  \/ Webview
  \/ Listen
  \/ AskBootSnapshot
  \/ \E r \in Requester : ServeSnapshot(r)
  \/ BootAnswered
  \/ BootFailed
  \/ RecoveryAnswered
  \/ RecoveryFailed

Spec == Init /\ [][Next]_vars

\* The guard is released by straight-line code; the forwarder, the webview's
\* event loop and the IPC bridge are tasks that keep being scheduled. Nothing
\* makes a service emit, nor a snapshot command fail.
Fairness ==
  /\ \A t \in Emitter : WF_vars(EmitSend(t))
  /\ WF_vars(ForwardEvent)
  /\ SF_vars(ForwardResubscribe)
  /\ WF_vars(Webview)
  /\ WF_vars(Listen)
  /\ WF_vars(AskBootSnapshot)
  /\ \A r \in Requester : SF_vars(ServeSnapshot(r))
  /\ WF_vars(BootAnswered)
  /\ WF_vars(RecoveryAnswered)

FairSpec == Spec /\ Fairness

-----------------------------------------------------------------------------
(* Properties *)

Prefix(s, n) == SubSeq(s, 1, n)

\* Shapes of all variables; revisions count the reduced events.
TypeOK ==
  /\ state \in Seq(Event)
  /\ revision = Len(state)
  /\ lock \subseteq Emitter
  /\ staged \in [Emitter -> Seq(VersionedEvent)]
  /\ sent \in Seq(VersionedEvent)
  /\ cursor \in Nat \ {0}
  /\ wire \in Seq(Message)
  /\ listening \in BOOLEAN
  /\ mirrorRev \in Nat \cup {Null}
  /\ mirror \in Seq(Event)
  /\ DOMAIN pending \subseteq Nat
  /\ \A i \in DOMAIN pending : pending[i] \in Event
  /\ recoveryRequested \in BOOLEAN
  /\ request \in [Requester -> {"idle", "asked", "answered", "done", "failed"}]
  /\ answer \in [Requester -> Snapshot]
  /\ lost \in 0..MaxLost
  /\ failed \in 0..MaxFailed

\* Whatever was lost, reordered with a snapshot or answered late, the frontend
\* store holds exactly the authoritative state of the revision it claims:
\* every event up to it reduced once and in order (revisionedMirror.ts:5-12).
MirrorIsAuthoritative ==
  mirrorRev # Null => /\ mirrorRev <= revision
                      /\ mirror = Prefix(state, mirrorRev)

\* The broadcast channel carries revisions in the order they were handed out,
\* without holes, although any task may emit at any time: what holding the
\* write guard across both sends is for (runtime/mod.rs:168-178).
BroadcastInOrder ==
  \A i \in 1..Len(sent) : sent[i] = [revision |-> i, event |-> state[i]]

\* A snapshot of the whole state is fetched a second time only if the window
\* system lost something: buffering before hydration, lag recovery and the
\* duplicates they deliver never look like a hole to the mirror.
RefetchOnlyAfterLoss == request["recovery"] # "idle" => lost > 0

\* A mirror that has seen a hole has a recovery on the way, or lost it to a
\* failed command: no hole is seen and then left alone.
GapIsBeingRecovered ==
  HasRevisionGap(mirrorRev, pending) => request["recovery"] # "idle" \/ failed > 0

\* No delivery, late answer or failure takes the frontend back to an older
\* state (revisionedMirror.ts:46-47).
NeverRollsBack == [][mirrorRev' >= mirrorRev]_vars

\* With nothing dropped by the window system, every event reaches the
\* frontend store, lag and bootstrap races included, or the startup error is
\* on screen instead of the store (App.tsx:130-137): a failed bootstrap is
\* the only way to miss an event, failed recoveries are not.
StartupError == request["boot"] = "failed"

EveryEventShown ==
  [](lost = 0) =>
     \A n \in 1..MaxRevision : (revision >= n) ~> (mirrorRev >= n \/ StartupError)

\* A hole the mirror has seen is closed as long as snapshot commands succeed.
GapHeals ==
  [](failed = 0) => (HasRevisionGap(mirrorRev, pending) ~> ~HasRevisionGap(mirrorRev, pending))

\* The frontend implements a viewer of the backend's history.
View == INSTANCE AppStateView
  WITH history <- state, view <- IF mirrorRev = Null THEN {} ELSE {mirror}

ImplementsView == View!ViewSpec
=============================================================================
