---------------------------- MODULE AppStateView ----------------------------
(***************************************************************************)
(* What the backend promises to whoever shows its state: there is one      *)
(* sequence of events, and a viewer always shows the state after some      *)
(* prefix of it, never an older prefix than the one it showed before.      *)
(* The reducer is kept free: the state after a prefix is that prefix, so   *)
(* two states are equal only when the same events were reduced in the same *)
(* order.                                                                  *)
(***************************************************************************)
EXTENDS Integers, Sequences

CONSTANT Event   \* the events a service may emit

VARIABLES history,      \* the events reduced so far, in order
          view          \* the event sequence the viewer shows, as a singleton;
                        \* empty before the viewer's first snapshot

viewVars == <<history, view>>

Prefix(s, n) == SubSeq(s, 1, n)

ViewInit ==
  /\ history = <<>>
  /\ view = {}

\* The authoritative state moves by one event.
Reduced ==
  /\ \E e \in Event : history' = Append(history, e)
  /\ UNCHANGED view

\* The viewer moves to the state after any prefix it has not moved beyond.
Shown ==
  /\ \E n \in 0..Len(history) :
        /\ \A s \in view : Len(s) <= n
        /\ view' = {Prefix(history, n)}
  /\ UNCHANGED history

ViewNext == Reduced \/ Shown

ViewSpec == ViewInit /\ [][ViewNext]_viewVars
=============================================================================
