------------------------------ MODULE Settings ------------------------------
(***************************************************************************)
(* The settings between memory and disk: commands that change a preference *)
(* group and persist the whole slice, read markers that are persisted once *)
(* the reader has been quiet, the guard that serialises the saves, the     *)
(* atomic replacement of the file, and the client that dies and loads it   *)
(* again while its commands run already.                                   *)
(*                                                                         *)
(* The slice is reduced to a plain preference (theme stands for all of     *)
(* them, the install paths included), the chat group, which holds an       *)
(* option and the read markers together, the number of changes it has seen *)
(* and whether it goes back to what a Load read, or to the defaults that   *)
(* the client starts with.                                                 *)
(***************************************************************************)
EXTENDS Integers, Sequences

CONSTANTS Task,         \* commands and timers that run at once
          None,
          MaxChanges,   \* bound: changes of the settings, imports included
          MaxMessages,  \* bound: messages of the channel that is read
          MaxFaults     \* bound: crashes, failed saves and failed loads

ASSUME NoneAssumption == None \notin Task
ASSUME BoundAssumption == MaxChanges \in Nat /\ MaxMessages \in Nat /\ MaxFaults \in Nat

VARIABLES
  up,         \* how far the Load of the start is: reading, importing, inspecting, ready
  copy,       \* the settings it has read
  settings,   \* AppState.settings
  shown,      \* the read marker in the webview's copy of it
  file,       \* settings.json
  newest,     \* the newest message of the channel
  pc, draft,  \* per task: where it is, and the settings it is about to emit or save
  latest,     \* chat_read_marker_persist_generation: the timer that began it
  queue,      \* settings_persist: its holder, then those who wait
  changes,    \* changes asked for so far
  faults,     \* faults so far
  saved       \* history: the last load or save to end was a good one

taskVars == <<pc, draft, latest, queue>>
loadVars == <<up, copy>>
vars == <<loadVars, settings, shown, file, newest, taskVars, changes, faults, saved>>

SettingsState == [stamp : Nat, theme : Nat, option : Nat, marker : 0..MaxMessages, loaded : BOOLEAN]
Default == [stamp |-> 0, theme |-> 0, option |-> 0, marker |-> 0, loaded |-> FALSE]
Torn == [Default EXCEPT !.theme = -1]

Init ==
  /\ up = "reading"
  /\ copy = Default
  /\ settings = Default
  /\ shown = 0
  /\ file = [Default EXCEPT !.loaded = TRUE]
  /\ newest = 0
  /\ pc = [t \in Task |-> "idle"]
  /\ draft = [t \in Task |-> Default]
  /\ latest = None
  /\ queue = <<>>
  /\ changes = 0
  /\ faults = 0
  /\ saved = TRUE

Goto(t, from, to) ==
  /\ pc[t] = from
  /\ pc' = [pc EXCEPT ![t] = to]

\* One more change is asked for; its number is the new value.
Asked ==
  /\ changes < MaxChanges
  /\ changes' = changes + 1

Fault ==
  /\ faults < MaxFaults
  /\ faults' = faults + 1

\* The stamp counts the changes the state has seen.
Emit(s) == settings' = [s EXCEPT !.stamp = settings.stamp + 1]

-----------------------------------------------------------------------------
(* SettingsCommand::Load: the commands below run beside it *)

\* An install that is not where the settings say is looked for, and imported.
Discover(s) ==
  \/ /\ up' = "inspecting"
     /\ copy' = [s EXCEPT !.loaded = TRUE]
     /\ UNCHANGED changes
  \/ /\ up' = "importing"
     /\ Asked
     /\ copy' = [s EXCEPT !.loaded = TRUE, !.theme = changes', !.stamp = s.stamp + 1]

LoadReads ==
  /\ up = "reading"
  /\ Discover(file)
  /\ saved' = TRUE
  /\ UNCHANGED <<settings, shown, file, newest, taskVars, faults>>

\* A file that cannot be read or parsed yields the defaults for everything.
LoadFails ==
  /\ up = "reading"
  /\ Fault
  /\ Discover([Default EXCEPT !.stamp = file.stamp])
  /\ saved' = FALSE
  /\ UNCHANGED <<settings, shown, file, newest, taskVars>>

\* An import is saved at once, without the guard of the other saves.
LoadSaves ==
  /\ up = "importing"
  /\ up' = "inspecting"
  /\ file' = copy
  /\ saved' = TRUE
  /\ UNCHANGED <<copy, settings, shown, newest, taskVars, changes, faults>>

LoadSaveFails ==
  /\ up = "importing"
  /\ Fault
  /\ up' = "inspecting"
  /\ saved' = FALSE
  /\ UNCHANGED <<copy, settings, shown, file, newest, taskVars, changes>>

\* The cache of game files was cleaned and measured, and what was read goes
\* over whatever the state has become meanwhile.
LoadEnds ==
  /\ up = "inspecting"
  /\ up' = "ready"
  /\ settings' = copy
  /\ copy' = Default
  /\ UNCHANGED <<shown, file, newest, taskVars, changes, faults, saved>>

\* Whatever was in memory is gone, with the temporary file of a save.
Crash ==
  /\ Fault
  /\ up' = "reading"
  /\ copy' = Default
  /\ settings' = Default
  /\ shown' = 0
  /\ pc' = [t \in Task |-> "idle"]
  /\ draft' = [t \in Task |-> Default]
  /\ latest' = None
  /\ queue' = <<>>
  /\ UNCHANGED <<file, newest, changes, saved>>

-----------------------------------------------------------------------------
(* The world around it *)

MessageArrives ==
  /\ newest < MaxMessages
  /\ newest' = newest + 1
  /\ UNCHANGED <<loadVars, settings, shown, file, taskVars, changes, faults, saved>>

\* The webview catches up with the state.
Mirror ==
  /\ shown # settings.marker
  /\ shown' = settings.marker
  /\ UNCHANGED <<loadVars, settings, file, newest, taskVars, changes, faults, saved>>

-----------------------------------------------------------------------------
(* Commands *)

\* A group with one value: emitted, then persisted.
SetTheme(t) ==
  /\ Asked
  /\ Goto(t, "idle", "persist")
  /\ Emit([settings EXCEPT !.theme = changes'])
  /\ UNCHANGED <<loadVars, shown, file, newest, draft, latest, queue, faults, saved>>

\* The UI sends the chat group whole, from the copy it shows.
SendChat(t) ==
  /\ Asked
  /\ Goto(t, "idle", "setChat")
  /\ draft' = [draft EXCEPT ![t] = [Default EXCEPT !.option = changes', !.marker = shown]]
  /\ UNCHANGED <<loadVars, settings, shown, file, newest, latest, queue, faults, saved>>

SetChat(t) ==
  /\ Goto(t, "setChat", "persist")
  /\ Emit([settings EXCEPT !.option = draft[t].option, !.marker = draft[t].marker])
  /\ draft' = [draft EXCEPT ![t] = Default]
  /\ UNCHANGED <<loadVars, shown, file, newest, latest, queue, changes, faults, saved>>

\* Selecting a channel with unread messages: the chat group is copied ...
SelectChannel(t) ==
  /\ Asked
  /\ newest # settings.marker
  /\ Goto(t, "idle", "select")
  /\ draft' = [draft EXCEPT ![t] = [Default EXCEPT !.option = settings.option, !.marker = newest]]
  /\ UNCHANGED <<loadVars, settings, shown, file, newest, latest, queue, faults, saved>>

\* ... and put back with the marker moved.
MarkRead(t) ==
  /\ Goto(t, "select", "arm")
  /\ Emit([settings EXCEPT !.option = draft[t].option, !.marker = draft[t].marker])
  /\ draft' = [draft EXCEPT ![t] = Default]
  /\ UNCHANGED <<loadVars, shown, file, newest, latest, queue, changes, faults, saved>>

\* Of the timers that wait for a quiet reader only the newest will save.
ArmTimer(t) ==
  /\ Goto(t, "arm", "quiet")
  /\ latest' = t
  /\ UNCHANGED <<loadVars, settings, shown, file, newest, draft, queue, changes, faults, saved>>

Holds(t) == queue # <<>> /\ Head(queue) = t

Finish(t) ==
  /\ pc' = [pc EXCEPT ![t] = "idle"]
  /\ draft' = [draft EXCEPT ![t] = Default]
  /\ latest' = IF latest = t THEN None ELSE latest
  /\ queue' = IF Holds(t) THEN Tail(queue) ELSE queue

TimerOvertaken(t) ==
  /\ pc[t] = "quiet"
  /\ latest # t
  /\ Finish(t)
  /\ UNCHANGED <<loadVars, settings, shown, file, newest, changes, faults, saved>>

TimerFires(t) ==
  /\ latest = t
  /\ Goto(t, "quiet", "persist")
  /\ UNCHANGED <<loadVars, settings, shown, file, newest, draft, latest, queue, changes, faults, saved>>

\* Mutant: hanging up drops the timer and saves nothing itself.
HangUpInSilence(t) ==
  /\ pc[t] = "idle"
  /\ latest' = None
  /\ UNCHANGED <<loadVars, settings, shown, file, newest, pc, draft, queue, changes, faults, saved>>

\* ChatCommand::Disconnect takes the timer's work over.
HangUp(t) ==
  /\ Goto(t, "idle", "persist")
  /\ latest' = None
  /\ UNCHANGED <<loadVars, settings, shown, file, newest, draft, queue, changes, faults, saved>>

-----------------------------------------------------------------------------
(* persist: the guard, the state as it is then, the file *)

JoinQueue(t) ==
  /\ Goto(t, "persist", "queued")
  /\ queue' = Append(queue, t)
  /\ UNCHANGED <<loadVars, settings, shown, file, newest, draft, latest, changes, faults, saved>>

ReadSettings(t) ==
  /\ Goto(t, "queued", "write")
  /\ Holds(t)
  /\ draft' = [draft EXCEPT ![t] = settings]
  /\ UNCHANGED <<loadVars, settings, shown, file, newest, latest, queue, changes, faults, saved>>

\* Mutant: the file itself is opened and written.
WriteInPlace(t) ==
  /\ Goto(t, "write", "replace")
  /\ file' = Torn
  /\ UNCHANGED <<loadVars, settings, shown, newest, draft, latest, queue, changes, faults, saved>>

\* The document goes to a temporary file beside the destination ...
WriteTemporary(t) ==
  /\ Goto(t, "write", "replace")
  /\ UNCHANGED <<loadVars, settings, shown, file, newest, draft, latest, queue, changes, faults, saved>>

\* ... which then replaces it.
Replace(t) ==
  /\ pc[t] = "replace"
  /\ file' = draft[t]
  /\ saved' = TRUE
  /\ Finish(t)
  /\ UNCHANGED <<loadVars, settings, shown, newest, changes, faults>>

\* Logged, and over: nobody tries again.
SaveFails(t) ==
  /\ pc[t] \in {"write", "replace"}
  /\ Fault
  /\ saved' = FALSE
  /\ Finish(t)
  /\ UNCHANGED <<loadVars, settings, shown, file, newest, changes>>

-----------------------------------------------------------------------------

\* What runs without anybody asking.
Work(t) ==
  \/ SetChat(t) \/ MarkRead(t) \/ ArmTimer(t) \/ TimerOvertaken(t) \/ TimerFires(t)
  \/ JoinQueue(t) \/ ReadSettings(t) \/ WriteTemporary(t) \/ Replace(t)

Next ==
  \/ LoadReads \/ LoadFails \/ LoadSaves \/ LoadSaveFails \/ LoadEnds
  \/ Crash \/ MessageArrives \/ Mirror
  \/ \E t \in Task : \/ SetTheme(t) \/ SendChat(t) \/ SelectChannel(t) \/ HangUp(t)
                     \/ Work(t) \/ SaveFails(t)

Spec == Init /\ [][Next]_vars

\* Tasks are run, timers fire and disk operations end.
FairSpec == Spec /\ \A t \in Task : WF_vars(Work(t))

-----------------------------------------------------------------------------

TypeOK ==
  /\ up \in {"reading", "importing", "inspecting", "ready"}
  /\ copy \in SettingsState
  /\ settings \in SettingsState
  /\ shown \in 0..MaxMessages
  /\ file \in SettingsState
  /\ newest \in 0..MaxMessages
  /\ pc \in [Task -> {"idle", "setChat", "select", "arm", "quiet", "persist", "queued",
                      "write", "replace"}]
  /\ draft \in [Task -> SettingsState]
  /\ latest \in Task \cup {None}
  /\ queue \in Seq(Task)
  /\ changes \in 0..MaxChanges
  /\ faults \in 0..MaxFaults
  /\ saved \in BOOLEAN

Quiet == \A t \in Task : pc[t] = "idle"

\* Once the load, every command and every timer have run, the file holds what
\* the state holds, whatever timers were overtaken or dropped on the way, if the
\* disk took it and the last to be saved were settings that had been loaded.
FileCatchesUp == up = "ready" /\ Quiet /\ saved /\ file.loaded => file = settings

\* Among settings that were loaded, concurrent saves and the load's own never
\* put an older state over a newer one, nor half of one over a whole one,
\* whenever the client dies.
FileNeverGoesBack ==
  [][file' \in SettingsState /\ (file.loaded /\ file'.loaded => file'.stamp >= file.stamp)]_vars

\* A change made once the settings are loaded reaches the disk, unless the client
\* dies, a save fails, or a command that ran during the load saves the defaults.
ChangesReachDisk ==
  \A n \in 1..MaxChanges :
    (up = "ready" /\ settings.stamp = n)
      ~> (file.stamp >= n \/ up # "ready" \/ ~saved \/ ~file.loaded)

-----------------------------------------------------------------------------
(* Refuted *)

\* "Persisted settings must be authoritative before the backend is announced as
\* ready" (lib.rs): the webview hangs chat up as soon as it shows the login
\* screen (App.tsx:154-158), and the hang-up saves the defaults over the file
\* while the Load still reads it or measures the cache (chat.rs:204).
OnlyLoadedIsSaved == file.loaded

\* "Explicit user choices always win" (settings.rs:49): what is chosen during the
\* Load is overwritten by what the Load has read.
EarlyChoiceWins == [][LoadEnds => settings'.theme >= settings.theme]_vars

\* Refuted: what was read stays read. The UI's copy of the group carries the
\* markers along, and two commands that copy the group put back what they copied.
ReadStaysRead == [][up = "ready" /\ up' = "ready" => settings'.marker >= settings.marker]_vars
=============================================================================
