----------------------------- MODULE GameFiles ------------------------------
(***************************************************************************)
(* The game updater: the live install and the replay install, the content- *)
(* addressed store both are served from, the manifest that says which      *)
(* releases the store holds, and the preparations, cleanings and crashes   *)
(* that change them.                                                       *)
(*                                                                         *)
(* A file's content is named by the release that brought it; two contents  *)
(* of a file differ in length. Staging hard-links a file of the replay     *)
(* install to its store entry, so that writing either is writing both.     *)
(* One numbered featured mod; overlays, rolling branches and the           *)
(* executable, which is copied and stamped, are left out.                  *)
(***************************************************************************)
EXTENDS Naturals

CONSTANTS Task,        \* game and replay preparations that run at once
          File,        \* files of the featured mod
          NoFile,
          Changed,     \* those of them that every release changes
          MaxVersion,  \* bound: releases published
          MaxFaults    \* bound: crashes and failed writes

ASSUME FileAssumption == Changed \subseteq File /\ NoFile \notin File
ASSUME BoundAssumption == MaxVersion \in Nat \ {0} /\ MaxFaults \in Nat

VARIABLES
  latest,         \* the server's current release
  known,          \* FILE_LIST_CACHE: the release `latest` meant when it was asked
  store,          \* per file and content: what game_files holds under its MD5
  dir,            \* per install and file: what is on disk
  link,           \* per file: the store entry the replay install's file is linked to
  manifest,       \* per release: the files cache_manifest.json lists for it
  pc, job, goal,  \* per task: where it is, its command, its release (0: latest)
  left, file,     \* per task: the files to go, and the one in hand
  carried,        \* per task: the bytes it is about to write
  alone,          \* history: no other preparation ran beside this one
  faults

diskVars == <<store, dir, link, manifest>>
taskVars == <<pc, job, goal, left, file, carried, alone>>
vars == <<latest, known, diskVars, taskVars, faults>>

Version == 1..MaxVersion
Absent == 0
Torn == MaxVersion + 1
Content == Version \cup {Absent, Torn}

\* A release's list: the content of each of its files.
Listed(v, f) == IF f \in Changed THEN v ELSE 1

Init ==
  /\ latest = 1
  /\ known = 0
  /\ store = [f \in File |-> [c \in Version |-> Absent]]
  /\ dir = [d \in {"live", "replay"} |-> [f \in File |-> Absent]]
  /\ link = [f \in File |-> 0]
  /\ manifest = [v \in Version |-> {}]
  /\ pc = [t \in Task |-> "idle"]
  /\ job = [t \in Task |-> "none"]
  /\ goal = [t \in Task |-> 0]
  /\ left = [t \in Task |-> {}]
  /\ file = [t \in Task |-> NoFile]
  /\ carried = [t \in Task |-> Absent]
  /\ alone = [t \in Task |-> TRUE]
  /\ faults = 0

-----------------------------------------------------------------------------
(* Writing: a linked file of the replay install and its entry are one *)

PutStore(f, c, x) ==
  /\ store' = [store EXCEPT ![f][c] = x]
  /\ dir' = IF link[f] = c THEN [dir EXCEPT !["replay"][f] = x] ELSE dir

PutDir(d, f, x) ==
  /\ dir' = [dir EXCEPT ![d][f] = x]
  /\ store' = IF d = "replay" /\ link[f] # 0 THEN [store EXCEPT ![f][link[f]] = x] ELSE store

\* An entry that is removed lives on where it is linked.
Remove(S) ==
  /\ store' = [f \in File |-> [c \in Version |-> IF <<f, c>> \in S THEN Absent ELSE store[f][c]]]
  /\ link' = [f \in File |-> IF <<f, link[f]>> \in S THEN 0 ELSE link[f]]

\* Fails with the write half done, or with nothing but an error.
Fault == faults < MaxFaults /\ faults' = faults + 1

Target(t) == IF job[t] = "play" THEN "live" ELSE "replay"
Wanted(t, f) == Listed(goal[t], f)

Goto(t, from, to) ==
  /\ pc[t] = from
  /\ pc' = [pc EXCEPT ![t] = to]

Finish(t) ==
  /\ pc' = [pc EXCEPT ![t] = "idle"]
  /\ job' = [job EXCEPT ![t] = "none"]
  /\ goal' = [goal EXCEPT ![t] = 0]
  /\ left' = [left EXCEPT ![t] = {}]
  /\ file' = [file EXCEPT ![t] = NoFile]
  /\ carried' = [carried EXCEPT ![t] = Absent]
  /\ alone' = [alone EXCEPT ![t] = TRUE]

-----------------------------------------------------------------------------
(* Preparations *)

Running == {t \in Task : pc[t] # "idle"}

\* A live game and a spectated one want the latest release, a recording the
\* one it names; one replay at a time is prepared.
Start(t, k, v) ==
  /\ pc[t] = "idle"
  /\ k # "play" => \A u \in Running : job[u] = "play"
  /\ pc' = [pc EXCEPT ![t] = IF k = "open" THEN "lookup" ELSE "asking"]
  /\ job' = [job EXCEPT ![t] = k]
  /\ goal' = [goal EXCEPT ![t] = v]
  /\ alone' = [u \in Task |-> IF u \in Running \cup {t} THEN Running = {} ELSE alone[u]]
  /\ UNCHANGED <<latest, known, diskVars, left, file, carried, faults>>

\* A release the manifest has is staged from the store, without asking anybody.
Lookup(t) ==
  /\ Goto(t, "lookup", IF manifest[goal[t]] = {} THEN "asking" ELSE "staging")
  /\ left' = [left EXCEPT ![t] = manifest[goal[t]]]
  /\ UNCHANGED <<latest, known, diskVars, job, goal, file, carried, alone, faults>>

\* A file of the right length stays; any other is replaced by a link.
LinkOrCopy(t, f) ==
  LET c == Wanted(t, f) IN
  IF dir["replay"][f] = store[f][c] THEN UNCHANGED <<dir, link>>
  ELSE /\ dir' = [dir EXCEPT !["replay"][f] = store[f][c]]
       /\ link' = [link EXCEPT ![f] = c]

StageFile(t, f) ==
  /\ pc[t] = "staging"
  /\ f \in left[t]
  /\ store[f][Wanted(t, f)] # Absent
  /\ LinkOrCopy(t, f)
  /\ left' = [left EXCEPT ![t] = @ \ {f}]
  /\ UNCHANGED <<latest, known, store, manifest, pc, job, goal, file, carried, alone, faults>>

\* A snapshot with an entry missing is given up for the server.
StagingFails(t, f) ==
  /\ f \in left[t]
  /\ store[f][Wanted(t, f)] = Absent
  /\ Goto(t, "staging", "asking")
  /\ UNCHANGED <<latest, known, diskVars, job, goal, left, file, carried, alone, faults>>

Staged(t) ==
  /\ left[t] = {}
  /\ Goto(t, "staging", "staged")
  /\ UNCHANGED <<latest, known, diskVars, job, goal, left, file, carried, alone, faults>>

\* The list of the latest release is remembered for ten minutes.
FetchFileList(t) ==
  LET v == IF known # 0 THEN known ELSE latest IN
  /\ Goto(t, "asking", "checking")
  /\ IF goal[t] # 0 THEN UNCHANGED <<goal, known>>
     ELSE goal' = [goal EXCEPT ![t] = v] /\ known' = v
  /\ UNCHANGED <<latest, diskVars, job, left, file, carried, alone, faults>>

ChecksumPass(t) ==
  /\ Goto(t, "checking", "updating")
  /\ left' = [left EXCEPT ![t] = {f \in File : dir[Target(t)][f] # Wanted(t, f)}]
  /\ UNCHANGED <<latest, known, diskVars, job, goal, file, carried, alone, faults>>

-----------------------------------------------------------------------------
(* update_file *)

\* Mutant: an entry that is there is taken for what its name says.
ServeUnverified(t, f) ==
  /\ pc[t] = "updating"
  /\ f \in left[t]
  /\ file' = [file EXCEPT ![t] = f]
  /\ pc' = [pc EXCEPT ![t] = IF store[f][Wanted(t, f)] # Absent THEN "copy" ELSE "download"]
  /\ UNCHANGED <<latest, known, diskVars, job, goal, left, carried, alone, faults>>

\* An entry with the wrong bytes is thrown away and fetched again.
Serve(t, f) ==
  LET good == store[f][Wanted(t, f)] = Wanted(t, f) IN
  /\ pc[t] = "updating"
  /\ f \in left[t]
  /\ file' = [file EXCEPT ![t] = f]
  /\ pc' = [pc EXCEPT ![t] = IF good THEN "copy" ELSE "download"]
  /\ Remove(IF good THEN {} ELSE {<<f, Wanted(t, f)>>})
  /\ UNCHANGED <<latest, known, dir, manifest, job, goal, left, carried, alone, faults>>

\* The copy reads the entry again; opening the file to write empties it.
CopyOpens(t) ==
  LET x == store[file[t]][Wanted(t, file[t])] IN
  /\ Goto(t, "copy", "writing")
  /\ x # Absent
  /\ PutDir(Target(t), file[t], Torn)
  /\ carried' = [carried EXCEPT ![t] = x]
  /\ UNCHANGED <<latest, known, link, manifest, job, goal, left, file, alone, faults>>

\* Unreachable, refused, or not the bytes the list promises; or the entry that
\* was to be copied is gone.
FetchFails(t) ==
  /\ \/ pc[t] = "download"
     \/ pc[t] = "copy" /\ store[file[t]][Wanted(t, file[t])] = Absent
  /\ Finish(t)
  /\ UNCHANGED <<latest, known, diskVars, faults>>

\* What was fetched has the right checksum, and the store gets it first.
Downloaded(t) ==
  /\ Goto(t, "download", "caching")
  /\ PutStore(file[t], Wanted(t, file[t]), Torn)
  /\ UNCHANGED <<latest, known, link, manifest, job, goal, left, file, carried, alone, faults>>

Cached(t) ==
  /\ Goto(t, "caching", "deliver")
  /\ PutStore(file[t], Wanted(t, file[t]), Wanted(t, file[t]))
  /\ carried' = [carried EXCEPT ![t] = Wanted(t, file[t])]
  /\ UNCHANGED <<latest, known, link, manifest, job, goal, left, file, alone, faults>>

DeliveryOpens(t) ==
  /\ Goto(t, "deliver", "writing")
  /\ PutDir(Target(t), file[t], Torn)
  /\ UNCHANGED <<latest, known, link, manifest, job, goal, left, file, carried, alone, faults>>

Written(t) ==
  /\ Goto(t, "writing", "updating")
  /\ PutDir(Target(t), file[t], carried[t])
  /\ left' = [left EXCEPT ![t] = @ \ {file[t]}]
  /\ file' = [file EXCEPT ![t] = NoFile]
  /\ carried' = [carried EXCEPT ![t] = Absent]
  /\ UNCHANGED <<latest, known, link, manifest, job, goal, alone, faults>>

\* A full disk: the half-written file stays.
WriteFails(t) ==
  /\ pc[t] \in {"caching", "writing"}
  /\ Fault
  /\ Finish(t)
  /\ UNCHANGED <<latest, known, diskVars>>

\* save_cache_manifest_entry: the release is in the store now.
Record(t) ==
  /\ left[t] = {}
  /\ Goto(t, "updating", "installed")
  /\ manifest' = [manifest EXCEPT ![goal[t]] = File]
  /\ UNCHANGED <<latest, known, store, dir, link, job, goal, left, file, carried, alone, faults>>

Return(t) ==
  /\ pc[t] \in {"installed", "staged"}
  /\ Finish(t)
  /\ UNCHANGED <<latest, known, diskVars, faults>>

Prepare(t) ==
  \/ Lookup(t) \/ Staged(t) \/ FetchFileList(t) \/ ChecksumPass(t) \/ CopyOpens(t)
  \/ FetchFails(t) \/ Downloaded(t) \/ Cached(t) \/ DeliveryOpens(t) \/ Written(t)
  \/ Record(t) \/ Return(t)
  \/ \E f \in File : StageFile(t, f) \/ StagingFails(t, f) \/ Serve(t, f)

-----------------------------------------------------------------------------
(* The store is looked after, and the client dies *)

Entries == {e \in File \X Version : store[e[1]][e[2]] # Absent}

\* Entries that have not been written for long go, and the manifest forgets
\* the files it has lost.
CleanExpired(S) ==
  /\ S # {}
  /\ S \subseteq Entries
  /\ Remove(S)
  /\ manifest' = [v \in Version |-> {f \in manifest[v] : store'[f][Listed(v, f)] # Absent}]
  /\ UNCHANGED <<latest, known, dir, taskVars, faults>>

\* Everything goes that can be removed.
ClearCache(S) ==
  /\ S \subseteq Entries
  /\ \/ S = Entries /\ manifest' = [v \in Version |-> {}] /\ UNCHANGED faults
     \/ S # Entries /\ manifest' \in {manifest, [v \in Version |-> {}]} /\ Fault
  /\ known' = 0
  /\ Remove(S)
  /\ UNCHANGED <<latest, dir, taskVars>>

\* Half-written files stay, and half a manifest reads as none.
Crash ==
  /\ Fault
  /\ known' = 0
  /\ manifest' \in {manifest} \cup (IF \E t \in Task : pc[t] = "updating" /\ left[t] = {}
                                    THEN {[v \in Version |-> {}]} ELSE {})
  /\ pc' = [t \in Task |-> "idle"]
  /\ job' = [t \in Task |-> "none"]
  /\ goal' = [t \in Task |-> 0]
  /\ left' = [t \in Task |-> {}]
  /\ file' = [t \in Task |-> NoFile]
  /\ carried' = [t \in Task |-> Absent]
  /\ alone' = [t \in Task |-> TRUE]
  /\ UNCHANGED <<latest, store, dir, link>>

Expire ==
  /\ known # 0
  /\ known' = 0
  /\ UNCHANGED <<latest, diskVars, taskVars, faults>>

Publish ==
  /\ latest < MaxVersion
  /\ latest' = latest + 1
  /\ UNCHANGED <<known, diskVars, taskVars, faults>>

-----------------------------------------------------------------------------

Next ==
  \/ \E t \in Task : \/ Start(t, "play", 0) \/ Start(t, "watch", 0)
                     \/ \E v \in 1..latest : Start(t, "open", v)
                     \/ Prepare(t) \/ WriteFails(t)
  \/ \E S \in SUBSET Entries : CleanExpired(S) \/ ClearCache(S)
  \/ Crash \/ Expire \/ Publish

Spec == Init /\ [][Next]_vars

-----------------------------------------------------------------------------

TypeOK ==
  /\ latest \in Version
  /\ known \in Version \cup {0}
  /\ store \in [File -> [Version -> Content]]
  /\ dir \in [{"live", "replay"} -> [File -> Content]]
  /\ link \in [File -> Version \cup {0}]
  /\ manifest \in [Version -> SUBSET File]
  /\ pc \in [Task -> {"idle", "lookup", "staging", "staged", "asking", "checking", "updating",
                      "copy", "download", "caching", "deliver", "writing", "installed"}]
  /\ job \in [Task -> {"none", "play", "watch", "open"}]
  /\ goal \in [Task -> Version \cup {0}]
  /\ left \in [Task -> SUBSET File]
  /\ file \in [Task -> File \cup {NoFile}]
  /\ carried \in [Task -> Content]
  /\ alone \in [Task -> BOOLEAN]
  /\ faults \in 0..MaxFaults

Exact(t) == \A f \in File : dir[Target(t)][f] = Wanted(t, f)

\* An install that ran without another beside it ends with the files of its
\* release, whatever crashed, was torn, linked, expired or cleared before it or
\* meanwhile: "a killed prior write or external cache edit must not be promoted
\* into the live game" (game_updater.rs, update_file).
InstallIsExact == \A t \in Task : pc[t] = "installed" /\ alone[t] => Exact(t)

\* Refuted: "every replay's embedded version is exact and required"
\* (replay.rs, play_file). Staging believes names and lengths, installing
\* another release over a staged one writes through its links into the store.
ReplayIsExact == \A t \in Task : pc[t] = "staged" /\ alone[t] => Exact(t)

\* Refuted: a live install stays exact beside a replay's. The store entry is
\* verified and then read again.
LiveIsExact == \A t \in Task : pc[t] = "installed" /\ job[t] = "play" => Exact(t)
=============================================================================
