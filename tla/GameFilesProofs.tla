--------------------------- MODULE GameFilesProofs --------------------------
(***************************************************************************)
(* Proofs about GameFiles: for any number of preparations, files, releases *)
(* and faults, an install that ran without another beside it ends with     *)
(* exactly the files of its release.                                       *)
(***************************************************************************)
EXTENDS GameFiles, TLAPS

-----------------------------------------------------------------------------
(* The inductive invariant *)

InHand == {"copy", "download", "caching", "deliver", "writing"}
Checked == InHand \cup {"updating", "installed"}

\* A file in hand is one of those to go, of a release that has a number.
Holding ==
  \A t \in Task : /\ pc[t] \in InHand => file[t] \in left[t]
                  /\ pc[t] \in Checked \cup {"lookup", "staging", "checking"} => goal[t] \in Version
                  /\ pc[t] = "installed" => left[t] = {}

\* A preparation that is alone is the only one.
Single ==
  \A t, u \in Task : alone[t] /\ pc[t] # "idle" /\ pc[u] # "idle" => u = t

\* The files that are not to go any more are as they should be.
SoFar ==
  \A t \in Task : alone[t] /\ pc[t] \in Checked =>
    \A f \in File : f \notin left[t] => dir[Target(t)][f] = Wanted(t, f)

\* An entry found good stays so until it is read, or goes.
GoodEntry ==
  \A t \in Task : alone[t] /\ pc[t] = "copy" =>
    store[file[t]][Wanted(t, file[t])] \in {Wanted(t, file[t]), Absent}

\* What is about to be written is what should be there.
GoodBytes ==
  \A t \in Task : alone[t] /\ pc[t] \in {"deliver", "writing"} =>
    carried[t] = Wanted(t, file[t])

IInv == TypeOK /\ Holding /\ Single /\ SoFar /\ GoodEntry /\ GoodBytes

-----------------------------------------------------------------------------
(* What the writing operators do *)

\* A release's list names a release.
LEMMA ListedIsVersion == ASSUME NEW v \in Version, NEW f \in File PROVE Listed(v, f) \in Version
  BY BoundAssumption DEF Listed, Version

LEMMA VersionIsContent == /\ Version \subseteq Content
                          /\ Absent \in Content /\ Torn \in Content
                          /\ Absent \notin Version
                          /\ 1 \in Version
  BY BoundAssumption DEF Version, Content, Absent, Torn

-----------------------------------------------------------------------------
(* Init *)

LEMMA InitInv == Init => IInv
<1> SUFFICES ASSUME Init PROVE IInv
  OBVIOUS
<1> USE BoundAssumption, VersionIsContent DEF Init
<1>1. TypeOK
  BY FileAssumption DEF TypeOK, Absent, Content, Version
<1>2. Holding /\ Single /\ SoFar /\ GoodEntry /\ GoodBytes
  BY DEF Holding, Single, SoFar, GoodEntry, GoodBytes, InHand, Checked
<1>3. QED
  BY <1>1, <1>2 DEF IInv

LEMMA StartInv ==
  ASSUME IInv, NEW t \in Task, NEW k \in {"play", "watch", "open"}, NEW v \in Version \cup {0},
         k = "open" => v # 0, Start(t, k, v)
  PROVE  IInv'
<1> USE VersionIsContent, BoundAssumption, FileAssumption
<1>0. TypeOK /\ Holding /\ Single /\ SoFar /\ GoodEntry /\ GoodBytes
  BY DEF IInv
<1>1. TypeOK'
  BY <1>0, ListedIsVersion DEF TypeOK, Holding, InHand, Checked, Start, Running, diskVars
<1>2. Holding'
  BY <1>0 DEF TypeOK, Holding, InHand, Checked, Start, Running, diskVars
<1>3. Single'
  BY <1>0 DEF TypeOK, Single, Start, Running, diskVars
<1>4. SoFar'
  BY <1>0, ListedIsVersion DEF TypeOK, Holding, Single, SoFar, GoodBytes, InHand, Checked, Target, Wanted, Listed, Start, Running, diskVars
<1>5. GoodEntry'
  BY <1>0, ListedIsVersion DEF TypeOK, Holding, Single, GoodEntry, InHand, Checked, Target, Wanted, Listed, Start, Running, diskVars
<1>6. GoodBytes'
  BY <1>0, ListedIsVersion DEF TypeOK, Holding, Single, GoodEntry, GoodBytes, InHand, Checked, Wanted, Listed, Start, Running, diskVars
<1>7. QED
  BY <1>1, <1>2, <1>3, <1>4, <1>5, <1>6 DEF IInv

LEMMA LookupInv ==
  ASSUME IInv, NEW t \in Task, Lookup(t)
  PROVE  IInv'
<1> USE VersionIsContent, BoundAssumption, FileAssumption
<1>0. TypeOK /\ Holding /\ Single /\ SoFar /\ GoodEntry /\ GoodBytes
  BY DEF IInv
<1>1. TypeOK'
  BY <1>0, ListedIsVersion DEF TypeOK, Holding, InHand, Checked, Lookup, Goto, diskVars
<1>2. Holding'
  BY <1>0 DEF TypeOK, Holding, InHand, Checked, Lookup, Goto, diskVars
<1>3. Single'
  BY <1>0 DEF TypeOK, Single, Lookup, Goto, diskVars
<1>4. SoFar'
  BY <1>0, ListedIsVersion DEF TypeOK, Holding, Single, SoFar, GoodBytes, InHand, Checked, Target, Wanted, Listed, Lookup, Goto, diskVars
<1>5. GoodEntry'
  BY <1>0, ListedIsVersion DEF TypeOK, Holding, Single, GoodEntry, InHand, Checked, Target, Wanted, Listed, Lookup, Goto, diskVars
<1>6. GoodBytes'
  BY <1>0, ListedIsVersion DEF TypeOK, Holding, Single, GoodEntry, GoodBytes, InHand, Checked, Wanted, Listed, Lookup, Goto, diskVars
<1>7. QED
  BY <1>1, <1>2, <1>3, <1>4, <1>5, <1>6 DEF IInv

LEMMA StageFileInv ==
  ASSUME IInv, NEW t \in Task, NEW f \in File, StageFile(t, f)
  PROVE  IInv'
<1> USE VersionIsContent, BoundAssumption, FileAssumption
<1>0. TypeOK /\ Holding /\ Single /\ SoFar /\ GoodEntry /\ GoodBytes
  BY DEF IInv
<1>1. TypeOK'
  <2>1. Wanted(t, f) \in Version
    BY <1>0, ListedIsVersion DEF Holding, StageFile, Wanted
  <2>2. store[f][Wanted(t, f)] \in Content
    BY <1>0, <2>1 DEF TypeOK
  <2>3. dir' \in [{"live", "replay"} -> [File -> Content]] /\ link' \in [File -> Version \cup {0}]
    <3> DEFINE c == Wanted(t, f)
               x == store[f][c]
    <3>1. \/ dir' = dir /\ link' = link
          \/ dir' = [dir EXCEPT !["replay"][f] = x] /\ link' = [link EXCEPT ![f] = c]
      BY DEF StageFile, LinkOrCopy
    <3>2. c \in Version /\ x \in Content
      BY <2>1, <2>2
    <3>3. dir \in [{"live", "replay"} -> [File -> Content]] /\ link \in [File -> Version \cup {0}]
      BY <1>0 DEF TypeOK
    <3> HIDE DEF c, x
    <3>4. [dir["replay"] EXCEPT ![f] = x] \in [File -> Content]
      BY <3>2, <3>3
    <3>5. [dir EXCEPT !["replay"][f] = x] \in [{"live", "replay"} -> [File -> Content]]
      BY <3>3, <3>4
    <3>6. [link EXCEPT ![f] = c] \in [File -> Version \cup {0}]
      BY <3>2, <3>3
    <3>7. QED
      BY <3>1, <3>3, <3>5, <3>6
  <2>4. left' \in [Task -> SUBSET File]
    BY <1>0 DEF TypeOK, StageFile
  <2>5. QED
    BY <1>0, <2>3, <2>4 DEF TypeOK, StageFile
<1>2. Holding'
  BY <1>0 DEF TypeOK, Holding, InHand, Checked, StageFile, LinkOrCopy, Wanted, Listed
<1>3. Single'
  BY <1>0 DEF TypeOK, Single, StageFile, LinkOrCopy, Wanted, Listed
<1>4. SoFar'
  BY <1>0, ListedIsVersion DEF TypeOK, Holding, Single, SoFar, GoodBytes, InHand, Checked, Target, Wanted, Listed, StageFile, LinkOrCopy, Wanted, Listed
<1>5. GoodEntry'
  BY <1>0, ListedIsVersion DEF TypeOK, Holding, Single, GoodEntry, InHand, Checked, Target, Wanted, Listed, StageFile, LinkOrCopy, Wanted, Listed
<1>6. GoodBytes'
  BY <1>0, ListedIsVersion DEF TypeOK, Holding, Single, GoodEntry, GoodBytes, InHand, Checked, Wanted, Listed, StageFile, LinkOrCopy, Wanted, Listed
<1>7. QED
  BY <1>1, <1>2, <1>3, <1>4, <1>5, <1>6 DEF IInv

LEMMA StagingFailsInv ==
  ASSUME IInv, NEW t \in Task, NEW f \in File, StagingFails(t, f)
  PROVE  IInv'
<1> USE VersionIsContent, BoundAssumption, FileAssumption
<1>0. TypeOK /\ Holding /\ Single /\ SoFar /\ GoodEntry /\ GoodBytes
  BY DEF IInv
<1>1. TypeOK'
  BY <1>0, ListedIsVersion DEF TypeOK, Holding, InHand, Checked, StagingFails, Goto, diskVars
<1>2. Holding'
  BY <1>0 DEF TypeOK, Holding, InHand, Checked, StagingFails, Goto, diskVars
<1>3. Single'
  BY <1>0 DEF TypeOK, Single, StagingFails, Goto, diskVars
<1>4. SoFar'
  BY <1>0, ListedIsVersion DEF TypeOK, Holding, Single, SoFar, GoodBytes, InHand, Checked, Target, Wanted, Listed, StagingFails, Goto, diskVars
<1>5. GoodEntry'
  BY <1>0, ListedIsVersion DEF TypeOK, Holding, Single, GoodEntry, InHand, Checked, Target, Wanted, Listed, StagingFails, Goto, diskVars
<1>6. GoodBytes'
  BY <1>0, ListedIsVersion DEF TypeOK, Holding, Single, GoodEntry, GoodBytes, InHand, Checked, Wanted, Listed, StagingFails, Goto, diskVars
<1>7. QED
  BY <1>1, <1>2, <1>3, <1>4, <1>5, <1>6 DEF IInv

LEMMA StagedInv ==
  ASSUME IInv, NEW t \in Task, Staged(t)
  PROVE  IInv'
<1> USE VersionIsContent, BoundAssumption, FileAssumption
<1>0. TypeOK /\ Holding /\ Single /\ SoFar /\ GoodEntry /\ GoodBytes
  BY DEF IInv
<1>1. TypeOK'
  BY <1>0, ListedIsVersion DEF TypeOK, Holding, InHand, Checked, Staged, Goto, diskVars
<1>2. Holding'
  BY <1>0 DEF TypeOK, Holding, InHand, Checked, Staged, Goto, diskVars
<1>3. Single'
  BY <1>0 DEF TypeOK, Single, Staged, Goto, diskVars
<1>4. SoFar'
  BY <1>0, ListedIsVersion DEF TypeOK, Holding, Single, SoFar, GoodBytes, InHand, Checked, Target, Wanted, Listed, Staged, Goto, diskVars
<1>5. GoodEntry'
  BY <1>0, ListedIsVersion DEF TypeOK, Holding, Single, GoodEntry, InHand, Checked, Target, Wanted, Listed, Staged, Goto, diskVars
<1>6. GoodBytes'
  BY <1>0, ListedIsVersion DEF TypeOK, Holding, Single, GoodEntry, GoodBytes, InHand, Checked, Wanted, Listed, Staged, Goto, diskVars
<1>7. QED
  BY <1>1, <1>2, <1>3, <1>4, <1>5, <1>6 DEF IInv

LEMMA FetchFileListInv ==
  ASSUME IInv, NEW t \in Task, FetchFileList(t)
  PROVE  IInv'
<1> USE VersionIsContent, BoundAssumption, FileAssumption
<1>0. TypeOK /\ Holding /\ Single /\ SoFar /\ GoodEntry /\ GoodBytes
  BY DEF IInv
<1>1. TypeOK'
  BY <1>0, ListedIsVersion DEF TypeOK, Holding, InHand, Checked, FetchFileList, Goto, diskVars
<1>2. Holding'
  BY <1>0 DEF TypeOK, Holding, InHand, Checked, FetchFileList, Goto, diskVars
<1>3. Single'
  BY <1>0 DEF TypeOK, Single, FetchFileList, Goto, diskVars
<1>4. SoFar'
  BY <1>0, ListedIsVersion DEF TypeOK, Holding, Single, SoFar, GoodBytes, InHand, Checked, Target, Wanted, Listed, FetchFileList, Goto, diskVars
<1>5. GoodEntry'
  BY <1>0, ListedIsVersion DEF TypeOK, Holding, Single, GoodEntry, InHand, Checked, Target, Wanted, Listed, FetchFileList, Goto, diskVars
<1>6. GoodBytes'
  BY <1>0, ListedIsVersion DEF TypeOK, Holding, Single, GoodEntry, GoodBytes, InHand, Checked, Wanted, Listed, FetchFileList, Goto, diskVars
<1>7. QED
  BY <1>1, <1>2, <1>3, <1>4, <1>5, <1>6 DEF IInv

LEMMA ChecksumPassInv ==
  ASSUME IInv, NEW t \in Task, ChecksumPass(t)
  PROVE  IInv'
<1> USE VersionIsContent, BoundAssumption, FileAssumption
<1>0. TypeOK /\ Holding /\ Single /\ SoFar /\ GoodEntry /\ GoodBytes
  BY DEF IInv
<1>1. TypeOK'
  BY <1>0, ListedIsVersion DEF TypeOK, Holding, InHand, Checked, ChecksumPass, Goto, diskVars
<1>2. Holding'
  BY <1>0 DEF TypeOK, Holding, InHand, Checked, ChecksumPass, Goto, diskVars
<1>3. Single'
  BY <1>0 DEF TypeOK, Single, ChecksumPass, Goto, diskVars
<1>4. SoFar'
  BY <1>0, ListedIsVersion DEF TypeOK, Holding, Single, SoFar, GoodBytes, InHand, Checked, Target, Wanted, Listed, ChecksumPass, Goto, diskVars
<1>5. GoodEntry'
  BY <1>0, ListedIsVersion DEF TypeOK, Holding, Single, GoodEntry, InHand, Checked, Target, Wanted, Listed, ChecksumPass, Goto, diskVars
<1>6. GoodBytes'
  BY <1>0, ListedIsVersion DEF TypeOK, Holding, Single, GoodEntry, GoodBytes, InHand, Checked, Wanted, Listed, ChecksumPass, Goto, diskVars
<1>7. QED
  BY <1>1, <1>2, <1>3, <1>4, <1>5, <1>6 DEF IInv

LEMMA ServeInv ==
  ASSUME IInv, NEW t \in Task, NEW f \in File, Serve(t, f)
  PROVE  IInv'
<1> USE VersionIsContent, BoundAssumption, FileAssumption
<1>0. TypeOK /\ Holding /\ Single /\ SoFar /\ GoodEntry /\ GoodBytes
  BY DEF IInv
<1>1. TypeOK'
  BY <1>0, ListedIsVersion DEF TypeOK, Holding, InHand, Checked, Serve, Remove
<1>2. Holding'
  BY <1>0 DEF TypeOK, Holding, InHand, Checked, Serve, Remove
<1>3. Single'
  BY <1>0 DEF TypeOK, Single, Serve, Remove
<1>4. SoFar'
  BY <1>0, ListedIsVersion DEF TypeOK, Holding, Single, SoFar, GoodBytes, InHand, Checked, Target, Wanted, Listed, Serve, Remove
<1>5. GoodEntry'
  BY <1>0, ListedIsVersion DEF TypeOK, Holding, Single, GoodEntry, InHand, Checked, Target, Wanted, Listed, Serve, Remove
<1>6. GoodBytes'
  BY <1>0, ListedIsVersion DEF TypeOK, Holding, Single, GoodEntry, GoodBytes, InHand, Checked, Wanted, Listed, Serve, Remove
<1>7. QED
  BY <1>1, <1>2, <1>3, <1>4, <1>5, <1>6 DEF IInv

LEMMA CopyOpensInv ==
  ASSUME IInv, NEW t \in Task, CopyOpens(t)
  PROVE  IInv'
<1> USE VersionIsContent, BoundAssumption, FileAssumption
<1>0. TypeOK /\ Holding /\ Single /\ SoFar /\ GoodEntry /\ GoodBytes
  BY DEF IInv
<1>a. file[t] \in File /\ goal[t] \in Version /\ Wanted(t, file[t]) \in Version
  BY <1>0, ListedIsVersion DEF TypeOK, Holding, InHand, Checked, Wanted, CopyOpens, Goto
<1>1. TypeOK'
  <2>1. store[file[t]][Wanted(t, file[t])] \in Content
    BY <1>0, <1>a DEF TypeOK
  <2>2. carried' \in [Task -> Content] /\ pc' = [pc EXCEPT ![t] = "writing"]
    BY <1>0, <2>1 DEF TypeOK, CopyOpens, Goto
  <2>3. dir' \in [{"live", "replay"} -> [File -> Content]] /\ store' \in [File -> [Version -> Content]]
    BY <1>0 DEF TypeOK, CopyOpens, PutDir
  <2>4. QED
    BY <1>0, <2>2, <2>3 DEF TypeOK, CopyOpens
<1>2. Holding'
  BY <1>0 DEF TypeOK, Holding, InHand, Checked, CopyOpens, Goto, PutDir
<1>3. Single'
  BY <1>0 DEF TypeOK, Single, CopyOpens, Goto, PutDir
<1>4. SoFar'
  BY <1>0, ListedIsVersion DEF TypeOK, Holding, Single, SoFar, GoodBytes, InHand, Checked, Target, Wanted, Listed, CopyOpens, Goto, PutDir
<1>5. GoodEntry'
  BY <1>0, ListedIsVersion DEF TypeOK, Holding, Single, GoodEntry, InHand, Checked, Target, Wanted, Listed, CopyOpens, Goto, PutDir
<1>6. GoodBytes'
  BY <1>0, ListedIsVersion DEF TypeOK, Holding, Single, GoodEntry, GoodBytes, InHand, Checked, Wanted, Listed, CopyOpens, Goto, PutDir
<1>7. QED
  BY <1>1, <1>2, <1>3, <1>4, <1>5, <1>6 DEF IInv

LEMMA FetchFailsInv ==
  ASSUME IInv, NEW t \in Task, FetchFails(t)
  PROVE  IInv'
<1> USE VersionIsContent, BoundAssumption, FileAssumption
<1>0. TypeOK /\ Holding /\ Single /\ SoFar /\ GoodEntry /\ GoodBytes
  BY DEF IInv
<1>1. TypeOK'
  BY <1>0, ListedIsVersion DEF TypeOK, Holding, InHand, Checked, FetchFails, Finish, diskVars
<1>2. Holding'
  BY <1>0 DEF TypeOK, Holding, InHand, Checked, FetchFails, Finish, diskVars
<1>3. Single'
  BY <1>0 DEF TypeOK, Single, FetchFails, Finish, diskVars
<1>4. SoFar'
  BY <1>0, ListedIsVersion DEF TypeOK, Holding, Single, SoFar, GoodBytes, InHand, Checked, Target, Wanted, Listed, FetchFails, Finish, diskVars
<1>5. GoodEntry'
  BY <1>0, ListedIsVersion DEF TypeOK, Holding, Single, GoodEntry, InHand, Checked, Target, Wanted, Listed, FetchFails, Finish, diskVars
<1>6. GoodBytes'
  BY <1>0, ListedIsVersion DEF TypeOK, Holding, Single, GoodEntry, GoodBytes, InHand, Checked, Wanted, Listed, FetchFails, Finish, diskVars
<1>7. QED
  BY <1>1, <1>2, <1>3, <1>4, <1>5, <1>6 DEF IInv

LEMMA DownloadedInv ==
  ASSUME IInv, NEW t \in Task, Downloaded(t)
  PROVE  IInv'
<1> USE VersionIsContent, BoundAssumption, FileAssumption
<1>0. TypeOK /\ Holding /\ Single /\ SoFar /\ GoodEntry /\ GoodBytes
  BY DEF IInv
<1>a. file[t] \in File /\ goal[t] \in Version /\ Wanted(t, file[t]) \in Version
  BY <1>0, ListedIsVersion DEF TypeOK, Holding, InHand, Checked, Wanted, Downloaded, Goto
<1>1. TypeOK'
  BY <1>0, ListedIsVersion DEF TypeOK, Holding, InHand, Checked, Downloaded, Goto, PutStore
<1>2. Holding'
  BY <1>0 DEF TypeOK, Holding, InHand, Checked, Downloaded, Goto, PutStore
<1>3. Single'
  BY <1>0 DEF TypeOK, Single, Downloaded, Goto, PutStore
<1>4. SoFar'
  <2> SUFFICES ASSUME NEW u \in Task, alone'[u], pc'[u] \in Checked,
                      NEW f \in File, f \notin left'[u]
               PROVE  (dir[Target(u)][f] = Wanted(u, f))'
    BY DEF SoFar
  <2>1. u = t /\ alone[t] /\ pc[t] \in InHand /\ left' = left /\ job' = job /\ goal' = goal
    BY <1>0 DEF TypeOK, Single, Downloaded, Goto, InHand, Checked
  <2>2. f # file[t] /\ dir[Target(t)][f] = Wanted(t, f)
    BY <1>0, <2>1 DEF Holding, SoFar, Checked
  <2>3. dir'[Target(t)][f] = dir[Target(t)][f]
    BY <1>0, <2>2 DEF TypeOK, Downloaded, PutStore, Target
  <2>4. QED
    BY <2>1, <2>2, <2>3 DEF Target, Wanted
<1>5. GoodEntry'
  BY <1>0, ListedIsVersion DEF TypeOK, Holding, Single, GoodEntry, InHand, Checked, Target, Wanted, Listed, Downloaded, Goto, PutStore
<1>6. GoodBytes'
  BY <1>0, ListedIsVersion DEF TypeOK, Holding, Single, GoodEntry, GoodBytes, InHand, Checked, Wanted, Listed, Downloaded, Goto, PutStore
<1>7. QED
  BY <1>1, <1>2, <1>3, <1>4, <1>5, <1>6 DEF IInv

LEMMA CachedInv ==
  ASSUME IInv, NEW t \in Task, Cached(t)
  PROVE  IInv'
<1> USE VersionIsContent, BoundAssumption, FileAssumption
<1>0. TypeOK /\ Holding /\ Single /\ SoFar /\ GoodEntry /\ GoodBytes
  BY DEF IInv
<1>a. file[t] \in File /\ goal[t] \in Version /\ Wanted(t, file[t]) \in Version
  BY <1>0, ListedIsVersion DEF TypeOK, Holding, InHand, Checked, Wanted, Cached, Goto
<1>1. TypeOK'
  BY <1>0, <1>a DEF TypeOK, Cached, Goto, PutStore
<1>2. Holding'
  BY <1>0 DEF TypeOK, Holding, InHand, Checked, Cached, Goto, PutStore
<1>3. Single'
  BY <1>0 DEF TypeOK, Single, Cached, Goto, PutStore
<1>4. SoFar'
  <2> SUFFICES ASSUME NEW u \in Task, alone'[u], pc'[u] \in Checked,
                      NEW f \in File, f \notin left'[u]
               PROVE  (dir[Target(u)][f] = Wanted(u, f))'
    BY DEF SoFar
  <2>1. u = t /\ alone[t] /\ pc[t] \in InHand /\ left' = left /\ job' = job /\ goal' = goal
    BY <1>0 DEF TypeOK, Single, Cached, Goto, InHand, Checked
  <2>2. f # file[t] /\ dir[Target(t)][f] = Wanted(t, f)
    BY <1>0, <2>1 DEF Holding, SoFar, Checked
  <2>3. dir'[Target(t)][f] = dir[Target(t)][f]
    BY <1>0, <2>2 DEF TypeOK, Cached, PutStore, Target
  <2>4. QED
    BY <2>1, <2>2, <2>3 DEF Target, Wanted
<1>5. GoodEntry'
  BY <1>0, ListedIsVersion DEF TypeOK, Holding, Single, GoodEntry, InHand, Checked, Target, Wanted, Listed, Cached, Goto, PutStore
<1>6. GoodBytes'
  BY <1>0, ListedIsVersion DEF TypeOK, Holding, Single, GoodEntry, GoodBytes, InHand, Checked, Wanted, Listed, Cached, Goto, PutStore
<1>7. QED
  BY <1>1, <1>2, <1>3, <1>4, <1>5, <1>6 DEF IInv

LEMMA DeliveryOpensInv ==
  ASSUME IInv, NEW t \in Task, DeliveryOpens(t)
  PROVE  IInv'
<1> USE VersionIsContent, BoundAssumption, FileAssumption
<1>0. TypeOK /\ Holding /\ Single /\ SoFar /\ GoodEntry /\ GoodBytes
  BY DEF IInv
<1>a. file[t] \in File /\ goal[t] \in Version /\ Wanted(t, file[t]) \in Version
  BY <1>0, ListedIsVersion DEF TypeOK, Holding, InHand, Checked, Wanted, DeliveryOpens, Goto
<1>1. TypeOK'
  BY <1>0, ListedIsVersion DEF TypeOK, Holding, InHand, Checked, DeliveryOpens, Goto, PutDir
<1>2. Holding'
  BY <1>0 DEF TypeOK, Holding, InHand, Checked, DeliveryOpens, Goto, PutDir
<1>3. Single'
  BY <1>0 DEF TypeOK, Single, DeliveryOpens, Goto, PutDir
<1>4. SoFar'
  BY <1>0, ListedIsVersion DEF TypeOK, Holding, Single, SoFar, GoodBytes, InHand, Checked, Target, Wanted, Listed, DeliveryOpens, Goto, PutDir
<1>5. GoodEntry'
  <2> SUFFICES ASSUME NEW u \in Task, alone'[u], pc'[u] = "copy" PROVE FALSE
    BY DEF GoodEntry
  <2> QED
    BY <1>0 DEF TypeOK, Single, DeliveryOpens, Goto
<1>6. GoodBytes'
  BY <1>0, ListedIsVersion DEF TypeOK, Holding, Single, GoodEntry, GoodBytes, InHand, Checked, Wanted, Listed, DeliveryOpens, Goto, PutDir
<1>7. QED
  BY <1>1, <1>2, <1>3, <1>4, <1>5, <1>6 DEF IInv

LEMMA WrittenInv ==
  ASSUME IInv, NEW t \in Task, Written(t)
  PROVE  IInv'
<1> USE VersionIsContent, BoundAssumption, FileAssumption
<1>0. TypeOK /\ Holding /\ Single /\ SoFar /\ GoodEntry /\ GoodBytes
  BY DEF IInv
<1>a. file[t] \in File /\ goal[t] \in Version /\ Wanted(t, file[t]) \in Version
  BY <1>0, ListedIsVersion DEF TypeOK, Holding, InHand, Checked, Wanted, Written, Goto
<1>1. TypeOK'
  BY <1>0, ListedIsVersion DEF TypeOK, Holding, InHand, Checked, Written, Goto, PutDir
<1>2. Holding'
  BY <1>0 DEF TypeOK, Holding, InHand, Checked, Written, Goto, PutDir
<1>3. Single'
  BY <1>0 DEF TypeOK, Single, Written, Goto, PutDir
<1>4. SoFar'
  BY <1>0, ListedIsVersion DEF TypeOK, Holding, Single, SoFar, GoodBytes, InHand, Checked, Target, Wanted, Listed, Written, Goto, PutDir
<1>5. GoodEntry'
  BY <1>0, ListedIsVersion DEF TypeOK, Holding, Single, GoodEntry, InHand, Checked, Target, Wanted, Listed, Written, Goto, PutDir
<1>6. GoodBytes'
  BY <1>0, ListedIsVersion DEF TypeOK, Holding, Single, GoodEntry, GoodBytes, InHand, Checked, Wanted, Listed, Written, Goto, PutDir
<1>7. QED
  BY <1>1, <1>2, <1>3, <1>4, <1>5, <1>6 DEF IInv

LEMMA WriteFailsInv ==
  ASSUME IInv, NEW t \in Task, WriteFails(t)
  PROVE  IInv'
<1> USE VersionIsContent, BoundAssumption, FileAssumption
<1>0. TypeOK /\ Holding /\ Single /\ SoFar /\ GoodEntry /\ GoodBytes
  BY DEF IInv
<1>1. TypeOK'
  BY <1>0, ListedIsVersion DEF TypeOK, Holding, InHand, Checked, WriteFails, Fault, Finish, diskVars
<1>2. Holding'
  BY <1>0 DEF TypeOK, Holding, InHand, Checked, WriteFails, Fault, Finish, diskVars
<1>3. Single'
  BY <1>0 DEF TypeOK, Single, WriteFails, Fault, Finish, diskVars
<1>4. SoFar'
  BY <1>0, ListedIsVersion DEF TypeOK, Holding, Single, SoFar, GoodBytes, InHand, Checked, Target, Wanted, Listed, WriteFails, Fault, Finish, diskVars
<1>5. GoodEntry'
  BY <1>0, ListedIsVersion DEF TypeOK, Holding, Single, GoodEntry, InHand, Checked, Target, Wanted, Listed, WriteFails, Fault, Finish, diskVars
<1>6. GoodBytes'
  BY <1>0, ListedIsVersion DEF TypeOK, Holding, Single, GoodEntry, GoodBytes, InHand, Checked, Wanted, Listed, WriteFails, Fault, Finish, diskVars
<1>7. QED
  BY <1>1, <1>2, <1>3, <1>4, <1>5, <1>6 DEF IInv

LEMMA RecordInv ==
  ASSUME IInv, NEW t \in Task, Record(t)
  PROVE  IInv'
<1> USE VersionIsContent, BoundAssumption, FileAssumption
<1>0. TypeOK /\ Holding /\ Single /\ SoFar /\ GoodEntry /\ GoodBytes
  BY DEF IInv
<1>1. TypeOK'
  BY <1>0, ListedIsVersion DEF TypeOK, Holding, InHand, Checked, Record, Goto
<1>2. Holding'
  BY <1>0 DEF TypeOK, Holding, InHand, Checked, Record, Goto
<1>3. Single'
  BY <1>0 DEF TypeOK, Single, Record, Goto
<1>4. SoFar'
  BY <1>0, ListedIsVersion DEF TypeOK, Holding, Single, SoFar, GoodBytes, InHand, Checked, Target, Wanted, Listed, Record, Goto
<1>5. GoodEntry'
  BY <1>0, ListedIsVersion DEF TypeOK, Holding, Single, GoodEntry, InHand, Checked, Target, Wanted, Listed, Record, Goto
<1>6. GoodBytes'
  BY <1>0, ListedIsVersion DEF TypeOK, Holding, Single, GoodEntry, GoodBytes, InHand, Checked, Wanted, Listed, Record, Goto
<1>7. QED
  BY <1>1, <1>2, <1>3, <1>4, <1>5, <1>6 DEF IInv

LEMMA ReturnInv ==
  ASSUME IInv, NEW t \in Task, Return(t)
  PROVE  IInv'
<1> USE VersionIsContent, BoundAssumption, FileAssumption
<1>0. TypeOK /\ Holding /\ Single /\ SoFar /\ GoodEntry /\ GoodBytes
  BY DEF IInv
<1>1. TypeOK'
  BY <1>0, ListedIsVersion DEF TypeOK, Holding, InHand, Checked, Return, Finish, diskVars
<1>2. Holding'
  BY <1>0 DEF TypeOK, Holding, InHand, Checked, Return, Finish, diskVars
<1>3. Single'
  BY <1>0 DEF TypeOK, Single, Return, Finish, diskVars
<1>4. SoFar'
  BY <1>0, ListedIsVersion DEF TypeOK, Holding, Single, SoFar, GoodBytes, InHand, Checked, Target, Wanted, Listed, Return, Finish, diskVars
<1>5. GoodEntry'
  BY <1>0, ListedIsVersion DEF TypeOK, Holding, Single, GoodEntry, InHand, Checked, Target, Wanted, Listed, Return, Finish, diskVars
<1>6. GoodBytes'
  BY <1>0, ListedIsVersion DEF TypeOK, Holding, Single, GoodEntry, GoodBytes, InHand, Checked, Wanted, Listed, Return, Finish, diskVars
<1>7. QED
  BY <1>1, <1>2, <1>3, <1>4, <1>5, <1>6 DEF IInv

LEMMA CleanExpiredInv ==
  ASSUME IInv, NEW S \in SUBSET Entries, CleanExpired(S)
  PROVE  IInv'
<1> USE VersionIsContent, BoundAssumption, FileAssumption
<1>0. TypeOK /\ Holding /\ Single /\ SoFar /\ GoodEntry /\ GoodBytes
  BY DEF IInv
<1>1. TypeOK'
  BY <1>0, ListedIsVersion DEF TypeOK, Holding, InHand, Checked, CleanExpired, Entries, Remove, taskVars
<1>2. Holding'
  BY <1>0 DEF TypeOK, Holding, InHand, Checked, CleanExpired, Entries, Remove, taskVars
<1>3. Single'
  BY <1>0 DEF TypeOK, Single, CleanExpired, Entries, Remove, taskVars
<1>4. SoFar'
  BY <1>0, ListedIsVersion DEF TypeOK, Holding, Single, SoFar, GoodBytes, InHand, Checked, Target, Wanted, Listed, CleanExpired, Entries, Remove, taskVars
<1>5. GoodEntry'
  BY <1>0, ListedIsVersion DEF TypeOK, Holding, Single, GoodEntry, InHand, Checked, Target, Wanted, Listed, CleanExpired, Entries, Remove, taskVars
<1>6. GoodBytes'
  BY <1>0, ListedIsVersion DEF TypeOK, Holding, Single, GoodEntry, GoodBytes, InHand, Checked, Wanted, Listed, CleanExpired, Entries, Remove, taskVars
<1>7. QED
  BY <1>1, <1>2, <1>3, <1>4, <1>5, <1>6 DEF IInv

LEMMA ClearCacheInv ==
  ASSUME IInv, NEW S \in SUBSET Entries, ClearCache(S)
  PROVE  IInv'
<1> USE VersionIsContent, BoundAssumption, FileAssumption
<1>0. TypeOK /\ Holding /\ Single /\ SoFar /\ GoodEntry /\ GoodBytes
  BY DEF IInv
<1>1. TypeOK'
  BY <1>0, ListedIsVersion DEF TypeOK, Holding, InHand, Checked, ClearCache, Entries, Remove, Fault, taskVars
<1>2. Holding'
  BY <1>0 DEF TypeOK, Holding, InHand, Checked, ClearCache, Entries, Remove, Fault, taskVars
<1>3. Single'
  BY <1>0 DEF TypeOK, Single, ClearCache, Entries, Remove, Fault, taskVars
<1>4. SoFar'
  BY <1>0, ListedIsVersion DEF TypeOK, Holding, Single, SoFar, GoodBytes, InHand, Checked, Target, Wanted, Listed, ClearCache, Entries, Remove, Fault, taskVars
<1>5. GoodEntry'
  BY <1>0, ListedIsVersion DEF TypeOK, Holding, Single, GoodEntry, InHand, Checked, Target, Wanted, Listed, ClearCache, Entries, Remove, Fault, taskVars
<1>6. GoodBytes'
  BY <1>0, ListedIsVersion DEF TypeOK, Holding, Single, GoodEntry, GoodBytes, InHand, Checked, Wanted, Listed, ClearCache, Entries, Remove, Fault, taskVars
<1>7. QED
  BY <1>1, <1>2, <1>3, <1>4, <1>5, <1>6 DEF IInv

LEMMA CrashInv ==
  ASSUME IInv, Crash
  PROVE  IInv'
<1> USE VersionIsContent, BoundAssumption, FileAssumption
<1>0. TypeOK /\ Holding /\ Single /\ SoFar /\ GoodEntry /\ GoodBytes
  BY DEF IInv
<1>1. TypeOK'
  BY <1>0, ListedIsVersion DEF TypeOK, Holding, InHand, Checked, Crash, Fault
<1>2. Holding'
  BY <1>0 DEF TypeOK, Holding, InHand, Checked, Crash, Fault
<1>3. Single'
  BY <1>0 DEF TypeOK, Single, Crash, Fault
<1>4. SoFar'
  BY <1>0, ListedIsVersion DEF TypeOK, Holding, Single, SoFar, GoodBytes, InHand, Checked, Target, Wanted, Listed, Crash, Fault
<1>5. GoodEntry'
  BY <1>0, ListedIsVersion DEF TypeOK, Holding, Single, GoodEntry, InHand, Checked, Target, Wanted, Listed, Crash, Fault
<1>6. GoodBytes'
  BY <1>0, ListedIsVersion DEF TypeOK, Holding, Single, GoodEntry, GoodBytes, InHand, Checked, Wanted, Listed, Crash, Fault
<1>7. QED
  BY <1>1, <1>2, <1>3, <1>4, <1>5, <1>6 DEF IInv

LEMMA ExpireInv ==
  ASSUME IInv, Expire
  PROVE  IInv'
<1> USE VersionIsContent, BoundAssumption, FileAssumption
<1>0. TypeOK /\ Holding /\ Single /\ SoFar /\ GoodEntry /\ GoodBytes
  BY DEF IInv
<1>1. TypeOK'
  BY <1>0, ListedIsVersion DEF TypeOK, Holding, InHand, Checked, Expire, diskVars, taskVars
<1>2. Holding'
  BY <1>0 DEF TypeOK, Holding, InHand, Checked, Expire, diskVars, taskVars
<1>3. Single'
  BY <1>0 DEF TypeOK, Single, Expire, diskVars, taskVars
<1>4. SoFar'
  BY <1>0, ListedIsVersion DEF TypeOK, Holding, Single, SoFar, GoodBytes, InHand, Checked, Target, Wanted, Listed, Expire, diskVars, taskVars
<1>5. GoodEntry'
  BY <1>0, ListedIsVersion DEF TypeOK, Holding, Single, GoodEntry, InHand, Checked, Target, Wanted, Listed, Expire, diskVars, taskVars
<1>6. GoodBytes'
  BY <1>0, ListedIsVersion DEF TypeOK, Holding, Single, GoodEntry, GoodBytes, InHand, Checked, Wanted, Listed, Expire, diskVars, taskVars
<1>7. QED
  BY <1>1, <1>2, <1>3, <1>4, <1>5, <1>6 DEF IInv

LEMMA PublishInv ==
  ASSUME IInv, Publish
  PROVE  IInv'
<1> USE VersionIsContent, BoundAssumption, FileAssumption
<1>0. TypeOK /\ Holding /\ Single /\ SoFar /\ GoodEntry /\ GoodBytes
  BY DEF IInv
<1>1. TypeOK'
  BY <1>0 DEF TypeOK, Version, Publish, diskVars, taskVars
<1>2. Holding'
  BY <1>0 DEF TypeOK, Holding, InHand, Checked, Publish, diskVars, taskVars
<1>3. Single'
  BY <1>0 DEF TypeOK, Single, Publish, diskVars, taskVars
<1>4. SoFar'
  BY <1>0, ListedIsVersion DEF TypeOK, Holding, Single, SoFar, GoodBytes, InHand, Checked, Target, Wanted, Listed, Publish, diskVars, taskVars
<1>5. GoodEntry'
  BY <1>0, ListedIsVersion DEF TypeOK, Holding, Single, GoodEntry, InHand, Checked, Target, Wanted, Listed, Publish, diskVars, taskVars
<1>6. GoodBytes'
  BY <1>0, ListedIsVersion DEF TypeOK, Holding, Single, GoodEntry, GoodBytes, InHand, Checked, Wanted, Listed, Publish, diskVars, taskVars
<1>7. QED
  BY <1>1, <1>2, <1>3, <1>4, <1>5, <1>6 DEF IInv

-----------------------------------------------------------------------------
(* The specification *)

LEMMA StutterInv ==
  ASSUME IInv, UNCHANGED vars
  PROVE  IInv'
BY DEF IInv, TypeOK, Holding, Single, SoFar, GoodEntry, GoodBytes, Target, Wanted,
       vars, diskVars, taskVars

LEMMA PrepareInv ==
  ASSUME IInv, NEW t \in Task, Prepare(t)
  PROVE  IInv'
BY LookupInv, StagedInv, FetchFileListInv, ChecksumPassInv, CopyOpensInv, FetchFailsInv,
   DownloadedInv, CachedInv, DeliveryOpensInv, WrittenInv, RecordInv, ReturnInv,
   StageFileInv, StagingFailsInv, ServeInv DEF Prepare

LEMMA NextInv == IInv /\ [Next]_vars => IInv'
<1> SUFFICES ASSUME IInv, [Next]_vars PROVE IInv'
  OBVIOUS
<1>1. ASSUME NEW t \in Task, NEW k \in {"play", "watch"}, Start(t, k, 0) PROVE IInv'
  BY <1>1, StartInv
<1>2. ASSUME NEW t \in Task, NEW v \in 1..latest, Start(t, "open", v) PROVE IInv'
  <2>1. v \in Version /\ v # 0
    BY BoundAssumption DEF IInv, TypeOK, Version
  <2>2. QED
    BY <1>2, <2>1, StartInv
<1>3. ASSUME NEW t \in Task, Prepare(t) PROVE IInv'
  BY <1>3, PrepareInv
<1>4. ASSUME NEW t \in Task, WriteFails(t) PROVE IInv'
  BY <1>4, WriteFailsInv
<1>5. ASSUME NEW S \in SUBSET Entries, CleanExpired(S) \/ ClearCache(S) PROVE IInv'
  BY <1>5, CleanExpiredInv, ClearCacheInv
<1>6. CASE Crash \/ Expire \/ Publish
  BY <1>6, CrashInv, ExpireInv, PublishInv
<1>7. CASE UNCHANGED vars
  BY <1>7, StutterInv
<1>8. QED
  BY <1>1, <1>2, <1>3, <1>4, <1>5, <1>6, <1>7 DEF Next

\* The variables keep their types, for all bounds and any number of files.
THEOREM FilesTypeCorrect == Spec => []TypeOK
<1>1. IInv => TypeOK
  BY DEF IInv
<1>2. QED
  BY <1>1, InitInv, NextInv, PTL DEF Spec

\* An install that was not disturbed by another is exact when it is reported
\* (install_featured_mod returns Ok), whatever was torn, linked, cleaned or
\* cleared in the store before it or meanwhile.
THEOREM UndisturbedInstallIsExact == Spec => []InstallIsExact
<1>1. IInv => InstallIsExact
  BY DEF IInv, Holding, SoFar, Checked, InstallIsExact, Exact
<1>2. QED
  BY <1>1, InitInv, NextInv, PTL DEF Spec
=============================================================================
