------------------------------ MODULE StoreProofs ------------------------------
(***************************************************************************)
(* Proofs about what is kept on disk between runs, for every number of     *)
(* processes, starts, dashboards and definitions: the trend baselines that *)
(* several processes change (TrendStore), the files the server names       *)
(* itself (GeneratedFiles), the dashboards of finished runs (RunHistory)   *)
(* and the library of definitions (Definitions).                           *)
(***************************************************************************)
EXTENDS TrendStore, GeneratedFiles, RunHistory, Definitions,
        FiniteSetTheorems, WellFoundedInduction, TLAPS

(***************************************************************************)
(* The trend baselines.  The lock file keeps the changes of any number of  *)
(* processes apart until the lock of a process that is at work is removed: *)
(* because it is slow, or because it took the lock between the look at a   *)
(* stale one and its removal.  Until then a change that is about to write  *)
(* has read every run the file or a file moved aside has (KeptInv).        *)
(***************************************************************************)

Inside(p) == place[p] \in {"read", "write", "unlock"}

AsideRuns == UNION {d.runs : d \in aside}

TrendTypes ==
    /\ file.kind \in {"none", "good", "damaged"}
    /\ file.kind = "none" => file.data.runs = {}
    /\ place \in [Processes -> {"idle", "lock", "unstale", "read", "write", "unlock", "aside",
                                "stat", "dead"}]
    /\ DOMAIN disk = Processes /\ lockFile \in Processes \cup {Nobody} /\ robbed \in BOOLEAN

\* Whoever is inside has the lock file.
LockInv == ~robbed => \A p \in Processes : Inside(p) => lockFile = p

\* What a change has read is all that was recorded and not removed.
KeptInv ==
    ~robbed =>
        /\ recorded \ removed \subseteq file.data.runs \cup AsideRuns
        /\ \A p \in Processes :
              place[p] = "write" => recorded \ removed \subseteq disk[p].runs \cup AsideRuns

TrendInv == TrendTypes /\ LockInv /\ KeptInv

LEMMA TrendInitial == TSInit => TrendInv
<1> SUFFICES ASSUME TSInit PROVE TrendInv
  OBVIOUS
<1>1. file = NoFile /\ file.data.runs = {} /\ file.kind = "none"
  BY DEF TSInit, NoFile, Data!EmptyTrendData
<1>2. \A p \in Processes : place[p] = "idle"
  BY DEF TSInit
<1>3. TrendTypes
  BY <1>1 DEF TSInit, TrendTypes
<1>4. LockInv
  BY <1>2 DEF LockInv, Inside
<1>5. KeptInv
  BY <1>2 DEF TSInit, KeptInv
<1> QED
  BY <1>3, <1>4, <1>5 DEF TrendInv

\* Two processes are not inside at once.
LEMMA AloneInside ==
  ASSUME ~robbed, LockInv, NEW p \in Processes, NEW q \in Processes, Inside(p), Inside(q)
  PROVE  p = q
  BY DEF LockInv

LEMMA TrendTypesStep ==
  ASSUME TrendTypes, [TSNext]_storeVars
  PROVE  TrendTypes'
<1>1. CASE UNCHANGED storeVars
  BY <1>1 DEF TrendTypes, storeVars
<1>2. ASSUME NEW p \in Processes, Begin(p) \/ Lock(p) \/ RemoveStale(p) \/ Refresh(p) \/ Stat(p)
             \/ Die(p)
      PROVE  TrendTypes'
  BY <1>2 DEF TrendTypes, Begin, Lock, TakeLock, RemoveStale, Refresh, Stat, Die, Move, lockVars
<1>3. ASSUME NEW p \in Processes, ReadLocked(p) PROVE TrendTypes'
  <2>1. file' = file \/ file' = NoFileNow
    BY <1>3 DEF ReadLocked, MoveAside
  <2>2. NoFileNow.kind = "none" /\ NoFileNow.data.runs = {}
    BY DEF NoFileNow, NoFile, Data!EmptyTrendData
  <2> QED
    BY <1>3, <2>1, <2>2 DEF TrendTypes, ReadLocked, Move, lockVars
<1>4. ASSUME NEW p \in Processes, ReplaceFile(p) PROVE TrendTypes'
  <2>1. file' = file \/ file'.kind = "good"
    BY <1>4 DEF ReplaceFile
  <2> QED
    BY <1>4, <2>1 DEF TrendTypes, ReplaceFile, Move, lockVars
<1>5. ASSUME NEW p \in Processes, Reset(p) \/ Unlock(p) \/ Aside(p) PROVE TrendTypes'
  <2>1. file' = file \/ file' = NoFileNow
    BY <1>5 DEF Reset, Unlock, Aside, MoveAside
  <2>2. NoFileNow.kind = "none" /\ NoFileNow.data.runs = {}
    BY DEF NoFileNow, NoFile, Data!EmptyTrendData
  <2> QED
    BY <1>5, <2>1, <2>2 DEF TrendTypes, Reset, Unlock, Aside, Move, lockVars
<1>6. CASE Damage
  <2>1. file'.kind = "damaged"
    BY <1>6 DEF Damage
  <2> QED
    BY <1>6, <2>1 DEF TrendTypes, Damage, lockVars
<1>7. CASE Age
  BY <1>7 DEF TrendTypes, Age
<1> QED
  BY <1>1, <1>2, <1>3, <1>4, <1>5, <1>6, <1>7 DEF TSNext, CallStep, ReadStep

\* A lock that was taken away stays so.
LEMMA RobbedStays ==
  ASSUME [TSNext]_storeVars, robbed
  PROVE  robbed'
BY DEF TSNext, CallStep, ReadStep, Begin, Lock, RemoveStale, ReadLocked, ReplaceFile, Reset, Unlock,
       Refresh, Aside, Stat, Die, Damage, Age, lockVars, storeVars

\* Where a process goes says what it does to the lock.
LEMMA LockStep ==
  ASSUME TrendTypes, LockInv, [TSNext]_storeVars
  PROVE  LockInv'
<1> SUFFICES ASSUME ~robbed' PROVE LockInv'
  BY DEF LockInv
<1>0. /\ ~robbed /\ DOMAIN place = Processes
      /\ \A p \in Processes : Inside(p) => lockFile = p
  BY RobbedStays DEF LockInv, TrendTypes
\* A process that goes from outside to outside.
<1>1. ASSUME NEW p \in Processes, NEW where, Move(p, where), lockFile' = lockFile,
             Inside(p) \/ where \notin {"read", "write", "unlock"}
      PROVE  LockInv'
  BY <1>0, <1>1 DEF LockInv, Inside, Move
<1>2. ASSUME UNCHANGED <<place, lockFile>> PROVE LockInv'
  BY <1>0, <1>2 DEF LockInv, Inside
<1>3. ASSUME NEW p \in Processes, Lock(p) PROVE LockInv'
  <2>1. CASE TakeLock(p)
    <3>1. \A q \in Processes : ~Inside(q)
      BY <1>0, <2>1, TrendAssumption DEF TakeLock
    <3> QED
      BY <1>0, <2>1, <3>1 DEF LockInv, TakeLock, Inside, Move
  <2>2. CASE ~TakeLock(p)
    BY <1>1, <1>3, <2>2 DEF Lock
  <2> QED
    BY <2>1, <2>2
<1>4. ASSUME NEW p \in Processes, RemoveStale(p) PROVE LockInv'
  <2>1. lockFile = Nobody \/ place[lockFile] = "dead"
    BY <1>4 DEF RemoveStale
  <2>2. \A q \in Processes : ~Inside(q)
    BY <1>0, <2>1, TrendAssumption DEF Inside
  <2> QED
    BY <1>0, <1>4, <2>2 DEF LockInv, RemoveStale, Inside, Move
<1>5. ASSUME NEW p \in Processes, Unlock(p) PROVE LockInv'
  <2>1. \A q \in Processes : Inside(q) => q = p
    BY <1>0, <1>5 DEF Unlock, Inside
  <2> QED
    BY <1>0, <1>5, <2>1 DEF LockInv, Unlock, Inside, Move
<1>6. ASSUME NEW p \in Processes, Begin(p) \/ Die(p) PROVE LockInv'
  BY <1>1, <1>6 DEF Begin, Die, lockVars
<1>7. ASSUME NEW p \in Processes, ReadLocked(p) \/ ReplaceFile(p) \/ Reset(p) PROVE LockInv'
  BY <1>1, <1>7 DEF ReadLocked, ReplaceFile, Reset, Inside, lockVars
<1>8. ASSUME NEW p \in Processes, Refresh(p) \/ Aside(p) \/ Stat(p) PROVE LockInv'
  BY <1>1, <1>2, <1>8 DEF Refresh, Aside, Stat, lockVars
<1>9. CASE Damage \/ Age \/ UNCHANGED storeVars
  BY <1>2, <1>9 DEF Damage, Age, storeVars, lockVars
<1> QED
  BY <1>3, <1>4, <1>5, <1>6, <1>7, <1>8, <1>9 DEF TSNext, CallStep, ReadStep

LEMMA KeptStep ==
  ASSUME TrendTypes, LockInv, KeptInv, [TSNext]_storeVars
  PROVE  KeptInv'
<1> SUFFICES ASSUME ~robbed' PROVE KeptInv'
  BY DEF KeptInv
<1>0. ~robbed
  BY RobbedStays
<1> DEFINE lost(x) == recorded \ removed \subseteq x \cup AsideRuns
<1>1. /\ lost(file.data.runs)
      /\ \A p \in Processes : place[p] = "write" => lost(disk[p].runs)
      /\ DOMAIN place = Processes /\ DOMAIN disk = Processes
  BY <1>0 DEF KeptInv, TrendTypes
\* Nothing is taken away and nobody comes to write.
<1>2. ASSUME UNCHANGED <<file, disk, aside, recorded, removed>>,
             \A p \in Processes : place'[p] = "write" => place[p] = "write"
      PROVE  KeptInv'
  BY <1>1, <1>2 DEF KeptInv, AsideRuns
<1>3. ASSUME NEW p \in Processes, NEW where, Move(p, where), where # "write"
      PROVE  \A q \in Processes : place'[q] = "write" => place[q] = "write" /\ q # p
  BY <1>1, <1>3 DEF Move
<1>4. ASSUME NEW p \in Processes, Begin(p) \/ Lock(p) \/ RemoveStale(p) \/ Die(p) PROVE KeptInv'
  BY <1>2, <1>3, <1>4 DEF Begin, Lock, TakeLock, RemoveStale, Die
<1>5. ASSUME NEW p \in Processes, Refresh(p) \/ Stat(p) PROVE KeptInv'
  BY <1>2, <1>3, <1>5 DEF Refresh, Stat
\* A file that is moved aside keeps its runs.
<1>6. ASSUME MoveAside, UNCHANGED <<recorded, removed>>
      PROVE  /\ recorded' \ removed' \subseteq file'.data.runs \cup AsideRuns'
             /\ AsideRuns' = AsideRuns \cup file.data.runs
  <2>1. AsideRuns' = AsideRuns \cup file.data.runs
    BY <1>6 DEF MoveAside, AsideRuns
  <2> QED
    BY <1>1, <1>6, <2>1
<1>7. ASSUME NEW p \in Processes, ReadLocked(p) PROVE KeptInv'
  <2>1. /\ Move(p, "write") /\ UNCHANGED <<recorded, removed>>
        /\ disk' = [disk EXCEPT ![p] = IF file.kind = "good" THEN file.data
                                       ELSE Data!EmptyTrendData]
    BY <1>7 DEF ReadLocked
  <2>2. \A q \in Processes : place'[q] = "write" => q = p
    <3>1. \A q \in Processes : place[q] = "write" => q = p
      BY <1>7, <1>0, AloneInside DEF Inside, ReadLocked
    <3> QED
      BY <1>1, <2>1, <3>1 DEF Move
  <2>3. CASE file.kind = "damaged"
    <3>1. MoveAside
      BY <1>7, <2>3 DEF ReadLocked
    <3>2. recorded' \ removed' \subseteq AsideRuns'
      BY <1>1, <1>6, <2>1, <3>1
    <3> QED
      BY <2>2, <3>2 DEF KeptInv
  <2>4. CASE file.kind # "damaged"
    <3>1. UNCHANGED <<file, aside>> /\ AsideRuns' = AsideRuns
      BY <1>7, <2>4 DEF ReadLocked, AsideRuns
    <3>2. disk'[p] = IF file.kind = "good" THEN file.data ELSE Data!EmptyTrendData
      BY <1>1, <2>1
    <3>3. file.kind = "good" \/ file.data.runs = {}
      BY <2>4 DEF TrendTypes
    <3>4. recorded' \ removed' \subseteq disk'[p].runs \cup AsideRuns'
      BY <1>1, <2>1, <3>1, <3>2, <3>3
    <3> QED
      BY <1>1, <2>1, <2>2, <3>1, <3>4 DEF KeptInv
  <2> QED
    BY <2>3, <2>4
<1>8. ASSUME NEW p \in Processes, ReplaceFile(p) PROVE KeptInv'
  <2>1. place[p] = "write" /\ Move(p, "unlock") /\ UNCHANGED <<disk, aside>>
    BY <1>8 DEF ReplaceFile
  <2>2. \A q \in Processes : place'[q] # "write"
    <3>1. \A q \in Processes : place[q] = "write" => q = p
      BY <2>1, <1>0, AloneInside DEF Inside
    <3> QED
      BY <1>3, <2>1, <3>1
  <2>3. AsideRuns' = AsideRuns
    BY <2>1 DEF AsideRuns
  <2>4. CASE UNCHANGED <<file, recorded, removed>>
    BY <1>1, <2>2, <2>3, <2>4 DEF KeptInv
  <2>5. ASSUME NEW new, file'.data = new,
               recorded' = IF opOf[p].kind = "record" THEN recorded \cup {opOf[p].run}
                           ELSE recorded,
               removed' = removed \cup (Given(opOf[p], disk[p]) \ new.runs)
        PROVE  recorded' \ removed' \subseteq file'.data.runs \cup AsideRuns'
    <3> SUFFICES ASSUME NEW r \in recorded' \ removed', r \notin AsideRuns
                 PROVE  r \in new.runs
      BY <2>3, <2>5
    <3>1. r \in Given(opOf[p], disk[p])
      <4>1. CASE r \in recorded
        <5>1. r \in disk[p].runs
          BY <1>1, <2>1, <2>5, <4>1
        <5> QED
          BY <5>1 DEF Given
      <4>2. CASE r \notin recorded
        BY <2>5, <4>2 DEF Given
      <4> QED
        BY <4>1, <4>2
    <3> QED
      BY <2>5, <3>1
  <2>6. \/ UNCHANGED <<file, recorded, removed>>
        \/ \E new : /\ file'.data = new
                    /\ recorded' = IF opOf[p].kind = "record" THEN recorded \cup {opOf[p].run}
                                   ELSE recorded
                    /\ removed' = removed \cup (Given(opOf[p], disk[p]) \ new.runs)
    BY <1>8 DEF ReplaceFile
  <2> QED
    BY <2>2, <2>4, <2>5, <2>6 DEF KeptInv
<1>9. ASSUME NEW p \in Processes, Reset(p) PROVE KeptInv'
  <2>1. /\ Move(p, "unlock") /\ UNCHANGED <<disk, aside, recorded>>
        /\ UNCHANGED <<file, removed>> \/ removed' = removed \cup file.data.runs
    BY <1>9 DEF Reset
  <2>2. \A q \in Processes : place'[q] # "write"
    <3>1. \A q \in Processes : place[q] = "write" => q = p
      BY <1>9, <1>0, AloneInside DEF Inside, Reset
    <3> QED
      BY <1>3, <2>1, <3>1
  <2>3. AsideRuns' = AsideRuns
    BY <2>1 DEF AsideRuns
  <2> QED
    BY <1>1, <2>1, <2>2, <2>3 DEF KeptInv
<1>10. ASSUME NEW p \in Processes, Unlock(p) PROVE KeptInv'
  <2>1. \A q \in Processes : place'[q] = "write" => place[q] = "write" /\ q # p
    BY <1>3, <1>10 DEF Unlock
  <2>2. \A q \in Processes : q # p => disk'[q] = disk[q]
    BY <1>1, <1>10 DEF Unlock
  <2>3. UNCHANGED <<file, aside, recorded, removed>> /\ AsideRuns' = AsideRuns
    BY <1>10 DEF Unlock, AsideRuns
  <2> QED
    BY <1>1, <2>1, <2>2, <2>3 DEF KeptInv
<1>11. ASSUME NEW p \in Processes, Aside(p) PROVE KeptInv'
  <2>1. /\ \A q \in Processes : place'[q] = "write" => place[q] = "write"
        /\ UNCHANGED <<disk, recorded, removed>>
    BY <1>3, <1>11 DEF Aside
  <2>2. CASE UNCHANGED <<file, aside>>
    BY <1>2, <2>1, <2>2
  <2>3. CASE MoveAside
    BY <1>1, <1>6, <2>1, <2>3 DEF KeptInv
  <2> QED
    BY <1>11, <2>2, <2>3 DEF Aside
<1>12. CASE Damage
  <2>1. file'.data = file.data
    BY <1>12 DEF Damage
  <2>2. UNCHANGED <<place, disk, aside, recorded, removed>> /\ AsideRuns' = AsideRuns
    BY <1>12 DEF Damage, AsideRuns
  <2> QED
    BY <1>1, <2>1, <2>2 DEF KeptInv
<1>13. CASE UNCHANGED storeVars \/ Age
  BY <1>2, <1>13 DEF storeVars, Age
<1> QED
  BY <1>4, <1>5, <1>7, <1>8, <1>9, <1>10, <1>11, <1>12, <1>13 DEF TSNext, CallStep, ReadStep

\* A run whose record succeeded stays in the file, or in a file moved aside,
\* until a change that had read it takes it out, unless a lock was removed while
\* its maker was at work (mutate, lockTrendFile): for any number of processes.
THEOREM TrendTheorem == TSSpec => []RecordedRunsKept
<1>1. TSInit => TrendInv
  BY TrendInitial
<1>2. TrendInv /\ [TSNext]_storeVars => TrendInv'
  BY TrendTypesStep, LockStep, KeptStep DEF TrendInv
<1>3. TrendInv => RecordedRunsKept
  BY DEF TrendInv, KeptInv, RecordedRunsKept, AsideRuns
<1> QED
  BY <1>1, <1>2, <1>3, PTL DEF TSSpec

-----------------------------------------------------------------------------
(***************************************************************************)
(* The contract of the trend baselines, until such a lock is removed.  A   *)
(* process about to write has read what a good file still has (CallInv),   *)
(* so replacing the file is the moment its change is made.                 *)
(***************************************************************************)

CallInv ==
    /\ nextRun \in Nat /\ DOMAIN opOf = Processes /\ DOMAIN cache = Processes
    /\ \A p \in Processes : DOMAIN cache[p] = {"data", "stamp"}
    /\ \A p \in Processes : place[p] \in Underway => opOf[p] \in TrendCalls
    /\ \A p \in Processes : place[p] = "write" =>
          /\ opOf[p].kind # "reset"
          /\ file.kind = "good" => disk[p] = file.data

Lists == ~robbed /\ TrendTypes /\ LockInv /\ CallInv

\* What the file has.
FileList == IF file.kind = "good" THEN file.data ELSE Data!EmptyTrendData

LEMMA CallInitial == TSInit => CallInv
  BY DEF TSInit, CallInv, Underway

LEMMA EmptyFile == NoFileNow.kind = "none"
  BY DEF NoFileNow, NoFile

\* A process that was not about to write is now where it may.
LEMMA CallMoves ==
  ASSUME Lists, NEW p \in Processes, NEW where, Move(p, where), where # "write",
         UNCHANGED <<nextRun, opOf>>, where \in Underway => place[p] \in Underway,
         DOMAIN cache' = Processes, \A q \in Processes : DOMAIN cache'[q] = {"data", "stamp"},
         \A q \in Processes : q # p /\ place[q] = "write" =>
             disk'[q] = disk[q] /\ (file' = file \/ file'.kind # "good")
  PROVE  CallInv'
<1>1. \A q \in Processes : q # p => place'[q] = place[q]
  BY DEF Move, Lists, TrendTypes
<1>2. place'[p] = where
  BY DEF Move, Lists, TrendTypes
<1> QED
  BY <1>1, <1>2 DEF CallInv, Lists

LEMMA CallStays ==
  ASSUME Lists, UNCHANGED <<nextRun, opOf, cache, disk, place>>, file' = file \/ file'.kind # "good"
  PROVE  CallInv'
  BY DEF Lists, CallInv

LEMMA CacheStep ==
  ASSUME Lists, NEW p \in Processes, NEW d, NEW n, cache' = [cache EXCEPT ![p] = [data |-> d, stamp |-> n]]
  PROVE  /\ DOMAIN cache' = Processes /\ \A q \in Processes : DOMAIN cache'[q] = {"data", "stamp"}
         /\ TrendView' = [TrendView EXCEPT ![p] = d]
<1>1. /\ DOMAIN cache' = Processes /\ cache'[p] = [data |-> d, stamp |-> n]
      /\ \A q \in Processes : q # p => cache'[q] = cache[q]
  BY DEF Lists, CallInv
<1>2. \A q \in Processes : DOMAIN cache'[q] = {"data", "stamp"}
  BY <1>1 DEF Lists, CallInv
<1>3. TrendView' = [TrendView EXCEPT ![p] = d]
  BY <1>1 DEF TrendView
<1> QED
  BY <1>1, <1>2, <1>3

\* What is seen, and where it was seen, are two steps of a reader.
LEMMA SeenStep ==
  ASSUME Lists, NEW p \in Processes, NEW d,
         \/ cache' = [cache EXCEPT ![p].data = d]
         \/ cache' = [cache EXCEPT ![p].stamp = d]
  PROVE  /\ DOMAIN cache' = Processes /\ \A q \in Processes : DOMAIN cache'[q] = {"data", "stamp"}
         /\ cache' = [cache EXCEPT ![p].data = d] => TrendView' = [TrendView EXCEPT ![p] = d]
         /\ cache' = [cache EXCEPT ![p].stamp = d] => TrendView' = TrendView
<1>1. /\ DOMAIN cache' = Processes /\ \A q \in Processes : q # p => cache'[q] = cache[q]
      /\ DOMAIN cache[p] = {"data", "stamp"}
  BY DEF Lists, CallInv
<1>2. CASE cache' = [cache EXCEPT ![p].data = d]
  <2>1. cache'[p] = [cache[p] EXCEPT !.data = d]
    BY <1>2 DEF Lists, CallInv
  <2>2. DOMAIN cache'[p] = {"data", "stamp"} /\ cache'[p].data = d
    BY <1>1, <2>1
  <2>3. TrendView' = [TrendView EXCEPT ![p] = d]
    BY <1>1, <2>2 DEF TrendView
  <2>4. cache' = [cache EXCEPT ![p].stamp = d] => TrendView' = TrendView
    <3> SUFFICES ASSUME cache' = [cache EXCEPT ![p].stamp = d] PROVE TrendView' = TrendView
      OBVIOUS
    <3>1. cache'[p] = [cache[p] EXCEPT !.stamp = d]
      BY DEF Lists, CallInv
    <3>2. cache'[p].data = cache[p].data
      BY <1>1, <3>1
    <3> QED
      BY <1>1, <3>2 DEF TrendView
  <2> QED
    BY <1>1, <2>2, <2>3, <2>4 DEF Lists, CallInv
<1>3. CASE cache' = [cache EXCEPT ![p].stamp = d] /\ cache' # [cache EXCEPT ![p].data = d]
  <2>1. cache'[p] = [cache[p] EXCEPT !.stamp = d]
    BY <1>3 DEF Lists, CallInv
  <2>2. DOMAIN cache'[p] = {"data", "stamp"} /\ cache'[p].data = cache[p].data
    BY <1>1, <2>1
  <2>3. TrendView' = TrendView
    BY <1>1, <2>2 DEF TrendView
  <2> QED
    BY <1>1, <1>3, <2>2, <2>3 DEF Lists, CallInv
<1> QED
  BY <1>2, <1>3

LEMMA ListsStep ==
  ASSUME Lists, [TSNext]_storeVars, ~robbed'
  PROVE  CallInv'
<1>0. DOMAIN cache = Processes /\ \A q \in Processes : DOMAIN cache[q] = {"data", "stamp"}
  BY DEF Lists, CallInv
<1>1. ASSUME NEW p \in Processes, Begin(p) PROVE CallInv'
  <2>1. Move(p, "lock") /\ UNCHANGED <<file, disk, cache>>
    BY <1>1 DEF Begin
  <2>2. PICK o \in TrendCalls : opOf' = [opOf EXCEPT ![p] = o] /\ nextRun' \in Nat
    BY <1>1 DEF Begin, TrendCalls, Lists, CallInv
  <2>3. \A q \in Processes : q # p => place'[q] = place[q] /\ opOf'[q] = opOf[q]
    BY <2>1, <2>2 DEF Move, Lists, TrendTypes
  <2>4. place'[p] = "lock" /\ opOf'[p] = o /\ DOMAIN opOf' = Processes
    BY <2>1, <2>2 DEF Move, Lists, TrendTypes, CallInv
  <2> QED
    BY <2>1, <2>2, <2>3, <2>4 DEF Lists, CallInv
<1>2. ASSUME NEW p \in Processes, Lock(p) \/ RemoveStale(p) \/ Die(p) PROVE CallInv'
  BY <1>0, <1>2, CallMoves DEF Lock, TakeLock, RemoveStale, Die, Underway
<1>3. ASSUME NEW p \in Processes, ReadLocked(p) PROVE CallInv'
  <2>1. /\ Move(p, "write") /\ UNCHANGED <<opOf, nextRun>> /\ opOf[p].kind # "reset"
        /\ disk' = [disk EXCEPT ![p] = FileList] /\ place[p] = "read"
    BY <1>3 DEF ReadLocked, FileList
  <2>2. file' = file \/ file'.kind # "good"
    BY <1>3, EmptyFile DEF ReadLocked, MoveAside
  <2>3. \A q \in Processes : q # p => place'[q] = place[q] /\ place[q] # "write"
    <3>1. \A q \in Processes : q # p => place[q] # "write"
      BY <2>1, AloneInside DEF Inside, Lists
    <3> QED
      BY <2>1, <3>1 DEF Move, Lists, TrendTypes
  <2>4. place'[p] = "write" /\ disk'[p] = FileList
    BY <2>1 DEF Move, Lists, TrendTypes
  <2>5. opOf[p] \in TrendCalls
    BY <2>1 DEF Lists, CallInv, Underway
  <2>6. file'.kind = "good" => disk'[p] = file'.data
    BY <2>2, <2>4 DEF FileList
  <2>7. DOMAIN cache' = Processes /\ \A q \in Processes : DOMAIN cache'[q] = {"data", "stamp"}
    BY <1>3, CacheStep DEF ReadLocked
  <2> QED
    BY <2>1, <2>3, <2>4, <2>5, <2>6, <2>7 DEF Lists, CallInv
<1>4. ASSUME NEW p \in Processes, ReplaceFile(p) PROVE CallInv'
  <2>1. place[p] = "write" /\ Move(p, "unlock") /\ UNCHANGED <<opOf, disk, nextRun>>
    BY <1>4 DEF ReplaceFile
  <2>2. \A q \in Processes : q # p => place[q] # "write"
    BY <2>1, AloneInside DEF Inside, Lists
  <2>3. cache' = cache \/ \E d, n : cache' = [cache EXCEPT ![p] = [data |-> d, stamp |-> n]]
    BY <1>4 DEF ReplaceFile
  <2>4. DOMAIN cache' = Processes /\ \A q \in Processes : DOMAIN cache'[q] = {"data", "stamp"}
    BY <1>0, <2>3, CacheStep
  <2> QED
    BY <2>1, <2>2, <2>4, CallMoves DEF Underway
<1>5. ASSUME NEW p \in Processes, Reset(p) PROVE CallInv'
  <2>1. /\ Move(p, "unlock") /\ UNCHANGED <<opOf, disk, nextRun>>
        /\ file' = file \/ file'.kind # "good"
    BY <1>5, EmptyFile DEF Reset
  <2>2. DOMAIN cache' = Processes /\ \A q \in Processes : DOMAIN cache'[q] = {"data", "stamp"}
    BY <1>0, <1>5, CacheStep DEF Reset
  <2> QED
    BY <2>1, <2>2, CallMoves DEF Underway
<1>6. ASSUME NEW p \in Processes, Unlock(p) PROVE CallInv'
  <2>1. Move(p, "idle") /\ UNCHANGED <<file, cache, nextRun>> /\ opOf' = [opOf EXCEPT ![p] = NoOp]
        /\ disk' = [disk EXCEPT ![p] = Data!EmptyTrendData]
    BY <1>6 DEF Unlock
  <2>2. \A q \in Processes : q # p => /\ place'[q] = place[q] /\ opOf'[q] = opOf[q]
                                      /\ disk'[q] = disk[q]
    BY <2>1 DEF Move, Lists, TrendTypes, CallInv
  <2>3. place'[p] = "idle" /\ DOMAIN opOf' = Processes
    BY <2>1 DEF Move, Lists, TrendTypes, CallInv
  <2> QED
    BY <2>1, <2>2, <2>3 DEF Lists, CallInv, Underway
<1>7. ASSUME NEW p \in Processes, Refresh(p) PROVE CallInv'
  <2>1. UNCHANGED <<file, opOf, disk, nextRun>> /\ place[p] = "idle"
    BY <1>7 DEF Refresh
  <2>2. place' = place \/ \E where \in {"stat", "aside"} : Move(p, where)
    BY <1>7 DEF Refresh
  <2>3. \/ cache' = [cache EXCEPT ![p] = [data |-> Data!EmptyTrendData, stamp |-> 0]]
        \/ \E d : cache' = [cache EXCEPT ![p].data = d]
    BY <1>7 DEF Refresh
  <2>4. DOMAIN cache' = Processes /\ \A q \in Processes : DOMAIN cache'[q] = {"data", "stamp"}
    BY <2>3, CacheStep, SeenStep
  <2>5. CASE place' = place
    BY <2>1, <2>4, <2>5 DEF Lists, CallInv
  <2>6. CASE \E where \in {"stat", "aside"} : Move(p, where)
    BY <2>1, <2>4, <2>6, CallMoves DEF Underway
  <2> QED
    BY <2>2, <2>5, <2>6
<1>8. ASSUME NEW p \in Processes, Aside(p) PROVE CallInv'
  <2>1. Move(p, "stat") /\ UNCHANGED <<opOf, disk, cache, nextRun>>
    BY <1>8 DEF Aside
  <2>2. file' = file \/ file'.kind # "good"
    BY <1>8, EmptyFile DEF Aside, MoveAside
  <2> QED
    BY <1>0, <2>1, <2>2, CallMoves DEF Underway
<1>9. ASSUME NEW p \in Processes, Stat(p) PROVE CallInv'
  <2>1. Move(p, "idle") /\ UNCHANGED <<file, opOf, disk, nextRun>>
    BY <1>9 DEF Stat
  <2>2. DOMAIN cache' = Processes /\ \A q \in Processes : DOMAIN cache'[q] = {"data", "stamp"}
    BY <1>9, SeenStep DEF Stat
  <2> QED
    BY <2>1, <2>2, CallMoves DEF Underway
<1>10. CASE Damage
  <2>1. file'.kind = "damaged" /\ UNCHANGED <<place, opOf, disk, cache, nextRun>>
    BY <1>10 DEF Damage, Lists, TrendTypes
  <2> QED
    BY <2>1, CallStays
<1>11. CASE UNCHANGED storeVars \/ Age
  BY <1>11, CallStays DEF storeVars, Age
<1> QED
  BY <1>1, <1>2, <1>3, <1>4, <1>5, <1>6, <1>7, <1>8, <1>9, <1>10, <1>11 
     DEF TSNext, CallStep, ReadStep

\* The list, where a process is about to write and where none is.
LEMMA ListIs ==
  ASSUME Lists
  PROVE  /\ \A p \in Processes : place[p] = "write" => TrendList = disk[p]
         /\ (\A p \in Processes : place[p] # "write") => TrendList = FileList
<1>1. ASSUME NEW p \in Processes, place[p] = "write" PROVE TrendList = disk[p]
  <2>1. \A q \in Processes : place[q] = "write" <=> q = p
    BY <1>1, AloneInside DEF Inside, Lists
  <2>2. (CHOOSE q \in Processes : place[q] = "write") = p
    BY <2>1
  <2> QED
    BY <1>1, <2>2 DEF TrendList
<1> QED
  BY <1>1 DEF TrendList, FileList

LEMMA ListIsNow ==
  ASSUME Lists'
  PROVE  /\ \A p \in Processes : place'[p] = "write" => TrendList' = disk'[p]
         /\ (\A p \in Processes : place'[p] # "write") => TrendList' = FileList'
<1>1. \A p, q \in Processes : place'[p] = "write" /\ place'[q] = "write" => p = q
  BY DEF Lists, LockInv, Inside
<1>2. ASSUME NEW p \in Processes, place'[p] = "write" PROVE TrendList' = disk'[p]
  <2>1. \A q \in Processes : place'[q] = "write" <=> q = p
    BY <1>1, <1>2
  <2>2. (CHOOSE q \in Processes : place'[q] = "write") = p
    BY <2>1
  <2> QED
    BY <1>2, <2>2 DEF TrendList
<1> QED
  BY <1>2 DEF TrendList, FileList

\* About to write or not, a good file has the list.
LEMMA ListInFile ==
  ASSUME Lists, file.kind = "good"
  PROVE  TrendList = file.data
<1>1. \A p \in Processes : place[p] = "write" => disk[p] = file.data
  BY DEF Lists, CallInv
<1>2. FileList = file.data
  BY DEF FileList
<1> QED
  BY <1>1, <1>2, ListIs

\* As long as nobody comes to write or stops doing it, only a file that becomes
\* unusable changes the list.
LEMMA ListStays ==
  ASSUME Lists, Lists', \A p \in Processes : place'[p] = "write" <=> place[p] = "write",
         \A p \in Processes : place[p] = "write" => disk'[p] = disk[p],
         file' = file \/ file'.kind # "good"
  PROVE  TrendList' = TrendList \/ (TrendList' = Data!EmptyTrendData /\ file' # file)
<1>1. CASE \E p \in Processes : place[p] = "write"
  BY <1>1, ListIs, ListIsNow
<1>2. CASE \A p \in Processes : place[p] # "write"
  <2>1. TrendList = FileList /\ TrendList' = FileList'
    BY <1>2, ListIs, ListIsNow
  <2> QED
    BY <2>1 DEF FileList
<1> QED
  BY <1>1, <1>2

LEMMA MoveTo ==
  ASSUME TrendTypes, NEW p \in Processes, NEW where, Move(p, where)
  PROVE  place'[p] = where /\ \A q \in Processes : q # p => place'[q] = place[q]
  BY DEF TrendTypes, Move

LEMMA AskedStep ==
  ASSUME Lists, NEW p \in Processes, NEW where, Move(p, where),
         \A q \in Processes : q # p => opOf'[q] = opOf[q]
  PROVE  TrendAsked' = [TrendAsked EXCEPT ![p] = IF where \in Underway THEN opOf'[p] ELSE NoOp]
<1>1. place'[p] = where /\ \A q \in Processes : q # p => place'[q] = place[q]
  BY MoveTo DEF Lists
<1> QED
  BY <1>1 DEF TrendAsked

\* A call has an answer when it leaves, and none as long as it goes on.
LEMMA AnswerStep ==
  ASSUME Lists, NEW p \in Processes, NEW where, Move(p, where), UNCHANGED opOf,
         place[p] \in Underway
  PROVE  /\ TrendAsked[p] = opOf[p]
         /\ where \in Underway => TrendAsked' = TrendAsked
         /\ where \notin Underway => ListContract!Answer(p)
<1>1. TrendAsked[p] = opOf[p] /\ opOf[p] \in TrendCalls
  BY DEF TrendAsked, Lists, CallInv
<1>2. TrendAsked' = [TrendAsked EXCEPT ![p] = IF where \in Underway THEN opOf[p] ELSE NoOp]
  BY AskedStep
<1>3. where \in Underway => TrendAsked' = TrendAsked
  BY <1>1, <1>2 DEF TrendAsked
<1> QED
  BY <1>1, <1>2, <1>3 DEF ListContract!Answer

\* Who asks for nothing can go where it likes.
LEMMA IdleStep ==
  ASSUME Lists, NEW p \in Processes, NEW where, Move(p, where), where \notin Underway,
         place[p] \notin Underway, \A q \in Processes : q # p => opOf'[q] = opOf[q]
  PROVE  TrendAsked' = TrendAsked
<1>1. TrendAsked[p] = NoOp
  BY DEF TrendAsked
<1>2. TrendAsked' = [TrendAsked EXCEPT ![p] = NoOp]
  BY AskedStep
<1> QED
  BY <1>1, <1>2 DEF TrendAsked

LEMMA SameView == ASSUME UNCHANGED cache PROVE TrendView' = TrendView
  BY DEF TrendView

LEMMA ContractStep ==
  ASSUME Lists, Lists', [TSNext]_storeVars
  PROVE  [ListContract!LNext]_(ListContract!lvars)
<1> DEFINE step == [ListContract!LNext]_(ListContract!lvars)
<1>0. ~robbed /\ UNCHANGED robbed
  BY DEF Lists, TrendTypes
<1>1. ASSUME NEW p \in Processes, Begin(p) PROVE step
  <2>1. /\ Move(p, "lock") /\ UNCHANGED <<file, disk, cache>> /\ place[p] = "idle"
        /\ \A q \in Processes : q # p => opOf'[q] = opOf[q]
    BY <1>1 DEF Begin, Lists, CallInv
  <2>2. /\ TrendAsked' = [TrendAsked EXCEPT ![p] = opOf'[p]] /\ TrendAsked[p] = NoOp
        /\ TrendAsked'[p] = opOf'[p]
    <3>1. TrendAsked' = [TrendAsked EXCEPT ![p] = opOf'[p]]
      BY <2>1, AskedStep DEF Underway
    <3> QED
      BY <2>1, <3>1 DEF TrendAsked, Underway
  <2>3. opOf'[p] \in TrendCalls
    BY <2>1, MoveTo DEF Lists, CallInv, Underway
  <2>4. TrendList' = TrendList /\ TrendView' = TrendView
    BY <2>1, MoveTo, ListStays, SameView DEF Lists
  <2>5. ListContract!Ask(p)
    BY <2>2, <2>3, <2>4 DEF ListContract!Ask
  <2> QED
    BY <1>0, <2>5 DEF ListContract!LNext
<1>2. ASSUME NEW p \in Processes, Lock(p) \/ RemoveStale(p) PROVE step
  <2>1. /\ UNCHANGED <<file, disk, cache, opOf>> /\ place[p] \in {"lock", "unstale"}
        /\ \E where \in {"read", "unstale", "lock", "idle"} : Move(p, where)
    BY <1>2 DEF Lock, TakeLock, RemoveStale
  <2>2. PICK where \in {"read", "unstale", "lock", "idle"} : Move(p, where)
    BY <2>1
  <2>3. TrendList' = TrendList /\ TrendView' = TrendView
    BY <2>1, <2>2, MoveTo, ListStays, SameView DEF Lists
  <2>4. CASE where = "idle"
    <3>1. ListContract!Answer(p)
      BY <2>1, <2>2, <2>4, AnswerStep DEF Underway
    <3>2. ListContract!GiveUp(p)
      BY <2>3, <3>1 DEF ListContract!GiveUp
    <3> QED
      BY <1>0, <3>2 DEF ListContract!LNext
  <2>5. CASE where # "idle"
    <3>1. TrendAsked' = TrendAsked
      BY <2>1, <2>2, <2>5, AnswerStep DEF Underway
    <3> QED
      BY <1>0, <2>3, <3>1 DEF ListContract!lvars
  <2> QED
    BY <2>4, <2>5
<1>3. ASSUME NEW p \in Processes, ReadLocked(p) PROVE step
  <2>1. /\ Move(p, "write") /\ UNCHANGED opOf /\ place[p] = "read"
        /\ disk' = [disk EXCEPT ![p] = FileList]
    BY <1>3 DEF ReadLocked, FileList
  <2>2. \A q \in Processes : place[q] # "write"
    BY <2>1, AloneInside DEF Inside, Lists
  <2>3. place'[p] = "write" /\ disk'[p] = FileList
    BY <2>1, MoveTo DEF Lists, TrendTypes
  <2>4. TrendList' = FileList /\ TrendList = FileList
    BY <2>2, <2>3, ListIs, ListIsNow
  <2>5. TrendAsked' = TrendAsked
    BY <2>1, AnswerStep DEF Underway
  <2>6. TrendView' = [TrendView EXCEPT ![p] = TrendList]
    BY <1>3, <2>3, <2>4, CacheStep DEF ReadLocked
  <2>7. ListContract!Look(p)
    BY <2>4, <2>5, <2>6 DEF ListContract!Look
  <2> QED
    BY <1>0, <2>7 DEF ListContract!LNext
<1>4. ASSUME NEW p \in Processes, ReplaceFile(p) PROVE step
  <2>1. place[p] = "write" /\ Move(p, "unlock") /\ UNCHANGED <<opOf, disk>>
    BY <1>4 DEF ReplaceFile
  <2>2. /\ TrendList = disk[p] /\ TrendAsked[p] = opOf[p] /\ ListContract!Answer(p)
        /\ opOf[p].kind # "reset"
    BY <2>1, ListIs, AnswerStep DEF Underway, Lists, CallInv
  <2>3. TrendList' = FileList'
    <3>1. \A q \in Processes : place'[q] # "write"
      BY <2>1, MoveTo, AloneInside DEF Inside, Lists
    <3> QED
      BY <3>1, ListIsNow
  <2>4. CASE UNCHANGED <<file, cache>>
    <3>1. FileList' = TrendList \/ FileList' = Data!EmptyTrendData
      BY <2>4, ListInFile DEF FileList
    <3>2. ListContract!GiveUp(p)
      BY <2>2, <2>3, <2>4, <3>1, SameView DEF ListContract!GiveUp, ListContract!Lost
    <3> QED
      BY <1>0, <3>2 DEF ListContract!LNext
  <2>5. CASE ~UNCHANGED <<file, cache>>
    <3> DEFINE new == Data!BoundTrendSize(Apply(opOf[p], disk[p]))
    <3>1. /\ ~Refused(opOf[p], disk[p])
          /\ file' = [kind |-> "good", data |-> new, stamp |-> file.stamp + 1]
          /\ cache' = [cache EXCEPT ![p] = [data |-> new, stamp |-> file.stamp + 1]]
      BY <1>4, <2>5 DEF ReplaceFile
    <3> HIDE DEF new
    <3>2. FileList' = new
      BY <3>1 DEF FileList
    <3>3. TrendView' = [TrendView EXCEPT ![p] = new]
      BY <3>1, CacheStep
    <3>4. new = AfterCall(opOf[p], disk[p]) /\ ~RefusesCall(opOf[p], disk[p])
      BY <2>2, <3>1 DEF new, AfterCall, RefusesCall
    <3>5. ListContract!Change(p)
      BY <2>2, <2>3, <3>2, <3>3, <3>4 DEF ListContract!Change
    <3> QED
      BY <1>0, <3>5 DEF ListContract!LNext
  <2> QED
    BY <2>4, <2>5
<1>5. ASSUME NEW p \in Processes, Reset(p) PROVE step
  <2>1. /\ place[p] = "read" /\ Move(p, "unlock") /\ UNCHANGED <<opOf, disk>>
        /\ opOf[p].kind = "reset"
    BY <1>5 DEF Reset
  <2>2. TrendAsked[p] = opOf[p] /\ ListContract!Answer(p)
    BY <2>1, AnswerStep DEF Underway
  <2>3. \A q \in Processes : place[q] # "write" /\ place'[q] # "write"
    BY <2>1, MoveTo, AloneInside DEF Inside, Lists
  <2>4. CASE UNCHANGED <<file, cache>>
    <3>1. TrendList' = TrendList
      BY <2>3, <2>4, ListIs, ListIsNow DEF FileList
    <3>2. ListContract!GiveUp(p)
      BY <2>2, <2>4, <3>1, SameView DEF ListContract!GiveUp
    <3> QED
      BY <1>0, <3>2 DEF ListContract!LNext
  <2>5. CASE ~UNCHANGED <<file, cache>>
    <3>1. /\ file'.kind # "good"
          /\ cache' = [cache EXCEPT ![p] = [data |-> Data!EmptyTrendData, stamp |-> 0]]
      BY <1>5, <2>5, EmptyFile DEF Reset
    <3>2. TrendList' = Data!EmptyTrendData
      BY <2>3, <3>1, ListIsNow DEF FileList
    <3>3. TrendView' = [TrendView EXCEPT ![p] = Data!EmptyTrendData]
      BY <3>1, CacheStep
    <3>4. /\ AfterCall(opOf[p], TrendList) = Data!EmptyTrendData
          /\ ~RefusesCall(opOf[p], TrendList)
      BY <2>1 DEF AfterCall, RefusesCall
    <3>5. ListContract!Change(p)
      BY <2>2, <3>2, <3>3, <3>4 DEF ListContract!Change
    <3> QED
      BY <1>0, <3>5 DEF ListContract!LNext
  <2> QED
    BY <2>4, <2>5
<1>6. ASSUME NEW p \in Processes, Unlock(p) PROVE step
  <2>1. /\ Move(p, "idle") /\ UNCHANGED <<file, cache>> /\ place[p] = "unlock"
        /\ \A q \in Processes : q # p => opOf'[q] = opOf[q] /\ disk'[q] = disk[q]
    BY <1>6 DEF Unlock, Lists, CallInv, TrendTypes
  <2>2. TrendList' = TrendList /\ TrendView' = TrendView
    BY <2>1, MoveTo, ListStays, SameView DEF Lists
  <2>3. TrendAsked' = TrendAsked
    BY <2>1, IdleStep DEF Underway
  <2> QED
    BY <1>0, <2>2, <2>3 DEF ListContract!lvars
<1>7. ASSUME NEW p \in Processes, Refresh(p) PROVE step
  <2>1. UNCHANGED <<file, opOf, disk>> /\ place[p] = "idle"
    BY <1>7 DEF Refresh
  <2>2. place' = place \/ \E where \in {"stat", "aside"} : Move(p, where)
    BY <1>7 DEF Refresh
  <2>3. TrendList' = TrendList
    BY <2>1, <2>2, MoveTo, ListStays DEF Lists
  <2>4. TrendAsked' = TrendAsked
    <3>1. CASE place' = place
      BY <2>1, <3>1 DEF TrendAsked
    <3>2. CASE \E where \in {"stat", "aside"} : Move(p, where)
      BY <2>1, <3>2, IdleStep DEF Underway
    <3> QED
      BY <2>2, <3>1, <3>2
  <2>5. \E seen \in {TrendList, Data!EmptyTrendData} : TrendView' = [TrendView EXCEPT ![p] = seen]
    <3>1. CASE cache' = [cache EXCEPT ![p] = [data |-> Data!EmptyTrendData, stamp |-> 0]]
      BY <3>1, CacheStep
    <3>2. CASE cache' = [cache EXCEPT ![p].data = FileList]
      <4>1. TrendView' = [TrendView EXCEPT ![p] = FileList]
        BY <3>2, SeenStep
      <4>2. FileList \in {TrendList, Data!EmptyTrendData}
        BY ListInFile DEF FileList
      <4> QED
        BY <4>1, <4>2
    <3> QED
      BY <1>7, <3>1, <3>2 DEF Refresh, FileList
  <2>6. ListContract!Look(p)
    BY <2>3, <2>4, <2>5 DEF ListContract!Look
  <2> QED
    BY <1>0, <2>6 DEF ListContract!LNext
<1>8. ASSUME NEW p \in Processes, Aside(p) PROVE step
  <2>1. /\ Move(p, "stat") /\ UNCHANGED <<opOf, disk, cache>> /\ place[p] = "aside"
        /\ file' = file \/ file'.kind # "good"
    BY <1>8, EmptyFile DEF Aside, MoveAside
  <2>2. TrendList' = TrendList \/ TrendList' = Data!EmptyTrendData
    BY <2>1, MoveTo, ListStays DEF Lists
  <2>3. TrendView' = TrendView /\ TrendAsked' = TrendAsked
    BY <2>1, IdleStep, SameView DEF Underway
  <2> QED
    BY <1>0, <2>2, <2>3 DEF ListContract!LNext, ListContract!GiveUpList, ListContract!Lost,
                      ListContract!lvars
<1>9. ASSUME NEW p \in Processes, Stat(p) PROVE step
  <2>1. Move(p, "idle") /\ UNCHANGED <<file, opOf, disk>> /\ place[p] = "stat"
    BY <1>9 DEF Stat
  <2>2. TrendList' = TrendList
    BY <2>1, MoveTo, ListStays DEF Lists
  <2>3. TrendAsked' = TrendAsked
    BY <2>1, IdleStep DEF Underway
  <2>4. TrendView' = TrendView
    BY <1>9, SeenStep DEF Stat
  <2> QED
    BY <1>0, <2>2, <2>3, <2>4 DEF ListContract!lvars
<1>10. ASSUME NEW p \in Processes, Die(p) PROVE step
  <2>1. Move(p, "dead") /\ UNCHANGED <<file, opOf, disk, cache>>
    BY <1>10 DEF Die
  <2>2. TrendList' = TrendList \/ TrendList' = Data!EmptyTrendData
    <3>1. CASE place[p] = "write"
      <4>1. \A q \in Processes : place'[q] # "write"
        BY <2>1, <3>1, MoveTo, AloneInside DEF Inside, Lists
      <4>2. TrendList' = FileList
        BY <2>1, <4>1, ListIsNow DEF FileList
      <4> QED
        BY <4>2, ListInFile DEF FileList
    <3>2. CASE place[p] # "write"
      BY <2>1, <3>2, MoveTo, ListStays DEF Lists
    <3> QED
      BY <3>1, <3>2
  <2>3. CASE place[p] \in Underway
    <3>1. ListContract!GiveUp(p)
      BY <2>1, <2>2, <2>3, AnswerStep, SameView DEF Underway, ListContract!GiveUp, ListContract!Lost
    <3> QED
      BY <1>0, <3>1 DEF ListContract!LNext
  <2>4. CASE place[p] \notin Underway
    <3>1. TrendAsked' = TrendAsked /\ TrendView' = TrendView
      BY <2>1, <2>4, IdleStep, SameView DEF Underway
    <3> QED
      BY <1>0, <2>2, <3>1 DEF ListContract!LNext, ListContract!GiveUpList, ListContract!Lost,
                        ListContract!lvars
  <2> QED
    BY <2>3, <2>4
<1>11. CASE Damage
  <2>1. file'.kind # "good" /\ UNCHANGED <<place, opOf, disk, cache>>
    BY <1>11 DEF Damage, Lists, TrendTypes
  <2>2. TrendList' = TrendList \/ TrendList' = Data!EmptyTrendData
    BY <2>1, ListStays
  <2>3. TrendView' = TrendView /\ TrendAsked' = TrendAsked
    BY <2>1, SameView DEF TrendAsked
  <2> QED
    BY <1>0, <2>2, <2>3 DEF ListContract!LNext, ListContract!GiveUpList, ListContract!Lost,
                      ListContract!lvars
<1>12. CASE UNCHANGED storeVars \/ Age
  <2>1. TrendList' = TrendList /\ TrendView' = TrendView /\ TrendAsked' = TrendAsked
    BY <1>12 DEF storeVars, Age, TrendList, TrendView, TrendAsked
  <2> QED
    BY <1>0, <2>1 DEF ListContract!lvars
<1> QED
  BY <1>1, <1>2, <1>3, <1>4, <1>5, <1>6, <1>7, <1>8, <1>9, <1>10, <1>11, <1>12
     DEF TSNext, CallStep, ReadStep

\* The processes change one list, one whole change after the other and each at
\* most once, and a reader sees a state the list had (mutate, refreshLocked),
\* until a lock is removed while its maker is at work (lockTrendFile).
THEOREM TrendRefinement == TSSpec => KeepsList
<1>1. TSInit => Lists /\ ListContract!LInit
  <2> SUFFICES ASSUME TSInit PROVE Lists /\ ListContract!LInit
    OBVIOUS
  <2>1. Lists
    BY TrendInitial, CallInitial DEF TSInit, TrendInv, Lists
  <2>2. file.kind = "none" /\ \A p \in Processes : place[p] = "idle"
    BY DEF TSInit, NoFile
  <2>3. TrendList = Data!EmptyTrendData
    BY <2>2 DEF TrendList
  <2>4. /\ TrendView = [p \in Processes |-> Data!EmptyTrendData]
        /\ TrendAsked = [p \in Processes |-> NoOp]
    BY <2>2 DEF TSInit, TrendView, TrendAsked, Underway
  <2>5. ~robbed
    BY DEF TSInit
  <2> QED
    BY <2>1, <2>3, <2>4, <2>5 DEF ListContract!LInit
<1> DEFINE Now == robbed \/ Lists
<1>2. Now /\ [TSNext]_storeVars => Now'
  BY RobbedStays, TrendTypesStep, LockStep, ListsStep DEF Lists
<1>3. Now /\ Now' /\ [TSNext]_storeVars => [ListContract!LNext]_(ListContract!lvars)
  <2> SUFFICES ASSUME Now, Now', [TSNext]_storeVars, ~robbed'
               PROVE  [ListContract!LNext]_(ListContract!lvars)
    BY DEF ListContract!LNext
  <2>1. Lists /\ Lists'
    BY RobbedStays
  <2> QED
    BY <2>1, ContractStep
<1> QED
  BY <1>1, <1>2, <1>3, PTL DEF TSSpec, KeepsList, ListContract!LSpec

-----------------------------------------------------------------------------
(***************************************************************************)
(* The files the server names.  A start whose path was blank owns the name *)
(* it reserved until it ends; what has data is never reserved again, so no *)
(* second owner writes to it (OwnerInv).  A file that stays empty has an   *)
(* owner that has not ended (EmptyInv).                                    *)
(***************************************************************************)

At(n) == starts[n].at

FileTypes ==
    /\ starts \in [StartNos ->
          [at : {"none", "check", "reserve", "connect", "run", "ended"}, path : AllFiles \cup {""},
           made : SUBSET FileNames, tries : Nat, blank : BOOLEAN]]
    /\ fileDisk \in [AllFiles -> {"none", "empty", "data"}]
    /\ wroteTo \in [AllFiles -> SUBSET StartNos]
    /\ appPath \in AllFiles \cup {""} /\ chosen \subseteq FileNames

\* What a start has made by where it is.
MadeInv ==
    \A n \in StartNos :
        /\ At(n) \in {"none", "check", "reserve"} => starts[n].made = {}
        /\ At(n) \in {"check", "reserve", "connect"} => \A f \in AllFiles : n \notin wroteTo[f]
        /\ At(n) = "none" => \A f \in AllFiles : n \notin wroteTo[f]
        /\ starts[n].blank /\ At(n) \in {"connect", "run"} =>
              starts[n].path \in FileNames /\ starts[n].made = {starts[n].path}
        /\ At(n) \in {"check", "reserve"} => (starts[n].blank <=> starts[n].path = "")
        /\ At(n) = "reserve" => starts[n].blank
        /\ starts[n].made # {} => starts[n].blank
        /\ At(n) \in {"connect", "run"} => starts[n].path \in AllFiles

\* The blank starts that have the name f, or have had it and wrote to it.
Owners(f) == {n \in StartNos : /\ starts[n].blank
                               /\ \/ At(n) \in {"connect", "run"} /\ starts[n].path = f
                                  \/ n \in wroteTo[f]}

OwnerInv ==
    \A f \in FileNames :
        /\ \A n, m \in Owners(f) : n = m
        /\ fileDisk[f] = "none" => Owners(f) = {}
        /\ wroteTo[f] # {} => fileDisk[f] = "data"

EmptyInv ==
    \A f \in FileNames :
        fileDisk[f] = "empty" => \E n \in StartNos : f \in starts[n].made /\ ~Ended(n)

FilesInv == FileTypes /\ MadeInv /\ OwnerInv /\ EmptyInv

LEMMA FilesInitial == FInit => FilesInv
<1> SUFFICES ASSUME FInit PROVE FilesInv
  OBVIOUS
<1>1. \A n \in StartNos : starts[n] = NoStart
  BY DEF FInit
<1>2. FileTypes
  <2>1. NoStart \in [at : {"none", "check", "reserve", "connect", "run", "ended"},
                     path : AllFiles \cup {""}, made : SUBSET FileNames, tries : Nat,
                     blank : BOOLEAN]
    BY DEF NoStart
  <2> QED
    BY <2>1 DEF FInit, FileTypes, AllFiles
<1>3. MadeInv
  BY <1>1 DEF FInit, MadeInv, At, NoStart
<1>4. OwnerInv
  <2>1. \A f \in FileNames : wroteTo[f] = {} /\ fileDisk[f] = "none"
    BY DEF FInit, AllFiles
  <2>2. \A f \in FileNames : Owners(f) = {}
    <3>1. \A n \in StartNos : ~starts[n].blank
      <4>1. NoStart.blank = FALSE
        BY DEF NoStart
      <4> QED
        BY <1>1, <4>1
    <3> QED
      BY <3>1 DEF Owners
  <2> QED
    BY <2>1, <2>2 DEF OwnerInv
<1>5. EmptyInv
  BY DEF FInit, EmptyInv, AllFiles
<1> QED
  BY <1>2, <1>3, <1>4, <1>5 DEF FilesInv

\* A start that only goes to another place.
Goes(n, where) ==
    /\ At(n)' = where
    /\ starts'[n].path = starts[n].path /\ starts'[n].made = starts[n].made
    /\ starts'[n].blank = starts[n].blank
    /\ \A m \in StartNos \ {n} : starts'[m] = starts[m]

LEMMA GoesTo ==
  ASSUME FileTypes, NEW n \in StartNos,
         NEW where \in {"none", "check", "reserve", "connect", "run", "ended"},
         starts' = [starts EXCEPT ![n].at = where]
  PROVE  /\ Goes(n, where)
         /\ starts' \in [StartNos ->
               [at : {"none", "check", "reserve", "connect", "run", "ended"},
                path : AllFiles \cup {""}, made : SUBSET FileNames, tries : Nat,
                blank : BOOLEAN]]
  BY DEF FileTypes, Goes, At

LEMMA FileTypesStep ==
  ASSUME FileTypes, [FileNext]_fileVars
  PROVE  FileTypes'
<1>1. CASE UNCHANGED fileVars
  BY <1>1 DEF FileTypes, fileVars
<1>2. ASSUME NEW n \in StartNos, NEW path \in Submitted, BeginStart(n, path) PROVE FileTypes'
  <2>1. path \in AllFiles \cup {""}
    BY DEF Submitted, Shown, FileTypes, AllFiles
  <2>2. [NoStart EXCEPT !.at = "check", !.path = path, !.blank = path = ""] \in
           [at : {"none", "check", "reserve", "connect", "run", "ended"}, path : AllFiles \cup {""},
            made : SUBSET FileNames, tries : Nat, blank : BOOLEAN]
    BY <2>1 DEF NoStart
  <2> QED
    BY <1>2, <2>2 DEF BeginStart, FileTypes
<1>3. ASSUME NEW n \in StartNos, Invalid(n) PROVE FileTypes'
  BY <1>3, GoesTo DEF Invalid, Aborted, FileTypes
<1>4. ASSUME NEW n \in StartNos, Valid(n) PROVE FileTypes'
  <2>1. PICK where \in {"reserve", "connect"} : starts' = [starts EXCEPT ![n].at = where]
    BY <1>4 DEF Valid
  <2> QED
    BY <1>4, <2>1, GoesTo DEF Valid, FileTypes
<1>5. ASSUME NEW n \in StartNos, ConnectFails(n) PROVE FileTypes'
  <2>1. fileDisk' \in [AllFiles -> {"none", "empty", "data"}]
    BY <1>5 DEF ConnectFails, WithoutEmpty, FileTypes
  <2> QED
    BY <1>5, <2>1, GoesTo DEF ConnectFails, Aborted, FileTypes
<1>6. ASSUME NEW n \in StartNos, Launch(n) PROVE FileTypes'
  <2>1. appPath' \in AllFiles \cup {""}
    BY <1>6 DEF Launch, FileTypes
  <2> QED
    BY <1>6, <2>1, GoesTo DEF Launch, FileTypes
<1>7. ASSUME NEW n \in StartNos, WriteFile(n) PROVE FileTypes'
  BY <1>7 DEF WriteFile, FileTypes
<1>8. ASSUME NEW n \in StartNos, EndRun(n) PROVE FileTypes'
  <2>1. fileDisk' \in [AllFiles -> {"none", "empty", "data"}]
    BY <1>8 DEF EndRun, EndWith, WithoutEmpty, FileTypes
  <2> QED
    BY <1>8, <2>1, GoesTo DEF EndRun, EndWith, FileTypes
<1>9. ASSUME NEW n \in StartNos, NEW f \in FileNames, Reserve(n, f) PROVE FileTypes'
  <2>1. CASE fileDisk[f] = "none"
    <3>1. /\ fileDisk' = [fileDisk EXCEPT ![f] = "empty"] /\ chosen' = {f}
          /\ starts' = [starts EXCEPT ![n] = [@ EXCEPT !.at = "connect", !.path = f, !.made = {f}]]
          /\ UNCHANGED <<appPath, wroteTo>>
      BY <1>9, <2>1 DEF Reserve, ReserveIf
    <3> QED
      BY <3>1 DEF FileTypes, AllFiles
  <2>2. CASE fileDisk[f] # "none"
    <3>1. UNCHANGED <<fileDisk, chosen, appPath, wroteTo>>
      BY <1>9, <2>2 DEF Reserve, ReserveIf
    <3>2. CASE starts' = [starts EXCEPT ![n].tries = @ + 1]
      <4>1. starts[n].tries + 1 \in Nat
        <5>1. starts[n].tries \in Nat
          BY DEF FileTypes
        <5> QED
          BY <5>1
      <4>2. starts' \in [StartNos ->
               [at : {"none", "check", "reserve", "connect", "run", "ended"},
                path : AllFiles \cup {""}, made : SUBSET FileNames, tries : Nat,
                blank : BOOLEAN]]
        BY <3>2, <4>1 DEF FileTypes
      <4> QED
        BY <3>1, <4>2 DEF FileTypes
    <3>3. CASE starts' = [starts EXCEPT ![n].at = "ended"]
      BY <3>1, <3>3, GoesTo DEF FileTypes
    <3> QED
      BY <1>9, <2>2, <3>2, <3>3 DEF Reserve, ReserveIf, Aborted
  <2> QED
    BY <2>1, <2>2
<1>10. CASE StopFiles
  BY <1>10 DEF StopFiles, FileTypes
<1> QED
  BY <1>1, <1>2, <1>3, <1>4, <1>5, <1>6, <1>7, <1>8, <1>9, <1>10 DEF FileNext

\* What the steps do to the starts and the files, without their form.
Reserves(n, f) ==
    /\ At(n) = "reserve" /\ At(n)' = "connect" /\ fileDisk[f] = "none" /\ fileDisk'[f] = "empty"
    /\ starts'[n].path = f /\ starts'[n].made = {f} /\ starts'[n].blank = starts[n].blank
    /\ \A m \in StartNos \ {n} : starts'[m] = starts[m]
    /\ \A g \in AllFiles \ {f} : fileDisk'[g] = fileDisk[g]

Writes(n) ==
    /\ At(n) = "run" /\ starts' = starts
    /\ fileDisk'[starts[n].path] = "data"
    /\ \A g \in AllFiles \ {starts[n].path} : fileDisk'[g] = fileDisk[g] /\ wroteTo'[g] = wroteTo[g]
    /\ wroteTo'[starts[n].path] = wroteTo[starts[n].path] \cup {n}

Begins(n) ==
    /\ At(n) = "none" /\ At(n)' = "check" /\ starts'[n].made = {}
    /\ starts'[n].blank <=> starts'[n].path = ""
    /\ UNCHANGED fileDisk
    /\ \A m \in StartNos \ {n} : starts'[m] = starts[m]

\* The start goes on or ends, and its empty files go when it ends.
Moves(n) ==
    /\ \/ At(n) = "check" /\ Goes(n, "connect") /\ ~starts[n].blank
       \/ At(n) = "check" /\ Goes(n, "reserve") /\ starts[n].blank
       \/ At(n) = "connect" /\ Goes(n, "run")
       \/ At(n) \in {"check", "reserve"} /\ Goes(n, "ended")
       \/ At(n) = "reserve" /\ Goes(n, "reserve")
    /\ UNCHANGED fileDisk

Leaves(n) ==
    /\ At(n) \in {"connect", "run"} /\ Goes(n, "ended")
    /\ fileDisk' = WithoutEmpty(starts[n].made)

\* Every step that changes the starts or the files is one of these.
LEMMA FileSteps ==
  ASSUME FilesInv, [FileNext]_fileVars
  PROVE  \/ UNCHANGED <<starts, fileDisk, wroteTo>>
         \/ \E n \in StartNos : Writes(n)
         \/ /\ UNCHANGED wroteTo
            /\ \E n \in StartNos :
                  \/ Moves(n) \/ Leaves(n) \/ Begins(n)
                  \/ \E f \in FileNames : Reserves(n, f)
<1>0. FileTypes /\ MadeInv
  BY DEF FilesInv
<1>1. CASE UNCHANGED fileVars
  BY <1>1 DEF fileVars
<1>2. ASSUME NEW n \in StartNos, NEW path \in Submitted, BeginStart(n, path)
      PROVE  UNCHANGED wroteTo /\ Begins(n)
  BY <1>0, <1>2 DEF BeginStart, Begins, At, NoStart, FileTypes
<1>3. ASSUME NEW n \in StartNos, Invalid(n) PROVE UNCHANGED wroteTo /\ Moves(n)
  BY <1>0, <1>3, GoesTo DEF Invalid, Aborted, Moves, At
<1>4. ASSUME NEW n \in StartNos, Valid(n) PROVE UNCHANGED wroteTo /\ Moves(n)
  <2>1. starts[n].blank <=> starts[n].path = ""
    BY <1>0, <1>4 DEF Valid, MadeInv, At
  <2>2. CASE starts[n].path = ""
    BY <1>0, <1>4, <2>1, <2>2, GoesTo DEF Valid, Moves, At
  <2>3. CASE starts[n].path # ""
    BY <1>0, <1>4, <2>1, <2>3, GoesTo DEF Valid, Moves, At
  <2> QED
    BY <2>2, <2>3
<1>5. ASSUME NEW n \in StartNos, ConnectFails(n) PROVE UNCHANGED wroteTo /\ Leaves(n)
  BY <1>0, <1>5, GoesTo DEF ConnectFails, Aborted, Leaves, At
<1>6. ASSUME NEW n \in StartNos, Launch(n) PROVE UNCHANGED wroteTo /\ Moves(n)
  BY <1>0, <1>6, GoesTo DEF Launch, Moves, At
<1>7. ASSUME NEW n \in StartNos, WriteFile(n) PROVE Writes(n)
  <2>1. starts[n].path \in AllFiles
    BY <1>0, <1>7 DEF WriteFile, MadeInv, At
  <2> QED
    BY <1>0, <1>7, <2>1 DEF WriteFile, Writes, At, FileTypes
<1>8. ASSUME NEW n \in StartNos, EndRun(n) PROVE UNCHANGED wroteTo /\ Leaves(n)
  BY <1>0, <1>8, GoesTo DEF EndRun, EndWith, Leaves, At
<1>9. ASSUME NEW n \in StartNos, NEW f \in FileNames, Reserve(n, f)
      PROVE  UNCHANGED wroteTo /\ (Moves(n) \/ Reserves(n, f))
  <2>1. CASE fileDisk[f] = "none"
    <3>1. /\ fileDisk' = [fileDisk EXCEPT ![f] = "empty"] /\ At(n) = "reserve"
          /\ starts' = [starts EXCEPT ![n] = [@ EXCEPT !.at = "connect", !.path = f, !.made = {f}]]
          /\ UNCHANGED wroteTo
      BY <1>9, <2>1 DEF Reserve, ReserveIf, At
    <3>2. /\ starts'[n] = [starts[n] EXCEPT !.at = "connect", !.path = f, !.made = {f}]
          /\ \A m \in StartNos \ {n} : starts'[m] = starts[m]
          /\ starts[n] \in [at : {"none", "check", "reserve", "connect", "run", "ended"},
                path : AllFiles \cup {""}, made : SUBSET FileNames, tries : Nat,
                blank : BOOLEAN]
      BY <1>0, <3>1 DEF FileTypes
    <3>3. /\ starts'[n].at = "connect" /\ starts'[n].path = f /\ starts'[n].made = {f}
          /\ starts'[n].blank = starts[n].blank
      BY <3>2
    <3>4. fileDisk'[f] = "empty" /\ \A g \in AllFiles \ {f} : fileDisk'[g] = fileDisk[g]
      BY <1>0, <3>1 DEF FileTypes, AllFiles
    <3> QED
      BY <2>1, <3>1, <3>2, <3>3, <3>4 DEF Reserves, At
  <2>2. CASE fileDisk[f] # "none"
    <3>1. UNCHANGED <<fileDisk, wroteTo>> /\ At(n) = "reserve"
      BY <1>9, <2>2 DEF Reserve, ReserveIf, At
    <3>2. CASE starts' = [starts EXCEPT ![n].tries = @ + 1]
      <4>1. Goes(n, "reserve")
        BY <1>0, <3>1, <3>2 DEF Goes, At, FileTypes
      <4> QED
        BY <3>1, <4>1 DEF Moves
    <3>3. CASE starts' = [starts EXCEPT ![n].at = "ended"]
      BY <1>0, <3>1, <3>3, GoesTo DEF Moves
    <3> QED
      BY <1>9, <2>2, <3>1, <3>2, <3>3 DEF Reserve, ReserveIf, Aborted
  <2> QED
    BY <2>1, <2>2
<1>10. CASE StopFiles
  BY <1>10 DEF StopFiles
<1> QED
  BY <1>1, <1>2, <1>3, <1>4, <1>5, <1>6, <1>7, <1>8, <1>9, <1>10 DEF FileNext

LEMMA MadeStep ==
  ASSUME FilesInv, [FileNext]_fileVars
  PROVE  MadeInv'
<1>0. FileTypes /\ MadeInv
  BY DEF FilesInv
<1>1. CASE UNCHANGED <<starts, fileDisk, wroteTo>>
  BY <1>0, <1>1 DEF MadeInv, At
<1>2. ASSUME NEW n \in StartNos, Writes(n) PROVE MadeInv'
  <2>1. starts[n].path \in AllFiles
    BY <1>0, <1>2 DEF MadeInv, Writes
  <2>2. \A m \in StartNos \ {n} : \A g \in AllFiles : m \in wroteTo'[g] => m \in wroteTo[g]
    BY <1>2, <2>1 DEF Writes
  <2> QED
    BY <1>0, <1>2, <2>2 DEF MadeInv, At, Writes
<1>3. ASSUME UNCHANGED wroteTo, NEW n \in StartNos, Moves(n) \/ Leaves(n) PROVE MadeInv'
  <2>1. \A m \in StartNos \ {n} : starts'[m] = starts[m]
    BY <1>3 DEF Moves, Leaves, Goes
  <2>2. /\ starts'[n].path = starts[n].path /\ starts'[n].made = starts[n].made
        /\ starts'[n].blank = starts[n].blank
    BY <1>3 DEF Moves, Leaves, Goes
  <2>3. \/ At(n) = "check" /\ At(n)' = "connect" /\ ~starts[n].blank
        \/ At(n) = "check" /\ At(n)' = "reserve" /\ starts[n].blank
        \/ At(n) = "connect" /\ At(n)' = "run"
        \/ At(n)' = "ended"
        \/ At(n) = "reserve" /\ At(n)' = "reserve"
    BY <1>3 DEF Moves, Leaves, Goes
  <2>4. At(n) = "check" /\ ~starts[n].blank => starts[n].path \in AllFiles
    <3>1. starts[n].path \in AllFiles \cup {""}
      BY <1>0 DEF FileTypes
    <3> QED
      BY <1>0, <3>1 DEF MadeInv
  <2> QED
    <3> SUFFICES ASSUME NEW m \in StartNos
                 PROVE  /\ At(m)' \in {"none", "check", "reserve"} => starts'[m].made = {}
                        /\ At(m)' \in {"check", "reserve", "connect"} =>
                              \A f \in AllFiles : m \notin wroteTo'[f]
                        /\ At(m)' = "none" => \A f \in AllFiles : m \notin wroteTo'[f]
                        /\ starts'[m].blank /\ At(m)' \in {"connect", "run"} =>
                              /\ starts'[m].path \in FileNames
                              /\ starts'[m].made = {starts'[m].path}
                        /\ At(m)' \in {"check", "reserve"} =>
                              (starts'[m].blank <=> starts'[m].path = "")
                        /\ At(m)' = "reserve" => starts'[m].blank
                        /\ starts'[m].made # {} => starts'[m].blank
                        /\ At(m)' \in {"connect", "run"} => starts'[m].path \in AllFiles
      BY DEF MadeInv, At
    <3>1. CASE m # n
      BY <1>0, <1>3, <2>1, <3>1 DEF MadeInv, At
    <3>2. CASE m = n
      BY <1>0, <1>3, <2>2, <2>3, <2>4, <3>2 DEF MadeInv
    <3> QED
      BY <3>1, <3>2
<1>4. ASSUME UNCHANGED wroteTo, NEW n \in StartNos, Begins(n) PROVE MadeInv'
  BY <1>0, <1>4 DEF MadeInv, At, Begins
<1>5. ASSUME UNCHANGED wroteTo, NEW n \in StartNos, NEW f \in FileNames, Reserves(n, f)
      PROVE  MadeInv'
  BY <1>0, <1>5 DEF MadeInv, At, Reserves, AllFiles
<1> QED
  BY <1>1, <1>2, <1>3, <1>4, <1>5, FileSteps

\* What goes with its start was empty, and its own.
LEMMA LeavesFiles ==
  ASSUME FileTypes, NEW n \in StartNos, Leaves(n), NEW f \in FileNames
  PROVE  fileDisk'[f] = IF f \in starts[n].made /\ fileDisk[f] = "empty" THEN "none"
                        ELSE fileDisk[f]
  BY DEF Leaves, WithoutEmpty, AllFiles

LEMMA OwnerStep ==
  ASSUME FilesInv, [FileNext]_fileVars
  PROVE  OwnerInv'
<1>0. FileTypes /\ MadeInv /\ OwnerInv
  BY DEF FilesInv
<1>1. CASE UNCHANGED <<starts, fileDisk, wroteTo>>
  BY <1>0, <1>1 DEF OwnerInv, Owners, At
<1>2. ASSUME NEW n \in StartNos, Writes(n) PROVE OwnerInv'
  <2> SUFFICES ASSUME NEW f \in FileNames
               PROVE  /\ \A a, b \in Owners(f)' : a = b
                      /\ fileDisk'[f] = "none" => Owners(f)' = {}
                      /\ wroteTo'[f] # {} => fileDisk'[f] = "data"
    BY DEF OwnerInv
  <2>1. CASE f # starts[n].path
    <3>1. fileDisk'[f] = fileDisk[f] /\ wroteTo'[f] = wroteTo[f] /\ starts' = starts
      BY <1>2, <2>1 DEF Writes, AllFiles
    <3>2. Owners(f)' = Owners(f)
      BY <3>1 DEF Owners, At
    <3> QED
      BY <1>0, <3>1, <3>2 DEF OwnerInv
  <2>2. CASE f = starts[n].path
    <3>1. /\ fileDisk'[f] = "data" /\ wroteTo'[f] = wroteTo[f] \cup {n} /\ starts' = starts
          /\ At(n) = "run"
      BY <1>2, <2>2 DEF Writes
    <3>2. \A m \in Owners(f)' : m \in Owners(f)
      BY <2>2, <3>1 DEF Owners, At
    <3> QED
      BY <1>0, <3>1, <3>2 DEF OwnerInv
  <2> QED
    BY <2>1, <2>2
\* A start without the name is no owner, and one that ends is one no more.
<1>3. ASSUME UNCHANGED wroteTo, NEW n \in StartNos, Moves(n) \/ Leaves(n) \/ Begins(n),
             NEW f \in FileNames
      PROVE  Owners(f)' \subseteq Owners(f)
  <2>1. \A m \in StartNos \ {n} : starts'[m] = starts[m]
    BY <1>3 DEF Moves, Leaves, Begins, Goes
  <2>2. n \in Owners(f)' => n \in Owners(f)
    <3>1. CASE Begins(n)
      <4>1. \A g \in AllFiles : n \notin wroteTo[g]
        BY <1>0, <3>1 DEF Begins, MadeInv
      <4> QED
        BY <1>3, <3>1, <4>1 DEF Owners, Begins, AllFiles
    <3>2. CASE Leaves(n)
      BY <1>3, <3>2 DEF Owners, Leaves, Goes
    <3>3. CASE Moves(n)
      BY <1>3, <3>3 DEF Owners, Moves, Goes
    <3> QED
      BY <1>3, <3>1, <3>2, <3>3
  <2> QED
    BY <1>3, <2>1, <2>2 DEF Owners, At
<1>4. ASSUME UNCHANGED wroteTo, NEW n \in StartNos, Moves(n) \/ Begins(n) PROVE OwnerInv'
  <2>1. UNCHANGED fileDisk
    BY <1>4 DEF Moves, Begins
  <2>2. \A f \in FileNames : Owners(f)' \subseteq Owners(f)
    BY <1>3, <1>4
  <2> QED
    BY <1>0, <1>4, <2>1, <2>2 DEF OwnerInv
<1>5. ASSUME UNCHANGED wroteTo, NEW n \in StartNos, Leaves(n) PROVE OwnerInv'
  <2> SUFFICES ASSUME NEW f \in FileNames
               PROVE  /\ \A a, b \in Owners(f)' : a = b
                      /\ fileDisk'[f] = "none" => Owners(f)' = {}
                      /\ wroteTo'[f] # {} => fileDisk'[f] = "data"
    BY DEF OwnerInv
  <2>1. Owners(f)' \subseteq Owners(f)
    BY <1>3, <1>5
  <2>2. fileDisk'[f] = IF f \in starts[n].made /\ fileDisk[f] = "empty" THEN "none"
                       ELSE fileDisk[f]
    BY <1>0, <1>5, LeavesFiles
  <2>3. f \in starts[n].made /\ fileDisk[f] = "empty" => Owners(f)' = {}
    <3> SUFFICES ASSUME f \in starts[n].made, fileDisk[f] = "empty" PROVE Owners(f)' = {}
      OBVIOUS
    <3>1. n \in Owners(f) /\ wroteTo[f] = {}
      <4>1. starts[n].blank /\ At(n) \in {"connect", "run"}
        BY <1>0, <1>5 DEF MadeInv, Leaves
      <4>2. starts[n].made = {starts[n].path}
        BY <1>0, <4>1 DEF MadeInv
      <4>3. wroteTo[f] = {}
        BY <1>0 DEF OwnerInv
      <4> QED
        BY <4>1, <4>2, <4>3 DEF Owners
    <3>2. Owners(f)' \subseteq {n}
      BY <1>0, <2>1, <3>1 DEF OwnerInv
    <3>3. n \notin Owners(f)'
      BY <1>5, <3>1 DEF Owners, Leaves, Goes
    <3> QED
      BY <3>2, <3>3
  <2> QED
    BY <1>0, <1>5, <2>1, <2>2, <2>3 DEF OwnerInv
<1>6. ASSUME UNCHANGED wroteTo, NEW n \in StartNos, NEW f \in FileNames, Reserves(n, f)
      PROVE  OwnerInv'
  <2> SUFFICES ASSUME NEW g \in FileNames
               PROVE  /\ \A a, b \in Owners(g)' : a = b
                      /\ fileDisk'[g] = "none" => Owners(g)' = {}
                      /\ wroteTo'[g] # {} => fileDisk'[g] = "data"
    BY DEF OwnerInv
  <2>1. \A m \in StartNos \ {n} : m \in Owners(g)' => m \in Owners(g)
    BY <1>6 DEF Reserves, Owners, At
  <2>2. \A h \in AllFiles : n \notin wroteTo[h]
    BY <1>0, <1>6 DEF Reserves, MadeInv
  <2>3. CASE g # f
    <3>1. n \notin Owners(g)'
      BY <1>6, <2>2, <2>3 DEF Reserves, Owners, AllFiles
    <3>2. Owners(g)' \subseteq Owners(g)
      BY <2>1, <3>1 DEF Owners
    <3>3. fileDisk'[g] = fileDisk[g]
      BY <1>6, <2>3 DEF Reserves, AllFiles
    <3> QED
      BY <1>0, <1>6, <3>2, <3>3 DEF OwnerInv
  <2>4. CASE g = f
    <3>1. fileDisk[f] = "none" /\ fileDisk'[f] = "empty"
      BY <1>6 DEF Reserves
    <3>2. Owners(f) = {} /\ wroteTo[f] = {}
      BY <1>0, <3>1 DEF OwnerInv
    <3>3. Owners(f)' \subseteq {n}
      BY <2>1, <2>4, <3>2 DEF Owners
    <3> QED
      BY <1>6, <2>4, <3>1, <3>2, <3>3
  <2> QED
    BY <2>3, <2>4
<1> QED
  BY <1>1, <1>2, <1>4, <1>5, <1>6, FileSteps

LEMMA EmptyStep ==
  ASSUME FilesInv, [FileNext]_fileVars
  PROVE  EmptyInv'
<1>0. FileTypes /\ MadeInv /\ OwnerInv /\ EmptyInv
  BY DEF FilesInv
<1> SUFFICES ASSUME NEW f \in FileNames, fileDisk'[f] = "empty"
             PROVE  \E n \in StartNos : f \in starts'[n].made /\ starts'[n].at # "ended"
  BY DEF EmptyInv, Ended
<1>1. CASE UNCHANGED <<starts, fileDisk, wroteTo>>
  BY <1>0, <1>1 DEF EmptyInv, Ended
<1>2. ASSUME NEW n \in StartNos, Writes(n)
      PROVE  \E m \in StartNos : f \in starts'[m].made /\ starts'[m].at # "ended"
  <2>1. fileDisk[f] = "empty" /\ starts' = starts
    BY <1>2 DEF Writes, AllFiles
  <2> QED
    BY <1>0, <2>1 DEF EmptyInv, Ended
<1>3. ASSUME NEW n \in StartNos, Moves(n) \/ Leaves(n) \/ Begins(n)
      PROVE  \E m \in StartNos : f \in starts'[m].made /\ starts'[m].at # "ended"
  <2>1. fileDisk[f] = "empty"
    BY <1>0, <1>3, LeavesFiles DEF Moves, Begins
  <2>2. PICK m \in StartNos : f \in starts[m].made /\ ~Ended(m)
    BY <1>0, <2>1 DEF EmptyInv
  <2>3. CASE m # n
    BY <1>3, <2>2, <2>3 DEF Moves, Leaves, Begins, Goes, Ended
  <2>4. CASE m = n
    <3>1. At(n) \notin {"none", "check", "reserve"}
      BY <1>0, <2>2, <2>4 DEF MadeInv
    <3>2. CASE Leaves(n)
      BY <1>0, <2>1, <2>2, <2>4, <3>2, LeavesFiles
    <3>3. CASE Moves(n)
      <4>1. Goes(n, "run")
        BY <3>1, <3>3 DEF Moves
      <4> QED
        BY <2>2, <2>4, <4>1 DEF Goes, At
    <3> QED
      BY <1>3, <3>1, <3>2, <3>3 DEF Begins
  <2> QED
    BY <2>3, <2>4
<1>4. ASSUME NEW n \in StartNos, NEW g \in FileNames, Reserves(n, g)
      PROVE  \E m \in StartNos : f \in starts'[m].made /\ starts'[m].at # "ended"
  <2>1. CASE f = g
    BY <1>4, <2>1 DEF Reserves, At
  <2>2. CASE f # g
    <3>1. fileDisk[f] = "empty"
      BY <1>4, <2>2 DEF Reserves, AllFiles
    <3>2. PICK m \in StartNos : f \in starts[m].made /\ ~Ended(m)
      BY <1>0, <3>1 DEF EmptyInv
    <3>3. m # n
      BY <1>0, <1>4, <3>2 DEF MadeInv, Reserves
    <3> QED
      BY <1>4, <3>2, <3>3 DEF Reserves, Ended
  <2> QED
    BY <2>1, <2>2
<1> QED
  BY <1>1, <1>2, <1>3, <1>4, FileSteps

\* A run whose path was blank gets a file no run wrote before; no other run
\* with a blank path writes to it ever, what a run wrote stays, and a reserved
\* file nobody wrote goes with its run (reserveGenerated, removeEmptyFiles).
THEOREM FilesTheorem == FileSpec => []GeneratedFilesKept
<1>1. FInit => FilesInv
  BY FilesInitial
<1>2. FilesInv /\ [FileNext]_fileVars => FilesInv'
  BY FileTypesStep, MadeStep, OwnerStep, EmptyStep DEF FilesInv
<1>3. FilesInv => GeneratedFilesKept
  <2> SUFFICES ASSUME FilesInv, NEW f \in FileNames
               PROVE  /\ Cardinality({n \in wroteTo[f] : starts[n].blank}) <= 1
                      /\ wroteTo[f] # {} => fileDisk[f] = "data"
                      /\ (\A n \in StartNos : f \in starts[n].made => Ended(n))
                            => fileDisk[f] # "empty"
    BY DEF GeneratedFilesKept
  <2> DEFINE S == {n \in wroteTo[f] : starts[n].blank}
  <2>1. S \subseteq Owners(f)
    BY DEF FilesInv, FileTypes, Owners, AllFiles
  <2>2. \A n, m \in S : n = m
    BY <2>1 DEF FilesInv, OwnerInv
  <2> HIDE DEF S
  <2>3. Cardinality(S) <= 1
    <3>1. CASE S = {}
      BY <3>1, FS_EmptySet
    <3>2. CASE S # {}
      <4>1. PICK n : S = {n}
        BY <2>2, <3>2
      <4>2. Cardinality(S) = 1
        BY <4>1, FS_Singleton
      <4> QED
        BY <4>2
    <3> QED
      BY <3>1, <3>2
  <2> QED
    BY <2>3 DEF FilesInv, OwnerInv, EmptyInv, S
<1> QED
  BY <1>1, <1>2, <1>3, PTL DEF FileSpec

(***************************************************************************)
(* The dashboards of finished runs.  Each is written only by the one Save  *)
(* of its run, so a report either meets the file or waits for it           *)
(* (ReportInv), and whatever adds an unpinned dashboard prunes.            *)
(***************************************************************************)

\* The order of the naturals, as the set of pairs the library's theorems speak of.
NatOrder == {p \in Nat \X Nat : p[1] < p[2]}

\* A set of naturals that is not empty has a least member.
LEMMA LeastOf ==
    ASSUME NEW T, T \subseteq Nat, T # {}
    PROVE  \E m \in T : \A j \in T : m <= j
<1>1. IsWellFoundedOn(NatOrder, Nat)
  BY NatLessThanWellFounded DEF OpToRel, NatOrder
<1>2. PICK m \in T : \A j \in T : ~(<<j, m>> \in NatOrder)
  BY <1>1, WFMin
<1>3. ASSUME NEW j \in T PROVE m <= j
  <2>1. m \in Nat /\ j \in Nat
    OBVIOUS
  <2>2. ~(<<j, m>> \in NatOrder)
    BY <1>2
  <2>3. ~(j < m)
    BY <2>1, <2>2 DEF NatOrder
  <2> QED
    BY <2>1, <2>3
<1> QED
  BY <1>3

\* What pruneLocked keeps is no more than the policy says: all but the oldest of
\* them are newer than the oldest, and fewer than n are (NewestFiles).
LEMMA NewestBounded ==
    ASSUME NEW S, S \subseteq Nat, IsFiniteSet(S), NEW n \in Nat
    PROVE  IsFiniteSet(NewestFiles(S, n)) /\ Cardinality(NewestFiles(S, n)) <= n
<1> DEFINE T == NewestFiles(S, n)
<1>1. T \subseteq S
  BY DEF NewestFiles
<1>2. IsFiniteSet(T)
  BY <1>1, FS_Subset
<1>3. CASE T = {}
  <2>1. Cardinality(T) = 0
    BY <1>3, FS_EmptySet
  <2> QED
    BY <1>2, <2>1
<1>4. CASE T # {}
  <2>1. PICK m \in T : \A j \in T : m <= j
    BY <1>1, <1>4, LeastOf
  <2> DEFINE Later == {j \in S : j > m}
  <2>2. Cardinality(Later) < n
    BY <2>1 DEF NewestFiles
  <2>3. ASSUME NEW j \in T \ {m} PROVE j \in Later
    <3>1. j \in Nat /\ m \in Nat /\ j \in S
      BY <1>1
    <3>2. m <= j /\ j # m
      BY <2>1
    <3> QED
      BY <3>1, <3>2
  <2>4. IsFiniteSet(Later)
    BY FS_Subset
  <2>5. Cardinality(T \ {m}) <= Cardinality(Later)
    BY <2>3, <2>4, FS_Subset, T \ {m} \subseteq Later
  <2>6. Cardinality(T \ {m}) = Cardinality(T) - 1
    BY <1>2, <2>1, FS_RemoveElement
  <2>7. Cardinality(T) \in Nat /\ Cardinality(Later) \in Nat
    BY <1>2, <2>4, FS_CardinalityType
  <2> HIDE DEF T, Later
  <2>8. Cardinality(T) <= n
    BY <2>2, <2>5, <2>6, <2>7
  <2> QED
    BY <1>2, <2>8 DEF T
<1> QED
  BY <1>3, <1>4

DashboardFile == [kind : {"none", "good", "damaged"}, pinned : BOOLEAN, insights : BOOLEAN]
UnpinnedOf(f) == {i \in Dashboards : f[i].kind = "good" /\ ~f[i].pinned}
PinnedOf(f) == {i \in Dashboards : f[i].kind = "good" /\ f[i].pinned}

HistoryTypes ==
    /\ files \in [Dashboards -> DashboardFile]
    /\ attached \subseteq Dashboards

\* A report that was accepted waits until the dashboard is saved, and is in it then.
ReportInv ==
    \A i \in Dashboards :
        /\ files[i].kind = "good" => i \in savedOnce
        /\ i \in attached /\ i \notin savedOnce => i \in waiting
        /\ i \in attached /\ files[i].kind = "good" => files[i].insights

CountInv ==
    /\ Cardinality(UnpinnedOf(files)) <= KeepDashboards
    /\ Cardinality(PinnedOf(files)) <= MaxPinned

HistoryInv == HistoryTypes /\ ReportInv /\ CountInv

\* Pruning removes whole files, unpinned ones, and leaves no more than the policy.
LEMMA Pruned ==
    ASSUME NEW f \in [Dashboards -> DashboardFile]
    PROVE  /\ PruneLocked(f) \in [Dashboards -> DashboardFile]
           /\ \A i \in Dashboards : PruneLocked(f)[i] = f[i] \/ PruneLocked(f)[i] = None
           /\ Cardinality(UnpinnedOf(PruneLocked(f))) <= KeepDashboards
           /\ PinnedOf(PruneLocked(f)) = PinnedOf(f)
<1> DEFINE U == UnpinnedOf(f)
           g == PruneLocked(f)
<1>1. \A i \in Dashboards :
         g[i] = IF i \in U \ NewestFiles(U, KeepDashboards) THEN None ELSE f[i]
  BY DEF PruneLocked, UnpinnedOf
<1>2. None \in DashboardFile /\ None.kind # "good"
  BY DEF None, DashboardFile
<1>3. g \in [Dashboards -> DashboardFile]
  BY <1>2 DEF PruneLocked
<1>4. U \subseteq Nat /\ IsFiniteSet(U) /\ KeepDashboards \in Nat
  BY HistoryAssumption, FS_Subset DEF UnpinnedOf
<1>5. IsFiniteSet(NewestFiles(U, KeepDashboards)) /\ Cardinality(NewestFiles(U, KeepDashboards)) <= KeepDashboards
  BY <1>4, NewestBounded
<1>6. UnpinnedOf(g) \subseteq NewestFiles(U, KeepDashboards)
  BY <1>1, <1>2 DEF UnpinnedOf
<1>7. Cardinality(UnpinnedOf(g)) <= KeepDashboards
  <2>1. Cardinality(UnpinnedOf(g)) <= Cardinality(NewestFiles(U, KeepDashboards))
    BY <1>5, <1>6, FS_Subset
  <2>2. /\ Cardinality(UnpinnedOf(g)) \in Nat
        /\ Cardinality(NewestFiles(U, KeepDashboards)) \in Nat
    BY <1>5, <1>6, FS_Subset, FS_CardinalityType
  <2> HIDE DEF U, g
  <2> QED
    BY <1>4, <1>5, <2>1, <2>2
<1>8. PinnedOf(g) = PinnedOf(f)
  BY <1>1, <1>2 DEF PinnedOf, UnpinnedOf
<1> QED
  BY <1>1, <1>3, <1>7, <1>8

\* Fewer dashboards are within the same bounds.
LEMMA FewerKept ==
    ASSUME NEW n \in Nat, NEW S \in SUBSET Dashboards, NEW T \in SUBSET Dashboards,
           Cardinality(S) <= n, T \subseteq S
    PROVE  Cardinality(T) <= n
<1>1. IsFiniteSet(S) /\ IsFiniteSet(T)
  BY HistoryAssumption, FS_Subset
<1>2. Cardinality(T) <= Cardinality(S)
  BY <1>1, FS_Subset
<1>3. Cardinality(T) \in Nat /\ Cardinality(S) \in Nat
  BY <1>1, FS_CardinalityType
<1> QED
  BY <1>2, <1>3

LEMMA HistoryInitial == RHInit => HistoryInv
<1> SUFFICES ASSUME RHInit PROVE HistoryInv
  OBVIOUS
<1>1. None \in DashboardFile /\ None.kind # "good"
  BY DEF None, DashboardFile
<1>2. \A i \in Dashboards : files[i] = None
  BY DEF RHInit
<1>3. HistoryTypes
  BY <1>1 DEF RHInit, HistoryTypes
<1>4. ReportInv
  BY <1>1, <1>2 DEF RHInit, ReportInv
<1>5. UnpinnedOf(files) = {} /\ PinnedOf(files) = {}
  BY <1>1, <1>2 DEF UnpinnedOf, PinnedOf
<1>6. CountInv
  <2>1. Cardinality({}) = 0
    BY FS_EmptySet
  <2> QED
    BY <1>5, <2>1, HistoryAssumption DEF CountInv
<1> QED
  BY <1>3, <1>4, <1>6 DEF HistoryInv

\* A step that leaves no new file keeps the bounds.
LEMMA NoneAdded ==
    ASSUME CountInv,
           UnpinnedOf(files') \subseteq UnpinnedOf(files), PinnedOf(files') \subseteq PinnedOf(files)
    PROVE  CountInv'
<1>1. /\ UnpinnedOf(files) \in SUBSET Dashboards /\ UnpinnedOf(files') \in SUBSET Dashboards
      /\ PinnedOf(files) \in SUBSET Dashboards /\ PinnedOf(files') \in SUBSET Dashboards
  BY DEF UnpinnedOf, PinnedOf
<1>2. Cardinality(UnpinnedOf(files')) <= KeepDashboards
  BY <1>1, HistoryAssumption, FewerKept DEF CountInv
<1>3. Cardinality(PinnedOf(files')) <= MaxPinned
  BY <1>1, HistoryAssumption, FewerKept DEF CountInv
<1> QED
  BY <1>2, <1>3 DEF CountInv

\* Save: the only write that makes a dashboard, with the report that waited.
LEMMA SaveStep ==
    ASSUME HistoryInv, NEW i \in Dashboards, NEW own \in BOOLEAN, Save(i, own)
    PROVE  HistoryInv'
<1> USE DEF HistoryInv
<1>1. /\ i \notin savedOnce /\ savedOnce' = savedOnce \cup {i} /\ attached' = attached
      /\ waiting \ {i} \subseteq waiting' /\ files[i].kind # "good"
  BY DEF Save, ReportInv
<1>2. CASE UNCHANGED files
  <2>1. HistoryTypes'
    BY <1>1, <1>2 DEF HistoryTypes
  <2>2. ReportInv'
    BY <1>1, <1>2 DEF ReportInv
  <2>3. CountInv'
    BY <1>2 DEF CountInv
  <2> QED
    BY <2>1, <2>2, <2>3
<1>3. CASE ~UNCHANGED files
  <2> DEFINE new == [kind |-> "good", pinned |-> Good(i) /\ files[i].pinned,
                     insights |-> own \/ i \in waiting \/ (Good(i) /\ files[i].insights)]
             f == [files EXCEPT ![i] = new]
  <2>1. files' = PruneLocked(f)
    BY <1>3 DEF Save
  <2>2. ~Good(i)
    BY <1>1 DEF Good
  <2>3. new.kind = "good" /\ new.pinned = FALSE /\ (i \in waiting => new.insights)
    BY <2>2
  <2>4. new \in DashboardFile
    BY <2>2 DEF DashboardFile
  <2>5. f \in [Dashboards -> DashboardFile]
    BY <2>4 DEF HistoryTypes
  <2>6. f[i] = new /\ \A j \in Dashboards : j # i => f[j] = files[j]
    BY DEF HistoryTypes
  <2> HIDE DEF new, f
  <2>7. /\ files' \in [Dashboards -> DashboardFile]
        /\ \A j \in Dashboards : files'[j] = f[j] \/ files'[j] = None
        /\ Cardinality(UnpinnedOf(files')) <= KeepDashboards
        /\ PinnedOf(files') = PinnedOf(f)
    BY <2>1, <2>5, Pruned
  <2>8. HistoryTypes'
    BY <1>1, <2>7 DEF HistoryTypes
  <2>9. ASSUME NEW j \in Dashboards
        PROVE  /\ files'[j].kind = "good" => j \in savedOnce'
               /\ j \in attached' /\ j \notin savedOnce' => j \in waiting'
               /\ j \in attached' /\ files'[j].kind = "good" => files'[j].insights
    <3>1. None.kind # "good"
      BY DEF None
    <3>2. CASE j = i
      BY <1>1, <2>3, <2>6, <2>7, <3>1, <3>2 DEF ReportInv
    <3>3. CASE j # i
      BY <1>1, <2>6, <2>7, <3>1, <3>3 DEF ReportInv
    <3> QED
      BY <3>2, <3>3
  <2>10. ReportInv'
    BY <2>9 DEF ReportInv
  <2>11. PinnedOf(f) \subseteq PinnedOf(files)
    BY <2>3, <2>6 DEF PinnedOf
  <2>12. Cardinality(PinnedOf(f)) <= MaxPinned
    BY <2>11, HistoryAssumption, FewerKept DEF CountInv, PinnedOf
  <2> QED
    BY <2>7, <2>8, <2>10, <2>12 DEF CountInv
<1> QED
  BY <1>2, <1>3

\* AttachInsights: into the file that is there, or kept for Save.
LEMMA AttachStep ==
    ASSUME HistoryInv, NEW i \in Dashboards, AttachInsights(i)
    PROVE  HistoryInv'
<1> USE DEF HistoryInv
<1>1. savedOnce' = savedOnce /\ waiting \ {i} \subseteq waiting'
  BY DEF AttachInsights
<1>2. CASE files' = files
  <2>1. CASE attached' = attached
    <3>1. ReportInv'
      <4>1. i \in savedOnce \/ i \in waiting' \/ i \notin attached
        BY DEF AttachInsights, ReportInv, Good
      <4> QED
        BY <1>1, <1>2, <2>1, <4>1 DEF ReportInv
    <3> QED
      BY <1>2, <2>1, <3>1 DEF HistoryTypes, CountInv
  <2>2. CASE attached' # attached
    <3>1. attached' = attached \cup {i} /\ (Good(i) => files[i].insights)
      <4>1. CASE Good(i)
        <5>1. files' = [files EXCEPT ![i].insights = TRUE] /\ attached' = attached \cup {i}
          BY <2>2, <4>1 DEF AttachInsights
        <5>2. files'[i].insights = TRUE
          BY <5>1 DEF HistoryTypes, DashboardFile
        <5> QED
          BY <1>2, <5>1, <5>2
      <4>2. CASE ~Good(i)
        BY <4>2 DEF AttachInsights
      <4> QED
        BY <4>1, <4>2
    <3>2. Good(i) \/ i \in waiting'
      BY DEF AttachInsights
    <3>3. ReportInv'
      BY <1>1, <1>2, <3>1, <3>2 DEF ReportInv, Good
    <3> QED
      BY <1>2, <3>1, <3>3 DEF HistoryTypes, CountInv
  <2> QED
    BY <2>1, <2>2
<1>3. CASE files' # files
  <2>1. Good(i) /\ files' = [files EXCEPT ![i].insights = TRUE] /\ attached' = attached \cup {i}
    BY <1>3 DEF AttachInsights
  <2>2. /\ files'[i].kind = "good" /\ files'[i].insights = TRUE
        /\ files'[i].pinned = files[i].pinned /\ files[i].kind = "good"
    BY <2>1 DEF Good, HistoryTypes, DashboardFile
  <2>3. \A j \in Dashboards : j # i => files'[j] = files[j]
    BY <2>1 DEF HistoryTypes
  <2>4. HistoryTypes'
    BY <2>1 DEF HistoryTypes, DashboardFile
  <2>5. ReportInv'
    BY <1>1, <2>1, <2>2, <2>3 DEF ReportInv
  <2>6. UnpinnedOf(files') = UnpinnedOf(files) /\ PinnedOf(files') = PinnedOf(files)
    BY <2>2, <2>3 DEF UnpinnedOf, PinnedOf
  <2> QED
    BY <2>4, <2>5, <2>6, NoneAdded
<1> QED
  BY <1>2, <1>3

\* SetPinned: a pin more only below the limit, and the rest is pruned.
LEMMA PinStep ==
    ASSUME HistoryInv, NEW i \in Dashboards, NEW pinned \in BOOLEAN, SetPinned(i, pinned)
    PROVE  HistoryInv'
<1> USE DEF HistoryInv
<1> DEFINE f == [files EXCEPT ![i].pinned = pinned]
<1>1. files' = PruneLocked(f) /\ UNCHANGED <<waiting, savedOnce, attached>>
  BY DEF SetPinned
<1>2. f \in [Dashboards -> DashboardFile]
  BY DEF HistoryTypes, DashboardFile
<1>3. /\ f[i].kind = files[i].kind /\ f[i].pinned = pinned /\ f[i].insights = files[i].insights
      /\ \A j \in Dashboards : j # i => f[j] = files[j]
  BY DEF HistoryTypes, DashboardFile
<1> HIDE DEF f
<1>4. /\ files' \in [Dashboards -> DashboardFile]
      /\ \A j \in Dashboards : files'[j] = f[j] \/ files'[j] = None
      /\ Cardinality(UnpinnedOf(files')) <= KeepDashboards
      /\ PinnedOf(files') = PinnedOf(f)
  BY <1>1, <1>2, Pruned
<1>5. HistoryTypes'
  BY <1>1, <1>4 DEF HistoryTypes
<1>6. ReportInv'
  <2>1. None.kind # "good"
    BY DEF None
  <2> QED
    BY <1>1, <1>3, <1>4, <2>1 DEF ReportInv
<1>7. Cardinality(PinnedOf(f)) <= MaxPinned
  <2>1. CASE pinned /\ i \notin PinnedOf(files)
    <3>1. Cardinality(PinnedOf(files)) < MaxPinned
      BY <2>1 DEF SetPinned, PinnedOf, Pins, Good
    <3>2. PinnedOf(f) \subseteq PinnedOf(files) \cup {i}
      BY <1>3 DEF PinnedOf
    <3>3. IsFiniteSet(PinnedOf(files))
      BY HistoryAssumption, FS_Subset DEF PinnedOf
    <3>4. /\ IsFiniteSet(PinnedOf(files) \cup {i})
          /\ Cardinality(PinnedOf(files) \cup {i}) = Cardinality(PinnedOf(files)) + 1
      BY <2>1, <3>3, FS_AddElement
    <3>5. Cardinality(PinnedOf(files)) \in Nat
      BY <3>3, FS_CardinalityType
    <3>6. Cardinality(PinnedOf(files) \cup {i}) <= MaxPinned
      BY <3>1, <3>4, <3>5, HistoryAssumption
    <3>7. PinnedOf(files) \cup {i} \in SUBSET Dashboards /\ PinnedOf(f) \in SUBSET Dashboards
      BY DEF PinnedOf
    <3> QED
      BY <3>2, <3>6, <3>7, HistoryAssumption, FewerKept
  <2>2. CASE ~(pinned /\ i \notin PinnedOf(files))
    <3>1. PinnedOf(f) \subseteq PinnedOf(files)
      BY <1>3, <2>2 DEF PinnedOf
    <3>2. PinnedOf(files) \in SUBSET Dashboards /\ PinnedOf(f) \in SUBSET Dashboards
      BY DEF PinnedOf
    <3> QED
      BY <3>1, <3>2, HistoryAssumption, FewerKept DEF CountInv
  <2> QED
    BY <2>1, <2>2
<1> QED
  BY <1>4, <1>5, <1>6, <1>7 DEF CountInv

\* A damaged file is no dashboard any more.
LEMMA HarmStep ==
    ASSUME HistoryInv, NEW i \in Dashboards, Harm(i)
    PROVE  HistoryInv'
<1> USE DEF HistoryInv
<1>1. files' = [files EXCEPT ![i].kind = "damaged"] /\ UNCHANGED <<waiting, savedOnce, attached>>
  BY DEF Harm
<1>2. files'[i].kind # "good" /\ \A j \in Dashboards : j # i => files'[j] = files[j]
  BY <1>1 DEF HistoryTypes, DashboardFile
<1>3. HistoryTypes'
  BY <1>1 DEF HistoryTypes, DashboardFile
<1>4. ReportInv'
  BY <1>1, <1>2 DEF ReportInv
<1>5. UnpinnedOf(files') \subseteq UnpinnedOf(files) /\ PinnedOf(files') \subseteq PinnedOf(files)
  BY <1>2 DEF UnpinnedOf, PinnedOf
<1> QED
  BY <1>3, <1>4, <1>5, NoneAdded

LEMMA HistoryStep == HistoryInv /\ [RHNext]_historyVars => HistoryInv'
<1> SUFFICES ASSUME HistoryInv, [RHNext]_historyVars PROVE HistoryInv'
  OBVIOUS
<1>1. CASE RHNext
  <2>1. PICK i \in Dashboards :
           \/ \E b \in BOOLEAN : Save(i, b) \/ SetPinned(i, b)
           \/ AttachInsights(i) \/ Harm(i)
    BY <1>1 DEF RHNext
  <2>2. CASE \E b \in BOOLEAN : Save(i, b) \/ SetPinned(i, b)
    BY <2>2, SaveStep, PinStep
  <2>3. CASE AttachInsights(i)
    BY <2>3, AttachStep
  <2>4. CASE Harm(i)
    BY <2>4, HarmStep
  <2> QED
    BY <2>1, <2>2, <2>3, <2>4
<1>2. CASE UNCHANGED historyVars
  BY <1>2 DEF historyVars, HistoryInv, HistoryTypes, ReportInv, CountInv
<1> QED
  BY <1>1, <1>2

LEMMA HistoryInvGives == HistoryInv => DashboardsKept
<1> SUFFICES ASSUME HistoryInv PROVE DashboardsKept
  OBVIOUS
<1>1. ReportReachesDashboard
  BY DEF HistoryInv, HistoryTypes, ReportInv, ReportReachesDashboard, Good
<1>2. /\ UnpinnedOf(files) = {i \in Dashboards : Good(i) /\ ~files[i].pinned}
      /\ PinnedOf(files) = Pins
  BY DEF UnpinnedOf, PinnedOf, Pins, Good
<1> QED
  BY <1>1, <1>2 DEF HistoryInv, CountInv, DashboardsKept

\* A report that was accepted is in the dashboard of its run, in whatever order
\* the two come, and there are never more dashboards than the policy and the
\* pins allow (Save, AttachInsights, SetPinned, pruneLocked).
THEOREM DashboardsTheorem == RHSpec => []DashboardsKept
<1>1. HistoryInv /\ [][RHNext]_historyVars => []HistoryInv
  BY HistoryStep, PTL
<1> QED
  BY HistoryInitial, HistoryInvGives, <1>1, PTL DEF RHSpec

(***************************************************************************)
(* The library of definitions.  A definition of the earlier release stays  *)
(* as it was stored until an update confirms its order; one that was       *)
(* copied from it names an order somebody confirmed (DefinitionSound).     *)
(* What was acknowledged is both in memory and in the file, so neither a   *)
(* save that fails nor a start loses it (LibraryInv).                      *)
(***************************************************************************)

DefinitionSound(d) ==
    \/ d = Absent
    \/ d.version = 1 /\ d.order = "ab"
    \/ d.version = 2 /\ (d.by = "copy" /\ d.seen = 1 => d.sure)

\* A library that holds the definitions in Acknowledged.
Holds(x, Acknowledged) ==
    /\ DOMAIN x = DefinitionIds
    /\ \A i \in DefinitionIds : DefinitionSound(x[i])
    /\ \A i \in Acknowledged : x[i] # Absent

LibraryInv ==
    /\ Holds(library, kept) /\ Holds(stored, kept)
    /\ kept \subseteq DefinitionIds
    /\ DOMAIN editor = Editors
    /\ \A c \in Editors : editor[c].id \in DefinitionIds \cup {0}

LEMMA LibraryInitial == DInit => LibraryInv
<1> SUFFICES ASSUME DInit PROVE LibraryInv
  OBVIOUS
<1>1. Legacy \in DefinitionIds
  <2>1. \E i \in DefinitionIds : \A j \in DefinitionIds : i <= j
    BY LibraryAssumption, LeastOf
  <2> QED
    BY <2>1 DEF Legacy
<1>2. DOMAIN library = DefinitionIds /\ stored = library /\ kept = {Legacy}
  BY DEF DInit
<1>3. \A i \in DefinitionIds : i # Legacy => library[i] = Absent
  BY DEF DInit
<1>4. library[Legacy].version = 1 /\ library[Legacy].order = "ab"
  BY <1>1 DEF DInit
<1>5. \A i \in DefinitionIds : DefinitionSound(library[i])
  BY <1>3, <1>4 DEF DefinitionSound
<1>6. library[Legacy] # Absent
  BY <1>4 DEF Absent
<1>7. DOMAIN editor = Editors /\ \A c \in Editors : editor[c].id = 0
  BY DEF DInit
<1> QED
  BY <1>1, <1>2, <1>5, <1>6, <1>7 DEF LibraryInv, Holds

\* One definition changes: in memory, and in the file if the save succeeds.
LEMMA CommitKeeps ==
    ASSUME LibraryInv, NEW i \in DefinitionIds, NEW d, DefinitionSound(d),
           NEW succeeds \in BOOLEAN, Commit([library EXCEPT ![i] = d], succeeds),
           UNCHANGED editor,
           kept' \subseteq kept \cup {i},
           i \in kept' => d # Absent /\ (i \in kept \/ succeeds)
    PROVE  LibraryInv'
<1> DEFINE new == [library EXCEPT ![i] = d]
<1>1. /\ DOMAIN new = DefinitionIds /\ new[i] = d
      /\ \A j \in DefinitionIds : j # i => new[j] = library[j]
  BY DEF LibraryInv, Holds
<1>2. library' = new /\ stored' = IF succeeds THEN new ELSE stored
  BY DEF Commit
<1> HIDE DEF new
<1>3. kept' \subseteq DefinitionIds
  BY DEF LibraryInv
<1>4. Holds(new, kept')
  <2>1. \A j \in kept' : new[j] # Absent
    BY <1>1, <1>3 DEF LibraryInv, Holds
  <2> QED
    BY <1>1, <2>1 DEF LibraryInv, Holds
<1>5. ~succeeds => Holds(stored, kept')
  BY DEF LibraryInv, Holds
<1>6. Holds(library', kept') /\ Holds(stored', kept')
  BY <1>2, <1>4, <1>5
<1> QED
  BY <1>3, <1>6 DEF LibraryInv

LEMMA NewDefinition ==
    ASSUME NEW order, NEW body, NEW by, NEW seen, NEW sure
    PROVE  LET d == Definition(order, body, by, seen, sure)
           IN  d.version = 2 /\ d.by = by /\ d.seen = seen /\ d.sure = sure /\ d # Absent
<1> DEFINE d == Definition(order, body, by, seen, sure)
<1>1. d.version = 2 /\ d.by = by /\ d.seen = seen /\ d.sure = sure
  BY DEF Definition
<1>2. Absent.version = 0
  BY DEF Absent
<1> QED
  BY <1>1, <1>2

\* Create: a copy of a definition that needs review has its confirmed order,
\* because the source still has the content version its editor loaded.
LEMMA CreateStep ==
    ASSUME LibraryInv, NEW c \in Editors, NEW i \in DefinitionIds, NEW order, NEW body,
           NEW reviewed, NEW copy \in BOOLEAN, NEW succeeds \in BOOLEAN,
           Create(c, i, order, body, reviewed, copy, succeeds)
    PROVE  LibraryInv'
<1> DEFINE copied == Definition(order, body, "copy", editor[c].def.version,
                                Vouched(c, order, reviewed))
           created == Definition(order, body, "create", 2, TRUE)
           d == IF copy THEN copied ELSE created
<1>1. /\ Commit([library EXCEPT ![i] = d], succeeds) /\ UNCHANGED editor /\ i \notin kept
      /\ kept' = IF succeeds THEN kept \cup {i} ELSE kept
  BY DEF Create, Submit
<1>2. /\ copied.version = 2 /\ copied.seen = editor[c].def.version
      /\ copied.sure = Vouched(c, order, reviewed) /\ copied # Absent
  BY NewDefinition
<1>3. created.version = 2 /\ created.by = "create" /\ created # Absent
  <2>1. created.version = 2 /\ created.by = "create"
    BY DEF Definition
  <2>2. Absent.version = 0
    BY DEF Absent
  <2> HIDE DEF created
  <2> QED
    BY <2>1, <2>2
<1> HIDE DEF copied, created
<1>4. CASE copy
  <2>1. ASSUME copied.seen = 1 PROVE copied.sure
    <3> DEFINE source == library[editor[c].id]
    <3>1. /\ editor[c].id # 0 /\ source # Absent /\ source.version = editor[c].def.version
          /\ ReviewedSorts(source, order, reviewed)
      BY <1>4 DEF Create, CheckCopySource, Present
    <3>2. editor[c].id \in DefinitionIds
      BY <3>1 DEF LibraryInv
    <3>3. DefinitionSound(source)
      BY <3>2 DEF LibraryInv, Holds
    <3> HIDE DEF source
    <3>4. source.version = 1
      BY <1>2, <2>1, <3>1
    <3>5. source.order = "ab"
      BY <3>1, <3>3, <3>4 DEF DefinitionSound
    <3>6. NeedsReview(source)
      BY <3>4, <3>5 DEF NeedsReview
    <3>7. order = "single" \/ reviewed = order
      BY <3>1, <3>6 DEF ReviewedSorts
    <3> QED
      BY <1>2, <3>7 DEF Vouched
  <2>2. DefinitionSound(copied)
    BY <1>2, <2>1 DEF DefinitionSound
  <2> QED
    BY <1>1, <1>2, <1>4, <2>2, CommitKeeps
<1>5. CASE ~copy
  <2>1. DefinitionSound(created)
    BY <1>3 DEF DefinitionSound
  <2> QED
    BY <1>1, <1>3, <1>5, <2>1, CommitKeeps
<1> QED
  BY <1>4, <1>5

LEMMA UpdateStep ==
    ASSUME LibraryInv, NEW c \in Editors, NEW order, NEW body, NEW reviewed,
           NEW succeeds \in BOOLEAN, Update(c, order, body, reviewed, succeeds)
    PROVE  LibraryInv'
<1> DEFINE i == editor[c].id
           d == Definition(order, body, "update", editor[c].def.version,
                           Vouched(c, order, reviewed))
<1>1. /\ Commit([library EXCEPT ![i] = d], succeeds) /\ i # 0
      /\ UNCHANGED <<editor, kept>>
  BY DEF Update, Submit
<1>2. i \in DefinitionIds
  BY <1>1 DEF LibraryInv
<1>3. d.version = 2 /\ d.by = "update" /\ d # Absent
  BY NewDefinition
<1> HIDE DEF i, d
<1>4. DefinitionSound(d)
  BY <1>3 DEF DefinitionSound
<1> QED
  BY <1>1, <1>2, <1>3, <1>4, CommitKeeps

LEMMA DeleteStep ==
    ASSUME LibraryInv, NEW i \in DefinitionIds, NEW succeeds \in BOOLEAN, Delete(i, succeeds)
    PROVE  LibraryInv'
<1>1. /\ Commit([library EXCEPT ![i] = Absent], succeeds)
      /\ kept' = kept \ {i} /\ UNCHANGED editor
  BY DEF Delete
<1>2. DefinitionSound(Absent)
  BY DEF DefinitionSound
<1> QED
  BY <1>1, <1>2, CommitKeeps

LEMMA LibraryStep == LibraryInv /\ [DNext]_libraryVars => LibraryInv'
<1> SUFFICES ASSUME LibraryInv, [DNext]_libraryVars PROVE LibraryInv'
  OBVIOUS
<1>1. CASE \E c \in Editors, order \in Orders, body \in Bodies, reviewed \in {"none", "ab", "ba"},
              ok \in BOOLEAN :
              \/ \E i \in DefinitionIds, copy \in BOOLEAN :
                    Create(c, i, order, body, reviewed, copy, ok)
              \/ Update(c, order, body, reviewed, ok)
  BY <1>1, CreateStep, UpdateStep
<1>2. CASE \E c \in Editors, i \in DefinitionIds : Get(c, i)
  <2>1. PICK c \in Editors, i \in DefinitionIds : Get(c, i)
    BY <1>2
  <2>2. \A b \in Editors : editor'[b].id \in DefinitionIds \cup {0}
    <3> SUFFICES ASSUME NEW b \in Editors PROVE editor'[b].id \in DefinitionIds \cup {0}
      OBVIOUS
    <3>1. editor' = [editor EXCEPT ![c] = [id |-> i, def |-> library[i]]]
      BY <2>1 DEF Get
    <3>2. editor'[b] = editor[b] \/ editor'[b] = [id |-> i, def |-> library[i]]
      BY <3>1 DEF LibraryInv
    <3> QED
      BY <3>2 DEF LibraryInv
  <2> QED
    BY <2>1, <2>2, DOMAIN editor' = Editors DEF Get, LibraryInv
<1>3. CASE \E i \in DefinitionIds, ok \in BOOLEAN : Delete(i, ok)
  BY <1>3, DeleteStep
<1>4. CASE Restart
  BY <1>4 DEF Restart, LibraryInv
<1>5. CASE Second
  BY <1>5 DEF Second, LibraryInv
<1>6. CASE UNCHANGED libraryVars
  BY <1>6 DEF libraryVars, LibraryInv
<1> QED
  BY <1>1, <1>2, <1>3, <1>4, <1>5, <1>6 DEF DNext

LEMMA LibraryInvGives == LibraryInv => LibrarySound
<1> SUFFICES ASSUME LibraryInv PROVE LibrarySound
  OBVIOUS
<1>1. ASSUME NEW i \in Runnable, library[i].by = "copy", library[i].seen = 1
      PROVE  library[i].sure
  <2>1. i \in DefinitionIds /\ library[i] # Absent /\ ~NeedsReview(library[i])
    BY DEF Runnable, Present
  <2>2. DefinitionSound(library[i])
    BY <2>1 DEF LibraryInv, Holds
  <2> QED
    BY <1>1, <2>1, <2>2 DEF DefinitionSound, NeedsReview
<1>2. AcknowledgedSurvives
  BY DEF LibraryInv, Holds, AcknowledgedSurvives
<1> QED
  BY <1>1, <1>2 DEF LibrarySound, CopiesConfirmed

\* A copy of a definition that needed review runs only in an order somebody
\* confirmed, and no definition that was acknowledged is lost to a failed save
\* or a start (Create, Update, Delete, CheckCopySource, saveLocked, load).
THEOREM LibraryTheorem == DSpec => []LibrarySound
<1>1. LibraryInv /\ [][DNext]_libraryVars => []LibraryInv
  BY LibraryStep, PTL
<1> QED
  BY LibraryInitial, LibraryInvGives, <1>1, PTL DEF DSpec
=============================================================================
