----------------------------- MODULE TrendStore -----------------------------
(***************************************************************************)
(* The trend baselines file that several processes share                   *)
(* (internal/stats/trend_store.go).  A change takes the lock file, reads   *)
(* the file, applies itself and replaces the file; a reader looks at the   *)
(* file's time and size and reads it again when they changed, without the  *)
(* lock.  A process may die with the lock, or be slow with it: a lock file *)
(* that is old is removed by whoever waits for it.  A damaged file (edited *)
(* by hand) is moved aside by whoever reads it.                            *)
(***************************************************************************)
EXTENDS Integers, Sequences, FiniteSets

CONSTANTS
    Processes,
    KeepRuns,      \* trend_history_runs
    MaxRunIds,     \* bound: runs recorded
    MaxDamage,     \* bound: times the file is damaged
    MaxCrashes,    \* bound: processes that die
    MaxOps         \* bound: changes

Nobody  == "nobody"

ASSUME TrendAssumption == Nobody \notin Processes

Data == INSTANCE TrendData WITH TrendMaxPinnedRuns <- 1, TrendMaxRuns <- 64,
            TrendMaxShapeBaselines <- 2, MaxTrendHistoryRuns <- 50, TrendStoreMaxSize <- 100

NoFile  == [kind |-> "none", data |-> Data!EmptyTrendData, stamp |-> 0]
Crumb   == <<[id |-> 1, ns |-> "ns", eff |-> TRUE, wl |-> FALSE, values |-> FALSE]>>

VARIABLES
    file,       \* its content, and a stamp for its mtime and size
    lockFile,   \* who made the lock file, or Nobody
    lockOld,    \* the lock file is older than trendLockStaleAfter
    robbed,     \* a lock was removed while its maker was at work (history)
    place,      \* place[p]: where p is in a call
    opOf,       \* opOf[p]: the change p makes
    disk,       \* disk[p]: what p read under the lock
    cache,      \* cache[p]: s.data, and the stamp of the file it was read from
    aside,      \* the files moved aside
    nextRun, damages, opsMade,
    recorded,   \* runs whose record was answered with success (history)
    removed     \* runs that a change or a reset took out of what it read (history)

storeVars == <<file, lockFile, lockOld, robbed, place, opOf, disk, cache, aside, nextRun, damages,
               opsMade, recorded, removed>>

NoOp == [kind |-> "none", run |-> 0]

TSInit ==
    /\ file = NoFile /\ lockFile = Nobody /\ lockOld = FALSE /\ robbed = FALSE
    /\ place = [p \in Processes |-> "idle"] /\ opOf = [p \in Processes |-> NoOp]
    /\ disk = [p \in Processes |-> Data!EmptyTrendData]
    /\ cache = [p \in Processes |-> [data |-> Data!EmptyTrendData, stamp |-> 0]]
    /\ aside = {} /\ nextRun = 1 /\ damages = 0 /\ opsMade = 0
    /\ recorded = {} /\ removed = {}

Move(p, where) == place' = [place EXCEPT ![p] = where]

lockVars == <<lockFile, lockOld, robbed>>

-----------------------------------------------------------------------------
(* A change: mutate, Reset. *)

Begin(p) ==
    /\ place[p] = "idle" /\ opsMade < MaxOps
    /\ opsMade' = opsMade + 1
    /\ \/ /\ nextRun <= MaxRunIds /\ nextRun' = nextRun + 1
          /\ opOf' = [opOf EXCEPT ![p] = [kind |-> "record", run |-> nextRun]]
       \/ /\ UNCHANGED nextRun
          /\ \E k \in {"pin", "unpin", "delete"}, r \in 1..(nextRun - 1) :
                opOf' = [opOf EXCEPT ![p] = [kind |-> k, run |-> r]]
       \/ /\ UNCHANGED nextRun
          /\ opOf' = [opOf EXCEPT ![p] = [kind |-> "reset", run |-> 0]]
    /\ Move(p, "lock")
    /\ UNCHANGED <<file, lockVars, disk, cache, aside, damages, recorded, removed>>

\* The lock file's age is all that is known of its maker, who may have died or
\* may be slow: suspended, or waiting for the disk.
Stale == lockFile # Nobody /\ lockOld

Age ==
    /\ lockFile # Nobody /\ ~lockOld
    /\ lockOld' = TRUE
    /\ UNCHANGED <<file, lockFile, robbed, place, opOf, disk, cache, aside, nextRun, damages, opsMade,
                   recorded, removed>>

TakeLock(p) == lockFile = Nobody /\ lockFile' = p /\ lockOld' = FALSE /\ Move(p, "read")

\* Mutant: who has waited for long goes on without the lock.
LockOrGoOn(p) ==
    /\ place[p] = "lock"
    /\ \/ TakeLock(p)
       \/ Stale /\ Move(p, "unstale") /\ UNCHANGED <<lockFile, lockOld>>
       \/ lockFile # Nobody /\ ~Stale /\ Move(p, "read") /\ UNCHANGED <<lockFile, lockOld>>
    /\ UNCHANGED <<file, robbed, opOf, disk, cache, aside, nextRun, damages, opsMade, recorded, removed>>

\* The lock file is created, or exists: when it is stale it is to be removed,
\* otherwise the call waits, at most trendLockWait.
Lock(p) ==
    /\ place[p] = "lock"
    /\ \/ TakeLock(p)
       \/ Stale /\ Move(p, "unstale") /\ UNCHANGED <<lockFile, lockOld>>
       \/ lockFile # Nobody /\ ~Stale /\ Move(p, "idle") /\ UNCHANGED <<lockFile, lockOld>>
    /\ UNCHANGED <<file, robbed, opOf, disk, cache, aside, nextRun, damages, opsMade, recorded, removed>>

\* The lock that was found stale is removed by its name: the one that is there
\* by now, and whether its maker is dead or not.
RemoveStale(p) ==
    /\ place[p] = "unstale"
    /\ robbed' = (robbed \/ (lockFile # Nobody /\ place[lockFile] # "dead"))
    /\ lockFile' = Nobody /\ lockOld' = FALSE
    /\ Move(p, "lock")
    /\ UNCHANGED <<file, opOf, disk, cache, aside, nextRun, damages, opsMade, recorded, removed>>

NoFileNow == [NoFile EXCEPT !.stamp = file.stamp]

MoveAside == aside' = aside \cup {file.data} /\ file' = NoFileNow

\* Mutant: the file is not read again.
ReadFromMemory(p) ==
    /\ place[p] = "read" /\ opOf[p].kind # "reset"
    /\ disk' = [disk EXCEPT ![p] = cache[p].data]
    /\ Move(p, "write")
    /\ UNCHANGED <<file, lockVars, opOf, cache, aside, nextRun, damages, opsMade, recorded, removed>>

\* The file is read again under the lock (readTrendFile, statFileLocked); a
\* damaged file is moved aside, and is empty.
ReadLocked(p) ==
    /\ place[p] = "read" /\ opOf[p].kind # "reset"
    /\ IF file.kind = "damaged" THEN MoveAside ELSE UNCHANGED <<file, aside>>
    /\ disk' = [disk EXCEPT ![p] = IF file.kind = "good" THEN file.data ELSE Data!EmptyTrendData]
    /\ cache' = [cache EXCEPT ![p] = [data |-> disk'[p],
                                      stamp |-> IF file.kind = "good" THEN file.stamp ELSE 0]]
    /\ Move(p, "write")
    /\ UNCHANGED <<lockVars, opOf, nextRun, damages, opsMade, recorded, removed>>

\* The change refused: ErrTrendRunNotFound, ErrTrendPinLimit.
Refused(o, d) ==
    \/ o.kind \in {"pin", "unpin", "delete"} /\ o.run \notin d.runs
    \/ o.kind = "pin" /\ o.run \notin d.pinned /\ Cardinality(d.pinned) >= 1

Apply(o, d) ==
    CASE o.kind = "record" -> Data!MergeTrendBaselines(d, o.run, Crumb, KeepRuns)
      [] o.kind = "pin"    -> [d EXCEPT !.pinned = @ \cup {o.run}]
      [] o.kind = "unpin"  -> [d EXCEPT !.pinned = @ \ {o.run}]
      [] o.kind = "delete" -> Data!RemoveTrendRun(d, o.run)

\* The runs that the change had before it.
Given(o, d) == d.runs \cup (IF o.kind = "record" THEN {o.run} ELSE {})

\* The file is replaced (rename), or the change is refused or cannot be saved.
ReplaceFile(p) ==
    /\ place[p] = "write"
    /\ LET new == Data!BoundTrendSize(Apply(opOf[p], disk[p]))
       IN  \/ UNCHANGED <<file, cache, recorded, removed>>
           \/ /\ ~Refused(opOf[p], disk[p])
              /\ file' = [kind |-> "good", data |-> new, stamp |-> file.stamp + 1]
              /\ cache' = [cache EXCEPT ![p] = [data |-> new, stamp |-> file.stamp + 1]]
              /\ recorded' = IF opOf[p].kind = "record" THEN recorded \cup {opOf[p].run}
                             ELSE recorded
              /\ removed' = removed \cup (Given(opOf[p], disk[p]) \ new.runs)
    /\ Move(p, "unlock")
    /\ UNCHANGED <<lockVars, opOf, disk, aside, nextRun, damages, opsMade>>

\* The file is removed, or cannot be.
Reset(p) ==
    /\ place[p] = "read" /\ opOf[p].kind = "reset"
    /\ \/ /\ file' = NoFileNow
          /\ removed' = removed \cup file.data.runs
          /\ cache' = [cache EXCEPT ![p] = [data |-> Data!EmptyTrendData, stamp |-> 0]]
       \/ UNCHANGED <<file, removed, cache>>
    /\ Move(p, "unlock")
    /\ UNCHANGED <<lockVars, opOf, disk, aside, nextRun, damages, opsMade, recorded>>

\* The lock file is removed by its name, whoever made it.
Unlock(p) ==
    /\ place[p] = "unlock"
    /\ lockFile' = Nobody /\ lockOld' = FALSE
    /\ Move(p, "idle")
    /\ opOf' = [opOf EXCEPT ![p] = NoOp]
    /\ disk' = [disk EXCEPT ![p] = Data!EmptyTrendData]
    /\ UNCHANGED <<file, robbed, cache, aside, nextRun, damages, opsMade, recorded, removed>>

-----------------------------------------------------------------------------
(* A reader: refreshLocked, without the lock file. *)

\* The file is missing, unchanged, or read; a damaged one is to be moved aside.
Refresh(p) ==
    /\ place[p] = "idle"
    /\ \/ /\ file.kind = "none" /\ cache[p].stamp # 0
          /\ cache' = [cache EXCEPT ![p] = [data |-> Data!EmptyTrendData, stamp |-> 0]]
          /\ UNCHANGED place
       \/ /\ file.kind # "none" /\ cache[p].stamp # file.stamp
          /\ cache' = [cache EXCEPT ![p].data = IF file.kind = "good" THEN file.data
                                                ELSE Data!EmptyTrendData]
          /\ Move(p, IF file.kind = "good" THEN "stat" ELSE "aside")
    /\ UNCHANGED <<file, lockVars, opOf, disk, aside, nextRun, damages, opsMade, recorded, removed>>

\* The rename that moves the file aside: of the file that is there by now.
Aside(p) ==
    /\ place[p] = "aside"
    /\ IF file.kind = "none" THEN UNCHANGED <<file, aside>> ELSE MoveAside
    /\ Move(p, "stat")
    /\ UNCHANGED <<lockVars, opOf, disk, cache, nextRun, damages, opsMade, recorded, removed>>

\* statFileLocked: the stamp of the file that is there by now.
Stat(p) ==
    /\ place[p] = "stat"
    /\ cache' = [cache EXCEPT ![p].stamp = IF file.kind = "none" THEN 0 ELSE file.stamp]
    /\ Move(p, "idle")
    /\ UNCHANGED <<file, lockVars, opOf, disk, aside, nextRun, damages, opsMade, recorded, removed>>

-----------------------------------------------------------------------------
(* Faults. *)

Damage ==
    /\ file.kind = "good" /\ damages < MaxDamage
    /\ damages' = damages + 1
    /\ file' = [file EXCEPT !.kind = "damaged", !.stamp = @ + 1]
    /\ UNCHANGED <<lockVars, place, opOf, disk, cache, aside, nextRun, opsMade, recorded, removed>>

Die(p) ==
    /\ place[p] \notin {"idle", "dead"}
    /\ Cardinality({q \in Processes : place[q] = "dead"}) < MaxCrashes
    /\ Move(p, "dead")
    /\ UNCHANGED <<file, lockVars, opOf, disk, cache, aside, nextRun, damages, opsMade, recorded,
                   removed>>

CallStep(p) == Lock(p) \/ RemoveStale(p) \/ ReadLocked(p) \/ ReplaceFile(p) \/ Reset(p) \/ Unlock(p)

ReadStep(p) == Refresh(p) \/ Aside(p) \/ Stat(p)

TSNext ==
    \/ \E p \in Processes : Begin(p) \/ CallStep(p) \/ ReadStep(p) \/ Die(p)
    \/ Damage \/ Age

TSSpec == TSInit /\ [][TSNext]_storeVars

-----------------------------------------------------------------------------
TSTypeOK ==
    /\ file.kind \in {"none", "good", "damaged"} /\ file.stamp \in Nat
    /\ lockFile \in Processes \cup {Nobody} /\ lockOld \in BOOLEAN /\ robbed \in BOOLEAN
    /\ place \in [Processes -> {"idle", "lock", "unstale", "read", "write", "unlock", "aside",
                                "stat", "dead"}]
    /\ recorded \subseteq 1..MaxRunIds /\ removed \subseteq 1..MaxRunIds
    /\ damages \in 0..MaxDamage /\ opsMade \in 0..MaxOps

\* A run whose record succeeded stays in the file, or in a file moved aside,
\* until a change that had read it takes it out, unless a lock was removed while
\* its maker was at work (mutate, lockTrendFile).
RecordedRunsKept ==
    robbed \/ recorded \ removed \subseteq file.data.runs \cup UNION {d.runs : d \in aside}

\* A change ends, also when the process that has the lock dies (trendLockWait,
\* the stale lock).
CallsQuiet == \A p \in Processes : place[p] \in {"idle", "dead"}
CallsEnd == []<>CallsQuiet

-----------------------------------------------------------------------------
(* The contract.                                                            *)

TrendCalls == [kind : {"record", "pin", "unpin", "delete", "reset"}, run : Nat]

\* A change that will still be made, or that may.
Underway == {"lock", "unstale", "read", "write"}

\* The list: what is about to be replaced, otherwise what is in a good file.
TrendList ==
    IF \E p \in Processes : place[p] = "write"
    THEN disk[CHOOSE p \in Processes : place[p] = "write"]
    ELSE IF file.kind = "good" THEN file.data ELSE Data!EmptyTrendData

TrendView == [p \in Processes |-> cache[p].data]

TrendAsked == [p \in Processes |-> IF place[p] \in Underway THEN opOf[p] ELSE NoOp]

RefusesCall(o, d) == o.kind # "reset" /\ Refused(o, d)

AfterCall(o, d) ==
    IF o.kind = "reset" THEN Data!EmptyTrendData ELSE Data!BoundTrendSize(Apply(o, d))

ListContract ==
    INSTANCE TrendContract
    WITH Callers <- Processes,
         Calls <- TrendCalls,
         NoCall <- NoOp,
         Nothing <- Data!EmptyTrendData,
         Refuses <- RefusesCall,
         Result <- AfterCall,
         list <- TrendList,
         view <- TrendView,
         asked <- TrendAsked,
         void <- robbed

\* The processes change one list, one whole change after the other, and see
\* states it had, until a lock is removed while its maker is at work (mutate,
\* refreshLocked, lockTrendFile, TrendContract).
KeepsList == ListContract!LSpec
=============================================================================
