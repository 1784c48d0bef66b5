---------------------------- MODULE DocumentProofs ----------------------------
(***************************************************************************)
(* Proofs about the documents of a run, for any number of workers, batches *)
(* and documents: whatever writer fails and whenever the run is stopped, a *)
(* seed that is taken for done has every document (Seeding), the raw       *)
(* injector inserts documents its collection does not have (RawInjector),  *)
(* what a delete took leaves the pool with it (RecordPool), and a worker's *)
(* hash covers what it has reached of its first passes (Deterministic).    *)
(***************************************************************************)
EXTENDS Seeding, RawInjector, RecordPool, Deterministic, FiniteSetTheorems, SequenceTheorems,
        WellFoundedInduction, TLAPS

\* Definitions in databases of their own (the collection name is shared).
SeedSettings ==
    /\ SetupDatabases \in Seq(STRING) /\ SetupDatabases # <<>>
    /\ \A i, j \in DOMAIN SetupDatabases : SetupDatabases[i] = SetupDatabases[j] => i = j
    /\ SeedBatchSize \in Nat \ {0} /\ SeedCount \in Nat

Made == {p \in Positions : p < generated}

SeedTypes ==
    /\ setupAt \in {"collections", "indexes", "seed", "sharding", "ready", "failed"}
    /\ item \in DOMAIN SetupDatabases
    /\ seeded \in [SetupDbs -> SUBSET Positions]
    /\ generated \in 0..SeedCount /\ totalInserted \in Nat
    /\ writing \in [SeedWriters -> SUBSET Positions]

\* The definitions before the one in work are seeded, those after it are not.
OrderInv ==
    /\ setupAt \in {"collections", "indexes"} => \A i \in DOMAIN SetupDatabases : seeded[SetupDatabases[i]] = {}
    /\ setupAt = "seed" =>
          \A i \in DOMAIN SetupDatabases :
              /\ i < item => seeded[SetupDatabases[i]] = Positions
              /\ i > item => seeded[SetupDatabases[i]] = {}
    /\ setupAt \in {"sharding", "ready"} =>
          \A i \in DOMAIN SetupDatabases : seeded[SetupDatabases[i]] = Positions

\* Outside a seed nothing is in the hands of a writer.
QuietInv ==
    setupAt # "seed" =>
        /\ \A v \in SeedWriters : writing[v] = {}
        /\ setupAt # "failed" => generated = 0 /\ totalInserted = 0

\* In a seed each document that was handed out is inserted or with one writer,
\* unless there is a cause to give up.
WorkInv ==
    setupAt = "seed" =>
        /\ seeded[ItemDb] \subseteq Made
        /\ \A v \in SeedWriters : writing[v] \subseteq Made \ seeded[ItemDb]
        /\ \A u, v \in SeedWriters : u # v => writing[u] \cap writing[v] = {}
        /\ totalInserted <= Cardinality(seeded[ItemDb])
        /\ seedCause = "" => \A p \in Made : p \in seeded[ItemDb] \/ \E v \in SeedWriters : p \in writing[v]

SeedInv == SeedTypes /\ OrderInv /\ QuietInv /\ WorkInv

-----------------------------------------------------------------------------
\* Positions are finitely many, so are those of a batch.
LEMMA PositionsFinite ==
    ASSUME SeedSettings, NEW S \in SUBSET Positions
    PROVE  IsFiniteSet(S) /\ Cardinality(S) \in Nat
<1>1. IsFiniteSet(Positions)
  BY FS_Interval DEF Positions, SeedSettings
<1>2. IsFiniteSet(S)
  BY <1>1, FS_Subset
<1>3. QED
  BY <1>2, FS_CardinalityType

LEMMA BatchIsNext ==
    ASSUME SeedSettings, SeedTypes, generated < SeedCount
    PROVE  /\ generated + Cardinality(Batch) \in generated..SeedCount
           /\ {p \in Positions : p < generated + Cardinality(Batch)} = Made \cup Batch
           /\ Batch \cap Made = {} /\ Batch \subseteq Positions
<1> DEFINE last == IF generated + SeedBatchSize < SeedCount THEN generated + SeedBatchSize - 1 ELSE SeedCount - 1
<1>1. generated \in Nat /\ SeedCount \in Nat /\ SeedBatchSize \in Nat \ {0}
  BY DEF SeedSettings, SeedTypes
<1>2. Batch = generated..last /\ last \in Nat
  BY <1>1 DEF Batch, Positions
<1>3. Cardinality(Batch) = last - generated + 1
  BY <1>1, <1>2, FS_Interval
<1>4. last + 1 \in generated..SeedCount /\ generated + Cardinality(Batch) = last + 1
  BY <1>1, <1>2, <1>3
<1>5. ASSUME NEW n \in Nat, n = last + 1
      PROVE  {p \in Positions : p < n} = Made \cup Batch
  BY <1>1, <1>2, <1>5 DEF Made, Positions
<1>6. Batch \cap Made = {} /\ Batch \subseteq Positions
  BY <1>1 DEF Made, Batch, Positions
<1>7. generated + Cardinality(Batch) \in generated..SeedCount /\ generated + Cardinality(Batch) \in Nat
  BY <1>1, <1>4
<1>8. {p \in Positions : p < generated + Cardinality(Batch)} = Made \cup Batch
  BY <1>4, <1>5, <1>7
<1>9. QED
  BY <1>6, <1>7, <1>8

LEMMA DbOfItem ==
    ASSUME SeedSettings, SeedTypes
    PROVE  /\ ItemDb \in SetupDbs
           /\ \A i \in DOMAIN SetupDatabases : SetupDatabases[i] \in SetupDbs
           /\ \A i \in DOMAIN SetupDatabases : SetupDatabases[i] = ItemDb => i = item
BY DEF SeedSettings, SeedTypes, ItemDb, SetupDbs

LEMMA InitSeed == SeedSettings /\ SInit => SeedInv
<1> SUFFICES ASSUME SeedSettings, SInit PROVE SeedInv
  OBVIOUS
<1>1. SeedTypes
  <2>1. 1 \in DOMAIN SetupDatabases /\ SeedCount \in Nat
    BY DEF SeedSettings
  <2>2. setupAt = "collections" /\ item = 1 /\ generated = 0 /\ totalInserted = 0
    BY DEF SInit, NoSeed
  <2>3. seeded \in [SetupDbs -> SUBSET Positions] /\ writing \in [SeedWriters -> SUBSET Positions]
    BY DEF SInit, NoSeed
  <2>4. QED
    BY <2>1, <2>2, <2>3 DEF SeedTypes
<1>2. OrderInv
  BY DEF SInit, OrderInv, SetupDbs
<1>3. QuietInv /\ WorkInv
  BY DEF SInit, NoSeed, QuietInv, WorkInv
<1>4. QED
  BY <1>1, <1>2, <1>3 DEF SeedInv

\* The preparation before the seed, and the sharding after it.
LEMMA OtherPhases ==
    ASSUME SeedSettings, SeedInv, CreateCollection \/ CreateIndexes \/ EnsureSharding
    PROVE  SeedInv'
<1> USE DEF SeedInv
<1>1. UNCHANGED seeded /\ UNCHANGED seedVars
  BY DEF CreateCollection, CreateIndexes, EnsureSharding, FailSetup
<1>2. \/ setupAt = "collections" /\ setupAt' \in {"collections", "indexes", "failed"}
      \/ setupAt = "indexes" /\ setupAt' \in {"indexes", "failed"}
      \/ setupAt = "indexes" /\ setupAt' = "seed" /\ item' = 1
      \/ setupAt = "sharding" /\ setupAt' \in {"sharding", "ready", "failed"}
  BY DEF CreateCollection, CreateIndexes, EnsureSharding, FailSetup, NextItem
<1>3. item' \in DOMAIN SetupDatabases
  BY DEF SeedTypes, SeedSettings, CreateCollection, CreateIndexes, EnsureSharding, FailSetup, NextItem
<1>4. SeedTypes'
  BY <1>1, <1>2, <1>3 DEF SeedTypes, seedVars
<1>5. QuietInv' /\ generated = 0 /\ totalInserted = 0 /\ \A v \in SeedWriters : writing[v] = {}
  BY <1>1, <1>2 DEF QuietInv, seedVars
<1>6. OrderInv'
  BY <1>1, <1>2, <1>3 DEF OrderInv, SeedSettings
<1>7. WorkInv'
  <2>1. SUFFICES ASSUME setupAt' = "seed" PROVE WorkInv'
    BY DEF WorkInv
  <2>2. setupAt = "indexes" /\ item' = 1
    BY <1>2, <2>1
  <2>3. seeded'[ItemDb'] = {} /\ Made' = {}
    BY <1>1, <1>3, <1>5, <2>2 DEF OrderInv, ItemDb, Made, Positions, seedVars
  <2>4. totalInserted' <= Cardinality(seeded'[ItemDb'])
    BY <1>1, <1>5, <2>3, FS_EmptySet DEF seedVars
  <2>5. \A v \in SeedWriters : writing'[v] = {}
    BY <1>1, <1>5 DEF seedVars
  <2>6. QED
    BY <2>3, <2>4, <2>5 DEF WorkInv
<1>8. QED
  BY <1>4, <1>5, <1>6, <1>7

\* A batch goes to a writer.
LEMMA HandOutStep ==
    ASSUME SeedSettings, SeedInv, NEW v \in SeedWriters, HandOut(v)
    PROVE  SeedInv'
<1> USE DEF SeedInv
<1>1. /\ setupAt = "seed" /\ generated < SeedCount /\ writing[v] = {}
      /\ writing' = [writing EXCEPT ![v] = Batch] /\ generated' = generated + Cardinality(Batch)
      /\ UNCHANGED <<setupAt, item, seeded, totalInserted, seedCause>>
  BY DEF HandOut, Producing
<1>2. generated' \in 0..SeedCount /\ Made' = Made \cup Batch /\ Batch \cap Made = {} /\ Batch \subseteq Positions
  <2>1. generated' \in generated..SeedCount
    BY <1>1, BatchIsNext
  <2>2. Made' = {p \in Positions : p < generated + Cardinality(Batch)}
    BY <1>1 DEF Made
  <2>3. QED
    BY <1>1, <2>1, <2>2, BatchIsNext DEF SeedTypes
<1>3. SeedTypes'
  BY <1>1, <1>2 DEF SeedTypes
<1>4. OrderInv' /\ QuietInv'
  BY <1>1 DEF OrderInv, QuietInv
<1>5. ItemDb' = ItemDb
  BY <1>1 DEF ItemDb
<1>6. WorkInv'
  <2>1. seeded'[ItemDb'] \subseteq Made' /\ totalInserted' <= Cardinality(seeded'[ItemDb'])
    BY <1>1, <1>2, <1>5 DEF WorkInv
  <2>2. writing'[v] = Batch /\ \A u \in SeedWriters : u # v => writing'[u] = writing[u]
    BY <1>1 DEF SeedTypes
  <2>3. \A u \in SeedWriters : writing'[u] \subseteq Made' \ seeded'[ItemDb']
    BY <1>1, <1>2, <1>5, <2>2 DEF WorkInv
  <2>4. \A u, w \in SeedWriters : u # w => writing'[u] \cap writing'[w] = {}
    BY <1>1, <1>2, <2>2 DEF WorkInv
  <2>5. seedCause' = "" => \A p \in Made' : p \in seeded'[ItemDb'] \/ \E u \in SeedWriters : p \in writing'[u]
    BY <1>1, <1>2, <1>5, <2>2 DEF WorkInv
  <2>6. QED
    BY <2>1, <2>3, <2>4, <2>5 DEF WorkInv
<1>7. QED
  BY <1>3, <1>4, <1>6

\* A writer is done with its batch: inserted, in part or not at all.
LEMMA WriterSteps ==
    ASSUME SeedSettings, SeedInv, NEW v \in SeedWriters,
           GiveUp(v) \/ InsertBatch(v) \/ InsertFails(v)
    PROVE  SeedInv'
<1> USE DEF SeedInv
<1>1. writing[v] # {} /\ setupAt = "seed"
  BY DEF GiveUp, InsertBatch, InsertFails, QuietInv
<1>2. /\ UNCHANGED <<setupAt, item, generated>> /\ writing' = [writing EXCEPT ![v] = {}]
  BY DEF GiveUp, InsertBatch, InsertFails
<1>3. ItemDb' = ItemDb /\ Made' = Made /\ ItemDb \in SetupDbs
  BY <1>2, DbOfItem DEF ItemDb, Made
<1>4. PICK done \in SUBSET writing[v] :
         /\ seeded' = [seeded EXCEPT ![ItemDb] = @ \cup done]
         /\ \/ done = writing[v] /\ totalInserted' = totalInserted + Cardinality(done) /\ seedCause' = seedCause
            \/ totalInserted' = totalInserted /\ seedCause' # ""
  <2>1. CASE GiveUp(v)
    <3>1. seeded' = seeded /\ seeded = [seeded EXCEPT ![ItemDb] = @ \cup {}]
      BY <2>1, <1>3 DEF GiveUp, SeedTypes
    <3>2. totalInserted' = totalInserted /\ seedCause' # ""
      BY <2>1 DEF GiveUp, Cancelled
    <3>3. {} \in SUBSET writing[v]
      OBVIOUS
    <3>4. QED
      BY <3>1, <3>2, <3>3
  <2>2. CASE InsertBatch(v)
    BY <2>2 DEF InsertBatch
  <2>3. CASE InsertFails(v)
    <3>1. PICK n \in writing[v] : seeded' = [seeded EXCEPT ![ItemDb] = @ \cup {p \in writing[v] : p < n}]
      BY <2>3 DEF InsertFails
    <3>2. totalInserted' = totalInserted /\ seedCause' # ""
      BY <2>3 DEF InsertFails, Cancelled
    <3>3. QED
      BY <3>1, <3>2
  <2>4. QED
    BY <2>1, <2>2, <2>3
<1>5. writing[v] \subseteq Made \ seeded[ItemDb] /\ writing[v] \subseteq Positions /\ seeded[ItemDb] \subseteq Positions
  BY <1>1, <1>3 DEF WorkInv, SeedTypes
<1>6. seeded'[ItemDb] = seeded[ItemDb] \cup done /\ \A d \in SetupDbs : d # ItemDb => seeded'[d] = seeded[d]
  BY <1>3, <1>4 DEF SeedTypes
<1>7. /\ totalInserted' \in Nat
      /\ totalInserted' <= Cardinality(seeded'[ItemDb])
  <2>1. done \subseteq Positions /\ done \cap seeded[ItemDb] = {}
    BY <1>5
  <2>2. IsFiniteSet(done) /\ IsFiniteSet(seeded[ItemDb]) /\ Cardinality(done) \in Nat /\ Cardinality(seeded[ItemDb]) \in Nat
    BY <1>5, <2>1, PositionsFinite
  <2>3. Cardinality(seeded'[ItemDb]) = Cardinality(seeded[ItemDb]) + Cardinality(done)
    <3>1. Cardinality(seeded[ItemDb] \cap done) = 0
      BY <2>1, FS_EmptySet
    <3>2. Cardinality(seeded[ItemDb] \cup done) =
             Cardinality(seeded[ItemDb]) + Cardinality(done) - Cardinality(seeded[ItemDb] \cap done)
      BY <2>2, FS_Union
    <3>3. QED
      BY <1>6, <2>2, <3>1, <3>2
  <2>4. totalInserted <= Cardinality(seeded[ItemDb]) /\ totalInserted \in Nat
    BY <1>1 DEF WorkInv, SeedTypes
  <2>5. totalInserted' = totalInserted \/ totalInserted' = totalInserted + Cardinality(done)
    BY <1>4
  <2>6. QED
    BY <2>2, <2>3, <2>4, <2>5
<1>8. SeedTypes'
  BY <1>2, <1>3, <1>4, <1>5, <1>7 DEF SeedTypes
<1>9. OrderInv'
  <2>1. setupAt' = "seed" /\ item' = item
    BY <1>1, <1>2
  <2>2. ASSUME NEW i \in DOMAIN SetupDatabases, i # item
        PROVE  seeded'[SetupDatabases[i]] = seeded[SetupDatabases[i]]
    BY <1>6, <2>2, DbOfItem
  <2>3. ~(item < item) /\ ~(item > item)
    BY DEF SeedTypes, SeedSettings
  <2>4. QED
    BY <1>1, <2>1, <2>2, <2>3 DEF OrderInv
<1>10. QuietInv'
  BY <1>1, <1>2 DEF QuietInv
<1>11. WorkInv'
  <2>1. writing'[v] = {} /\ \A u \in SeedWriters : u # v => writing'[u] = writing[u]
    BY <1>2 DEF SeedTypes
  <2>2. seeded'[ItemDb'] \subseteq Made' /\ totalInserted' <= Cardinality(seeded'[ItemDb'])
    BY <1>1, <1>3, <1>5, <1>6, <1>7 DEF WorkInv
  <2>3. \A u \in SeedWriters : writing'[u] \subseteq Made' \ seeded'[ItemDb']
    BY <1>1, <1>3, <1>6, <2>1 DEF WorkInv
  <2>4. \A u, w \in SeedWriters : u # w => writing'[u] \cap writing'[w] = {}
    BY <1>1, <2>1 DEF WorkInv
  <2>5. ASSUME seedCause' = "", NEW p \in Made'
        PROVE  p \in seeded'[ItemDb'] \/ \E u \in SeedWriters : p \in writing'[u]
    <3>1. done = writing[v] /\ seedCause = ""
      BY <1>4, <2>5
    <3>2. p \in seeded[ItemDb] \/ \E u \in SeedWriters : p \in writing[u]
      BY <1>1, <1>3, <2>5, <3>1 DEF WorkInv
    <3>3. QED
      BY <1>3, <1>6, <2>1, <3>1, <3>2
  <2>6. QED
    BY <2>2, <2>3, <2>4, <2>5 DEF WorkInv
<1>12. QED
  BY <1>8, <1>9, <1>10, <1>11

\* The end of a seed: without a cause everything was handed out and inserted.
LEMMA EndStep ==
    ASSUME SeedSettings, SeedInv, SeedEnds
    PROVE  SeedInv'
<1> USE DEF SeedInv
<1>1. setupAt = "seed" /\ ~Producing /\ UNCHANGED seeded /\ \A v \in SeedWriters : writing[v] = {}
  BY DEF SeedEnds, SeedResult
<1>2. CASE seedCause # ""
  <2>1. setupAt' = "failed" /\ UNCHANGED <<item, seedVars>>
    BY <1>2 DEF SeedEnds, SeedResult, FailSetup
  <2>2. SeedTypes'
    BY <1>1, <2>1 DEF SeedTypes, seedVars
  <2>3. QED
    BY <1>1, <2>1, <2>2 DEF OrderInv, QuietInv, WorkInv, seedVars
<1>3. CASE seedCause = ""
  <2>1. NextItem("sharding") /\ generated' = 0 /\ totalInserted' = 0 /\ UNCHANGED <<writing, seedCause>>
    BY <1>3 DEF SeedEnds, SeedResult
  <2>2. seeded[ItemDb] = Positions
    <3>1. generated = SeedCount
      <4>1. SeedCount \in Nat /\ generated \in 0..SeedCount
        BY DEF SeedTypes, SeedSettings
      <4>2. ~(generated < SeedCount)
        BY <1>1, <1>3 DEF Producing, Cancelled
      <4>3. QED
        BY <4>1, <4>2
    <3>2. Made = Positions
      BY <3>1 DEF Made, Positions, SeedSettings
    <3>3. QED
      BY <1>1, <1>3, <3>2 DEF WorkInv, Made
  <2>3. \A i \in DOMAIN SetupDatabases : i <= item => seeded[SetupDatabases[i]] = Positions
    BY <1>1, <2>2 DEF OrderInv, ItemDb, SeedTypes, SeedSettings
  <2>4. CASE item < Len(SetupDatabases)
    <3>1. item' = item + 1 /\ setupAt' = "seed"
      BY <1>1, <2>1, <2>4 DEF NextItem
    <3>2. item' \in DOMAIN SetupDatabases
      BY <2>4, <3>1 DEF SeedTypes, SeedSettings
    <3>3. SeedTypes'
      BY <1>1, <2>1, <3>1, <3>2 DEF SeedTypes, SeedSettings
    <3>4. OrderInv' /\ QuietInv'
      BY <1>1, <2>3, <3>1, <3>2 DEF OrderInv, QuietInv, SeedTypes, SeedSettings
    <3>5. seeded'[ItemDb'] = {} /\ Made' = {}
      BY <1>1, <2>1, <3>1, <3>2 DEF OrderInv, ItemDb, Made, Positions, SeedTypes, SeedSettings
    <3>6. WorkInv'
      <4>1. totalInserted' <= Cardinality(seeded'[ItemDb'])
        BY <2>1, <3>5, FS_EmptySet
      <4>2. \A v \in SeedWriters : writing'[v] = {}
        BY <1>1, <2>1
      <4>3. QED
        BY <3>5, <4>1, <4>2 DEF WorkInv
    <3>7. QED
      BY <3>3, <3>4, <3>6
  <2>5. CASE ~(item < Len(SetupDatabases))
    <3>1. item' = 1 /\ setupAt' = "sharding" /\ item = Len(SetupDatabases)
      BY <2>1, <2>5 DEF NextItem, SeedTypes, SeedSettings
    <3>2. SeedTypes'
      BY <1>1, <2>1, <3>1 DEF SeedTypes, SeedSettings
    <3>3. OrderInv'
      BY <1>1, <2>3, <3>1 DEF OrderInv, SeedTypes, SeedSettings
    <3>4. QuietInv' /\ WorkInv'
      BY <1>1, <2>1, <3>1 DEF QuietInv, WorkInv
    <3>5. QED
      BY <3>2, <3>3, <3>4
  <2>6. QED
    BY <2>4, <2>5
<1>4. QED
  BY <1>2, <1>3

\* A stop only gives a cause.
LEMMA StopStep ==
    ASSUME SeedSettings, SeedInv, StopSetup
    PROVE  SeedInv'
<1>1. /\ UNCHANGED <<setupAt, item, seeded, generated, writing, totalInserted>>
      /\ seedCause' # ""
  BY DEF StopSetup, Cancelled
<1>2. QED
  BY <1>1 DEF SeedInv, SeedTypes, OrderInv, QuietInv, WorkInv, ItemDb, Made

LEMMA SeedStepInv == SeedSettings /\ SeedInv /\ [SNext]_setupVars => SeedInv'
<1> SUFFICES ASSUME SeedSettings, SeedInv, [SNext]_setupVars PROVE SeedInv'
  OBVIOUS
<1>1. CASE UNCHANGED setupVars
  BY <1>1 DEF setupVars, seedVars, SeedInv, SeedTypes, OrderInv, QuietInv, WorkInv, ItemDb, Made
<1>2. CASE CreateCollection \/ CreateIndexes \/ EnsureSharding
  BY <1>2, OtherPhases
<1>3. ASSUME NEW v \in SeedWriters, HandOut(v) \/ GiveUp(v) \/ InsertBatch(v) \/ InsertFails(v)
      PROVE  SeedInv'
  BY <1>3, HandOutStep, WriterSteps
<1>4. CASE SeedEnds
  BY <1>4, EndStep
<1>5. CASE StopSetup
  BY <1>5, StopStep
<1>6. QED
  BY <1>1, <1>2, <1>3, <1>4, <1>5 DEF SNext, SetupStep, SeedStep

\* A preparation that goes on to sharding, or is ready, has inserted every
\* document of every definition, and never counts more than it inserted,
\* however many writers fail, give up or are stopped (seedCollection).
THEOREM SeededTheorem ==
    ASSUME SeedSettings
    PROVE  SSpec => []SeededMeansAll
<1>1. SInit => SeedInv
  BY InitSeed
<1>2. SeedInv /\ [SNext]_setupVars => SeedInv'
  BY SeedStepInv
<1>3. SeedInv => SeededMeansAll
  BY DEF SeedInv, OrderInv, WorkInv, SeededMeansAll, SetupDbs
<1>4. QED
  BY <1>1, <1>2, <1>3, PTL DEF SSpec

-----------------------------------------------------------------------------
(***************************************************************************)
(* The raw injector.  In a run that inserts, a worker whose scan worked    *)
(* has a sequence number above every document of its own (FreshInv); that  *)
(* the scan finds the highest number rests on there being finitely many    *)
(* documents, of which a bound is kept (BoundInv).                         *)
(***************************************************************************)

RawStates ==
    /\ rawAt \in {"off", "scan", "work"}
    /\ \A d \in docs : d \in RawWorkers \X Nat
    /\ seq \in [RawWorkers -> Nat \cup {-1}]
    /\ rawAt = "work" => \A w \in RawWorkers : seq[w] # -1

BoundInv == \E b \in Nat : \A d \in docs : d[2] < b

FreshInv ==
    rawAt # "off" /\ rawType \in {"insert", "mixed"} =>
        \A w \in RawWorkers \ scanFailed :
            seq[w] # -1 => \A d \in docs : d[1] = w => d[2] < seq[w]

RawInv == RawStates /\ BoundInv /\ FreshInv

\* The order of the naturals, as the set of pairs the library's theorems speak of.
NatOrder == {p \in Nat \X Nat : p[1] < p[2]}

\* A set of naturals that is not empty has a least member.
LEMMA LeastOf ==
    ASSUME NEW T, T \subseteq Nat, T # {}
    PROVE  \E m \in T : \A j \in T : m <= j
<1>1. IsWellFoundedOn(NatOrder, Nat)
  BY NatLessThanWellFounded DEF OpToRel, NatOrder
<1>2. PICK m \in T : \A j \in T : ~(<<j, m>> \in NatOrder)
  BY <1>1, WFMin
<1>3. ASSUME NEW j \in T PROVE m <= j
  <2>1. m \in Nat /\ j \in Nat
    OBVIOUS
  <2>2. ~(<<j, m>> \in NatOrder)
    BY <1>2
  <2>3. ~(j < m)
    BY <2>1, <2>2 DEF NatOrder
  <2> QED
    BY <2>1, <2>3
<1> QED
  BY <1>3

\* The scan finds a number that no document of the worker exceeds.
LEMMA HighestFound ==
    ASSUME RawInv, NEW w \in RawWorkers
    PROVE  /\ LastSequence(w) \in Nat
           /\ \A d \in docs : d[1] = w => d[2] <= LastSequence(w)
<1> DEFINE own == {d[2] : d \in {x \in docs : x[1] = w}}
<1>1. own \subseteq Nat
  BY DEF RawInv, RawStates
<1>2. PICK b \in Nat : \A d \in docs : d[2] < b
  BY DEF RawInv, BoundInv
<1>3. \A n \in own : n < b
  BY <1>2
<1>4. \A d \in docs : d[1] = w => d[2] \in own
  OBVIOUS
<1>5. LastSequence(w) = IF own = {} THEN 0 ELSE CHOOSE n \in own : \A m \in own : m <= n
  BY DEF LastSequence
<1> HIDE DEF own
<1>6. CASE own = {}
  BY <1>4, <1>5, <1>6
<1>7. CASE own # {}
  <2> DEFINE below == {b - n : n \in own}
  <2>1. below \subseteq Nat /\ below # {}
    <3>1. ASSUME NEW n \in own PROVE b - n \in Nat
      <4>1. n \in Nat /\ n < b
        BY <1>1, <1>3
      <4> QED
        BY <4>1
    <3> QED
      BY <1>7, <3>1
  <2>2. PICK least \in below : \A j \in below : least <= j
    BY <2>1, LeastOf
  <2>3. PICK n \in own : least = b - n
    BY <2>2
  <2>4. ASSUME NEW m \in own PROVE m <= n
    <3>1. b - m \in below
      OBVIOUS
    <3>2. b - n <= b - m
      BY <2>2, <2>3, <3>1
    <3> QED
      BY <1>1, <3>2
  <2>5. \E k \in own : \A m \in own : m <= k
    BY <2>4
  <2>6. LastSequence(w) \in own /\ \A m \in own : m <= LastSequence(w)
    BY <1>5, <1>7, <2>5
  <2> QED
    BY <1>1, <1>4, <2>6
<1> QED
  BY <1>6, <1>7

LEMMA RawInitial == RInit => RawInv
<1> SUFFICES ASSUME RInit PROVE RawInv
  OBVIOUS
<1>1. docs = {} /\ rawAt = "off" /\ seq \in [RawWorkers -> Nat \cup {-1}]
  BY DEF RInit
<1>2. BoundInv
  BY <1>1, 0 \in Nat DEF BoundInv
<1> QED
  BY <1>1, <1>2 DEF RawInv, RawStates, FreshInv

\* Fewer documents are as fresh, and as bounded.
LEMMA FewerDocuments ==
    ASSUME RawInv, docs' \subseteq docs
    PROVE  BoundInv' /\ (\A d \in docs' : d \in RawWorkers \X Nat)
  BY DEF RawInv, RawStates, BoundInv

LEMMA BeginRun ==
    ASSUME RawInv, NEW type, NEW drop \in BOOLEAN, RunRawInjector(type, drop)
    PROVE  RawInv'
<1>1. docs' = IF drop THEN {} ELSE docs
  BY DEF RunRawInjector
<1>2. docs' \subseteq docs
  BY <1>1
<1>3. CASE ~drop /\ Resumes(type)
  <2>1. rawAt' = "scan" /\ seq' = [w \in RawWorkers |-> -1]
    BY <1>3 DEF RunRawInjector
  <2>2. RawStates'
    BY <1>2, <2>1, FewerDocuments DEF RawStates
  <2>3. FreshInv'
    BY <2>1 DEF FreshInv
  <2> QED
    BY <1>2, <2>2, <2>3, FewerDocuments DEF RawInv
<1>4. CASE ~(~drop /\ Resumes(type))
  <2>1. rawAt' = "work" /\ seq' = [w \in RawWorkers |-> 0] /\ rawType' = type
    BY <1>4 DEF RunRawInjector
  <2>2. RawStates'
    BY <1>2, <2>1, FewerDocuments DEF RawStates
  <2>3. type \in {"insert", "mixed"} => docs' = {}
    BY <1>1, <1>4 DEF Resumes
  <2>4. FreshInv'
    BY <2>1, <2>3 DEF FreshInv
  <2> QED
    BY <1>2, <2>2, <2>4, FewerDocuments DEF RawInv
<1> QED
  BY <1>3, <1>4

LEMMA ScanStep ==
    ASSUME RawInv, NEW w \in RawWorkers, Scan(w)
    PROVE  RawInv'
<1> DEFINE next == LastSequence(w) + 1
<1>1. /\ rawAt = "scan" /\ UNCHANGED <<rawType, rawAt, docs>>
      /\ \/ seq' = [seq EXCEPT ![w] = IF rawType = "upsert" THEN 0 ELSE next] /\ scanFailed' = scanFailed
         \/ seq' = [seq EXCEPT ![w] = 0] /\ scanFailed' = scanFailed \cup {w}
  BY DEF Scan, ScanFrom
<1>2. next \in Nat /\ \A d \in docs : d[1] = w => d[2] < next
  <2>1. /\ LastSequence(w) \in Nat
        /\ \A d \in docs : d[1] = w => d[2] <= LastSequence(w)
    BY HighestFound
  <2>2. \A d \in docs : d[2] \in Nat
    BY DEF RawInv, RawStates
  <2> QED
    BY <2>1, <2>2
<1> HIDE DEF next
<1>3. RawStates'
  BY <1>1, <1>2 DEF RawInv, RawStates
<1>4. FreshInv'
  <2> SUFFICES ASSUME rawType \in {"insert", "mixed"}, NEW v \in RawWorkers \ scanFailed',
                      seq'[v] # -1, NEW d \in docs, d[1] = v
               PROVE  d[2] < seq'[v]
    BY <1>1 DEF FreshInv
  <2>1. CASE v = w
    <3>1. seq'[w] = next
      BY <1>1, <2>1 DEF RawInv, RawStates
    <3> QED
      BY <1>2, <2>1, <3>1
  <2>2. CASE v # w
    <3>1. seq'[v] = seq[v] /\ v \notin scanFailed
      BY <1>1, <2>2 DEF RawInv, RawStates
    <3> QED
      BY <1>1, <3>1 DEF RawInv, FreshInv
  <2> QED
    BY <2>1, <2>2
<1>5. BoundInv'
  BY <1>1 DEF RawInv, BoundInv
<1> QED
  BY <1>3, <1>4, <1>5 DEF RawInv

\* A batch has the numbers from seq on, and seq goes behind them.
LEMMA BatchStep ==
    ASSUME RawInv, NEW w \in RawWorkers, rawAt = "work",
           UNCHANGED <<rawType, rawAt, scanFailed>>,
           seq' = [seq EXCEPT ![w] = @ + RawBatch],
           docs' = docs \cup RawBatchOf(w) \/ docs' = docs
    PROVE  RawInv'
<1>1. seq[w] \in Nat /\ RawBatch \in Nat
  BY RawAssumption DEF RawInv, RawStates
<1>2. /\ seq' \in [RawWorkers -> Nat \cup {-1}] /\ seq'[w] = seq[w] + RawBatch
      /\ \A v \in RawWorkers : v # w => seq'[v] = seq[v]
  BY <1>1 DEF RawInv, RawStates
<1>3. ASSUME NEW d \in docs', d \notin docs
      PROVE  d \in RawWorkers \X Nat /\ d[1] = w /\ d[2] < seq'[w]
  <2>1. PICK n \in seq[w]..seq[w] + RawBatch - 1 : d = <<w, n>>
    BY <1>3 DEF RawBatchOf
  <2>2. n \in Nat /\ n < seq[w] + RawBatch
    BY <1>1
  <2> QED
    BY <1>2, <2>1, <2>2
<1>4. \A d \in docs : d[2] \in Nat
  BY DEF RawInv, RawStates
<1>5. RawStates'
  <2>1. \A v \in RawWorkers : seq'[v] # -1
    BY <1>1, <1>2 DEF RawInv, RawStates
  <2> QED
    BY <1>2, <1>3, <2>1 DEF RawInv, RawStates
<1>6. BoundInv'
  <2>1. PICK b \in Nat : \A d \in docs : d[2] < b
    BY DEF RawInv, BoundInv
  <2>2. seq'[w] \in Nat
    BY <1>1, <1>2
  <2> DEFINE c == b + seq'[w]
  <2>3. c \in Nat
    BY <2>2
  <2>4. ASSUME NEW d \in docs' PROVE d[2] < c
    <3>1. d[2] \in Nat
      BY <1>3, <1>4
    <3>2. d[2] < b \/ d[2] < seq'[w]
      BY <1>3, <2>1
    <3> QED
      BY <2>2, <3>1, <3>2
  <2> QED
    BY <2>3, <2>4 DEF BoundInv
<1>7. FreshInv'
  <2> SUFFICES ASSUME rawType \in {"insert", "mixed"}, NEW v \in RawWorkers \ scanFailed,
                      NEW d \in docs', d[1] = v
               PROVE  d[2] < seq'[v]
    BY DEF FreshInv
  <2>1. CASE d \notin docs
    BY <1>3, <2>1
  <2>2. CASE d \in docs
    <3>1. d[2] < seq[v]
      BY <2>2 DEF RawInv, RawStates, FreshInv
    <3>2. d[2] \in Nat
      BY <1>4, <2>2
    <3> QED
      BY <1>1, <1>2, <3>1, <3>2
  <2> QED
    BY <2>1, <2>2
<1> QED
  BY <1>5, <1>6, <1>7 DEF RawInv

LEMMA RawStep == RawInv /\ [RNext]_rvars => RawInv'
<1> SUFFICES ASSUME RawInv, [RNext]_rvars PROVE RawInv'
  OBVIOUS
<1>1. ASSUME NEW type, NEW drop \in BOOLEAN, RunRawInjector(type, drop) PROVE RawInv'
  BY <1>1, BeginRun
<1>2. CASE StartWork
  BY <1>2 DEF StartWork, RawInv, RawStates, BoundInv, FreshInv
<1>3. CASE StopWork
  BY <1>3 DEF StopWork, RawInv, RawStates, BoundInv, FreshInv
<1>4. ASSUME NEW w \in RawWorkers, Scan(w) PROVE RawInv'
  BY <1>4, ScanStep
<1>5. ASSUME NEW w \in RawWorkers, Insert(w) PROVE RawInv'
  BY <1>5, BatchStep DEF Insert, Sends
<1>6. ASSUME NEW w \in RawWorkers, Upsert(w) PROVE RawInv'
  BY <1>6, BatchStep DEF Upsert, Sends
<1>7. ASSUME NEW w \in RawWorkers, NEW op, NEW n, Target(w, op, n) PROVE RawInv'
  <2>1. docs' \subseteq docs /\ UNCHANGED <<rawType, rawAt, scanFailed, seq>>
    BY <1>7 DEF Target, Sends
  <2>2. BoundInv' /\ \A d \in docs' : d \in RawWorkers \X Nat
    BY <2>1, FewerDocuments
  <2> QED
    BY <2>1, <2>2 DEF RawInv, RawStates, FreshInv
<1>8. CASE UNCHANGED rvars
  BY <1>8 DEF rvars, RawInv, RawStates, BoundInv, FreshInv
<1> QED
  BY <1>1, <1>2, <1>3, <1>4, <1>5, <1>6, <1>7, <1>8 DEF RNext

\* A run that keeps the collection inserts documents the collection does not
\* have, for any number of workers, batches and runs, after deletes, failed
\* inserts and upserts of earlier runs (findLastSequence).
THEOREM FreshTheorem == RSpec => []FreshIds
<1>1. RawInv => FreshIds
  <2> SUFFICES ASSUME RawInv, rawAt = "work", rawType \in {"insert", "mixed"},
                      NEW w \in RawWorkers \ scanFailed, NEW n \in Numbers, n >= seq[w],
                      <<w, n>> \in docs
               PROVE  FALSE
    BY DEF FreshIds
  <2>1. seq[w] \in Nat /\ n \in Nat
    BY DEF RawInv, RawStates, Numbers
  <2>2. n < seq[w]
    <3> DEFINE d == <<w, n>>
    <3>1. d \in docs /\ d[1] = w /\ d[2] = n
      OBVIOUS
    <3>2. \A e \in docs : e[1] = w => e[2] < seq[w]
      BY <2>1 DEF RawInv, FreshInv
    <3> QED
      BY <3>1, <3>2
  <2> QED
    BY <2>1, <2>2
<1>2. RawInv /\ [][RNext]_rvars => []RawInv
  BY RawStep, PTL
<1> QED
  BY RawInitial, <1>1, <1>2, PTL DEF RSpec

-----------------------------------------------------------------------------
(***************************************************************************)
(* The record pool.  A table of what remains of each prefix of the records *)
(* exists, and so the definition of Remaining can be expanded; that it     *)
(* holds what it should is shown of the first prefix that would not.       *)
(***************************************************************************)

IsTable(g, n, records, filter) ==
    g = [i \in 0..n |-> IF i = 0 THEN <<>>
                        ELSE IF Matches(filter, records[i]) THEN g[i - 1]
                        ELSE Append(g[i - 1], records[i])]

LEMMA TableExists ==
    ASSUME NEW records, NEW filter, NEW last \in Nat
    PROVE  \E g : IsTable(g, last, records, filter)
<1> DEFINE Without == {n \in Nat : ~ \E g : IsTable(g, n, records, filter)}
<1> SUFFICES ASSUME Without # {} PROVE FALSE
  OBVIOUS
<1>1. PICK m \in Without : \A j \in Without : m <= j
  BY LeastOf
<1>2. CASE m = 0
  <2> DEFINE g == [i \in 0..0 |-> <<>>]
  <2>1. IsTable(g, 0, records, filter)
    BY DEF IsTable
  <2> QED
    BY <1>2, <2>1
<1>3. CASE m # 0
  <2>1. m \in Nat /\ m - 1 \in Nat /\ ~(m <= m - 1)
    BY <1>3
  <2>2. PICK g : IsTable(g, m - 1, records, filter)
    BY <1>1, <2>1
  <2> DEFINE Next(i) == IF Matches(filter, records[i]) THEN g[i - 1] ELSE Append(g[i - 1], records[i])
             h == [i \in 0..m |-> IF i < m THEN g[i] ELSE Next(i)]
  <2>3. \A i \in 0..(m - 1) : g[i] = IF i = 0 THEN <<>> ELSE Next(i)
    BY <2>2 DEF IsTable
  <2>4. ASSUME NEW i \in 0..m
        PROVE  h[i] = IF i = 0 THEN <<>>
                      ELSE IF Matches(filter, records[i]) THEN h[i - 1]
                      ELSE Append(h[i - 1], records[i])
    <3>1. i # 0 => i - 1 \in 0..m /\ i - 1 < m
      BY <2>1
    <3>2. i # 0 => h[i - 1] = g[i - 1]
      BY <3>1
    <3>3. h[i] = IF i = 0 THEN <<>> ELSE Next(i)
      <4>1. i < m => i \in 0..(m - 1)
        BY <2>1
      <4> QED
        BY <1>3, <2>1, <2>3, <4>1
    <3> QED
      BY <3>2, <3>3
  <2>5. IsTable(h, m, records, filter)
    BY <2>4 DEF IsTable
  <2> QED
    BY <2>5
<1> QED
  BY <1>2, <1>3

\* What remains are records that do not match.
LEMMA RemainingKeeps ==
    ASSUME NEW S, NEW records \in Seq(S), NEW filter
    PROVE  Remaining(records, filter)
               \in Seq({d \in S : ~Matches(filter, d) /\ \E j \in DOMAIN records : records[j] = d})
<1> DEFINE Stays == {d \in S : ~Matches(filter, d) /\ \E j \in DOMAIN records : records[j] = d}
           table == CHOOSE g : IsTable(g, Len(records), records, filter)
<1>1. Len(records) \in Nat
  OBVIOUS
<1>2. IsTable(table, Len(records), records, filter)
  BY <1>1, TableExists
<1>3. Remaining(records, filter) = table[Len(records)]
  BY DEF Remaining, IsTable
<1> HIDE DEF table
<1>4. \A i \in 0..Len(records) :
          table[i] = IF i = 0 THEN <<>>
                     ELSE IF Matches(filter, records[i]) THEN table[i - 1]
                     ELSE Append(table[i - 1], records[i])
  BY <1>2 DEF IsTable
<1> DEFINE Bad == {i \in 0..Len(records) : table[i] \notin Seq(Stays)}
<1>5. Bad = {}
  <2> SUFFICES ASSUME Bad # {} PROVE FALSE
    OBVIOUS
  <2>1. Bad \subseteq Nat
    BY <1>1
  <2>2. PICK m \in Bad : \A j \in Bad : m <= j
    BY <2>1, LeastOf
  <2>3. m # 0
    <3>1. 0 \in 0..Len(records) /\ <<>> \in Seq(Stays)
      BY <1>1
    <3>2. table[0] = <<>>
      BY <1>4, <3>1
    <3> QED
      BY <3>1, <3>2
  <2>4. m - 1 \in 0..Len(records) /\ ~(m <= m - 1) /\ m \in DOMAIN records
    BY <1>1, <2>3
  <2>5. table[m - 1] \in Seq(Stays)
    BY <2>2, <2>4
  <2>6. records[m] \in S
    BY <2>4
  <2>7. ~Matches(filter, records[m]) => records[m] \in Stays
    BY <2>4, <2>6
  <2>8. table[m] = IF Matches(filter, records[m]) THEN table[m - 1]
                   ELSE Append(table[m - 1], records[m])
    BY <1>4, <2>3
  <2> HIDE DEF Stays
  <2>9. table[m] \in Seq(Stays)
    BY <2>5, <2>7, <2>8
  <2> QED
    BY <2>9
<1>6. Len(records) \in 0..Len(records)
  BY <1>1
<1> QED
  BY <1>3, <1>5, <1>6

\* Add keeps records it had, and the new one.
LEMMA AddTakes ==
    ASSUME NEW S, NEW records \in Seq(S), NEW d \in S
    PROVE  /\ Add(records, d) \in Seq(S)
           /\ \A i \in DOMAIN Add(records, d) :
                  Add(records, d)[i] = d \/ \E j \in DOMAIN records : records[j] = Add(records, d)[i]
<1> DEFINE all == Append(records, d)
           first == IF Len(all) > PoolMaxSize THEN Len(all) - PoolMaxSize + 1 ELSE 1
<1>1. all \in Seq(S) /\ Len(all) = Len(records) + 1 /\ Len(all) \in Nat /\ PoolMaxSize \in Nat
  BY PoolAssumption
<1>2. \A j \in 1..Len(all) : all[j] = d \/ (j \in DOMAIN records /\ records[j] = all[j])
  OBVIOUS
<1> HIDE DEF all
<1>3. first \in Nat /\ first >= 1 /\ first <= Len(all)
  BY <1>1, PoolAssumption
<1> HIDE DEF first
<1>4. \A j \in first..Len(all) : all[j] \in S
  BY <1>1, <1>3
<1>5. /\ SubSeq(all, first, Len(all)) \in Seq(S)
      /\ Len(SubSeq(all, first, Len(all))) = Len(all) - first + 1
      /\ \A i \in 1..(Len(all) - first + 1) : SubSeq(all, first, Len(all))[i] = all[first + i - 1]
  BY <1>1, <1>3, <1>4, SubSeqProperties
<1>6. Add(records, d) = SubSeq(all, first, Len(all))
  BY DEF Add, all, first
<1>7. \A i \in DOMAIN Add(records, d) :
          i \in 1..(Len(all) - first + 1) /\ first + i - 1 \in 1..Len(all)
  BY <1>1, <1>3, <1>5, <1>6
<1> QED
  BY <1>2, <1>5, <1>6, <1>7

Documents == [n : Nat, of : PoolCollections]
Inserts == [op : {"insert", "fast", "transaction"}, col : PoolCollections, doc : Documents,
            at : {"send", "register", "commit"}]
DeleteFilters == [kind : DeleteKinds, hits : SUBSET Documents]
Deletes == [op : {"delete"}, col : PoolCollections, filter : DeleteFilters, gone : SUBSET Documents]

Inserting(v) == job[v] \in Inserts

PoolTypes ==
    /\ documents \in Nat /\ insertCache \in Seq(Documents)
    /\ pool \in [PoolCollections -> Seq(Documents)]
    /\ inDb \in [PoolCollections -> SUBSET Documents]
    /\ ever \in [PoolCollections -> SUBSET Documents]
    /\ DOMAIN job = PoolWorkers
    /\ \A v \in PoolWorkers : job[v] = IdleWorker \/ job[v] \in Inserts \/ job[v] \in Deletes

\* A document was generated once and is in one hand: the cache or a worker.
HandInv ==
    /\ \A i \in DOMAIN insertCache : insertCache[i].n <= documents
    /\ \A v \in PoolWorkers : Inserting(v) => job[v].doc.n <= documents
    /\ \A i, j \in DOMAIN insertCache : insertCache[i] = insertCache[j] => i = j
    /\ \A v \in PoolWorkers : Inserting(v) =>
          /\ \A i \in DOMAIN insertCache : insertCache[i] # job[v].doc
          /\ \A u \in PoolWorkers : Inserting(u) /\ job[u].doc = job[v].doc => u = v

\* It is in no collection before it is sent, and one that was deleted before it
\* is registered is marked.
SentInv ==
    /\ \A c \in PoolCollections : \A d \in ever[c] : d.n <= documents
    /\ \A c \in PoolCollections : \A i \in DOMAIN insertCache : insertCache[i] \notin ever[c]
    /\ \A c \in PoolCollections : \A v \in PoolWorkers : Inserting(v) =>
          /\ job[v].at \in {"send", "commit"} => job[v].doc \notin ever[c]
          /\ job[v].doc \in ever[c] => job[v].doc \in inDb[c] \cup raced

\* The filter of a delete finds the record of what it took, unless marked.
GoneInv ==
    \A v \in PoolWorkers : job[v] \in Deletes =>
        \A d \in job[v].gone :
            d \in raced \/ (Matches(job[v].filter, d) /\ job[v].filter.kind # "empty")

\* The records of deleted documents wait for the delete that took them.
LeaveInv ==
    \A c \in PoolCollections : \A i \in DOMAIN pool[c] :
        pool[c][i] \in ever[c] \ (inDb[c] \cup raced) =>
            \E v \in PoolWorkers : job[v] \in Deletes /\ job[v].col = c /\ pool[c][i] \in job[v].gone

PoolInv == PoolTypes /\ HandInv /\ SentInv /\ GoneInv /\ LeaveInv

LEMMA JobsApart ==
    ASSUME NEW j
    PROVE  /\ j \in Inserts => /\ j \notin Deletes /\ j # IdleWorker /\ j.doc \in Documents
                               /\ j.col \in PoolCollections /\ j.op # "delete" /\ j.op # "none"
           /\ j \in Deletes => j.op = "delete" /\ j # IdleWorker
           /\ IdleWorker \notin Inserts /\ IdleWorker \notin Deletes
<1>1. IdleWorker.op = "none"
  BY DEF IdleWorker
<1> QED
  BY <1>1 DEF Inserts, Deletes

LEMMA PoolInitial == PInit => PoolInv
<1> SUFFICES ASSUME PInit PROVE PoolInv
  OBVIOUS
<1>1. PICK first \in [PoolCollections -> 1..Cardinality(PoolCollections)] :
          inDb = [c \in PoolCollections |-> {[n |-> first[c], of |-> c]}]
  BY DEF PInit
<1>2. /\ documents = Cardinality(PoolCollections) /\ documents \in Nat
      /\ insertCache = <<>> /\ ever = inDb /\ job = [w \in PoolWorkers |-> IdleWorker]
      /\ pool = [c \in PoolCollections |-> SetToSeq(inDb[c])]
  BY PoolAssumption, FS_CardinalityType DEF PInit
<1>3. ASSUME NEW c \in PoolCollections
      PROVE  /\ inDb[c] = {[n |-> first[c], of |-> c]} /\ inDb[c] \subseteq Documents
             /\ SetToSeq(inDb[c]) \in Seq(Documents)
             /\ \A d \in ever[c] : d.n <= documents
  <2> DEFINE d == [n |-> first[c], of |-> c]
  <2>1. inDb[c] = {d} /\ first[c] \in Nat /\ first[c] <= documents
    BY <1>1, <1>2
  <2>2. d \in Documents /\ d.n = first[c]
    BY <2>1 DEF Documents
  <2> HIDE DEF d
  <2>3. Cardinality(inDb[c]) = 1
    BY <2>1, FS_Singleton
  <2>4. \E f \in [1..1 -> inDb[c]] : IsInjective(f)
    <3>1. [i \in 1..1 |-> d] \in [1..1 -> inDb[c]]
      BY <2>1
    <3>2. IsInjective([i \in 1..1 |-> d])
      BY DEF IsInjective
    <3> QED
      BY <3>1, <3>2
  <2>5. SetToSeq(inDb[c]) \in [1..1 -> inDb[c]]
    BY <2>3, <2>4 DEF SetToSeq
  <2>6. SetToSeq(inDb[c]) \in Seq(Documents)
    <3>1. SetToSeq(inDb[c]) \in [1..1 -> Documents]
      BY <2>1, <2>2, <2>5
    <3>2. [1..1 -> Documents] \in {[1..n -> Documents] : n \in Nat}
      OBVIOUS
    <3>3. SetToSeq(inDb[c]) \in UNION {[1..n -> Documents] : n \in Nat}
      BY <3>1, <3>2
    <3> QED
      BY <3>3, SeqDef
  <2> QED
    BY <1>2, <2>1, <2>2, <2>6 DEF d
<1>4. PoolTypes
  <2>1. insertCache \in Seq(Documents)
    BY <1>2
  <2>2. pool \in [PoolCollections -> Seq(Documents)]
    BY <1>2, <1>3
  <2>3. inDb \in [PoolCollections -> SUBSET Documents]
    BY <1>1, <1>3
  <2> QED
    BY <1>2, <2>1, <2>2, <2>3 DEF PoolTypes
<1>5. \A v \in PoolWorkers : ~Inserting(v) /\ job[v] \notin Deletes
  BY <1>2, JobsApart DEF Inserting
<1>6. DOMAIN insertCache = {}
  BY <1>2
<1>7. HandInv /\ SentInv /\ GoneInv
  BY <1>3, <1>5, <1>6 DEF HandInv, SentInv, GoneInv
<1>8. LeaveInv
  BY <1>2 DEF LeaveInv
<1> QED
  BY <1>4, <1>7, <1>8 DEF PoolInv

\* A job that inserts or deletes is one by its operation.
LEMMA JobsKnown ==
    ASSUME PoolTypes, NEW v \in PoolWorkers
    PROVE  /\ job[v].op \in {"insert", "fast", "transaction"} => Inserting(v)
           /\ job[v].op = "delete" => job[v] \in Deletes
<1>1. job[v] = IdleWorker \/ job[v] \in Inserts \/ job[v] \in Deletes
  BY DEF PoolTypes
<1> QED
  BY <1>1 DEF IdleWorker, Inserts, Deletes, Inserting

\* Worker w goes on with the document it has, or is done with it.
LEMMA HandStays ==
    ASSUME PoolInv, NEW w \in PoolWorkers, NEW j, job' = [job EXCEPT ![w] = j],
           j \in Inserts => Inserting(w) /\ j.doc = job[w].doc,
           UNCHANGED <<documents, insertCache>>
    PROVE  HandInv'
<1>1. job'[w] = j /\ \A v \in PoolWorkers : v # w => job'[v] = job[v]
  BY DEF PoolInv, PoolTypes
<1>2. \A v \in PoolWorkers : Inserting(v)' => Inserting(v) /\ job'[v].doc = job[v].doc
  BY <1>1 DEF Inserting
<1> QED
  BY <1>2 DEF PoolInv, HandInv

LEMMA GoneStays ==
    ASSUME PoolInv, NEW w \in PoolWorkers, NEW j, job' = [job EXCEPT ![w] = j],
           j \notin Deletes, raced' = raced
    PROVE  GoneInv'
<1>1. job'[w] = j /\ \A v \in PoolWorkers : v # w => job'[v] = job[v]
  BY DEF PoolInv, PoolTypes
<1> QED
  BY <1>1 DEF PoolInv, GoneInv

\* Nothing is deleted, and no record of a deleted document enters the pool.
LEMMA LeaveStays ==
    ASSUME PoolInv, NEW w \in PoolWorkers, NEW j, job' = [job EXCEPT ![w] = j],
           job[w] \notin Deletes, raced' = raced,
           \A c \in PoolCollections : ever'[c] \ inDb'[c] \subseteq ever[c] \ inDb[c],
           \A c \in PoolCollections : \A i \in DOMAIN pool'[c] :
               \/ \E k \in DOMAIN pool[c] : pool[c][k] = pool'[c][i]
               \/ pool'[c][i] \notin ever'[c] \ (inDb'[c] \cup raced)
    PROVE  LeaveInv'
<1>1. \A v \in PoolWorkers : v # w => job'[v] = job[v]
  BY DEF PoolInv, PoolTypes
<1>2. ASSUME NEW c \in PoolCollections, NEW i \in DOMAIN pool'[c],
             pool'[c][i] \in ever'[c] \ (inDb'[c] \cup raced')
      PROVE  \E v \in PoolWorkers : job'[v] \in Deletes /\ job'[v].col = c /\ pool'[c][i] \in job'[v].gone
  <2>1. PICK k \in DOMAIN pool[c] : pool[c][k] = pool'[c][i]
    BY <1>2
  <2>2. pool[c][k] \in ever[c] \ (inDb[c] \cup raced)
    BY <1>2, <2>1
  <2>3. PICK v \in PoolWorkers : job[v] \in Deletes /\ job[v].col = c /\ pool[c][k] \in job[v].gone
    BY <2>2 DEF PoolInv, LeaveInv
  <2> QED
    BY <1>1, <2>1, <2>3
<1> QED
  BY <1>2 DEF LeaveInv

LEMMA ProduceStep == ASSUME PoolInv, NEW c \in PoolCollections, Produce(c) PROVE PoolInv'
<1> DEFINE d == Generated(c)
<1>1. /\ insertCache' = Append(insertCache, d) /\ documents' = documents + 1
      /\ UNCHANGED <<pool, inDb, ever, job, deletes, raced>>
  BY DEF Produce
<1>2. documents \in Nat /\ insertCache \in Seq(Documents)
  BY DEF PoolInv, PoolTypes
<1>3. d \in Documents /\ d.n = documents + 1 /\ documents + 1 \in Nat
  BY <1>2 DEF Generated, Documents
<1> HIDE DEF d
<1>4. insertCache' \in Seq(Documents)
  BY <1>1, <1>2, <1>3
<1>5. \A i \in DOMAIN insertCache' : (i \in DOMAIN insertCache /\ insertCache'[i] = insertCache[i])
                                     \/ (i = Len(insertCache) + 1 /\ insertCache'[i] = d)
  BY <1>1, <1>2
<1>6. \A e \in Documents : e.n <= documents => e # d /\ e.n <= documents + 1
  BY <1>2, <1>3 DEF Documents
<1>7. /\ \A i \in DOMAIN insertCache : insertCache[i] \in Documents /\ insertCache[i].n <= documents
      /\ \A v \in PoolWorkers : Inserting(v) => job[v].doc \in Documents /\ job[v].doc.n <= documents
      /\ \A b \in PoolCollections : \A e \in ever[b] : e \in Documents /\ e.n <= documents
  BY <1>2 DEF PoolInv, PoolTypes, HandInv, SentInv, Inserting, Inserts
<1>8. d.n <= documents + 1
  BY <1>2, <1>3
<1>9. \A v \in PoolWorkers : Inserting(v)' <=> Inserting(v)
  BY <1>1 DEF Inserting
<1>10. PoolTypes'
  BY <1>1, <1>3, <1>4 DEF PoolInv, PoolTypes
<1>11. HandInv'
  <2>1. /\ \A i \in DOMAIN insertCache' : insertCache'[i].n <= documents'
        /\ \A v \in PoolWorkers : Inserting(v)' => job'[v].doc.n <= documents'
    BY <1>1, <1>5, <1>6, <1>7, <1>8, <1>9
  <2>2. \A i, k \in DOMAIN insertCache' : insertCache'[i] = insertCache'[k] => i = k
    BY <1>5, <1>6, <1>7 DEF PoolInv, HandInv
  <2>3. \A v \in PoolWorkers : Inserting(v)' =>
          /\ \A i \in DOMAIN insertCache' : insertCache'[i] # job'[v].doc
          /\ \A u \in PoolWorkers : Inserting(u)' /\ job'[u].doc = job'[v].doc => u = v
    BY <1>1, <1>5, <1>6, <1>7, <1>9 DEF PoolInv, HandInv
  <2> QED
    BY <2>1, <2>2, <2>3 DEF HandInv
<1>12. SentInv'
  <2>1. \A b \in PoolCollections : \A e \in ever'[b] : e.n <= documents'
    BY <1>1, <1>6, <1>7
  <2>2. \A b \in PoolCollections : \A i \in DOMAIN insertCache' : insertCache'[i] \notin ever'[b]
    BY <1>1, <1>5, <1>6, <1>7 DEF PoolInv, SentInv
  <2> QED
    BY <1>1, <1>9, <2>1, <2>2 DEF PoolInv, SentInv
<1>13. GoneInv' /\ LeaveInv'
  BY <1>1 DEF PoolInv, GoneInv, LeaveInv
<1> QED
  BY <1>10, <1>11, <1>12, <1>13 DEF PoolInv

\* Worker w takes document d, which nobody else holds.
LEMMA TakeDocument ==
    ASSUME PoolInv, NEW w \in PoolWorkers, NEW j \in Inserts, job[w] = IdleWorker,
           job' = [job EXCEPT ![w] = j], j.at = "send",
           documents' \in Nat, documents <= documents', j.doc.n <= documents',
           insertCache' \in Seq(Documents),
           \A i \in DOMAIN insertCache' :
               insertCache'[i] # j.doc /\ \E k \in DOMAIN insertCache : insertCache'[i] = insertCache[k],
           \A i, k \in DOMAIN insertCache' : insertCache'[i] = insertCache'[k] => i = k,
           \A v \in PoolWorkers : Inserting(v) => job[v].doc # j.doc,
           \A c \in PoolCollections : j.doc \notin ever[c],
           UNCHANGED <<pool, inDb, ever, raced>>
    PROVE  PoolInv'
<1>1. /\ documents \in Nat /\ insertCache \in Seq(Documents)
      /\ job'[w] = j /\ DOMAIN job' = PoolWorkers /\ \A v \in PoolWorkers : v # w => job'[v] = job[v]
      /\ ~Inserting(w) /\ job[w] \notin Deletes /\ j \notin Deletes
  BY JobsApart DEF PoolInv, PoolTypes, Inserting
<1>2. \A n \in Nat : n <= documents => n <= documents'
  BY <1>1
<1>3. /\ \A i \in DOMAIN insertCache : insertCache[i] \in Documents /\ insertCache[i].n \in Nat
      /\ \A v \in PoolWorkers : Inserting(v) => job[v].doc.n \in Nat
      /\ \A c \in PoolCollections : \A d \in ever[c] : d.n \in Nat
  <2>1. \A d \in Documents : d.n \in Nat
    BY DEF Documents
  <2>2. \A v \in PoolWorkers : Inserting(v) => job[v].doc \in Documents
    BY DEF Inserting, Inserts
  <2>3. \A i \in DOMAIN insertCache : insertCache[i] \in Documents
    BY <1>1
  <2>4. \A c \in PoolCollections : \A d \in ever[c] : d \in Documents
    BY DEF PoolInv, PoolTypes
  <2> QED
    BY <2>1, <2>2, <2>3, <2>4
<1>4. \A v \in PoolWorkers : Inserting(v)' => v = w \/ (v # w /\ Inserting(v) /\ job'[v] = job[v])
  BY <1>1 DEF Inserting
<1>5. PoolTypes'
  BY <1>1 DEF PoolInv, PoolTypes
<1>6. HandInv'
  <2>1. \A i \in DOMAIN insertCache' : insertCache'[i].n <= documents'
    BY <1>2, <1>3 DEF PoolInv, HandInv
  <2>2. \A v \in PoolWorkers : Inserting(v)' => job'[v].doc.n <= documents'
    BY <1>1, <1>2, <1>3, <1>4 DEF PoolInv, HandInv
  <2>3. \A v \in PoolWorkers : Inserting(v)' =>
          \A i \in DOMAIN insertCache' : insertCache'[i] # job'[v].doc
    BY <1>1, <1>4 DEF PoolInv, HandInv
  <2>4. \A v, u \in PoolWorkers : Inserting(v)' /\ Inserting(u)' /\ job'[u].doc = job'[v].doc => u = v
    BY <1>1, <1>4 DEF PoolInv, HandInv
  <2> QED
    BY <2>1, <2>2, <2>3, <2>4 DEF HandInv
<1>7. SentInv'
  <2>1. \A c \in PoolCollections : \A d \in ever'[c] : d.n <= documents'
    BY <1>2, <1>3 DEF PoolInv, SentInv
  <2>2. \A c \in PoolCollections : \A i \in DOMAIN insertCache' : insertCache'[i] \notin ever'[c]
    BY DEF PoolInv, SentInv
  <2>3. \A c \in PoolCollections : \A v \in PoolWorkers : Inserting(v)' =>
          /\ job'[v].at \in {"send", "commit"} => job'[v].doc \notin ever'[c]
          /\ job'[v].doc \in ever'[c] => job'[v].doc \in inDb'[c] \cup raced'
    BY <1>1, <1>4 DEF PoolInv, SentInv
  <2> QED
    BY <2>1, <2>2, <2>3 DEF SentInv
<1>8. GoneInv'
  BY <1>1, GoneStays
<1>9. LeaveInv'
  BY <1>1, LeaveStays
<1> QED
  BY <1>5, <1>6, <1>7, <1>8, <1>9 DEF PoolInv

LEMMA BeginInsertStep ==
    ASSUME PoolInv, NEW w \in PoolWorkers, NEW c \in PoolCollections, NEW op, BeginInsert(w, c, op)
    PROVE  PoolInv'
<1>1. /\ documents \in Nat /\ insertCache \in Seq(Documents)
      /\ \A i \in DOMAIN insertCache : insertCache[i] \in Documents /\ insertCache[i].n <= documents
      /\ \A v \in PoolWorkers : Inserting(v) => job[v].doc \in Documents /\ job[v].doc.n <= documents
      /\ \A b \in PoolCollections : \A e \in ever[b] : e \in Documents /\ e.n <= documents
  BY DEF PoolInv, PoolTypes, HandInv, SentInv, Inserting, Inserts
<1>2. /\ job[w] = IdleWorker /\ op \in {"insert", "fast", "transaction"}
      /\ UNCHANGED <<pool, inDb, ever, raced>>
  BY DEF BeginInsert
<1>3. CASE insertCache # <<>> /\ op # "fast"
  <2> DEFINE d == Head(insertCache)
             j == [op |-> op, col |-> c, doc |-> d, at |-> "send"]
  <2>1. /\ job' = [job EXCEPT ![w] = j] /\ insertCache' = Tail(insertCache) /\ documents' = documents
    BY <1>3 DEF BeginInsert, SetJob
  <2>2. 1 \in DOMAIN insertCache /\ d = insertCache[1]
    BY <1>1, <1>3
  <2>3. insertCache' \in Seq(Documents)
    BY <1>1, <1>3, <2>1
  <2>4. \A i \in DOMAIN insertCache' :
            i + 1 \in DOMAIN insertCache /\ i + 1 # 1 /\ insertCache'[i] = insertCache[i + 1]
    BY <1>1, <1>3, <2>1
  <2>5. \A i, k \in DOMAIN insertCache' : i + 1 = k + 1 => i = k
    BY <2>3
  <2>6. \A i, k \in DOMAIN insertCache : insertCache[i] = insertCache[k] => i = k
    BY DEF PoolInv, HandInv
  <2> HIDE DEF d
  <2>7. \A i \in DOMAIN insertCache' :
            insertCache'[i] # d /\ \E k \in DOMAIN insertCache : insertCache'[i] = insertCache[k]
    BY <2>2, <2>4, <2>6
  <2>8. \A i, k \in DOMAIN insertCache' : insertCache'[i] = insertCache'[k] => i = k
    BY <2>4, <2>5, <2>6
  <2>9. /\ \A v \in PoolWorkers : Inserting(v) => job[v].doc # d
        /\ \A b \in PoolCollections : d \notin ever[b]
    BY <2>2 DEF PoolInv, HandInv, SentInv
  <2>10. d \in Documents /\ d.n <= documents' /\ documents' \in Nat /\ documents <= documents'
    BY <1>1, <2>1, <2>2
  <2>11. j \in Inserts /\ j.doc = d /\ j.at = "send"
    BY <1>2, <2>10 DEF Inserts
  <2> HIDE DEF j
  <2> QED
    BY <1>2, <2>1, <2>3, <2>7, <2>8, <2>9, <2>10, <2>11, TakeDocument
<1>4. CASE ~(insertCache # <<>> /\ op # "fast")
  <2> DEFINE d == Generated(c)
             j == [op |-> op, col |-> c, doc |-> d, at |-> "send"]
  <2>1. /\ job' = [job EXCEPT ![w] = j] /\ insertCache' = insertCache /\ documents' = documents + 1
    BY <1>4 DEF BeginInsert, SetJob
  <2>2. d \in Documents /\ d.n = documents + 1
    BY <1>1 DEF Generated, Documents
  <2> HIDE DEF d
  <2>3. documents' \in Nat /\ documents <= documents' /\ d.n <= documents'
    BY <1>1, <2>1, <2>2
  <2>4. \A e \in Documents : e.n <= documents => e # d
    BY <1>1, <2>2 DEF Documents
  <2>5. \A i \in DOMAIN insertCache' :
            insertCache'[i] # d /\ \E k \in DOMAIN insertCache : insertCache'[i] = insertCache[k]
    BY <1>1, <2>1, <2>4
  <2>6. \A i, k \in DOMAIN insertCache' : insertCache'[i] = insertCache'[k] => i = k
    BY <2>1 DEF PoolInv, HandInv
  <2>7. /\ \A v \in PoolWorkers : Inserting(v) => job[v].doc # d
        /\ \A b \in PoolCollections : d \notin ever[b]
    BY <1>1, <2>4
  <2>8. j \in Inserts /\ j.doc = d /\ j.at = "send"
    BY <1>2, <2>2 DEF Inserts
  <2>9. insertCache' \in Seq(Documents)
    BY <1>1, <2>1
  <2> HIDE DEF j
  <2> QED
    BY <1>2, <2>1, <2>3, <2>5, <2>6, <2>7, <2>8, <2>9, TakeDocument
<1> QED
  BY <1>3, <1>4

\* Worker w registers, stores or gives up the document it has: which documents
\* are in which hand stays as it was, but for that one.
LEMMA JobGoesOn ==
    ASSUME PoolInv, NEW w \in PoolWorkers, Inserting(w), NEW j, j = IdleWorker \/ j \in Inserts,
           j \in Inserts => j.doc = job[w].doc, job' = [job EXCEPT ![w] = j],
           pool' \in [PoolCollections -> Seq(Documents)],
           \A c \in PoolCollections : \A i \in DOMAIN pool'[c] :
               \/ \E k \in DOMAIN pool[c] : pool[c][k] = pool'[c][i]
               \/ pool'[c][i] \notin ever'[c] \ (inDb'[c] \cup raced),
           inDb' \in [PoolCollections -> SUBSET Documents],
           ever' \in [PoolCollections -> SUBSET Documents],
           \A c \in PoolCollections : /\ inDb[c] \subseteq inDb'[c]
                                      /\ ever'[c] \subseteq ever[c] \cup (inDb'[c] \cap {job[w].doc}),
           j \in Inserts => j.at = "register" \/ (j.at = "commit" /\ UNCHANGED ever /\ job[w].at = "send"),
           UNCHANGED <<documents, insertCache, raced>>
    PROVE  PoolInv'
<1>1. /\ documents \in Nat /\ insertCache \in Seq(Documents)
      /\ job'[w] = j /\ DOMAIN job' = PoolWorkers /\ \A v \in PoolWorkers : v # w => job'[v] = job[v]
      /\ job[w] \notin Deletes /\ j \notin Deletes
  BY JobsApart DEF PoolInv, PoolTypes, Inserting
<1>2. \A v \in PoolWorkers : Inserting(v)' =>
          \/ v = w /\ j \in Inserts /\ job'[v] = j
          \/ v # w /\ Inserting(v) /\ job'[v] = job[v] /\ job[v].doc # job[w].doc
  BY <1>1 DEF PoolInv, HandInv, Inserting
<1>3. PoolTypes'
  BY <1>1 DEF PoolInv, PoolTypes
<1>4. HandInv'
  BY HandStays
<1>5. SentInv'
  <2>1. \A c \in PoolCollections : \A d \in ever'[c] : d.n <= documents'
    BY DEF PoolInv, SentInv, HandInv
  <2>2. \A c \in PoolCollections : \A i \in DOMAIN insertCache' : insertCache'[i] \notin ever'[c]
    BY DEF PoolInv, SentInv, HandInv
  <2>3. ASSUME NEW c \in PoolCollections, NEW v \in PoolWorkers, Inserting(v)'
        PROVE  /\ job'[v].at \in {"send", "commit"} => job'[v].doc \notin ever'[c]
               /\ job'[v].doc \in ever'[c] => job'[v].doc \in inDb'[c] \cup raced'
    <3>1. CASE v = w
      BY <1>1, <1>2, <2>3, <3>1 DEF PoolInv, SentInv
    <3>2. CASE v # w
      BY <1>1, <1>2, <2>3, <3>2 DEF PoolInv, SentInv
    <3> QED
      BY <3>1, <3>2
  <2> QED
    BY <2>1, <2>2, <2>3 DEF SentInv
<1>6. GoneInv'
  BY <1>1, GoneStays
<1>7. LeaveInv'
  <2>1. \A c \in PoolCollections : ever'[c] \ inDb'[c] \subseteq ever[c] \ inDb[c]
    OBVIOUS
  <2> QED
    BY <1>1, <2>1, LeaveStays
<1> QED
  BY <1>3, <1>4, <1>5, <1>6, <1>7 DEF PoolInv

\* The record that is registered is the worker's document, and it was not deleted.
LEMMA PoolTakes ==
    ASSUME PoolInv, NEW w \in PoolWorkers, Inserting(w),
           pool' = [pool EXCEPT ![job[w].col] = Add(@, job[w].doc)], UNCHANGED <<inDb, ever>>
    PROVE  /\ pool' \in [PoolCollections -> Seq(Documents)]
           /\ \A c \in PoolCollections : \A i \in DOMAIN pool'[c] :
                  \/ \E k \in DOMAIN pool[c] : pool[c][k] = pool'[c][i]
                  \/ pool'[c][i] \notin ever'[c] \ (inDb'[c] \cup raced)
<1> DEFINE b == job[w].col
           d == job[w].doc
<1>1. b \in PoolCollections /\ d \in Documents /\ pool \in [PoolCollections -> Seq(Documents)]
  BY DEF Inserting, Inserts, PoolInv, PoolTypes
<1>2. \A c \in PoolCollections : d \notin ever[c] \ (inDb[c] \cup raced)
  BY DEF PoolInv, SentInv
<1> HIDE DEF b, d
<1>3. pool[b] \in Seq(Documents) /\ pool' = [pool EXCEPT ![b] = Add(pool[b], d)]
  BY <1>1 DEF b, d
<1>4. /\ Add(pool[b], d) \in Seq(Documents)
      /\ \A i \in DOMAIN Add(pool[b], d) :
             Add(pool[b], d)[i] = d \/ \E k \in DOMAIN pool[b] : pool[b][k] = Add(pool[b], d)[i]
  BY <1>1, <1>3, AddTakes
<1>5. pool'[b] = Add(pool[b], d) /\ \A c \in PoolCollections : c # b => pool'[c] = pool[c]
  BY <1>1, <1>3
<1>6. pool' \in [PoolCollections -> Seq(Documents)]
  BY <1>1, <1>3, <1>4
<1> QED
  BY <1>2, <1>4, <1>5, <1>6

LEMMA StoredGrows ==
    ASSUME PoolInv, NEW w \in PoolWorkers, Inserting(w),
           StoredDocument(job[w].col, job[w].doc) \/ UNCHANGED <<inDb, ever>>
    PROVE  /\ inDb' \in [PoolCollections -> SUBSET Documents]
           /\ ever' \in [PoolCollections -> SUBSET Documents]
           /\ \A c \in PoolCollections : /\ inDb[c] \subseteq inDb'[c]
                                         /\ ever'[c] \subseteq ever[c] \cup (inDb'[c] \cap {job[w].doc})
<1>1. job[w].col \in PoolCollections /\ job[w].doc \in Documents
  BY DEF Inserting, Inserts
<1>2. /\ inDb \in [PoolCollections -> SUBSET Documents]
      /\ ever \in [PoolCollections -> SUBSET Documents]
  BY DEF PoolInv, PoolTypes
<1>3. CASE StoredDocument(job[w].col, job[w].doc)
  BY <1>1, <1>2, <1>3 DEF StoredDocument
<1>4. CASE UNCHANGED <<inDb, ever>>
  BY <1>2, <1>4
<1> QED
  BY <1>3, <1>4

LEMMA InsertReplyStep == ASSUME PoolInv, NEW w \in PoolWorkers, NEW ok \in BOOLEAN, InsertReply(w, ok)
                         PROVE  PoolInv'
<1>1. Inserting(w) /\ UNCHANGED <<insertCache, pool, documents, raced>>
  BY JobsKnown DEF PoolInv, InsertReply
<1>2. StoredDocument(job[w].col, job[w].doc) \/ UNCHANGED <<inDb, ever>>
  BY DEF InsertReply
<1>3. PICK j : /\ job' = [job EXCEPT ![w] = j]
               /\ j = IdleWorker \/ j = [job[w] EXCEPT !.at = "register"]
  BY DEF InsertReply, SetJob
<1>4. j = IdleWorker \/ (j \in Inserts /\ j.at = "register" /\ j.doc = job[w].doc)
  BY <1>1, <1>3 DEF Inserting, Inserts
<1>5. IdleWorker \notin Inserts
  BY JobsApart
<1>6. pool' \in [PoolCollections -> Seq(Documents)]
  BY <1>1 DEF PoolInv, PoolTypes
<1>7. \A c \in PoolCollections : \A i \in DOMAIN pool'[c] :
          \E k \in DOMAIN pool[c] : pool[c][k] = pool'[c][i]
  BY <1>1
<1>8. /\ inDb' \in [PoolCollections -> SUBSET Documents]
      /\ ever' \in [PoolCollections -> SUBSET Documents]
      /\ \A c \in PoolCollections : /\ inDb[c] \subseteq inDb'[c]
                                    /\ ever'[c] \subseteq ever[c] \cup (inDb'[c] \cap {job[w].doc})
  BY <1>1, <1>2, StoredGrows
<1> QED
  BY <1>1, <1>3, <1>4, <1>5, <1>6, <1>7, <1>8, JobGoesOn

LEMMA TransactionEndsStep ==
    ASSUME PoolInv, NEW w \in PoolWorkers, NEW commit \in BOOLEAN, TransactionEnds(w, commit)
    PROVE  PoolInv'
<1>1. Inserting(w) /\ UNCHANGED <<insertCache, pool, documents, raced>>
  BY JobsKnown DEF PoolInv, TransactionEnds
<1>2. StoredDocument(job[w].col, job[w].doc) \/ UNCHANGED <<inDb, ever>>
  BY DEF TransactionEnds
<1>3. job' = [job EXCEPT ![w] = IdleWorker] /\ IdleWorker \notin Inserts
  BY JobsApart DEF TransactionEnds, SetJob
<1>4. pool' \in [PoolCollections -> Seq(Documents)]
  BY <1>1 DEF PoolInv, PoolTypes
<1>5. \A c \in PoolCollections : \A i \in DOMAIN pool'[c] :
          \E k \in DOMAIN pool[c] : pool[c][k] = pool'[c][i]
  BY <1>1
<1>6. /\ inDb' \in [PoolCollections -> SUBSET Documents]
      /\ ever' \in [PoolCollections -> SUBSET Documents]
      /\ \A c \in PoolCollections : /\ inDb[c] \subseteq inDb'[c]
                                    /\ ever'[c] \subseteq ever[c] \cup (inDb'[c] \cap {job[w].doc})
  BY <1>1, <1>2, StoredGrows
<1> QED
  BY <1>1, <1>3, <1>4, <1>5, <1>6, JobGoesOn

LEMMA RegisterStep ==
    ASSUME PoolInv, NEW w \in PoolWorkers, RegisterRecord(w) \/ TransactionInsert(w)
    PROVE  PoolInv'
<1>1. /\ Inserting(w) /\ UNCHANGED <<insertCache, inDb, ever, documents, raced>>
      /\ pool' = [pool EXCEPT ![job[w].col] = Add(@, job[w].doc)]
  BY JobsKnown DEF PoolInv, RegisterRecord, TransactionInsert
<1>2. PICK j : /\ job' = [job EXCEPT ![w] = j]
               /\ j = IdleWorker \/ (j = [job[w] EXCEPT !.at = "commit"] /\ job[w].at = "send")
  BY DEF RegisterRecord, TransactionInsert, SetJob
<1>3. j = IdleWorker \/ (j \in Inserts /\ j.at = "commit" /\ j.doc = job[w].doc /\ job[w].at = "send")
  BY <1>1, <1>2 DEF Inserting, Inserts
<1>4. IdleWorker \notin Inserts
  BY JobsApart
<1>5. /\ pool' \in [PoolCollections -> Seq(Documents)]
      /\ \A c \in PoolCollections : \A i \in DOMAIN pool'[c] :
             \/ \E k \in DOMAIN pool[c] : pool[c][k] = pool'[c][i]
             \/ pool'[c][i] \notin ever'[c] \ (inDb'[c] \cup raced)
  BY <1>1, PoolTakes
<1>6. /\ inDb' \in [PoolCollections -> SUBSET Documents]
      /\ ever' \in [PoolCollections -> SUBSET Documents]
      /\ \A c \in PoolCollections : /\ inDb[c] \subseteq inDb'[c]
                                    /\ ever'[c] \subseteq ever[c] \cup (inDb'[c] \cap {job[w].doc})
  BY <1>1, StoredGrows
<1> QED
  BY <1>1, <1>2, <1>3, <1>4, <1>5, <1>6, JobGoesOn

LEMMA DeleteFails ==
    ASSUME PoolInv, NEW w \in PoolWorkers, NEW c \in PoolCollections, DeleteReply(w, c, FALSE)
    PROVE  PoolInv'
<1>1. UNCHANGED <<insertCache, pool, ever, documents, job>>
  BY DEF DeleteReply
<1>2. PICK gone \in SUBSET inDb[c] :
          inDb' = [inDb EXCEPT ![c] = @ \ gone] /\ raced' = raced \cup gone
  BY DEF DeleteReply
<1>3. inDb \in [PoolCollections -> SUBSET Documents] /\ raced \subseteq raced'
  BY <1>2 DEF PoolInv, PoolTypes
<1>4. \A b \in PoolCollections : inDb'[b] \subseteq inDb[b] /\ inDb[b] \subseteq inDb'[b] \cup raced'
  BY <1>2, <1>3
<1>5. PoolTypes'
  <2>1. inDb' \in [PoolCollections -> SUBSET Documents]
    BY <1>2, <1>3
  <2> QED
    BY <1>1, <2>1 DEF PoolInv, PoolTypes
<1>6. HandInv' /\ GoneInv'
  BY <1>1, <1>3 DEF PoolInv, HandInv, GoneInv, Inserting
<1>7. SentInv'
  BY <1>1, <1>3, <1>4 DEF PoolInv, SentInv, Inserting
<1>8. LeaveInv'
  BY <1>1, <1>3, <1>4 DEF PoolInv, LeaveInv
<1> QED
  BY <1>5, <1>6, <1>7, <1>8 DEF PoolInv

LEMMA DeleteReplyStep ==
    ASSUME PoolInv, NEW w \in PoolWorkers, NEW c \in PoolCollections, DeleteReply(w, c, TRUE)
    PROVE  PoolInv'
<1> DEFINE Caught(filter, gone) == {d \in gone : Missed(filter, d) \/ Unregistered(w, d)}
           Taken(filter, gone) == [op |-> "delete", col |-> c, filter |-> filter, gone |-> gone]
<1>1. job[w] = IdleWorker /\ UNCHANGED <<insertCache, pool, ever, documents>>
  BY DEF DeleteReply
<1>2. PICK filter \in [kind : DeleteKinds, hits : SUBSET ever[c]],
           found \in SUBSET inDb[c], gone \in SUBSET inDb[c] :
          /\ Finds(c, filter, found) /\ gone \subseteq found
          /\ inDb' = [inDb EXCEPT ![c] = @ \ gone]
          /\ job' = [job EXCEPT ![w] = Taken(filter, gone)]
          /\ raced' = raced \cup Caught(filter, gone)
  BY DEF DeleteReply, SetJob
<1>3. /\ inDb \in [PoolCollections -> SUBSET Documents] /\ DOMAIN job = PoolWorkers
      /\ inDb[c] \subseteq Documents /\ ever[c] \subseteq Documents
  BY DEF PoolInv, PoolTypes
<1>4. gone \subseteq Documents /\ filter \in DeleteFilters
  BY <1>2, <1>3 DEF DeleteFilters
<1> DEFINE j == Taken(filter, gone)
<1>5. j \in Deletes /\ j.col = c /\ j.gone = gone /\ j.filter = filter
  BY <1>4 DEF Deletes
<1>6. j \notin Inserts /\ ~Inserting(w) /\ job[w] \notin Deletes
  BY <1>1, <1>5, JobsApart DEF Inserting
<1> HIDE DEF j
<1>7. job'[w] = j /\ DOMAIN job' = PoolWorkers /\ \A v \in PoolWorkers : v # w => job'[v] = job[v]
  BY <1>2, <1>3 DEF j
<1>8. \A v \in PoolWorkers : Inserting(v)' => v # w /\ Inserting(v) /\ job'[v] = job[v]
  BY <1>6, <1>7 DEF Inserting
<1>9. inDb'[c] = inDb[c] \ gone /\ \A b \in PoolCollections : b # c => inDb'[b] = inDb[b]
  BY <1>2, <1>3
<1>10. raced \subseteq raced'
  BY <1>2
<1>11. \A d \in gone : d \in raced' \/ (Matches(filter, d) /\ filter.kind # "empty")
  <2> SUFFICES ASSUME NEW d \in gone, ~Missed(filter, d)
               PROVE  Matches(filter, d) /\ filter.kind # "empty"
    BY <1>2
  <2>1. d \in found /\ filter.kind \in DeleteKinds
    BY <1>2
  <2>2. filter.kind \in {"id", "values", "operators"}
    BY <2>1 DEF Missed, DeleteKinds
  <2>3. CASE filter.kind = "id"
    BY <1>2, <2>1, <2>3 DEF Finds, Matches
  <2>4. CASE filter.kind = "values"
    BY <1>2, <2>1, <2>4 DEF Finds, Matches, Missed
  <2> QED
    BY <2>2, <2>3, <2>4 DEF Matches
<1>12. \A v \in PoolWorkers : Inserting(v)' /\ job[v].doc \in gone => job[v].doc \in raced'
  <2>1. \A v \in PoolWorkers : Inserting(v)' => job[v] # IdleWorker /\ job[v].op # "delete"
    BY <1>8, JobsApart DEF Inserting
  <2> QED
    BY <1>2, <1>8, <2>1 DEF Unregistered
<1>13. PoolTypes'
  <2>1. inDb' \in [PoolCollections -> SUBSET Documents]
    BY <1>2, <1>3
  <2>2. \A v \in PoolWorkers : job'[v] = IdleWorker \/ job'[v] \in Inserts \/ job'[v] \in Deletes
    BY <1>5, <1>7 DEF PoolInv, PoolTypes
  <2> QED
    BY <1>1, <1>7, <2>1, <2>2 DEF PoolInv, PoolTypes
<1>14. HandInv'
  BY <1>1, <1>8 DEF PoolInv, HandInv
<1>15. SentInv'
  <2>1. ASSUME NEW b \in PoolCollections, NEW v \in PoolWorkers, Inserting(v)'
        PROVE  /\ job'[v].at \in {"send", "commit"} => job'[v].doc \notin ever'[b]
               /\ job'[v].doc \in ever'[b] => job'[v].doc \in inDb'[b] \cup raced'
    BY <1>1, <1>8, <1>9, <1>10, <1>12, <2>1 DEF PoolInv, SentInv
  <2> QED
    BY <1>1, <2>1 DEF PoolInv, SentInv
<1>16. GoneInv'
  BY <1>5, <1>7, <1>10, <1>11 DEF PoolInv, GoneInv
<1>17. LeaveInv'
  <2>1. ASSUME NEW b \in PoolCollections, NEW i \in DOMAIN pool[b],
               pool[b][i] \in ever[b] \ (inDb'[b] \cup raced')
        PROVE  \E v \in PoolWorkers : job'[v] \in Deletes /\ job'[v].col = b /\ pool[b][i] \in job'[v].gone
    <3>1. CASE b = c /\ pool[b][i] \in gone
      BY <1>5, <1>7, <3>1
    <3>2. CASE ~(b = c /\ pool[b][i] \in gone)
      <4>1. pool[b][i] \in ever[b] \ (inDb[b] \cup raced)
        BY <1>9, <1>10, <2>1, <3>2
      <4>2. PICK v \in PoolWorkers : job[v] \in Deletes /\ job[v].col = b /\ pool[b][i] \in job[v].gone
        BY <4>1 DEF PoolInv, LeaveInv
      <4> QED
        BY <1>6, <1>7, <4>2
    <3> QED
      BY <3>1, <3>2
  <2> QED
    BY <1>1, <2>1 DEF LeaveInv
<1> QED
  BY <1>13, <1>14, <1>15, <1>16, <1>17 DEF PoolInv

\* A delete without a filter leaves the pool, and all it took is marked.
LEMMA RemoveNothing ==
    ASSUME PoolInv, NEW w \in PoolWorkers, RemoveMatching(w), job[w].filter.kind = "empty"
    PROVE  PoolInv'
<1>1. /\ job[w] \in Deletes /\ job' = [job EXCEPT ![w] = IdleWorker]
      /\ UNCHANGED <<insertCache, pool, inDb, ever, documents, raced>>
  BY JobsKnown DEF PoolInv, RemoveMatching, SetJob
<1>2. DOMAIN job = PoolWorkers
  BY DEF PoolInv, PoolTypes
<1>3. job'[w] = IdleWorker /\ \A v \in PoolWorkers : v # w => job'[v] = job[v]
  BY <1>1, <1>2
<1>4. IdleWorker \notin Inserts /\ IdleWorker \notin Deletes
  BY JobsApart
<1>5. PoolTypes'
  BY <1>1, <1>2, <1>3 DEF PoolInv, PoolTypes
<1>6. HandInv'
  BY <1>1, <1>4, HandStays
<1>7. SentInv'
  <2>1. \A v \in PoolWorkers : Inserting(v)' => Inserting(v) /\ job'[v] = job[v]
    BY <1>3, <1>4 DEF Inserting
  <2> QED
    BY <1>1, <2>1 DEF PoolInv, SentInv
<1>8. GoneInv'
  BY <1>1, <1>4, GoneStays
<1>9. LeaveInv'
  <2>1. ASSUME NEW b \in PoolCollections, NEW i \in DOMAIN pool[b],
               pool[b][i] \in ever[b] \ (inDb[b] \cup raced)
        PROVE  \E v \in PoolWorkers : job'[v] \in Deletes /\ job'[v].col = b /\ pool[b][i] \in job'[v].gone
    <3>1. PICK v \in PoolWorkers : job[v] \in Deletes /\ job[v].col = b /\ pool[b][i] \in job[v].gone
      BY <2>1 DEF PoolInv, LeaveInv
    <3>2. v # w
      BY <1>1, <2>1, <3>1 DEF PoolInv, GoneInv
    <3> QED
      BY <1>3, <3>1, <3>2
  <2> QED
    BY <1>1, <2>1 DEF LeaveInv
<1> QED
  BY <1>5, <1>6, <1>7, <1>8, <1>9 DEF PoolInv

LEMMA UpdateStep == ASSUME PoolInv, NEW c \in PoolCollections, UpdateDocument(c) PROVE PoolInv'
  BY DEF UpdateDocument, PoolInv, PoolTypes, HandInv, SentInv, GoneInv, LeaveInv, Inserting

LEMMA RemoveSome ==
    ASSUME PoolInv, NEW w \in PoolWorkers, RemoveMatching(w), job[w].filter.kind # "empty"
    PROVE  PoolInv'
<1> DEFINE c == job[w].col
           filter == job[w].filter
           rest == Remaining(pool[c], filter)
<1>1. /\ job[w] \in Deletes /\ pool' = [pool EXCEPT ![c] = rest] /\ job' = [job EXCEPT ![w] = IdleWorker]
      /\ UNCHANGED <<insertCache, inDb, ever, documents, raced>>
  BY JobsKnown DEF PoolInv, RemoveMatching, SetJob
<1>2. /\ c \in PoolCollections /\ pool \in [PoolCollections -> Seq(Documents)] /\ pool[c] \in Seq(Documents)
      /\ DOMAIN job = PoolWorkers
  BY <1>1 DEF Deletes, PoolInv, PoolTypes
<1>3. rest \in Seq({d \in Documents : ~Matches(filter, d) /\ \E k \in DOMAIN pool[c] : pool[c][k] = d})
  BY <1>2, RemainingKeeps
<1> HIDE DEF c, filter, rest
<1>4. /\ rest \in Seq(Documents)
      /\ \A i \in DOMAIN rest : ~Matches(filter, rest[i]) /\ \E k \in DOMAIN pool[c] : pool[c][k] = rest[i]
  <2> DEFINE Stays == {d \in Documents : ~Matches(filter, d) /\ \E k \in DOMAIN pool[c] : pool[c][k] = d}
  <2>1. rest \in Seq(Stays) /\ Stays \subseteq Documents
    BY <1>3
  <2>2. \A i \in DOMAIN rest : rest[i] \in Stays
    <3> HIDE DEF Stays
    <3> QED
      BY <2>1
  <2>3. rest \in Seq(Documents)
    <3> HIDE DEF Stays
    <3>1. rest \in [1..Len(rest) -> Stays] /\ Len(rest) \in Nat
      BY <2>1
    <3>2. rest \in [1..Len(rest) -> Documents]
      BY <2>1, <3>1
    <3> QED
      BY <3>1, <3>2, SeqDef
  <2> QED
    BY <2>2, <2>3
<1>5. pool'[c] = rest /\ \A b \in PoolCollections : b # c => pool'[b] = pool[b]
  BY <1>1, <1>2
<1>6. job'[w] = IdleWorker /\ \A v \in PoolWorkers : v # w => job'[v] = job[v]
  BY <1>1, <1>2
<1>7. IdleWorker \notin Inserts /\ IdleWorker \notin Deletes
  BY JobsApart
<1>8. PoolTypes'
  <2>1. pool' \in [PoolCollections -> Seq(Documents)]
    BY <1>1, <1>2, <1>4
  <2>2. DOMAIN job' = PoolWorkers
        /\ \A v \in PoolWorkers : job'[v] = IdleWorker \/ job'[v] \in Inserts \/ job'[v] \in Deletes
    BY <1>1, <1>2, <1>6 DEF PoolInv, PoolTypes
  <2> QED
    BY <1>1, <2>1, <2>2 DEF PoolInv, PoolTypes
<1>9. HandInv'
  BY <1>1, <1>7, HandStays
<1>10. SentInv'
  <2>1. \A v \in PoolWorkers : Inserting(v)' => Inserting(v) /\ job'[v] = job[v]
    BY <1>6, <1>7 DEF Inserting
  <2> QED
    BY <1>1, <2>1 DEF PoolInv, SentInv
<1>11. GoneInv'
  BY <1>1, <1>7, GoneStays
<1>12. LeaveInv'
  <2>1. ASSUME NEW b \in PoolCollections, NEW i \in DOMAIN pool'[b],
               pool'[b][i] \in ever[b] \ (inDb[b] \cup raced)
        PROVE  \E v \in PoolWorkers : job'[v] \in Deletes /\ job'[v].col = b /\ pool'[b][i] \in job'[v].gone
    <3>1. PICK k \in DOMAIN pool[b] : pool[b][k] = pool'[b][i]
      BY <1>4, <1>5
    <3>2. PICK v \in PoolWorkers : job[v] \in Deletes /\ job[v].col = b /\ pool[b][k] \in job[v].gone
      BY <2>1, <3>1 DEF PoolInv, LeaveInv
    <3>3. v # w
      <4> SUFFICES ASSUME v = w PROVE FALSE
        OBVIOUS
      <4>1. b = c
        BY <3>2 DEF c
      <4>2. ~Matches(filter, pool[b][k])
        BY <1>4, <1>5, <3>1, <4>1
      <4>3. pool[b][k] \in raced \/ Matches(filter, pool[b][k])
        BY <1>1, <3>2 DEF PoolInv, GoneInv, filter
      <4> QED
        BY <2>1, <3>1, <4>2, <4>3
    <3> QED
      BY <1>6, <3>1, <3>2, <3>3
  <2> QED
    BY <1>1, <2>1 DEF LeaveInv
<1> QED
  BY <1>8, <1>9, <1>10, <1>11, <1>12 DEF PoolInv

LEMMA RemoveMatchingStep == ASSUME PoolInv, NEW w \in PoolWorkers, RemoveMatching(w) PROVE PoolInv'
  BY RemoveNothing, RemoveSome

LEMMA PoolStep == PoolInv /\ [PNext]_poolVars => PoolInv'
<1> SUFFICES ASSUME PoolInv, [PNext]_poolVars PROVE PoolInv'
  OBVIOUS
<1>1. CASE UNCHANGED poolVars
  BY <1>1 DEF poolVars, PoolInv, PoolTypes, HandInv, SentInv, GoneInv, LeaveInv, Inserting
<1>2. CASE \E c \in PoolCollections : Produce(c) \/ UpdateDocument(c)
  BY <1>2, ProduceStep, UpdateStep
<1>3. CASE \E w \in PoolWorkers, c \in PoolCollections :
               \/ \E ok \in BOOLEAN : DeleteReply(w, c, ok)
               \/ \E op \in {"insert", "fast", "transaction"} : BeginInsert(w, c, op)
  BY <1>3, DeleteReplyStep, DeleteFails, BeginInsertStep
<1>4. CASE \E w \in PoolWorkers :
               \/ RegisterRecord(w) \/ TransactionInsert(w) \/ RemoveMatching(w)
               \/ \E ok \in BOOLEAN : InsertReply(w, ok) \/ TransactionEnds(w, ok)
  BY <1>4, RegisterStep, RemoveMatchingStep, InsertReplyStep, TransactionEndsStep
<1> QED
  BY <1>1, <1>2, <1>3, <1>4 DEF PNext

\* The record of a document that was deleted leaves the pool with the delete
\* that took it: RemoveMatching finds it by the filter, and no insert puts it
\* back, for any number of workers, documents and deletes; the exceptions are
\* those DeletedLeavePool names.
THEOREM PoolTheorem == PSpec => []DeletedLeavePool
<1>1. PoolInv => DeletedLeavePool
  <2> SUFFICES ASSUME PoolInv, NEW c \in PoolCollections, NEW d \in ever[c] \ (inDb[c] \cup raced),
                      NEW i \in DOMAIN pool[c], pool[c][i] = d
               PROVE  \E w \in PoolWorkers : job[w].op = "delete" /\ d \in job[w].gone
    BY DEF DeletedLeavePool
  <2>1. PICK v \in PoolWorkers : job[v] \in Deletes /\ pool[c][i] \in job[v].gone
    BY DEF PoolInv, LeaveInv
  <2> QED
    BY <2>1, JobsApart
<1> QED
  BY <1>1, PoolInitial, PoolStep, PTL DEF PSpec

-----------------------------------------------------------------------------
(***************************************************************************)
(* Deterministic traffic.  What a worker's hash covers is what its first   *)
(* passes have reached (HashInv), and an id that was inserted is of an     *)
(* operation the worker has passed (IdsInv), so the next one's are new.    *)
(***************************************************************************)

\* The ids of a worker's fast inserts stay within its stride.
WithinStride == Budget * MaxPasses * BatchSize <= Stride

Operations == [iteration : Nat, worker : Workers, seq : Nat]
Streams == [hash : Seq(Operations), generated : Nat, sent : Nat, completed : BOOLEAN]

TrafficTypes ==
    /\ detIteration \in Nat \ {0} /\ finished \in Nat
    /\ turn \in [Workers -> {"generate", "send", "gone"}]
    /\ passed \in [Workers -> Nat] /\ number \in [Workers -> 1..Budget]
    /\ stream \in [Workers -> Streams]

PassInv ==
    /\ detIteration <= DetIterations => detIteration = finished + 1
    /\ \A w \in Workers :
          /\ turn[w] # "gone" => detIteration <= DetIterations
          /\ turn[w] = "send" => passed[w] < MaxPasses /\ kind[OpNumber(w)] # "skip"
          /\ stream[w].completed => passed[w] > 0

\* Worker w is past this operation of its first passes.
Reached(w, op) ==
    \/ op.iteration <= finished
    \/ /\ detIteration = finished + 1 /\ op.iteration = detIteration
       /\ passed[w] > 0 \/ op.seq < number[w]

Hashed(w) == Range(stream[w].hash)

HashInv(w) ==
    /\ Hashed(w) \subseteq FirstPasses(w, DetIterations)
    /\ \A i, j \in DOMAIN stream[w].hash :
          i < j => Before(stream[w].hash[i], stream[w].hash[j])
    /\ \A op \in Hashed(w) : Reached(w, op)
    /\ \A op \in FirstPasses(w, DetIterations) :
          op.iteration = finished + 1 /\ Reached(w, op) => op \in Hashed(w)
    /\ detStatus = "complete" => FirstPasses(w, finished) \subseteq Hashed(w)

IdsInv ==
    detIteration = 1 =>
        /\ clashes = {}
        /\ \A id \in ids : \E v \in Workers : \E m \in 1..(Budget * MaxPasses) :
              m < OpNumber(v) /\ id \in InsertedIds(1, v, m)

TrafficInv == TrafficTypes /\ PassInv /\ (\A w \in Workers : HashInv(w)) /\ IdsInv

LEMMA OpMembers ==
    ASSUME NEW w \in Workers, NEW last \in Nat
    PROVE  /\ \A op \in FirstPasses(w, last) :
                  /\ op.iteration \in 1..last /\ op.seq \in 1..Budget /\ kind[op.seq] # "skip"
                  /\ op = Op(op.iteration, w, op.seq)
           /\ \A k \in 1..last, n \in 1..Budget :
                  kind[n] # "skip" => Op(k, w, n) \in FirstPasses(w, last)
<1>1. \A k, n : Op(k, w, n).iteration = k /\ Op(k, w, n).seq = n
  BY DEF Op
<1>2. \A op \in FirstPasses(w, last) :
          \E k \in 1..last, n \in 1..Budget : kind[n] # "skip" /\ op = Op(k, w, n)
  BY DEF FirstPasses
<1> QED
  BY <1>1, <1>2 DEF FirstPasses

LEMMA NumberIs ==
    ASSUME TrafficTypes, NEW w \in Workers
    PROVE  /\ passed[w] \in Nat /\ number[w] \in 1..Budget /\ number[w] \in Nat
           /\ OpNumber(w) \in Nat /\ OpNumber(w) >= 1
           /\ passed[w] = 0 => OpNumber(w) = number[w]
<1>1. Budget \in Nat /\ passed[w] \in Nat /\ number[w] \in 1..Budget
  BY TrafficAssumption DEF TrafficTypes
<1>2. passed[w] * Budget \in Nat
  BY <1>1
<1>3. passed[w] = 0 => passed[w] * Budget = 0
  BY <1>1
<1> QED
  BY <1>1, <1>2, <1>3 DEF OpNumber

\* The worker is past its operation.
LEMMA Advances ==
    ASSUME TrafficTypes, NEW w \in Workers, Advance(w)
    PROVE  /\ passed' \in [Workers -> Nat] /\ number' \in [Workers -> 1..Budget]
           /\ \A v \in Workers : v # w => passed'[v] = passed[v] /\ number'[v] = number[v]
           /\ passed'[w] > 0 <=> passed[w] > 0 \/ number[w] = Budget
           /\ number[w] # Budget => number'[w] = number[w] + 1 /\ passed'[w] = passed[w]
           /\ OpNumber(w)' = OpNumber(w) + 1
<1>1. /\ Budget \in Nat /\ Budget >= 1 /\ passed[w] \in Nat /\ number[w] \in 1..Budget
      /\ passed \in [Workers -> Nat] /\ number \in [Workers -> 1..Budget]
  BY TrafficAssumption DEF TrafficTypes
<1>2. CASE number[w] < Budget
  <2>1. number' = [number EXCEPT ![w] = number[w] + 1] /\ passed' = passed
    BY <1>2 DEF Advance
  <2>2. number[w] + 1 \in 1..Budget
    BY <1>1, <1>2
  <2>3. number'[w] = number[w] + 1 /\ number' \in [Workers -> 1..Budget]
    BY <1>1, <2>1, <2>2
  <2>4. passed[w] * Budget \in Nat
    BY <1>1
  <2>5. OpNumber(w)' = OpNumber(w) + 1
    BY <1>1, <2>1, <2>3, <2>4 DEF OpNumber
  <2> QED
    BY <1>1, <1>2, <2>1, <2>3, <2>5
<1>3. CASE ~(number[w] < Budget)
  <2>1. number' = [number EXCEPT ![w] = 1] /\ passed' = [passed EXCEPT ![w] = passed[w] + 1]
    BY <1>3 DEF Advance
  <2>2. number[w] = Budget /\ passed[w] + 1 \in Nat /\ 1 \in 1..Budget
    BY <1>1, <1>3
  <2>3. /\ number'[w] = 1 /\ number' \in [Workers -> 1..Budget]
        /\ passed'[w] = passed[w] + 1 /\ passed' \in [Workers -> Nat]
    BY <1>1, <2>1, <2>2
  <2>4. passed[w] * Budget \in Nat /\ (passed[w] + 1) * Budget = passed[w] * Budget + Budget
    BY <1>1
  <2>5. OpNumber(w)' = OpNumber(w) + 1
    BY <1>1, <2>2, <2>3, <2>4 DEF OpNumber
  <2> QED
    BY <1>1, <2>1, <2>2, <2>3, <2>5
<1> QED
  BY <1>2, <1>3

LEMMA RangeAppended ==
    ASSUME NEW S, NEW s \in Seq(S), NEW e \in S
    PROVE  Range(Append(s, e)) = Range(s) \cup {e}
<1>1. /\ DOMAIN Append(s, e) = DOMAIN s \cup {Len(s) + 1}
      /\ \A i \in DOMAIN s : Append(s, e)[i] = s[i]
      /\ Append(s, e)[Len(s) + 1] = e
  OBVIOUS
<1> QED
  BY <1>1 DEF Range

\* Past its operation, the worker has reached that one and no other.
LEMMA ReachesNext ==
    ASSUME TrafficTypes, NEW w \in Workers, Advance(w), detIteration = finished + 1,
           UNCHANGED <<detIteration, finished>>,
           NEW op, op.iteration \in Nat, op.seq \in 1..Budget
    PROVE  /\ Reached(w, op) => Reached(w, op)'
           /\ Reached(w, op)' => \/ Reached(w, op)
                                 \/ op.iteration = detIteration /\ op.seq = number[w] /\ passed[w] = 0
           /\ op.iteration = detIteration /\ op.seq = number[w] => Reached(w, op)'
<1>1. /\ passed[w] \in Nat /\ number[w] \in 1..Budget /\ Budget \in Nat /\ finished \in Nat
      /\ passed'[w] \in Nat /\ number'[w] \in 1..Budget
  BY NumberIs, Advances, TrafficAssumption DEF TrafficTypes
<1>2. /\ passed'[w] > 0 <=> passed[w] > 0 \/ number[w] = Budget
      /\ number[w] # Budget => number'[w] = number[w] + 1
  BY Advances
<1>3. Reached(w, op) <=> \/ op.iteration <= finished
                         \/ /\ op.iteration = detIteration
                            /\ passed[w] > 0 \/ op.seq < number[w]
  BY DEF Reached
<1>4. Reached(w, op)' <=> \/ op.iteration <= finished
                          \/ /\ op.iteration = detIteration
                             /\ passed'[w] > 0 \/ op.seq < number'[w]
  BY DEF Reached
<1> QED
  BY <1>1, <1>2, <1>3, <1>4

LEMMA HashGoesOn ==
    ASSUME TrafficTypes, NEW w \in Workers, HashInv(w), Advance(w),
           detIteration \in 1..DetIterations, detIteration = finished + 1,
           UNCHANGED <<kind, detIteration, finished, detStatus>>,
           IF passed[w] = 0 /\ kind[number[w]] # "skip"
           THEN stream'[w].hash = Append(stream[w].hash, Op(detIteration, w, number[w]))
           ELSE stream'[w].hash = stream[w].hash
    PROVE  HashInv(w)'
<1> DEFINE all == FirstPasses(w, DetIterations)
           h == stream[w].hash
           n == number[w]
           o == Op(detIteration, w, n)
<1>1. /\ DetIterations \in Nat /\ Budget \in Nat /\ finished \in Nat /\ detIteration \in Nat
      /\ n \in 1..Budget /\ h \in Seq(Operations)
  BY TrafficAssumption, NumberIs DEF TrafficTypes, Streams
<1>2. \A op \in all : /\ op.iteration \in Nat /\ op.seq \in 1..Budget /\ kind[op.seq] # "skip"
                      /\ op = Op(op.iteration, w, op.seq)
  BY <1>1, OpMembers
<1>3. FirstPasses(w, DetIterations)' = all /\ FirstPasses(w, finished)' = FirstPasses(w, finished)
  BY DEF FirstPasses
<1>4. \A op \in all :
          /\ Reached(w, op) => Reached(w, op)'
          /\ Reached(w, op)' => Reached(w, op) \/ (op = o /\ passed[w] = 0 /\ kind[n] # "skip")
          /\ op = o => Reached(w, op)'
  <2> SUFFICES ASSUME NEW op \in all
               PROVE  /\ Reached(w, op) => Reached(w, op)'
                      /\ Reached(w, op)' => Reached(w, op) \/ (op = o /\ passed[w] = 0 /\ kind[n] # "skip")
                      /\ op = o => Reached(w, op)'
    OBVIOUS
  <2>1. op.iteration \in Nat /\ op.seq \in 1..Budget
    BY <1>2
  <2>2. /\ Reached(w, op) => Reached(w, op)'
        /\ Reached(w, op)' => \/ Reached(w, op)
                              \/ op.iteration = detIteration /\ op.seq = n /\ passed[w] = 0
        /\ op.iteration = detIteration /\ op.seq = n => Reached(w, op)'
    BY <2>1, ReachesNext
  <2>3. op = o => op.iteration = detIteration /\ op.seq = n
    BY DEF Op
  <2> QED
    BY <1>2, <2>2, <2>3
<1>5. /\ Hashed(w) \subseteq all
      /\ \A i, j \in DOMAIN h : i < j => Before(h[i], h[j])
      /\ \A op \in Hashed(w) : Reached(w, op)
      /\ \A op \in all : op.iteration = finished + 1 /\ Reached(w, op) => op \in Hashed(w)
      /\ detStatus = "complete" => FirstPasses(w, finished) \subseteq Hashed(w)
  BY DEF HashInv
<1> HIDE DEF all, o
<1>6. CASE passed[w] = 0 /\ kind[n] # "skip"
  <2>1. o \in all /\ o \in Operations /\ o.iteration = detIteration /\ o.seq = n
    BY <1>1, <1>6, OpMembers DEF all, o, Op, Operations
  <2>2. stream'[w].hash = Append(h, o)
    BY <1>6 DEF o
  <2>3. Hashed(w)' = Hashed(w) \cup {o}
    BY <1>1, <2>1, <2>2, RangeAppended DEF Hashed
  <2>4. \A i \in DOMAIN h : Before(h[i], o)
    <3> SUFFICES ASSUME NEW i \in DOMAIN h PROVE Before(h[i], o)
      OBVIOUS
    <3>1. h[i] \in Hashed(w)
      BY DEF Hashed, Range
    <3>2. Reached(w, h[i]) /\ h[i].iteration \in Nat
      BY <1>2, <1>5, <3>1
    <3>3. h[i].iteration <= finished \/ (h[i].iteration = detIteration /\ h[i].seq < n)
      BY <1>6, <3>2 DEF Reached
    <3> QED
      BY <1>1, <2>1, <3>2, <3>3 DEF Before
  <2>5. \A i, j \in DOMAIN Append(h, o) : i < j => Before(Append(h, o)[i], Append(h, o)[j])
    <3>1. \A i \in DOMAIN Append(h, o) : IF i = Len(h) + 1 THEN Append(h, o)[i] = o
                                         ELSE i \in DOMAIN h /\ Append(h, o)[i] = h[i]
      BY <1>1, <2>1
    <3>2. \A i, j \in DOMAIN Append(h, o) : i < j => i # Len(h) + 1
      BY <1>1, <2>1
    <3> QED
      BY <1>5, <2>4, <3>1, <3>2
  <2>6. /\ Hashed(w)' \subseteq all
        /\ \A op \in Hashed(w)' : Reached(w, op)'
        /\ \A op \in all : op.iteration = finished + 1 /\ Reached(w, op)' => op \in Hashed(w)'
        /\ detStatus = "complete" => FirstPasses(w, finished) \subseteq Hashed(w)'
    BY <1>4, <1>5, <2>1, <2>3
  <2> QED
    BY <1>3, <2>2, <2>5, <2>6 DEF HashInv
<1>7. CASE ~(passed[w] = 0 /\ kind[n] # "skip")
  <2>1. stream'[w].hash = h /\ Hashed(w)' = Hashed(w)
    BY <1>7 DEF Hashed
  <2>2. /\ \A op \in Hashed(w) : Reached(w, op)'
        /\ \A op \in all : op.iteration = finished + 1 /\ Reached(w, op)' => op \in Hashed(w)
    BY <1>4, <1>5, <1>7
  <2> QED
    BY <1>3, <1>5, <2>1, <2>2 DEF HashInv
<1> QED
  BY <1>6, <1>7

\* Rows of a length do not reach into each other.
LEMMA RowsApart ==
    ASSUME NEW a \in Nat, NEW b \in Nat, NEW length \in Nat, NEW r \in Nat, NEW q \in Nat,
           a < b, r < length
    PROVE  a * length + r < b * length + q
<1> DEFINE c == b - a - 1
<1>1. c \in Nat /\ b = a + 1 + c
  OBVIOUS
<1> HIDE DEF c
<1>2. a * length \in Nat /\ c * length \in Nat
  BY <1>1
<1>3. b * length = a * length + length + c * length
  BY <1>1
<1> QED
  BY <1>2, <1>3

LEMMA FastIdsOf ==
    ASSUME NEW w \in Workers, NEW n \in 1..(Budget * MaxPasses), NEW x \in FastIds(1, w, n)
    PROVE  \E j \in 0..(BatchSize - 1) : x = w * Stride + ((n - 1) * BatchSize + j)
<1>1. PICK j \in 0..(BatchSize - 1) :
          x = w * Stride + (1 - 1) * Budget * BatchSize + (n - 1) * BatchSize + j
  BY DEF FastIds
<1>2. BatchSize \in Nat /\ Stride \in Nat /\ Budget \in Nat /\ w \in Nat /\ n - 1 \in Nat /\ j \in Nat
  BY TrafficAssumption DEF Workers
<1>3. /\ w * Stride \in Nat /\ (n - 1) * BatchSize \in Nat
      /\ (1 - 1) * Budget * BatchSize = 0
  BY <1>2
<1> QED
  BY <1>1, <1>2, <1>3

LEMMA FastIdsApart ==
    ASSUME WithinStride, NEW v \in Workers, NEW w \in Workers,
           NEW m \in 1..(Budget * MaxPasses), NEW n \in 1..(Budget * MaxPasses),
           v < w \/ (v = w /\ m < n)
    PROVE  FastIds(1, v, m) \cap FastIds(1, w, n) = {}
<1> SUFFICES ASSUME NEW x \in FastIds(1, v, m), x \in FastIds(1, w, n) PROVE FALSE
  OBVIOUS
<1>1. PICK j \in 0..(BatchSize - 1) : x = v * Stride + ((m - 1) * BatchSize + j)
  BY FastIdsOf
<1>2. PICK k \in 0..(BatchSize - 1) : x = w * Stride + ((n - 1) * BatchSize + k)
  BY FastIdsOf
<1> DEFINE total == Budget * MaxPasses
<1>3. /\ BatchSize \in Nat /\ Stride \in Nat /\ v \in Nat /\ w \in Nat
      /\ Budget \in Nat /\ MaxPasses \in Nat
  BY TrafficAssumption DEF Workers
<1>4. total \in Nat /\ total * BatchSize <= Stride
  BY <1>3 DEF WithinStride
<1>5. m \in 1..total /\ n \in 1..total
  OBVIOUS
<1> HIDE DEF total
<1>6. /\ j \in Nat /\ k \in Nat /\ j < BatchSize
      /\ m - 1 \in Nat /\ n - 1 \in Nat /\ m - 1 < total
  BY <1>3, <1>4, <1>5
<1> DEFINE p == (m - 1) * BatchSize
           q == (n - 1) * BatchSize
<1>7. p \in Nat /\ q \in Nat /\ v * Stride \in Nat /\ w * Stride \in Nat
  BY <1>3, <1>6
<1>8. p + j < Stride
  <2>1. p + j < total * BatchSize + 0
    BY <1>3, <1>4, <1>6, RowsApart
  <2>2. total * BatchSize \in Nat
    BY <1>3, <1>4
  <2> QED
    BY <1>3, <1>4, <1>6, <1>7, <2>1, <2>2
<1>9. CASE v < w
  <2>1. p + j \in Nat /\ q + k \in Nat
    BY <1>6, <1>7
  <2>2. v * Stride + (p + j) < w * Stride + (q + k)
    <3> HIDE DEF p, q
    <3> QED
      BY <1>3, <1>8, <1>9, <2>1, RowsApart
  <2> QED
    BY <1>1, <1>2, <1>7, <2>1, <2>2
<1>10. CASE v = w /\ m < n
  <2>1. p + j < q + k
    BY <1>3, <1>5, <1>6, <1>10, RowsApart
  <2> QED
    BY <1>1, <1>2, <1>6, <1>7, <1>10, <2>1
<1> QED
  BY <1>9, <1>10

LEMMA IdsApart ==
    ASSUME WithinStride, NEW v \in Workers, NEW w \in Workers,
           NEW m \in 1..(Budget * MaxPasses), NEW n \in 1..(Budget * MaxPasses),
           v # w \/ m # n
    PROVE  InsertedIds(1, v, m) \cap InsertedIds(1, w, n) = {}
<1>1. FastIds(1, v, m) \cap FastIds(1, w, n) = {}
  <2>1. v \in Nat /\ w \in Nat /\ m \in Nat /\ n \in Nat
    BY TrafficAssumption DEF Workers
  <2>2. \/ v < w \/ (v = w /\ m < n)
        \/ w < v \/ (w = v /\ n < m)
    BY <2>1
  <2> QED
    BY <2>2, FastIdsApart
<1>2. Op(1, v, m) # Op(1, w, n)
  BY DEF Op
<1>3. /\ \A x, y : [fast |-> x] = [fast |-> y] => x = y
      /\ \A x, y : [hash |-> x] = [hash |-> y] => x = y
      /\ \A x, y : [fast |-> x] # [hash |-> y]
  <2>1. \A x : DOMAIN [fast |-> x] = {"fast"} /\ [fast |-> x].fast = x
    OBVIOUS
  <2>2. \A x : DOMAIN [hash |-> x] = {"hash"} /\ [hash |-> x].hash = x
    OBVIOUS
  <2>3. {"fast"} # {"hash"}
    OBVIOUS
  <2> QED
    BY <2>1, <2>2, <2>3
<1>4. \A i \in Workers, k \in 1..(Budget * MaxPasses) : \A id \in InsertedIds(1, i, k) :
          \/ \E x \in FastIds(1, i, k) : id = [fast |-> x]
          \/ id = [hash |-> Op(1, i, k)]
  BY DEF InsertedIds
<1> QED
  BY <1>1, <1>2, <1>3, <1>4

LEMMA NumberWithin ==
    ASSUME TrafficTypes, NEW w \in Workers, passed[w] < MaxPasses
    PROVE  OpNumber(w) \in 1..(Budget * MaxPasses)
<1>1. /\ passed[w] \in Nat /\ number[w] \in 1..Budget /\ Budget \in Nat /\ MaxPasses \in Nat
      /\ number[w] - 1 \in Nat /\ number[w] - 1 < Budget
  BY NumberIs, TrafficAssumption
<1>2. passed[w] * Budget + (number[w] - 1) < MaxPasses * Budget + 0
  BY <1>1, RowsApart
<1>3. passed[w] * Budget \in Nat /\ MaxPasses * Budget \in Nat /\ Budget * MaxPasses = MaxPasses * Budget
  BY <1>1
<1> QED
  BY <1>1, <1>2, <1>3 DEF OpNumber

LEMMA HashSame ==
    ASSUME NEW w \in Workers, HashInv(w), stream'[w].hash = stream[w].hash,
           passed'[w] = passed[w], number'[w] = number[w],
           UNCHANGED <<kind, detIteration, finished, detStatus>>
    PROVE  HashInv(w)'
<1>1. /\ Hashed(w)' = Hashed(w) /\ FirstPasses(w, finished)' = FirstPasses(w, finished)
      /\ FirstPasses(w, DetIterations)' = FirstPasses(w, DetIterations)
  BY DEF Hashed, FirstPasses
<1>2. \A op : Reached(w, op)' <=> Reached(w, op)
  BY DEF Reached
<1> QED
  BY <1>1, <1>2 DEF HashInv

\* No id is added, and no worker goes back.
LEMMA IdsStay ==
    ASSUME TrafficInv, UNCHANGED <<kind, detIteration, ids, clashes>>,
           \A v \in Workers : OpNumber(v)' \in Nat /\ OpNumber(v) <= OpNumber(v)'
    PROVE  IdsInv'
<1> SUFFICES ASSUME detIteration = 1
             PROVE  /\ clashes = {}
                    /\ \A id \in ids : \E v \in Workers : \E m \in 1..(Budget * MaxPasses) :
                          m < OpNumber(v)' /\ id \in InsertedIds(1, v, m)'
  BY DEF IdsInv
<1>1. \A v, m : InsertedIds(1, v, m)' = InsertedIds(1, v, m)
  BY DEF InsertedIds
<1>2. ASSUME NEW id \in ids
      PROVE  \E v \in Workers : \E m \in 1..(Budget * MaxPasses) :
                 m < OpNumber(v)' /\ id \in InsertedIds(1, v, m)
  <2>1. PICK v \in Workers : \E m \in 1..(Budget * MaxPasses) :
                 m < OpNumber(v) /\ id \in InsertedIds(1, v, m)
    BY DEF TrafficInv, IdsInv
  <2>2. PICK m \in 1..(Budget * MaxPasses) : m < OpNumber(v) /\ id \in InsertedIds(1, v, m)
    BY <2>1
  <2>3. OpNumber(v) \in Nat /\ OpNumber(v)' \in Nat /\ OpNumber(v) <= OpNumber(v)' /\ m \in Nat
    BY NumberIs, TrafficAssumption DEF TrafficInv
  <2>4. m < OpNumber(v)'
    BY <2>2, <2>3
  <2> QED
    BY <2>2, <2>4
<1>3. clashes = {}
  BY DEF TrafficInv, IdsInv
<1> QED
  BY <1>1, <1>2, <1>3

\* The workers stand where they did.
LEMMA NumbersStay ==
    ASSUME TrafficInv, UNCHANGED <<passed, number>>
    PROVE  \A v \in Workers : OpNumber(v)' = OpNumber(v) /\ OpNumber(v) \in Nat
                              /\ OpNumber(v)' \in Nat /\ OpNumber(v) <= OpNumber(v)'
<1> SUFFICES ASSUME NEW v \in Workers
             PROVE  OpNumber(v)' = OpNumber(v) /\ OpNumber(v) \in Nat
                    /\ OpNumber(v)' \in Nat /\ OpNumber(v) <= OpNumber(v)'
  OBVIOUS
<1>1. OpNumber(v)' = OpNumber(v)
  BY DEF OpNumber
<1>2. OpNumber(v) \in Nat
  BY NumberIs DEF TrafficInv
<1> QED
  BY <1>1, <1>2

LEMMA TrafficInitial == TInit => TrafficInv
<1> SUFFICES ASSUME TInit PROVE TrafficInv
  OBVIOUS
<1>1. /\ detIteration = 1 /\ finished = 0 /\ clashes = {} /\ ids = {}
      /\ turn = [w \in Workers |-> "generate"] /\ passed = [w \in Workers |-> 0]
      /\ number = [w \in Workers |-> 1] /\ stream = Fresh
  BY DEF TInit
<1>2. Budget \in Nat /\ Budget >= 1 /\ DetIterations \in Nat /\ DetIterations >= 1
  BY TrafficAssumption
<1>3. \A w \in Workers : /\ stream[w].hash = <<>> /\ stream[w].completed = FALSE
                         /\ passed[w] = 0 /\ number[w] = 1 /\ turn[w] = "generate"
  BY <1>1 DEF Fresh
<1>4. TrafficTypes
  <2>1. [hash |-> <<>>, generated |-> 0, sent |-> 0, completed |-> FALSE] \in Streams
    BY DEF Streams
  <2>2. stream \in [Workers -> Streams]
    BY <1>1, <2>1 DEF Fresh
  <2>3. number \in [Workers -> 1..Budget]
    BY <1>1, <1>2
  <2> QED
    BY <1>1, <2>2, <2>3 DEF TrafficTypes
<1>5. PassInv
  <2>1. "generate" # "gone" /\ "generate" # "send"
    OBVIOUS
  <2>2. \A w \in Workers : ~stream[w].completed
    BY <1>3
  <2> QED
    BY <1>1, <1>2, <1>3, <2>1, <2>2 DEF PassInv
<1>6. ASSUME NEW w \in Workers PROVE HashInv(w)
  <2>1. Hashed(w) = {} /\ DOMAIN stream[w].hash = {}
    BY <1>3 DEF Hashed, Range
  <2>2. FirstPasses(w, finished) = {}
    BY <1>1 DEF FirstPasses
  <2>3. \A op \in FirstPasses(w, DetIterations) : ~Reached(w, op)
    <3> SUFFICES ASSUME NEW op \in FirstPasses(w, DetIterations) PROVE ~Reached(w, op)
      OBVIOUS
    <3>1. op.iteration \in 1..DetIterations /\ op.seq \in 1..Budget
      BY <1>2, OpMembers
    <3> QED
      BY <1>1, <1>2, <1>3, <3>1 DEF Reached
  <2> QED
    BY <2>1, <2>2, <2>3 DEF HashInv
<1>7. IdsInv
  BY <1>1 DEF IdsInv
<1> QED
  BY <1>4, <1>5, <1>6, <1>7 DEF TrafficInv

LEMMA SeeStep == ASSUME TrafficInv, NEW w \in Workers, See(w) PROVE TrafficInv'
<1>1. /\ turn' = [turn EXCEPT ![w] = "gone"]
      /\ UNCHANGED <<kind, detIteration, passed, number, stream, finished, detStatus, ids, clashes>>
  BY DEF See, LeaveIteration
<1>2. /\ turn' \in [Workers -> {"generate", "send", "gone"}]
      /\ \A v \in Workers : turn'[v] = "gone" \/ turn'[v] = turn[v]
  BY <1>1 DEF TrafficInv, TrafficTypes
<1>3. TrafficTypes'
  BY <1>1, <1>2 DEF TrafficInv, TrafficTypes
<1>4. PassInv'
  <2>1. \A v \in Workers : OpNumber(v)' = OpNumber(v)
    BY <1>1 DEF OpNumber
  <2>2. "gone" # "send"
    OBVIOUS
  <2> QED
    BY <1>1, <1>2, <2>1, <2>2 DEF TrafficInv, PassInv
<1>5. \A v \in Workers : HashInv(v)'
  BY <1>1, HashSame DEF TrafficInv
<1>6. IdsInv'
  BY <1>1, NumbersStay, IdsStay
<1> QED
  BY <1>3, <1>4, <1>5, <1>6 DEF TrafficInv

LEMMA OverStep == ASSUME TrafficInv, NEW why, Over(why) PROVE TrafficInv'
<1>1. UNCHANGED <<kind, detIteration, turn, passed, number, stream, finished, detStatus, ids, clashes>>
  BY DEF Over
<1>2. TrafficTypes'
  BY <1>1 DEF TrafficInv, TrafficTypes
<1>3. PassInv'
  BY <1>1 DEF TrafficInv, PassInv, OpNumber
<1>4. \A v \in Workers : HashInv(v)'
  BY <1>1, HashSame DEF TrafficInv
<1>5. IdsInv'
  BY <1>1, NumbersStay, IdsStay
<1> QED
  BY <1>2, <1>3, <1>4, <1>5 DEF TrafficInv

\* Worker w goes past an operation that is skipped or sent.
LEMMA GoesPast ==
    ASSUME TrafficInv, NEW w \in Workers, turn[w] # "gone", Advance(w),
           UNCHANGED <<kind, detIteration, finished, detStatus>>,
           stream' \in [Workers -> Streams],
           \A v \in Workers : v # w => stream'[v] = stream[v],
           stream'[w].completed => stream[w].completed \/ number[w] = Budget,
           IF passed[w] = 0 /\ kind[number[w]] # "skip"
           THEN stream'[w].hash = Append(stream[w].hash, Op(detIteration, w, number[w]))
           ELSE stream'[w].hash = stream[w].hash,
           turn' \in [Workers -> {"generate", "send", "gone"}], turn'[w] = "generate",
           \A v \in Workers : v # w => turn'[v] = turn[v]
    PROVE  TrafficTypes' /\ PassInv' /\ (\A v \in Workers : HashInv(v)')
<1>1. /\ passed' \in [Workers -> Nat] /\ number' \in [Workers -> 1..Budget]
      /\ \A v \in Workers : v # w => passed'[v] = passed[v] /\ number'[v] = number[v]
      /\ passed'[w] > 0 <=> passed[w] > 0 \/ number[w] = Budget
  BY Advances DEF TrafficInv
<1>2. detIteration \in 1..DetIterations /\ detIteration = finished + 1
  BY TrafficAssumption DEF TrafficInv, TrafficTypes, PassInv
<1>3. TrafficTypes'
  BY <1>1 DEF TrafficInv, TrafficTypes
<1>4. PassInv'
  <2>1. \A v \in Workers : v # w => OpNumber(v)' = OpNumber(v)
    BY <1>1 DEF OpNumber
  <2>2. ASSUME NEW v \in Workers
        PROVE  /\ turn'[v] # "gone" => detIteration' <= DetIterations
               /\ turn'[v] = "send" => passed'[v] < MaxPasses /\ kind'[OpNumber(v)'] # "skip"
               /\ stream'[v].completed => passed'[v] > 0
    <3>1. CASE v = w
      BY <1>1, <1>2, <3>1 DEF TrafficInv, PassInv
    <3>2. CASE v # w
      BY <1>1, <2>1, <3>2 DEF TrafficInv, PassInv
    <3> QED
      BY <3>1, <3>2
  <2> QED
    BY <1>2, <2>2 DEF TrafficInv, PassInv
<1>5. ASSUME NEW v \in Workers PROVE HashInv(v)'
  <2>1. CASE v = w
    BY <1>2, <2>1, HashGoesOn DEF TrafficInv
  <2>2. CASE v # w
    BY <1>1, <2>2, HashSame DEF TrafficInv
  <2> QED
    BY <2>1, <2>2
<1> QED
  BY <1>3, <1>4, <1>5

LEMMA NumbersGoOn ==
    ASSUME TrafficInv, NEW w \in Workers, Advance(w)
    PROVE  \A v \in Workers : /\ OpNumber(v) \in Nat /\ OpNumber(v)' \in Nat
                              /\ OpNumber(v) <= OpNumber(v)'
                              /\ OpNumber(v)' = IF v = w THEN OpNumber(v) + 1 ELSE OpNumber(v)
<1> SUFFICES ASSUME NEW v \in Workers
             PROVE  /\ OpNumber(v) \in Nat /\ OpNumber(v)' \in Nat
                    /\ OpNumber(v) <= OpNumber(v)'
                    /\ OpNumber(v)' = IF v = w THEN OpNumber(v) + 1 ELSE OpNumber(v)
  OBVIOUS
<1>1. OpNumber(v) \in Nat
  BY NumberIs DEF TrafficInv
<1>2. CASE v = w
  <2>1. OpNumber(w)' = OpNumber(w) + 1
    BY Advances DEF TrafficInv
  <2> QED
    BY <1>1, <1>2, <2>1
<1>3. CASE v # w
  <2>1. passed'[v] = passed[v] /\ number'[v] = number[v]
    BY <1>3, Advances DEF TrafficInv
  <2>2. OpNumber(v)' = OpNumber(v)
    BY <2>1 DEF OpNumber
  <2> QED
    BY <1>1, <1>3, <2>2
<1> QED
  BY <1>2, <1>3

LEMMA GenerateStep == ASSUME TrafficInv, NEW w \in Workers, Generate(w) PROVE TrafficInv'
<1> DEFINE skip == kind[OpNumber(w)] = "skip"
<1>1. /\ turn[w] = "generate" /\ passed[w] < MaxPasses
      /\ stream' = [stream EXCEPT ![w].generated = @ + 1,
                                  ![w].completed = @ \/ (skip /\ number[w] = Budget)]
      /\ IF skip THEN Advance(w) /\ UNCHANGED turn
         ELSE turn' = [turn EXCEPT ![w] = "send"] /\ UNCHANGED <<passed, number>>
      /\ UNCHANGED <<kind, detIteration, finished, detStatus, ids, clashes>>
  BY DEF Generate
<1> HIDE DEF skip
<1>2. stream \in [Workers -> Streams] /\ turn \in [Workers -> {"generate", "send", "gone"}]
  BY DEF TrafficInv, TrafficTypes
<1>3. /\ stream'[w] = [stream[w] EXCEPT !.generated = @ + 1,
                                        !.completed = @ \/ (skip /\ number[w] = Budget)]
      /\ \A v \in Workers : v # w => stream'[v] = stream[v]
  BY <1>1, <1>2
<1>4. /\ stream'[w] \in Streams /\ stream'[w].hash = stream[w].hash
      /\ stream'[w].completed => stream[w].completed \/ (skip /\ number[w] = Budget)
  <2> DEFINE ends == stream[w].completed \/ (skip /\ number[w] = Budget)
  <2>1. stream[w] \in Streams
    BY <1>2
  <2>2. stream[w].generated + 1 \in Nat
    BY <2>1 DEF Streams
  <2>3. ends \in BOOLEAN
    BY Zenon
  <2>4. stream'[w] = [stream[w] EXCEPT !.generated = @ + 1, !.completed = ends]
    BY <1>3
  <2>5. ends => stream[w].completed \/ (skip /\ number[w] = Budget)
    OBVIOUS
  <2> HIDE DEF ends
  <2>6. stream'[w] \in Streams /\ stream'[w].hash = stream[w].hash
    BY <2>1, <2>2, <2>3, <2>4 DEF Streams
  <2>7. stream'[w].completed = ends
    BY <2>1, <2>4 DEF Streams
  <2> QED
    BY <2>5, <2>6, <2>7
<1>5. stream' \in [Workers -> Streams]
  <2>1. DOMAIN stream' = Workers /\ stream' = [v \in Workers |-> stream'[v]]
    BY <1>1, <1>2
  <2>2. \A v \in Workers : stream'[v] \in Streams
    BY <1>2, <1>3, <1>4
  <2> QED
    BY <2>1, <2>2
<1>6. "generate" # "gone" /\ "generate" # "send" /\ "send" # "gone"
  OBVIOUS
<1>7. CASE skip
  <2>1. ~(passed[w] = 0 /\ kind[number[w]] # "skip")
    BY <1>7, NumberIs DEF TrafficInv, skip
  <2>2. TrafficTypes' /\ PassInv' /\ (\A v \in Workers : HashInv(v)')
    BY <1>1, <1>2, <1>3, <1>4, <1>5, <1>6, <1>7, <2>1, GoesPast
  <2>3. IdsInv'
    BY <1>1, <1>7, NumbersGoOn, IdsStay
  <2> QED
    BY <2>2, <2>3 DEF TrafficInv
<1>8. CASE ~skip
  <2>1. turn' = [turn EXCEPT ![w] = "send"] /\ UNCHANGED <<passed, number>>
    BY <1>1, <1>8
  <2>2. \A v \in Workers : OpNumber(v)' = OpNumber(v)
    BY <2>1 DEF OpNumber
  <2>3. TrafficTypes'
    BY <1>1, <1>2, <1>5, <2>1 DEF TrafficInv, TrafficTypes
  <2>4. PassInv'
    <3>1. \A v \in Workers : turn'[v] = IF v = w THEN "send" ELSE turn[v]
      BY <1>2, <2>1
    <3>2. \A v \in Workers : stream'[v].completed => stream[v].completed
      BY <1>3, <1>4, <1>8
    <3>3. kind[OpNumber(w)] # "skip"
      BY <1>8 DEF skip
    <3> QED
      BY <1>1, <1>6, <2>1, <2>2, <3>1, <3>2, <3>3 DEF TrafficInv, PassInv
  <2>5. \A v \in Workers : HashInv(v)'
    BY <1>1, <1>3, <1>4, <2>1, HashSame DEF TrafficInv
  <2>6. IdsInv'
    BY <1>1, <2>1, NumbersStay, IdsStay
  <2> QED
    BY <2>3, <2>4, <2>5, <2>6 DEF TrafficInv
<1> QED
  BY <1>7, <1>8

LEMMA SendOpStep ==
    ASSUME WithinStride, TrafficInv, NEW w \in Workers, SendOp(w)
    PROVE  TrafficInv'
<1> DEFINE new == InsertedIds(detIteration, w, OpNumber(w))
           ends == stream[w].completed \/ number[w] = Budget
           hashed == IF passed[w] = 0 THEN Append(stream[w].hash, Op(detIteration, w, OpNumber(w)))
                     ELSE stream[w].hash
<1>1. /\ turn[w] = "send" /\ turn' = [turn EXCEPT ![w] = "generate"] /\ Advance(w)
      /\ stream' = [stream EXCEPT ![w].sent = @ + 1, ![w].hash = hashed, ![w].completed = ends]
      /\ ids' = ids \cup new /\ clashes' = clashes \cup (ids \cap new)
      /\ UNCHANGED <<kind, detIteration, finished, detStatus>>
  BY DEF SendOp
<1>2. stream \in [Workers -> Streams] /\ turn \in [Workers -> {"generate", "send", "gone"}]
  BY DEF TrafficInv, TrafficTypes
<1>3. "generate" # "gone" /\ "send" # "gone"
  OBVIOUS
<1>4. passed[w] < MaxPasses /\ kind[OpNumber(w)] # "skip" /\ detIteration \in 1..DetIterations
  BY <1>1, <1>3, TrafficAssumption DEF TrafficInv, TrafficTypes, PassInv
<1>5. /\ passed[w] = 0 => OpNumber(w) = number[w]
      /\ OpNumber(w) \in Nat /\ number[w] \in Nat /\ OpNumber(w) \in 1..(Budget * MaxPasses)
  BY <1>4, NumberIs, NumberWithin DEF TrafficInv
<1>6. ends \in BOOLEAN /\ (ends => stream[w].completed \/ number[w] = Budget)
  BY Zenon
<1>7. hashed \in Seq(Operations)
  <2>1. stream[w].hash \in Seq(Operations)
    BY <1>2 DEF Streams
  <2>2. Op(detIteration, w, OpNumber(w)) \in Operations
    BY <1>4, <1>5 DEF Op, Operations
  <2> QED
    BY <2>1, <2>2
<1>8. IF passed[w] = 0 /\ kind[number[w]] # "skip"
      THEN hashed = Append(stream[w].hash, Op(detIteration, w, number[w]))
      ELSE hashed = stream[w].hash
  BY <1>4, <1>5
<1> HIDE DEF ends, hashed
<1>9. /\ stream'[w] = [stream[w] EXCEPT !.sent = @ + 1, !.hash = hashed, !.completed = ends]
      /\ \A v \in Workers : v # w => stream'[v] = stream[v]
  BY <1>1, <1>2
<1>10. stream'[w] \in Streams /\ stream'[w].hash = hashed /\ stream'[w].completed = ends
  <2>1. stream[w] \in Streams
    BY <1>2
  <2>2. stream[w].sent + 1 \in Nat
    BY <2>1 DEF Streams
  <2>3. stream'[w] \in Streams
    BY <1>6, <1>7, <1>9, <2>1, <2>2 DEF Streams
  <2> QED
    BY <1>9, <2>1, <2>3 DEF Streams
<1>11. stream' \in [Workers -> Streams]
  <2>1. DOMAIN stream' = Workers /\ stream' = [v \in Workers |-> stream'[v]]
    BY <1>1, <1>2
  <2>2. \A v \in Workers : stream'[v] \in Streams
    BY <1>2, <1>9, <1>10
  <2> QED
    BY <2>1, <2>2
<1>12. TrafficTypes' /\ PassInv' /\ (\A v \in Workers : HashInv(v)')
  <2>1. /\ turn' \in [Workers -> {"generate", "send", "gone"}] /\ turn'[w] = "generate"
        /\ \A v \in Workers : v # w => turn'[v] = turn[v]
    BY <1>1, <1>2
  <2>2. stream'[w].completed => stream[w].completed \/ number[w] = Budget
    BY <1>6, <1>10
  <2>3. IF passed[w] = 0 /\ kind[number[w]] # "skip"
        THEN stream'[w].hash = Append(stream[w].hash, Op(detIteration, w, number[w]))
        ELSE stream'[w].hash = stream[w].hash
    BY <1>8, <1>10
  <2> QED
    BY <1>1, <1>3, <1>9, <1>11, <2>1, <2>2, <2>3, GoesPast
<1>13. IdsInv'
  <2> HIDE DEF new
  <2> SUFFICES ASSUME detIteration = 1
               PROVE  /\ clashes' = {}
                      /\ \A id \in ids' : \E v \in Workers : \E m \in 1..(Budget * MaxPasses) :
                            m < OpNumber(v)' /\ id \in InsertedIds(1, v, m)'
    BY <1>1 DEF IdsInv
  <2>1. \A v, m : InsertedIds(1, v, m)' = InsertedIds(1, v, m)
    BY <1>1 DEF InsertedIds
  <2>2. \A v \in Workers : /\ OpNumber(v) \in Nat /\ OpNumber(v)' \in Nat
                           /\ OpNumber(v)' = IF v = w THEN OpNumber(v) + 1 ELSE OpNumber(v)
    BY <1>1, NumbersGoOn
  <2>3. new = InsertedIds(1, w, OpNumber(w))
    BY DEF new
  <2>4. clashes = {} /\ \A id \in ids : \E v \in Workers : \E m \in 1..(Budget * MaxPasses) :
                            m < OpNumber(v) /\ id \in InsertedIds(1, v, m)
    BY DEF TrafficInv, IdsInv
  <2>5. \A m \in 1..(Budget * MaxPasses) : m \in Int
    OBVIOUS
  <2>6. \A id \in ids : id \notin new
    <3> SUFFICES ASSUME NEW id \in ids, id \in new PROVE FALSE
      OBVIOUS
    <3>1. PICK v \in Workers : \E m \in 1..(Budget * MaxPasses) :
                   m < OpNumber(v) /\ id \in InsertedIds(1, v, m)
      BY <2>4
    <3>2. PICK m \in 1..(Budget * MaxPasses) : m < OpNumber(v) /\ id \in InsertedIds(1, v, m)
      BY <3>1
    <3>3. v # w \/ m # OpNumber(w)
      BY <1>5, <2>5, <3>2
    <3>4. InsertedIds(1, v, m) \cap InsertedIds(1, w, OpNumber(w)) = {}
      BY <1>5, <3>3, IdsApart
    <3> QED
      BY <2>3, <3>2, <3>4
  <2>7. ASSUME NEW id \in ids'
        PROVE  \E v \in Workers : \E m \in 1..(Budget * MaxPasses) :
                   m < OpNumber(v)' /\ id \in InsertedIds(1, v, m)
    <3>1. CASE id \in ids
      <4>1. PICK v \in Workers : \E m \in 1..(Budget * MaxPasses) :
                     m < OpNumber(v) /\ id \in InsertedIds(1, v, m)
        BY <2>4, <3>1
      <4>2. PICK m \in 1..(Budget * MaxPasses) : m < OpNumber(v) /\ id \in InsertedIds(1, v, m)
        BY <4>1
      <4>3. m < OpNumber(v)'
        BY <2>2, <2>5, <4>2
      <4> QED
        BY <4>2, <4>3
    <3>2. CASE id \in new
      <4>1. OpNumber(w) < OpNumber(w)'
        BY <2>2
      <4> QED
        BY <1>5, <2>3, <3>2, <4>1
    <3> QED
      BY <1>1, <3>1, <3>2
  <2>8. clashes' = {}
    BY <1>1, <2>4, <2>6
  <2> QED
    BY <2>1, <2>7, <2>8
<1> QED
  BY <1>12, <1>13 DEF TrafficInv

LEMMA FinishIterationStep == ASSUME TrafficInv, FinishIteration PROVE TrafficInv'
<1>1. /\ over # "no" /\ detIteration <= DetIterations
      /\ detIteration' = IF over = "stopped" THEN DetIterations + 1 ELSE detIteration + 1
      /\ stream' = [w \in Workers |-> [stream[w] EXCEPT !.completed = FALSE]]
      /\ turn' = [w \in Workers |-> IF detIteration' <= DetIterations THEN "generate" ELSE "gone"]
      /\ passed' = [w \in Workers |-> 0] /\ number' = [w \in Workers |-> 1]
      /\ finished' = finished + 1 /\ UNCHANGED <<kind, ids, clashes>>
  BY DEF FinishIteration
<1>2. detStatus' = "complete" => detStatus = "complete" /\ \A w \in Workers : stream[w].completed
  <2>1. "incomplete" # "complete"
    OBVIOUS
  <2> QED
    BY <2>1 DEF FinishIteration
<1>3. /\ Budget \in Nat /\ Budget >= 1 /\ DetIterations \in Nat /\ finished \in Nat
      /\ detIteration \in Nat /\ detIteration = finished + 1 /\ detIteration >= 1
      /\ stream \in [Workers -> Streams]
  BY <1>1, TrafficAssumption DEF TrafficInv, TrafficTypes, PassInv
<1>4. /\ detIteration' \in Nat \ {0} /\ detIteration' >= 2 /\ finished' \in Nat
      /\ detIteration' <= DetIterations => detIteration' = finished' + 1
  BY <1>1, <1>3
<1>5. \A w \in Workers : /\ stream'[w] \in Streams /\ stream'[w].hash = stream[w].hash
                         /\ ~stream'[w].completed
  <2> SUFFICES ASSUME NEW w \in Workers
               PROVE  /\ stream'[w] \in Streams /\ stream'[w].hash = stream[w].hash
                      /\ ~stream'[w].completed
    OBVIOUS
  <2>1. stream'[w] = [stream[w] EXCEPT !.completed = FALSE] /\ stream[w] \in Streams
    BY <1>1, <1>3
  <2>2. stream'[w] \in Streams
    BY <2>1 DEF Streams
  <2> QED
    BY <2>1, <2>2 DEF Streams
<1>6. \A w \in Workers : /\ passed'[w] = 0 /\ number'[w] = 1
                         /\ turn'[w] = IF detIteration' <= DetIterations THEN "generate" ELSE "gone"
  BY <1>1
<1>7. TrafficTypes'
  <2>1. stream' \in [Workers -> Streams]
    BY <1>1, <1>5
  <2>2. turn' \in [Workers -> {"generate", "send", "gone"}]
    BY <1>1
  <2>3. passed' \in [Workers -> Nat] /\ number' \in [Workers -> 1..Budget]
    BY <1>1, <1>3
  <2> QED
    BY <1>4, <2>1, <2>2, <2>3 DEF TrafficTypes
<1>8. PassInv'
  <2>1. "generate" # "send" /\ "gone" # "send" /\ "generate" # "gone"
    OBVIOUS
  <2> QED
    BY <1>4, <1>5, <1>6, <2>1 DEF PassInv
<1>9. ASSUME NEW w \in Workers PROVE HashInv(w)'
  <2> DEFINE all == FirstPasses(w, DetIterations)
  <2>1. /\ all' = all /\ Hashed(w)' = Hashed(w)
        /\ FirstPasses(w, finished)' = FirstPasses(w, finished + 1)
    BY <1>1, <1>5 DEF FirstPasses, Hashed
  <2>2. \A op \in all : op.iteration \in 1..DetIterations /\ op.seq \in 1..Budget
                        /\ kind[op.seq] # "skip" /\ op = Op(op.iteration, w, op.seq)
    BY <1>3, OpMembers
  <2>3. /\ Hashed(w) \subseteq all
        /\ \A i, j \in DOMAIN stream[w].hash :
              i < j => Before(stream[w].hash[i], stream[w].hash[j])
        /\ \A op \in Hashed(w) : Reached(w, op)
        /\ \A op \in all : op.iteration = finished + 1 /\ Reached(w, op) => op \in Hashed(w)
        /\ detStatus = "complete" => FirstPasses(w, finished) \subseteq Hashed(w)
    BY DEF TrafficInv, HashInv
  <2>4. \A op \in Hashed(w) : Reached(w, op)'
    <3> SUFFICES ASSUME NEW op \in Hashed(w) PROVE Reached(w, op)'
      OBVIOUS
    <3>1. op.iteration \in Nat /\ Reached(w, op)
      BY <1>3, <2>2, <2>3
    <3>2. op.iteration <= finished + 1
      BY <1>3, <3>1 DEF Reached
    <3> QED
      BY <1>1, <3>2 DEF Reached
  <2>5. \A op \in all : ~(op.iteration = finished' + 1 /\ Reached(w, op)')
    <3> SUFFICES ASSUME NEW op \in all, op.iteration = finished' + 1, Reached(w, op)' PROVE FALSE
      OBVIOUS
    <3>1. op.seq \in 1..Budget
      BY <2>2
    <3>2. ~(op.iteration <= finished')
      <4>1. \A x \in Nat : ~(x + 1 <= x)
        OBVIOUS
      <4> QED
        BY <1>4, <4>1
    <3> QED
      BY <1>3, <1>6, <3>1, <3>2 DEF Reached
  <2>6. detStatus' = "complete" => FirstPasses(w, finished + 1) \subseteq Hashed(w)
    <3> SUFFICES ASSUME detStatus' = "complete", NEW op \in FirstPasses(w, finished + 1)
                 PROVE  op \in Hashed(w)
      OBVIOUS
    <3>1. /\ op.iteration \in 1..(finished + 1) /\ op.seq \in 1..Budget /\ kind[op.seq] # "skip"
          /\ op = Op(op.iteration, w, op.seq)
      BY <1>3, OpMembers
    <3>2. op \in all
      <4>1. op.iteration \in 1..DetIterations
        BY <1>1, <1>3, <3>1
      <4> QED
        BY <1>3, <3>1, <4>1, OpMembers
    <3>3. CASE op.iteration = finished + 1
      <4>1. passed[w] > 0
        BY <1>2 DEF TrafficInv, PassInv
      <4>2. Reached(w, op)
        BY <1>3, <3>3, <4>1 DEF Reached
      <4> QED
        BY <2>3, <3>2, <3>3, <4>2
    <3>4. CASE op.iteration # finished + 1
      <4>1. op.iteration \in 1..finished
        BY <1>3, <3>1, <3>4
      <4>2. op \in FirstPasses(w, finished)
        BY <1>3, <3>1, <4>1, OpMembers
      <4> QED
        BY <1>2, <2>3, <4>2
    <3> QED
      BY <3>3, <3>4
  <2> HIDE DEF all
  <2>7. FirstPasses(w, DetIterations)' = all /\ stream'[w].hash = stream[w].hash
    BY <1>5, <2>1 DEF all
  <2> QED
    BY <2>1, <2>3, <2>4, <2>5, <2>6, <2>7 DEF HashInv
<1>10. IdsInv'
  BY <1>4 DEF IdsInv
<1> QED
  BY <1>7, <1>8, <1>9, <1>10 DEF TrafficInv

LEMMA TrafficStep == WithinStride /\ TrafficInv /\ [TNext]_detVars => TrafficInv'
<1> SUFFICES ASSUME WithinStride, TrafficInv, [TNext]_detVars PROVE TrafficInv'
  OBVIOUS
<1>1. CASE UNCHANGED detVars
  <2>1. UNCHANGED <<kind, detIteration, turn, passed, number, stream, finished, detStatus, ids, clashes>>
    BY <1>1 DEF detVars
  <2>2. \A v \in Workers : HashInv(v)'
    BY <2>1, HashSame DEF TrafficInv
  <2>3. IdsInv'
    BY <2>1, NumbersStay, IdsStay
  <2> QED
    BY <2>1, <2>2, <2>3 DEF TrafficInv, TrafficTypes, PassInv, OpNumber
<1>2. CASE \E w \in Workers : See(w) \/ Generate(w) \/ SendOp(w)
  BY <1>2, SeeStep, GenerateStep, SendOpStep
<1>3. CASE Over("timeout") \/ Over("stopped")
  BY <1>3, OverStep
<1>4. CASE FinishIteration
  BY <1>4, FinishIterationStep
<1> QED
  BY <1>1, <1>2, <1>3, <1>4 DEF TNext

\* Each worker's hash covers, in order and once each, operations of its first
\* passes only; if the fingerprint is complete, all of the iterations that ended
\* and what comes before any operation it covers (deterministicWorker,
\* finishIteration). In the first iteration every id is new.
THEOREM TrafficTheorem ==
    ASSUME WithinStride
    PROVE  TSpec => []TrafficAsSpecified
<1>1. TrafficInv => FingerprintIsFirstPasses
  <2> SUFFICES ASSUME TrafficInv, NEW w \in Workers
               PROVE  /\ Range(stream[w].hash) \subseteq FirstPasses(w, DetIterations)
                      /\ \A i, j \in DOMAIN stream[w].hash :
                            i < j => Before(stream[w].hash[i], stream[w].hash[j])
                      /\ detStatus = "complete" =>
                            /\ FirstPasses(w, finished) \subseteq Range(stream[w].hash)
                            /\ \A op \in Range(stream[w].hash) :
                                  {o \in FirstPasses(w, DetIterations) : Before(o, op)}
                                      \subseteq Range(stream[w].hash)
    BY DEF FingerprintIsFirstPasses
  <2>1. HashInv(w)
    BY DEF TrafficInv
  <2>2. ASSUME detStatus = "complete", NEW op \in Hashed(w),
               NEW o \in FirstPasses(w, DetIterations), Before(o, op)
        PROVE  o \in Hashed(w)
    <3>1. finished \in Nat /\ DetIterations \in Nat
      BY TrafficAssumption DEF TrafficInv, TrafficTypes
    <3>2. /\ op.iteration \in 1..DetIterations /\ op.seq \in 1..Budget /\ Reached(w, op)
          /\ o.iteration \in 1..DetIterations /\ o.seq \in 1..Budget /\ kind[o.seq] # "skip"
          /\ o = Op(o.iteration, w, o.seq)
      BY <2>1, <3>1, OpMembers DEF HashInv
    <3>3. CASE o.iteration <= finished
      <4>1. o.iteration \in 1..finished
        BY <3>1, <3>2, <3>3
      <4>2. o \in FirstPasses(w, finished)
        BY <3>1, <3>2, <4>1, OpMembers
      <4> QED
        BY <2>1, <2>2, <4>2 DEF HashInv
    <3>4. CASE ~(o.iteration <= finished)
      <4>1. ~(op.iteration <= finished)
        BY <2>2, <3>1, <3>2, <3>4 DEF Before
      <4>2. /\ detIteration = finished + 1 /\ op.iteration = detIteration
            /\ passed[w] > 0 \/ op.seq < number[w]
        BY <3>2, <4>1 DEF Reached
      <4>3. o.iteration = op.iteration /\ o.seq < op.seq
        BY <2>2, <3>1, <3>2, <3>4, <4>2 DEF Before
      <4>4. number[w] \in Nat /\ Budget \in Nat
        BY NumberIs, TrafficAssumption DEF TrafficInv
      <4>5. passed[w] > 0 \/ o.seq < number[w]
        BY <3>2, <4>2, <4>3, <4>4
      <4>6. Reached(w, o) /\ o.iteration = finished + 1
        BY <4>2, <4>3, <4>5 DEF Reached
      <4> QED
        BY <2>1, <4>6 DEF HashInv
    <3> QED
      BY <3>3, <3>4
  <2> QED
    BY <2>1, <2>2 DEF HashInv, Hashed
<1>2. TrafficInv => LaterPassIds
  BY DEF TrafficInv, IdsInv, LaterPassIds
<1>3. TrafficInv => TrafficAsSpecified
  BY <1>1, <1>2 DEF TrafficAsSpecified
<1>4. TrafficInv /\ [TNext]_detVars => TrafficInv'
  BY TrafficStep
<1> QED
  BY <1>3, <1>4, TrafficInitial, PTL DEF TSpec
=============================================================================
