------------------------------ MODULE Seeding ------------------------------
(* The preparation of a run (internal/mongo/setup.go): collections, indexes, *)
(* the seed by one producer and several writers, and sharding. The           *)
(* definitions share one collection name, in different databases; the handle *)
(* is that of the first. Documents of a seed are known by their position.    *)
EXTENDS Integers, Sequences, FiniteSets

CONSTANTS
    SetupDatabases, \* database of each definition, in order
    SeedWriters, SeedBatchSize, SeedCount,
    ShardModes,     \* of "auto", "force_on", "force_off"
    Mongos,         \* the server is a router of a sharded cluster
    WithShardConfig \* the definitions have a shard key

VARIABLES
    setupAt,        \* "collections", "indexes", "seed", "sharding", "ready", "failed"
    item,           \* the definition in work
    setupDrop,      \* drop_collections
    shardMode,      \* sharding_mode, with sharding_skip_generic_without_config
    cluster,        \* cluster[d]: "absent", "single" (at most one chunk), "chunks"
    before,         \* cluster as the run found it
    indexed,        \* databases whose collection has its indexes
    seeded,         \* seeded[d]: positions inserted
    generated,      \* positions that were handed to a writer
    writing,        \* writing[v]: a batch, {} between batches
    writersLeft,    \* writers that returned
    totalInserted,
    seedCause,      \* the cause of workCtx: "" while it is not cancelled
    setupStopped    \* the context of the run is cancelled

seedVars  == <<generated, writing, writersLeft, totalInserted, seedCause>>
setupVars == <<setupAt, item, setupDrop, shardMode, cluster, before, indexed, seeded, seedVars,
               setupStopped>>

SetupDbs == {SetupDatabases[i] : i \in DOMAIN SetupDatabases}
Handle   == SetupDatabases[1]
ItemDb   == SetupDatabases[item]
Positions == 0..SeedCount - 1

STypeOK ==
    /\ setupAt \in {"collections", "indexes", "seed", "sharding", "ready", "failed"}
    /\ shardMode \in ShardModes \X BOOLEAN
    /\ item \in DOMAIN SetupDatabases /\ setupDrop \in BOOLEAN /\ setupStopped \in BOOLEAN
    /\ {cluster, before} \subseteq [SetupDbs -> {"absent", "single", "chunks"}]
    /\ indexed \subseteq SetupDbs /\ seeded \in [SetupDbs -> SUBSET Positions]
    /\ generated \in 0..SeedCount /\ totalInserted \in 0..SeedCount
    /\ writing \in [SeedWriters -> SUBSET Positions] /\ writersLeft \subseteq SeedWriters
    /\ seedCause \in {"", "cancelled", "insert"}

NoSeed ==
    /\ generated = 0 /\ writing = [v \in SeedWriters |-> {}] /\ writersLeft = {}
    /\ totalInserted = 0 /\ seedCause = ""

\* Found collections are empty, with or without indexes.
SInit ==
    /\ setupAt = "collections" /\ item = 1 /\ setupDrop \in BOOLEAN /\ shardMode \in ShardModes \X BOOLEAN
    /\ before \in [SetupDbs -> {"absent", "single", "chunks"}] /\ cluster = before
    /\ indexed \in SUBSET {d \in SetupDbs : before[d] # "absent"}
    /\ seeded = [d \in SetupDbs |-> {}]
    /\ NoSeed /\ setupStopped = FALSE

FailSetup == setupAt' = "failed" /\ UNCHANGED <<item, seedVars>>
NextItem(phase) ==
    IF item < Len(SetupDatabases) THEN item' = item + 1 /\ UNCHANGED setupAt
    ELSE item' = 1 /\ setupAt' = phase

\* checkShardingStatus(db, name) with more than one chunk; an error means no.
SetUp(d) == cluster[d] = "chunks" /\ ~setupStopped

\* Sharding an empty collection leaves one chunk or several (a hashed key, or
\* pre-splits); a failure is only a warning.
Sharded(d) == {cluster[d]} \cup {"single", "chunks"}

\* CreateCollectionsFromConfig: the check looks into the database of the handle.
\* Creating one that exists is an error that is ignored without a drop, as is
\* every other then; sharding it is tried when the definition says so.
Created == IF setupDrop \/ cluster[ItemDb] = "absent" THEN "single" ELSE cluster[ItemDb]
CreateCollection ==
    /\ setupAt = "collections"
    /\ UNCHANGED <<setupDrop, shardMode, before, seeded, setupStopped>>
    /\ \/ /\ (~setupDrop /\ SetUp(Handle)) \/ (~setupDrop /\ setupStopped)
          /\ NextItem("indexes") /\ UNCHANGED <<cluster, indexed, seedVars>>
       \/ /\ setupDrop \/ ~SetUp(Handle)
          /\ ~setupStopped
          /\ \E c \in {Created} \cup (IF Mongos /\ WithShardConfig THEN {"chunks"} ELSE {}) :
                 cluster' = [cluster EXCEPT ![ItemDb] = c]
          /\ indexed' = IF setupDrop THEN indexed \ {ItemDb} ELSE indexed
          /\ NextItem("indexes") /\ UNCHANGED seedVars
       \/ /\ setupDrop
          /\ \/ UNCHANGED <<cluster, indexed>>
             \/ /\ ~setupStopped
                /\ cluster' = [cluster EXCEPT ![ItemDb] = "absent"]
                /\ indexed' = indexed \ {ItemDb}
          /\ FailSetup

\* CreateIndexesFromConfig, with the same check. createIndexes makes the
\* collection when it is missing.
CreateIndexes ==
    /\ setupAt = "indexes"
    /\ \/ /\ SetUp(Handle)
          /\ NextItem("seed") /\ UNCHANGED <<cluster, indexed, seedVars>>
       \/ /\ ~SetUp(Handle) /\ ~setupStopped
          /\ indexed' = indexed \cup {ItemDb}
          /\ cluster' = [cluster EXCEPT ![ItemDb] = IF @ = "absent" THEN "single" ELSE @]
          /\ NextItem("seed") /\ UNCHANGED seedVars
       \/ ~SetUp(Handle) /\ FailSetup /\ UNCHANGED <<cluster, indexed>>
    /\ UNCHANGED <<setupDrop, shardMode, before, seeded, setupStopped>>

-----------------------------------------------------------------------------
Writers == {v \in SeedWriters : v \notin writersLeft}
Cancelled == seedCause # ""
\* The number of writers is bounded by that of the batches.
Producing == setupAt = "seed" /\ generated < SeedCount /\ ~Cancelled
Batch == {p \in Positions : generated <= p /\ p < generated + SeedBatchSize}
UnchangedSetup == UNCHANGED <<setupDrop, shardMode, before, cluster, indexed, setupStopped>>

\* The channel has no buffer: a batch goes to a writer that waits for it. One
\* that is handed out although the context is cancelled is given up, and left out.
HandOut(v) ==
    /\ Producing /\ v \in Writers /\ writing[v] = {}
    /\ writing' = [writing EXCEPT ![v] = Batch]
    /\ generated' = generated + Cardinality(Batch)
    /\ UNCHANGED <<setupAt, item, seeded, writersLeft, totalInserted, seedCause>> /\ UnchangedSetup

\* A writer with a batch returns when the context was cancelled meanwhile.
GiveUp(v) ==
    /\ writing[v] # {} /\ Cancelled
    /\ writing' = [writing EXCEPT ![v] = {}] /\ writersLeft' = writersLeft \cup {v}
    /\ UNCHANGED <<setupAt, item, seeded, generated, totalInserted, seedCause>> /\ UnchangedSetup

InsertBatch(v) ==
    /\ writing[v] # {}
    /\ seeded' = [seeded EXCEPT ![ItemDb] = @ \cup writing[v]]
    /\ totalInserted' = totalInserted + Cardinality(writing[v])
    /\ writing' = [writing EXCEPT ![v] = {}]
    /\ UNCHANGED <<setupAt, item, generated, writersLeft, seedCause>> /\ UnchangedSetup

\* insertBatch fails after a part of the batch; the first cause stays.
InsertFails(v) ==
    /\ writing[v] # {}
    /\ \E n \in writing[v] :
           seeded' = [seeded EXCEPT ![ItemDb] = @ \cup {p \in writing[v] : p < n}]
    /\ seedCause' = IF Cancelled THEN seedCause ELSE "insert"
    /\ writing' = [writing EXCEPT ![v] = {}] /\ writersLeft' = writersLeft \cup {v}
    /\ UNCHANGED <<setupAt, item, generated, totalInserted>> /\ UnchangedSetup

\* The producer is done or sees the cancelled context, and every writer ended.
SeedResult(cause) ==
    /\ setupAt = "seed" /\ ~Producing /\ \A v \in SeedWriters : writing[v] = {}
    /\ IF cause # "" THEN FailSetup
       ELSE /\ NextItem("sharding")
            /\ generated' = 0 /\ writersLeft' = {} /\ totalInserted' = 0
            /\ UNCHANGED <<writing, seedCause>>
    /\ UNCHANGED seeded /\ UnchangedSetup

\* A plausible mistake: the result is the error of the context of the caller.
SeedEndsByCaller == SeedResult(IF setupStopped THEN "cancelled" ELSE "")
\* A plausible mistake: the producer only sends, and waits for a writer that left.
SeedEndsWhenAllSent == generated = SeedCount /\ SeedResult(seedCause)
SeedEnds == SeedResult(seedCause)

\* shouldApplyGenericSharding: to apply, not to, or an error.
ShardDecision ==
    LET mode == shardMode[1]
        bare == shardMode[2] /\ ~WithShardConfig
    IN  IF mode = "force_off" THEN "no"
        ELSE IF Mongos /\ ~bare THEN "yes"
        ELSE IF mode = "force_on" THEN "error" ELSE "no"

\* ensureGenericSharding, with the database of the definition. With force_on an
\* error (of the decision, or of the server) ends the run, else it is a warning.
EnsureSharding ==
    /\ setupAt = "sharding"
    /\ \/ /\ ShardDecision # "error" \/ shardMode[1] # "force_on"
          /\ \E c \in IF ShardDecision = "yes" /\ ~setupStopped
                         /\ (setupDrop \/ cluster[ItemDb] # "chunks")
                      THEN Sharded(ItemDb) ELSE {cluster[ItemDb]} :
                 cluster' = [cluster EXCEPT ![ItemDb] = c]
          /\ NextItem("ready") /\ UNCHANGED seedVars
       \/ /\ shardMode[1] = "force_on"
          /\ FailSetup /\ UNCHANGED cluster
    /\ UNCHANGED <<setupDrop, shardMode, before, indexed, seeded, setupStopped>>

\* The run is stopped. What is sent to the server is cancelled with it.
StopSetup ==
    /\ ~setupStopped /\ setupAt \notin {"ready", "failed"}
    /\ setupStopped' = TRUE
    /\ seedCause' = IF Cancelled THEN seedCause ELSE "cancelled"
    /\ UNCHANGED <<setupAt, item, setupDrop, shardMode, cluster, before, indexed, seeded, generated,
                   writing, writersLeft, totalInserted>>

SeedStep == \/ \E v \in SeedWriters : HandOut(v) \/ GiveUp(v) \/ InsertBatch(v) \/ InsertFails(v)
            \/ SeedEnds
SetupStep == CreateCollection \/ CreateIndexes \/ SeedStep \/ EnsureSharding
SNext == SetupStep \/ StopSetup
SSpec == SInit /\ [][SNext]_setupVars /\ WF_setupVars(SetupStep)

-----------------------------------------------------------------------------
\* A preparation that went well has inserted every document of every
\* definition, each counted once, whichever writer failed or was stopped when.
SeededMeansAll ==
    /\ setupAt \in {"sharding", "ready"} => \A d \in SetupDbs : seeded[d] = Positions
    /\ setupAt = "seed" => totalInserted <= Cardinality(seeded[ItemDb])

\* Also with writers that all failed the preparation ends.
SetupQuiet == setupAt \in {"ready", "failed"}
SetupReturns == []<>SetupQuiet
=============================================================================
