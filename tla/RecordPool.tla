------------------------------ MODULE RecordPool ------------------------------
(***************************************************************************)
(* The documents of a generated workload (internal/mongo/runner.go,        *)
(* workload_exec.go, recordpool.go): producers fill one cache of documents *)
(* to insert, and a pool per namespace remembers documents so that         *)
(* operations find some.  An operation is sent to the server, and the pool *)
(* changes when its reply is there; other workers go on in between.        *)
(* A document is a number and the collection whose fields it has.          *)
(***************************************************************************)
EXTENDS Naturals, Sequences, FiniteSets, SequencesExt

CONSTANTS
    PoolWorkers, PoolCollections,
    CacheSize,      \* insert_cache_size
    PoolMaxSize,    \* record_pool_max_size
    MaxDocuments,   \* bound: documents that are generated
    MaxDeletes      \* bound: delete operations

ASSUME PoolAssumption ==
    IsFiniteSet(PoolCollections) /\ PoolMaxSize \in Nat \ {0}

VARIABLES
    insertCache, \* InsertDocumentCache
    pool,       \* rp.pools
    inDb,       \* the documents of each collection
    ever,       \* documents that were in a collection at some time (history)
    job,        \* what each worker does
    documents, deletes,   \* how many so far
    blurred,    \* documents whose record in the pool is not what is stored: fast
                \* inserts register the id alone, updates leave the pool as it is
    raced       \* documents deleted before they were registered, by a filter that
                \* does not find their record, or with an error for a reply (history)

poolVars == <<insertCache, pool, inDb, ever, job, documents, deletes, blurred, raced>>

IdleWorker == [op |-> "none"]

\* bootstrapRecordPool: the pool begins with documents of the collection.
PInit ==
    /\ insertCache = <<>> /\ documents = Cardinality(PoolCollections) /\ deletes = 0
    /\ raced = {} /\ blurred = {}
    /\ \E first \in [PoolCollections -> 1..Cardinality(PoolCollections)] :
          /\ IsInjective(first)
          /\ inDb = [c \in PoolCollections |-> {[n |-> first[c], of |-> c]}]
    /\ pool = [c \in PoolCollections |-> SetToSeq(inDb[c])]
    /\ ever = inDb
    /\ job = [w \in PoolWorkers |-> IdleWorker]

\* GenerateDocument for a collection.
Generated(c) == [n |-> documents + 1, of |-> c]

\* insertDocumentProducer: the producers of all collections share the cache.
Produce(c) ==
    /\ documents < MaxDocuments /\ Len(insertCache) < CacheSize
    /\ insertCache' = Append(insertCache, Generated(c)) /\ documents' = documents + 1
    /\ UNCHANGED <<pool, inDb, ever, job, deletes, blurred, raced>>

SetJob(w, j) == job' = [job EXCEPT ![w] = j]

\* generateInsertQuery: the cache first, and a new document if it is empty.
\* In a transaction the document is registered before the commit.
BeginInsert(w, c, op) ==
    /\ job[w] = IdleWorker /\ op \in {"insert", "fast", "transaction"}
    /\ IF insertCache # <<>> /\ op # "fast"
       THEN /\ SetJob(w, [op |-> op, col |-> c, doc |-> Head(insertCache), at |-> "send"])
            /\ insertCache' = Tail(insertCache) /\ UNCHANGED <<documents, blurred>>
       ELSE /\ documents < MaxDocuments /\ documents' = documents + 1 /\ UNCHANGED insertCache
            /\ SetJob(w, [op |-> op, col |-> c, doc |-> Generated(c), at |-> "send"])
            /\ blurred' = IF op = "fast" THEN blurred \cup {Generated(c)} ELSE blurred
    /\ UNCHANGED <<pool, inDb, ever, deletes, raced>>

StoredDocument(c, d) ==
    /\ inDb' = [inDb EXCEPT ![c] = @ \cup {d}]
    /\ ever' = [ever EXCEPT ![c] = @ \cup {d}]

\* A plausible mistake: the bound is checked before the record is there.
AddThenOver(records, d) ==
    LET kept == IF Len(records) > PoolMaxSize THEN Tail(records) ELSE records
    IN  Append(kept, d)

\* Add keeps the newest records.
Add(records, d) ==
    LET all == Append(records, d)
    IN  SubSeq(all, IF Len(all) > PoolMaxSize THEN Len(all) - PoolMaxSize + 1 ELSE 1, Len(all))

\* The server's reply; an error leaves open whether the document is stored.  A
\* fast insert takes write errors for success when no outcome is captured
\* (executeFastInsert).
InsertReply(w, ok) ==
    /\ job[w].op \in {"insert", "fast"} /\ job[w].at = "send"
    /\ StoredDocument(job[w].col, job[w].doc) \/ (~ok /\ UNCHANGED <<inDb, ever>>)
    /\ IF ok \/ job[w].op = "fast" THEN SetJob(w, [job[w] EXCEPT !.at = "register"])
       ELSE SetJob(w, IdleWorker)
    /\ UNCHANGED <<insertCache, pool, documents, deletes, blurred, raced>>

RegisterRecord(w) ==
    /\ job[w].op \in {"insert", "fast"} /\ job[w].at = "register"
    /\ pool' = [pool EXCEPT ![job[w].col] = Add(@, job[w].doc)]
    /\ SetJob(w, IdleWorker)
    /\ UNCHANGED <<insertCache, inDb, ever, documents, deletes, blurred, raced>>

\* executeTxInnerOp, then the commit, the abort, or another attempt.
TransactionInsert(w) ==
    /\ job[w].op = "transaction" /\ job[w].at = "send"
    /\ pool' = [pool EXCEPT ![job[w].col] = Add(@, job[w].doc)]
    /\ SetJob(w, [job[w] EXCEPT !.at = "commit"])
    /\ UNCHANGED <<insertCache, inDb, ever, documents, deletes, blurred, raced>>

TransactionEnds(w, commit) ==
    /\ job[w].op = "transaction" /\ job[w].at = "commit"
    /\ IF commit THEN StoredDocument(job[w].col, job[w].doc) ELSE UNCHANGED <<inDb, ever>>
    /\ SetJob(w, IdleWorker)
    /\ UNCHANGED <<insertCache, pool, documents, deletes, blurred, raced>>

\* An update at the server; the pool does not hear of it.
UpdateDocument(c) ==
    /\ \E d \in inDb[c] \ blurred : blurred' = blurred \cup {d}
    /\ UNCHANGED <<insertCache, pool, inDb, ever, job, documents, deletes, raced>>

\* recordMatchesFilter compares values and skips operators: a filter of
\* operators alone (or of nothing) matches every record, one with a range for a
\* value none; the others match the records of the documents filter.hits.
Matches(filter, d) ==
    \/ filter.kind \in {"operators", "empty"}
    \/ filter.kind \in {"id", "values"} /\ d \in filter.hits

\* A filter with those hits finds the same documents at the server, those
\* whose records tell the values: every record tells the id.
Finds(c, filter, found) ==
    CASE filter.kind = "id" -> found = filter.hits \cap inDb[c]
      [] filter.kind = "values" -> found \ blurred = (filter.hits \cap inDb[c]) \ blurred
      [] OTHER -> filter.hits = {}

DeleteKinds == {"id", "values", "operators", "range", "empty"}

\* Another worker is about to register the document.
Unregistered(w, d) ==
    \E v \in PoolWorkers \ {w} : job[v] # IdleWorker /\ job[v].op # "delete" /\ job[v].doc = d

\* The record of the document does not tell that the filter finds it.
Missed(filter, d) ==
    filter.kind \in {"range", "empty"} \/ (filter.kind = "values" /\ d \in blurred)

\* deleteOne and deleteMany at the server.  After an error the pool is not
\* changed, whatever the server did.
DeleteReply(w, c, ok) ==
    /\ job[w] = IdleWorker /\ deletes < MaxDeletes
    /\ deletes' = deletes + 1
    /\ \E filter \in [kind : DeleteKinds, hits : SUBSET ever[c]],
          found \in SUBSET inDb[c], gone \in SUBSET inDb[c] :
          /\ Finds(c, filter, found)
          /\ gone = found \/ (gone \subseteq found /\ Cardinality(gone) = 1)
          /\ inDb' = [inDb EXCEPT ![c] = @ \ gone]
          /\ IF ok
             THEN /\ SetJob(w, [op |-> "delete", col |-> c, filter |-> filter, gone |-> gone])
                  /\ raced' = raced \cup {d \in gone : Missed(filter, d) \/ Unregistered(w, d)}
             ELSE raced' = raced \cup gone /\ UNCHANGED job
    /\ UNCHANGED <<insertCache, pool, ever, documents, blurred>>

\* Mutant: one record is enough.
RemoveFirstMatching(w) ==
    /\ job[w].op = "delete"
    /\ LET c == job[w].col
           hit == {i \in DOMAIN pool[c] : Matches(job[w].filter, pool[c][i])}
       IN  pool' = [pool EXCEPT ![c] =
                      IF hit = {} THEN @ ELSE RemoveAt(@, CHOOSE i \in hit : \A j \in hit : i <= j)]
    /\ SetJob(w, IdleWorker)
    /\ UNCHANGED <<insertCache, inDb, ever, documents, deletes, blurred, raced>>

\* The records that do not match, in their order.
Remaining(records, filter) ==
    LET remaining[i \in 0..Len(records)] ==
            IF i = 0 THEN <<>>
            ELSE IF Matches(filter, records[i]) THEN remaining[i - 1]
            ELSE Append(remaining[i - 1], records[i])
    IN  remaining[Len(records)]

RemoveMatching(w) ==
    /\ job[w].op = "delete"
    /\ pool' = IF job[w].filter.kind = "empty" THEN pool
               ELSE [pool EXCEPT ![job[w].col] = Remaining(@, job[w].filter)]
    /\ SetJob(w, IdleWorker)
    /\ UNCHANGED <<insertCache, inDb, ever, documents, deletes, blurred, raced>>

PNext ==
    \/ \E c \in PoolCollections : Produce(c) \/ UpdateDocument(c)
    \/ \E w \in PoolWorkers, c \in PoolCollections :
          \/ \E ok \in BOOLEAN : DeleteReply(w, c, ok)
          \/ \E op \in {"insert", "fast", "transaction"} : BeginInsert(w, c, op)
    \/ \E w \in PoolWorkers :
          \/ RegisterRecord(w) \/ TransactionInsert(w) \/ RemoveMatching(w)
          \/ \E ok \in BOOLEAN : InsertReply(w, ok) \/ TransactionEnds(w, ok)

PSpec == PInit /\ [][PNext]_poolVars

-----------------------------------------------------------------------------
PTypeOK ==
    /\ Len(insertCache) <= CacheSize /\ deletes \in 0..MaxDeletes /\ documents \in 0..MaxDocuments
    /\ \A c \in PoolCollections : Len(pool[c]) <= PoolMaxSize /\ inDb[c] \subseteq ever[c]

\* A record of a document that was deleted leaves the pool with the delete
\* (RemoveMatching), however inserts, updates and deletes of several workers
\* mix.  Four deletes leave it behind: one before its insert was registered,
\* one whose reply is an error, one by no filter or by a range of values, and
\* one by the values of a document that was updated or inserted fast.
DeletedLeavePool ==
    \A c \in PoolCollections : \A d \in ever[c] \ (inDb[c] \cup raced) :
        (\E i \in DOMAIN pool[c] : pool[c][i] = d) =>
            \E w \in PoolWorkers : job[w].op = "delete" /\ d \in job[w].gone
=============================================================================
