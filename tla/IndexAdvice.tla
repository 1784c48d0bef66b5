---------------------------- MODULE IndexAdvice ----------------------------
(* Index advice for a query shape (internal/stats/index_advice.go): roles of  *)
(* the fields of its filter, a candidate of equality, sort and range keys,    *)
(* and the deployed indexes that already serve it. A filter is a set of       *)
(* conditions [field, op, value], a key is [field, dir] with a Hashed or      *)
(* Special dir; an index is [keys, hidden, simple, isPartial, partial,        *)
(* multikey], partial the conditions of its filter as the server has them.    *)
EXTENDS Integers, Sequences, FiniteSets, SequencesExt

Asc == 1 
Desc == -1
Hashed == 0
Special == 2
Btree(k) == k.dir \in {Asc, Desc}

\* A document of keys names each field once.
KeySpecs(dirs) ==
    {keys \in Seq([field : STRING, dir : dirs]) :
        \A i, j \in DOMAIN keys : keys[i].field = keys[j].field => i = j}
IndexKeys == KeySpecs({Asc, Desc, Hashed, Special})
SortKeys  == KeySpecs({Asc, Desc})

FieldsOf(keys) == {keys[i].field : i \in DOMAIN keys}

\* ProfileQuery of a filter and a sort (of a pipeline; a find has none); the order of a sort of several keys is
\* known only when it was captured as a document. NoValue is not canonical.
NoValue == "none"
ProfileQuery(filter, sort, ordered) ==
    LET EqualTo == {c \in filter : c.op = "eq" /\ c.value # NoValue} IN
    [eq     |-> {c.field : c \in EqualTo} \cup {c.field : c \in {x \in filter : x.op = "in"}},
     values |-> {<<c.field, c.value>> : c \in EqualTo},
     ranges |-> {c.field : c \in {x \in filter : x.op = "range"}},
     sort   |-> IF Len(sort) > 1 /\ ~ordered THEN <<>> ELSE sort,
     unsupported |-> \/ Len(sort) > 1 /\ ~ordered
                     \/ \E c \in filter : c.op = "other" \/ (c.op = "eq" /\ c.value = NoValue)]

-----------------------------------------------------------------------------
AtMostOne(S) == \A f, g \in S : f = g

\* The keys of other fields than the fixed ones, in order.
Rest(keys, fixed) ==
    LET rest[n \in 0..Len(keys)] ==
            IF n = 0 THEN <<>>
            ELSE IF keys[n].field \in fixed THEN rest[n - 1]
            ELSE Append(rest[n - 1], keys[n])
    IN  rest[Len(keys)]

\* orderEquality without measured selectivity: one field has an order.
EqualityOrdered(p) == AtMostOne(p.eq)

\* deriveCandidate: the one range field, if any, that a candidate places.
PlacedRange(p) ==
    IF AtMostOne(p.ranges) THEN p.ranges ELSE p.ranges \cap FieldsOf(p.sort)

\* Of several range fields, none or more than one is a key of the sort.
MultipleRanges(p) == ~AtMostOne(p.ranges) /\ (PlacedRange(p) = {} \/ ~AtMostOne(PlacedRange(p)))

Reason(p) ==
    IF p.unsupported THEN "unsupported_pattern"
    ELSE IF MultipleRanges(p) THEN "multiple_ranges"
    ELSE IF ~EqualityOrdered(p) THEN "equality_order_undetermined"
    ELSE "equality_sort_range"

\* Keys in order: equality, then the sort keys not among them, then the range.
CandidateKeys(p) ==
    LET KeyOf(S) == IF S = {} THEN <<>> ELSE <<[field |-> CHOOSE f \in S : TRUE, dir |-> Asc]>>
    IN  KeyOf(p.eq) \o Rest(p.sort, p.eq) \o KeyOf(PlacedRange(p) \ (p.eq \cup FieldsOf(p.sort)))

DeriveCandidate(p) ==
    [reason |-> Reason(p), determined |-> Reason(p) = "equality_sort_range", eq |-> p.eq,
     keys |-> IF Reason(p) = "equality_sort_range" THEN CandidateKeys(p) ELSE <<>>]

-----------------------------------------------------------------------------
Flip(keys) ==
    [i \in DOMAIN keys |-> IF Btree(keys[i]) THEN [keys[i] EXCEPT !.dir = -@] ELSE keys[i]]

\* Mutant: each key may be read in its own direction.
ForwardAnyDirection(keys, eq, tail) ==
    LET n == Cardinality(eq) IN
    /\ Len(keys) >= n + Len(tail)
    /\ \A i \in 1..n + Len(tail) : Btree(keys[i])
    /\ FieldsOf(SubSeq(keys, 1, n)) = eq
    /\ \A i \in DOMAIN tail : keys[n + i].field = tail[i].field

\* sameFieldNames of the first keys and the equality fields; the tail in order.
Forward(keys, eq, tail) ==
    LET n == Cardinality(eq) IN
    /\ Len(keys) >= n + Len(tail)
    /\ \A i \in 1..n + Len(tail) : Btree(keys[i])
    /\ FieldsOf(SubSeq(keys, 1, n)) = eq
    /\ SubSeq(keys, n + 1, n + Len(tail)) = tail

\* leadingSetAndTail, keysServe: the index from either end.
EitherWay(keys, eq, tail) == Forward(keys, eq, tail) \/ Forward(Flip(keys), eq, tail)

TailOf(plan, p) ==
    IF plan.determined THEN SubSeq(plan.keys, Cardinality(plan.eq) + 1, Len(plan.keys)) ELSE p.sort

IndexCouldServe(idx, plan, p) ==
    \/ /\ plan.determined /\ Len(plan.keys) = 1 /\ Cardinality(plan.eq) = 1
       /\ idx.keys = <<[field |-> plan.keys[1].field, dir |-> Hashed]>>
    \/ plan.determined /\ plan.keys # <<>> /\ EitherWay(idx.keys, plan.eq, TailOf(plan, p))
    \/ plan.reason = "equality_order_undetermined" /\ EitherWay(idx.keys, plan.eq, TailOf(plan, p))

\* decodePartialFilter: logical operators of the filter of a partial index are
\* left out, and plain values ("eq") without a canonical form.
DecodePartialFilter(conditions) ==
    {c \in conditions : c.op # "logical" /\ ~(c.op = "eq" /\ c.value = NoValue)}

\* An equality that the query has too.
ImpliedBy(p, c) == c.op \in {"eq", "$eq"} /\ <<c.field, c.value>> \in p.values

\* Mutant: nothing that was decoded is nothing to prove.
NothingToProve(idx, p) ==
    ~idx.isPartial \/ \A c \in DecodePartialFilter(idx.partial) : ImpliedBy(p, c)

\* partialProven: something was decoded, and each of it is implied.
PartialProven(idx, p) ==
    \/ ~idx.isPartial
    \/ /\ DecodePartialFilter(idx.partial) # {}
       /\ \A c \in DecodePartialFilter(idx.partial) : ImpliedBy(p, c)

\* multikeyBlocks, of a candidate with an order to provide, or a compound index.
MultikeyBlocks(idx, plan) ==
    idx.multikey = TRUE /\ (Len(plan.keys) > Cardinality(plan.eq) \/ Len(idx.keys) > 1)

SharesField(idx, plan) == FieldsOf(idx.keys) \cap (plan.eq \cup FieldsOf(plan.keys)) # {}

SpecialType(idx) ==
    \E i \in DOMAIN idx.keys :
        idx.keys[i].dir = Special \/ (idx.keys[i].dir = Hashed /\ Len(idx.keys) > 1)

EvaluateIndex(idx, plan, p) ==
    IF ~IndexCouldServe(idx, plan, p)
    THEN IF ~SharesField(idx, plan) THEN "not_a_prefix"
         ELSE IF SpecialType(idx) THEN "unsupported_type" ELSE "shared_field_only"
    ELSE IF idx.hidden THEN "hidden"
    ELSE IF ~idx.simple THEN "collation"
    ELSE IF ~PartialProven(idx, p) THEN "partial_not_proven"
    ELSE IF MultikeyBlocks(idx, plan) THEN "multikey"
    ELSE "suitable"

\* matchInventory: the first suitable index, or none.
Suitable(inventory, plan, p) ==
    LET ok == {i \in DOMAIN inventory : EvaluateIndex(inventory[i], plan, p) = "suitable"}
    IN  IF ok = {} THEN {} ELSE {CHOOSE i \in ok : \A j \in ok : i <= j}

\* adviseShape and planIgnoredIndex: an explained plan that scanned the
\* collection without the index turns it into a candidate again.
AdviceKind(plannerOnly, fetched, inventory, ignored, p) ==
    LET plan  == DeriveCandidate(p)
        match == IF fetched /\ (plan.determined \/ plan.reason = "equality_order_undetermined")
                 THEN Suitable(inventory, plan, p) ELSE {}
    IN  IF plannerOnly THEN "measure"
        ELSE IF match # {} /\ ~ignored THEN "existing_index"
        ELSE IF match # {} \/ plan.determined THEN "candidate"
        ELSE "investigate"

-----------------------------------------------------------------------------
(* What serving a query means, independent of how the advice is derived.   *)

Starts(keys, order) ==
    Len(order) <= Len(keys) /\ \A i \in DOMAIN order : keys[i] = order[i]

\* An order that reads the index from one end, after the fixed equality keys.
ProvidesOrder(keys, fixed, sort) ==
    \/ Starts(Rest(keys, fixed), Rest(sort, fixed))
    \/ Starts(Rest(Flip(keys), fixed), Rest(sort, fixed))

\* Its first keys have all equality fields, and it provides the order without
\* a sort.
Answers(idx, p) ==
    /\ ~idx.hidden /\ idx.simple
    /\ \E n \in 0..Len(idx.keys) : FieldsOf(SubSeq(idx.keys, 1, n)) = p.eq
    /\ \E i \in DOMAIN idx.keys : idx.keys[i].field \in p.eq \cup p.ranges \cup FieldsOf(p.sort)
    /\ ProvidesOrder(idx.keys, p.eq, p.sort)

\* Whatever the query matches, the filter of a partial index lets in.
Includes(idx, p) == idx.isPartial => idx.partial # {} /\ \A c \in idx.partial : ImpliedBy(p, c)

\* Nothing of its filter was left out.
DecodedWhole(idx) == DecodePartialFilter(idx.partial) = idx.partial
=============================================================================
