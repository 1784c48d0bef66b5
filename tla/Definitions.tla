----------------------------- MODULE Definitions -----------------------------
(***************************************************************************)
(* The library of query definitions (internal/definitions/store.go and its *)
(* handlers).  An earlier release stored the keys of a multi-key sort      *)
(* alphabetically, so the order in such a definition (content version 1)   *)
(* must be confirmed before the definition is saved, copied or run.        *)
(* A client loads a definition, edits it, and submits it later.  Contents  *)
(* are the order of the sort and the rest; names are all different.        *)
(***************************************************************************)
EXTENDS Naturals, FiniteSets

CONSTANTS
    DefinitionIds,  \* bound: the ids; the least is stored by an earlier release
    Editors,        \* the clients
    Orders,         \* of the sort: "ab", "ba", and "single" for one key
    MaxSubmits,     \* bound: requests to save, copy or create
    MaxTicks,       \* bound: seconds that pass
    MaxBadSaves     \* bound: saves that fail

\* An editor that has loaded nothing has id 0.
ASSUME LibraryAssumption == DefinitionIds \subseteq Nat \ {0} /\ DefinitionIds # {}

Bodies == {1, 2}
Absent == [version |-> 0]
Legacy == CHOOSE i \in DefinitionIds : \A j \in DefinitionIds : i <= j

VARIABLES
    library,    \* s.data: id to definition
    stored,     \* the file
    clock,      \* the second that updatedAt holds
    editor,     \* editor[c]: the definition c loaded
    submits, badSaves,
    kept        \* definitions whose creation succeeded and that nobody deleted (history)

libraryVars == <<library, stored, clock, editor, submits, badSaves, kept>>

\* by, seen and sure are history: how the definition came about, the version
\* of what its editor had loaded, and whether someone vouched for its order.
Definition(order, body, by, seen, sure) ==
    [version |-> 2, order |-> order, body |-> body, at |-> clock,
     by |-> by, seen |-> seen, sure |-> sure]

DInit ==
    /\ library = [i \in DefinitionIds |->
                    IF i = Legacy THEN [version |-> 1, order |-> "ab", body |-> 1, at |-> 0,
                                        by |-> "legacy", seen |-> 1, sure |-> FALSE]
                    ELSE Absent]
    /\ stored = library /\ clock = 0 /\ submits = 0 /\ badSaves = 0
    /\ editor = [c \in Editors |-> [id |-> 0, def |-> Absent]]
    /\ kept = {Legacy}

Present(i) == library[i] # Absent

\* Get and List: a legacy definition with a multi-key sort needs review.
NeedsReview(d) == d.version = 1 /\ d.order # "single"

\* checkReviewedSorts: the order that is saved is the order that was confirmed.
ReviewedSorts(source, order, reviewed) ==
    NeedsReview(source) /\ order # "single" => reviewed = order

\* rejectDuplicateLocked, with id allowed.
IdenticalExists(order, body, id) ==
    \E i \in DefinitionIds \ {id} :
        Present(i) /\ library[i].order = order /\ library[i].body = body

\* Memory changes, then the file; a save that fails leaves the file behind.
Commit(new, succeeds) ==
    /\ library' = new
    /\ stored' = IF succeeds THEN new ELSE stored
    /\ badSaves' = IF succeeds THEN badSaves ELSE badSaves + 1
    /\ badSaves' <= MaxBadSaves

Get(c, i) ==
    /\ Present(i) /\ editor[c] # [id |-> i, def |-> library[i]]
    /\ editor' = [editor EXCEPT ![c] = [id |-> i, def |-> library[i]]]
    /\ UNCHANGED <<library, stored, clock, submits, badSaves, kept>>

Submit == submits < MaxSubmits /\ submits' = submits + 1 /\ UNCHANGED <<clock, editor>>

Vouched(c, order, reviewed) == reviewed = order \/ order = "single" \/ editor[c].def.sure

\* Mutant: the copy names its source without the content version.
CheckCopySourceByTime(c) ==
    LET e == editor[c] IN e.id # 0 /\ Present(e.id) /\ library[e.id].at = e.def.at

\* CheckCopySource: the source is still the version that was loaded.
CheckCopySource(c) ==
    LET e == editor[c]
    IN  /\ e.id # 0 /\ Present(e.id)
        /\ library[e.id].at = e.def.at /\ library[e.id].version = e.def.version

\* Create, of new content or of a copy.
Create(c, i, order, body, reviewed, copy, succeeds) ==
    /\ Submit
    /\ ~Present(i) /\ i \notin kept
    /\ copy => /\ CheckCopySource(c)
               /\ ReviewedSorts(library[editor[c].id], order, reviewed)
    /\ ~IdenticalExists(order, body, 0)
    /\ Commit([library EXCEPT ![i] =
                 IF copy THEN Definition(order, body, "copy", editor[c].def.version,
                                         Vouched(c, order, reviewed))
                 ELSE Definition(order, body, "create", 2, TRUE)], succeeds)
    /\ kept' = IF succeeds THEN kept \cup {i} ELSE kept

\* Update: what was loaded plays no part.
Update(c, order, body, reviewed, succeeds) ==
    LET i == editor[c].id
    IN  /\ Submit
        /\ i # 0 /\ Present(i)
        /\ ReviewedSorts(library[i], order, reviewed)
        /\ ~IdenticalExists(order, body, i)
        /\ Commit([library EXCEPT ![i] =
                     Definition(order, body, "update", editor[c].def.version,
                                Vouched(c, order, reviewed))], succeeds)
        /\ UNCHANGED kept

Delete(i, succeeds) ==
    /\ Present(i)
    /\ Commit([library EXCEPT ![i] = Absent], succeeds)
    /\ kept' = kept \ {i}
    /\ UNCHANGED <<clock, editor, submits>>

\* The process starts again: load.
Restart ==
    /\ library' = stored
    /\ library # stored
    /\ UNCHANGED <<stored, clock, editor, submits, badSaves, kept>>

Second ==
    /\ clock < MaxTicks /\ clock' = clock + 1
    /\ UNCHANGED <<library, stored, editor, submits, badSaves, kept>>

\* An editor keeps the order it loaded, or confirms one; a confirmation may be
\* of the order before the last edit.
DNext ==
    \/ \E c \in Editors, order \in Orders, body \in Bodies, reviewed \in {"none", "ab", "ba"},
          ok \in BOOLEAN :
          \/ \E i \in DefinitionIds, copy \in BOOLEAN : Create(c, i, order, body, reviewed, copy, ok)
          \/ Update(c, order, body, reviewed, ok)
    \/ \E c \in Editors, i \in DefinitionIds : Get(c, i)
    \/ \E i \in DefinitionIds, ok \in BOOLEAN : Delete(i, ok)
    \/ Restart \/ Second

DSpec == DInit /\ [][DNext]_libraryVars

\* /api/start refuses a definition that needs review (CheckSortOrder).
Runnable == {i \in DefinitionIds : Present(i) /\ ~NeedsReview(library[i])}

-----------------------------------------------------------------------------
DTypeOK ==
    /\ \A i \in DefinitionIds : Present(i) => library[i].version \in {1, 2} /\ library[i].order \in Orders
    /\ DOMAIN stored = DefinitionIds /\ clock \in 0..MaxTicks /\ kept \subseteq DefinitionIds
    /\ submits \in 0..MaxSubmits /\ badSaves \in 0..MaxBadSaves

\* No order of a definition that needed review gets into a copy of it that
\* runs unless someone confirmed that order, also when the source was
\* reviewed in the second it was loaded (CheckCopySource).
CopiesConfirmed ==
    \A i \in Runnable : library[i].by = "copy" /\ library[i].seen = 1 => library[i].sure

\* A definition that was acknowledged is in the file until someone deletes it,
\* whatever saves failed in between.
AcknowledgedSurvives == \A i \in kept : stored[i] # Absent

\* Both: a copy runs only in an order somebody confirmed, and no definition
\* that was acknowledged is lost (Create, CheckCopySource, saveLocked).
LibrarySound == CopiesConfirmed /\ AcknowledgedSurvives
=============================================================================
