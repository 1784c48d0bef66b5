------------------------------- MODULE MCReplay -------------------------------
(***************************************************************************)
(* Replay for TLC: two workers, a queue of one operation, and recordings   *)
(* in which the operations of a worker fill its queue, within an iteration *)
(* and before the next one begins.                                         *)
(***************************************************************************)
EXTENDS Replay

Op(w, k, it, write) ==
    [type |-> "op", worker |-> w, wseq |-> k, iter |-> it, write |-> write,
     ops |-> 0, status |-> "none"]

Trailer(how, n) ==
    [type |-> "trailer", worker |-> 0, wseq |-> 0, iter |-> 0, write |-> FALSE,
     ops |-> n, status |-> how]

TwoIterations ==
    << Op(1, 1, 1, FALSE), Op(1, 2, 1, TRUE), Op(2, 1, 1, FALSE), Op(2, 2, 2, TRUE),
       Op(1, 3, 2, FALSE) >>

OneIteration ==
    << Op(1, 1, 0, FALSE), Op(1, 2, 0, TRUE), Op(1, 3, 0, FALSE), Op(2, 1, 0, FALSE) >>

Setup(file, header, matches, allow, timed, readsOnly) ==
    [lines |-> file, iterations |-> header, matches |-> matches, allow |-> allow,
     timed |-> timed, readsOnly |-> readsOnly]

MCSetups ==
    UNION {
        {Setup(Append(TwoIterations, Trailer("complete", 5)), 2, TRUE, FALSE, timed, FALSE) :
            timed \in BOOLEAN},
        {Setup(Append(TwoIterations, Trailer("truncated", 5)), 2, TRUE, FALSE, TRUE, TRUE)},
        {Setup(Append(OneIteration, Trailer("complete", 4)), 0, matches, TRUE, FALSE, readsOnly) :
            matches, readsOnly \in BOOLEAN},
        {Setup(TwoIterations, 2, TRUE, allow, FALSE, FALSE) : allow \in BOOLEAN}}
=============================================================================
