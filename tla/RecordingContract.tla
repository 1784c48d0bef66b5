-------------------------- MODULE RecordingContract --------------------------
(***************************************************************************)
(* What a workload recording promises (the FailurePolicy and BlockPolicy   *)
(* texts of internal/workloadrec/format.go): at every moment it holds a    *)
(* prefix of every worker's operations, it grows by the next operation of  *)
(* one worker at a time, and it is called complete only when it holds      *)
(* every operation that was sent.                                          *)
(***************************************************************************)
EXTENDS Naturals, Sequences

CONSTANT Workers

VARIABLES
    sent,     \* sent[w]: number of operations worker w has sent to the server
    stored,   \* stored[w]: the operations of w the recording holds, by number
    status    \* "recording", "stopped", or how the recording ended

cvars == <<sent, stored, status>>

Open == status \in {"recording", "stopped"}

Ended == {"complete", "truncated", "failed", "crashed"}

CInit ==
    /\ sent = [w \in Workers |-> 0]
    /\ stored = [w \in Workers |-> << >>]
    /\ status = "recording"

\* A worker sends its next operation.
Send(w) ==
    /\ Open
    /\ sent' = [sent EXCEPT ![w] = @ + 1]
    /\ UNCHANGED <<stored, status>>

\* The recording takes the next operation of a worker, never skipping one.
Store(w) ==
    /\ Open
    /\ Len(stored[w]) < sent[w]
    /\ stored' = [stored EXCEPT ![w] = Append(@, Len(@) + 1)]
    /\ UNCHANGED <<sent, status>>

\* From here on the recording may end, but no longer as complete.
Stop ==
    /\ status = "recording"
    /\ status' = "stopped"
    /\ UNCHANGED <<sent, stored>>

Finish(how) ==
    /\ Open
    /\ how = "complete" => /\ status = "recording"
                           /\ \A w \in Workers : Len(stored[w]) = sent[w]
    /\ status' = how
    /\ UNCHANGED <<sent, stored>>

CNext ==
    \/ \E w \in Workers : Send(w) \/ Store(w)
    \/ Stop
    \/ \E how \in Ended : Finish(how)

CSpec == CInit /\ [][CNext]_cvars
=============================================================================
