---------------------------- MODULE ReplayContract ----------------------------
(***************************************************************************)
(* What a replay promises (docs/record-and-replay.md, "Replay mode" and    *)
(* "Recording long runs"): each worker sends its recorded operations in    *)
(* order and once, an iteration begins only after every operation of the   *)
(* iterations before it finished, and a replay is called complete only     *)
(* when it sent all of them.                                               *)
(***************************************************************************)
EXTENDS Naturals

VARIABLES
    plan,     \* the operations to send: plan[o] has a worker and an iteration
    ran,      \* operations that were sent
    lost,     \* operations that were given up while they ran
    status    \* "none", "running", or how the replay ended

cvars == <<plan, ran, lost, status>>

CInit == ran = {} /\ lost = {} /\ status = "none"

Start == status = "none" /\ status' = "running" /\ UNCHANGED <<plan, ran, lost>>

\* Operation o may run now.
Due(o) ==
    /\ status = "running"
    /\ o \notin ran \cup lost
    /\ \A p \in DOMAIN plan :
           /\ p < o /\ plan[p].worker = plan[o].worker => p \in ran
           /\ plan[p].iter < plan[o].iter => p \in ran \cup lost

Run(o) == Due(o) /\ ran' = ran \cup {o} /\ UNCHANGED <<plan, lost, status>>

Lose(o) == Due(o) /\ lost' = lost \cup {o} /\ UNCHANGED <<plan, ran, status>>

Finish(how) ==
    /\ status = "running"
    /\ how = "complete" => ran = DOMAIN plan
    /\ status' = how
    /\ UNCHANGED <<plan, ran, lost>>

CNext ==
    \/ Start
    \/ \E o \in DOMAIN plan : Run(o) \/ Lose(o)
    \/ \E how \in {"complete", "cancelled", "failed"} : Finish(how)

CSpec == CInit /\ [][CNext]_cvars
=============================================================================
