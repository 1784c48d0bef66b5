---------------------------- MODULE ExplainJobs ----------------------------
(* The post-run explain commands: a dispatcher hands jobs over an unbuffered *)
(* channel to workers, each with its own connections; timeouts are repeated  *)
(* with more time, and a new run cancels the explains it knows of.          *)
EXTENDS Integers, Sequences, FiniteSets

CONSTANTS
    ExplainWorkers,
    JobDatabase,    \* the database of each job, a sequence
    Retries,        \* insights_explain_retries
    BaseTimes,      \* the time limits that may be configured; nothing clamps them
    TopTime         \* up to where a repetition doubles the limit (60000 ms)

ASSUME ExplainAssumption ==
    /\ JobDatabase \in Seq(STRING)
    /\ Retries \in Nat /\ BaseTimes \subseteq Nat \ {0} /\ TopTime \in Nat

VARIABLES
    build,          \* finalInsightsReport: "idle", "read", "explaining" or "done"
    newRun,         \* IsRunning
    knownCancel,    \* the cancel function is in s.explainCancels
    explainDone,    \* the context of the explains is cancelled
    dispatched, channelClosed,
    hand,           \* hand[w]: where worker w is, with its job, attempt and time limit
    connections,    \* connections[w]: the databases w is connected to
    evidence,       \* the result of each job
    answers,        \* the limits and results of the commands of each job (history)
    strays          \* commands sent while a run was active (history)

xvars == <<build, newRun, knownCancel, explainDone, dispatched, channelClosed, hand,
           connections, evidence, answers, strays>>

Jobs == DOMAIN JobDatabase
Statuses == {"explained", "timed_out", "execution_failed", "cancelled"}
NoEvidence == [status |-> "none", attempts |-> 0]
Idle == [at |-> "idle", job |-> 0, attempt |-> 0, limit |-> 0]
Places == {"idle", "take", "try", "sent", "backoff", "gone"}

XTypeOK ==
    /\ build \in {"idle", "read", "explaining", "done"}
    /\ newRun \in BOOLEAN /\ knownCancel \in BOOLEAN /\ explainDone \in BOOLEAN
    /\ dispatched \in 0..Len(JobDatabase)
    /\ channelClosed \in BOOLEAN
    /\ hand \in [ExplainWorkers -> [at : Places, job : Jobs \cup {0},
                                attempt : 0..Retries,
                                limit : 0..TopTime \cup BaseTimes]]
    /\ connections \in [ExplainWorkers -> SUBSET {JobDatabase[j] : j \in Jobs}]
    /\ evidence \in [Jobs -> [status : Statuses \cup {"none"}, attempts : 0..Retries + 1]]
    /\ \A j \in Jobs : \A i \in DOMAIN answers[j] : answers[j][i].status \in Statuses
    /\ strays \in Nat

XInit ==
    /\ build = "idle" /\ newRun = FALSE /\ knownCancel = FALSE /\ explainDone = FALSE
    /\ dispatched = 0 /\ channelClosed = FALSE
    /\ hand = [w \in ExplainWorkers |-> Idle]
    /\ connections = [w \in ExplainWorkers |-> {}]
    /\ evidence = [j \in Jobs |-> NoEvidence]
    /\ answers = [j \in Jobs |-> <<>>]
    /\ strays = 0

-----------------------------------------------------------------------------
(* finalInsightsReport reads the state under the lock, gives it up, builds  *)
(* the report and only then registers the cancel function.                  *)

ReadState ==
    /\ build = "idle" /\ ~newRun
    /\ build' = "read"
    /\ UNCHANGED <<newRun, knownCancel, explainDone, dispatched, channelClosed, hand,
                   connections, evidence, answers, strays>>

\* handleStart: cancelExplainsLocked and IsRunning in one critical section.
StartRun ==
    /\ ~newRun
    /\ newRun' = TRUE
    /\ explainDone' = (explainDone \/ knownCancel)
    /\ UNCHANGED <<build, knownCancel, dispatched, channelClosed, hand, connections, evidence,
                   answers, strays>>

RegisterCancel ==
    /\ build = "read"
    /\ build' = "explaining" /\ knownCancel' = TRUE
    /\ UNCHANGED <<newRun, explainDone, dispatched, channelClosed, hand, connections, evidence,
                   answers, strays>>

-----------------------------------------------------------------------------
(* The dispatcher. When the context is done and a worker waits, the select  *)
(* may take either branch.                                                  *)

Dispatch(w) ==
    /\ build = "explaining" /\ ~channelClosed /\ dispatched < Len(JobDatabase)
    /\ hand[w].at = "idle"
    /\ dispatched' = dispatched + 1
    /\ hand' = [hand EXCEPT ![w] = [Idle EXCEPT !.at = "take", !.job = dispatched + 1]]
    /\ UNCHANGED <<build, newRun, knownCancel, explainDone, channelClosed, connections,
                   evidence, answers, strays>>

CloseWork ==
    /\ build = "explaining" /\ ~channelClosed
    /\ dispatched = Len(JobDatabase) \/ explainDone
    /\ channelClosed' = TRUE
    /\ UNCHANGED <<build, newRun, knownCancel, explainDone, dispatched, hand, connections,
                   evidence, answers, strays>>

\* wg.Wait, then the jobs that were never handed over.
ReturnJobs ==
    /\ build = "explaining" /\ channelClosed
    /\ \A w \in ExplainWorkers : hand[w].at = "gone"
    /\ evidence' = [j \in Jobs |->
            IF j > dispatched THEN [status |-> "cancelled", attempts |-> 0] ELSE evidence[j]]
    /\ build' = "done" /\ knownCancel' = FALSE
    /\ UNCHANGED <<newRun, explainDone, dispatched, channelClosed, hand, connections, answers, strays>>

-----------------------------------------------------------------------------
(* A worker                                                                 *)

Answer(w, status, attempts) ==
    /\ evidence' = [evidence EXCEPT ![hand[w].job] = [status |-> status, attempts |-> attempts]]
    /\ hand' = [hand EXCEPT ![w] = Idle]

\* A connection is made once for each database of a worker.  The first limit is
\* the configured one, whichever that is.
TakeJob(w) ==
    LET db == JobDatabase[hand[w].job]
    IN  /\ hand[w].at = "take"
        /\ \/ explainDone /\ Answer(w, "cancelled", 0) /\ UNCHANGED connections
           \/ /\ ~explainDone /\ db \notin connections[w]
              /\ Answer(w, "execution_failed", 0) /\ UNCHANGED connections
           \/ /\ ~explainDone
              /\ connections' = [connections EXCEPT ![w] = @ \cup {db}]
              /\ \E base \in BaseTimes :
                    hand' = [hand EXCEPT ![w] = [@ EXCEPT !.at = "try", !.limit = base]]
              /\ UNCHANGED evidence
        /\ UNCHANGED <<build, newRun, knownCancel, explainDone, dispatched, channelClosed,
                       answers, strays>>

\* The context is looked at before every command.
Try(w) ==
    /\ hand[w].at = "try"
    /\ IF explainDone
       THEN Answer(w, "cancelled", hand[w].attempt) /\ UNCHANGED strays
       ELSE /\ hand' = [hand EXCEPT ![w].at = "sent"]
            /\ strays' = strays + (IF newRun THEN 1 ELSE 0)
            /\ UNCHANGED evidence
    /\ UNCHANGED <<build, newRun, knownCancel, explainDone, dispatched, channelClosed,
                   connections, answers>>

\* The end of a command. With a done context an error is a cancellation; a
\* result that was there already counts.
Settle(w, status, again) ==
    LET h == hand[w]
    IN  /\ h.at = "sent"
        /\ status = "cancelled" => explainDone
        /\ status \in {"timed_out", "execution_failed"} => ~explainDone
        /\ answers' = [answers EXCEPT ![h.job] = Append(@, [status |-> status, limit |-> h.limit])]
        /\ IF again /\ h.attempt < Retries
           THEN hand' = [hand EXCEPT ![w].at = "backoff"] /\ UNCHANGED evidence
           ELSE Answer(w, status, h.attempt + 1)
        /\ UNCHANGED <<build, newRun, knownCancel, explainDone, dispatched, channelClosed,
                       connections, strays>>

\* A plausible mistake: a failed command is repeated as well.
CommandEndsRetrying(w) == \E status \in Statuses : Settle(w, status, status \in {"timed_out", "execution_failed"})
CommandEnds(w) == \E status \in Statuses : Settle(w, status, status = "timed_out")

\* Twice the time up to the cap; a limit configured above the cap stays.
Longer(limit) ==
    IF limit >= TopTime THEN limit ELSE IF 2 * limit > TopTime THEN TopTime ELSE 2 * limit

Wait(w) ==
    LET h == hand[w]
    IN  /\ h.at = "backoff"
        /\ \/ explainDone /\ Answer(w, "cancelled", h.attempt + 1)
           \/ /\ hand' = [hand EXCEPT ![w] =
                    [h EXCEPT !.at = "try", !.attempt = @ + 1,
                              !.limit = Longer(@)]]
              /\ UNCHANGED evidence
        /\ UNCHANGED <<build, newRun, knownCancel, explainDone, dispatched, channelClosed,
                       connections, answers, strays>>

\* The channel is closed and drained; the deferred function disconnects.
Leave(w) ==
    /\ hand[w].at = "idle" /\ channelClosed
    /\ hand' = [hand EXCEPT ![w].at = "gone"]
    /\ connections' = [connections EXCEPT ![w] = {}]
    /\ UNCHANGED <<build, newRun, knownCancel, explainDone, dispatched, channelClosed, evidence,
                   answers, strays>>

\* A plausible mistake: the workers wait for a channel nobody closes.
LeaveAfterAll(w) == dispatched = Len(JobDatabase) /\ Leave(w)
WorkerLeaves(w) == Leave(w)

ExplainStep(w) == TakeJob(w) \/ Try(w) \/ CommandEnds(w) \/ Wait(w) \/ WorkerLeaves(w)
HandOver == \E w \in ExplainWorkers : Dispatch(w)

XNext ==
    \/ ReadState \/ StartRun \/ RegisterCancel \/ HandOver \/ CloseWork \/ ReturnJobs
    \/ \E w \in ExplainWorkers : ExplainStep(w)

\* The server answers or the command's context expires, so every step of a
\* goroutine is taken in the end.
XFairness ==
    /\ WF_xvars(RegisterCancel) /\ WF_xvars(HandOver) /\ WF_xvars(CloseWork) /\ WF_xvars(ReturnJobs)
    /\ \A w \in ExplainWorkers : WF_xvars(ExplainStep(w))

XSpec == XInit /\ [][XNext]_xvars /\ XFairness

-----------------------------------------------------------------------------
(* When the explains return, every job has a result, the attempts reported  *)
(* are the commands that were sent, and no connection is left open          *)
(* (runExplainJobsConcurrently).                                            *)
JobsAnswered ==
    build = "done" =>
        \A j \in Jobs : evidence[j].status # "none" /\ evidence[j].attempts = Len(answers[j])
                        /\ \A w \in ExplainWorkers : connections[w] = {}

\* Only a timeout is followed by another command, which never gets less time,
\* gets more below the cap, and gets more than the cap only if the limit that
\* was configured is above it ("retries only timeouts, doubling the server time
\* budget up to 60s").
OnlyTimeoutsRepeated ==
    \A j \in Jobs : \A i \in 1..Len(answers[j]) - 1 :
        LET before == answers[j][i]
            next == answers[j][i + 1]
        IN  /\ before.status = "timed_out"
            /\ IF before.limit < TopTime THEN before.limit < next.limit /\ next.limit <= TopTime
               ELSE next.limit = before.limit

\* Both: every job is answered, and repeated for nothing but a timeout.
ExplainsAccounted == JobsAnswered /\ OnlyTimeoutsRepeated

\* The explains come to an end, also when a start cancels them.
ExplainsQuiet == build # "explaining"
ExplainsReturn == []<>ExplainsQuiet

\* "explainCancels stop in-flight post-run explains when a new run starts":
\* no explain command is sent while a run is active.
StartStopsExplains == strays = 0
=============================================================================
