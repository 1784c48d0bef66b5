----------------------------- MODULE MultiTarget -----------------------------
(***************************************************************************)
(* A run on several instances (internal/multitarget/multitarget.go, the    *)
(* Web UI's hooks in internal/webui/multi_target.go and the samples of     *)
(* internal/webui/chart_sampler.go).  Targets are prepared one at a time;  *)
(* their workloads run one after another or at once; then every target is  *)
(* compared with the first one by the outcome files.                       *)
(***************************************************************************)
EXTENDS Naturals, FiniteSets

CONSTANT TargetCount

ASSUME TargetAssumption == TargetCount \in Nat \ {0}

Targets == 1..TargetCount
Modes == {"sequential", "concurrent"}
Finished == {"complete", "failed", "cancelled", "incomplete"}
ComparedWith == [t \in 2..TargetCount |-> "no"]

VARIABLES
    mode,           \* p.Mode
    planAt,         \* the step of Plan.Run, and the target it is at
    status,         \* t.status
    client,         \* the client of each target: "none", "open" or "closed"
    work,           \* the workload of each target: "none", "due", "on", "over"
    outcomes,       \* the outcome file: "none", "earlier" (of an earlier run) or "this"
    traffic,        \* the fingerprint a target reports; "" for none, and for another
    stopAsked,      \* the context is cancelled
    shown,          \* s.CurrentStats
    refInsights,    \* s.multiTargetRefInsights
    finals,         \* final chart samples of each target (s.sampler.finalized)
    comparisons, fingerprintsMatch,
    verdict         \* the phase at the end; "crashed" is "failed" by a panic of the plan

targetVars == <<status, client, work, outcomes, traffic>>
planVars   == <<mode, planAt, targetVars, stopAsked, shown, refInsights, finals, comparisons,
                fingerprintsMatch, verdict>>

\* NewPlan and startMultiTarget; outcome files of an earlier run may be there.
MInit ==
    /\ mode \in Modes
    /\ planAt = [step |-> "prepare", target |-> 1]
    /\ status = [t \in Targets |-> "pending"]
    /\ client = [t \in Targets |-> "none"]
    /\ work = [t \in Targets |-> "none"]
    /\ outcomes \in {[t \in Targets |-> old] : old \in {"none", "earlier"}}
    /\ traffic = [t \in Targets |-> ""]
    /\ stopAsked = FALSE /\ shown = 1 /\ refInsights = "none"
    /\ finals = [t \in Targets |-> 0]
    /\ comparisons = ComparedWith /\ fingerprintsMatch = "unset" /\ verdict = "none"

Step(step, t) == planAt' = [step |-> step, target |-> t]

Is(step, t) == planAt = [step |-> step, target |-> t]

\* After target t: the next one, or the step that follows the loop.
AfterTarget(t) ==
    IF t < TargetCount THEN Step("prepare", t + 1)
    ELSE Step(IF mode = "concurrent" THEN "launch" ELSE "compare", 0)

SetStatus(t, s) == status' = [status EXCEPT ![t] = s]

\* fail: an error of the cancelled context counts as cancelled.
FailedOr(s) == s = "failed" \/ (stopAsked /\ s = "cancelled")

Refuse(t) ==
    /\ Is("prepare", t) /\ status[t] = "pending" /\ stopAsked
    /\ SetStatus(t, "cancelled") /\ AfterTarget(t)
    /\ UNCHANGED <<mode, client, work, outcomes, traffic, stopAsked, shown, refInsights, finals,
                   comparisons, fingerprintsMatch, verdict>>

Prepare(t) ==
    /\ Is("prepare", t) /\ status[t] = "pending" /\ ~stopAsked
    /\ SetStatus(t, "preparing")
    /\ UNCHANGED <<mode, planAt, client, work, outcomes, traffic, stopAsked, shown, refInsights,
                   finals, comparisons, fingerprintsMatch, verdict>>

\* Connect or Prepare fails; the client is closed if there is one.
PrepareFails(t) ==
    /\ Is("prepare", t) /\ status[t] = "preparing"
    /\ \E s \in Finished : FailedOr(s) /\ SetStatus(t, s)
    /\ \E c \in {"none", "closed"} : client' = [client EXCEPT ![t] = c]
    /\ AfterTarget(t)
    /\ UNCHANGED <<mode, work, outcomes, traffic, stopAsked, shown, refInsights, finals,
                   comparisons, fingerprintsMatch, verdict>>

\* Mutant: a concurrent target starts as soon as it is prepared.
PreparedAtOnce(t) ==
    /\ Is("prepare", t) /\ status[t] = "preparing"
    /\ client' = [client EXCEPT ![t] = "open"]
    /\ work' = [work EXCEPT ![t] = "due"]
    /\ IF mode = "sequential" THEN Step("run", t) ELSE AfterTarget(t)
    /\ UNCHANGED <<mode, status, outcomes, traffic, stopAsked, shown, refInsights, finals,
                   comparisons, fingerprintsMatch, verdict>>

Prepared(t) ==
    /\ Is("prepare", t) /\ status[t] = "preparing"
    /\ client' = [client EXCEPT ![t] = "open"]
    /\ IF mode = "sequential" THEN Step("run", t) /\ work' = [work EXCEPT ![t] = "due"]
       ELSE AfterTarget(t) /\ UNCHANGED work
    /\ UNCHANGED <<mode, status, outcomes, traffic, stopAsked, shown, refInsights, finals,
                   comparisons, fingerprintsMatch, verdict>>

\* A goroutine for every target with a client.
LaunchAll ==
    /\ Is("launch", 0)
    /\ work' = [t \in Targets |-> IF client[t] = "open" THEN "due" ELSE work[t]]
    /\ Step("wait", 0)
    /\ UNCHANGED <<mode, status, client, outcomes, traffic, stopAsked, shown, refInsights, finals,
                   comparisons, fingerprintsMatch, verdict>>

\* run; OnChange shows the target when they run one after another.
BeginTarget(t) ==
    /\ work[t] = "due"
    /\ work' = [work EXCEPT ![t] = "on"]
    /\ SetStatus(t, "running")
    /\ shown' = IF mode = "sequential" THEN t ELSE shown
    /\ UNCHANGED <<mode, planAt, client, outcomes, traffic, stopAsked, refInsights, finals,
                   comparisons, fingerprintsMatch, verdict>>

\* RunWorkload opens the outcome file of the target (openOutcomeFile).
OpenOutcomes(t) ==
    /\ work[t] = "on" /\ outcomes[t] # "this"
    /\ outcomes' = [outcomes EXCEPT ![t] = "this"]
    /\ UNCHANGED <<mode, planAt, status, client, work, traffic, stopAsked, shown, refInsights,
                   finals, comparisons, fingerprintsMatch, verdict>>

\* The workload returns: with an error, or with the status of the replay or
\* of the traffic, which is cancelled if it is complete and the plan was stopped.
RunEnds(t, error) ==
    /\ work[t] = "on"
    /\ IF error THEN \E s \in Finished : FailedOr(s) /\ SetStatus(t, s)
       ELSE \E s \in Finished :
                /\ SetStatus(t, IF stopAsked /\ s = "complete" THEN "cancelled" ELSE s)
                /\ outcomes[t] = "this" \/ stopAsked
    /\ \E f \in {"", "same"} : traffic' = [traffic EXCEPT ![t] = f]
    /\ work' = [work EXCEPT ![t] = "over"]
    /\ client' = [client EXCEPT ![t] = "closed"]
    /\ refInsights' = IF t = 1 THEN "of the run" ELSE refInsights
    /\ IF mode = "sequential" THEN AfterTarget(t) ELSE UNCHANGED planAt
    /\ UNCHANGED <<mode, outcomes, stopAsked, shown, finals, comparisons, fingerprintsMatch,
                   verdict>>

\* A panic that ends the plan at target t: only the goroutine of the run
\* recovers it, so the status of the targets stays as it is.
Crash(t) == Step("ended", t) /\ verdict' = "crashed" /\ UNCHANGED status

\* A panic while target t works: its client is closed (defer); the goroutine of
\* a concurrent target recovers it, otherwise it ends the plan.
Panic(t) ==
    /\ work[t] = "on"
    /\ work' = [work EXCEPT ![t] = "over"]
    /\ client' = [client EXCEPT ![t] = "closed"]
    /\ IF mode = "concurrent"
       THEN SetStatus(t, "failed") /\ UNCHANGED <<planAt, verdict>>
       ELSE Crash(t)
    /\ UNCHANGED <<mode, outcomes, traffic, stopAsked, shown, refInsights, finals, comparisons,
                   fingerprintsMatch>>

\* A panic while target t is prepared: nothing is deferred there, so the client
\* stays open if Connect returned, and so do those already prepared.
PanicPreparing(t) ==
    /\ Is("prepare", t) /\ status[t] = "preparing"
    /\ \E c \in {"none", "open"} : client' = [client EXCEPT ![t] = c]
    /\ Crash(t)
    /\ UNCHANGED <<mode, work, outcomes, traffic, stopAsked, shown, refInsights, finals,
                   comparisons, fingerprintsMatch>>

WaitAll ==
    /\ Is("wait", 0) /\ \A t \in Targets : work[t] \in {"none", "over"}
    /\ Step("compare", 0)
    /\ UNCHANGED <<mode, targetVars, stopAsked, shown, refInsights, finals, comparisons,
                   fingerprintsMatch, verdict>>

\* compare: the outcome files decide, not the states of the targets.
ComparisonOf(t) ==
    IF "none" \in {outcomes[1], outcomes[t]} THEN "error"
    ELSE IF outcomes[1] = "this" /\ outcomes[t] = "this" THEN "this run" ELSE "earlier run"

Compare ==
    /\ Is("compare", 0)
    /\ comparisons' = [t \in DOMAIN comparisons |-> ComparisonOf(t)]
    /\ fingerprintsMatch' =
           IF traffic[1] # "" /\ \A t \in Targets : traffic[t] = traffic[1] THEN "yes" ELSE "no"
    /\ Step("finish", 0)
    /\ UNCHANGED <<mode, targetVars, stopAsked, shown, refInsights, finals, verdict>>

\* The goroutine of the run: the first failed target decides, and a reference
\* that never ran its workload still has insights of its own.
Finish ==
    /\ Is("finish", 0)
    /\ verdict' = IF \E t \in Targets : status[t] = "failed" THEN "failed" ELSE "completed"
    /\ shown' = 1
    /\ refInsights' = IF refInsights = "none" THEN "of no run" ELSE refInsights
    /\ Step("ended", 0)
    /\ UNCHANGED <<mode, targetVars, stopAsked, finals, comparisons, fingerprintsMatch>>

AskStop ==
    /\ ~stopAsked /\ planAt.step # "ended"
    /\ stopAsked' = TRUE
    /\ UNCHANGED <<mode, planAt, targetVars, shown, refInsights, finals, comparisons,
                   fingerprintsMatch, verdict>>

\* sampleCharts: one last sample of each target in a final state whose workload
\* started (WorkloadStart is set right after the outcome file is opened).
SampleFinal(t) ==
    /\ status[t] \in Finished /\ outcomes[t] = "this" /\ finals[t] = 0
    /\ finals' = [finals EXCEPT ![t] = @ + 1]
    /\ UNCHANGED <<mode, planAt, targetVars, stopAsked, shown, refInsights, comparisons,
                   fingerprintsMatch, verdict>>

PlanStep == \/ \E t \in Targets : \/ Refuse(t) \/ Prepare(t) \/ PrepareFails(t) \/ Prepared(t)
                                  \/ PanicPreparing(t) \/ BeginTarget(t)
            \/ LaunchAll \/ WaitAll \/ Compare \/ Finish

TargetStep(t) == OpenOutcomes(t) \/ Panic(t) \/ \E error \in BOOLEAN : RunEnds(t, error)

MNext ==
    \/ PlanStep \/ AskStop
    \/ \E t \in Targets : TargetStep(t) \/ SampleFinal(t)

MSpec == MInit /\ [][MNext]_planVars

-----------------------------------------------------------------------------
MTypeOK ==
    /\ mode \in Modes /\ shown \in Targets
    /\ status \in [Targets -> Finished \cup {"pending", "preparing", "running"}]
    /\ work \in [Targets -> {"none", "due", "on", "over"}]
    /\ outcomes \in [Targets -> {"none", "earlier", "this"}]

\* Only one target is being prepared, and nothing runs meanwhile (seeding uses
\* a sequence of the process, comment at Plan.Run); in a sequential run only
\* the target that is shown works.
OneAtATime ==
    /\ Cardinality({t \in Targets : status[t] = "preparing" /\ client[t] = "none"}) <= 1
    /\ planAt.step = "prepare" => \A t \in Targets : work[t] \notin {"due", "on"}
    /\ mode = "sequential" => \A t \in Targets : work[t] = "on" => shown = t

\* At the end of a plan every target is in a final state and its client is
\* closed; a comparison without an error whose targets both ran their workload
\* to the end is of the files they wrote.  The exceptions are a panic that no
\* target's goroutine recovers, which leaves the targets as they are, and one
\* of these while a target is prepared, which leaves open what was prepared
\* and has not worked.
PlanSettled ==
    planAt.step = "ended" =>
        /\ \A t \in Targets : client[t] = "open" =>
              /\ verdict = "crashed" /\ work[t] = "none"
              /\ \E u \in Targets : status[u] = "preparing"
        /\ verdict = "crashed" \/ \A t \in Targets : status[t] \in Finished
        /\ \A t \in DOMAIN comparisons :
              {status[1], status[t]} = {"complete"} /\ comparisons[t] # "no"
                  => comparisons[t] = "this run"
        /\ verdict = "completed" => refInsights # "none"

\* Both: targets do not disturb each other, and none is left behind.
PlanSound == OneAtATime /\ PlanSettled

\* The plan ends, and every target whose workload started and ended has its last
\* sample (sampleCharts), if the workloads end.
PlanQuiet ==
    /\ planAt.step = "ended"
    /\ \A t \in Targets : outcomes[t] = "this" /\ status[t] \in Finished => finals[t] = 1
PlanEnds == []<>PlanQuiet
=============================================================================
