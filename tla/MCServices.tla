----------------------------- MODULE MCServices -----------------------------
(***************************************************************************)
(* The components beside the recorder, the replay and run control, for     *)
(* TLC.  They share no state in the models, so a behaviour is one of one   *)
(* component, part, while the others stay as they start: the run checks    *)
(* the sum of their state spaces and not the product.  A component with    *)
(* theorems is extended, its constants are given by the cfg and TLC        *)
(* evaluates its assumptions.                                              *)
(***************************************************************************)
EXTENDS Seeding, LoadGate, OutcomeWriter, TrendStore, GeneratedFiles, RunHistory, Definitions,
        RawInjector, ExplainJobs, MultiTarget, Sweep, RecordPool, Deterministic,
        InsightEvents, Collector

CONSTANT Parts  \* the components to check

VARIABLE part

\* Two definitions, in databases of their own.
ServedDatabases == <<"d", "e">>

\* Two explain jobs, of two databases.
ServedJobs == <<"a", "b">>

\* Fixed, two levels with a gap, a ramp, a spike and a sine, in a run of three ticks.
ServedProfiles ==
    {[kind |-> "fixed", workers |-> 0],
     [kind |-> "step", steps |-> << [workers |-> 2, duration |-> 1], [workers |-> 0, duration |-> 1],
                                   [workers |-> 2, duration |-> 1] >>],
     [kind |-> "ramp", start |-> 0, end |-> 2, over |-> 2],
     [kind |-> "spike", base |-> 0, peak |-> 1, at |-> 1, for |-> 1],
     [kind |-> "sine", min |-> 0, max |-> 1, quarter |-> 1]}

\* Operations 1 and 2 of a worker, which are two passes.
ServedTraffic == {<<"fast_insert", "fast_insert">>, <<"insert", "skip">>, <<"skip", "insert">>}

\* Two databases of one shape, and another shape.
ServedGroups == {[id |-> "a", db |-> 1], [id |-> "a", db |-> 2], [id |-> "b", db |-> 1]}

-----------------------------------------------------------------------------
\* A component that is not checked starts in one of its initial states.
Start ==
    /\ SweepInit
    /\ TSInit
    /\ RHInit
    /\ DInit
    /\ MInit
    /\ part # "targets" => mode = "sequential" /\ outcomes[1] = "none"
    /\ XInit
    /\ FInit
    /\ part # "files" => appPath = ""
    /\ SInit
    /\ indexed = {} /\ before["e"] # "single"
    /\ part # "setup" => /\ setupDrop /\ ~shardMode[2]
                         /\ \A d \in DOMAIN before : before[d] = "absent"
    /\ GInit
    /\ part # "gate" => profile = CHOOSE p \in ServedProfiles : TRUE
    /\ PInit
    /\ TInit
    /\ kind \in IF part = "deterministic" THEN ServedTraffic ELSE {<<"insert", "insert">>}
    /\ OInit
    /\ IInit
    /\ KInit
    /\ RInit
    /\ part # "injector" => rawType = "insert"

Init == part \in Parts /\ Start

\* The others do nothing.
Alone ==
    /\ UNCHANGED part
    /\ IF part = "sweep" THEN TRUE ELSE UNCHANGED sweepVars
    /\ IF part = "trends" THEN TRUE ELSE UNCHANGED storeVars
    /\ IF part = "history" THEN TRUE ELSE UNCHANGED historyVars
    /\ IF part = "definitions" THEN TRUE ELSE UNCHANGED libraryVars
    /\ IF part = "targets" THEN TRUE ELSE UNCHANGED planVars
    /\ IF part = "explains" THEN TRUE ELSE UNCHANGED xvars
    /\ IF part = "files" THEN TRUE ELSE UNCHANGED fileVars
    /\ IF part = "setup" THEN TRUE ELSE UNCHANGED setupVars
    /\ IF part = "gate" THEN TRUE ELSE UNCHANGED gateVars
    /\ IF part = "pool" THEN TRUE ELSE UNCHANGED poolVars
    /\ IF part = "deterministic" THEN TRUE ELSE UNCHANGED detVars
    /\ IF part = "outcomes" THEN TRUE ELSE UNCHANGED outcomeVars
    /\ IF part = "insights" THEN TRUE ELSE UNCHANGED insightVars
    /\ IF part = "collector" THEN TRUE ELSE UNCHANGED kvars
    /\ IF part = "injector" THEN TRUE ELSE UNCHANGED rvars

Next ==
    \/ part = "sweep" /\ SweepNext /\ Alone
    \/ part = "trends" /\ TSNext /\ Alone
    \/ part = "history" /\ RHNext /\ Alone
    \/ part = "definitions" /\ DNext /\ Alone
    \/ part = "targets" /\ MNext /\ Alone
    \/ part = "explains" /\ XNext /\ Alone
    \/ part = "files" /\ FileNext /\ Alone
    \/ part = "setup" /\ SNext /\ Alone
    \/ part = "gate" /\ GNext /\ Alone
    \/ part = "pool" /\ PNext /\ Alone
    \/ part = "deterministic" /\ TNext /\ Alone
    \/ part = "outcomes" /\ ONext /\ Alone
    \/ part = "insights" /\ INext /\ Alone
    \/ part = "collector" /\ KNext /\ Alone
    \/ part = "injector" /\ RNext /\ Alone

-----------------------------------------------------------------------------
(* Fairness: a goroutine that can go on does, the server answers or fails,  *)
(* and time passes; requests, stops and faults need not happen.  Every      *)
(* component but the gate takes finitely many steps under its bounds, so    *)
(* one condition for all its goroutines says the same as one for each.      *)

Progress ==
    /\ \/ /\ part = "sweep"
          /\ \/ \E r \in Requests : at[r] # "new" /\ RequestStep(r)
             \/ \E r \in Sweeps : SweepStep(r)
             \/ \E run \in Runs : FinishRun(run) \/ LeaveRun(run)
       \/ /\ part = "trends"
          /\ \E p \in {"p1", "p2"} : CallStep(p) \/ Aside(p) \/ Stat(p)
       \/ /\ part = "targets"
          /\ PlanStep \/ \E t \in Targets : TargetStep(t) \/ SampleFinal(t)
       \/ /\ part = "explains"
          /\ \/ RegisterCancel \/ HandOver \/ CloseWork \/ ReturnJobs
             \/ \E w \in {"w1", "w2"} : ExplainStep(w)
       \/ part = "setup" /\ SetupStep
       \/ part = "outcomes" /\ WriterStep
    /\ Alone

RunProgress == part = "gate" /\ RunStep /\ Alone
GateProgress(w) == part = "gate" /\ w \in Pool /\ GateStep(w) /\ Alone

allVars ==
    <<part, sweepVars, storeVars, historyVars, libraryVars, planVars,
      xvars, fileVars, setupVars, gateVars, poolVars, detVars,
      outcomeVars, insightVars, kvars, rvars>>

Spec == Init /\ [][Next]_allVars
FairSpec ==
    /\ Spec
    /\ WF_allVars(Progress) /\ WF_allVars(RunProgress)
    /\ \A w \in 1..2 : WF_allVars(GateProgress(w))

-----------------------------------------------------------------------------
(* The properties of the components, under names a cfg can list.            *)

TypeOK ==
    /\ SweepTypeOK /\ TSTypeOK /\ RHTypeOK /\ DTypeOK /\ MTypeOK /\ XTypeOK
    /\ FTypeOK /\ STypeOK /\ GTypeOK /\ PTypeOK /\ TTypeOK /\ OTypeOK
    /\ ITypeOK /\ KTypeOK /\ RTypeOK

\* What has begun ends: the sweep, a change of the trend file, the plan of the
\* targets, the explains, the preparation, the workload, and the outcome file.
ServicesEnd ==
    []<>(/\ SweepQuiet /\ CallsQuiet /\ ExplainsQuiet /\ OutcomeQuiet
         /\ part = "targets" => PlanQuiet
         /\ part = "setup" => SetupQuiet
         /\ part = "gate" => RunQuiet)
=============================================================================
