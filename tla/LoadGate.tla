------------------------------ MODULE LoadGate ------------------------------
(***************************************************************************)
(* The workers of a generated run (runContinuousWorkload and               *)
(* independentWorker, internal/mongo/runner.go): as many workers as the    *)
(* load profile ever asks for; a controller publishes the target of the    *)
(* moment, and a worker whose number is above it parks.  The run ends at   *)
(* its deadline, when it is stopped, or when something panics: a worker, or *)
(* a goroutine beside them that nobody waits for.                          *)
(***************************************************************************)
EXTENDS Integers, Sequences, FiniteSets, FiniteSetsExt, SequencesExt

-----------------------------------------------------------------------------
(* Load profiles (internal/loadprofile/loadprofile.go): how many workers are *)
(* to be active at a time of the run.  Times are whole ticks; a sine is      *)
(* sampled at the quarters of its period.                                   *)

\* What a Config describes: counts of workers and durations of its kind.
Profiles ==
    [kind : {"fixed"}, workers : Nat]
    \cup [kind : {"ramp"}, start : Nat, end : Nat, over : Nat]
    \cup [kind : {"step"}, steps : Seq([workers : Nat, duration : Nat])]
    \cup [kind : {"spike"}, base : Nat, peak : Nat, at : Nat, for : Nat]
    \cup [kind : {"sine"}, min : Nat, max : Nat, quarter : Nat \ {0}]

\* Compile refuses these; an unset number of fixed workers is the concurrency.
Compiles(p) ==
    CASE p.kind = "fixed" -> TRUE
      [] p.kind = "ramp"  -> p.start + p.end > 0 /\ p.over > 0
      [] p.kind = "step"  -> /\ p.steps # <<>> /\ \A i \in DOMAIN p.steps : p.steps[i].duration > 0
                             /\ \E i \in DOMAIN p.steps : p.steps[i].workers > 0
      [] p.kind = "spike" -> p.peak > 0 /\ p.for > 0
      [] p.kind = "sine"  -> p.max > 0 /\ p.min <= p.max

\* MaxWorkers: how many workers there are.
Peak(p, fallback) ==
    CASE p.kind = "fixed" -> IF p.workers = 0 THEN fallback ELSE p.workers
      [] p.kind = "ramp"  -> Max({p.start, p.end})
      [] p.kind = "step"  -> Max({p.steps[i].workers : i \in DOMAIN p.steps})
      [] p.kind = "spike" -> Max({p.base, p.peak})
      [] p.kind = "sine"  -> p.max

\* n / d rounded half up (math.Round of what is never negative).
Rounded(n, d) == (2 * n + d) \div (2 * d)

Ramp(p, t) ==
    IF t >= p.over THEN p.end
    ELSE Rounded(p.start * (p.over - t) + p.end * t, p.over)

\* The first stage that has not ended, or the last one.
StepAt(p, t) ==
    LET Until(i) == FoldLeft(LAMBDA sum, st : sum + st.duration, 0, SubSeq(p.steps, 1, i))
        on == {i \in DOMAIN p.steps : t < Until(i)}
    IN  p.steps[IF on = {} THEN Len(p.steps) ELSE Min(on)].workers

\* Mutant: the spike is over one tick later.
SpikeTooLong(p, t) == IF t >= p.at /\ t <= p.at + p.for THEN p.peak ELSE p.base

Spike(p, t) == IF t >= p.at /\ t < p.at + p.for THEN p.peak ELSE p.base

\* From the trough: minimum, middle, maximum, middle.
Sine(p, t) ==
    LET q == (t \div p.quarter) % 4
    IN  CASE q = 0 -> p.min [] q = 2 -> p.max [] OTHER -> Rounded(p.min + p.max, 2)

\* The clamp of TargetAt never bites: no kind exceeds its own peak.
TargetAt(p, fallback, t) ==
    CASE p.kind = "fixed" -> Peak(p, fallback)
      [] p.kind = "ramp"  -> Ramp(p, t)
      [] p.kind = "step"  -> StepAt(p, t)
      [] p.kind = "spike" -> Spike(p, t)
      [] p.kind = "sine"  -> Sine(p, t)

-----------------------------------------------------------------------------
CONSTANTS
    GateProfiles,   \* load profiles to run
    GateFallback,   \* the configured concurrency
    RunTicks        \* the duration, in ticks of the controller

\* A run starts with a profile that Compile took.
ASSUME GateAssumption ==
    /\ RunTicks \in Nat /\ GateFallback \in Nat
    /\ GateProfiles \subseteq Profiles /\ \A p \in GateProfiles : Compiles(p)

VARIABLES
    profile,
    elapsed,        \* ticks since the start of the run
    target,         \* *wCfg.activeTarget
    active,         \* *wCfg.activeCount
    gate,           \* gate[w]: "look", "paced" (behind the gate), "operation", "parked",
                    \* "unwound" by a panic that is not reported yet, "gone"
    unparked,       \* workers with parked = FALSE
    contextDone,    \* why the workload context is done, or "no"
    panicErr,       \* the first panic that was reported
    helpers,        \* the goroutines beside the workers that are there
    window,         \* the measured window: "open" or "closed"
    measured,       \* operations in and out of the window (history)
    runResult       \* what the run returns: a panic, or no error

gateVars == <<profile, elapsed, target, active, gate, unparked, contextDone, panicErr,
              helpers, window, measured, runResult>>

Helpers == {"insert producer", "monitor", "controller"}

\* A panic in a goroutine, or the lack of one.
PanicOf(who, id) == [who |-> who, id |-> id]
NoError == PanicOf("nobody", 0)
NotYet == PanicOf("not yet", 0)

Pool == 1..Peak(profile, GateFallback)

\* Everything up to the start of the workers; the window opens before them.
GInit ==
    /\ profile \in GateProfiles
    /\ elapsed = 0
    /\ target = TargetAt(profile, GateFallback, 0)
    /\ active = 0
    /\ gate = [w \in Pool |-> "look"]
    /\ unparked = {} /\ contextDone = "no" /\ panicErr = NoError
    /\ helpers = Helpers /\ window = "open" /\ measured = [within |-> 0, outside |-> 0]
    /\ runResult = NotYet

\* The deadline passes as the last tick does.
Tick ==
    /\ elapsed < RunTicks /\ runResult = NotYet
    /\ elapsed' = elapsed + 1
    /\ contextDone' = IF elapsed' = RunTicks /\ contextDone = "no" THEN "deadline" ELSE contextDone
    /\ UNCHANGED <<profile, target, active, gate, unparked, panicErr, helpers, window,
                   measured, runResult>>

StopRun ==
    /\ contextDone = "no" /\ contextDone' = "stopped"
    /\ UNCHANGED <<profile, elapsed, target, active, gate, unparked, panicErr, helpers,
                   window, measured, runResult>>

\* The controller publishes the target, until the context is done.
Publish ==
    /\ "controller" \in helpers /\ contextDone = "no"
    /\ target # TargetAt(profile, GateFallback, elapsed)
    /\ target' = TargetAt(profile, GateFallback, elapsed)
    /\ UNCHANGED <<profile, elapsed, active, gate, unparked, contextDone, panicErr,
                   helpers, window, measured, runResult>>

\* The monitor goes on until the workers are gone (monitorDone), the others
\* until the context is done.
HelperEnds(h) ==
    /\ h \in helpers
    /\ IF h = "monitor" THEN window = "closed" ELSE contextDone # "no"
    /\ helpers' = helpers \ {h}
    /\ UNCHANGED <<profile, elapsed, target, active, gate, unparked, contextDone, panicErr,
                   window, measured, runResult>>

Goto(w, where) == gate' = [gate EXCEPT ![w] = where]

\* Leaving the loop takes the worker off the gauge.
Gone(w) ==
    /\ Goto(w, "gone")
    /\ active' = IF w \in unparked THEN active - 1 ELSE active
    /\ unparked' = unparked \ {w}

\* Mutant: a worker that is parked again is counted twice.
LookUncounted(w) ==
    /\ gate[w] = "look"
    /\ IF contextDone # "no" THEN Gone(w)
       ELSE IF w <= target
       THEN /\ Goto(w, "paced")
            /\ unparked' = unparked \cup {w}
            /\ active' = IF w \in unparked THEN active ELSE active + 1
       ELSE /\ Goto(w, "parked")
            /\ unparked' = unparked \ {w} /\ UNCHANGED active
    /\ UNCHANGED <<profile, elapsed, target, contextDone, panicErr, helpers, window,
                   measured, runResult>>

\* The head of the loop: the context, then the gate.
Look(w) ==
    /\ gate[w] = "look"
    /\ IF contextDone # "no" THEN Gone(w)
       ELSE IF w <= target
       THEN /\ Goto(w, "paced")
            /\ unparked' = unparked \cup {w}
            /\ active' = IF w \in unparked THEN active ELSE active + 1
       ELSE /\ Goto(w, "parked")
            /\ unparked' = unparked \ {w}
            /\ active' = IF w \in unparked THEN active - 1 ELSE active
    /\ UNCHANGED <<profile, elapsed, target, contextDone, panicErr, helpers, window,
                   measured, runResult>>

\* The park: 25 ms, or the end of the context.
Unpark(w) ==
    /\ gate[w] = "parked" /\ (target >= w \/ contextDone # "no")
    /\ Goto(w, "look")
    /\ UNCHANGED <<profile, elapsed, target, active, unparked, contextDone, panicErr,
                   helpers, window, measured, runResult>>

\* After pacing the operation is sent, also if the context is done by now.
Send(w) ==
    /\ gate[w] = "paced"
    /\ Goto(w, "operation")
    /\ UNCHANGED <<profile, elapsed, target, active, unparked, contextDone, panicErr,
                   helpers, window, measured, runResult>>

\* The reply: operations are not cancelled with the context.
Reply(w) ==
    /\ gate[w] = "operation"
    /\ Goto(w, "look")
    /\ measured' = IF window = "open" THEN [measured EXCEPT !.within = 1]
                   ELSE [measured EXCEPT !.outside = 1]
    /\ UNCHANGED <<profile, elapsed, target, active, unparked, contextDone, panicErr,
                   helpers, window, runResult>>

\* A panic unwinds the worker: its deferred functions take it off the gauge and
\* count it as done (wg.Done); it is reported only behind them.
WorkerPanics(w) ==
    /\ gate[w] \in {"look", "paced", "operation"}
    /\ Goto(w, "unwound")
    /\ active' = IF w \in unparked THEN active - 1 ELSE active
    /\ unparked' = unparked \ {w}
    /\ UNCHANGED <<profile, elapsed, target, contextDone, panicErr, helpers, window, measured,
                   runResult>>

\* reportPanic: the first one is kept, and the context is cancelled.
Report(panic) ==
    /\ panicErr' = IF panicErr = NoError THEN panic ELSE panicErr
    /\ contextDone' = IF contextDone = "no" THEN "panic" ELSE contextDone

ReportWorker(w) ==
    /\ gate[w] = "unwound"
    /\ Goto(w, "gone") /\ Report(PanicOf("worker", w))
    /\ UNCHANGED <<profile, elapsed, target, active, unparked, helpers, window, measured,
                   runResult>>

\* Nobody waits for the goroutines beside the workers.
HelperPanics(h) ==
    /\ h \in helpers
    /\ helpers' = helpers \ {h} /\ Report(PanicOf(h, 0))
    /\ UNCHANGED <<profile, elapsed, target, active, gate, unparked, window, measured, runResult>>

\* Mutant: the end of the context closes the window.
CloseWindowEarly ==
    /\ contextDone # "no" /\ window = "open" /\ window' = "closed"
    /\ UNCHANGED <<profile, elapsed, target, active, gate, unparked, contextDone, panicErr,
                   helpers, measured, runResult>>

\* <-workloadCtx.Done(), wg.Wait(), then the window closes.
CloseWindow ==
    /\ contextDone # "no" /\ window = "open"
    /\ \A w \in Pool : gate[w] \in {"unwound", "gone"}
    /\ window' = "closed"
    /\ UNCHANGED <<profile, elapsed, target, active, gate, unparked, contextDone, panicErr,
                   helpers, measured, runResult>>

\* The error is the first panic that is reported by now.
ReturnFromRun ==
    /\ window = "closed" /\ runResult = NotYet
    /\ runResult' = panicErr
    /\ UNCHANGED <<profile, elapsed, target, active, gate, unparked, contextDone, panicErr,
                   helpers, window, measured>>

GateStep(w) == Look(w) \/ Unpark(w) \/ Send(w) \/ Reply(w) \/ ReportWorker(w)
RunStep == \/ Tick \/ Publish \/ CloseWindow \/ ReturnFromRun
           \/ \E h \in Helpers : HelperEnds(h)

GNext ==
    \/ RunStep \/ StopRun
    \/ \E w \in Pool : GateStep(w) \/ WorkerPanics(w)
    \/ \E h \in Helpers : HelperPanics(h)

GSpec == GInit /\ [][GNext]_gateVars

-----------------------------------------------------------------------------
GTypeOK ==
    /\ profile \in GateProfiles /\ Compiles(profile) /\ elapsed \in 0..RunTicks
    /\ gate \in [Pool -> {"look", "paced", "operation", "parked", "unwound", "gone"}]
    /\ helpers \subseteq Helpers
    /\ contextDone \in {"no", "deadline", "stopped", "panic"}

\* The gauge of active workers is the number of workers behind the gate, it
\* never exceeds what the profile asks for at its most, and it is 0 at the end,
\* whatever was raised, lowered, stopped or panicked in between.
GaugeBalanced ==
    /\ active = Cardinality(unparked)
    /\ {w \in Pool : gate[w] \in {"paced", "operation"}} \subseteq unparked
    /\ runResult # NotYet => active = 0
    /\ target <= Cardinality(Pool)

\* The window that rates divide by holds every operation (MarkWorkloadEnd); a
\* run that a panic ended fails, and a run that fails does so with the panic that
\* was reported first, whoever panicked later.  A panic that is reported after
\* the deadline or a stop may come too late for the result.
WindowHoldsOperations ==
    /\ measured.outside = 0
    /\ runResult = NoError => contextDone # "panic"
    /\ runResult \notin {NotYet, NoError} => runResult = panicErr

\* What a run reports of its load is true: the gauge and the window
\* (independentWorker, runContinuousWorkload).
LoadMeasured == GaugeBalanced /\ WindowHoldsOperations

\* The run ends, if operations end.
RunQuiet == runResult # NotYet
RunReturns == []<>RunQuiet
=============================================================================
