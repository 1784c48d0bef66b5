-------------------------------- MODULE Sweep --------------------------------
(***************************************************************************)
(* Concurrency sweeps (internal/webui/sweep.go): a start request that asks *)
(* for a sweep becomes a goroutine which starts one run for each worker    *)
(* count, waits for it, and starts the next.  Sweeps go by their start     *)
(* request, runs by request and level; the level of an ordinary run is 0.  *)
(* A run is what a sweep sees of it (module RunControl has the rest): it   *)
(* takes the slot IsRunning, is launched or aborted, ends, frees the slot  *)
(* and stores its dashboard before its goroutine is gone.                  *)
(***************************************************************************)
EXTENDS Naturals, FiniteSets

CONSTANTS
    Sweeps,      \* start requests with load_profile_kind=sweep
    Plain,       \* the other start requests
    Levels,      \* number of worker counts in the list of a sweep
    MaxStops     \* bound: stop requests

Requests == Sweeps \cup Plain
NoSweep == "no sweep"

ASSUME SweepAssumption ==
    Levels \in Nat /\ NoSweep \notin Sweeps /\ Sweeps \cap Plain = {}

Run(r, l) == [by |-> r, level |-> l]
Runs == {Run(r, l) : r \in Requests, l \in 0..Levels}

VARIABLES
    at,          \* at[r]: where the request, then the goroutine of the sweep, is
    slot,        \* IsRunning
    failed,      \* LastError # ""
    phase,       \* LifecyclePhase ("initializing" is also "running" here)
    cancelSet,   \* ActiveCancel # nil, once a run was launched
    live,        \* runWG: runs whose goroutine works
    leaving,     \* runWG: runs that freed the slot and store their dashboard
    sweep,       \* s.sweep
    sw,          \* the sweepRun of each request
    fault,       \* runs that failed (history)
    alone,       \* sweeps no other start was under way with, and whose slot no
                 \* unreadable start took (history)
    tagged,      \* stored dashboards: run and sweep tag
    stopsMade

runVars   == <<slot, failed, phase, cancelSet, live, leaving, fault, tagged>>
sweepVars == <<at, runVars, sweep, sw, alone, stopsMade>>

NewSweep == [level |-> 1, state |-> "running", cancelled |-> FALSE]

Active(r) == r # NoSweep /\ sw[r].state \in {"running", "waiting"}

SweepInit ==
    /\ at = [r \in Requests |-> "new"]
    /\ slot = FALSE /\ failed = FALSE /\ phase = "idle" /\ cancelSet = FALSE
    /\ live = {} /\ leaving = {} /\ fault = {} /\ tagged = {} /\ alone = {}
    /\ sweep = NoSweep
    /\ sw = [r \in Sweeps |-> [level |-> 0, state |-> "none", cancelled |-> FALSE]]
    /\ stopsMade = 0

To(r, where) == at' = [at EXCEPT ![r] = where]

Now(r) == Run(r, IF r \in Sweeps THEN sw[r].level ELSE 0)

-----------------------------------------------------------------------------
(* The start request. *)

\* Not in the way of a sweep that registers now.
Harmless == {"new", "unread", "gone"}

\* A form that does not parse: startSweep passes it on before it looks for a
\* sweep.
Unreadable(r) ==
    /\ at[r] = "new" /\ r \in Plain
    /\ To(r, "unread")
    /\ UNCHANGED <<runVars, sweep, sw, alone, stopsMade>>

\* The first critical section of startSweep refuses every start during a sweep.
Check(r) ==
    /\ at[r] = "new"
    /\ To(r, IF Active(sweep) THEN "gone" ELSE "checked")
    /\ UNCHANGED <<runVars, sweep, sw, alone, stopsMade>>

\* The second one refuses a sweep during a run, and registers it.
Register(r) ==
    /\ at[r] = "checked" /\ r \in Sweeps
    /\ IF slot THEN To(r, "gone") /\ UNCHANGED <<sweep, sw, alone>>
       ELSE /\ sweep' = r
            /\ sw' = [sw EXCEPT ![r] = [level |-> 1, state |-> "running", cancelled |-> FALSE]]
            /\ alone' = IF \A q \in Requests \ {r} : at[q] \in Harmless
                        THEN alone \cup {r} ELSE alone
            /\ To(r, "start")
    /\ UNCHANGED <<runVars, stopsMade>>

\* handleStartRun takes the slot, or answers 409.
TakeSlot(r) ==
    /\ at[r] = "start" \/ (at[r] = "checked" /\ r \in Plain)
    /\ IF slot
       THEN /\ To(r, IF r \in Sweeps THEN "fail" ELSE "gone")
            /\ UNCHANGED <<slot, failed, phase>>
       ELSE To(r, "starting") /\ slot' = TRUE /\ failed' = FALSE /\ phase' = "initializing"
    /\ UNCHANGED <<cancelSet, live, leaving, fault, tagged, sweep, sw, alone, stopsMade>>

\* handleStartRun takes the slot before it reads the form itself.
TakeUnread(r) ==
    /\ at[r] = "unread"
    /\ IF slot THEN To(r, "gone") /\ UNCHANGED <<slot, failed, phase, alone>>
       ELSE /\ To(r, "broken") /\ slot' = TRUE /\ failed' = FALSE
            /\ phase' = "initializing" /\ alone' = alone \ {sweep}
    /\ UNCHANGED <<cancelSet, live, leaving, fault, tagged, sweep, sw, stopsMade>>

\* The start fails: abortRun.  A sweep learns of it from the status of the
\* answer; some failures are answered 200, and it goes on to wait for the run.
Abort(r) ==
    /\ at[r] \in {"starting", "broken"}
    /\ slot' = FALSE /\ failed' = TRUE /\ phase' = "failed"
    /\ fault' = fault \cup {Now(r)}
    /\ \E where \in IF r \in Sweeps THEN {"fail", "wait"} ELSE {"gone"} : To(r, where)
    /\ UNCHANGED <<cancelSet, live, leaving, tagged, sweep, sw, alone, stopsMade>>

LaunchRun(r) ==
    /\ at[r] = "starting"
    /\ live' = live \cup {Now(r)}
    /\ cancelSet' = TRUE /\ failed' = FALSE
    /\ To(r, IF r \in Sweeps THEN "wait" ELSE "gone")
    /\ UNCHANGED <<slot, phase, leaving, fault, tagged, sweep, sw, alone, stopsMade>>

-----------------------------------------------------------------------------
(* The run, and the stop request. *)

\* The run ends, with or without an error, and frees the slot.
FinishRun(run) ==
    /\ run \in live
    /\ live' = live \ {run} /\ leaving' = leaving \cup {run}
    /\ slot' = FALSE
    /\ \/ /\ phase' = IF failed THEN phase ELSE "completed"
          /\ UNCHANGED <<failed, fault>>
       \/ failed' = TRUE /\ phase' = "failed" /\ fault' = fault \cup {run}
    /\ UNCHANGED <<at, cancelSet, tagged, sweep, sw, alone, stopsMade>>

\* tag: the sweep and the level that the server has now.
Tag == IF Active(sweep) THEN Run(sweep, sw[sweep].level) ELSE Run(NoSweep, 0)

\* persistDashboard, then runWG.Done.
LeaveRun(run) ==
    /\ run \in leaving
    /\ leaving' = leaving \ {run}
    /\ tagged' = tagged \cup {[run |-> run, tag |-> Tag]}
    /\ UNCHANGED <<at, slot, failed, phase, cancelSet, live, fault, sweep, sw, alone,
                   stopsMade>>

\* handleStop: it ends the sweep the server has, and frees the slot.
Stop ==
    /\ stopsMade < MaxStops
    /\ stopsMade' = stopsMade + 1
    /\ sw' = IF Active(sweep) THEN [sw EXCEPT ![sweep].cancelled = TRUE] ELSE sw
    /\ IF slot /\ cancelSet THEN slot' = FALSE /\ phase' = "failed" ELSE UNCHANGED <<slot, phase>>
    /\ UNCHANGED <<at, failed, cancelSet, live, leaving, fault, tagged, sweep, alone>>

-----------------------------------------------------------------------------
(* runSweep. *)

\* Mutant: the next level does not wait until the run is stored.
AwaitSlot(r) ==
    /\ at[r] = "wait" /\ live = {}
    /\ To(r, "look")
    /\ UNCHANGED <<runVars, sweep, sw, alone, stopsMade>>

\* runWG.Wait waits for every run goroutine.
Await(r) ==
    /\ at[r] = "wait" /\ live = {} /\ leaving = {}
    /\ To(r, "look")
    /\ UNCHANGED <<runVars, sweep, sw, alone, stopsMade>>

\* How the level ended: a stop first, then a failure.
LookBack(r) ==
    /\ at[r] = "look"
    /\ To(r, IF sw[r].cancelled THEN "stop"
             ELSE IF failed \/ phase = "failed" THEN "fail"
             ELSE IF sw[r].level = Levels THEN "finish" ELSE "next")
    /\ UNCHANGED <<runVars, sweep, sw, alone, stopsMade>>

\* The pause before the next level.
Pause(r) ==
    /\ at[r] = "next"
    /\ sw' = [sw EXCEPT ![r].state = "waiting"]
    /\ To(r, "pause")
    /\ UNCHANGED <<runVars, sweep, alone, stopsMade>>

\* Mutant: the end of the pause does not look for a stop.
NextLevelAnyway(r) ==
    /\ at[r] = "pause"
    /\ sw' = [sw EXCEPT ![r].level = @ + 1, ![r].state = "running"]
    /\ To(r, "start")
    /\ UNCHANGED <<runVars, sweep, alone, stopsMade>>

\* The pause is over or cut short: the next level, unless the sweep was stopped.
NextLevel(r) ==
    /\ at[r] = "pause"
    /\ IF sw[r].cancelled THEN To(r, "stop") /\ UNCHANGED sw
       ELSE /\ sw' = [sw EXCEPT ![r].level = @ + 1, ![r].state = "running"]
            /\ To(r, "start")
    /\ UNCHANGED <<runVars, sweep, alone, stopsMade>>

Verdict == [stop |-> "stopped", fail |-> "failed", finish |-> "done"]

\* endSweep.
EndSweep(r) ==
    /\ at[r] \in DOMAIN Verdict
    /\ sw' = [sw EXCEPT ![r].state = Verdict[at[r]]]
    /\ To(r, "gone")
    /\ UNCHANGED <<runVars, sweep, alone, stopsMade>>

RequestStep(r) ==
    \/ Check(r) \/ Register(r) \/ TakeSlot(r) \/ Abort(r) \/ LaunchRun(r)
    \/ Unreadable(r) \/ TakeUnread(r)

SweepStep(r) == Await(r) \/ LookBack(r) \/ Pause(r) \/ NextLevel(r) \/ EndSweep(r)

SweepNext ==
    \/ \E r \in Requests : RequestStep(r)
    \/ \E r \in Sweeps : SweepStep(r)
    \/ \E run \in Runs : FinishRun(run) \/ LeaveRun(run)
    \/ Stop

SweepSpec == SweepInit /\ [][SweepNext]_sweepVars

-----------------------------------------------------------------------------

SweepTypeOK ==
    /\ at \in [Requests -> {"new", "checked", "unread", "start", "starting", "broken", "wait",
                            "look", "next", "pause", "stop", "fail", "finish", "gone"}]
    /\ slot \in BOOLEAN /\ failed \in BOOLEAN /\ cancelSet \in BOOLEAN
    /\ phase \in {"idle", "initializing", "failed", "completed"}
    /\ live \subseteq Runs /\ leaving \subseteq Runs /\ fault \subseteq Runs
    /\ alone \subseteq Sweeps
    /\ sweep \in Sweeps \cup {NoSweep}
    /\ sw \in [Sweeps -> [level : 0..Levels, cancelled : BOOLEAN,
                          state : {"none", "running", "waiting", "stopped", "failed", "done"}]]

\* A sweep starts a level only after each earlier one ended without an error and
\* its dashboard is stored under its own level (comment at runWG.Wait,
\* docs/concurrency-sweep.md:103), if no other start was under way when it began
\* and no start with an unreadable form took the slot beside it.
LevelsInOrder ==
    \A r \in alone : \A l \in 1..Levels :
        /\ at[r] \in {"start", "starting"} /\ l < sw[r].level =>
               /\ Run(r, l) \notin live \cup leaving \cup fault
               /\ \E d \in tagged : d.run = Run(r, l)
        /\ \A d \in tagged : d.run = Run(r, l) => d.tag = d.run

\* No level of a stopped sweep begins, and a stop finds the sweep it means in
\* every step of it (docs/concurrency-sweep.md:102), under the same condition;
\* and the levels keep their order.
SweepInOrder ==
    []LevelsInOrder /\
    [][\A r \in alone :
          /\ sw[r].cancelled => sw'[r].level = sw[r].level
          /\ Active(r) /\ stopsMade' # stopsMade => sw'[r].cancelled]_sweepVars

\* Every request and every sweep ends, however the runs end and whatever is
\* stopped.
SweepQuiet == \A r \in Requests : at[r] \in {"new", "gone"}
SweepEnds == []<>SweepQuiet
=============================================================================
