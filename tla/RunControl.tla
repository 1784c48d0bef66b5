------------------------------ MODULE RunControl ------------------------------
(***************************************************************************)
(* The life of a run in the web server (internal/webui/server.go and       *)
(* multi_target.go): start requests, the run goroutine with its deferred   *)
(* calls, stop requests, the sampler's promotion of a run, and the         *)
(* requests that build the insights of a finished run.  Every critical     *)
(* section of WebServer.mu is one action.  A run is the value of RunID its *)
(* start request got; its collector, dashboard id, connection and context  *)
(* go by the same number.                                                  *)
(***************************************************************************)
EXTENDS Naturals, FiniteSets

CONSTANTS
    MaxRuns,      \* bound: start requests that are admitted
    MaxStops,     \* bound: stop requests that find a run to stop
    Iterations,   \* config.RunIterations
    Kinds,        \* which branches a start may take: "workload", "multi"
    Faults        \* what may go wrong: "abort", "error", "panic"

ASSUME RunControlAssumption ==
    /\ MaxRuns \in Nat \ {0} /\ MaxStops \in Nat /\ Iterations \in Nat \ {0}
    /\ Kinds \subseteq {"workload", "multi"} /\ Kinds # {}
    /\ Faults \subseteq {"abort", "error", "panic"}

Runs == 1..MaxRuns
Nil == 0                  \* a nil pointer, or an empty LastError
RunOrNil == 0..MaxRuns

VARIABLES
    isRunning,    \* IsRunning
    runID,        \* RunID
    phase,        \* LifecyclePhase
    lastError,    \* LastError: the run whose failure it describes
    activeCancel, \* ActiveCancel: the run whose context it cancels
    curStats,     \* CurrentStats: the run whose collector it is
    dashboardID,  \* dashboardID: the run it was made for
    insights,     \* InsightsCache: the run whose collector it analyses
    pc,           \* pc[r]: how far the start request, then the goroutine, of r got
    kind,         \* kind[r]: the branch r takes, "workload" until it is known
    iter,         \* iter[r]: iterations r has begun
    collector,    \* collector[r]: the run whose collector r counts into
    counted,      \* runs whose collector has counted an operation
    connected,    \* runs with an open database connection
    cancelled,    \* runs whose context is cancelled
    faulty,       \* runs that failed or panicked after they were launched
    panicked,     \* runs that panicked
    snap,         \* snap[r]: the dashboard persistDashboard of r captured
    history,      \* the dashboards on disk, by dashboard id
    pending,      \* RunHistory.pending: insights that wait for their dashboard
    job,          \* the insights request that holds insightsBuildMu
    stops         \* stop requests that found a run to stop

serverVars  == <<isRunning, runID, phase, lastError, activeCancel, curStats, dashboardID>>
runVars     == <<pc, kind, iter, collector, counted, connected, cancelled, faulty,
                 panicked>>
workVars    == <<kind, iter, collector, counted>>
faultVars   == <<faulty, panicked>>
historyVars == <<snap, history, pending>>
insightVars == <<insights, job>>
vars == <<serverVars, runVars, historyVars, insightVars, stops>>

NoDashboard == [id |-> Nil, stats |-> Nil, status |-> "none", insights |-> Nil]
NoJob == [pc |-> "idle", stats |-> Nil, id |-> Nil]

Init ==
    /\ isRunning = FALSE /\ runID = 0 /\ phase = "idle" /\ lastError = Nil
    /\ activeCancel = Nil /\ curStats = Nil /\ dashboardID = Nil
    /\ pc = [r \in Runs |-> "none"]
    /\ kind = [r \in Runs |-> "workload"]
    /\ iter = [r \in Runs |-> 0]
    /\ collector = [r \in Runs |-> Nil]
    /\ counted = {} /\ connected = {} /\ cancelled = {} /\ faulty = {} /\ panicked = {}
    /\ snap = [r \in Runs |-> NoDashboard]
    /\ history = [r \in Runs |-> NoDashboard]
    /\ pending = [r \in Runs |-> Nil]
    /\ insights = Nil /\ job = NoJob
    /\ stops = 0

Goto(r, where) == pc' = [pc EXCEPT ![r] = where]

-----------------------------------------------------------------------------
(* The start request *)

\* Mutant: a start does not look at the slot.
AdmitAnyway ==
    /\ runID < MaxRuns
    /\ isRunning' = TRUE
    /\ runID' = runID + 1
    /\ insights' = Nil /\ lastError' = Nil /\ phase' = "initializing"
    /\ Goto(runID + 1, "validate")
    /\ UNCHANGED <<activeCancel, curStats, dashboardID, workVars, connected, cancelled,
                   faultVars, historyVars, job, stops>>

\* handleStartRun admits a run when none is running ("workload is already
\* running" otherwise) and takes the slot before anything is validated.
Admit ==
    /\ ~isRunning /\ runID < MaxRuns
    /\ isRunning' = TRUE
    /\ runID' = runID + 1
    /\ insights' = Nil /\ lastError' = Nil /\ phase' = "initializing"
    /\ Goto(runID + 1, "validate")
    /\ UNCHANGED <<activeCancel, curStats, dashboardID, workVars, connected, cancelled,
                   faultVars, historyVars, job, stops>>

\* Mutant: a failed start keeps the slot.
AbortKeepsSlot(r) ==
    /\ lastError' = r /\ phase' = "failed"
    /\ Goto(r, "gone")
    /\ UNCHANGED <<isRunning, runID, activeCancel, curStats, dashboardID, workVars,
                   connected, cancelled, faultVars, historyVars, insightVars, stops>>

\* abortRun.
Abort(r) ==
    /\ lastError' = r /\ phase' = "failed" /\ isRunning' = FALSE
    /\ Goto(r, "gone")
    /\ UNCHANGED <<runID, activeCancel, curStats, dashboardID, workVars, connected,
                   cancelled, faultVars, historyVars, insightVars, stops>>

\* A parse, upload or validation error, or a failed connection.
StartFails(r) ==
    /\ "abort" \in Faults /\ pc[r] \in {"validate", "connect"}
    /\ Abort(r)

\* The settings are valid: the run gets its dashboard id.
NameDashboard(r) ==
    /\ pc[r] = "validate"
    /\ dashboardID' = r
    /\ Goto(r, "connect")
    /\ UNCHANGED <<isRunning, runID, phase, lastError, activeCancel, curStats, workVars,
                   connected, cancelled, faultVars, historyVars, insightVars, stops>>

\* Several servers connect inside the run, one server before it.
Connect(r) ==
    /\ pc[r] = "connect"
    /\ \E k \in Kinds :
          /\ kind' = [kind EXCEPT ![r] = k]
          /\ connected' = IF k = "workload" THEN connected \cup {r} ELSE connected
    /\ Goto(r, "launch")
    /\ UNCHANGED <<serverVars, iter, collector, counted, cancelled, faultVars,
                   historyVars, insightVars, stops>>

\* The collector, the configuration and the cancel function become the
\* server's; then the goroutine starts.
Launch(r) ==
    /\ pc[r] = "launch"
    /\ curStats' = r /\ activeCancel' = r /\ lastError' = Nil
    /\ Goto(r, "prepare")
    /\ UNCHANGED <<isRunning, runID, phase, dashboardID, workVars, connected, cancelled,
                   faultVars, historyVars, insightVars, stops>>

StartRequest(r) == StartFails(r) \/ NameDashboard(r) \/ Connect(r) \/ Launch(r)

-----------------------------------------------------------------------------
(* The run goroutine *)

\* The run records its error; LastError and the phase are the server's.
Fail(r) ==
    /\ lastError' = r /\ phase' = "failed"
    /\ faulty' = faulty \cup {r}
    /\ UNCHANGED panicked

Panic(r) ==
    /\ faulty' = faulty \cup {r} /\ panicked' = panicked \cup {r}
    /\ UNCHANGED <<lastError, phase>>

\* Collections, indexes and seeding, and the sharding setup after them; a
\* cancelled context is an error of theirs.
Prepare(r) ==
    /\ pc[r] = "prepare" /\ kind[r] = "workload"
    /\ \/ /\ phase' = "initializing"
          /\ Goto(r, "loop")
          /\ UNCHANGED <<lastError, faultVars>>
       \/ /\ "error" \in Faults \/ r \in cancelled
          /\ Fail(r) /\ Goto(r, "disconnect")
       \/ "panic" \in Faults /\ Panic(r) /\ Goto(r, "disconnect")
    /\ UNCHANGED <<isRunning, runID, activeCancel, curStats, dashboardID, workVars,
                   connected, cancelled, historyVars, insightVars, stops>>

\* The head of the iteration loop, and the wait between two iterations: both
\* look at the context.
NextIteration(r) ==
    /\ pc[r] = "loop"
    /\ IF r \in cancelled \/ iter[r] = Iterations
       THEN Goto(r, "disconnect") /\ UNCHANGED iter
       ELSE Goto(r, "begin") /\ iter' = [iter EXCEPT ![r] = @ + 1]
    /\ UNCHANGED <<serverVars, kind, collector, counted, connected, cancelled, faultVars,
                   historyVars, insightVars, stops>>

\* RunWorkload gets the collector the server has now.
BeginWork(r) ==
    /\ pc[r] = "begin"
    /\ collector' = [collector EXCEPT ![r] = curStats]
    /\ Goto(r, "work")
    /\ UNCHANGED <<serverVars, kind, iter, counted, connected, cancelled, faultVars,
                   historyVars, insightVars, stops>>

\* A collector counts its first operation.
CountOperation(r) ==
    /\ pc[r] \in {"work", "targets"} /\ collector[r] \notin counted
    /\ counted' = counted \cup {collector[r]}
    /\ UNCHANGED <<serverVars, pc, kind, iter, collector, connected, cancelled, faultVars,
                   historyVars, insightVars, stops>>

\* RunWorkload returns: at its duration or on the cancelled context, with an
\* error, or by panicking.
WorkEnds(r) ==
    /\ pc[r] = "work"
    /\ \/ Goto(r, "loop") /\ UNCHANGED <<lastError, phase, faultVars>>
       \/ "error" \in Faults /\ Fail(r) /\ Goto(r, "disconnect")
       \/ "panic" \in Faults /\ Panic(r) /\ Goto(r, "disconnect")
    /\ UNCHANGED <<isRunning, runID, activeCancel, curStats, dashboardID, workVars,
                   connected, cancelled, historyVars, insightVars, stops>>

\* Mutant: the connection is closed after the loop, not deferred.
DisconnectUnlessPanic(r) ==
    /\ pc[r] = "disconnect"
    /\ connected' = IF r \in panicked THEN connected ELSE connected \ {r}
    /\ Goto(r, "clear")
    /\ UNCHANGED <<serverVars, workVars, cancelled, faultVars, historyVars, insightVars,
                   stops>>

\* The deferred calls, last in first out: disconnect ...
Disconnect(r) ==
    /\ pc[r] = "disconnect"
    /\ connected' = connected \ {r}
    /\ Goto(r, "clear")
    /\ UNCHANGED <<serverVars, workVars, cancelled, faultVars, historyVars, insightVars,
                   stops>>

\* Mutant: IsRunning is cleared before the connection is closed.
ClearFirst(r) ==
    /\ pc[r] \in {"disconnect", "clear"}
    /\ isRunning' = FALSE
    /\ phase' = IF lastError = Nil THEN "completed" ELSE phase
    /\ Goto(r, IF pc[r] = "disconnect" THEN "disconnect"
               ELSE IF r \in panicked THEN "recover" ELSE "capture")
    /\ UNCHANGED <<runID, lastError, activeCancel, curStats, dashboardID, workVars,
                   connected, cancelled, faultVars, historyVars, insightVars, stops>>

\* ... free the slot ...
Clear(r) ==
    /\ pc[r] = "clear"
    /\ isRunning' = FALSE
    /\ phase' = IF lastError = Nil THEN "completed" ELSE phase
    /\ Goto(r, IF r \in panicked THEN "recover" ELSE "capture")
    /\ UNCHANGED <<runID, lastError, activeCancel, curStats, dashboardID, workVars,
                   connected, cancelled, faultVars, historyVars, insightVars, stops>>

\* ... recover from a panic ...
Recover(r) ==
    /\ pc[r] = "recover"
    /\ isRunning' = FALSE /\ lastError' = r /\ phase' = "failed"
    /\ Goto(r, "capture")
    /\ UNCHANGED <<runID, activeCancel, curStats, dashboardID, workVars, connected,
                   cancelled, faultVars, historyVars, insightVars, stops>>

\* Mutant: the capture does not look at the phase.
CaptureAlways(r) ==
    /\ pc[r] = "capture"
    /\ snap' = [snap EXCEPT ![r] = [id |-> dashboardID, stats |-> curStats, status |-> phase,
                                    insights |-> insights]]
    /\ Goto(r, "save")
    /\ UNCHANGED <<serverVars, workVars, connected, cancelled, faultVars, history,
                   pending, insightVars, stops>>

\* ... and persistDashboard: the capture reads the server, not the run ...
Capture(r) ==
    /\ pc[r] = "capture"
    /\ IF dashboardID # Nil /\ curStats # Nil /\ phase \in {"completed", "failed"}
       THEN /\ snap' = [snap EXCEPT ![r] =
                           [id |-> dashboardID, stats |-> curStats, status |-> phase,
                            insights |-> insights]]
            /\ Goto(r, "save")
       ELSE Goto(r, "gone") /\ UNCHANGED snap
    /\ UNCHANGED <<serverVars, workVars, connected, cancelled, faultVars, history,
                   pending, insightVars, stops>>

\* ... and Save keeps the insights already stored or waiting for that id.
Save(r) ==
    /\ pc[r] = "save"
    /\ LET new   == snap[r]
           kept  == IF new.insights # Nil THEN new.insights ELSE history[new.id].insights
           final == IF kept # Nil THEN kept ELSE pending[new.id]
       IN  /\ history' = [history EXCEPT ![new.id] = [new EXCEPT !.insights = final]]
           /\ pending' = IF kept = Nil THEN [pending EXCEPT ![new.id] = Nil] ELSE pending
    /\ snap' = [snap EXCEPT ![r] = NoDashboard]
    /\ Goto(r, "gone")
    /\ UNCHANGED <<serverVars, workVars, connected, cancelled, faultVars, insightVars,
                   stops>>

\* Several servers: Plan.Run opens and closes the connections itself and
\* counts into the collectors of the targets ...
RunTargets(r) ==
    /\ pc[r] = "prepare" /\ kind[r] = "multi"
    /\ connected' = connected \cup {r}
    /\ collector' = [collector EXCEPT ![r] = r]
    /\ Goto(r, "targets")
    /\ UNCHANGED <<serverVars, kind, iter, counted, cancelled, faultVars, historyVars,
                   insightVars, stops>>

\* ... OnChange shows the collector of a target that starts running, unless
\* the targets run concurrently ...
NextTarget(r) ==
    /\ pc[r] = "targets"
    /\ curStats' = r
    /\ UNCHANGED <<isRunning, runID, phase, lastError, activeCancel, dashboardID, runVars,
                   historyVars, insightVars, stops>>

\* ... and closes the connection of every target, but not when preparing a
\* target panics.
TargetsEnd(r) ==
    /\ pc[r] = "targets"
    /\ \/ /\ connected' = connected \ {r}
          /\ \/ UNCHANGED faulty
             \/ "error" \in Faults /\ faulty' = faulty \cup {r}
          /\ Goto(r, "report")
          /\ UNCHANGED panicked
       \/ /\ "panic" \in Faults
          /\ connected' \in {connected, connected \ {r}}
          /\ Panic(r)
          /\ Goto(r, "recover")
    /\ UNCHANGED <<isRunning, runID, phase, lastError, activeCancel, curStats, dashboardID,
                   workVars, cancelled, historyVars, insightVars, stops>>

\* ... and the end of the run is one critical section.  The insights are
\* those of the run's reference target.
ReportTargets(r) ==
    /\ pc[r] = "report"
    /\ curStats' = r /\ insights' = r /\ isRunning' = FALSE
    /\ IF r \in faulty THEN lastError' = r /\ phase' = "failed"
       ELSE phase' = "completed" /\ UNCHANGED lastError
    /\ Goto(r, "capture")
    /\ UNCHANGED <<runID, activeCancel, dashboardID, workVars, connected, cancelled,
                   faultVars, historyVars, job, stops>>

Goroutine(r) ==
    \/ Prepare(r) \/ NextIteration(r) \/ BeginWork(r) \/ WorkEnds(r)
    \/ Disconnect(r) \/ Clear(r) \/ Recover(r) \/ Capture(r) \/ Save(r)
    \/ RunTargets(r) \/ TargetsEnd(r) \/ ReportTargets(r)

-----------------------------------------------------------------------------
(* The other requests, and the sampler *)

\* handleStop.  It cancels the last launched run and frees the slot at once.
Stop ==
    /\ stops < MaxStops /\ isRunning /\ activeCancel # Nil
    /\ cancelled' = cancelled \cup {activeCancel}
    /\ isRunning' = FALSE /\ phase' = "failed"
    /\ stops' = stops + 1
    /\ UNCHANGED <<runID, lastError, activeCancel, curStats, dashboardID, pc, workVars,
                   connected, faultVars, historyVars, insightVars>>

\* promoteToRunningLocked, on every chart sample and stats request.
Promote ==
    /\ isRunning /\ phase = "initializing" /\ curStats # Nil /\ curStats \in counted
    /\ phase' = "running"
    /\ UNCHANGED <<isRunning, runID, lastError, activeCancel, curStats, dashboardID,
                   runVars, historyVars, insightVars, stops>>

\* finalInsightsReport: read under the lock, analyse without it ...
ReadForInsights ==
    /\ job.pc = "idle" /\ curStats # Nil /\ ~isRunning /\ insights = Nil
    /\ job' = [pc |-> "analysed", stats |-> curStats, id |-> runID]
    /\ UNCHANGED <<serverVars, runVars, historyVars, insights, stops>>

\* Mutant: the report is kept without looking at RunID again.
KeepInsightsAnyway ==
    /\ job.pc = "analysed"
    /\ insights' = job.stats
    /\ job' = [job EXCEPT !.pc = "attach"]
    /\ UNCHANGED <<serverVars, runVars, historyVars, stops>>

\* ... keep the report if no run started meanwhile ...
KeepInsights ==
    /\ job.pc = "analysed"
    /\ IF ~isRunning /\ runID = job.id
       THEN insights' = job.stats /\ job' = [job EXCEPT !.pc = "attach"]
       ELSE job' = NoJob /\ UNCHANGED insights
    /\ UNCHANGED <<serverVars, runVars, historyVars, stops>>

\* ... and attach it to the dashboard the server names now, or leave it
\* pending until that dashboard is saved.
AttachInsights ==
    /\ job.pc = "attach"
    /\ IF dashboardID = Nil THEN UNCHANGED <<history, pending>>
       ELSE IF history[dashboardID] = NoDashboard
       THEN pending' = [pending EXCEPT ![dashboardID] = job.stats] /\ UNCHANGED history
       ELSE /\ history' = [history EXCEPT ![dashboardID].insights = job.stats]
            /\ pending' = [pending EXCEPT ![dashboardID] = Nil]
    /\ job' = NoJob
    /\ UNCHANGED <<serverVars, runVars, snap, insights, stops>>

InsightsRequest == ReadForInsights \/ KeepInsights \/ AttachInsights

\* The bounds are reached and every run is gone.
Rest ==
    /\ runID = MaxRuns /\ ~isRunning /\ \A r \in Runs : pc[r] = "gone"
    /\ UNCHANGED vars

Next ==
    \/ Admit
    \/ \E r \in Runs : StartRequest(r) \/ Goroutine(r) \/ CountOperation(r) \/ NextTarget(r)
    \/ Stop \/ Promote \/ InsightsRequest
    \/ Rest

Spec == Init /\ [][Next]_vars

\* The scheduler runs every goroutine that can run, a workload ends at its
\* duration, and requests end.  Nobody has to start or stop a run.
Fairness ==
    /\ \A r \in Runs : WF_vars(StartRequest(r)) /\ WF_vars(Goroutine(r))
    /\ WF_vars(KeepInsights \/ AttachInsights)

FairSpec == Spec /\ Fairness

-----------------------------------------------------------------------------
(* Properties *)

Steps == {"none", "validate", "connect", "launch", "prepare", "loop", "begin", "work",
          "disconnect", "clear", "targets", "report", "recover", "capture", "save", "gone"}

Phases == {"idle", "initializing", "running", "completed", "failed"}

Dashboards == [id : RunOrNil, stats : RunOrNil, status : Phases \cup {"none"},
               insights : RunOrNil]

ServerTypes ==
    /\ isRunning \in BOOLEAN /\ runID \in 0..MaxRuns /\ phase \in Phases
    /\ lastError \in RunOrNil /\ activeCancel \in RunOrNil
    /\ curStats \in RunOrNil /\ dashboardID \in RunOrNil

RunTypes ==
    /\ pc \in [Runs -> Steps] /\ kind \in [Runs -> {"workload", "multi"}]
    /\ iter \in [Runs -> 0..Iterations] /\ collector \in [Runs -> RunOrNil]
    /\ counted \subseteq RunOrNil /\ connected \subseteq Runs
    /\ cancelled \subseteq RunOrNil
    /\ faulty \subseteq Runs /\ panicked \subseteq Runs

HistoryTypes ==
    /\ snap \in [Runs -> Dashboards] /\ history \in [Runs -> Dashboards]
    /\ pending \in [Runs -> RunOrNil]

InsightTypes ==
    /\ insights \in RunOrNil
    /\ job \in [pc : {"idle", "analysed", "attach"}, stats : RunOrNil, id : RunOrNil]
    /\ stops \in 0..MaxStops

\* A dashboard that is about to be saved has an id, belongs to a run, and
\* has an outcome.
SavesAreComplete ==
    \A r \in Runs : pc[r] = "save" =>
        /\ snap[r].id # Nil /\ snap[r].stats # Nil
        /\ snap[r].status \in {"completed", "failed"}

\* The types of the server's variables, and what a save relies on.
TypeOK == ServerTypes /\ RunTypes /\ HistoryTypes /\ InsightTypes /\ SavesAreComplete

\* Steps of a run that still needs the slot IsRunning stands for.
Holding == {"validate", "connect", "launch", "prepare", "loop", "begin", "work",
            "disconnect", "clear", "targets", "report", "recover"}

\* No run was stopped by the user and none panicked.
Undisturbed == stops = 0 /\ panicked = {}

(***************************************************************************)
(* The server never stays "already running" for a run that is over: every  *)
(* way a run can end (each abort of the start request, an error in the     *)
(* preparation or the workload, a panic, a stop) frees the slot, and what  *)
(* an older run does after a newer one was admitted cannot take it back.   *)
(***************************************************************************)
RunningHasOwner == isRunning => runID \in Runs /\ pc[runID] \in Holding

\* "disconnect must finish before IsRunning is cleared, otherwise a new run
\* can start while the old connection closes" (comments at both goroutines).
OneConnection == Cardinality(connected) <= 1

(***************************************************************************)
(* As long as no run is stopped by the user or panics, a run that is       *)
(* starting, running or closing its connection is the one the slot stands  *)
(* for, whatever start requests and failures interleave; so there is only  *)
(* one, and only it is connected.                                          *)
(***************************************************************************)
OneRunAtATime ==
    Undisturbed =>
        \A r \in Runs : pc[r] \in Holding \/ r \in connected => isRunning /\ r = runID

(***************************************************************************)
(* An iteration counts into the collector of its own run, although it      *)
(* takes the server's collector, without the lock, after it looked at its  *)
(* context.                                                                *)
(***************************************************************************)
CountsIntoOwnCollector ==
    Undisturbed => \A r \in Runs : pc[r] \in {"work", "targets"} => collector[r] = r

(***************************************************************************)
(* The Insights tab is about the run on the dashboard, although the report *)
(* is built without the lock while new runs may start, fail and end.       *)
(***************************************************************************)
InsightsMatchCollector == Undisturbed /\ insights # Nil => insights = curStats

\* A run is shown as running "once its first operation is counted".
PromotedByOwnOperations == phase = "running" => runID \in counted

\* "RunHistory stores completed-run dashboards as one JSON file per run": a
\* run that counted an operation and is gone has its own dashboard, with its
\* own outcome.
EveryRunStored ==
    \A r \in Runs :
        pc[r] = "gone" /\ r \in counted =>
            /\ history[r].stats = r
            /\ history[r].status = IF r \in faulty THEN "failed" ELSE "completed"

\* Runs on several servers that panicked may leave a connection behind.
Leaked == {r \in panicked : kind[r] = "multi"}

(***************************************************************************)
(* When every admitted run is gone nothing is left connected (except by a  *)
(* panic while a target was prepared), and unless a run was stopped or     *)
(* panicked the lifecycle has settled: it is completed only without an     *)
(* error.                                                                  *)
(***************************************************************************)
Settled ==
    runID > 0 /\ (\A r \in 1..runID : pc[r] = "gone") =>
        /\ ~isRunning /\ connected \subseteq Leaked
        /\ Undisturbed => /\ phase \in {"completed", "failed"}
                          /\ phase = "completed" => lastError = Nil

\* Every admitted run ends, and its connection with it.
EveryRunEnds ==
    []<>(\A r \in Runs : pc[r] \in {"none", "gone"} /\ r \notin connected \ Leaked)

=============================================================================
