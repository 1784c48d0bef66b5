---------------------------- MODULE ServerProofs ----------------------------
(***************************************************************************)
(* Proofs about what the web server makes of its runs: its slot, its       *)
(* collectors and its insights, for any number of runs, stops and          *)
(* iterations (RunControl), and the trend data it keeps of them, for every *)
(* limit, setting, run and file (TrendHistory).                            *)
(*                                                                         *)
(* The invariant of RunControl has two halves.  What holds whatever        *)
(* happens: types, runs are admitted in order, the slot has an owner, and  *)
(* a connection belongs to a run between its connect and its disconnect.   *)
(* What holds as long as nobody stops a run and none panics (QuietInv):    *)
(* then the slot excludes, so the collector, the error and the phase the   *)
(* server shows are those of the one run that holds it.                    *)
(*                                                                         *)
(* The trend data.  Pruning makes anything that a file can hold well       *)
(* formed (PruneIs), whatever was merged into it before, and the size      *)
(* limit only takes away (BoundIs); so the limits need no help from the    *)
(* state before a call, but the two calls that do not prune (UpdateRun,    *)
(* DeleteRun), for which it is inductive.  Which runs stay is settled by   *)
(* the order of the shapes: the newest run is in a shape that only shapes  *)
(* with pinned runs precede.                                               *)
(***************************************************************************)
EXTENDS RunControl, TrendHistory, FiniteSetTheorems, SequenceTheorems, WellFoundedInduction, TLAPS


Types == ServerTypes /\ RunTypes /\ HistoryTypes /\ InsightTypes

\* Run numbers start at 1, 0 is nil.
LEMMA RunNumbers ==
    /\ Nil \in RunOrNil /\ Nil \notin Runs
    /\ \A r \in Runs : r \in RunOrNil /\ r # Nil
    /\ \A r \in RunOrNil : r # Nil => r \in Runs
BY RunControlAssumption DEF Runs, Nil, RunOrNil

\* The server starts with values of the right types.
LEMMA InitTypes == Init => Types
<1> SUFFICES ASSUME Init PROVE Types
  OBVIOUS
<1> USE RunControlAssumption, RunNumbers DEF Init
<1>1. ServerTypes
  <2>1. isRunning \in BOOLEAN
    OBVIOUS
  <2>2. runID \in 0..MaxRuns
    OBVIOUS
  <2>3. QED
    BY <2>1, <2>2 DEF ServerTypes, Phases
<1>2. RunTypes
  BY DEF RunTypes, Steps
<1>3. HistoryTypes
  BY DEF HistoryTypes, Dashboards, NoDashboard
<1>4. InsightTypes
  BY DEF InsightTypes, NoJob
<1>5. QED
  BY <1>1, <1>2, <1>3, <1>4 DEF Types

\* Every step keeps the types of the server's own fields ...
LEMMA ServerTypesStep == Types /\ [Next]_vars => ServerTypes'
<1> SUFFICES ASSUME Types, [Next]_vars PROVE ServerTypes'
  OBVIOUS
<1> USE RunControlAssumption, RunNumbers DEF Types, Goto,
       serverVars, runVars, workVars, faultVars, historyVars, insightVars
<1>1. CASE UNCHANGED vars
  BY <1>1 DEF vars, ServerTypes
<1>2. CASE Admit
  BY <1>2 DEF Admit, ServerTypes, Phases, Runs
<1>3. ASSUME NEW r \in Runs, StartFails(r) PROVE ServerTypes'
  BY <1>3 DEF Abort, StartFails, ServerTypes, Phases
<1>4. ASSUME NEW r \in Runs, NameDashboard(r) PROVE ServerTypes'
  BY <1>4 DEF NameDashboard, ServerTypes, Phases
<1>5. ASSUME NEW r \in Runs, Connect(r) PROVE ServerTypes'
  BY <1>5 DEF Connect, ServerTypes, Phases
<1>6. ASSUME NEW r \in Runs, Launch(r) PROVE ServerTypes'
  BY <1>6 DEF Launch, ServerTypes, Phases
<1>7. ASSUME NEW r \in Runs, Prepare(r) PROVE ServerTypes'
  BY <1>7 DEF Fail, Panic, Prepare, ServerTypes, Phases
<1>8. ASSUME NEW r \in Runs, NextIteration(r) PROVE ServerTypes'
  BY <1>8 DEF NextIteration, ServerTypes, Phases
<1>9. ASSUME NEW r \in Runs, BeginWork(r) PROVE ServerTypes'
  BY <1>9 DEF BeginWork, ServerTypes, Phases
<1>10. ASSUME NEW r \in Runs, WorkEnds(r) PROVE ServerTypes'
  BY <1>10 DEF Fail, Panic, WorkEnds, ServerTypes, Phases
<1>11. ASSUME NEW r \in Runs, Disconnect(r) PROVE ServerTypes'
  BY <1>11 DEF Disconnect, ServerTypes, Phases
<1>12. ASSUME NEW r \in Runs, Clear(r) PROVE ServerTypes'
  BY <1>12 DEF Clear, ServerTypes, Phases
<1>13. ASSUME NEW r \in Runs, Recover(r) PROVE ServerTypes'
  BY <1>13 DEF Recover, ServerTypes, Phases
<1>14. ASSUME NEW r \in Runs, Capture(r) PROVE ServerTypes'
  BY <1>14 DEF Capture, ServerTypes, Phases
<1>15. ASSUME NEW r \in Runs, Save(r) PROVE ServerTypes'
  BY <1>15 DEF Save, ServerTypes, Phases
<1>16. ASSUME NEW r \in Runs, RunTargets(r) PROVE ServerTypes'
  BY <1>16 DEF RunTargets, ServerTypes, Phases
<1>17. ASSUME NEW r \in Runs, TargetsEnd(r) PROVE ServerTypes'
  BY <1>17 DEF Panic, TargetsEnd, ServerTypes, Phases
<1>18. ASSUME NEW r \in Runs, ReportTargets(r) PROVE ServerTypes'
  BY <1>18 DEF ReportTargets, ServerTypes, Phases
<1>19. ASSUME NEW r \in Runs, CountOperation(r) PROVE ServerTypes'
  BY <1>19 DEF CountOperation, ServerTypes, Phases
<1>20. ASSUME NEW r \in Runs, NextTarget(r) PROVE ServerTypes'
  BY <1>20 DEF NextTarget, ServerTypes, Phases
<1>21. CASE Stop
  BY <1>21 DEF Stop, ServerTypes, Phases
<1>22. CASE Promote
  BY <1>22 DEF Promote, ServerTypes, Phases
<1>23. CASE ReadForInsights
  BY <1>23 DEF RunOrNil, ReadForInsights, ServerTypes, Phases
<1>24. CASE KeepInsights
  BY <1>24 DEF KeepInsights, ServerTypes, Phases
<1>25. CASE AttachInsights
  BY <1>25 DEF AttachInsights, ServerTypes, Phases
<1>26. QED
  BY <1>1, <1>2, <1>3, <1>4, <1>5, <1>6, <1>7, <1>8, <1>9, <1>10, <1>11, <1>12,
     <1>13, <1>14, <1>15, <1>16, <1>17, <1>18, <1>19, <1>20, <1>21, <1>22,
     <1>23, <1>24, <1>25
     DEF Next, StartRequest, Goroutine, InsightsRequest, Rest

\* ... of the runs ...
LEMMA RunTypesStep == Types /\ [Next]_vars => RunTypes'
<1> SUFFICES ASSUME Types, [Next]_vars PROVE RunTypes'
  OBVIOUS
<1> USE RunControlAssumption, RunNumbers DEF Types, Goto,
       serverVars, runVars, workVars, faultVars, historyVars, insightVars
<1>1. CASE UNCHANGED vars
  BY <1>1 DEF vars, RunTypes
<1>2. CASE Admit
  BY <1>2 DEF Admit, RunTypes, Steps, ServerTypes, Runs
<1>3. ASSUME NEW r \in Runs, StartFails(r) PROVE RunTypes'
  BY <1>3 DEF Abort, StartFails, RunTypes, Steps, ServerTypes
<1>4. ASSUME NEW r \in Runs, NameDashboard(r) PROVE RunTypes'
  BY <1>4 DEF NameDashboard, RunTypes, Steps, ServerTypes
<1>5. ASSUME NEW r \in Runs, Connect(r) PROVE RunTypes'
  BY <1>5 DEF Connect, RunTypes, Steps, ServerTypes
<1>6. ASSUME NEW r \in Runs, Launch(r) PROVE RunTypes'
  BY <1>6 DEF Launch, RunTypes, Steps, ServerTypes
<1>7. ASSUME NEW r \in Runs, Prepare(r) PROVE RunTypes'
  BY <1>7 DEF Fail, Panic, Prepare, RunTypes, Steps, ServerTypes
<1>8. ASSUME NEW r \in Runs, NextIteration(r) PROVE RunTypes'
  <2>1. iter[r] \in 0..Iterations
    BY DEF RunTypes
  <2>2. iter[r] # Iterations => iter[r] + 1 \in 0..Iterations
    BY <2>1
  <2>3. iter' \in [Runs -> 0..Iterations]
    BY <1>8, <2>2 DEF NextIteration, RunTypes
  <2>4. QED
    BY <1>8, <2>3 DEF NextIteration, RunTypes, Steps
<1>9. ASSUME NEW r \in Runs, BeginWork(r) PROVE RunTypes'
  BY <1>9 DEF BeginWork, RunTypes, Steps, ServerTypes
<1>10. ASSUME NEW r \in Runs, WorkEnds(r) PROVE RunTypes'
  BY <1>10 DEF Fail, Panic, WorkEnds, RunTypes, Steps, ServerTypes
<1>11. ASSUME NEW r \in Runs, Disconnect(r) PROVE RunTypes'
  BY <1>11 DEF Disconnect, RunTypes, Steps, ServerTypes
<1>12. ASSUME NEW r \in Runs, Clear(r) PROVE RunTypes'
  BY <1>12 DEF Clear, RunTypes, Steps, ServerTypes
<1>13. ASSUME NEW r \in Runs, Recover(r) PROVE RunTypes'
  BY <1>13 DEF Recover, RunTypes, Steps, ServerTypes
<1>14. ASSUME NEW r \in Runs, Capture(r) PROVE RunTypes'
  BY <1>14 DEF Capture, RunTypes, Steps, ServerTypes
<1>15. ASSUME NEW r \in Runs, Save(r) PROVE RunTypes'
  BY <1>15 DEF Save, RunTypes, Steps, ServerTypes
<1>16. ASSUME NEW r \in Runs, RunTargets(r) PROVE RunTypes'
  BY <1>16 DEF RunTargets, RunTypes, Steps, ServerTypes
<1>17. ASSUME NEW r \in Runs, TargetsEnd(r) PROVE RunTypes'
  BY <1>17 DEF Panic, TargetsEnd, RunTypes, Steps, ServerTypes
<1>18. ASSUME NEW r \in Runs, ReportTargets(r) PROVE RunTypes'
  BY <1>18 DEF ReportTargets, RunTypes, Steps, ServerTypes
<1>19. ASSUME NEW r \in Runs, CountOperation(r) PROVE RunTypes'
  BY <1>19 DEF CountOperation, RunTypes, Steps, ServerTypes
<1>20. ASSUME NEW r \in Runs, NextTarget(r) PROVE RunTypes'
  BY <1>20 DEF NextTarget, RunTypes, Steps, ServerTypes
<1>21. CASE Stop
  BY <1>21 DEF Stop, RunTypes, Steps, ServerTypes
<1>22. CASE Promote
  BY <1>22 DEF Promote, RunTypes, Steps, ServerTypes
<1>23. CASE ReadForInsights
  BY <1>23 DEF RunOrNil, ReadForInsights, RunTypes, Steps, ServerTypes
<1>24. CASE KeepInsights
  BY <1>24 DEF KeepInsights, RunTypes, Steps, ServerTypes
<1>25. CASE AttachInsights
  BY <1>25 DEF AttachInsights, RunTypes, Steps, ServerTypes
<1>26. QED
  BY <1>1, <1>2, <1>3, <1>4, <1>5, <1>6, <1>7, <1>8, <1>9, <1>10, <1>11, <1>12,
     <1>13, <1>14, <1>15, <1>16, <1>17, <1>18, <1>19, <1>20, <1>21, <1>22,
     <1>23, <1>24, <1>25
     DEF Next, StartRequest, Goroutine, InsightsRequest, Rest

\* ... of the dashboards ...
LEMMA HistoryTypesStep == TypeOK /\ [Next]_vars => HistoryTypes'
<1> SUFFICES ASSUME TypeOK, [Next]_vars PROVE HistoryTypes'
  OBVIOUS
<1> USE RunControlAssumption, RunNumbers DEF TypeOK, Goto,
       serverVars, runVars, workVars, faultVars, historyVars, insightVars
<1>1. CASE UNCHANGED vars
  BY <1>1 DEF vars, HistoryTypes
<1>2. CASE Admit
  BY <1>2 DEF Admit, HistoryTypes, Dashboards, NoDashboard, ServerTypes, Runs
<1>3. ASSUME NEW r \in Runs, StartFails(r) PROVE HistoryTypes'
  BY <1>3 DEF Abort, StartFails, HistoryTypes, Dashboards, NoDashboard, ServerTypes
<1>4. ASSUME NEW r \in Runs, NameDashboard(r) PROVE HistoryTypes'
  BY <1>4 DEF NameDashboard, HistoryTypes, Dashboards, NoDashboard, ServerTypes
<1>5. ASSUME NEW r \in Runs, Connect(r) PROVE HistoryTypes'
  BY <1>5 DEF Connect, HistoryTypes, Dashboards, NoDashboard, ServerTypes
<1>6. ASSUME NEW r \in Runs, Launch(r) PROVE HistoryTypes'
  BY <1>6 DEF Launch, HistoryTypes, Dashboards, NoDashboard, ServerTypes
<1>7. ASSUME NEW r \in Runs, Prepare(r) PROVE HistoryTypes'
  BY <1>7 DEF Fail, Panic, Prepare, HistoryTypes, Dashboards, NoDashboard, ServerTypes
<1>8. ASSUME NEW r \in Runs, NextIteration(r) PROVE HistoryTypes'
  BY <1>8 DEF NextIteration, HistoryTypes, Dashboards, NoDashboard, ServerTypes
<1>9. ASSUME NEW r \in Runs, BeginWork(r) PROVE HistoryTypes'
  BY <1>9 DEF BeginWork, HistoryTypes, Dashboards, NoDashboard, ServerTypes
<1>10. ASSUME NEW r \in Runs, WorkEnds(r) PROVE HistoryTypes'
  BY <1>10 DEF Fail, Panic, WorkEnds, HistoryTypes, Dashboards, NoDashboard, ServerTypes
<1>11. ASSUME NEW r \in Runs, Disconnect(r) PROVE HistoryTypes'
  BY <1>11 DEF Disconnect, HistoryTypes, Dashboards, NoDashboard, ServerTypes
<1>12. ASSUME NEW r \in Runs, Clear(r) PROVE HistoryTypes'
  BY <1>12 DEF Clear, HistoryTypes, Dashboards, NoDashboard, ServerTypes
<1>13. ASSUME NEW r \in Runs, Recover(r) PROVE HistoryTypes'
  BY <1>13 DEF Recover, HistoryTypes, Dashboards, NoDashboard, ServerTypes
<1>14. ASSUME NEW r \in Runs, Capture(r) PROVE HistoryTypes'
  <2>1. phase \in Phases /\ dashboardID \in RunOrNil /\ curStats \in RunOrNil
    BY DEF ServerTypes
  <2>2. insights \in RunOrNil
    BY DEF InsightTypes
  <2>3. history' = history /\ pending' = pending
    BY <1>14 DEF Capture
    <2>4. [id |-> dashboardID, stats |-> curStats, status |-> phase, insights |->
       insights]
           \in Dashboards
    BY <2>1, <2>2 DEF Dashboards
  <2>5. snap' \in [Runs -> Dashboards]
    BY <1>14, <2>4 DEF Capture, HistoryTypes
  <2>6. QED
    BY <2>3, <2>5 DEF HistoryTypes
<1>15. ASSUME NEW r \in Runs, Save(r) PROVE HistoryTypes'
  <2> DEFINE new   == snap[r]
                          kept  == IF new.insights # Nil THEN new.insights ELSE
                  history[new.id].insights
             final == IF kept # Nil THEN kept ELSE pending[new.id]
  <2>1. new \in Dashboards /\ new.id \in Runs
    BY <1>15 DEF Save, HistoryTypes, SavesAreComplete, Dashboards
  <2>2. kept \in RunOrNil /\ final \in RunOrNil
    BY <2>1 DEF HistoryTypes, Dashboards
  <2>3. [new EXCEPT !.insights = final] \in Dashboards
    BY <2>1, <2>2 DEF Dashboards
  <2>4. history' \in [Runs -> Dashboards]
    BY <1>15, <2>1, <2>3 DEF Save, HistoryTypes
  <2>5. pending' \in [Runs -> RunOrNil]
    BY <1>15, <2>1 DEF Save, HistoryTypes
  <2>6. snap' \in [Runs -> Dashboards]
    BY <1>15 DEF Save, HistoryTypes, Dashboards, NoDashboard
  <2>7. QED
    BY <2>4, <2>5, <2>6 DEF HistoryTypes
<1>16. ASSUME NEW r \in Runs, RunTargets(r) PROVE HistoryTypes'
  BY <1>16 DEF RunTargets, HistoryTypes, Dashboards, NoDashboard, ServerTypes
<1>17. ASSUME NEW r \in Runs, TargetsEnd(r) PROVE HistoryTypes'
  BY <1>17 DEF Panic, TargetsEnd, HistoryTypes, Dashboards, NoDashboard, ServerTypes
<1>18. ASSUME NEW r \in Runs, ReportTargets(r) PROVE HistoryTypes'
  BY <1>18 DEF ReportTargets, HistoryTypes, Dashboards, NoDashboard, ServerTypes
<1>19. ASSUME NEW r \in Runs, CountOperation(r) PROVE HistoryTypes'
  BY <1>19 DEF CountOperation, HistoryTypes, Dashboards, NoDashboard, ServerTypes
<1>20. ASSUME NEW r \in Runs, NextTarget(r) PROVE HistoryTypes'
  BY <1>20 DEF NextTarget, HistoryTypes, Dashboards, NoDashboard, ServerTypes
<1>21. CASE Stop
  BY <1>21 DEF Stop, HistoryTypes, Dashboards, NoDashboard, ServerTypes
<1>22. CASE Promote
  BY <1>22 DEF Promote, HistoryTypes, Dashboards, NoDashboard, ServerTypes
<1>23. CASE ReadForInsights
    BY <1>23 DEF RunOrNil, ReadForInsights, HistoryTypes, Dashboards, NoDashboard,
       ServerTypes
<1>24. CASE KeepInsights
  BY <1>24 DEF KeepInsights, HistoryTypes, Dashboards, NoDashboard, ServerTypes
<1>25. CASE AttachInsights
  <2>1. job.stats \in RunOrNil
    BY DEF InsightTypes
  <2>2. CASE dashboardID = Nil
    BY <1>25, <2>2 DEF AttachInsights, HistoryTypes
  <2>3. CASE dashboardID # Nil
    <3>1. dashboardID \in Runs
      BY <2>3 DEF ServerTypes
    <3>2. [history[dashboardID] EXCEPT !.insights = job.stats] \in Dashboards
      BY <2>1, <3>1 DEF HistoryTypes, Dashboards
    <3>3. QED
      BY <1>25, <2>1, <2>3, <3>1, <3>2 DEF AttachInsights, HistoryTypes
  <2>4. QED
    BY <2>2, <2>3
<1>26. QED
  BY <1>1, <1>2, <1>3, <1>4, <1>5, <1>6, <1>7, <1>8, <1>9, <1>10, <1>11, <1>12,
     <1>13, <1>14, <1>15, <1>16, <1>17, <1>18, <1>19, <1>20, <1>21, <1>22,
     <1>23, <1>24, <1>25
     DEF Next, StartRequest, Goroutine, InsightsRequest, Rest

\* ... and of the insights.
LEMMA InsightTypesStep == Types /\ [Next]_vars => InsightTypes'
<1> SUFFICES ASSUME Types, [Next]_vars PROVE InsightTypes'
  OBVIOUS
<1> USE RunControlAssumption, RunNumbers DEF Types, Goto,
       serverVars, runVars, workVars, faultVars, historyVars, insightVars
<1>1. CASE UNCHANGED vars
  BY <1>1 DEF vars, InsightTypes
<1>2. CASE Admit
  BY <1>2 DEF Admit, InsightTypes, NoJob, ServerTypes, Runs
<1>3. ASSUME NEW r \in Runs, StartFails(r) PROVE InsightTypes'
  BY <1>3 DEF Abort, StartFails, InsightTypes, NoJob, ServerTypes
<1>4. ASSUME NEW r \in Runs, NameDashboard(r) PROVE InsightTypes'
  BY <1>4 DEF NameDashboard, InsightTypes, NoJob, ServerTypes
<1>5. ASSUME NEW r \in Runs, Connect(r) PROVE InsightTypes'
  BY <1>5 DEF Connect, InsightTypes, NoJob, ServerTypes
<1>6. ASSUME NEW r \in Runs, Launch(r) PROVE InsightTypes'
  BY <1>6 DEF Launch, InsightTypes, NoJob, ServerTypes
<1>7. ASSUME NEW r \in Runs, Prepare(r) PROVE InsightTypes'
  BY <1>7 DEF Fail, Panic, Prepare, InsightTypes, NoJob, ServerTypes
<1>8. ASSUME NEW r \in Runs, NextIteration(r) PROVE InsightTypes'
  BY <1>8 DEF NextIteration, InsightTypes, NoJob, ServerTypes
<1>9. ASSUME NEW r \in Runs, BeginWork(r) PROVE InsightTypes'
  BY <1>9 DEF BeginWork, InsightTypes, NoJob, ServerTypes
<1>10. ASSUME NEW r \in Runs, WorkEnds(r) PROVE InsightTypes'
  BY <1>10 DEF Fail, Panic, WorkEnds, InsightTypes, NoJob, ServerTypes
<1>11. ASSUME NEW r \in Runs, Disconnect(r) PROVE InsightTypes'
  BY <1>11 DEF Disconnect, InsightTypes, NoJob, ServerTypes
<1>12. ASSUME NEW r \in Runs, Clear(r) PROVE InsightTypes'
  BY <1>12 DEF Clear, InsightTypes, NoJob, ServerTypes
<1>13. ASSUME NEW r \in Runs, Recover(r) PROVE InsightTypes'
  BY <1>13 DEF Recover, InsightTypes, NoJob, ServerTypes
<1>14. ASSUME NEW r \in Runs, Capture(r) PROVE InsightTypes'
  BY <1>14 DEF Capture, InsightTypes, NoJob, ServerTypes
<1>15. ASSUME NEW r \in Runs, Save(r) PROVE InsightTypes'
  BY <1>15 DEF Save, InsightTypes, NoJob, ServerTypes
<1>16. ASSUME NEW r \in Runs, RunTargets(r) PROVE InsightTypes'
  BY <1>16 DEF RunTargets, InsightTypes, NoJob, ServerTypes
<1>17. ASSUME NEW r \in Runs, TargetsEnd(r) PROVE InsightTypes'
  BY <1>17 DEF Panic, TargetsEnd, InsightTypes, NoJob, ServerTypes
<1>18. ASSUME NEW r \in Runs, ReportTargets(r) PROVE InsightTypes'
  BY <1>18 DEF ReportTargets, InsightTypes, NoJob, ServerTypes
<1>19. ASSUME NEW r \in Runs, CountOperation(r) PROVE InsightTypes'
  BY <1>19 DEF CountOperation, InsightTypes, NoJob, ServerTypes
<1>20. ASSUME NEW r \in Runs, NextTarget(r) PROVE InsightTypes'
  BY <1>20 DEF NextTarget, InsightTypes, NoJob, ServerTypes
<1>21. CASE Stop
  BY <1>21 DEF Stop, InsightTypes, NoJob, ServerTypes
<1>22. CASE Promote
  BY <1>22 DEF Promote, InsightTypes, NoJob, ServerTypes
<1>23. CASE ReadForInsights
  BY <1>23 DEF RunOrNil, ReadForInsights, InsightTypes, NoJob, ServerTypes
<1>24. CASE KeepInsights
  BY <1>24 DEF KeepInsights, InsightTypes, NoJob, ServerTypes
<1>25. CASE AttachInsights
  BY <1>25 DEF AttachInsights, InsightTypes, NoJob, ServerTypes
<1>26. QED
  BY <1>1, <1>2, <1>3, <1>4, <1>5, <1>6, <1>7, <1>8, <1>9, <1>10, <1>11, <1>12,
     <1>13, <1>14, <1>15, <1>16, <1>17, <1>18, <1>19, <1>20, <1>21, <1>22,
     <1>23, <1>24, <1>25
     DEF Next, StartRequest, Goroutine, InsightsRequest, Rest

-----------------------------------------------------------------------------
(* The inductive invariant *)

\* Steps at which a run has its collector on the dashboard.
Shown == {"prepare", "loop", "begin", "work"}

\* Steps at which a run may have a connection.
MayConnect == {"launch", "prepare", "loop", "begin", "work", "disconnect", "targets"}

\* Runs are admitted in the order of their numbers.
FreshInv == \A r \in Runs : r > runID => pc[r] = "none"

ConnectionInv ==
    /\ \A r \in Runs : pc[r] = "targets" => kind[r] = "multi"
    /\ \A r \in connected \ Leaked : pc[r] \in MayConnect

\* While nobody interferes, whoever needs the slot has it ...
HolderInv == \A r \in Runs : pc[r] \in Holding => isRunning /\ r = runID

\* ... and the collector on the dashboard ...
ShownInv ==
    \A r \in Runs :
        /\ pc[r] \in Shown => curStats = r
        /\ pc[r] \in {"work", "targets"} => collector[r] = r

\* ... has no error before its workload ends, and the phase of its error ...
ErrorInv ==
    \A r \in Runs :
        /\ pc[r] \in Shown \cup {"targets", "report"} => lastError = Nil
        /\ pc[r] \in {"disconnect", "clear"} /\ lastError # Nil => phase = "failed"

\* ... which is how it leaves the server behind.
OutcomeInv ==
    ~isRunning /\ runID > 0 =>
        phase \in {"completed", "failed"} /\ (phase = "completed" => lastError = Nil)

\* A report is kept only when no run was admitted since it was begun.
InsightInv ==
    /\ isRunning => insights = Nil
    /\ insights # Nil => insights = curStats
    /\ job.pc = "analysed" =>
          /\ job.id <= runID
          /\ job.id = runID => ~isRunning /\ job.stats = curStats

QuietInv == HolderInv /\ ShownInv /\ ErrorInv /\ OutcomeInv /\ InsightInv

Inv == TypeOK /\ FreshInv /\ RunningHasOwner /\ ConnectionInv /\ (Undisturbed =>
     QuietInv)

\* Stops and panics are never undone.
LEMMA QuietBefore == Types /\ [Next]_vars /\ Undisturbed' => Undisturbed
<1> SUFFICES ASSUME Types, [Next]_vars, Undisturbed' PROVE Undisturbed
  OBVIOUS
<1> USE DEF Undisturbed, runVars, faultVars
<1>1. stops \in Nat
  BY RunControlAssumption DEF Types, InsightTypes
<1>2. CASE UNCHANGED vars
  BY <1>2 DEF vars
<1>3. CASE Admit
  BY <1>3 DEF Admit
<1>4. ASSUME NEW r \in Runs, StartRequest(r) PROVE Undisturbed
  BY <1>4 DEF StartRequest, StartFails, Abort, NameDashboard, Connect, Launch
<1>5. ASSUME NEW r \in Runs, Prepare(r) \/ NextIteration(r) \/ BeginWork(r) \/ WorkEnds(r)
       PROVE Undisturbed
  BY <1>5 DEF Prepare, NextIteration, BeginWork, WorkEnds, Fail, Panic
<1>6. ASSUME NEW r \in Runs, Disconnect(r) \/ Clear(r) \/ Recover(r) PROVE Undisturbed
  BY <1>6 DEF Disconnect, Clear, Recover
<1>7. ASSUME NEW r \in Runs, Capture(r) PROVE Undisturbed
  BY <1>7 DEF Capture
<1>8. ASSUME NEW r \in Runs, Save(r) PROVE Undisturbed
  BY <1>8 DEF Save
<1>9. ASSUME NEW r \in Runs, RunTargets(r) \/ TargetsEnd(r) \/ ReportTargets(r)
       PROVE Undisturbed
  BY <1>9 DEF RunTargets, TargetsEnd, ReportTargets, Panic
<1>10. ASSUME NEW r \in Runs, CountOperation(r) \/ NextTarget(r) PROVE Undisturbed
  BY <1>10 DEF CountOperation, NextTarget
<1>11. CASE Stop \/ Promote
  BY <1>1, <1>11 DEF Stop, Promote
<1>12. CASE InsightsRequest
    BY <1>1, <1>12 DEF InsightsRequest, ReadForInsights, KeepInsights, AttachInsights,
       NoJob
<1>13. QED
  BY <1>2, <1>3, <1>4, <1>5, <1>6, <1>7, <1>8, <1>9, <1>10, <1>11, <1>12
     DEF Next, Goroutine, Rest

\* A run has not begun before it is admitted.
LEMMA FreshStep ==
    Types /\ FreshInv /\ [Next]_vars => FreshInv'
<1> SUFFICES ASSUME Types, FreshInv, [Next]_vars
             PROVE  FreshInv'
  OBVIOUS
<1> USE RunNumbers DEF FreshInv, Goto, serverVars, runVars, workVars, faultVars,
       historyVars, insightVars
<1>0. /\ pc \in [Runs -> Steps] /\ runID \in Nat /\ MaxRuns \in Nat
      /\ connected \subseteq Runs
  BY RunControlAssumption DEF Types, ServerTypes, RunTypes, InsightTypes
<1>1. CASE UNCHANGED vars
  BY <1>1 DEF vars
<1>2. CASE Admit
  BY <1>0, <1>2 DEF Admit, Runs
<1>3. ASSUME NEW r \in Runs, StartRequest(r) PROVE FreshInv'
  BY <1>0, <1>3 DEF StartRequest, StartFails, Abort, NameDashboard, Connect, Launch
<1>4. ASSUME NEW r \in Runs, Prepare(r) \/ NextIteration(r) \/ BeginWork(r) \/ WorkEnds(r)
       PROVE FreshInv'
  BY <1>0, <1>4 DEF Prepare, NextIteration, BeginWork, WorkEnds, Fail, Panic
<1>5. ASSUME NEW r \in Runs, Disconnect(r) \/ Clear(r) \/ Recover(r) PROVE FreshInv'
  BY <1>0, <1>5 DEF Disconnect, Clear, Recover
<1>6. ASSUME NEW r \in Runs, Capture(r) PROVE FreshInv'
  BY <1>0, <1>6 DEF Capture
<1>7. ASSUME NEW r \in Runs, Save(r) PROVE FreshInv'
  BY <1>0, <1>7 DEF Save
<1>8. ASSUME NEW r \in Runs, RunTargets(r) \/ TargetsEnd(r) \/ ReportTargets(r)
       PROVE FreshInv'
  BY <1>0, <1>8 DEF RunTargets, TargetsEnd, ReportTargets, Panic
<1>9. ASSUME NEW r \in Runs, CountOperation(r) \/ NextTarget(r) PROVE FreshInv'
  BY <1>0, <1>9 DEF CountOperation, NextTarget
<1>10. CASE Stop \/ Promote
  BY <1>0, <1>10 DEF Stop, Promote
<1>11. CASE InsightsRequest
    BY <1>0, <1>11 DEF InsightsRequest, ReadForInsights, KeepInsights, AttachInsights,
       NoJob
<1>12. QED
  BY <1>1, <1>2, <1>3, <1>4, <1>5, <1>6, <1>7, <1>8, <1>9, <1>10, <1>11
     DEF Next, Goroutine, Rest

\* The slot is never left to a run that does not need it.
LEMMA OwnerStep ==
    Types /\ FreshInv /\ RunningHasOwner /\ [Next]_vars => RunningHasOwner'
<1> SUFFICES ASSUME Types, FreshInv, RunningHasOwner, [Next]_vars
             PROVE  RunningHasOwner'
  OBVIOUS
<1> USE RunNumbers DEF RunningHasOwner, Holding, Goto, serverVars, runVars, workVars,
     faultVars,
       historyVars, insightVars
<1>0. /\ pc \in [Runs -> Steps] /\ runID \in Nat /\ MaxRuns \in Nat
      /\ connected \subseteq Runs
  BY RunControlAssumption DEF Types, ServerTypes, RunTypes, InsightTypes
<1>1. CASE UNCHANGED vars
  BY <1>1 DEF vars
<1>2. CASE Admit
  BY <1>0, <1>2 DEF Admit, Runs
<1>3. ASSUME NEW r \in Runs, StartRequest(r) PROVE RunningHasOwner'
  BY <1>0, <1>3 DEF StartRequest, StartFails, Abort, NameDashboard, Connect, Launch
<1>4. ASSUME NEW r \in Runs, Prepare(r) \/ NextIteration(r) \/ BeginWork(r) \/ WorkEnds(r)
       PROVE RunningHasOwner'
  BY <1>0, <1>4 DEF Prepare, NextIteration, BeginWork, WorkEnds, Fail, Panic
<1>5. ASSUME NEW r \in Runs, Disconnect(r) \/ Clear(r) \/ Recover(r)
       PROVE RunningHasOwner'
  BY <1>0, <1>5 DEF Disconnect, Clear, Recover
<1>6. ASSUME NEW r \in Runs, Capture(r) PROVE RunningHasOwner'
  BY <1>0, <1>6 DEF Capture
<1>7. ASSUME NEW r \in Runs, Save(r) PROVE RunningHasOwner'
  BY <1>0, <1>7 DEF Save
<1>8. ASSUME NEW r \in Runs, RunTargets(r) \/ TargetsEnd(r) \/ ReportTargets(r)
       PROVE RunningHasOwner'
  BY <1>0, <1>8 DEF RunTargets, TargetsEnd, ReportTargets, Panic
<1>9. ASSUME NEW r \in Runs, CountOperation(r) \/ NextTarget(r) PROVE RunningHasOwner'
  BY <1>0, <1>9 DEF CountOperation, NextTarget
<1>10. CASE Stop \/ Promote
  BY <1>0, <1>10 DEF Stop, Promote
<1>11. CASE InsightsRequest
    BY <1>0, <1>11 DEF InsightsRequest, ReadForInsights, KeepInsights, AttachInsights,
       NoJob
<1>12. QED
  BY <1>1, <1>2, <1>3, <1>4, <1>5, <1>6, <1>7, <1>8, <1>9, <1>10, <1>11
     DEF Next, Goroutine, Rest

\* Only a run between its connect and its disconnect is connected.
LEMMA ConnectionStep ==
    Types /\ FreshInv /\ ConnectionInv /\ [Next]_vars => ConnectionInv'
<1> SUFFICES ASSUME Types, FreshInv, ConnectionInv, [Next]_vars
             PROVE  ConnectionInv'
  OBVIOUS
<1> USE RunNumbers DEF FreshInv, ConnectionInv, Leaked, MayConnect, Goto, serverVars,
     runVars, workVars, faultVars,
       historyVars, insightVars
<1>0. /\ pc \in [Runs -> Steps] /\ runID \in Nat /\ MaxRuns \in Nat
      /\ connected \subseteq Runs /\ kind \in [Runs -> {"workload", "multi"}]
  BY RunControlAssumption DEF Types, ServerTypes, RunTypes, InsightTypes
<1>1. CASE UNCHANGED vars
  BY <1>1 DEF vars
<1>2. CASE Admit
  BY <1>0, <1>2 DEF Admit, Runs
<1>3. ASSUME NEW r \in Runs, StartRequest(r) PROVE ConnectionInv'
  BY <1>0, <1>3 DEF StartRequest, StartFails, Abort, NameDashboard, Connect, Launch
<1>4. ASSUME NEW r \in Runs, Prepare(r) \/ NextIteration(r) \/ BeginWork(r) \/ WorkEnds(r)
       PROVE ConnectionInv'
  BY <1>0, <1>4 DEF Prepare, NextIteration, BeginWork, WorkEnds, Fail, Panic
<1>5. ASSUME NEW r \in Runs, Disconnect(r) \/ Clear(r) \/ Recover(r)
       PROVE ConnectionInv'
  BY <1>0, <1>5 DEF Disconnect, Clear, Recover
<1>6. ASSUME NEW r \in Runs, Capture(r) PROVE ConnectionInv'
  BY <1>0, <1>6 DEF Capture
<1>7. ASSUME NEW r \in Runs, Save(r) PROVE ConnectionInv'
  BY <1>0, <1>7 DEF Save
<1>8. ASSUME NEW r \in Runs, RunTargets(r) \/ TargetsEnd(r) \/ ReportTargets(r)
       PROVE ConnectionInv'
  BY <1>0, <1>8 DEF RunTargets, TargetsEnd, ReportTargets, Panic
<1>9. ASSUME NEW r \in Runs, CountOperation(r) \/ NextTarget(r) PROVE ConnectionInv'
  BY <1>0, <1>9 DEF CountOperation, NextTarget
<1>10. CASE Stop \/ Promote
  BY <1>0, <1>10 DEF Stop, Promote
<1>11. CASE InsightsRequest
    BY <1>0, <1>11 DEF InsightsRequest, ReadForInsights, KeepInsights, AttachInsights,
       NoJob
<1>12. QED
  BY <1>1, <1>2, <1>3, <1>4, <1>5, <1>6, <1>7, <1>8, <1>9, <1>10, <1>11
     DEF Next, Goroutine, Rest

\* Without stops and panics: the slot is with the run that needs it ...
LEMMA HolderStep ==
    Types /\ FreshInv /\ HolderInv /\ Undisturbed /\ Undisturbed' /\ [Next]_vars =>
        HolderInv'
<1> SUFFICES ASSUME Types, FreshInv, HolderInv, Undisturbed, Undisturbed', [Next]_vars
             PROVE  HolderInv'
  OBVIOUS
<1> USE RunNumbers DEF HolderInv, Holding, Undisturbed, Goto, serverVars, runVars,
     workVars, faultVars,
       historyVars, insightVars
<1>0. /\ pc \in [Runs -> Steps] /\ runID \in Nat /\ MaxRuns \in Nat
      /\ connected \subseteq Runs
  BY RunControlAssumption DEF Types, ServerTypes, RunTypes, InsightTypes
<1>1. CASE UNCHANGED vars
  BY <1>1 DEF vars
<1>2. CASE Admit
  BY <1>0, <1>2 DEF Admit, Runs
<1>3. ASSUME NEW r \in Runs, StartRequest(r) PROVE HolderInv'
  BY <1>0, <1>3 DEF StartRequest, StartFails, Abort, NameDashboard, Connect, Launch
<1>4. ASSUME NEW r \in Runs, Prepare(r) \/ NextIteration(r) \/ BeginWork(r) \/ WorkEnds(r)
       PROVE HolderInv'
  BY <1>0, <1>4 DEF Prepare, NextIteration, BeginWork, WorkEnds, Fail, Panic
<1>5. ASSUME NEW r \in Runs, Disconnect(r) \/ Clear(r) \/ Recover(r) PROVE HolderInv'
  BY <1>0, <1>5 DEF Disconnect, Clear, Recover
<1>6. ASSUME NEW r \in Runs, Capture(r) PROVE HolderInv'
  BY <1>0, <1>6 DEF Capture
<1>7. ASSUME NEW r \in Runs, Save(r) PROVE HolderInv'
  BY <1>0, <1>7 DEF Save
<1>8. ASSUME NEW r \in Runs, RunTargets(r) \/ TargetsEnd(r) \/ ReportTargets(r)
       PROVE HolderInv'
  BY <1>0, <1>8 DEF RunTargets, TargetsEnd, ReportTargets, Panic
<1>9. ASSUME NEW r \in Runs, CountOperation(r) \/ NextTarget(r) PROVE HolderInv'
  BY <1>0, <1>9 DEF CountOperation, NextTarget
<1>10. CASE Stop \/ Promote
  BY <1>0, <1>10 DEF Stop, Promote
<1>11. CASE InsightsRequest
    BY <1>0, <1>11 DEF InsightsRequest, ReadForInsights, KeepInsights, AttachInsights,
       NoJob
<1>12. QED
  BY <1>1, <1>2, <1>3, <1>4, <1>5, <1>6, <1>7, <1>8, <1>9, <1>10, <1>11
     DEF Next, Goroutine, Rest

\* ... its collector is on the dashboard ...
LEMMA ShownStep ==
    Types /\ FreshInv /\ HolderInv /\ ShownInv /\ Undisturbed /\ Undisturbed' /\ [Next]_vars =>
        ShownInv'
<1> SUFFICES ASSUME Types, FreshInv, HolderInv, ShownInv, Undisturbed, Undisturbed',
                    [Next]_vars
             PROVE  ShownInv'
  OBVIOUS
<1> USE RunNumbers DEF HolderInv, Holding, ShownInv, Shown, Undisturbed, Goto,
     serverVars, runVars, workVars, faultVars,
       historyVars, insightVars
<1>0. /\ pc \in [Runs -> Steps] /\ runID \in Nat /\ MaxRuns \in Nat
      /\ collector \in [Runs -> RunOrNil]
  BY RunControlAssumption DEF Types, ServerTypes, RunTypes, InsightTypes
<1>1. CASE UNCHANGED vars
  BY <1>1 DEF vars
<1>2. CASE Admit
  BY <1>0, <1>2 DEF Admit, Runs
<1>3. ASSUME NEW r \in Runs, StartRequest(r) PROVE ShownInv'
  BY <1>0, <1>3 DEF StartRequest, StartFails, Abort, NameDashboard, Connect, Launch
<1>4. ASSUME NEW r \in Runs, Prepare(r) \/ NextIteration(r) \/ BeginWork(r) \/ WorkEnds(r)
       PROVE ShownInv'
  BY <1>0, <1>4 DEF Prepare, NextIteration, BeginWork, WorkEnds, Fail, Panic
<1>5. ASSUME NEW r \in Runs, Disconnect(r) \/ Clear(r) \/ Recover(r) PROVE ShownInv'
  BY <1>0, <1>5 DEF Disconnect, Clear, Recover
<1>6. ASSUME NEW r \in Runs, Capture(r) PROVE ShownInv'
  BY <1>0, <1>6 DEF Capture
<1>7. ASSUME NEW r \in Runs, Save(r) PROVE ShownInv'
  BY <1>0, <1>7 DEF Save
<1>8. ASSUME NEW r \in Runs, RunTargets(r) \/ TargetsEnd(r) \/ ReportTargets(r)
       PROVE ShownInv'
  BY <1>0, <1>8 DEF RunTargets, TargetsEnd, ReportTargets, Panic
<1>9. ASSUME NEW r \in Runs, CountOperation(r) \/ NextTarget(r) PROVE ShownInv'
  BY <1>0, <1>9 DEF CountOperation, NextTarget
<1>10. CASE Stop \/ Promote
  BY <1>0, <1>10 DEF Stop, Promote
<1>11. CASE InsightsRequest
    BY <1>0, <1>11 DEF InsightsRequest, ReadForInsights, KeepInsights, AttachInsights,
       NoJob
<1>12. QED
  BY <1>1, <1>2, <1>3, <1>4, <1>5, <1>6, <1>7, <1>8, <1>9, <1>10, <1>11
     DEF Next, Goroutine, Rest

\* ... its error is the server's ...
LEMMA ErrorStep ==
    Types /\ FreshInv /\ HolderInv /\ ErrorInv /\ Undisturbed /\ Undisturbed' /\ [Next]_vars =>
        ErrorInv'
<1> SUFFICES ASSUME Types, FreshInv, HolderInv, ErrorInv, Undisturbed, Undisturbed',
                    [Next]_vars
             PROVE  ErrorInv'
  OBVIOUS
<1> USE RunNumbers DEF HolderInv, Holding, ErrorInv, Shown, Undisturbed, Goto,
     serverVars, runVars, workVars, faultVars,
       historyVars, insightVars
<1>0. /\ pc \in [Runs -> Steps] /\ runID \in Nat /\ MaxRuns \in Nat
      /\ connected \subseteq Runs
  BY RunControlAssumption DEF Types, ServerTypes, RunTypes, InsightTypes
<1>1. CASE UNCHANGED vars
  BY <1>1 DEF vars
<1>2. CASE Admit
  BY <1>0, <1>2 DEF Admit, Runs
<1>3. ASSUME NEW r \in Runs, StartRequest(r) PROVE ErrorInv'
  BY <1>0, <1>3 DEF StartRequest, StartFails, Abort, NameDashboard, Connect, Launch
<1>4. ASSUME NEW r \in Runs, Prepare(r) \/ NextIteration(r) \/ BeginWork(r) \/ WorkEnds(r)
       PROVE ErrorInv'
  BY <1>0, <1>4 DEF Prepare, NextIteration, BeginWork, WorkEnds, Fail, Panic
<1>5. ASSUME NEW r \in Runs, Disconnect(r) \/ Clear(r) \/ Recover(r) PROVE ErrorInv'
  BY <1>0, <1>5 DEF Disconnect, Clear, Recover
<1>6. ASSUME NEW r \in Runs, Capture(r) PROVE ErrorInv'
  BY <1>0, <1>6 DEF Capture
<1>7. ASSUME NEW r \in Runs, Save(r) PROVE ErrorInv'
  BY <1>0, <1>7 DEF Save
<1>8. ASSUME NEW r \in Runs, RunTargets(r) \/ TargetsEnd(r) \/ ReportTargets(r)
       PROVE ErrorInv'
  BY <1>0, <1>8 DEF RunTargets, TargetsEnd, ReportTargets, Panic
<1>9. ASSUME NEW r \in Runs, CountOperation(r) \/ NextTarget(r) PROVE ErrorInv'
  BY <1>0, <1>9 DEF CountOperation, NextTarget
<1>10. CASE Stop \/ Promote
  BY <1>0, <1>10 DEF Stop, Promote
<1>11. CASE InsightsRequest
    BY <1>0, <1>11 DEF InsightsRequest, ReadForInsights, KeepInsights, AttachInsights,
       NoJob
<1>12. QED
  BY <1>1, <1>2, <1>3, <1>4, <1>5, <1>6, <1>7, <1>8, <1>9, <1>10, <1>11
     DEF Next, Goroutine, Rest

\* ... and so is its outcome.
LEMMA OutcomeStep ==
    Types /\ HolderInv /\ ErrorInv /\ OutcomeInv /\ Undisturbed /\ Undisturbed' /\ [Next]_vars =>
        OutcomeInv'
<1> SUFFICES ASSUME Types, HolderInv, ErrorInv, OutcomeInv, Undisturbed,
                    Undisturbed', [Next]_vars
             PROVE  OutcomeInv'
  OBVIOUS
<1> USE RunNumbers DEF HolderInv, Holding, ErrorInv, OutcomeInv, Shown, Undisturbed,
     Goto, serverVars, runVars, workVars, faultVars,
       historyVars, insightVars
<1>0. /\ pc \in [Runs -> Steps] /\ runID \in Nat /\ MaxRuns \in Nat
      /\ connected \subseteq Runs
  BY RunControlAssumption DEF Types, ServerTypes, RunTypes, InsightTypes
<1>1. CASE UNCHANGED vars
  BY <1>1 DEF vars
<1>2. CASE Admit
  BY <1>0, <1>2 DEF Admit, Runs
<1>3. ASSUME NEW r \in Runs, StartRequest(r) PROVE OutcomeInv'
  BY <1>0, <1>3 DEF StartRequest, StartFails, Abort, NameDashboard, Connect, Launch
<1>4. ASSUME NEW r \in Runs, Prepare(r) \/ NextIteration(r) \/ BeginWork(r) \/ WorkEnds(r)
       PROVE OutcomeInv'
  BY <1>0, <1>4 DEF Prepare, NextIteration, BeginWork, WorkEnds, Fail, Panic
<1>5. ASSUME NEW r \in Runs, Disconnect(r) \/ Clear(r) \/ Recover(r) PROVE OutcomeInv'
  BY <1>0, <1>5 DEF Disconnect, Clear, Recover
<1>6. ASSUME NEW r \in Runs, Capture(r) PROVE OutcomeInv'
  BY <1>0, <1>6 DEF Capture
<1>7. ASSUME NEW r \in Runs, Save(r) PROVE OutcomeInv'
  BY <1>0, <1>7 DEF Save
<1>8. ASSUME NEW r \in Runs, RunTargets(r) \/ TargetsEnd(r) \/ ReportTargets(r)
       PROVE OutcomeInv'
  BY <1>0, <1>8 DEF RunTargets, TargetsEnd, ReportTargets, Panic
<1>9. ASSUME NEW r \in Runs, CountOperation(r) \/ NextTarget(r) PROVE OutcomeInv'
  BY <1>0, <1>9 DEF CountOperation, NextTarget
<1>10. CASE Stop \/ Promote
  BY <1>0, <1>10 DEF Stop, Promote
<1>11. CASE InsightsRequest
    BY <1>0, <1>11 DEF InsightsRequest, ReadForInsights, KeepInsights, AttachInsights,
       NoJob
<1>12. QED
  BY <1>1, <1>2, <1>3, <1>4, <1>5, <1>6, <1>7, <1>8, <1>9, <1>10, <1>11
     DEF Next, Goroutine, Rest

\* A report that was begun before a run is not kept during it.
LEMMA InsightStep ==
    Types /\ HolderInv /\ InsightInv /\ Undisturbed /\ Undisturbed' /\ [Next]_vars =>
        InsightInv'
<1> SUFFICES ASSUME Types, HolderInv, InsightInv, Undisturbed, Undisturbed', [Next]_vars
             PROVE  InsightInv'
  OBVIOUS
<1> USE RunNumbers DEF HolderInv, Holding, InsightInv, Undisturbed, Goto, serverVars,
     runVars, workVars, faultVars,
       historyVars, insightVars
<1>0. /\ pc \in [Runs -> Steps] /\ runID \in Nat /\ MaxRuns \in Nat
      /\ job.id \in Nat
  BY RunControlAssumption DEF Types, ServerTypes, RunTypes, InsightTypes, RunOrNil
<1>1. CASE UNCHANGED vars
  BY <1>1 DEF vars
<1>2. CASE Admit
  BY <1>0, <1>2 DEF Admit, Runs
<1>3. ASSUME NEW r \in Runs, StartRequest(r) PROVE InsightInv'
  BY <1>0, <1>3 DEF StartRequest, StartFails, Abort, NameDashboard, Connect, Launch
<1>4. ASSUME NEW r \in Runs, Prepare(r) \/ NextIteration(r) \/ BeginWork(r) \/ WorkEnds(r)
       PROVE InsightInv'
  BY <1>0, <1>4 DEF Prepare, NextIteration, BeginWork, WorkEnds, Fail, Panic
<1>5. ASSUME NEW r \in Runs, Disconnect(r) \/ Clear(r) \/ Recover(r) PROVE InsightInv'
  BY <1>0, <1>5 DEF Disconnect, Clear, Recover
<1>6. ASSUME NEW r \in Runs, Capture(r) PROVE InsightInv'
  BY <1>0, <1>6 DEF Capture
<1>7. ASSUME NEW r \in Runs, Save(r) PROVE InsightInv'
  BY <1>0, <1>7 DEF Save
<1>8. ASSUME NEW r \in Runs, RunTargets(r) \/ TargetsEnd(r) \/ ReportTargets(r)
       PROVE InsightInv'
  BY <1>0, <1>8 DEF RunTargets, TargetsEnd, ReportTargets, Panic
<1>9. ASSUME NEW r \in Runs, CountOperation(r) \/ NextTarget(r) PROVE InsightInv'
  BY <1>0, <1>9 DEF CountOperation, NextTarget
<1>10. CASE Stop \/ Promote
  BY <1>0, <1>10 DEF Stop, Promote
<1>11. CASE ReadForInsights
  BY <1>0, <1>11 DEF ReadForInsights
<1>12. CASE KeepInsights
  BY <1>0, <1>12 DEF KeepInsights, NoJob, Types, InsightTypes
<1>13. CASE AttachInsights
  BY <1>0, <1>13 DEF AttachInsights, NoJob
<1>14. QED
  BY <1>1, <1>2, <1>3, <1>4, <1>5, <1>6, <1>7, <1>8, <1>9, <1>10, <1>11, <1>12, <1>13
     DEF Next, Goroutine, Rest, InsightsRequest

\* A dashboard is captured whole.
LEMMA SavesStep ==
    Types /\ SavesAreComplete /\ [Next]_vars => SavesAreComplete'
<1> SUFFICES ASSUME Types, SavesAreComplete, [Next]_vars
             PROVE  SavesAreComplete'
  OBVIOUS
<1> USE RunNumbers DEF SavesAreComplete, Goto, serverVars, runVars, workVars, faultVars,
       historyVars, insightVars
<1>0. /\ pc \in [Runs -> Steps] /\ runID \in Nat /\ MaxRuns \in Nat
      /\ snap \in [Runs -> Dashboards]
  BY RunControlAssumption DEF Types, ServerTypes, RunTypes, InsightTypes, HistoryTypes
<1>1. CASE UNCHANGED vars
  BY <1>1 DEF vars
<1>2. CASE Admit
  BY <1>0, <1>2 DEF Admit, Runs
<1>3. ASSUME NEW r \in Runs, StartRequest(r) PROVE SavesAreComplete'
  BY <1>0, <1>3 DEF StartRequest, StartFails, Abort, NameDashboard, Connect, Launch
<1>4. ASSUME NEW r \in Runs, Prepare(r) \/ NextIteration(r) \/ BeginWork(r) \/ WorkEnds(r)
       PROVE SavesAreComplete'
  BY <1>0, <1>4 DEF Prepare, NextIteration, BeginWork, WorkEnds, Fail, Panic
<1>5. ASSUME NEW r \in Runs, Disconnect(r) \/ Clear(r) \/ Recover(r)
       PROVE SavesAreComplete'
  BY <1>0, <1>5 DEF Disconnect, Clear, Recover
<1>6. ASSUME NEW r \in Runs, Capture(r) PROVE SavesAreComplete'
  BY <1>0, <1>6 DEF Capture
<1>7. ASSUME NEW r \in Runs, Save(r) PROVE SavesAreComplete'
  BY <1>0, <1>7 DEF Save
<1>8. ASSUME NEW r \in Runs, RunTargets(r) \/ TargetsEnd(r) \/ ReportTargets(r)
       PROVE SavesAreComplete'
  BY <1>0, <1>8 DEF RunTargets, TargetsEnd, ReportTargets, Panic
<1>9. ASSUME NEW r \in Runs, CountOperation(r) \/ NextTarget(r) PROVE SavesAreComplete'
  BY <1>0, <1>9 DEF CountOperation, NextTarget
<1>10. CASE Stop \/ Promote
  BY <1>0, <1>10 DEF Stop, Promote
<1>11. CASE InsightsRequest
    BY <1>0, <1>11 DEF InsightsRequest, ReadForInsights, KeepInsights, AttachInsights,
       NoJob
<1>12. QED
  BY <1>1, <1>2, <1>3, <1>4, <1>5, <1>6, <1>7, <1>8, <1>9, <1>10, <1>11
     DEF Next, Goroutine, Rest

\* Init establishes the invariant ...
LEMMA InitInv == Init => Inv
<1> SUFFICES ASSUME Init PROVE Inv
  OBVIOUS
<1>1. TypeOK
  BY InitTypes DEF TypeOK, Types, SavesAreComplete, Init
<1>2. FreshInv /\ RunningHasOwner /\ ConnectionInv
  BY DEF Init, FreshInv, RunningHasOwner, ConnectionInv
<1>3. HolderInv /\ ShownInv /\ ErrorInv
  BY DEF Init, HolderInv, Holding, ShownInv, Shown, ErrorInv
<1>4. OutcomeInv /\ InsightInv
  BY DEF Init, OutcomeInv, InsightInv, NoJob, Nil
<1>5. QED
  BY <1>1, <1>2, <1>3, <1>4 DEF Inv, QuietInv

\* ... and every step keeps it.
LEMMA NextInv == Inv /\ [Next]_vars => Inv'
<1> SUFFICES ASSUME Inv, [Next]_vars PROVE Inv'
  OBVIOUS
<1>1. Types /\ TypeOK /\ SavesAreComplete
  BY DEF Inv, TypeOK, Types
<1>2. TypeOK'
  <2>1. ServerTypes'
    BY <1>1, ServerTypesStep
  <2>2. RunTypes'
    BY <1>1, RunTypesStep
  <2>3. HistoryTypes'
    BY <1>1, HistoryTypesStep
  <2>4. InsightTypes'
    BY <1>1, InsightTypesStep
  <2>5. SavesAreComplete'
    BY <1>1, SavesStep
  <2>6. QED
    BY <2>1, <2>2, <2>3, <2>4, <2>5 DEF TypeOK
<1>3. FreshInv' /\ RunningHasOwner' /\ ConnectionInv'
  BY <1>1, FreshStep, OwnerStep, ConnectionStep DEF Inv
<1>4. ASSUME Undisturbed' PROVE QuietInv'
  <2>1. Undisturbed
    BY <1>1, <1>4, QuietBefore
  <2>2. FreshInv /\ HolderInv /\ ShownInv /\ ErrorInv /\ OutcomeInv /\ InsightInv
    BY <2>1 DEF Inv, QuietInv
  <2>3. HolderInv' /\ ShownInv' /\ ErrorInv'
    BY <1>1, <1>4, <2>1, <2>2, HolderStep, ShownStep, ErrorStep
  <2>4. OutcomeInv' /\ InsightInv'
    BY <1>1, <1>4, <2>1, <2>2, OutcomeStep, InsightStep
  <2>5. QED
    BY <2>3, <2>4 DEF QuietInv
<1>5. QED
  BY <1>2, <1>3, <1>4 DEF Inv

\* Inv holds in every reachable state: it is inductive.
THEOREM Invariance == Spec => []Inv
BY InitInv, NextInv, PTL DEF Spec

\* The server's fields, the runs and the stored dashboards keep their types,
\* and only a whole dashboard is saved.
THEOREM TypeCorrect == Spec => []TypeOK
<1>1. Inv => TypeOK
  BY DEF Inv
<1>2. QED
  BY <1>1, Invariance, PTL

\* handleStartRun's "workload is already running" is always about a run that
\* still needs the slot, whatever stops, errors, panics and older runs do.
THEOREM SlotTheorem == Spec => []RunningHasOwner
<1>1. Inv => RunningHasOwner
  BY DEF Inv
<1>2. QED
  BY <1>1, Invariance, PTL

\* Without stops and panics at most one run is starting, running or connected.
THEOREM OneRunTheorem == Spec => []OneRunAtATime
<1>1. Inv => OneRunAtATime
    <2> SUFFICES ASSUME Inv, Undisturbed, NEW r \in Runs, pc[r] \in Holding \/ r \in
       connected
               PROVE  isRunning /\ r = runID
    BY DEF OneRunAtATime
  <2>1. pc[r] \in Holding
    BY DEF Inv, ConnectionInv, Leaked, MayConnect, Holding, Undisturbed
  <2>2. QED
    BY <2>1 DEF Inv, QuietInv, HolderInv
<1>2. QED
  BY <1>1, Invariance, PTL

\* An iteration counts into its own run's collector.
THEOREM CollectorTheorem == Spec => []CountsIntoOwnCollector
<1>1. Inv => CountsIntoOwnCollector
  BY DEF Inv, QuietInv, ShownInv, CountsIntoOwnCollector
<1>2. QED
  BY <1>1, Invariance, PTL

\* The cached insights are about the collector on the dashboard.
THEOREM InsightsTheorem == Spec => []InsightsMatchCollector
<1>1. Inv => InsightsMatchCollector
  BY DEF Inv, QuietInv, InsightInv, InsightsMatchCollector
<1>2. QED
  BY <1>1, Invariance, PTL

\* When all runs are gone nothing is connected, the slot is free, and the
\* server shows the outcome of an undisturbed history.
THEOREM SettledTheorem == Spec => []Settled
<1>1. Inv => Settled
  <2> SUFFICES ASSUME Inv, runID > 0, \A r \in 1..runID : pc[r] = "gone"
               PROVE  /\ ~isRunning /\ connected \subseteq Leaked
                      /\ Undisturbed => /\ phase \in {"completed", "failed"}
                                        /\ phase = "completed" => lastError = Nil
    BY DEF Settled
  <2>1. runID \in Nat /\ MaxRuns \in Nat /\ connected \subseteq Runs
    BY RunControlAssumption DEF Inv, TypeOK, ServerTypes, RunTypes
  <2>2. pc[runID] = "gone"
    BY <2>1
  <2>3. ~isRunning
    BY <2>2 DEF Inv, RunningHasOwner, Holding
  <2>4. ASSUME NEW r \in connected \ Leaked PROVE FALSE
    <3>1. r \in Runs /\ pc[r] \in MayConnect
      BY <2>1 DEF Inv, ConnectionInv
    <3>2. r \in 1..runID
      BY <2>1, <3>1 DEF Inv, FreshInv, MayConnect, Runs
    <3>3. QED
      BY <3>1, <3>2 DEF MayConnect
  <2>5. QED
    BY <2>3, <2>4 DEF Inv, QuietInv, OutcomeInv
<1>2. QED
  BY <1>1, Invariance, PTL

-----------------------------------------------------------------------------
(* Numbers. *)

NatOrder == {p \in Nat \X Nat : p[1] < p[2]}

LEMMA LeastOf ==
    ASSUME NEW T, T \subseteq Nat, T # {}
    PROVE  \E m \in T : \A j \in T : m <= j
<1>1. IsWellFoundedOn(NatOrder, Nat)
  BY NatLessThanWellFounded DEF OpToRel, NatOrder
<1>2. PICK m \in T : \A j \in T : ~(<<j, m>> \in NatOrder)
  BY <1>1, WFMin
<1>3. ASSUME NEW j \in T PROVE m <= j
  <2>1. m \in Nat /\ j \in Nat
    OBVIOUS
  <2>2. ~(<<j, m>> \in NatOrder)
    BY <1>2
  <2>3. ~(j < m)
    BY <2>1, <2>2 DEF NatOrder
  <2> QED
    BY <2>1, <2>3
<1> QED
  BY <1>3

LEMMA MinOf ==
    ASSUME NEW T, T \subseteq Nat, T # {}
    PROVE  Min(T) \in T /\ \A j \in T : Min(T) <= j
BY LeastOf DEF Min

LEMMA UpTo ==
    ASSUME NEW n \in Nat
    PROVE  IsFiniteSet(1..n) /\ Cardinality(1..n) = n
BY FS_Interval

\* A part that lacks a member of the whole is smaller.
LEMMA PartIsSmaller ==
    ASSUME NEW S, IsFiniteSet(S), NEW T, T \subseteq S, NEW x \in S, x \notin T
    PROVE  IsFiniteSet(T) /\ Cardinality(T) \in Nat /\ Cardinality(T) < Cardinality(S)
<1>1. T \in SUBSET S
  OBVIOUS
<1>2. IsFiniteSet(T) /\ Cardinality(T) <= Cardinality(S) /\ (Cardinality(S) = Cardinality(T) => S = T)
  BY <1>1, FS_Subset
<1>3. Cardinality(S) \in Nat /\ Cardinality(T) \in Nat
  BY <1>2, FS_CardinalityType
<1>4. S # T
  OBVIOUS
<1> QED
  BY <1>2, <1>3, <1>4

LEMMA MaxOf ==
    ASSUME NEW S, S \subseteq Nat, IsFiniteSet(S), S # {}
    PROVE  Max(S) \in S /\ \A j \in S : Max(S) >= j
<1> DEFINE Above(x) == {y \in S : y > x}
<1>1. \A x \in S : IsFiniteSet(Above(x)) /\ Cardinality(Above(x)) \in Nat
  <2>1. \A x \in S : Above(x) \subseteq S
    OBVIOUS
  <2> QED
    BY <2>1, FS_Subset, FS_CardinalityType
<1> DEFINE T == {Cardinality(Above(x)) : x \in S}
<1>2. T \subseteq Nat /\ T # {}
  BY <1>1
<1> HIDE DEF T
<1>3. PICK m \in T : \A j \in T : m <= j
  BY <1>2, LeastOf
<1>4. PICK x \in S : m = Cardinality(Above(x))
  BY <1>3 DEF T
<1>5. ASSUME NEW y \in S, y > x PROVE FALSE
  <2>1. Above(y) \subseteq Above(x) /\ y \in Above(x) /\ y \notin Above(y)
    <3>1. \A z \in S : z \in Nat
      OBVIOUS
    <3>2. \A z \in S : z > y => z > x
      BY <1>5, <3>1
    <3>3. ~(y > y)
      BY <3>1
    <3> QED
      BY <1>5, <3>2, <3>3
  <2> HIDE DEF Above
  <2>2. Cardinality(Above(y)) < Cardinality(Above(x)) /\ Cardinality(Above(x)) \in Nat
        /\ Cardinality(Above(y)) \in Nat
    BY <1>1, <2>1, PartIsSmaller
  <2>3. Cardinality(Above(y)) \in T
    BY DEF T
  <2>4. Cardinality(Above(x)) <= Cardinality(Above(y))
    BY <1>3, <1>4, <2>3
  <2> QED
    BY <2>2, <2>4
<1>6. \A y \in S : x >= y
  BY <1>5
<1> QED
  BY <1>6 DEF Max

-----------------------------------------------------------------------------
(***************************************************************************)
(* Listings.  In a strict order of a finite set, the rank of an element,   *)
(* the number of those before it, is different for each of them.           *)
(***************************************************************************)
StrictOrder(I, R) ==
    /\ \A i \in I : <<i, i>> \notin R
    /\ \A i, j, k \in I : <<i, j>> \in R /\ <<j, k>> \in R => <<i, k>> \in R
    /\ \A i, j \in I : i # j => <<i, j>> \in R \/ <<j, i>> \in R

Before(I, R, i) == {j \in I : <<j, i>> \in R}

LEMMA RankGrows ==
    ASSUME NEW I, IsFiniteSet(I), NEW R, StrictOrder(I, R), NEW i \in I, NEW j \in I, <<i, j>> \in R
    PROVE  /\ Cardinality(Before(I, R, i)) \in Nat /\ Cardinality(Before(I, R, j)) \in Nat
           /\ Cardinality(Before(I, R, i)) < Cardinality(Before(I, R, j))
<1>1. /\ Before(I, R, i) \subseteq Before(I, R, j) /\ i \in Before(I, R, j)
      /\ i \notin Before(I, R, i) /\ Before(I, R, j) \subseteq I
  BY DEF StrictOrder, Before
<1>2. IsFiniteSet(Before(I, R, j))
  BY <1>1, FS_Subset
<1>3. Cardinality(Before(I, R, j)) \in Nat
  BY <1>2, FS_CardinalityType
<1> QED
  BY <1>1, <1>2, <1>3, PartIsSmaller

LEMMA RankedIs ==
    ASSUME NEW I, IsFiniteSet(I), NEW R, StrictOrder(I, R)
    PROVE  /\ Cardinality(I) \in Nat
           /\ \A k \in 1..Cardinality(I) :
                 Ranked(I, R)[k] \in I /\ Cardinality(Before(I, R, Ranked(I, R)[k])) = k - 1
           /\ \A i \in I : \E k \in 1..Cardinality(I) : Ranked(I, R)[k] = i
<1> DEFINE n == Cardinality(I)
           rank == [i \in I |-> Cardinality(Before(I, R, i)) + 1]
<1>1. n \in Nat
  BY FS_CardinalityType
<1>2. \A i \in I : rank[i] \in 1..n
  <2> SUFFICES ASSUME NEW i \in I PROVE rank[i] \in 1..n
    OBVIOUS
  <2>1. Before(I, R, i) \subseteq I /\ i \notin Before(I, R, i)
    BY DEF StrictOrder, Before
  <2>2. Cardinality(Before(I, R, i)) \in Nat /\ Cardinality(Before(I, R, i)) < n
    BY <2>1, PartIsSmaller
  <2> QED
    BY <1>1, <2>2
<1>3. \A i, j \in I : rank[i] = rank[j] => i = j
  <2> SUFFICES ASSUME NEW i \in I, NEW j \in I, i # j PROVE rank[i] # rank[j]
    OBVIOUS
  <2>1. CASE <<i, j>> \in R
    BY <2>1, RankGrows
  <2>2. CASE <<j, i>> \in R
    BY <2>2, RankGrows
  <2> QED
    BY <2>1, <2>2 DEF StrictOrder
<1>4. rank \in Injection(I, 1..n)
  BY <1>2, <1>3 DEF Injection, IsInjective
<1>5. IsFiniteSet(1..n) /\ Cardinality(1..n) = n
  BY <1>1, FS_Interval
<1> HIDE DEF rank
<1>6. rank \in Surjection(I, 1..n)
  BY <1>4, <1>5, FS_Injection
<1>7. \A k \in 1..n : \E i \in I : rank[i] = k
  BY <1>6 DEF Surjection
<1>8. \A k \in 1..n : \E i \in I : Cardinality(Before(I, R, i)) = k - 1
  <2> SUFFICES ASSUME NEW k \in 1..n PROVE \E i \in I : Cardinality(Before(I, R, i)) = k - 1
    OBVIOUS
  <2>1. PICK i \in I : rank[i] = k
    BY <1>7
  <2>2. Cardinality(Before(I, R, i)) \in Nat
    <3>1. Before(I, R, i) \subseteq I
      BY DEF Before
    <3> QED
      BY <3>1, FS_Subset, FS_CardinalityType
  <2> QED
    BY <2>1, <2>2 DEF rank
<1>9. \A k \in 1..n : Ranked(I, R)[k] = CHOOSE i \in I : Cardinality(Before(I, R, i)) = k - 1
  BY DEF Ranked, Before
<1>10. \A k \in 1..n : Ranked(I, R)[k] \in I /\ Cardinality(Before(I, R, Ranked(I, R)[k])) = k - 1
  BY <1>8, <1>9
<1>11. ASSUME NEW i \in I PROVE \E k \in 1..n : Ranked(I, R)[k] = i
  <2>1. rank[i] \in 1..n
    BY <1>2
  <2>2. Ranked(I, R)[rank[i]] \in I /\ Cardinality(Before(I, R, Ranked(I, R)[rank[i]])) = rank[i] - 1
    BY <1>10, <2>1
  <2>3. Cardinality(Before(I, R, Ranked(I, R)[rank[i]])) \in Nat
    BY <2>1, <2>2
  <2>4. rank[Ranked(I, R)[rank[i]]] = rank[i]
    BY <2>1, <2>2, <2>3 DEF rank
  <2>5. Ranked(I, R)[rank[i]] = i
    BY <1>3, <2>2, <2>4
  <2> QED
    BY <2>1, <2>5
<1> QED
  BY <1>1, <1>10, <1>11

\* The listing keeps the order, and has nothing twice.
LEMMA RankedInOrder ==
    ASSUME NEW I, IsFiniteSet(I), NEW R, StrictOrder(I, R),
           NEW k \in 1..Cardinality(I), NEW l \in 1..Cardinality(I)
    PROVE  k < l <=> <<Ranked(I, R)[k], Ranked(I, R)[l]>> \in R
<1> DEFINE x == Ranked(I, R)[k]
           y == Ranked(I, R)[l]
<1>1. /\ x \in I /\ y \in I /\ Cardinality(I) \in Nat
      /\ Cardinality(Before(I, R, x)) = k - 1 /\ Cardinality(Before(I, R, y)) = l - 1
  BY RankedIs
<1> HIDE DEF x, y
<1>2. ASSUME k < l PROVE <<x, y>> \in R
  <2>1. x # y
    BY <1>1, <1>2
  <2>2. <<y, x>> \notin R
    BY <1>1, <1>2, RankGrows
  <2> QED
    BY <1>1, <2>1, <2>2 DEF StrictOrder
<1>3. ASSUME <<x, y>> \in R PROVE k < l
  BY <1>1, <1>3, RankGrows
<1> QED
  BY <1>2, <1>3 DEF x, y

LEMMA AscendingOrder ==
    ASSUME NEW I, I \subseteq Nat
    PROVE  StrictOrder(I, Ascending(I))
<1>1. \A i, j : <<i, j>> \in Ascending(I) <=> i \in I /\ j \in I /\ i < j
  BY DEF Ascending
<1>2. \A i \in I : i \in Nat
  OBVIOUS
<1> QED
  BY <1>1, <1>2 DEF StrictOrder

LEMMA ListingIs ==
    ASSUME NEW S, NEW shapes \in Seq(S), NEW I, I \subseteq DOMAIN shapes,
           NEW R, StrictOrder(I, R)
    PROVE  /\ IsFiniteSet(I) /\ Cardinality(I) \in Nat /\ Cardinality(I) <= Len(shapes)
           /\ Listing(shapes, I, R) \in Seq(S) /\ Len(Listing(shapes, I, R)) = Cardinality(I)
           /\ \A k \in 1..Cardinality(I) :
                 /\ Ranked(I, R)[k] \in I
                 /\ Listing(shapes, I, R)[k] = shapes[Ranked(I, R)[k]]
           /\ \A i \in I : \E k \in 1..Cardinality(I) : Ranked(I, R)[k] = i
           /\ \A k, l \in 1..Cardinality(I) : Ranked(I, R)[k] = Ranked(I, R)[l] => k = l
<1>1. Len(shapes) \in Nat /\ DOMAIN shapes = 1..Len(shapes)
  OBVIOUS
<1>2. IsFiniteSet(1..Len(shapes)) /\ Cardinality(1..Len(shapes)) = Len(shapes)
  BY <1>1, UpTo
<1>3. IsFiniteSet(I) /\ Cardinality(I) <= Len(shapes)
  BY <1>1, <1>2, FS_Subset
<1>4. /\ Cardinality(I) \in Nat
      /\ \A k \in 1..Cardinality(I) : Ranked(I, R)[k] \in I
      /\ \A i \in I : \E k \in 1..Cardinality(I) : Ranked(I, R)[k] = i
  BY <1>3, RankedIs
<1>5. \A i \in I : shapes[i] \in S
  BY <1>1
<1>6. \A k \in 1..Cardinality(I) : shapes[Ranked(I, R)[k]] \in S
  BY <1>4, <1>5
<1>7. Listing(shapes, I, R) = [k \in 1..Cardinality(I) |-> shapes[Ranked(I, R)[k]]]
  BY DEF Listing
<1>8. Listing(shapes, I, R) \in Seq(S) /\ Len(Listing(shapes, I, R)) = Cardinality(I)
  BY <1>4, <1>6, <1>7
<1>9. ASSUME NEW k \in 1..Cardinality(I), NEW l \in 1..Cardinality(I),
             Ranked(I, R)[k] = Ranked(I, R)[l]
      PROVE  k = l
  <2>1. Ranked(I, R)[k] \in I /\ <<Ranked(I, R)[k], Ranked(I, R)[k]>> \notin R
    BY <1>4 DEF StrictOrder
  <2>2. ~(k < l) /\ ~(l < k)
    BY <1>3, <1>9, <2>1, RankedInOrder
  <2> QED
    BY <2>2
<1> QED
  BY <1>3, <1>4, <1>7, <1>8, <1>9

-----------------------------------------------------------------------------
(* Shapes that are within others: fewer of them, and less of each. *)

Source(a, b, g) ==
    /\ g \in [DOMAIN a -> DOMAIN b]
    /\ \A k, l \in DOMAIN a : g[k] = g[l] => k = l
    /\ \A k \in DOMAIN a :
          /\ a[k].id = b[g[k]].id
          /\ a[k].eff \subseteq b[g[k]].eff /\ a[k].wl \subseteq b[g[k]].wl
          /\ a[k].values \subseteq b[g[k]].values

Within(a, b) == \E g : Source(a, b, g)

Ids(shapes) == \A i, j \in DOMAIN shapes : shapes[i].id = shapes[j].id => i = j

LEMMA WithinTwice ==
    ASSUME NEW a, NEW b, NEW c, Within(a, b), Within(b, c)
    PROVE  Within(a, c)
<1>1. PICK g : Source(a, b, g)
  BY DEF Within
<1>2. PICK h : Source(b, c, h)
  BY DEF Within
<1> DEFINE f == [k \in DOMAIN a |-> h[g[k]]]
<1>3. \A k \in DOMAIN a : g[k] \in DOMAIN b /\ h[g[k]] \in DOMAIN c
  BY <1>1, <1>2 DEF Source
<1>4. f \in [DOMAIN a -> DOMAIN c]
  BY <1>3
<1>5. \A k, l \in DOMAIN a : f[k] = f[l] => k = l
  BY <1>1, <1>2, <1>3 DEF Source
<1>6. \A k \in DOMAIN a :
          /\ a[k].id = c[f[k]].id
          /\ a[k].eff \subseteq c[f[k]].eff /\ a[k].wl \subseteq c[f[k]].wl
          /\ a[k].values \subseteq c[f[k]].values
  <2> SUFFICES ASSUME NEW k \in DOMAIN a
               PROVE  /\ a[k].id = c[f[k]].id
                      /\ a[k].eff \subseteq c[f[k]].eff /\ a[k].wl \subseteq c[f[k]].wl
                      /\ a[k].values \subseteq c[f[k]].values
    OBVIOUS
  <2>1. f[k] = h[g[k]]
    OBVIOUS
  <2>2. /\ a[k].id = b[g[k]].id
        /\ a[k].eff \subseteq b[g[k]].eff /\ a[k].wl \subseteq b[g[k]].wl
        /\ a[k].values \subseteq b[g[k]].values
    BY <1>1 DEF Source
  <2>3. /\ b[g[k]].id = c[h[g[k]]].id
        /\ b[g[k]].eff \subseteq c[h[g[k]]].eff /\ b[g[k]].wl \subseteq c[h[g[k]]].wl
        /\ b[g[k]].values \subseteq c[h[g[k]]].values
    BY <1>2, <1>3 DEF Source
  <2> HIDE DEF f
  <2> QED
    BY <2>1, <2>2, <2>3
<1>7. Source(a, c, f)
  BY <1>4, <1>5, <1>6 DEF Source
<1> QED
  BY <1>7 DEF Within

LEMMA WithinIds ==
    ASSUME NEW a, NEW b, Within(a, b), Ids(b)
    PROVE  Ids(a)
BY DEF Within, Source, Ids

LEMMA WithinLength ==
    ASSUME NEW S, NEW a \in Seq(S), NEW b \in Seq(S), Within(a, b)
    PROVE  Len(a) <= Len(b)
<1>1. PICK g : Source(a, b, g)
  BY DEF Within
<1>2. g \in Injection(DOMAIN a, DOMAIN b)
  BY <1>1 DEF Source, Injection, IsInjective
<1>3. /\ Len(a) \in Nat /\ DOMAIN a = 1..Len(a) /\ Len(b) \in Nat /\ DOMAIN b = 1..Len(b)
  OBVIOUS
<1>4. /\ IsFiniteSet(DOMAIN a) /\ Cardinality(DOMAIN a) = Len(a)
      /\ IsFiniteSet(DOMAIN b) /\ Cardinality(DOMAIN b) = Len(b)
  BY <1>3, UpTo
<1>5. Cardinality(DOMAIN a) <= Cardinality(DOMAIN b)
  BY <1>2, <1>4, FS_Injection
<1> QED
  BY <1>4, <1>5

LEMMA FiniteUnion ==
    ASSUME NEW D, IsFiniteSet(D), NEW f, \A i \in D : IsFiniteSet(f[i])
    PROVE  IsFiniteSet(UNION {f[i] : i \in D})
<1> DEFINE T == {f[i] : i \in D}
           h == [i \in D |-> f[i]]
<1>1. h \in Surjection(D, T)
  BY DEF Surjection
<1> HIDE DEF h
<1>2. IsFiniteSet(T)
  BY <1>1, FS_Surjection
<1>3. \A x \in T : IsFiniteSet(x)
  OBVIOUS
<1> HIDE DEF T
<1>4. IsFiniteSet(UNION T)
  BY <1>2, <1>3, FS_UNION
<1> QED
  BY <1>4 DEF T

LEMMA EntriesOfFinite ==
    ASSUME NEW s \in StoredShape
    PROVE  IsFiniteSet(EntriesOf(s)) /\ IsFiniteSet(Recorded(s) \cup s.values)
<1>1. IsFiniteSet(s.eff) /\ IsFiniteSet(s.wl) /\ IsFiniteSet(s.values)
  BY DEF StoredShape, Histories
<1>2. /\ IsFiniteSet({"eff"} \X s.eff) /\ IsFiniteSet({"wl"} \X s.wl)
      /\ IsFiniteSet({"values"} \X s.values)
  BY <1>1, FS_Singleton, FS_Product
<1>3. IsFiniteSet(({"eff"} \X s.eff) \cup ({"wl"} \X s.wl)) /\ IsFiniteSet(s.eff \cup s.wl)
  BY <1>1, <1>2, FS_Union
<1>4. IsFiniteSet((({"eff"} \X s.eff) \cup ({"wl"} \X s.wl)) \cup ({"values"} \X s.values))
  BY <1>2, <1>3, FS_Union
<1>5. IsFiniteSet((s.eff \cup s.wl) \cup s.values)
  BY <1>1, <1>3, FS_Union
<1> QED
  BY <1>4, <1>5 DEF EntriesOf, Recorded

LEMMA ShapesFinite ==
    ASSUME NEW shapes \in Seq(StoredShape)
    PROVE  /\ IsFiniteSet(DOMAIN shapes) /\ IsFiniteSet(Entries(shapes))
           /\ Mentioned(shapes) \in Histories /\ Referenced(shapes) \subseteq Mentioned(shapes)
<1>1. Len(shapes) \in Nat /\ DOMAIN shapes = 1..Len(shapes)
  OBVIOUS
<1>2. IsFiniteSet(DOMAIN shapes)
  BY <1>1, UpTo
<1>3. \A i \in DOMAIN shapes : shapes[i] \in StoredShape
  OBVIOUS
<1> DEFINE D == DOMAIN shapes
           f == [i \in D |-> {i} \X EntriesOf(shapes[i])]
           m == [i \in D |-> Recorded(shapes[i]) \cup shapes[i].values]
<1>4. \A i \in D : IsFiniteSet(f[i]) /\ IsFiniteSet(m[i])
  <2> SUFFICES ASSUME NEW i \in D PROVE IsFiniteSet(f[i]) /\ IsFiniteSet(m[i])
    OBVIOUS
  <2>1. IsFiniteSet(EntriesOf(shapes[i])) /\ IsFiniteSet(m[i])
    BY <1>3, EntriesOfFinite
  <2>2. IsFiniteSet({i} \X EntriesOf(shapes[i]))
    BY <2>1, FS_Singleton, FS_Product
  <2> QED
    BY <2>1, <2>2
<1>5. Entries(shapes) = UNION {f[i] : i \in D}
  BY DEF Entries
<1>6. Mentioned(shapes) = UNION {m[i] : i \in D}
  BY DEF Mentioned
<1>7. IsFiniteSet(D)
  BY <1>2
<1> HIDE DEF D, f, m
<1>8. IsFiniteSet(UNION {f[i] : i \in D}) /\ IsFiniteSet(UNION {m[i] : i \in D})
  <2>1. IsFiniteSet(UNION {f[i] : i \in D})
    BY <1>4, <1>7, FiniteUnion
  <2>2. IsFiniteSet(UNION {m[i] : i \in D})
    BY <1>4, <1>7, FiniteUnion
  <2> QED
    BY <2>1, <2>2
<1>9. \A i \in DOMAIN shapes : Recorded(shapes[i]) \subseteq Nat /\ shapes[i].values \subseteq Nat
  BY <1>3 DEF StoredShape, Histories, Recorded
<1>10. Mentioned(shapes) \subseteq Nat
  BY <1>9 DEF Mentioned
<1>11. Referenced(shapes) \subseteq Mentioned(shapes)
  BY DEF Referenced, Mentioned
<1> QED
  BY <1>2, <1>5, <1>6, <1>10, <1>11, <1>8 DEF Histories

LEMMA WithinEntries ==
    ASSUME NEW a \in Seq(StoredShape), NEW b \in Seq(StoredShape), Within(a, b)
    PROVE  /\ Cardinality(Entries(a)) \in Nat /\ Cardinality(Entries(b)) \in Nat
           /\ Cardinality(Entries(a)) <= Cardinality(Entries(b))
<1>1. PICK g : Source(a, b, g)
  BY DEF Within
<1>2. \A k \in DOMAIN a : g[k] \in DOMAIN b /\ EntriesOf(a[k]) \subseteq EntriesOf(b[g[k]])
  BY <1>1 DEF Source, EntriesOf
<1> DEFINE h == [e \in Entries(a) |-> <<g[e[1]], e[2]>>]
<1>3. \A e \in Entries(a) : e[1] \in DOMAIN a /\ e = <<e[1], e[2]>> /\ e[2] \in EntriesOf(a[e[1]])
  BY DEF Entries
<1>4. \A e \in Entries(a) : h[e] \in Entries(b)
  <2> SUFFICES ASSUME NEW e \in Entries(a) PROVE h[e] \in Entries(b)
    OBVIOUS
  <2>1. g[e[1]] \in DOMAIN b /\ e[2] \in EntriesOf(b[g[e[1]]])
    BY <1>2, <1>3
  <2>2. <<g[e[1]], e[2]>> \in {g[e[1]]} \X EntriesOf(b[g[e[1]]])
    BY <2>1
  <2>3. <<g[e[1]], e[2]>> \in Entries(b)
    BY <2>1, <2>2 DEF Entries
  <2> QED
    BY <2>3
<1>5. \A e, f \in Entries(a) : h[e] = h[f] => e = f
  <2> SUFFICES ASSUME NEW e \in Entries(a), NEW f \in Entries(a), h[e] = h[f] PROVE e = f
    OBVIOUS
  <2>1. g[e[1]] = g[f[1]] /\ e[2] = f[2]
    OBVIOUS
  <2>2. e[1] = f[1]
    BY <1>1, <1>3, <2>1 DEF Source
  <2> QED
    BY <1>3, <2>1, <2>2
<1>6. h \in Injection(Entries(a), Entries(b))
  BY <1>4, <1>5 DEF Injection, IsInjective
<1> HIDE DEF h
<1>7. IsFiniteSet(Entries(a)) /\ IsFiniteSet(Entries(b))
  BY ShapesFinite
<1>8. Cardinality(Entries(a)) <= Cardinality(Entries(b))
  BY <1>6, <1>7, FS_Injection
<1> QED
  BY <1>7, <1>8, FS_CardinalityType

-----------------------------------------------------------------------------
(* What the operators of TrendData make of shapes. *)

LEMMA FilterIs ==
    ASSUME NEW s \in StoredShape, NEW keep
    PROVE  /\ Filter(s, keep) \in StoredShape /\ Filter(s, keep).id = s.id
           /\ Filter(s, keep).eff = s.eff \cap keep /\ Filter(s, keep).wl = s.wl \cap keep
           /\ Filter(s, keep).values = s.values \cap keep
           /\ Recorded(Filter(s, keep)) = Recorded(s) \cap keep
<1>1. s.eff \in Histories /\ s.wl \in Histories /\ s.values \in Histories
  BY DEF StoredShape
<1>2. /\ s.eff \cap keep \in Histories /\ s.wl \cap keep \in Histories
      /\ s.values \cap keep \in Histories
  BY <1>1, FS_Intersection DEF Histories
<1>3. /\ Filter(s, keep) \in StoredShape /\ Filter(s, keep).id = s.id
      /\ Filter(s, keep).eff = s.eff \cap keep /\ Filter(s, keep).wl = s.wl \cap keep
      /\ Filter(s, keep).values = s.values \cap keep
  BY <1>2 DEF Filter, StoredShape
<1> QED
  BY <1>3 DEF Recorded

LEMMA FilterEachIs ==
    ASSUME NEW shapes \in Seq(StoredShape), NEW keep
    PROVE  /\ FilterEach(shapes, keep) \in Seq(StoredShape)
           /\ Len(FilterEach(shapes, keep)) = Len(shapes)
           /\ DOMAIN FilterEach(shapes, keep) = DOMAIN shapes
           /\ \A i \in DOMAIN shapes :
                 /\ FilterEach(shapes, keep)[i] = Filter(shapes[i], keep)
                 /\ FilterEach(shapes, keep)[i].id = shapes[i].id
                 /\ Recorded(FilterEach(shapes, keep)[i]) = Recorded(shapes[i]) \cap keep
                 /\ FilterEach(shapes, keep)[i].values = shapes[i].values \cap keep
           /\ Within(FilterEach(shapes, keep), shapes)
<1> DEFINE each == FilterEach(shapes, keep)
<1>1. \A i \in DOMAIN shapes : shapes[i] \in StoredShape
  OBVIOUS
<1>2. \A i \in DOMAIN shapes : Filter(shapes[i], keep) \in StoredShape
  BY <1>1, FilterIs
<1>3. Len(shapes) \in Nat /\ DOMAIN shapes = 1..Len(shapes)
  OBVIOUS
<1>4. each = [i \in 1..Len(shapes) |-> Filter(shapes[i], keep)]
  BY <1>3 DEF FilterEach
<1>5. each \in Seq(StoredShape) /\ Len(each) = Len(shapes) /\ DOMAIN each = DOMAIN shapes
  BY <1>2, <1>3, <1>4
<1>6. \A i \in DOMAIN shapes : each[i] = Filter(shapes[i], keep)
  BY <1>3, <1>4
<1>7. \A i \in DOMAIN shapes :
          /\ each[i].id = shapes[i].id
          /\ each[i].eff = shapes[i].eff \cap keep /\ each[i].wl = shapes[i].wl \cap keep
          /\ each[i].values = shapes[i].values \cap keep
          /\ Recorded(each[i]) = Recorded(shapes[i]) \cap keep
  BY <1>1, <1>6, FilterIs
<1> HIDE DEF each
<1>8. Source(each, shapes, [k \in DOMAIN each |-> k])
  BY <1>5, <1>7 DEF Source
<1>9. Within(each, shapes)
  BY <1>8 DEF Within
<1> QED
  BY <1>5, <1>6, <1>7, <1>9 DEF each

LEMMA ListingWithin ==
    ASSUME NEW shapes \in Seq(StoredShape), NEW I, I \subseteq DOMAIN shapes,
           NEW R, StrictOrder(I, R)
    PROVE  Within(Listing(shapes, I, R), shapes)
<1> DEFINE list == Listing(shapes, I, R)
           g == [k \in DOMAIN list |-> Ranked(I, R)[k]]
<1>1. /\ list \in Seq(StoredShape) /\ Len(list) = Cardinality(I)
      /\ \A k \in 1..Cardinality(I) :
            Ranked(I, R)[k] \in I /\ list[k] = shapes[Ranked(I, R)[k]]
      /\ \A k, l \in 1..Cardinality(I) : Ranked(I, R)[k] = Ranked(I, R)[l] => k = l
  BY ListingIs
<1>2. DOMAIN list = 1..Cardinality(I)
  BY <1>1
<1> HIDE DEF list
<1>3. Source(list, shapes, g)
  BY <1>1, <1>2 DEF Source
<1> QED
  BY <1>3 DEF Within, list

LEMMA FilterAllIs ==
    ASSUME NEW shapes \in Seq(StoredShape), NEW keep
    PROVE  /\ FilterAll(shapes, keep) \in Seq(StoredShape)
           /\ Within(FilterAll(shapes, keep), shapes)
           /\ \A k \in DOMAIN FilterAll(shapes, keep) :
                 /\ Recorded(FilterAll(shapes, keep)[k]) # {}
                 /\ \E i \in DOMAIN shapes : FilterAll(shapes, keep)[k] = Filter(shapes[i], keep)
           /\ \A i \in DOMAIN shapes : Recorded(shapes[i]) \cap keep # {} =>
                 \E k \in DOMAIN FilterAll(shapes, keep) :
                    FilterAll(shapes, keep)[k] = Filter(shapes[i], keep)
<1> DEFINE each == FilterEach(shapes, keep)
           I == WithHistory(each)
           all == FilterAll(shapes, keep)
<1>1. /\ each \in Seq(StoredShape) /\ DOMAIN each = DOMAIN shapes /\ Within(each, shapes)
      /\ \A i \in DOMAIN shapes :
            each[i] = Filter(shapes[i], keep) /\ Recorded(each[i]) = Recorded(shapes[i]) \cap keep
  BY FilterEachIs
<1> HIDE DEF each
<1>2. I \subseteq DOMAIN each /\ \A i \in I : Recorded(each[i]) # {}
  BY DEF WithHistory
<1>3. \A i \in DOMAIN shapes : Recorded(shapes[i]) \cap keep # {} => i \in I
  BY <1>1 DEF WithHistory
<1>4. StrictOrder(I, Ascending(I))
  <2>1. DOMAIN each \subseteq Nat
    BY <1>1
  <2> QED
    BY <1>2, <2>1, AscendingOrder
<1>5. all = Listing(each, I, Ascending(I))
  BY DEF FilterAll, each
<1> HIDE DEF I, all
<1>6. /\ all \in Seq(StoredShape) /\ Len(all) = Cardinality(I)
      /\ \A k \in 1..Cardinality(I) :
            /\ Ranked(I, Ascending(I))[k] \in I
            /\ all[k] = each[Ranked(I, Ascending(I))[k]]
      /\ \A i \in I : \E k \in 1..Cardinality(I) : Ranked(I, Ascending(I))[k] = i
  BY <1>1, <1>2, <1>4, <1>5, ListingIs
<1>7. Within(all, shapes)
  BY <1>1, <1>2, <1>4, <1>5, ListingWithin, WithinTwice
<1>8. DOMAIN all = 1..Cardinality(I)
  BY <1>6
<1>9. \A k \in DOMAIN all :
          /\ Recorded(all[k]) # {}
          /\ \E i \in DOMAIN shapes : all[k] = Filter(shapes[i], keep)
  BY <1>1, <1>2, <1>6, <1>8
<1>10. \A i \in DOMAIN shapes : Recorded(shapes[i]) \cap keep # {} =>
          \E k \in DOMAIN all : all[k] = Filter(shapes[i], keep)
  BY <1>1, <1>3, <1>6, <1>8
<1> QED
  BY <1>6, <1>7, <1>9, <1>10 DEF all

LEMMA NewestOfIs ==
    ASSUME NEW S \in Histories, NEW n \in Nat
    PROVE  /\ NewestOf(S, n) \subseteq S /\ NewestOf(S, n) \in Histories
           /\ Cardinality(NewestOf(S, n)) \in Nat /\ Cardinality(NewestOf(S, n)) <= n
           /\ \A r \in S : n >= 1 /\ (\A q \in S : q <= r) => r \in NewestOf(S, n)
<1> DEFINE N == NewestOf(S, n)
           Above(r) == {q \in S : q > r}
<1>1. S \subseteq Nat /\ IsFiniteSet(S)
  BY DEF Histories
<1>2. N \subseteq S /\ \A r \in N : Cardinality(Above(r)) < n
  BY DEF NewestOf
<1>3. IsFiniteSet(N) /\ Cardinality(N) \in Nat /\ N \in Histories
  BY <1>1, <1>2, FS_Subset, FS_CardinalityType DEF Histories
<1> HIDE DEF N
<1>4. Cardinality(N) <= n
  <2>1. CASE N = {}
    BY <2>1, FS_EmptySet
  <2>2. CASE N # {}
    <3>1. PICK m \in N : \A r \in N : m <= r
      BY <1>1, <1>2, <2>2, LeastOf
    <3>2. N \ {m} \subseteq Above(m)
      <4>1. \A r \in N : r \in Nat /\ r \in S
        BY <1>1, <1>2
      <4>2. \A r \in N : r # m => r > m
        BY <3>1, <4>1
      <4> QED
        BY <4>1, <4>2
    <3>3. Above(m) \subseteq S
      OBVIOUS
    <3>4. Cardinality(Above(m)) < n
      BY <1>2
    <3> HIDE DEF Above
    <3>5. IsFiniteSet(Above(m)) /\ Cardinality(Above(m)) \in Nat
      BY <1>1, <3>3, FS_Subset, FS_CardinalityType
    <3>6. Cardinality(N \ {m}) <= Cardinality(Above(m))
      BY <3>2, <3>5, FS_Subset
    <3>7. Cardinality(N \ {m}) = Cardinality(N) - 1
      BY <1>3, FS_RemoveElement
    <3> QED
      BY <1>3, <3>4, <3>5, <3>6, <3>7
  <2> QED
    BY <2>1, <2>2
<1>5. ASSUME NEW r \in S, n >= 1, \A q \in S : q <= r PROVE r \in N
  <2>1. \A q \in S : ~(q > r)
    <3>1. \A q \in S : q \in Nat
      BY <1>1
    <3> QED
      BY <1>5, <3>1
  <2>2. Above(r) = {}
    BY <2>1
  <2>3. Cardinality(Above(r)) < n
    BY <1>5, <2>2, FS_EmptySet
  <2> QED
    BY <2>3 DEF N, NewestOf
<1> QED
  BY <1>2, <1>3, <1>4, <1>5 DEF N

-----------------------------------------------------------------------------
(***************************************************************************)
(* Pruning.  The shapes are in a strict order: those of one id are first   *)
(* reduced to one.                                                         *)
(***************************************************************************)
LEMMA PrecedesOrder ==
    ASSUME NEW shapes \in Seq(StoredShape), NEW I, I \subseteq WithHistory(shapes), NEW pinned,
           \A i, j \in I : shapes[i].id = shapes[j].id => i = j
    PROVE  StrictOrder(I, ShapesOrder(shapes, I, pinned))
<1> DEFINE R == ShapesOrder(shapes, I, pinned)
           P == {i \in I : Recorded(shapes[i]) \cap pinned # {}}
           m == [i \in I |-> Max(Recorded(shapes[i]))]
           id == [i \in I |-> shapes[i].id]
<1>1. ASSUME NEW i \in I PROVE m[i] \in Nat /\ id[i] \in Nat
  <2>1. shapes[i] \in StoredShape /\ Recorded(shapes[i]) # {}
    BY DEF WithHistory
  <2>2. Recorded(shapes[i]) \subseteq Nat /\ IsFiniteSet(Recorded(shapes[i]))
    BY <2>1, FS_Union DEF StoredShape, Histories, Recorded
  <2>3. Max(Recorded(shapes[i])) \in Nat
    BY <2>1, <2>2, MaxOf
  <2> QED
    BY <2>1, <2>3 DEF StoredShape
<1>2. \A i, j \in I : id[i] = id[j] => i = j
  OBVIOUS
<1>3. \A i, j \in I : <<i, j>> \in R <=>
          \/ i \in P /\ j \notin P
          \/ /\ i \in P <=> j \in P
             /\ m[i] > m[j] \/ (m[i] = m[j] /\ id[i] < id[j])
  BY DEF ShapesOrder, Precedes
<1> HIDE DEF R, P, m, id
<1>4. \A i \in I : <<i, i>> \notin R
  BY <1>1, <1>3
<1>5. \A i, j \in I : i # j => <<i, j>> \in R \/ <<j, i>> \in R
  BY <1>1, <1>2, <1>3
<1>6. \A i, j, k \in I : <<i, j>> \in R /\ <<j, k>> \in R => <<i, k>> \in R
  BY <1>1, <1>3
<1> QED
  BY <1>4, <1>5, <1>6 DEF StrictOrder, R

LEMMA PrunedShapesIs ==
    ASSUME NEW shapes \in Seq(StoredShape), NEW kept, NEW pinned
    PROVE  /\ PrunedShapes(shapes, kept, pinned) \in Seq(StoredShape)
           /\ Len(PrunedShapes(shapes, kept, pinned)) <= TrendMaxShapeBaselines
           /\ Ids(PrunedShapes(shapes, kept, pinned))
           /\ Within(PrunedShapes(shapes, kept, pinned), shapes)
           /\ \A k \in DOMAIN PrunedShapes(shapes, kept, pinned) :
                 /\ Recorded(PrunedShapes(shapes, kept, pinned)[k]) # {}
                 /\ Recorded(PrunedShapes(shapes, kept, pinned)[k]) \subseteq kept
           /\ \A r \in kept \cap Referenced(shapes) :
                 Ids(shapes) /\ kept \subseteq Nat /\ (\A q \in kept : q <= r) =>
                    \/ r \in Referenced(PrunedShapes(shapes, kept, pinned))
                    \/ \A k \in DOMAIN PrunedShapes(shapes, kept, pinned) :
                          Recorded(PrunedShapes(shapes, kept, pinned)[k]) \cap pinned # {}
<1> DEFINE each == FilterEach(shapes, kept)
           I == FirstOfId(each)
           R == ShapesOrder(each, I, pinned)
           order == Listing(each, I, R)
           n == Min({Len(order), TrendMaxShapeBaselines})
           pruned == PrunedShapes(shapes, kept, pinned)
<1>1. /\ each \in Seq(StoredShape) /\ DOMAIN each = DOMAIN shapes /\ Within(each, shapes)
      /\ \A i \in DOMAIN shapes : each[i].id = shapes[i].id
      /\ \A i \in DOMAIN shapes : Recorded(each[i]) = Recorded(shapes[i]) \cap kept
  BY FilterEachIs
<1>2. pruned = SubSeq(order, 1, n)
  BY DEF PrunedShapes
<1> HIDE DEF each, pruned
<1>3. I \subseteq WithHistory(each) /\ I \subseteq DOMAIN each /\ \A i \in I : Recorded(each[i]) # {}
  BY DEF FirstOfId, WithHistory
<1>4. \A i, j \in I : each[i].id = each[j].id => i = j
  <2>1. \A i \in I : i \in Nat
    BY <1>1, <1>3
  <2>2. \A i, j \in I : each[i].id = each[j].id => i <= j /\ j <= i
    BY <1>3 DEF FirstOfId
  <2> QED
    BY <2>1, <2>2
<1>5. Ids(shapes) => I = WithHistory(each)
  <2>1. \A i \in WithHistory(each) : i \in DOMAIN shapes /\ i \in Nat
    BY <1>1 DEF WithHistory
  <2> QED
    BY <1>1, <2>1 DEF Ids, FirstOfId
<1> HIDE DEF I
<1>6. StrictOrder(I, R)
  BY <1>1, <1>3, <1>4, PrecedesOrder
<1>7. \A i, j \in I : <<i, j>> \in R => Precedes(each[i], each[j], pinned)
  BY DEF ShapesOrder
<1> HIDE DEF R
<1>8. /\ order \in Seq(StoredShape) /\ Len(order) = Cardinality(I) /\ Cardinality(I) \in Nat
      /\ IsFiniteSet(I)
      /\ \A k \in 1..Cardinality(I) : Ranked(I, R)[k] \in I /\ order[k] = each[Ranked(I, R)[k]]
      /\ \A i \in I : \E k \in 1..Cardinality(I) : Ranked(I, R)[k] = i
      /\ \A k, l \in 1..Cardinality(I) : Ranked(I, R)[k] = Ranked(I, R)[l] => k = l
  BY <1>1, <1>3, <1>6, ListingIs
<1>9. Within(order, each)
  BY <1>1, <1>3, <1>6, ListingWithin
<1> HIDE DEF order
<1>10. n \in Nat /\ n <= Len(order) /\ n <= TrendMaxShapeBaselines
       /\ (n = Len(order) \/ n = TrendMaxShapeBaselines)
  <2>1. Len(order) \in Nat /\ TrendMaxShapeBaselines \in Nat
    BY <1>8, TrendAssumption
  <2>2. n \in {Len(order), TrendMaxShapeBaselines}
        /\ \A j \in {Len(order), TrendMaxShapeBaselines} : n <= j
    BY <2>1, MinOf
  <2> QED
    BY <2>1, <2>2
<1> HIDE DEF n
<1>11. /\ pruned \in Seq(StoredShape) /\ Len(pruned) = n /\ DOMAIN pruned = 1..n
       /\ \A k \in 1..n : pruned[k] = order[k] /\ k \in 1..Len(order)
  BY <1>2, <1>8, <1>10
<1>12. Within(pruned, order)
  <2>1. Source(pruned, order, [k \in DOMAIN pruned |-> k])
    BY <1>8, <1>11 DEF Source
  <2> QED
    BY <2>1 DEF Within
<1>13. Within(pruned, shapes)
  BY <1>1, <1>9, <1>12, WithinTwice
<1>14. \A k \in 1..n : Ranked(I, R)[k] \in I /\ pruned[k] = each[Ranked(I, R)[k]]
  BY <1>8, <1>11
<1>15. Ids(pruned)
  <2> SUFFICES ASSUME NEW k \in 1..n, NEW l \in 1..n, pruned[k].id = pruned[l].id PROVE k = l
    BY <1>11 DEF Ids
  <2>1. Ranked(I, R)[k] = Ranked(I, R)[l]
    BY <1>4, <1>14
  <2> QED
    BY <1>8, <1>11, <2>1
<1>16. \A k \in 1..n : Recorded(pruned[k]) # {} /\ Recorded(pruned[k]) \subseteq kept
  BY <1>1, <1>3, <1>14
<1>17. ASSUME NEW r \in kept \cap Referenced(shapes), Ids(shapes), kept \subseteq Nat,
              \A q \in kept : q <= r, r \notin Referenced(pruned), NEW k \in 1..n
       PROVE  Recorded(pruned[k]) \cap pinned # {}
  <2>1. PICK i \in DOMAIN shapes : r \in Recorded(shapes[i])
    BY DEF Referenced
  <2>2. i \in I /\ r \in Recorded(each[i])
    BY <1>1, <1>5, <1>17, <2>1 DEF WithHistory
  <2>3. PICK l \in 1..Cardinality(I) : Ranked(I, R)[l] = i
    BY <1>8, <2>2
  <2>4. l > n
    <3>1. ASSUME l \in 1..n PROVE FALSE
      <4>1. r \in Recorded(pruned[l]) /\ l \in DOMAIN pruned
        BY <1>11, <1>14, <2>2, <2>3, <3>1
      <4> QED
        BY <1>17, <4>1 DEF Referenced
    <3> QED
      BY <1>10, <2>3, <3>1
  <2> DEFINE t == pruned[k]
  <2>5. k \in 1..Cardinality(I) /\ k < l
    BY <1>8, <1>10, <1>11, <2>3, <2>4
  <2>6. Precedes(t, each[i], pinned)
    BY <1>6, <1>7, <1>8, <1>14, <2>2, <2>3, <2>5, RankedInOrder
  <2>7. r \notin Recorded(t) /\ Recorded(t) # {} /\ Recorded(t) \subseteq kept
    BY <1>11, <1>16, <1>17 DEF Referenced
  <2>8. \A S \in SUBSET kept : S # {} /\ IsFiniteSet(S) => Max(S) \in S /\ Max(S) \in Nat /\ Max(S) <= r
    <3>1. ASSUME NEW S \in SUBSET kept, S # {}, IsFiniteSet(S) PROVE Max(S) \in S
      BY <1>17, <3>1, MaxOf
    <3> QED
      BY <1>17, <3>1
  <2>9. \A j \in DOMAIN each : IsFiniteSet(Recorded(each[j]))
    <3> SUFFICES ASSUME NEW j \in DOMAIN each PROVE IsFiniteSet(Recorded(each[j]))
      OBVIOUS
    <3>1. each[j] \in StoredShape
      BY <1>1
    <3> QED
      BY <3>1, FS_Union DEF StoredShape, Histories, Recorded
  <2>10. Max(Recorded(t)) \in Recorded(t) /\ Max(Recorded(t)) \in Nat /\ Max(Recorded(t)) <= r
    <3>1. IsFiniteSet(Recorded(t))
      BY <1>3, <1>14, <2>9
    <3> QED
      BY <2>7, <2>8, <3>1
  <2>11. Max(Recorded(each[i])) = r
    <3>1. /\ IsFiniteSet(Recorded(each[i])) /\ Recorded(each[i]) \subseteq kept
          /\ Recorded(each[i]) \subseteq Nat
      BY <1>1, <1>17, <2>9
    <3>2. Max(Recorded(each[i])) <= r /\ Max(Recorded(each[i])) \in Nat
      BY <2>2, <2>8, <3>1
    <3>3. Max(Recorded(each[i])) >= r
      BY <2>2, <3>1, MaxOf
    <3> QED
      BY <1>17, <3>2, <3>3
  <2>12. r \in Nat /\ Max(Recorded(t)) # r
    BY <1>17, <2>7, <2>10
  <2>13. ~(Max(Recorded(t)) > Max(Recorded(each[i]))) /\ Max(Recorded(t)) # Max(Recorded(each[i]))
    BY <2>10, <2>11, <2>12
  <2> HIDE DEF t
  <2>14. Recorded(t) \cap pinned # {}
    BY <2>6, <2>13 DEF Precedes
  <2> QED
    BY <2>14 DEF t
<1> QED
  BY <1>10, <1>11, <1>13, <1>15, <1>16, <1>17 DEF pruned

LEMMA PruneIs ==
    ASSUME NEW d, IsTrendData(d), NEW k \in Nat
    PROVE  /\ IsTrendData(PruneTrendData(d, k))
           /\ PruneTrendData(d, k).runs \subseteq d.runs
           /\ Cardinality(PruneTrendData(d, k).pinned) <= TrendMaxPinnedRuns
           /\ Cardinality(PruneTrendData(d, k).runs \ PruneTrendData(d, k).pinned) <= k
           /\ Len(PruneTrendData(d, k).shapes) <= TrendMaxShapeBaselines
           /\ Ids(PruneTrendData(d, k).shapes)
           /\ Within(PruneTrendData(d, k).shapes, d.shapes)
           /\ \A i \in DOMAIN PruneTrendData(d, k).shapes :
                 Recorded(PruneTrendData(d, k).shapes[i]) # {}
           /\ Referenced(PruneTrendData(d, k).shapes) \subseteq PruneTrendData(d, k).runs
           /\ PruneTrendData(d, k).runs \ PruneTrendData(d, k).pinned
                 \subseteq Referenced(PruneTrendData(d, k).shapes)
           /\ \A r \in d.runs \cap Referenced(d.shapes) : Ids(d.shapes) /\ k >= 1 =>
                 \/ \E q \in PruneTrendData(d, k).runs : q >= r
                 \/ \A i \in DOMAIN PruneTrendData(d, k).shapes :
                       Recorded(PruneTrendData(d, k).shapes[i]) \cap PruneTrendData(d, k).pinned # {}
<1> DEFINE pinned == NewestOf(d.pinned, TrendMaxPinnedRuns)
           others == (d.runs \ pinned) \cap Referenced(d.shapes)
           unpinned == NewestOf(others, k)
           kept == pinned \cup unpinned
           shapes == PrunedShapes(d.shapes, kept, pinned)
           p == PruneTrendData(d, k)
<1>1. /\ d.runs \in Histories /\ d.pinned \subseteq d.runs /\ d.shapes \in Seq(StoredShape)
  BY DEF IsTrendData
<1>2. /\ p.runs = pinned \cup (unpinned \cap Referenced(shapes)) /\ p.pinned = pinned
      /\ p.shapes = shapes /\ p = [runs |-> p.runs, pinned |-> p.pinned, shapes |-> p.shapes]
  BY DEF PruneTrendData
<1>3. /\ pinned \subseteq d.pinned /\ pinned \in Histories /\ Cardinality(pinned) <= TrendMaxPinnedRuns
  <2>1. d.pinned \in Histories
    BY <1>1, FS_Subset DEF Histories
  <2>2. TrendMaxPinnedRuns \in Nat
    BY TrendAssumption
  <2> QED
    BY <2>1, <2>2, NewestOfIs
<1>4. others \in Histories /\ others \subseteq d.runs
  BY <1>1, FS_Subset DEF Histories
<1> HIDE DEF others
<1>5. /\ unpinned \subseteq others /\ unpinned \in Histories /\ Cardinality(unpinned) <= k
      /\ Cardinality(unpinned) \in Nat
      /\ \A r \in others : k >= 1 /\ (\A q \in others : q <= r) => r \in unpinned
  BY <1>4, NewestOfIs
<1>6. unpinned \cap pinned = {} /\ unpinned \subseteq Referenced(d.shapes)
  BY <1>5 DEF others
<1> HIDE DEF pinned, unpinned, p
<1>7. kept \in Histories /\ kept \subseteq d.runs /\ kept \subseteq Nat /\ IsFiniteSet(kept)
  BY <1>1, <1>3, <1>4, <1>5, FS_Union DEF Histories
<1> HIDE DEF kept
<1>8. /\ shapes \in Seq(StoredShape) /\ Len(shapes) <= TrendMaxShapeBaselines
      /\ Ids(shapes) /\ Within(shapes, d.shapes)
      /\ \A i \in DOMAIN shapes : Recorded(shapes[i]) # {} /\ Recorded(shapes[i]) \subseteq kept
      /\ \A r \in kept \cap Referenced(d.shapes) :
            Ids(d.shapes) /\ kept \subseteq Nat /\ (\A q \in kept : q <= r) =>
               \/ r \in Referenced(shapes)
               \/ \A i \in DOMAIN shapes : Recorded(shapes[i]) \cap pinned # {}
  BY <1>1, PrunedShapesIs
<1> HIDE DEF shapes
<1>9. p.runs \in Histories /\ p.runs \subseteq d.runs /\ p.pinned \subseteq p.runs
  BY <1>1, <1>2, <1>3, <1>4, <1>5, FS_Subset DEF Histories
<1>10. IsTrendData(p)
  BY <1>2, <1>8, <1>9 DEF IsTrendData
<1>11. Cardinality(p.runs \ p.pinned) <= k
  <2>1. p.runs \ p.pinned \subseteq unpinned
    BY <1>2
  <2>2. IsFiniteSet(unpinned)
    BY <1>5 DEF Histories
  <2>3. /\ Cardinality(p.runs \ p.pinned) <= Cardinality(unpinned)
        /\ Cardinality(p.runs \ p.pinned) \in Nat
    BY <2>1, <2>2, FS_Subset, FS_CardinalityType
  <2> QED
    BY <1>5, <2>3
<1>12. Referenced(shapes) \subseteq kept
  BY <1>8 DEF Referenced
<1>13. Referenced(shapes) \subseteq p.runs
  BY <1>2, <1>12 DEF kept
<1>14. p.runs \ p.pinned \subseteq Referenced(shapes)
  BY <1>2
<1>15. ASSUME NEW r \in d.runs \cap Referenced(d.shapes), Ids(d.shapes), k >= 1
       PROVE  \/ \E q \in p.runs : q >= r
              \/ \A i \in DOMAIN shapes : Recorded(shapes[i]) \cap pinned # {}
  <2>1. r \in Nat
    BY <1>1 DEF Histories
  <2>2. \E q \in kept : q >= r
    <3>1. CASE r \in pinned
      BY <2>1, <3>1 DEF kept
    <3>2. CASE r \notin pinned
      <4>1. r \in others /\ others \subseteq Nat /\ IsFiniteSet(others)
        BY <1>4, <3>2 DEF others, Histories
      <4>2. Max(others) \in others /\ \A q \in others : Max(others) >= q
        BY <4>1, MaxOf
      <4>3. \A q \in others : q <= Max(others)
        BY <4>1, <4>2
      <4>4. Max(others) \in unpinned
        BY <1>5, <1>15, <4>2, <4>3
      <4> QED
        BY <4>1, <4>2, <4>4 DEF kept
    <3> QED
      BY <3>1, <3>2
  <2>3. PICK q \in kept : q >= r
    BY <2>2
  <2> DEFINE m == Max(kept)
  <2>4. m \in kept /\ \A x \in kept : m >= x
    BY <1>7, <2>3, MaxOf
  <2> HIDE DEF m
  <2>5. m \in Nat /\ m >= r /\ \A x \in kept : x <= m
    <3>1. \A x \in kept : x \in Nat
      BY <1>7
    <3> QED
      BY <2>1, <2>3, <2>4, <3>1
  <2>6. CASE m \in pinned
    BY <1>2, <2>5, <2>6
  <2>7. CASE m \in unpinned
    <3>1. m \in kept \cap Referenced(d.shapes)
      BY <1>6, <2>4, <2>7
    <3>2. m \in Referenced(shapes) \/ \A i \in DOMAIN shapes : Recorded(shapes[i]) \cap pinned # {}
      BY <1>7, <1>8, <1>15, <2>5, <3>1
    <3>3. m \in Referenced(shapes) => m \in p.runs
      BY <1>2, <2>7
    <3> QED
      BY <2>5, <3>2, <3>3
  <2> QED
    BY <2>4, <2>6, <2>7 DEF kept
<1>16. Cardinality(p.pinned) <= TrendMaxPinnedRuns
  BY <1>2, <1>3
<1>17. /\ Len(p.shapes) <= TrendMaxShapeBaselines /\ Ids(p.shapes) /\ Within(p.shapes, d.shapes)
       /\ \A i \in DOMAIN p.shapes : Recorded(p.shapes[i]) # {}
       /\ Referenced(p.shapes) \subseteq p.runs
       /\ p.runs \ p.pinned \subseteq Referenced(p.shapes)
  BY <1>2, <1>8, <1>13, <1>14
<1>18. \A r \in d.runs \cap Referenced(d.shapes) : Ids(d.shapes) /\ k >= 1 =>
          \/ \E q \in p.runs : q >= r
          \/ \A i \in DOMAIN p.shapes : Recorded(p.shapes[i]) \cap p.pinned # {}
  BY <1>2, <1>15
<1> QED
  BY <1>9, <1>10, <1>11, <1>16, <1>17, <1>18 DEF p

LEMMA SizeShrinks ==
    ASSUME NEW a, IsTrendData(a), NEW b, IsTrendData(b),
           a.runs \subseteq b.runs, Within(a.shapes, b.shapes)
    PROVE  Size(a) \in Nat /\ Size(b) \in Nat /\ Size(a) <= Size(b)
<1>1. /\ IsFiniteSet(a.runs) /\ IsFiniteSet(b.runs)
      /\ a.shapes \in Seq(StoredShape) /\ b.shapes \in Seq(StoredShape)
  BY DEF IsTrendData, Histories
<1>2. /\ Cardinality(a.runs) \in Nat /\ Cardinality(b.runs) \in Nat
      /\ Cardinality(a.runs) <= Cardinality(b.runs)
  BY <1>1, FS_Subset, FS_CardinalityType
<1>3. /\ Cardinality(Entries(a.shapes)) \in Nat /\ Cardinality(Entries(b.shapes)) \in Nat
      /\ Cardinality(Entries(a.shapes)) <= Cardinality(Entries(b.shapes))
  BY <1>1, WithinEntries
<1> QED
  BY <1>2, <1>3 DEF Size

LEMMA PruneCounts ==
    ASSUME NEW d, IsTrendData(d), NEW k \in Nat, k <= MaxTrendHistoryRuns
    PROVE  CountsBounded(PruneTrendData(d, k))
<1> DEFINE p == PruneTrendData(d, k)
<1>1. /\ IsTrendData(p)
      /\ Cardinality(p.pinned) <= TrendMaxPinnedRuns /\ Cardinality(p.runs \ p.pinned) <= k
      /\ Len(p.shapes) <= TrendMaxShapeBaselines /\ Ids(p.shapes)
      /\ \A i \in DOMAIN p.shapes : Recorded(p.shapes[i]) # {}
      /\ Referenced(p.shapes) \subseteq p.runs
  BY PruneIs
<1> HIDE DEF p
<1>2. p.pinned \subseteq p.runs /\ IsFiniteSet(p.runs)
  BY <1>1 DEF IsTrendData, Histories
<1>3. /\ IsFiniteSet(p.pinned) /\ IsFiniteSet(p.runs \ p.pinned)
  BY <1>2, FS_Subset
<1>4. Cardinality(p.runs) = Cardinality(p.pinned) + Cardinality(p.runs \ p.pinned)
  <2>1. p.runs = p.pinned \cup (p.runs \ p.pinned) /\ p.pinned \cap (p.runs \ p.pinned) = {}
    BY <1>2
  <2>2. Cardinality(p.pinned \cap (p.runs \ p.pinned)) = 0
    BY <2>1, FS_EmptySet
  <2>3. Cardinality(p.pinned \cup (p.runs \ p.pinned))
           = Cardinality(p.pinned) + Cardinality(p.runs \ p.pinned)
                 - Cardinality(p.pinned \cap (p.runs \ p.pinned))
    BY <1>3, FS_Union
  <2>4. Cardinality(p.pinned) \in Nat /\ Cardinality(p.runs \ p.pinned) \in Nat
    BY <1>3, FS_CardinalityType
  <2>5. Cardinality(p.runs) = Cardinality(p.pinned \cup (p.runs \ p.pinned))
    BY <2>1, Zenon
  <2> HIDE DEF p
  <2> QED
    BY <2>2, <2>3, <2>4, <2>5
<1>5. Cardinality(p.runs) <= TrendMaxPinnedRuns + MaxTrendHistoryRuns
  <2>1. /\ Cardinality(p.pinned) \in Nat /\ Cardinality(p.runs \ p.pinned) \in Nat
        /\ TrendMaxPinnedRuns \in Nat /\ MaxTrendHistoryRuns \in Nat
    BY <1>3, FS_CardinalityType, TrendAssumption
  <2> QED
    BY <1>1, <1>4, <2>1
<1> QED
  BY <1>1, <1>2, <1>5 DEF CountsBounded, Ids, p

\* Taking runs away.
LEMMA RemoveIs ==
    ASSUME NEW d, IsTrendData(d), NEW S
    PROVE  /\ IsTrendData(RemoveTrendRuns(d, S))
           /\ RemoveTrendRuns(d, S).runs = d.runs \ S /\ RemoveTrendRuns(d, S).pinned = d.pinned \ S
           /\ Within(RemoveTrendRuns(d, S).shapes, d.shapes)
           /\ \A k \in DOMAIN RemoveTrendRuns(d, S).shapes :
                 /\ Recorded(RemoveTrendRuns(d, S).shapes[k]) # {}
                 /\ \E i \in DOMAIN d.shapes :
                       /\ Recorded(RemoveTrendRuns(d, S).shapes[k]) = Recorded(d.shapes[i]) \ S
                       /\ RemoveTrendRuns(d, S).shapes[k].values = d.shapes[i].values \ S
           /\ Referenced(RemoveTrendRuns(d, S).shapes) = Referenced(d.shapes) \ S
<1> DEFINE keep == Mentioned(d.shapes) \ S
           all == FilterAll(d.shapes, keep)
           e == RemoveTrendRuns(d, S)
<1>1. d.runs \in Histories /\ d.pinned \subseteq d.runs /\ d.shapes \in Seq(StoredShape)
  BY DEF IsTrendData
<1>2. /\ e.runs = d.runs \ S /\ e.pinned = d.pinned \ S /\ e.shapes = all
      /\ e = [runs |-> e.runs, pinned |-> e.pinned, shapes |-> e.shapes]
  BY DEF RemoveTrendRuns
<1>3. /\ all \in Seq(StoredShape) /\ Within(all, d.shapes)
      /\ \A k \in DOMAIN all :
            Recorded(all[k]) # {} /\ \E i \in DOMAIN d.shapes : all[k] = Filter(d.shapes[i], keep)
      /\ \A i \in DOMAIN d.shapes : Recorded(d.shapes[i]) \cap keep # {} =>
            \E k \in DOMAIN all : all[k] = Filter(d.shapes[i], keep)
  BY <1>1, FilterAllIs
<1> HIDE DEF all, e
<1>4. d.runs \ S \in Histories
  BY <1>1, FS_Subset DEF Histories
<1>5. IsTrendData(e)
  BY <1>1, <1>2, <1>3, <1>4 DEF IsTrendData
<1>6. \A i \in DOMAIN d.shapes :
         /\ Recorded(Filter(d.shapes[i], keep)) = Recorded(d.shapes[i]) \ S
         /\ Filter(d.shapes[i], keep).values = d.shapes[i].values \ S
  <2> SUFFICES ASSUME NEW i \in DOMAIN d.shapes
               PROVE  /\ Recorded(Filter(d.shapes[i], keep)) = Recorded(d.shapes[i]) \ S
                      /\ Filter(d.shapes[i], keep).values = d.shapes[i].values \ S
    OBVIOUS
  <2>1. d.shapes[i] \in StoredShape
    BY <1>1
  <2>2. /\ Recorded(Filter(d.shapes[i], keep)) = Recorded(d.shapes[i]) \cap keep
        /\ Filter(d.shapes[i], keep).values = d.shapes[i].values \cap keep
    BY <2>1, FilterIs
  <2>3. Recorded(d.shapes[i]) \subseteq Mentioned(d.shapes)
        /\ d.shapes[i].values \subseteq Mentioned(d.shapes)
    BY DEF Mentioned
  <2> QED
    BY <2>2, <2>3
<1>7. \A k \in DOMAIN all : \E i \in DOMAIN d.shapes :
         Recorded(all[k]) = Recorded(d.shapes[i]) \ S /\ all[k].values = d.shapes[i].values \ S
  <2> SUFFICES ASSUME NEW k \in DOMAIN all
               PROVE  \E i \in DOMAIN d.shapes :
                         Recorded(all[k]) = Recorded(d.shapes[i]) \ S
                         /\ all[k].values = d.shapes[i].values \ S
    OBVIOUS
  <2>1. PICK i \in DOMAIN d.shapes : all[k] = Filter(d.shapes[i], keep)
    BY <1>3
  <2> QED
    BY <1>6, <2>1
<1>8. Referenced(all) = Referenced(d.shapes) \ S
  <2>1. ASSUME NEW r \in Referenced(all) PROVE r \in Referenced(d.shapes) \ S
    <3>1. PICK k \in DOMAIN all : r \in Recorded(all[k])
      BY DEF Referenced
    <3>2. PICK i \in DOMAIN d.shapes : Recorded(all[k]) = Recorded(d.shapes[i]) \ S
      BY <1>7
    <3> QED
      BY <3>1, <3>2 DEF Referenced
  <2>2. ASSUME NEW r \in Referenced(d.shapes) \ S PROVE r \in Referenced(all)
    <3>1. PICK i \in DOMAIN d.shapes : r \in Recorded(d.shapes[i])
      BY DEF Referenced
    <3>2. Recorded(d.shapes[i]) \subseteq Mentioned(d.shapes)
      BY DEF Mentioned
    <3>3. r \in Recorded(d.shapes[i]) \cap keep
      BY <3>1, <3>2
    <3>4. PICK k \in DOMAIN all : all[k] = Filter(d.shapes[i], keep)
      BY <1>3, <3>3
    <3>5. r \in Recorded(all[k])
      BY <1>6, <2>2, <3>1, <3>4
    <3> QED
      BY <3>5 DEF Referenced
  <2> QED
    BY <2>1, <2>2
<1>9. \A k \in DOMAIN e.shapes :
         /\ Recorded(e.shapes[k]) # {}
         /\ \E i \in DOMAIN d.shapes :
               Recorded(e.shapes[k]) = Recorded(d.shapes[i]) \ S
               /\ e.shapes[k].values = d.shapes[i].values \ S
  BY <1>2, <1>3, <1>7
<1> QED
  BY <1>2, <1>3, <1>5, <1>8, <1>9 DEF e

LEMMA RemoveCounts ==
    ASSUME NEW d, IsTrendData(d), CountsBounded(d), NEW S
    PROVE  CountsBounded(RemoveTrendRuns(d, S))
<1> DEFINE e == RemoveTrendRuns(d, S)
<1>1. /\ IsTrendData(e) /\ e.runs = d.runs \ S /\ e.pinned = d.pinned \ S
      /\ Within(e.shapes, d.shapes) /\ \A k \in DOMAIN e.shapes : Recorded(e.shapes[k]) # {}
      /\ Referenced(e.shapes) = Referenced(d.shapes) \ S
  BY RemoveIs
<1> HIDE DEF e
<1>2. /\ d.pinned \subseteq d.runs /\ Cardinality(d.pinned) <= TrendMaxPinnedRuns
      /\ Cardinality(d.runs) <= TrendMaxPinnedRuns + MaxTrendHistoryRuns
      /\ Len(d.shapes) <= TrendMaxShapeBaselines /\ Ids(d.shapes)
      /\ Referenced(d.shapes) \subseteq d.runs
  BY DEF CountsBounded, Ids
<1>3. /\ e.pinned \subseteq e.runs /\ Referenced(e.shapes) \subseteq e.runs
  BY <1>1, <1>2
<1>4. /\ Cardinality(e.pinned) <= Cardinality(d.pinned) /\ Cardinality(e.runs) <= Cardinality(d.runs)
      /\ {Cardinality(e.pinned), Cardinality(d.pinned), Cardinality(e.runs), Cardinality(d.runs)}
            \subseteq Nat
  <2>1. IsFiniteSet(d.runs)
    BY DEF IsTrendData, Histories
  <2>2. IsFiniteSet(d.pinned)
    BY <1>2, <2>1, FS_Subset
  <2>3. e.pinned \subseteq d.pinned /\ e.runs \subseteq d.runs
    BY <1>1
  <2>4. IsFiniteSet(e.pinned) /\ IsFiniteSet(e.runs)
    BY <2>1, <2>2, <2>3, FS_Subset
  <2> QED
    BY <2>1, <2>2, <2>3, <2>4, FS_Subset, FS_CardinalityType
<1>5. Cardinality(e.pinned) <= TrendMaxPinnedRuns
      /\ Cardinality(e.runs) <= TrendMaxPinnedRuns + MaxTrendHistoryRuns
  <2>1. TrendMaxPinnedRuns \in Nat /\ MaxTrendHistoryRuns \in Nat
    BY TrendAssumption
  <2> QED
    BY <1>2, <1>4, <2>1
<1>6. Len(e.shapes) <= TrendMaxShapeBaselines
  <2>1. e.shapes \in Seq(StoredShape) /\ d.shapes \in Seq(StoredShape)
    BY <1>1 DEF IsTrendData
  <2>2. Len(e.shapes) <= Len(d.shapes) /\ Len(e.shapes) \in Nat /\ Len(d.shapes) \in Nat
    BY <1>1, <2>1, WithinLength
  <2> QED
    BY <1>2, <2>2, TrendAssumption
<1>7. Ids(e.shapes)
  BY <1>1, <1>2, WithinIds
<1> QED
  BY <1>1, <1>3, <1>5, <1>6, <1>7 DEF CountsBounded, Ids, e

LEMMA SanitizeIs ==
    ASSUME NEW d, IsTrendData(d), NEW invalid
    PROVE  /\ IsTrendData(SanitizeTrendData(d, invalid)) /\ CountsBounded(SanitizeTrendData(d, invalid))
           /\ SanitizeTrendData(d, invalid).runs \subseteq d.runs
           /\ {Size(SanitizeTrendData(d, invalid)), Size(d)} \subseteq Nat
           /\ Size(SanitizeTrendData(d, invalid)) <= Size(d)
<1> DEFINE e == RemoveTrendRuns(d, invalid)
           f == PruneTrendData(e, MaxTrendHistoryRuns)
<1>1. SanitizeTrendData(d, invalid) = f
  BY DEF SanitizeTrendData, RemoveTrendRuns
<1>2. IsTrendData(e) /\ e.runs \subseteq d.runs /\ Within(e.shapes, d.shapes)
  BY RemoveIs
<1> HIDE DEF e
<1>3. MaxTrendHistoryRuns \in Nat /\ MaxTrendHistoryRuns <= MaxTrendHistoryRuns
  BY TrendAssumption
<1>4. IsTrendData(f) /\ f.runs \subseteq e.runs /\ Within(f.shapes, e.shapes)
  BY <1>2, <1>3, PruneIs
<1>5. CountsBounded(f)
  BY <1>2, <1>3, PruneCounts
<1> HIDE DEF f
<1>6. f.runs \subseteq d.runs /\ Within(f.shapes, d.shapes)
  BY <1>2, <1>4, WithinTwice
<1>7. Size(f) \in Nat /\ Size(d) \in Nat /\ Size(f) <= Size(d)
  BY <1>4, <1>6, SizeShrinks
<1> QED
  BY <1>1, <1>4, <1>5, <1>6, <1>7

-----------------------------------------------------------------------------
(* Merging: what a record and an import make before they prune. *)

LEMMA Concat ==
    ASSUME NEW S, NEW a \in Seq(S), NEW b \in Seq(S)
    PROVE  /\ a \o b \in Seq(S) /\ Len(a \o b) = Len(a) + Len(b)
           /\ \A i \in DOMAIN a : i \in DOMAIN (a \o b) /\ (a \o b)[i] = a[i]
           /\ \A i \in DOMAIN b : Len(a) + i \in DOMAIN (a \o b) /\ (a \o b)[Len(a) + i] = b[i]
           /\ \A i \in DOMAIN (a \o b) :
                 i \in DOMAIN a \/ \E j \in DOMAIN b : i = Len(a) + j
<1>1. a \o b \in Seq(S) /\ Len(a \o b) = Len(a) + Len(b)
  OBVIOUS
<1>2. /\ Len(a) \in Nat /\ Len(b) \in Nat /\ DOMAIN a = 1..Len(a) /\ DOMAIN b = 1..Len(b)
      /\ DOMAIN (a \o b) = 1..(Len(a) + Len(b))
  BY <1>1
<1>3. \A i \in 1..Len(a) : (a \o b)[i] = a[i]
  OBVIOUS
<1>4. \A i \in 1..Len(b) : (a \o b)[Len(a) + i] = b[i]
  OBVIOUS
<1>5. ASSUME NEW i \in 1..(Len(a) + Len(b)), i \notin 1..Len(a) PROVE \E j \in 1..Len(b) : i = Len(a) + j
  <2>1. i - Len(a) \in 1..Len(b) /\ i = Len(a) + (i - Len(a))
    BY <1>2, <1>5
  <2> QED
    BY <2>1
<1>6. \A i \in 1..Len(a) : i \in 1..(Len(a) + Len(b))
  BY <1>2
<1>7. \A i \in 1..Len(b) : Len(a) + i \in 1..(Len(a) + Len(b))
  BY <1>2
<1> QED
  BY <1>1, <1>2, <1>3, <1>4, <1>5, <1>6, <1>7

LEMMA ConcatIds ==
    ASSUME NEW a \in Seq(StoredShape), NEW b \in Seq(StoredShape), Ids(a), Ids(b),
           \A i \in DOMAIN a, j \in DOMAIN b : a[i].id # b[j].id
    PROVE  Ids(a \o b)
<1>1. /\ \A i \in DOMAIN a : (a \o b)[i] = a[i]
      /\ \A i \in DOMAIN b : (a \o b)[Len(a) + i] = b[i]
      /\ \A i \in DOMAIN (a \o b) : i \in DOMAIN a \/ \E j \in DOMAIN b : i = Len(a) + j
  BY Concat
<1> SUFFICES ASSUME NEW i \in DOMAIN (a \o b), NEW j \in DOMAIN (a \o b),
                    (a \o b)[i].id = (a \o b)[j].id
             PROVE  i = j
  BY DEF Ids
<1>2. CASE i \in DOMAIN a /\ j \in DOMAIN a
  BY <1>1, <1>2 DEF Ids
<1>3. CASE i \notin DOMAIN a /\ j \notin DOMAIN a
  <2>1. PICK k \in DOMAIN b : i = Len(a) + k
    BY <1>1, <1>3
  <2>2. PICK l \in DOMAIN b : j = Len(a) + l
    BY <1>1, <1>3
  <2>3. k = l
    BY <1>1, <2>1, <2>2 DEF Ids
  <2> QED
    BY <2>1, <2>2, <2>3
<1>4. CASE i \in DOMAIN a /\ j \notin DOMAIN a
  BY <1>1, <1>4
<1>5. CASE i \notin DOMAIN a /\ j \in DOMAIN a
  BY <1>1, <1>5
<1> QED
  BY <1>2, <1>3, <1>4, <1>5

LEMMA NewOfIs ==
    ASSUME NEW shapes, NEW more \in Seq(StoredShape)
    PROVE  /\ NewOf(shapes, more) \in Seq(StoredShape) /\ Within(NewOf(shapes, more), more)
           /\ \A k \in DOMAIN NewOf(shapes, more) : \A i \in DOMAIN shapes :
                 shapes[i].id # NewOf(shapes, more)[k].id
           /\ \A i \in DOMAIN more : ~Has(shapes, more[i].id) =>
                 \E k \in DOMAIN NewOf(shapes, more) : NewOf(shapes, more)[k] = more[i]
<1> DEFINE I == NewIn(shapes, more)
           new == NewOf(shapes, more)
<1>1. I \subseteq DOMAIN more /\ \A i \in I : ~Has(shapes, more[i].id)
  BY DEF NewIn
<1>2. DOMAIN more \subseteq Nat
  OBVIOUS
<1>3. StrictOrder(I, Ascending(I))
  BY <1>1, <1>2, AscendingOrder
<1>4. new = Listing(more, I, Ascending(I))
  BY DEF NewOf
<1>5. \A i \in DOMAIN more : ~Has(shapes, more[i].id) => i \in I
  BY DEF NewIn
<1> HIDE DEF I, new
<1>6. /\ new \in Seq(StoredShape) /\ Len(new) = Cardinality(I)
      /\ \A k \in 1..Cardinality(I) :
            Ranked(I, Ascending(I))[k] \in I /\ new[k] = more[Ranked(I, Ascending(I))[k]]
      /\ \A i \in I : \E k \in 1..Cardinality(I) : Ranked(I, Ascending(I))[k] = i
  BY <1>1, <1>3, <1>4, ListingIs
<1>7. Within(new, more)
  BY <1>1, <1>3, <1>4, ListingWithin
<1>8. DOMAIN new = 1..Cardinality(I)
  BY <1>6
<1>9. \A k \in DOMAIN new : \A i \in DOMAIN shapes : shapes[i].id # new[k].id
  BY <1>1, <1>6, <1>8 DEF Has
<1>10. \A i \in DOMAIN more : ~Has(shapes, more[i].id) => \E k \in DOMAIN new : new[k] = more[i]
  BY <1>5, <1>6, <1>8
<1> QED
  BY <1>6, <1>7, <1>9, <1>10 DEF new

LEMMA AddIs ==
    ASSUME NEW s \in StoredShape, NEW c \in RunSnapshot, s.id = c.id, NEW r \in Nat
    PROVE  /\ Add(s, c, r) \in StoredShape /\ Add(s, c, r).id = s.id
           /\ c.eff \/ c.wl => r \in Recorded(Add(s, c, r))
<1> DEFINE base == IF s.ns = c.ns THEN s ELSE NewShape(c)
           Put(b) == IF b THEN {r} ELSE {}
<1>1. {} \in Histories /\ {r} \in Histories
  BY FS_EmptySet, FS_Singleton DEF Histories
<1>2. base \in StoredShape /\ base.id = s.id
  BY <1>1 DEF NewShape, StoredShape, RunSnapshot
<1>3. Add(s, c, r) = [base EXCEPT !.eff = @ \cup Put(c.eff), !.wl = @ \cup Put(c.wl),
                                  !.values = @ \cup Put(c.values /\ (c.eff \/ c.wl))]
  BY DEF Add
<1> HIDE DEF base
<1>4. \A b : Put(b) \in Histories
  BY <1>1
<1>5. \A S, T \in Histories : S \cup T \in Histories
  BY FS_Union DEF Histories
<1>6. base.eff \in Histories /\ base.wl \in Histories /\ base.values \in Histories
  BY <1>2 DEF StoredShape
<1>7. /\ base.eff \cup Put(c.eff) \in Histories /\ base.wl \cup Put(c.wl) \in Histories
      /\ base.values \cup Put(c.values /\ (c.eff \/ c.wl)) \in Histories
  BY <1>4, <1>5, <1>6
<1>8. c.eff => r \in Put(c.eff)
  OBVIOUS
<1>9. c.wl => r \in Put(c.wl)
  OBVIOUS
<1> HIDE DEF Put
<1>10. /\ Add(s, c, r) \in StoredShape /\ Add(s, c, r).id = base.id
       /\ Add(s, c, r).eff = base.eff \cup Put(c.eff) /\ Add(s, c, r).wl = base.wl \cup Put(c.wl)
  BY <1>2, <1>3, <1>7 DEF StoredShape
<1> QED
  BY <1>2, <1>8, <1>9, <1>10 DEF Recorded

LEMMA MergeIs ==
    ASSUME NEW shapes \in Seq(StoredShape), NEW cur, IsRunShapes(cur), NEW r \in Nat
    PROVE  /\ MergeSnapshots(shapes, r, cur) \in Seq(StoredShape)
           /\ Ids(shapes) => Ids(MergeSnapshots(shapes, r, cur))
           /\ cur # <<>> => r \in Referenced(MergeSnapshots(shapes, r, cur))
<1> DEFINE old == [i \in DOMAIN shapes |->
                     IF Has(cur, shapes[i].id) THEN Add(shapes[i], cur[IndexOf(cur, shapes[i].id)], r)
                     ELSE shapes[i]]
           more == [k \in DOMAIN cur |-> Add(NewShape(cur[k]), cur[k], r)]
           new == NewOf(shapes, more)
           merged == MergeSnapshots(shapes, r, cur)
<1>1. /\ cur \in Seq(RunSnapshot) /\ \A i \in DOMAIN cur : cur[i] \in RunSnapshot /\ (cur[i].eff \/ cur[i].wl)
      /\ \A i, j \in DOMAIN cur : cur[i].id = cur[j].id => i = j
  BY DEF IsRunShapes
<1>2. /\ Len(shapes) \in Nat /\ DOMAIN shapes = 1..Len(shapes)
      /\ Len(cur) \in Nat /\ DOMAIN cur = 1..Len(cur)
  BY <1>1
<1>3. \A i \in DOMAIN shapes : shapes[i] \in StoredShape
  OBVIOUS
<1>4. \A i \in DOMAIN shapes : Has(cur, shapes[i].id) =>
          IndexOf(cur, shapes[i].id) \in DOMAIN cur /\ cur[IndexOf(cur, shapes[i].id)].id = shapes[i].id
  BY DEF Has, IndexOf
<1>5. \A i \in DOMAIN shapes : /\ old[i] \in StoredShape /\ old[i].id = shapes[i].id
                               /\ Has(cur, shapes[i].id) => r \in Recorded(old[i])
  <2> SUFFICES ASSUME NEW i \in DOMAIN shapes
               PROVE  /\ old[i] \in StoredShape /\ old[i].id = shapes[i].id
                      /\ Has(cur, shapes[i].id) => r \in Recorded(old[i])
    OBVIOUS
  <2>1. CASE ~Has(cur, shapes[i].id)
    BY <1>3, <2>1
  <2>2. CASE Has(cur, shapes[i].id)
    <3>1. old[i] = Add(shapes[i], cur[IndexOf(cur, shapes[i].id)], r)
      BY <2>2
    <3>2. /\ cur[IndexOf(cur, shapes[i].id)] \in RunSnapshot
          /\ cur[IndexOf(cur, shapes[i].id)].eff \/ cur[IndexOf(cur, shapes[i].id)].wl
          /\ cur[IndexOf(cur, shapes[i].id)].id = shapes[i].id
      BY <1>1, <1>4, <2>2
    <3> QED
      BY <1>3, <3>1, <3>2, AddIs
  <2> QED
    BY <2>1, <2>2
<1>6. \A k \in DOMAIN cur : /\ more[k] \in StoredShape /\ more[k].id = cur[k].id
                            /\ r \in Recorded(more[k])
  <2> SUFFICES ASSUME NEW k \in DOMAIN cur
               PROVE  more[k] \in StoredShape /\ more[k].id = cur[k].id /\ r \in Recorded(more[k])
    OBVIOUS
  <2>1. cur[k] \in RunSnapshot /\ (cur[k].eff \/ cur[k].wl)
    BY <1>1
  <2>2. {} \in Histories
    BY FS_EmptySet DEF Histories
  <2>3. NewShape(cur[k]) \in StoredShape /\ NewShape(cur[k]).id = cur[k].id
    BY <2>1, <2>2 DEF NewShape, StoredShape, RunSnapshot
  <2> QED
    BY <2>1, <2>3, AddIs
<1>7. old \in Seq(StoredShape) /\ DOMAIN old = DOMAIN shapes /\ more \in Seq(StoredShape)
      /\ DOMAIN more = DOMAIN cur
  <2>1. old \in [1..Len(shapes) -> StoredShape] /\ more \in [1..Len(cur) -> StoredShape]
    BY <1>2, <1>5, <1>6
  <2> QED
    BY <1>2, <2>1
<1>8. merged = old \o new
  BY DEF MergeSnapshots
<1> HIDE DEF old, more, merged
<1>9. /\ new \in Seq(StoredShape) /\ Within(new, more)
      /\ \A k \in DOMAIN new : \A i \in DOMAIN shapes : shapes[i].id # new[k].id
      /\ \A i \in DOMAIN more : ~Has(shapes, more[i].id) => \E k \in DOMAIN new : new[k] = more[i]
  BY <1>7, NewOfIs
<1> HIDE DEF new
<1>10. merged \in Seq(StoredShape)
  BY <1>7, <1>8, <1>9, Concat
<1>11. ASSUME Ids(shapes) PROVE Ids(merged)
  <2>1. Ids(old)
    BY <1>5, <1>7, <1>11 DEF Ids
  <2>2. Ids(more)
    BY <1>1, <1>6, <1>7 DEF Ids
  <2>3. Ids(new)
    BY <1>9, <2>2, WithinIds
  <2>4. \A i \in DOMAIN old, j \in DOMAIN new : old[i].id # new[j].id
    BY <1>5, <1>7, <1>9
  <2> QED
    BY <1>7, <1>8, <1>9, <2>1, <2>3, <2>4, ConcatIds
<1>12. ASSUME cur # <<>> PROVE r \in Referenced(merged)
  <2>1. 1 \in DOMAIN cur
    BY <1>1, <1>2, <1>12
  <2>2. CASE Has(shapes, cur[1].id)
    <3>1. PICK i \in DOMAIN shapes : shapes[i].id = cur[1].id
      BY <2>2 DEF Has
    <3>2. Has(cur, shapes[i].id)
      BY <2>1, <3>1 DEF Has
    <3>3. r \in Recorded(old[i]) /\ i \in DOMAIN old
      BY <1>5, <1>7, <3>2
    <3>4. i \in DOMAIN merged /\ merged[i] = old[i]
      BY <1>7, <1>8, <1>9, <3>3, Concat
    <3> QED
      BY <3>3, <3>4 DEF Referenced
  <2>3. CASE ~Has(shapes, cur[1].id)
    <3>1. PICK k \in DOMAIN new : new[k] = more[1]
      BY <1>6, <1>7, <1>9, <2>1, <2>3
    <3>2. r \in Recorded(new[k])
      BY <1>6, <2>1, <3>1
    <3>3. Len(old) + k \in DOMAIN merged /\ merged[Len(old) + k] = new[k]
      <4>1. \A j \in DOMAIN new :
               Len(old) + j \in DOMAIN (old \o new) /\ (old \o new)[Len(old) + j] = new[j]
        <5>1. old \in Seq(StoredShape) /\ new \in Seq(StoredShape)
          BY <1>7, <1>9
        <5> QED
          BY <5>1, Concat
      <4> QED
        BY <1>8, <4>1, Zenon
    <3> QED
      BY <3>2, <3>3 DEF Referenced
  <2> QED
    BY <2>2, <2>3
<1> QED
  BY <1>10, <1>11, <1>12 DEF merged

LEMMA ImportedIs ==
    ASSUME NEW shapes \in Seq(StoredShape), NEW imported \in Seq(StoredShape)
    PROVE  ImportShapes(shapes, imported) \in Seq(StoredShape)
<1> DEFINE old == [i \in DOMAIN shapes |->
                     IF Has(imported, shapes[i].id)
                     THEN Extend(shapes[i], imported[IndexOf(imported, shapes[i].id)])
                     ELSE shapes[i]]
<1>1. \A S, T \in Histories : S \cup T \in Histories
  BY FS_Union DEF Histories
<1>2. \A s, t \in StoredShape : Extend(s, t) \in StoredShape
  <2> SUFFICES ASSUME NEW s \in StoredShape, NEW t \in StoredShape PROVE Extend(s, t) \in StoredShape
    OBVIOUS
  <2>1. {s.eff, s.wl, s.values, t.eff, t.wl, t.values} \subseteq Histories
    BY DEF StoredShape
  <2>2. /\ s.eff \cup t.eff \in Histories /\ s.wl \cup t.wl \in Histories
        /\ s.values \cup t.values \in Histories
    BY <1>1, <2>1
  <2> QED
    BY <2>2 DEF Extend, StoredShape
<1>3. \A i \in DOMAIN shapes : Has(imported, shapes[i].id) =>
          IndexOf(imported, shapes[i].id) \in DOMAIN imported
  BY DEF Has, IndexOf
<1>4. /\ \A i \in DOMAIN shapes : shapes[i] \in StoredShape
      /\ \A i \in DOMAIN imported : imported[i] \in StoredShape
  OBVIOUS
<1>5. \A i \in DOMAIN shapes : old[i] \in StoredShape
  BY <1>2, <1>3, <1>4
<1>6. Len(shapes) \in Nat /\ DOMAIN shapes = 1..Len(shapes)
  OBVIOUS
<1>7. old \in Seq(StoredShape)
  <2>1. old \in [1..Len(shapes) -> StoredShape]
    BY <1>5, <1>6
  <2> QED
    BY <1>6, <2>1
<1>8. ImportShapes(shapes, imported) = old \o NewOf(shapes, imported)
  BY DEF ImportShapes
<1> HIDE DEF old
<1> QED
  BY <1>7, <1>8, NewOfIs, Concat

-----------------------------------------------------------------------------
(* The size limit. *)

LEMMA OldestOfIs ==
    ASSUME NEW T \in Histories
    PROVE  /\ Cardinality(T) \in Nat /\ OldestOf(T, Cardinality(T)) = T
           /\ \A n : OldestOf(T, n) \subseteq T
<1>1. T \subseteq Nat /\ IsFiniteSet(T) /\ Cardinality(T) \in Nat
  BY FS_CardinalityType DEF Histories
<1>2. ASSUME NEW r \in T PROVE Cardinality({q \in T : q < r}) < Cardinality(T)
  <2>1. r \in Nat /\ {q \in T : q < r} \subseteq T
    BY <1>1
  <2>2. r \notin {q \in T : q < r}
    BY <2>1
  <2> QED
    BY <1>1, <2>1, <2>2, PartIsSmaller
<1>3. \A n : OldestOf(T, n) \subseteq T
  BY DEF OldestOf
<1>4. OldestOf(T, Cardinality(T)) = T
  BY <1>2 DEF OldestOf
<1> QED
  BY <1>1, <1>3, <1>4

LEMMA StripRunsIs ==
    ASSUME NEW d, IsTrendData(d), NEW T
    PROVE  /\ IsTrendData(StripTrendRunValues(d, T))
           /\ StripTrendRunValues(d, T).runs = d.runs /\ StripTrendRunValues(d, T).pinned = d.pinned
           /\ DOMAIN StripTrendRunValues(d, T).shapes = DOMAIN d.shapes
           /\ \A i \in DOMAIN d.shapes :
                 /\ StripTrendRunValues(d, T).shapes[i].id = d.shapes[i].id
                 /\ Recorded(StripTrendRunValues(d, T).shapes[i]) = Recorded(d.shapes[i])
                 /\ StripTrendRunValues(d, T).shapes[i].values = d.shapes[i].values \ T
           /\ Within(StripTrendRunValues(d, T).shapes, d.shapes)
<1> DEFINE e == StripTrendRunValues(d, T)
           shapes == [i \in DOMAIN d.shapes |-> [d.shapes[i] EXCEPT !.values = @ \ T]]
<1>1. /\ d.runs \in Histories /\ d.pinned \subseteq d.runs /\ d.shapes \in Seq(StoredShape)
      /\ d = [runs |-> d.runs, pinned |-> d.pinned, shapes |-> d.shapes]
  BY DEF IsTrendData
<1>2. e = [runs |-> d.runs, pinned |-> d.pinned, shapes |-> shapes]
  <2>1. PICK a, b, c : d = [runs |-> a, pinned |-> b, shapes |-> c]
    BY <1>1
  <2>2. d.runs = a /\ d.pinned = b /\ d.shapes = c
    BY <2>1
  <2>3. e = [d EXCEPT !.shapes = shapes]
    BY DEF StripTrendRunValues, StripValues
  <2> HIDE DEF e, shapes
  <2> QED
    BY <2>1, <2>2, <2>3
<1>3. /\ e.runs = d.runs /\ e.pinned = d.pinned /\ e.shapes = shapes
      /\ e = [runs |-> e.runs, pinned |-> e.pinned, shapes |-> e.shapes]
  BY <1>2
<1>4. ASSUME NEW i \in DOMAIN d.shapes
      PROVE  /\ shapes[i] \in StoredShape /\ shapes[i].id = d.shapes[i].id
             /\ shapes[i].eff = d.shapes[i].eff /\ shapes[i].wl = d.shapes[i].wl
             /\ shapes[i].values = d.shapes[i].values \ T
  <2>1. d.shapes[i] \in StoredShape
    BY <1>1
  <2>2. d.shapes[i].values \in Histories
    BY <2>1 DEF StoredShape
  <2>3. d.shapes[i].values \ T \in Histories
    BY <2>2, FS_Difference DEF Histories
  <2> QED
    BY <2>1, <2>3 DEF StoredShape
<1>5. Len(d.shapes) \in Nat /\ DOMAIN d.shapes = 1..Len(d.shapes)
  BY <1>1
<1>6. shapes \in Seq(StoredShape) /\ DOMAIN shapes = DOMAIN d.shapes
  <2>1. shapes \in [1..Len(d.shapes) -> StoredShape]
    BY <1>4, <1>5
  <2> QED
    BY <1>5, <2>1
<1> HIDE DEF shapes
<1>7. Source(shapes, d.shapes, [i \in DOMAIN shapes |-> i])
  BY <1>4, <1>6 DEF Source
<1>8. IsTrendData(e) /\ Within(e.shapes, d.shapes)
  BY <1>1, <1>3, <1>6, <1>7 DEF IsTrendData, Within
<1> HIDE DEF e
<1> QED
  BY <1>3, <1>4, <1>6, <1>8 DEF e, Recorded

LEMMA StripIs ==
    ASSUME NEW d, IsTrendData(d)
    PROVE  \E T : /\ StripToSize(d) = StripTrendRunValues(d, T)
                  /\ \/ Size(StripToSize(d)) <= TrendStoreMaxSize
                     \/ \A i \in DOMAIN d.shapes : d.shapes[i].values \cap Older(d) \subseteq T
<1> DEFINE W == UNION {d.shapes[i].values : i \in DOMAIN d.shapes}
           V == W \cap Older(d)
           F == {n \in 0..Cardinality(V) :
                    Size(StripTrendRunValues(d, OldestOf(V, n))) <= TrendStoreMaxSize}
           n == IF F = {} THEN Cardinality(V) ELSE Min(F)
<1>1. StripToSize(d) = StripTrendRunValues(d, OldestOf(V, n))
  BY DEF StripToSize, Needed
<1>2. V \in Histories
  <2>1. Older(d) \subseteq d.runs /\ d.runs \in Histories
    BY DEF IsTrendData, Older
  <2> HIDE DEF W
  <2>2. V \subseteq d.runs
    BY <2>1
  <2> HIDE DEF V
  <2> QED
    BY <2>1, <2>2, FS_Subset DEF Histories
<1>3. \A i \in DOMAIN d.shapes : d.shapes[i].values \cap Older(d) \subseteq V
  <2>1. \A i \in DOMAIN d.shapes : d.shapes[i].values \subseteq W
    OBVIOUS
  <2> HIDE DEF W
  <2> QED
    BY <2>1
<1> HIDE DEF V, W
<1>4. Cardinality(V) \in Nat /\ OldestOf(V, Cardinality(V)) = V
  BY <1>2, OldestOfIs
<1>5. F \subseteq Nat /\ \A m \in F : Size(StripTrendRunValues(d, OldestOf(V, m))) <= TrendStoreMaxSize
  BY <1>4
<1> HIDE DEF F
<1>6. CASE F = {}
  BY <1>1, <1>3, <1>4, <1>6
<1>7. CASE F # {}
  <2>1. Min(F) \in F
    BY <1>5, <1>7, MinOf
  <2> QED
    BY <1>1, <1>5, <1>7, <2>1
<1> QED
  BY <1>6, <1>7

LEMMA DropIs ==
    ASSUME NEW d, IsTrendData(d)
    PROVE  \E T : /\ DropToSize(d) = RemoveTrendRuns(d, T) /\ T \subseteq Older(d) \ d.pinned
                  /\ Size(DropToSize(d)) <= TrendStoreMaxSize \/ T = Older(d) \ d.pinned
<1> DEFINE V == Older(d) \ d.pinned
           F == {n \in 0..Cardinality(V) :
                    Size(RemoveTrendRuns(d, OldestOf(V, n))) <= TrendStoreMaxSize}
           n == IF F = {} THEN Cardinality(V) ELSE Min(F)
<1>1. DropToSize(d) = RemoveTrendRuns(d, OldestOf(V, n))
  BY DEF DropToSize, Needed
<1>2. V \in Histories
  <2>1. V \subseteq d.runs /\ d.runs \in Histories
    BY DEF IsTrendData, Older
  <2> QED
    BY <2>1, FS_Subset DEF Histories
<1>3. V = Older(d) \ d.pinned
  OBVIOUS
<1> HIDE DEF V
<1>4. /\ Cardinality(V) \in Nat /\ OldestOf(V, Cardinality(V)) = V
      /\ \A m : OldestOf(V, m) \subseteq V
  BY <1>2, OldestOfIs
<1>5. F \subseteq Nat /\ \A m \in F : Size(RemoveTrendRuns(d, OldestOf(V, m))) <= TrendStoreMaxSize
  BY <1>4
<1> HIDE DEF F
<1>6. CASE F = {}
  BY <1>1, <1>3, <1>4, <1>6
<1>7. CASE F # {}
  <2>1. Min(F) \in F
    BY <1>5, <1>7, MinOf
  <2> QED
    BY <1>1, <1>3, <1>4, <1>5, <1>7, <2>1
<1> QED
  BY <1>6, <1>7

LEMMA CutShapesIs ==
    ASSUME NEW d, IsTrendData(d), NEW n \in 0..Len(d.shapes)
    PROVE  /\ IsTrendData(CutShapes(d, n))
           /\ CutShapes(d, n).runs = d.runs /\ CutShapes(d, n).pinned = d.pinned
           /\ Len(CutShapes(d, n).shapes) = n
           /\ DOMAIN CutShapes(d, n).shapes \subseteq DOMAIN d.shapes
           /\ \A i \in DOMAIN CutShapes(d, n).shapes : CutShapes(d, n).shapes[i] = d.shapes[i]
           /\ Within(CutShapes(d, n).shapes, d.shapes)
           /\ n = Len(d.shapes) => CutShapes(d, n) = d
<1> DEFINE e == CutShapes(d, n)
           shapes == SubSeq(d.shapes, 1, n)
<1>1. /\ d.runs \in Histories /\ d.pinned \subseteq d.runs /\ d.shapes \in Seq(StoredShape)
      /\ d = [runs |-> d.runs, pinned |-> d.pinned, shapes |-> d.shapes]
  BY DEF IsTrendData
<1>2. Len(d.shapes) \in Nat /\ DOMAIN d.shapes = 1..Len(d.shapes) /\ n \in Nat /\ n <= Len(d.shapes)
  BY <1>1
<1>3. /\ shapes \in Seq(StoredShape) /\ Len(shapes) = n /\ DOMAIN shapes = 1..n
      /\ \A i \in 1..n : shapes[i] = d.shapes[i]
  <2> DEFINE all == d.shapes
  <2>1. all \in Seq(StoredShape) /\ Len(all) = Len(d.shapes) /\ shapes = SubSeq(all, 1, n)
    BY <1>1
  <2> HIDE DEF all, shapes
  <2>2. shapes \in Seq(StoredShape) /\ Len(shapes) = n /\ DOMAIN shapes = 1..n
        /\ \A i \in 1..n : shapes[i] = all[i]
    BY <1>2, <2>1
  <2> QED
    BY <2>2 DEF all
<1>4. e.runs = d.runs /\ e.pinned = d.pinned /\ e.shapes = shapes
      /\ e = [runs |-> e.runs, pinned |-> e.pinned, shapes |-> e.shapes]
  <2>1. PICK a, b, c : d = [runs |-> a, pinned |-> b, shapes |-> c]
    BY <1>1
  <2>2. e = [d EXCEPT !.shapes = shapes] /\ d.runs = a /\ d.pinned = b
    BY <2>1 DEF CutShapes
  <2> HIDE DEF e, shapes
  <2> QED
    BY <2>1, <2>2
<1>5. ASSUME n = Len(d.shapes) PROVE e = d
  <2>1. shapes = d.shapes
    <3>1. \A i \in 1..n : shapes[i] = d.shapes[i]
      BY <1>3
    <3> HIDE DEF shapes
    <3> QED
      BY <1>1, <1>2, <1>3, <1>5, <3>1
  <2> HIDE DEF e, shapes
  <2>2. e = [runs |-> e.runs, pinned |-> e.pinned, shapes |-> e.shapes]
    BY <1>4
  <2>3. e.runs = d.runs /\ e.pinned = d.pinned /\ e.shapes = d.shapes
    BY <1>4, <2>1
  <2>4. e = [runs |-> d.runs, pinned |-> d.pinned, shapes |-> d.shapes]
    BY <2>2, <2>3, Zenon
  <2> QED
    BY <1>1, <2>4, Zenon
<1> HIDE DEF shapes, e
<1>6. DOMAIN shapes \subseteq DOMAIN d.shapes /\ \A i \in DOMAIN shapes : shapes[i] = d.shapes[i]
  BY <1>2, <1>3
<1>7. Source(shapes, d.shapes, [i \in DOMAIN shapes |-> i])
  BY <1>6 DEF Source
<1>8. IsTrendData(e) /\ Within(e.shapes, d.shapes)
  BY <1>1, <1>3, <1>4, <1>7 DEF IsTrendData, Within
<1> QED
  BY <1>3, <1>4, <1>5, <1>6, <1>8 DEF e

\* A length that is a tenth less, until it stops: the recursion ends.
Shorter(f, L, stop) == f = [n \in 0..L |-> IF n \in stop THEN n ELSE f[(n * 9) \div 10]]

LEMMA ShorterExists ==
    ASSUME NEW L \in Nat, NEW stop, {0, 1} \subseteq stop
    PROVE  \E f : Shorter(f, L, stop)
<1> DEFINE T == {l \in Nat : ~\E f : Shorter(f, l, stop)}
<1>1. ASSUME T # {} PROVE FALSE
  <2>1. PICK m \in T : \A j \in T : m <= j
    BY <1>1, LeastOf
  <2>2. m \in Nat /\ ~\E f : Shorter(f, m, stop)
    OBVIOUS
  <2>3. CASE m = 0
    <3> DEFINE f == [n \in 0..0 |-> n]
    <3>1. f = [n \in 0..0 |-> IF n \in stop THEN n ELSE f[(n * 9) \div 10]]
      OBVIOUS
    <3> QED
      BY <2>2, <2>3, <3>1 DEF Shorter
  <2>4. CASE m # 0
    <3>1. m - 1 \in Nat /\ m - 1 \notin T
      BY <2>1, <2>2, <2>4
    <3>2. PICK f : Shorter(f, m - 1, stop)
      BY <3>1
    <3> DEFINE Rule(n, g) == IF n \in stop THEN n ELSE g[(n * 9) \div 10]
               h == [n \in 0..m |-> IF n <= m - 1 THEN f[n] ELSE Rule(m, f)]
    <3>3. f = [n \in 0..(m - 1) |-> Rule(n, f)]
      BY <3>2 DEF Shorter
    <3>4. \A n \in 0..m : n \notin stop => (n * 9) \div 10 \in 0..(m - 1) /\ (n * 9) \div 10 \in 0..m
      <4> SUFFICES ASSUME NEW n \in 0..m, n \notin stop
                   PROVE  (n * 9) \div 10 \in 0..(m - 1) /\ (n * 9) \div 10 \in 0..m
        OBVIOUS
      <4>1. n \in Nat /\ n >= 1 /\ n <= m
        BY <2>2
      <4> QED
        BY <2>2, <4>1
    <3>5. \A n \in 0..(m - 1) : h[n] = f[n]
      BY <2>2
    <3>6. \A n \in 0..m : Rule(n, h) = Rule(n, f)
      <4> HIDE DEF h
      <4> QED
        BY <3>4, <3>5
    <3>7. \A n \in 0..m : h[n] = Rule(n, f)
      <4> SUFFICES ASSUME NEW n \in 0..m PROVE h[n] = Rule(n, f)
        OBVIOUS
      <4>1. n <= m - 1 \/ n = m
        BY <2>2
      <4>2. CASE n <= m - 1
        <5>1. n \in 0..(m - 1)
          BY <2>2, <4>2
        <5>2. f[n] = Rule(n, f)
          <6> HIDE DEF Rule, h
          <6> QED
            BY <3>3, <5>1
        <5> QED
          BY <3>5, <5>1, <5>2
      <4>3. CASE n = m /\ ~(n <= m - 1)
        BY <4>3
      <4> QED
        BY <2>2, <4>1, <4>2, <4>3
    <3>8. h = [n \in 0..m |-> Rule(n, h)]
      <4> HIDE DEF Rule
      <4>1. DOMAIN h = 0..m /\ h = [n \in 0..m |-> h[n]]
        OBVIOUS
      <4> HIDE DEF h
      <4> QED
        BY <3>6, <3>7, <4>1
    <3> HIDE DEF h
    <3>9. Shorter(h, m, stop)
      BY <3>8 DEF Shorter
    <3> QED
      BY <2>2, <3>9
  <2> QED
    BY <2>3, <2>4
<1> QED
  BY <1>1

LEMMA ShorterStops ==
    ASSUME NEW L \in Nat, NEW stop, {0, 1} \subseteq stop, NEW f, Shorter(f, L, stop)
    PROVE  /\ \A n \in 0..L : f[n] \in 0..n /\ f[n] \in stop
           /\ L \in stop => f[L] = L
<1>1. \A n \in 0..L : f[n] = IF n \in stop THEN n ELSE f[(n * 9) \div 10]
  BY DEF Shorter
<1> DEFINE T == {n \in 0..L : ~(f[n] \in 0..n /\ f[n] \in stop)}
<1>2. ASSUME T # {} PROVE FALSE
  <2>1. PICK m \in T : \A j \in T : m <= j
    <3>1. T \subseteq Nat
      OBVIOUS
    <3> HIDE DEF T
    <3> QED
      BY <1>2, <3>1, LeastOf
  <2>2. m \in 0..L /\ m \in Nat /\ ~(f[m] \in 0..m /\ f[m] \in stop)
    OBVIOUS
  <2>3. m \notin stop
    BY <1>1, <2>2
  <2> DEFINE k == (m * 9) \div 10
  <2>4. f[m] = f[k]
    BY <1>1, <2>2, <2>3
  <2>5. k \in Nat /\ k < m /\ k <= L
    <3>1. m >= 1 /\ m <= L
      BY <2>2, <2>3
    <3> QED
      BY <2>2, <3>1
  <2> HIDE DEF k
  <2>6. k \notin T
    BY <2>1, <2>2, <2>5
  <2>7. f[k] \in 0..k /\ f[k] \in stop
    BY <2>5, <2>6
  <2> QED
    BY <2>2, <2>4, <2>5, <2>7
<1>3. \A n \in 0..L : f[n] \in 0..n /\ f[n] \in stop
  BY <1>2
<1>4. L \in stop => f[L] = L
  BY <1>1
<1> QED
  BY <1>3, <1>4

LEMMA CutIs ==
    ASSUME NEW d, IsTrendData(d)
    PROVE  \E n \in 0..Len(d.shapes) :
              /\ CutToSize(d) = CutShapes(d, n)
              /\ n <= 1 \/ Size(CutToSize(d)) <= TrendStoreMaxSize
              /\ Size(d) <= TrendStoreMaxSize => CutToSize(d) = d
<1> DEFINE L == Len(d.shapes)
           stop == {n \in 0..L : n <= 1 \/ Size(CutShapes(d, n)) <= TrendStoreMaxSize} \cup {0, 1}
           Fun(f) == f = [n \in 0..L |->
                            IF n <= 1 \/ Size(CutShapes(d, n)) <= TrendStoreMaxSize THEN n
                            ELSE f[(n * 9) \div 10]]
           len == CHOOSE f : Fun(f)
<1>1. L \in Nat
  BY DEF IsTrendData
<1>2. \A n \in 0..L : n \in stop <=> n <= 1 \/ Size(CutShapes(d, n)) <= TrendStoreMaxSize
  BY <1>1
<1>3. {0, 1} \subseteq stop
  OBVIOUS
<1>4. CutToSize(d) = CutShapes(d, len[L])
  BY DEF CutToSize
<1> HIDE DEF stop
<1>5. \A f : Shorter(f, L, stop) <=> Fun(f)
  BY <1>2 DEF Shorter
<1> HIDE DEF L, Fun
<1>6. \E f : Fun(f)
  BY <1>1, <1>3, <1>5, ShorterExists
<1>7. Fun(len)
  BY <1>6
<1> HIDE DEF len
<1>8. /\ len[L] \in 0..L /\ len[L] \in stop
      /\ L \in stop => len[L] = L
  BY <1>1, <1>3, <1>5, <1>7, ShorterStops
<1>9. len[L] <= 1 \/ Size(CutToSize(d)) <= TrendStoreMaxSize
  BY <1>2, <1>4, <1>8
<1>10. Size(d) <= TrendStoreMaxSize => CutToSize(d) = d
  <2>1. CutShapes(d, L) = d
    BY <1>1, CutShapesIs DEF L
  <2>2. L \in 0..L
    BY <1>1
  <2> QED
    BY <1>2, <1>4, <1>8, <2>1, <2>2
<1> QED
  BY <1>4, <1>8, <1>9, <1>10 DEF L

LEMMA CountsWithin ==
    ASSUME NEW a, IsTrendData(a), NEW b, IsTrendData(b), CountsBounded(b),
           a.runs = b.runs, a.pinned = b.pinned, Within(a.shapes, b.shapes),
           \A k \in DOMAIN a.shapes : Recorded(a.shapes[k]) # {}
    PROVE  CountsBounded(a)
<1>1. /\ a.shapes \in Seq(StoredShape) /\ b.shapes \in Seq(StoredShape)
      /\ Len(b.shapes) <= TrendMaxShapeBaselines /\ Ids(b.shapes) /\ Referenced(b.shapes) \subseteq b.runs
  BY DEF IsTrendData, CountsBounded, Ids
<1>2. Len(a.shapes) <= Len(b.shapes) /\ Len(a.shapes) \in Nat /\ Len(b.shapes) \in Nat
  BY <1>1, WithinLength
<1>3. Len(a.shapes) <= TrendMaxShapeBaselines
  BY <1>1, <1>2, TrendAssumption
<1>4. Ids(a.shapes)
  BY <1>1, WithinIds
<1>5. Referenced(a.shapes) \subseteq b.runs
  <2>1. PICK g : Source(a.shapes, b.shapes, g)
    BY DEF Within
  <2>2. \A k \in DOMAIN a.shapes : g[k] \in DOMAIN b.shapes
                                   /\ Recorded(a.shapes[k]) \subseteq Recorded(b.shapes[g[k]])
    BY <2>1 DEF Source, Recorded
  <2>3. \A i \in DOMAIN b.shapes : Recorded(b.shapes[i]) \subseteq b.runs
    BY <1>1 DEF Referenced
  <2>4. \A k \in DOMAIN a.shapes : Recorded(a.shapes[k]) \subseteq b.runs
    BY <2>2, <2>3
  <2> HIDE <2>2, <2>3
  <2> QED
    BY <2>4 DEF Referenced
<1> QED
  BY <1>3, <1>4, <1>5 DEF CountsBounded, Ids

LEMMA BoundIs ==
    ASSUME NEW d, IsTrendData(d), CountsBounded(d)
    PROVE  /\ IsTrendData(BoundTrendSize(d)) /\ CountsBounded(BoundTrendSize(d))
           /\ SizeBounded(BoundTrendSize(d))
           /\ BoundTrendSize(d).pinned = d.pinned
           /\ d.runs \ Older(d) \subseteq BoundTrendSize(d).runs /\ BoundTrendSize(d).runs \subseteq d.runs
           /\ \A k \in DOMAIN BoundTrendSize(d).shapes : \E i \in DOMAIN d.shapes :
                 Recorded(d.shapes[i]) \cap d.pinned \subseteq Recorded(BoundTrendSize(d).shapes[k])
           /\ \/ Referenced(d.shapes) \cap BoundTrendSize(d).runs
                    \subseteq Referenced(BoundTrendSize(d).shapes)
              \/ BoundTrendSize(d).runs \ d.pinned \subseteq d.runs \ Older(d)
<1> DEFINE light == StripToSize(d)
           less == DropToSize(light)
           bound == BoundTrendSize(d)
<1>1. d.pinned \subseteq d.runs /\ \A i \in DOMAIN d.shapes : Recorded(d.shapes[i]) # {}
  BY DEF CountsBounded
<1>2. PICK T : /\ light = StripTrendRunValues(d, T)
               /\ \/ Size(light) <= TrendStoreMaxSize
                  \/ \A i \in DOMAIN d.shapes : d.shapes[i].values \cap Older(d) \subseteq T
  BY StripIs
<1> HIDE DEF light
<1>3. /\ IsTrendData(light) /\ light.runs = d.runs /\ light.pinned = d.pinned
      /\ DOMAIN light.shapes = DOMAIN d.shapes
      /\ \A i \in DOMAIN d.shapes : /\ Recorded(light.shapes[i]) = Recorded(d.shapes[i])
                                    /\ light.shapes[i].values = d.shapes[i].values \ T
      /\ Within(light.shapes, d.shapes)
  BY <1>2, StripRunsIs
<1>4. CountsBounded(light)
  <2>1. \A k \in DOMAIN light.shapes : Recorded(light.shapes[k]) # {}
    BY <1>1, <1>3
  <2> QED
    BY <1>3, <2>1, CountsWithin
<1>5. Older(light) = Older(d) /\ Referenced(light.shapes) = Referenced(d.shapes)
  BY <1>3 DEF Older, Referenced
<1>6. PICK U : /\ less = RemoveTrendRuns(light, U) /\ U \subseteq Older(d) \ d.pinned
               /\ Size(less) <= TrendStoreMaxSize \/ U = Older(d) \ d.pinned
  BY <1>3, <1>5, DropIs
<1> HIDE DEF less
<1>7. /\ IsTrendData(less) /\ less.runs = d.runs \ U /\ less.pinned = d.pinned \ U
      /\ Within(less.shapes, light.shapes)
      /\ \A k \in DOMAIN less.shapes :
            /\ Recorded(less.shapes[k]) # {}
            /\ \E i \in DOMAIN d.shapes :
                  /\ Recorded(less.shapes[k]) = Recorded(d.shapes[i]) \ U
                  /\ less.shapes[k].values \subseteq light.shapes[i].values
      /\ Referenced(less.shapes) = Referenced(d.shapes) \ U
  <2>1. /\ IsTrendData(less) /\ less.runs = light.runs \ U /\ less.pinned = light.pinned \ U
        /\ Within(less.shapes, light.shapes)
        /\ \A k \in DOMAIN less.shapes :
              /\ Recorded(less.shapes[k]) # {}
              /\ \E i \in DOMAIN light.shapes :
                    /\ Recorded(less.shapes[k]) = Recorded(light.shapes[i]) \ U
                    /\ less.shapes[k].values = light.shapes[i].values \ U
        /\ Referenced(less.shapes) = Referenced(light.shapes) \ U
    BY <1>3, <1>6, RemoveIs
  <2> QED
    BY <1>3, <1>5, <2>1
<1>8. CountsBounded(less)
  BY <1>3, <1>4, <1>6, RemoveCounts
<1>9. less.pinned = d.pinned
  BY <1>6, <1>7
<1>10. Size(light) <= TrendStoreMaxSize => Size(less) <= TrendStoreMaxSize
  <2>1. Size(less) \in Nat /\ Size(light) \in Nat /\ Size(less) <= Size(light)
    <3>1. less.runs \subseteq light.runs
      BY <1>3, <1>7
    <3> QED
      BY <1>3, <1>7, <3>1, SizeShrinks
  <2> QED
    BY <2>1, TrendAssumption
<1>11. PICK n \in 0..Len(less.shapes) :
          /\ bound = CutShapes(less, n)
          /\ n <= 1 \/ Size(bound) <= TrendStoreMaxSize
          /\ Size(less) <= TrendStoreMaxSize => bound = less
  <2>1. bound = CutToSize(less)
    BY DEF BoundTrendSize, less, light
  <2> HIDE DEF bound
  <2> QED
    BY <1>7, <2>1, CutIs
<1> HIDE DEF bound
<1>12. /\ IsTrendData(bound) /\ bound.runs = less.runs /\ bound.pinned = less.pinned
       /\ Len(bound.shapes) = n /\ DOMAIN bound.shapes \subseteq DOMAIN less.shapes
       /\ \A i \in DOMAIN bound.shapes : bound.shapes[i] = less.shapes[i]
       /\ Within(bound.shapes, less.shapes)
  BY <1>7, <1>11, CutShapesIs
<1>13. CountsBounded(bound)
  <2>1. \A k \in DOMAIN bound.shapes : Recorded(bound.shapes[k]) # {}
    BY <1>7, <1>12
  <2> QED
    BY <1>7, <1>8, <1>12, <2>1, CountsWithin
<1>14. bound.pinned = d.pinned /\ d.runs \ Older(d) \subseteq bound.runs /\ bound.runs \subseteq d.runs
  BY <1>6, <1>7, <1>9, <1>12
<1>15. SizeBounded(bound)
  <2>1. CASE Size(bound) <= TrendStoreMaxSize
    BY <2>1 DEF SizeBounded
  <2>2. CASE ~(Size(bound) <= TrendStoreMaxSize)
    <3>1. Len(bound.shapes) <= 1 /\ ~(Size(less) <= TrendStoreMaxSize)
      BY <1>11, <1>12, <2>2
    <3>2. U = Older(d) \ d.pinned /\ ~(Size(light) <= TrendStoreMaxSize)
      BY <1>6, <1>10, <3>1
    <3>3. \A i \in DOMAIN d.shapes : light.shapes[i].values \cap Older(d) = {}
      BY <1>2, <1>3, <3>2
    <3>4. \A k \in DOMAIN bound.shapes : bound.shapes[k].values \cap Older(d) = {}
      BY <1>7, <1>12, <3>3
    <3>5. \A r \in Older(bound) : r \in Older(d) /\ r \notin U
      BY <1>7, <1>12, <1>14 DEF Older
    <3> QED
      BY <1>14, <3>1, <3>2, <3>4, <3>5 DEF SizeBounded
  <2> QED
    BY <2>1, <2>2
<1>16. ASSUME NEW k \in DOMAIN bound.shapes
       PROVE  \E i \in DOMAIN d.shapes : Recorded(d.shapes[i]) \cap d.pinned \subseteq Recorded(bound.shapes[k])
  BY <1>6, <1>7, <1>12
<1>17. \/ Referenced(d.shapes) \cap bound.runs \subseteq Referenced(bound.shapes)
       \/ bound.runs \ d.pinned \subseteq d.runs \ Older(d)
  <2>1. CASE Size(less) <= TrendStoreMaxSize
    <3>1. bound = less
      BY <1>11, <2>1
    <3> QED
      BY <1>7, <3>1
  <2>2. CASE U = Older(d) \ d.pinned
    BY <1>7, <1>12, <2>2
  <2> QED
    BY <1>6, <2>1, <2>2
<1> QED
  BY <1>12, <1>13, <1>14, <1>15, <1>16, <1>17 DEF bound

-----------------------------------------------------------------------------
(* The calls. *)

LEMMA NothingIs ==
    IsTrendData(EmptyTrendData) /\ CountsBounded(EmptyTrendData) /\ SizeBounded(EmptyTrendData)
<1> DEFINE e == EmptyTrendData
<1>1. e.runs = {} /\ e.pinned = {} /\ e.shapes = <<>>
  BY DEF EmptyTrendData
<1>2. {} \in Histories /\ <<>> \in Seq(StoredShape)
  BY FS_EmptySet DEF Histories
<1>3. IsTrendData(e)
  <2>1. e = [runs |-> e.runs, pinned |-> e.pinned, shapes |-> e.shapes]
    BY DEF EmptyTrendData
  <2> HIDE DEF e
  <2> QED
    BY <1>1, <1>2, <2>1 DEF IsTrendData
<1> HIDE DEF e
<1>4. Cardinality({}) = 0
  BY FS_EmptySet
<1>5. DOMAIN e.shapes = {} /\ Len(e.shapes) = 0 /\ Referenced(e.shapes) = {} /\ Older(e) = {}
  BY <1>1 DEF Referenced, Older
<1>6. CountsBounded(e)
  BY <1>1, <1>4, <1>5, TrendAssumption DEF CountsBounded
<1>7. SizeBounded(e)
  BY <1>5 DEF SizeBounded
<1> QED
  BY <1>3, <1>6, <1>7 DEF e

LEMMA ReadBackIs ==
    ASSUME NEW d, IsTrendData(d), NEW invalid
    PROVE  /\ IsTrendData(ReadBack(d, invalid)) /\ CountsBounded(ReadBack(d, invalid))
           /\ SizeBounded(ReadBack(d, invalid))
<1>1. CASE Size(d) + 1 > TrendStoreMaxSize
  BY <1>1, NothingIs DEF ReadBack
<1>2. CASE ~(Size(d) + 1 > TrendStoreMaxSize)
  <2> DEFINE s == SanitizeTrendData(d, invalid)
  <2>1. IsTrendData(s) /\ CountsBounded(s) /\ {Size(s), Size(d)} \subseteq Nat /\ Size(s) <= Size(d)
    BY SanitizeIs
  <2>2. ReadBack(d, invalid) = s
    BY <1>2 DEF ReadBack
  <2> HIDE DEF s
  <2>3. Size(s) <= TrendStoreMaxSize
    BY <1>2, <2>1, TrendAssumption
  <2> QED
    BY <2>1, <2>2, <2>3 DEF SizeBounded
<1> QED
  BY <1>1, <1>2

TrendInv ==
    /\ IsTrendData(trend) /\ newest \in Nat /\ trendRuns \in Nat
    /\ TrendDataBounded

LEMMA CurrentIs ==
    ASSUME IsTrendData(trend), CountsBounded(trend)
    PROVE  IsTrendData(Current) /\ CountsBounded(Current)
BY ReadBackIs DEF Current

\* A change that records no run.
LEMMA ChangedIs ==
    ASSUME NEW d, IsTrendData(d), CountsBounded(d), SaveTrend(d, 0), trendRuns' \in Nat
    PROVE  TrendInv'
<1>1. trend' = BoundTrendSize(d) /\ newest' = 0
  BY DEF SaveTrend
<1>2. IsTrendData(trend') /\ CountsBounded(trend') /\ SizeBounded(trend')
  BY <1>1, BoundIs
<1>3. (RecordedStays /\ ListedRunsCompare)'
  BY <1>1 DEF RecordedStays, ListedRunsCompare
<1> QED
  BY <1>1, <1>2, <1>3 DEF TrendInv, TrendDataBounded

LEMMA PinnedIs ==
    ASSUME NEW d, IsTrendData(d), CountsBounded(d), NEW P, P \subseteq d.runs,
           Cardinality(P) <= TrendMaxPinnedRuns
    PROVE  IsTrendData([d EXCEPT !.pinned = P]) /\ CountsBounded([d EXCEPT !.pinned = P])
<1> DEFINE e == [d EXCEPT !.pinned = P]
<1>1. /\ d.runs \in Histories /\ d.shapes \in Seq(StoredShape)
      /\ d = [runs |-> d.runs, pinned |-> d.pinned, shapes |-> d.shapes]
  BY DEF IsTrendData
<1>2. e = [runs |-> d.runs, pinned |-> P, shapes |-> d.shapes]
  <2>1. PICK a, b, c : d = [runs |-> a, pinned |-> b, shapes |-> c]
    BY <1>1
  <2> QED
    BY <2>1
<1> HIDE DEF e
<1>3. e.runs = d.runs /\ e.pinned = P /\ e.shapes = d.shapes
  BY <1>2
<1>4. e = [runs |-> e.runs, pinned |-> e.pinned, shapes |-> e.shapes]
  BY <1>2, <1>3
<1>5. IsTrendData(e)
  BY <1>1, <1>3, <1>4 DEF IsTrendData
<1>6. CountsBounded(e)
  BY <1>3 DEF CountsBounded
<1> QED
  BY <1>5, <1>6 DEF e

LEMMA PinStep ==
    ASSUME TrendInv, NEW run, Pin(run)
    PROVE  TrendInv'
<1> DEFINE d == Current
           P == d.pinned \cup {run}
<1>1. IsTrendData(d) /\ CountsBounded(d) /\ trendRuns \in Nat
  BY CurrentIs DEF TrendInv, TrendDataBounded
<1>2. /\ run \in d.runs
      /\ run \in d.pinned \/ Cardinality(d.pinned) < TrendMaxPinnedRuns
      /\ SaveTrend([d EXCEPT !.pinned = P], 0) /\ trendRuns' = trendRuns
  BY DEF Pin
<1> HIDE DEF d
<1>3. /\ d.pinned \subseteq d.runs /\ IsFiniteSet(d.runs)
      /\ Cardinality(d.pinned) <= TrendMaxPinnedRuns
  BY <1>1 DEF IsTrendData, CountsBounded, Histories
<1>4. P \subseteq d.runs
  <2>1. run \in d.runs /\ d.pinned \subseteq d.runs
    BY <1>2, <1>3
  <2> QED
    BY <2>1
<1>5. Cardinality(P) <= TrendMaxPinnedRuns
  <2>1. IsFiniteSet(d.pinned) /\ Cardinality(d.pinned) \in Nat
    BY <1>3, FS_Subset, FS_CardinalityType
  <2>2. CASE run \in d.pinned
    <3>1. P = d.pinned
      BY <2>2
    <3> QED
      BY <1>3, <3>1
  <2>3. CASE run \notin d.pinned
    <3>1. Cardinality(P) = Cardinality(d.pinned) + 1
      BY <2>1, <2>3, FS_AddElement
    <3>2. Cardinality(d.pinned) < TrendMaxPinnedRuns
      BY <1>2, <2>3
    <3> HIDE DEF P
    <3> QED
      BY <2>1, <3>1, <3>2, TrendAssumption
  <2> QED
    BY <2>2, <2>3
<1> HIDE DEF P
<1>6. IsTrendData([d EXCEPT !.pinned = P]) /\ CountsBounded([d EXCEPT !.pinned = P])
  BY <1>1, <1>4, <1>5, PinnedIs
<1> QED
  BY <1>1, <1>2, <1>6, ChangedIs

LEMMA UnpinStep ==
    ASSUME TrendInv, NEW run, Unpin(run)
    PROVE  TrendInv'
<1> DEFINE d == Current
           P == d.pinned \ {run}
<1>1. IsTrendData(d) /\ CountsBounded(d) /\ trendRuns \in Nat
  BY CurrentIs DEF TrendInv, TrendDataBounded
<1>2. SaveTrend([d EXCEPT !.pinned = P], 0) /\ trendRuns' = trendRuns
  BY DEF Unpin
<1> HIDE DEF d
<1>3. /\ d.pinned \subseteq d.runs /\ IsFiniteSet(d.runs)
      /\ Cardinality(d.pinned) <= TrendMaxPinnedRuns
  BY <1>1 DEF IsTrendData, CountsBounded, Histories
<1>4. P \subseteq d.runs /\ P \subseteq d.pinned
  BY <1>3
<1>5. Cardinality(P) <= TrendMaxPinnedRuns
  <2>1. IsFiniteSet(d.pinned)
    BY <1>3, FS_Subset
  <2>2. /\ Cardinality(P) \in Nat /\ Cardinality(d.pinned) \in Nat
        /\ Cardinality(P) <= Cardinality(d.pinned)
    BY <1>4, <2>1, FS_Subset, FS_CardinalityType
  <2> HIDE DEF P
  <2> QED
    BY <1>3, <2>2, TrendAssumption
<1> HIDE DEF P
<1>6. IsTrendData([d EXCEPT !.pinned = P]) /\ CountsBounded([d EXCEPT !.pinned = P])
  BY <1>1, <1>4, <1>5, PinnedIs
<1> QED
  BY <1>1, <1>2, <1>6, ChangedIs

LEMMA DeleteStep ==
    ASSUME TrendInv, NEW run, DeleteRun(run)
    PROVE  TrendInv'
<1> DEFINE d == Current
<1>1. IsTrendData(d) /\ CountsBounded(d) /\ trendRuns \in Nat
  BY CurrentIs DEF TrendInv, TrendDataBounded
<1>2. SaveTrend(RemoveTrendRuns(d, {run}), 0) /\ trendRuns' = trendRuns
  BY DEF DeleteRun, RemoveTrendRun, RemoveTrendRuns
<1> HIDE DEF d
<1>3. IsTrendData(RemoveTrendRuns(d, {run})) /\ CountsBounded(RemoveTrendRuns(d, {run}))
  BY <1>1, RemoveIs, RemoveCounts
<1> QED
  BY <1>1, <1>2, <1>3, ChangedIs

LEMMA ImportStep ==
    ASSUME TrendInv, NEW x \in TrendFiles, NEW invalid, Import(x, invalid)
    PROVE  TrendInv'
<1> DEFINE d == Current
           s == SanitizeTrendData(x, invalid)
           added == s.runs \ d.runs
           n == IF Cardinality(d.pinned) >= TrendMaxPinnedRuns THEN 0
                ELSE TrendMaxPinnedRuns - Cardinality(d.pinned)
           pins == NewestOf(s.pinned \cap added, n)
           e == [runs |-> d.runs \cup added, pinned |-> d.pinned \cup pins,
                 shapes |-> ImportShapes(d.shapes, FilterAll(s.shapes, added))]
<1>1. IsTrendData(d) /\ CountsBounded(d) /\ trendRuns \in Nat
  BY CurrentIs DEF TrendInv, TrendDataBounded
<1>2. IsTrendData(s)
  BY SanitizeIs, TrendAssumption
<1>3. SaveTrend(PruneTrendData(e, KeepRuns), 0) /\ trendRuns' = trendRuns
  BY DEF Import, ImportTrends
<1> HIDE DEF d, s
<1>4. /\ d.runs \in Histories /\ d.pinned \subseteq d.runs /\ d.shapes \in Seq(StoredShape)
      /\ s.runs \in Histories /\ s.pinned \subseteq s.runs /\ s.shapes \in Seq(StoredShape)
  BY <1>1, <1>2 DEF IsTrendData
<1>5. d.runs \cup added \in Histories /\ s.pinned \cap added \in Histories
  BY <1>4, FS_Union, FS_Subset DEF Histories
<1>6. n \in Nat
  <2>1. Cardinality(d.pinned) \in Nat
    BY <1>4, FS_Subset, FS_CardinalityType DEF Histories
  <2> QED
    BY <2>1, TrendAssumption
<1> HIDE DEF n
<1>7. pins \subseteq added
  BY <1>5, <1>6, NewestOfIs
<1> HIDE DEF pins
<1>8. FilterAll(s.shapes, added) \in Seq(StoredShape)
  BY <1>4, FilterAllIs
<1>9. ImportShapes(d.shapes, FilterAll(s.shapes, added)) \in Seq(StoredShape)
  BY <1>4, <1>8, ImportedIs
<1>10. IsTrendData(e)
  <2>1. /\ e.runs = d.runs \cup added /\ e.pinned = d.pinned \cup pins
        /\ e.shapes = ImportShapes(d.shapes, FilterAll(s.shapes, added))
        /\ e = [runs |-> e.runs, pinned |-> e.pinned, shapes |-> e.shapes]
    OBVIOUS
  <2>2. d.pinned \cup pins \subseteq d.runs \cup added
    BY <1>4, <1>7
  <2> HIDE DEF e, added
  <2> QED
    BY <1>5, <1>9, <2>1, <2>2 DEF IsTrendData
<1> HIDE DEF e
<1>11. KeepRuns \in Nat /\ KeepRuns <= MaxTrendHistoryRuns
  BY TrendAssumption
<1>12. IsTrendData(PruneTrendData(e, KeepRuns)) /\ CountsBounded(PruneTrendData(e, KeepRuns))
  BY <1>10, <1>11, PruneIs, PruneCounts
<1> QED
  BY <1>1, <1>3, <1>12, ChangedIs

LEMMA RecordStep ==
    ASSUME TrendInv, NEW cur \in RunShapes, Record(cur)
    PROVE  TrendInv'
<1> DEFINE d == Current
           r == trendRuns + 1
           old == RemoveTrendRuns(d, {r})
           merged == MergeSnapshots(old.shapes, r, cur)
           e == [runs |-> old.runs \cup {r}, pinned |-> old.pinned, shapes |-> merged]
           p == PruneTrendData(e, KeepRuns)
           b == BoundTrendSize(p)
<1>1. IsTrendData(d) /\ CountsBounded(d) /\ r \in Nat /\ r # 0
  BY CurrentIs DEF TrendInv, TrendDataBounded
<1>2. trend' = b /\ newest' = r /\ trendRuns' = r /\ cur # <<>>
  BY DEF Record, SaveTrend, MergeTrendBaselines, RemoveTrendRun, RemoveTrendRuns
<1> HIDE DEF d, r
<1>3. IsTrendData(old) /\ CountsBounded(old)
  BY <1>1, RemoveIs, RemoveCounts
<1> HIDE DEF old
<1>4. /\ old.runs \in Histories /\ old.pinned \subseteq old.runs /\ old.shapes \in Seq(StoredShape)
      /\ old = [runs |-> old.runs, pinned |-> old.pinned, shapes |-> old.shapes]
      /\ Ids(old.shapes)
  BY <1>3 DEF IsTrendData, CountsBounded, Ids
<1>5. merged \in Seq(StoredShape) /\ Ids(merged) /\ r \in Referenced(merged)
  BY <1>1, <1>2, <1>4, TrendAssumption, MergeIs
<1> HIDE DEF merged
<1>6. /\ e.runs = old.runs \cup {r} /\ e.pinned = old.pinned /\ e.shapes = merged
      /\ e = [runs |-> e.runs, pinned |-> e.pinned, shapes |-> e.shapes]
  OBVIOUS
<1> HIDE DEF e
<1>7. IsTrendData(e)
  <2>1. old.runs \cup {r} \in Histories
    BY <1>1, <1>4, FS_AddElement DEF Histories
  <2>2. old.pinned \subseteq old.runs \cup {r}
    BY <1>4
  <2> QED
    BY <1>5, <1>6, <2>1, <2>2 DEF IsTrendData
<1>8. KeepRuns \in Nat /\ KeepRuns >= 1 /\ KeepRuns <= MaxTrendHistoryRuns
  BY TrendAssumption
<1>9. /\ IsTrendData(p) /\ CountsBounded(p)
       /\ Cardinality(p.runs \ p.pinned) <= KeepRuns
       /\ p.runs \ p.pinned \subseteq Referenced(p.shapes)
       /\ \/ \E q \in p.runs : q >= r
          \/ \A i \in DOMAIN p.shapes : Recorded(p.shapes[i]) \cap p.pinned # {}
  <2>1. r \in e.runs \cap Referenced(e.shapes) /\ Ids(e.shapes)
    BY <1>5, <1>6
  <2> QED
    BY <1>7, <1>8, <2>1, PruneIs, PruneCounts
<1> HIDE DEF p
<1>10. /\ IsTrendData(b) /\ CountsBounded(b) /\ SizeBounded(b) /\ b.pinned = p.pinned
       /\ p.runs \ Older(p) \subseteq b.runs /\ b.runs \subseteq p.runs
       /\ \A k \in DOMAIN b.shapes : \E i \in DOMAIN p.shapes :
             Recorded(p.shapes[i]) \cap p.pinned \subseteq Recorded(b.shapes[k])
       /\ \/ Referenced(p.shapes) \cap b.runs \subseteq Referenced(b.shapes)
          \/ b.runs \ p.pinned \subseteq p.runs \ Older(p)
  BY <1>9, BoundIs
<1> HIDE DEF b
<1>11. p.runs \subseteq Nat /\ IsFiniteSet(p.runs)
  BY <1>9 DEF IsTrendData, Histories
\* The newest of the data stays.
<1>12. \/ r \in b.runs \/ \E q \in b.runs : q > r
       \/ \A i \in DOMAIN b.shapes : Recorded(b.shapes[i]) \cap b.pinned # {}
  <2>1. CASE \E q \in p.runs : q >= r
    <3>1. PICK q \in p.runs : q >= r
      BY <2>1
    <3>2. Max(p.runs) \in p.runs /\ \A s \in p.runs : Max(p.runs) >= s
      BY <1>11, <3>1, MaxOf
    <3> DEFINE m == Max(p.runs)
    <3> HIDE DEF m
    <3>3. m \in p.runs /\ \A s \in p.runs : m >= s
      BY <3>2 DEF m
    <3>4. m \in Nat /\ q \in Nat /\ m >= q /\ \A s \in p.runs : s \in Nat /\ m >= s
      BY <1>11, <3>1, <3>3
    <3>5. ~\E s \in p.runs : s > m
      BY <3>4
    <3>6. m \in b.runs
      BY <1>10, <3>3, <3>5 DEF Older
    <3>7. m = r \/ m > r
      BY <1>1, <3>1, <3>4
    <3> QED
      BY <3>6, <3>7
  <2>2. CASE \A i \in DOMAIN p.shapes : Recorded(p.shapes[i]) \cap p.pinned # {}
    BY <1>10, <2>2
  <2> QED
    BY <1>9, <2>1, <2>2
<1>13. Cardinality(b.runs \ b.pinned) <= KeepRuns
  <2>1. b.runs \ b.pinned \subseteq p.runs \ p.pinned
    BY <1>10
  <2>2. IsFiniteSet(p.runs \ p.pinned)
    BY <1>11, FS_Subset
  <2>3. /\ Cardinality(b.runs \ b.pinned) \in Nat /\ Cardinality(p.runs \ p.pinned) \in Nat
        /\ Cardinality(b.runs \ b.pinned) <= Cardinality(p.runs \ p.pinned)
    BY <2>1, <2>2, FS_Subset, FS_CardinalityType
  <2> QED
    BY <1>8, <1>9, <2>3
<1>14. ASSUME NEW u \in b.runs \ b.pinned
       PROVE  TrendRunSummaries(b)[u] > 0 \/ b.runs \ b.pinned = {u}
  <2>1. CASE Referenced(p.shapes) \cap b.runs \subseteq Referenced(b.shapes)
    <3>1. u \in Referenced(b.shapes)
      BY <1>9, <1>10, <2>1
    <3> DEFINE I == {i \in DOMAIN b.shapes : u \in Recorded(b.shapes[i])}
    <3>2. I # {}
      BY <3>1 DEF Referenced
    <3>3. TrendRunSummaries(b)[u] = Cardinality(I)
      BY DEF TrendRunSummaries
    <3>4. IsFiniteSet(I)
      <4>1. Len(b.shapes) \in Nat /\ DOMAIN b.shapes = 1..Len(b.shapes)
        BY <1>10 DEF IsTrendData
      <4>2. IsFiniteSet(DOMAIN b.shapes) /\ I \subseteq DOMAIN b.shapes
        BY <4>1, UpTo
      <4> QED
        BY <4>2, FS_Subset
    <3> HIDE DEF I
    <3>5. Cardinality(I) \in Nat /\ Cardinality(I) # 0
      BY <3>2, <3>4, FS_CardinalityType, FS_EmptySet
    <3> QED
      BY <3>3, <3>5
  <2>2. CASE b.runs \ p.pinned \subseteq p.runs \ Older(p)
    <3>1. \A v \in p.runs \ Older(p) : \A w \in p.runs : ~(w > v)
      BY DEF Older
    <3>2. ASSUME NEW v \in b.runs \ b.pinned PROVE v = u
      <4>1. u \in p.runs /\ v \in p.runs /\ ~(u > v) /\ ~(v > u)
        BY <1>10, <2>2, <3>1
      <4>2. u \in Nat /\ v \in Nat
        BY <1>11, <4>1
      <4> QED
        BY <4>1, <4>2
    <3> QED
      BY <3>2
  <2> QED
    BY <1>10, <2>1, <2>2
<1>15. IsTrendData(trend') /\ CountsBounded(trend') /\ SizeBounded(trend')
  BY <1>2, <1>10
<1>16. RecordedStays'
  BY <1>2, <1>12 DEF RecordedStays
<1>17. ListedRunsCompare'
  BY <1>2, <1>13, <1>14 DEF ListedRunsCompare
<1> QED
  BY <1>1, <1>2, <1>15, <1>16, <1>17 DEF TrendInv, TrendDataBounded

LEMMA TrendStart ==
    ASSUME TrendInit
    PROVE  TrendInv
<1>1. IsTrendData(trend) /\ CountsBounded(trend) /\ SizeBounded(trend) /\ newest = 0 /\ trendRuns = 0
  BY NothingIs DEF TrendInit
<1>2. RecordedStays /\ ListedRunsCompare
  BY <1>1 DEF RecordedStays, ListedRunsCompare
<1> QED
  BY <1>1, <1>2 DEF TrendInv, TrendDataBounded

LEMMA ReadStep ==
    ASSUME TrendInv, NEW x, IsTrendData(x), NEW invalid, Refresh(x, invalid)
    PROVE  TrendInv'
<1>1. trend' = ReadBack(x, invalid) /\ newest' = 0 /\ trendRuns' = trendRuns
  BY DEF Refresh
<1>2. IsTrendData(trend') /\ CountsBounded(trend') /\ SizeBounded(trend')
  BY <1>1, ReadBackIs
<1>3. RecordedStays' /\ ListedRunsCompare'
  BY <1>1 DEF RecordedStays, ListedRunsCompare
<1> QED
  BY <1>1, <1>2, <1>3 DEF TrendInv, TrendDataBounded

LEMMA TrendNextKeeps ==
    ASSUME TrendInv, [TrendNext]_trendVars
    PROVE  TrendInv'
<1>1. ASSUME NEW cur \in RunShapes, Record(cur) PROVE TrendInv'
  BY <1>1, RecordStep
<1>2. ASSUME NEW run, Pin(run) PROVE TrendInv'
  BY <1>2, PinStep
<1>3. ASSUME NEW run, Unpin(run) PROVE TrendInv'
  BY <1>3, UnpinStep
<1>4. ASSUME NEW run, DeleteRun(run) PROVE TrendInv'
  BY <1>4, DeleteStep
<1>5. ASSUME NEW x \in TrendFiles, NEW invalid, Import(x, invalid) PROVE TrendInv'
  BY <1>5, ImportStep
<1>6. ASSUME NEW x \in TrendFiles \cup {trend}, NEW invalid, Refresh(x, invalid) PROVE TrendInv'
  <2>1. IsTrendData(x)
    BY TrendAssumption DEF TrendInv
  <2> QED
    BY <1>6, <2>1, ReadStep
<1>7. ASSUME Reset PROVE TrendInv'
  <2>1. trend' = EmptyTrendData /\ newest' = 0 /\ trendRuns' = trendRuns
    BY <1>7 DEF Reset
  <2>2. IsTrendData(trend') /\ CountsBounded(trend') /\ SizeBounded(trend')
    BY <2>1, NothingIs
  <2>3. RecordedStays' /\ ListedRunsCompare'
    BY <2>1 DEF RecordedStays, ListedRunsCompare
  <2> QED
    BY <2>1, <2>2, <2>3 DEF TrendInv, TrendDataBounded
<1>8. ASSUME UNCHANGED trendVars PROVE TrendInv'
  BY <1>8 DEF trendVars, TrendInv, TrendDataBounded, RecordedStays, ListedRunsCompare
<1> QED
  BY <1>1, <1>2, <1>3, <1>4, <1>5, <1>6, <1>7, <1>8 DEF TrendNext

\* The inductive invariant: what a file can hold, within every limit.  The calls
\* that do not prune (UpdateRun, DeleteRun) need the limits to hold before them.
THEOREM TrendInvariant == TrendSpec => []TrendInv
BY TrendStart, TrendNextKeeps, PTL DEF TrendSpec

\* For all limits, settings, runs and files: whatever is recorded, imported,
\* pinned, deleted, edited and read, what the store keeps is within every limit,
\* what it lists after a record can be compared, and the newest run stays
\* (pruneTrendData, boundTrendSize, TrendStore.Import).
THEOREM TrendDataTheorem == TrendSpec => []TrendDataBounded
<1>1. TrendInv => TrendDataBounded
  BY DEF TrendInv
<1> QED
  BY <1>1, TrendInvariant, PTL

=============================================================================
