----------------------------- MODULE RunHistory -----------------------------
(***************************************************************************)
(* The stored dashboards of finished runs, one file for each               *)
(* (internal/webui/runhistory.go).  Every operation holds RunHistory.mu.   *)
(* A dashboard goes by the start time of its run: a run may be saved after *)
(* one that started later.  The report of a run may come before or after   *)
(* its dashboard; until then it waits in memory.                           *)
(***************************************************************************)
EXTENDS Naturals, FiniteSets

CONSTANTS
    Dashboards,     \* bound: 1..n, in the order of the start times
    KeepDashboards, \* policy.KeepRuns
    MaxPinned,      \* stats.TrendMaxPinnedRuns
    MaxHarm         \* bound: files damaged by hand

ASSUME HistoryAssumption ==
    /\ Dashboards \subseteq Nat /\ IsFiniteSet(Dashboards)
    /\ KeepDashboards \in Nat /\ MaxPinned \in Nat

VARIABLES
    files,      \* files[i]: the file of dashboard i
    waiting,    \* pending: dashboards whose report came first
    savedOnce,  \* dashboards whose Save was called
    attached,   \* reports that AttachInsights took with success (history)
    harm

historyVars == <<files, waiting, savedOnce, attached, harm>>

None == [kind |-> "none", pinned |-> FALSE, insights |-> FALSE]
Good(i) == files[i].kind = "good"
NewestFiles(S, n) == {i \in S : Cardinality({j \in S : j > i}) < n}

RHInit ==
    /\ files = [i \in Dashboards |-> None]
    /\ waiting = {} /\ savedOnce = {} /\ attached = {} /\ harm = 0

\* pruneLocked: the newest unpinned dashboards stay; a file that cannot be
\* read as a dashboard is not looked at.
PruneLocked(f) ==
    LET unpinned == {i \in Dashboards : f[i].kind = "good" /\ ~f[i].pinned}
    IN  [i \in Dashboards |-> IF i \in unpinned \ NewestFiles(unpinned, KeepDashboards)
                              THEN None ELSE f[i]]

\* Save, with the report when the server has one already; a pin and a report
\* that are stored or wait are kept.
Save(i, own) ==
    /\ i \notin savedOnce /\ savedOnce' = savedOnce \cup {i}
    /\ waiting' = IF own \/ (Good(i) /\ files[i].insights) THEN waiting ELSE waiting \ {i}
    /\ \/ UNCHANGED files
       \/ files' = PruneLocked([files EXCEPT ![i] =
                      [kind |-> "good", pinned |-> Good(i) /\ files[i].pinned,
                       insights |-> own \/ i \in waiting \/ (Good(i) /\ files[i].insights)]])
    /\ UNCHANGED <<attached, harm>>

\* Mutant: a report that comes before its dashboard is dropped.
AttachStored(i) ==
    /\ i \notin attached
    /\ files' = IF Good(i) THEN [files EXCEPT ![i].insights = TRUE] ELSE files
    /\ attached' = attached \cup {i}
    /\ UNCHANGED <<waiting, savedOnce, harm>>

\* AttachInsights: added to the file, or kept until Save.  A report that
\* cannot be written is lost, and the caller is told.
AttachInsights(i) ==
    /\ i \notin attached
    /\ IF Good(i)
       THEN /\ waiting' = waiting \ {i}
            /\ \/ files' = [files EXCEPT ![i].insights = TRUE] /\ attached' = attached \cup {i}
               \/ UNCHANGED <<files, attached>>
       ELSE waiting' = waiting \cup {i} /\ attached' = attached \cup {i} /\ UNCHANGED files
    /\ UNCHANGED <<savedOnce, harm>>

Pins == {i \in Dashboards : Good(i) /\ files[i].pinned}

\* Mutant: an unpinned dashboard does not count until the next save.
SetPinnedOnly(i, pinned) ==
    /\ Good(i)
    /\ files' = [files EXCEPT ![i].pinned = pinned]
    /\ UNCHANGED <<waiting, savedOnce, attached, harm>>

\* SetPinned: at most MaxPinned, and then the rest is pruned.
SetPinned(i, pinned) ==
    /\ Good(i)
    /\ pinned /\ i \notin Pins => Cardinality(Pins) < MaxPinned
    /\ files' = PruneLocked([files EXCEPT ![i].pinned = pinned])
    /\ UNCHANGED <<waiting, savedOnce, attached, harm>>

\* A file is damaged, or written by another version.
Harm(i) ==
    /\ Good(i) /\ harm < MaxHarm /\ harm' = harm + 1
    /\ files' = [files EXCEPT ![i].kind = "damaged"]
    /\ UNCHANGED <<waiting, savedOnce, attached>>

RHNext ==
    \E i \in Dashboards :
        \/ \E b \in BOOLEAN : Save(i, b) \/ SetPinned(i, b)
        \/ AttachInsights(i) \/ Harm(i)

RHSpec == RHInit /\ [][RHNext]_historyVars

\* summariesLocked: every stored file, newest first, also the damaged ones.
List == {i \in Dashboards : files[i].kind # "none"}

-----------------------------------------------------------------------------
RHTypeOK ==
    /\ files \in [Dashboards -> [kind : {"none", "good", "damaged"}, pinned : BOOLEAN,
                                 insights : BOOLEAN]]
    /\ waiting \subseteq Dashboards /\ savedOnce \subseteq Dashboards
    /\ attached \subseteq Dashboards /\ harm \in 0..MaxHarm

\* A report that was accepted is in the dashboard of its run, whichever came
\* first, for as long as the dashboard can be read.
ReportReachesDashboard ==
    \A i \in attached : Good(i) => files[i].insights

\* Besides, there are never more dashboards than the policy keeps and pins
\* allow (pruneLocked, SetPinned), in whatever order runs are saved.
DashboardsKept ==
    /\ ReportReachesDashboard
    /\ Cardinality({i \in Dashboards : Good(i) /\ ~files[i].pinned}) <= KeepDashboards
    /\ Cardinality(Pins) <= MaxPinned
=============================================================================
