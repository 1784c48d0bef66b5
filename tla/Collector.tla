----------------------------- MODULE Collector -----------------------------
(* stats.Collector: the latency histograms that workers write while the     *)
(* dashboards and the heatmap read and reset them, and the clock of the     *)
(* time in which workers ran. Each histogram has its own lock, so one       *)
(* tracked operation is several critical sections. The cumulative ones and  *)
(* those of the CSV monitor, which has a reader of its own, are left out.   *)
EXTENDS Integers, Sequences, FiniteSets, Functions

CONSTANTS
    Trackers,       \* workers
    OperationKinds,          \* types of operations
    Latencies,      \* bound: in ms
    TracksPerWorker,\* bound
    Pollers,        \* dashboards that ask for the stats
    PollsPerPoller, \* bound
    MinWindow,      \* time between two captures of the heatmap
    LastTick        \* bound: the clock

ASSUME MeasureAssumption ==
    /\ IsFiniteSet(Trackers) /\ IsFiniteSet(Latencies)
    /\ "total" \notin OperationKinds
    /\ {TracksPerWorker, PollsPerPoller, MinWindow, LastTick} \subseteq Nat

VARIABLES
    now,            \* time, from 1
    track,          \* track[w]: what w records, and how many histograms have it
    tracksMade,
    hist,           \* the histograms, by name: a count for each latency
    lastHeatmapCap, \* 0 before the first capture
    poll,           \* poll[p]: where poller p is, and the capture time it read
    pollsMade,
    heatmap,        \* the buckets
    given,          \* operations each UI histogram gave to a dashboard (history)
    activeClock,    \* 0 for no time
    wStart, wEnd,   \* workloadStartUnix, workloadEndUnix
    ranTicks        \* ticks in which an iteration's workers ran (history)

kvars == <<now, track, tracksMade, hist, lastHeatmapCap, poll, pollsMade, heatmap,
           given, activeClock, wStart, wEnd, ranTicks>>

Series == OperationKinds \cup {"total"}
Names == {<<"ui", s>> : s \in Series} \cup {<<"heatmap", "total">>}
EmptyHist == [ms \in Latencies |-> 0]
Count(h) == SumFunction(h)

\* The least latency that at least p percent of the operations do not exceed.
GetPercentile(h, p) ==
    LET Below(ms) == SumFunctionOnSet(h, {x \in Latencies : x <= ms})
        enough == {ms \in Latencies : 100 * Below(ms) >= p * Count(h)}
    IN  CHOOSE ms \in enough : \A other \in enough : ms <= other

\* The order in which Track writes the histograms that somebody resets.
WritesOf(kind) == << <<"ui", "total">>, <<"heatmap", "total">>, <<"ui", kind>> >>

Resting == [kind |-> "none", ms |-> 0, done |-> 3]
Looking == [at |-> "idle", last |-> 0]

KTypeOK ==
    /\ now \in 1..LastTick
    /\ track \in [Trackers -> [kind : OperationKinds \cup {"none"}, ms : Latencies \cup {0}, done : 0..3]]
    /\ tracksMade \in [Trackers -> 0..TracksPerWorker]
    /\ hist \in [Names -> [Latencies -> 0..Cardinality(Trackers) * TracksPerWorker]]
    /\ lastHeatmapCap \in 0..LastTick
    /\ poll \in [Pollers -> [at : {"idle", "swap", "capture", "ui"}, last : 0..LastTick]]
    /\ pollsMade \in [Pollers -> 0..PollsPerPoller]
    /\ \A i \in DOMAIN heatmap : heatmap[i].count > 0
    /\ given \in [Series -> Nat]
    /\ activeClock \in [done : 0..LastTick, since : 0..LastTick, waiting : 0..LastTick]
    /\ {wStart, wEnd, ranTicks} \subseteq 0..LastTick

KInit ==
    /\ now = 1
    /\ track = [w \in Trackers |-> Resting]
    /\ tracksMade = [w \in Trackers |-> 0]
    /\ hist = [n \in Names |-> EmptyHist]
    /\ lastHeatmapCap = 0
    /\ poll = [p \in Pollers |-> Looking]
    /\ pollsMade = [p \in Pollers |-> 0]
    /\ heatmap = <<>>
    /\ given = [s \in Series |-> 0]
    /\ activeClock = [done |-> 0, since |-> 0, waiting |-> 0]
    /\ wStart = 0 /\ wEnd = 0 /\ ranTicks = 0

-----------------------------------------------------------------------------
(* Workers                                                                  *)

Track(w, kind, ms) ==
    /\ activeClock.since # 0 /\ track[w] = Resting /\ tracksMade[w] < TracksPerWorker
    /\ track' = [track EXCEPT ![w] = [kind |-> kind, ms |-> ms, done |-> 0]]
    /\ tracksMade' = [tracksMade EXCEPT ![w] = @ + 1]
    /\ UNCHANGED <<now, hist, lastHeatmapCap, poll, pollsMade, heatmap, given,
                   activeClock, wStart, wEnd, ranTicks>>

\* One histogram, under its lock.
Record(w) ==
    LET t == track[w]
    IN  /\ t.done < 3
        /\ hist' = [hist EXCEPT ![WritesOf(t.kind)[t.done + 1]][t.ms] = @ + 1]
        /\ track' = [track EXCEPT ![w] = IF t.done = 2 THEN Resting ELSE [t EXCEPT !.done = @ + 1]]
        /\ UNCHANGED <<now, tracksMade, lastHeatmapCap, poll, pollsMade, heatmap, given,
                       activeClock, wStart, wEnd, ranTicks>>

-----------------------------------------------------------------------------
(* A poll of the dashboard: CaptureLatencyIntervalEvery, then the UI        *)
(* histograms.                                                              *)

ReadCaptureTime(p) ==
    /\ poll[p].at = "idle" /\ pollsMade[p] < PollsPerPoller
    /\ poll' = [poll EXCEPT ![p] =
            [last |-> lastHeatmapCap,
             at |-> IF lastHeatmapCap # 0 /\ now - lastHeatmapCap < MinWindow THEN "ui" ELSE "swap"]]
    /\ pollsMade' = [pollsMade EXCEPT ![p] = @ + 1]
    /\ UNCHANGED <<now, track, tracksMade, hist, lastHeatmapCap, heatmap, given,
                   activeClock, wStart, wEnd, ranTicks>>

\* One of two pollers that read the same time captures.
SwapCaptureTime(p) ==
    /\ poll[p].at = "swap"
    /\ IF lastHeatmapCap = poll[p].last
       THEN lastHeatmapCap' = now /\ poll' = [poll EXCEPT ![p].at = "capture"]
       ELSE poll' = [poll EXCEPT ![p].at = "ui"] /\ UNCHANGED lastHeatmapCap
    /\ UNCHANGED <<now, track, tracksMade, hist, pollsMade, heatmap, given,
                   activeClock, wStart, wEnd, ranTicks>>

\* SnapshotAndReset is one critical section; an empty window makes no bucket.
CaptureLatencyInterval(p) ==
    LET h == hist[<<"heatmap", "total">>]
    IN  /\ poll[p].at = "capture"
        /\ heatmap' = IF Count(h) = 0 THEN heatmap
                      ELSE Append(heatmap, [count |-> Count(h), p50 |-> GetPercentile(h, 50),
                                            p99 |-> GetPercentile(h, 99)])
        /\ hist' = [hist EXCEPT ![<<"heatmap", "total">>] = EmptyHist]
        /\ poll' = [poll EXCEPT ![p].at = "ui"]
        /\ UNCHANGED <<now, track, tracksMade, lastHeatmapCap, pollsMade, given,
                       activeClock, wStart, wEnd, ranTicks>>

\* A plausible mistake: the window is read, and reset when the poll is answered.
CaptureWithoutReset(p) ==
    LET h == hist[<<"heatmap", "total">>]
    IN  /\ poll[p].at = "capture"
        /\ heatmap' = IF Count(h) = 0 THEN heatmap
                      ELSE Append(heatmap, [count |-> Count(h), p50 |-> GetPercentile(h, 50),
                                            p99 |-> GetPercentile(h, 99)])
        /\ poll' = [poll EXCEPT ![p].at = "ui"]
        /\ UNCHANGED <<now, track, tracksMade, hist, lastHeatmapCap, pollsMade, given, activeClock, wStart, wEnd, ranTicks>>
Capture(p) == CaptureLatencyInterval(p)

\* Each histogram is reset under its own lock; that no other reader is there
\* between two of them makes no difference to what each of them gave.
GetUILatencyTimelineAndReset(p) ==
    /\ poll[p].at = "ui"
    /\ given' = [s \in Series |-> given[s] + Count(hist[<<"ui", s>>])]
    /\ hist' = [n \in Names |-> IF n[1] = "ui" THEN EmptyHist ELSE hist[n]]
    /\ poll' = [poll EXCEPT ![p] = Looking]
    /\ UNCHANGED <<now, track, tracksMade, lastHeatmapCap, pollsMade, heatmap,
                   activeClock, wStart, wEnd, ranTicks>>

-----------------------------------------------------------------------------
(* The clock of active time                                                 *)

MarkWorkloadStart ==
    /\ activeClock.since = 0
    /\ wStart' = IF wStart = 0 THEN now ELSE wStart
    /\ activeClock' = [activeClock EXCEPT !.since = now, !.waiting = 0]
    /\ UNCHANGED <<now, track, tracksMade, hist, lastHeatmapCap, poll, pollsMade,
                   heatmap, given, wEnd, ranTicks>>

\* The workers have finished.
MarkWorkloadEnd ==
    /\ activeClock.since # 0 /\ \A w \in Trackers : track[w] = Resting
    /\ activeClock' = [activeClock EXCEPT !.done = @ + now - activeClock.since, !.since = 0]
    /\ wEnd' = now
    /\ UNCHANGED <<now, track, tracksMade, hist, lastHeatmapCap, poll, pollsMade,
                   heatmap, given, wStart, ranTicks>>
\* A plausible mistake: the time of the last iteration replaces the sum.
MarkWorkloadEndOfLast ==
    /\ activeClock.since # 0 /\ \A w \in Trackers : track[w] = Resting
    /\ activeClock' = [activeClock EXCEPT !.done = now - activeClock.since, !.since = 0]
    /\ wEnd' = now
    /\ UNCHANGED <<now, track, tracksMade, hist, lastHeatmapCap, poll, pollsMade,
                   heatmap, given, wStart, ranTicks>>
IterationEnds == MarkWorkloadEnd

SetWaiting(waiting) ==
    /\ activeClock.since = 0 /\ wEnd # 0 /\ waiting = (activeClock.waiting = 0)
    /\ activeClock' = [activeClock EXCEPT !.waiting = IF waiting THEN now ELSE 0]
    /\ UNCHANGED <<now, track, tracksMade, hist, lastHeatmapCap, poll, pollsMade,
                   heatmap, given, wStart, wEnd, ranTicks>>

ClockTicks ==
    /\ now < LastTick
    /\ now' = now + 1
    /\ ranTicks' = ranTicks + (IF activeClock.since # 0 THEN 1 ELSE 0)
    /\ UNCHANGED <<track, tracksMade, hist, lastHeatmapCap, poll, pollsMade, heatmap,
                   given, activeClock, wStart, wEnd>>

ActiveDuration == activeClock.done + (IF activeClock.since # 0 THEN now - activeClock.since ELSE 0)
WorkloadDuration == IF wStart = 0 \/ wEnd = 0 THEN 0 ELSE ActiveDuration

KNext ==
    \/ \E w \in Trackers : Record(w) \/ \E k \in OperationKinds, ms \in Latencies : Track(w, k, ms)
    \/ \E p \in Pollers : ReadCaptureTime(p) \/ SwapCaptureTime(p) \/ Capture(p)
                          \/ GetUILatencyTimelineAndReset(p)
    \/ MarkWorkloadStart \/ IterationEnds \/ (\E b \in BOOLEAN : SetWaiting(b)) \/ ClockTicks

KSpec == KInit /\ [][KNext]_kvars

-----------------------------------------------------------------------------
(* The operations that were written to a histogram.                         *)
RecordedIn(name) ==
    LET Wrote(w) == \E i \in 1..track[w].done : WritesOf(track[w].kind)[i] = name
    IN  Cardinality({o \in Trackers \X (1..TracksPerWorker) :
            /\ o[2] <= tracksMade[o[1]]
            /\ (o[2] = tracksMade[o[1]] /\ track[o[1]] # Resting) => Wrote(o[1])})

\* Every tracked operation is in exactly one window of the heatmap and goes to
\* exactly one dashboard, whatever is recorded and captured in between
\* ("without double-counting across windows").
WindowsCountOnce ==
    LET captured == SumFunction([i \in DOMAIN heatmap |-> heatmap[i].count])
        total == <<"ui", "total">>
    IN  /\ captured + Count(hist[<<"heatmap", "total">>]) = RecordedIn(<<"heatmap", "total">>)
        /\ given["total"] + Count(hist[total]) = RecordedIn(total)

\* The time that latencies and rates are reported for is the time in which
\* workers ran, over all iterations and without the waits between them.
DurationIsActiveTime == ActiveDuration = ranTicks /\ (WorkloadDuration # 0 => WorkloadDuration = ranTicks)

\* Both: what rates are made of, the operations of a window and the time.
MeasuredOnce == WindowsCountOnce /\ DurationIsActiveTime
=============================================================================
