----------------------------- MODULE MeasureProofs -----------------------------
(***************************************************************************)
(* What a run measures, for every set of workers, kinds, latencies, groups *)
(* and query sizes and for every limit: an operation is counted once in    *)
(* every table of the collector and in at most one window of each reader,  *)
(* and the insights account for all of them.                               *)
(***************************************************************************)
EXTENDS OutcomeWriter, Collector, InsightEvents,
        FiniteSetTheorems, SequenceTheorems, WellFoundedInduction, TLAPS

-----------------------------------------------------------------------------
(***************************************************************************)
(* Sums over finite sets.  A sum counts the pairs of its table, so what    *)
(* the library defines by recursion, in an order it chooses, depends on    *)
(* the terms alone.                                                        *)
(***************************************************************************)
Some(s) == CHOOSE x \in s : TRUE

Table(f, S) == UNION {{x} \X (1..f[x]) : x \in S}

SumEquation(f, S, g) ==
    g = [s \in SUBSET S |-> IF s = {} THEN 0 ELSE f[Some(s)] + g[s \ {Some(s)}]]

LEMMA SumUnfolded ==
    ASSUME NEW f, NEW S
    PROVE  SumFunctionOnSet(f, S) = (CHOOSE g : SumEquation(f, S, g))[S]
BY Zenon DEF SumFunctionOnSet, FoldFunctionOnSet, MapThenFoldSet, SumEquation, Some

NatOrder == {p \in Nat \X Nat : p[1] < p[2]}

LEMMA LeastOf ==
    ASSUME NEW T, T \subseteq Nat, T # {}
    PROVE  \E m \in T : \A j \in T : m <= j
<1>1. IsWellFoundedOn(NatOrder, Nat)
  BY NatLessThanWellFounded DEF OpToRel, NatOrder
<1>2. PICK m \in T : \A j \in T : ~(<<j, m>> \in NatOrder)
  BY <1>1, WFMin
<1>3. ASSUME NEW j \in T PROVE m <= j
  <2>1. m \in Nat /\ j \in Nat
    OBVIOUS
  <2>2. ~(<<j, m>> \in NatOrder)
    BY <1>2
  <2>3. ~(j < m)
    BY <2>1, <2>2 DEF NatOrder
  <2> QED
    BY <2>1, <2>3
<1> QED
  BY <1>3

\* One row of the table.
LEMMA TableRow ==
    ASSUME NEW f, NEW S, NEW x \in S, f[x] \in Nat, IsFiniteSet(Table(f, S \ {x}))
    PROVE  /\ IsFiniteSet(Table(f, S))
           /\ Cardinality(Table(f, S)) = Cardinality(Table(f, S \ {x})) + f[x]
<1> DEFINE row == {x} \X (1..f[x])
           rest == Table(f, S \ {x})
<1>1. Table(f, S) = rest \cup row
  <2>1. \A p : p \in Table(f, S) <=> \E y \in S : p \in {y} \X (1..f[y])
    BY DEF Table
  <2>2. \A p : p \in rest <=> \E y \in S \ {x} : p \in {y} \X (1..f[y])
    BY DEF Table
  <2> QED
    BY <2>1, <2>2
<1>2. rest \cap row = {}
  <2>1. \A p \in rest : p[1] # x
    BY DEF Table
  <2>2. \A p \in row : p[1] = x
    OBVIOUS
  <2> QED
    BY <2>1, <2>2
<1>3. IsFiniteSet(row) /\ Cardinality(row) = f[x]
  <2>1. IsFiniteSet({x}) /\ Cardinality({x}) = 1
    BY FS_Singleton
  <2>2. IsFiniteSet(1..f[x]) /\ Cardinality(1..f[x]) = f[x]
    <3> DEFINE m == f[x]
    <3>1. m \in Nat
      OBVIOUS
    <3> HIDE DEF m
    <3>2. IsFiniteSet(1..m) /\ Cardinality(1..m) = IF 1 > m THEN 0 ELSE m - 1 + 1
      BY <3>1, FS_Interval
    <3>3. Cardinality(1..m) = m
      BY <3>1, <3>2
    <3> QED
      BY <3>2, <3>3 DEF m
  <2>3. IsFiniteSet(row) /\ Cardinality(row) = 1 * f[x]
    <3> DEFINE places == 1..f[x]
    <3>1. IsFiniteSet(places) /\ Cardinality(places) = f[x]
      BY <2>2
    <3> HIDE DEF places
    <3>2. IsFiniteSet({x} \X places) /\ Cardinality({x} \X places) = Cardinality({x}) * Cardinality(places)
      BY <2>1, <3>1, FS_Product
    <3>3. Cardinality({x} \X places) = 1 * f[x]
      BY <2>1, <3>1, <3>2, Zenon
    <3> QED
      BY <3>2, <3>3 DEF places
  <2> QED
    BY <2>3
<1>4. Cardinality(rest) \in Nat
  BY FS_CardinalityType
<1> HIDE DEF row, rest
<1>5. /\ IsFiniteSet(rest \cup row)
      /\ Cardinality(rest \cup row) = Cardinality(rest) + Cardinality(row) - Cardinality(rest \cap row)
  BY <1>3, FS_Union DEF rest
<1>6. Cardinality({}) = 0
  BY FS_EmptySet
<1>7. Cardinality(rest \cup row) = Cardinality(rest) + f[x]
  <2>1. Cardinality(rest \cap row) = 0
    BY <1>2, <1>6
  <2>2. Cardinality(rest) \in Nat
    BY <1>4
  <2> QED
    BY <1>3, <1>5, <2>1, <2>2
<1>8. IsFiniteSet(Table(f, S)) /\ Cardinality(Table(f, S)) = Cardinality(rest) + f[x]
  BY <1>1, <1>5, <1>7
<1> QED
  BY <1>8 DEF rest

LEMMA TableFinite ==
    ASSUME NEW f, NEW S, IsFiniteSet(S), \A x \in S : f[x] \in Nat
    PROVE  \A T \in SUBSET S : IsFiniteSet(Table(f, T))
<1> DEFINE bad == {n \in Nat : \E T \in SUBSET S : Cardinality(T) = n /\ ~IsFiniteSet(Table(f, T))}
<1>1. \A T \in SUBSET S : IsFiniteSet(T) /\ Cardinality(T) \in Nat
  BY FS_Subset, FS_CardinalityType
<1>2. SUFFICES bad = {}
  BY <1>1
<1> SUFFICES ASSUME bad # {} PROVE FALSE
  OBVIOUS
<1>3. PICK n \in bad : \A m \in bad : n <= m
  BY LeastOf
<1>4. PICK T \in SUBSET S : Cardinality(T) = n /\ ~IsFiniteSet(Table(f, T))
  BY <1>3
<1>5. T # {}
  <2>1. Table(f, {}) = {}
    BY DEF Table
  <2> QED
    BY <1>4, <2>1, FS_EmptySet
<1>6. PICK x \in T : TRUE
  BY <1>5
<1>7. Cardinality(T \ {x}) = n - 1 /\ n \in Nat /\ Cardinality(T \ {x}) \in Nat
  BY <1>1, <1>4, FS_RemoveElement
<1>8. IsFiniteSet(Table(f, T \ {x}))
  <2>1. n - 1 \notin bad
    BY <1>3, <1>7
  <2> QED
    BY <1>7, <2>1
<1> QED
  BY <1>4, <1>8, TableRow

LEMMA SumIsCount ==
    ASSUME NEW f, NEW S, IsFiniteSet(S), \A x \in S : f[x] \in Nat
    PROVE  SumFunctionOnSet(f, S) = Cardinality(Table(f, S))
<1> DEFINE g == CHOOSE h : SumEquation(f, S, h)
           count == [s \in SUBSET S |-> Cardinality(Table(f, s))]
<1>1. \A T \in SUBSET S : IsFiniteSet(T) /\ Cardinality(T) \in Nat /\ Cardinality(Table(f, T)) \in Nat
  BY FS_Subset, FS_CardinalityType, TableFinite
<1>2. \A T \in SUBSET S : T # {} =>
         /\ Some(T) \in T /\ f[Some(T)] \in Nat
         /\ Cardinality(Table(f, T)) = Cardinality(Table(f, T \ {Some(T)})) + f[Some(T)]
  BY TableFinite, TableRow DEF Some
<1>3. Cardinality(Table(f, {})) = 0
  BY FS_EmptySet DEF Table
<1>4. SumEquation(f, S, count)
  <2>1. \A s \in SUBSET S : s # {} => s \ {Some(s)} \in SUBSET S
    OBVIOUS
  <2>2. \A s \in SUBSET S :
            count[s] = IF s = {} THEN 0 ELSE f[Some(s)] + count[s \ {Some(s)}]
    <3>1. \A s \in SUBSET S : count[s] = Cardinality(Table(f, s))
      OBVIOUS
    <3> HIDE DEF count
    <3>2. \A s \in SUBSET S : s # {} => count[s] = count[s \ {Some(s)}] + f[Some(s)]
      BY <1>2, <2>1, <3>1
    <3>3. \A s \in SUBSET S : count[s] \in Nat
      BY <1>1, <3>1
    <3> SUFFICES ASSUME NEW s \in SUBSET S
                 PROVE  count[s] = IF s = {} THEN 0 ELSE f[Some(s)] + count[s \ {Some(s)}]
      OBVIOUS
    <3>4. CASE s = {}
      BY <1>3, <3>1, <3>4
    <3>5. CASE s # {}
      <4>1. f[Some(s)] \in Nat /\ count[s \ {Some(s)}] \in Nat
        BY <1>2, <2>1, <3>3, <3>5
      <4>2. count[s] = count[s \ {Some(s)}] + f[Some(s)]
        BY <3>2, <3>5
      <4> QED
        BY <3>5, <4>1, <4>2
    <3> QED
      BY <3>4, <3>5
  <2>3. count = [s \in SUBSET S |-> IF s = {} THEN 0 ELSE f[Some(s)] + count[s \ {Some(s)}]]
    <3>1. count = [s \in SUBSET S |-> count[s]]
      OBVIOUS
    <3> HIDE DEF count
    <3> QED
      BY <2>2, <3>1
  <2> QED
    BY <2>3 DEF SumEquation
<1>5. SumEquation(f, S, g)
  BY <1>4
<1> HIDE DEF g, count
<1>6. \A s \in SUBSET S : g[s] = IF s = {} THEN 0 ELSE f[Some(s)] + g[s \ {Some(s)}]
  BY <1>5 DEF SumEquation
<1> DEFINE bad == {n \in Nat : \E T \in SUBSET S : Cardinality(T) = n /\ g[T] # Cardinality(Table(f, T))}
<1>7. bad = {}
  <2> SUFFICES ASSUME bad # {} PROVE FALSE
    OBVIOUS
  <2>1. PICK n \in bad : \A m \in bad : n <= m
    BY LeastOf
  <2>2. PICK T \in SUBSET S : Cardinality(T) = n /\ g[T] # Cardinality(Table(f, T))
    BY <2>1
  <2>3. T # {}
    BY <1>3, <1>6, <2>2
  <2>4. Some(T) \in T /\ g[T] = f[Some(T)] + g[T \ {Some(T)}]
    BY <1>2, <1>6, <2>3
  <2>5. Cardinality(T \ {Some(T)}) = n - 1 /\ n \in Nat /\ Cardinality(T \ {Some(T)}) \in Nat
    BY <1>1, <2>2, <2>4, FS_RemoveElement
  <2>6. g[T \ {Some(T)}] = Cardinality(Table(f, T \ {Some(T)}))
    <3>1. n - 1 \notin bad
      BY <2>1, <2>5
    <3> QED
      BY <2>5, <3>1
  <2>7. Cardinality(Table(f, T \ {Some(T)})) \in Nat
    BY <1>1
  <2> QED
    BY <1>2, <2>2, <2>3, <2>4, <2>6, <2>7
<1>8. g[S] = Cardinality(Table(f, S))
  BY <1>1, <1>7
<1> QED
  BY <1>8, SumUnfolded DEF g

LEMMA SumOfNone == ASSUME NEW f PROVE SumFunctionOnSet(f, {}) = 0
<1>1. IsFiniteSet({})
  BY FS_EmptySet
<1>2. Table(f, {}) = {}
  BY DEF Table
<1> QED
  BY <1>1, <1>2, SumIsCount, FS_EmptySet

\* A sum and one of its terms.
LEMMA SumTerm ==
    ASSUME NEW f, NEW S, IsFiniteSet(S), NEW x \in S, \A y \in S : f[y] \in Nat
    PROVE  /\ SumFunctionOnSet(f, S) = SumFunctionOnSet(f, S \ {x}) + f[x]
           /\ SumFunctionOnSet(f, S) \in Nat /\ SumFunctionOnSet(f, S \ {x}) \in Nat
<1>1. IsFiniteSet(S \ {x})
  BY FS_RemoveElement
<1>2. IsFiniteSet(Table(f, S)) /\ IsFiniteSet(Table(f, S \ {x}))
  BY TableFinite
<1>3. /\ Cardinality(Table(f, S)) = Cardinality(Table(f, S \ {x})) + f[x]
      /\ Cardinality(Table(f, S)) \in Nat /\ Cardinality(Table(f, S \ {x})) \in Nat
  BY <1>2, TableRow, FS_CardinalityType
<1>4. SumFunctionOnSet(f, S) = Cardinality(Table(f, S))
  BY SumIsCount
<1>5. SumFunctionOnSet(f, S \ {x}) = Cardinality(Table(f, S \ {x}))
  BY <1>1, SumIsCount
<1> QED
  BY <1>3, <1>4, <1>5

\* A sum depends on its terms.
LEMMA SumSame ==
    ASSUME NEW f, NEW g, NEW S, IsFiniteSet(S),
           \A x \in S : f[x] \in Nat /\ g[x] = f[x]
    PROVE  SumFunctionOnSet(g, S) = SumFunctionOnSet(f, S)
<1>1. Table(g, S) = Table(f, S)
  BY DEF Table
<1> QED
  BY <1>1, SumIsCount

LEMMA SumType ==
    ASSUME NEW f, NEW S, IsFiniteSet(S), \A y \in S : f[y] \in Nat
    PROVE  SumFunctionOnSet(f, S) \in Nat
BY SumIsCount, TableFinite, FS_CardinalityType

LEMMA SumOfZeros ==
    ASSUME NEW f, NEW S, IsFiniteSet(S), \A y \in S : f[y] = 0
    PROVE  SumFunctionOnSet(f, S) = 0
<1>1. Table(f, S) = {}
  <2>1. \A x \in S : {x} \X (1..f[x]) = {}
    OBVIOUS
  <2> QED
    BY <2>1 DEF Table
<1> QED
  BY <1>1, SumIsCount, FS_EmptySet

\* One term changes, and the sum by as much.
LEMMA SumChanges ==
    ASSUME NEW f, NEW g, NEW S, IsFiniteSet(S), NEW x \in S,
           \A y \in S : f[y] \in Nat, g[x] \in Nat, \A y \in S \ {x} : g[y] = f[y]
    PROVE  SumFunctionOnSet(g, S) = SumFunctionOnSet(f, S) - f[x] + g[x]
<1>1. IsFiniteSet(S \ {x})
  BY FS_RemoveElement
<1>2. SumFunctionOnSet(g, S \ {x}) = SumFunctionOnSet(f, S \ {x})
  BY <1>1, SumSame
<1>3. /\ SumFunctionOnSet(f, S) = SumFunctionOnSet(f, S \ {x}) + f[x]
      /\ SumFunctionOnSet(f, S \ {x}) \in Nat
  BY SumTerm
<1>4. SumFunctionOnSet(g, S) = SumFunctionOnSet(g, S \ {x}) + g[x]
  <2>1. \A y \in S : g[y] \in Nat
    OBVIOUS
  <2> QED
    BY <2>1, SumTerm
<1> QED
  BY <1>2, <1>3, <1>4

-----------------------------------------------------------------------------
(***************************************************************************)
(* Collector.                                                              *)
(***************************************************************************)
Tracks == [kind : OperationKinds \cup {"none"}, ms : Latencies \cup {0}, done : 0..3]

UiTotal == <<"ui", "total">>
HeatmapTotal == <<"heatmap", "total">>

\* A worker that is not resting has begun an operation and not written it to all.
TrackInv ==
    /\ track \in [Trackers -> Tracks] /\ tracksMade \in [Trackers -> 0..TracksPerWorker]
    /\ \A w \in Trackers :
          track[w] # Resting => /\ track[w].kind \in OperationKinds /\ track[w].ms \in Latencies
                                /\ track[w].done \in 0..2 /\ tracksMade[w] >= 1

CountTypes ==
    /\ hist \in [Names -> [Latencies -> Nat]]
    /\ given \in [Series -> Nat]
    /\ Len(heatmap) \in Nat /\ heatmap = [i \in 1..Len(heatmap) |-> heatmap[i]]
    /\ \A i \in 1..Len(heatmap) : heatmap[i].count \in Nat

ClockInv ==
    /\ now \in Nat \ {0} /\ ranTicks \in Nat
    /\ activeClock \in [done : Nat, since : Nat, waiting : Nat]
    /\ activeClock.since <= now
    /\ ActiveDuration = ranTicks

LEMMA NamesAre ==
    /\ UiTotal \in Names /\ HeatmapTotal \in Names /\ UiTotal # HeatmapTotal
    /\ \A kind \in OperationKinds : <<"ui", kind>> \in Names \ {UiTotal, HeatmapTotal}
    /\ UiTotal[1] = "ui" /\ HeatmapTotal[1] # "ui"
<1>1. "ui" # "heatmap"
  OBVIOUS
<1>2. \A x : <<"ui", x>>[1] = "ui" /\ <<"ui", x>>[2] = x
  OBVIOUS
<1>3. HeatmapTotal[1] = "heatmap"
  BY DEF HeatmapTotal
<1> QED
  BY <1>1, <1>2, <1>3, MeasureAssumption DEF Names, Series, UiTotal, HeatmapTotal

\* The operations that have been written to as many histograms.
Settled(need) ==
    {o \in Trackers \X (1..TracksPerWorker) :
        /\ o[2] <= tracksMade[o[1]]
        /\ (o[2] = tracksMade[o[1]] /\ track[o[1]] # Resting) => track[o[1]].done >= need}

LEMMA SettledFinite ==
    ASSUME NEW need
    PROVE  IsFiniteSet(Settled(need)) /\ Cardinality(Settled(need)) \in Nat
<1>1. IsFiniteSet(Trackers) /\ IsFiniteSet(1..TracksPerWorker)
  BY MeasureAssumption, FS_Interval
<1>2. IsFiniteSet(Trackers \X (1..TracksPerWorker))
  BY <1>1, FS_Product
<1>3. Settled(need) \in SUBSET (Trackers \X (1..TracksPerWorker))
  BY DEF Settled
<1> QED
  BY <1>2, <1>3, FS_Subset, FS_CardinalityType

LEMMA RecordedAre ==
    ASSUME TrackInv
    PROVE  /\ RecordedIn(UiTotal) = Cardinality(Settled(1))
           /\ RecordedIn(HeatmapTotal) = Cardinality(Settled(2))
<1> DEFINE Wrote(w, name) == \E i \in 1..track[w].done : WritesOf(track[w].kind)[i] = name
<1>1. ASSUME NEW w \in Trackers, track[w] # Resting
      PROVE  /\ Wrote(w, UiTotal) <=> track[w].done >= 1
             /\ Wrote(w, HeatmapTotal) <=> track[w].done >= 2
  <2>1. track[w].kind \in OperationKinds /\ track[w].done \in 0..2
    BY <1>1 DEF TrackInv
  <2>2. UiTotal # HeatmapTotal
    BY NamesAre
  <2>3. /\ WritesOf(track[w].kind)[1] = UiTotal /\ WritesOf(track[w].kind)[2] = HeatmapTotal
    BY DEF WritesOf, UiTotal, HeatmapTotal
  <2> QED
    BY <2>1, <2>2, <2>3
<1> HIDE DEF Wrote
<1>2. ASSUME NEW need, NEW name,
             \A w \in Trackers : track[w] # Resting => (Wrote(w, name) <=> track[w].done >= need)
      PROVE  {o \in Trackers \X (1..TracksPerWorker) :
                 /\ o[2] <= tracksMade[o[1]]
                 /\ (o[2] = tracksMade[o[1]] /\ track[o[1]] # Resting) => Wrote(o[1], name)}
             = Settled(need)
  BY <1>2 DEF Settled
<1>3. \A name : RecordedIn(name) =
          Cardinality({o \in Trackers \X (1..TracksPerWorker) :
                 /\ o[2] <= tracksMade[o[1]]
                 /\ (o[2] = tracksMade[o[1]] /\ track[o[1]] # Resting) => Wrote(o[1], name)})
  BY DEF RecordedIn, Wrote
<1> QED
  BY <1>1, <1>2, <1>3

\* An operation that begins is in no histogram yet.
LEMMA TrackSettled ==
    ASSUME TrackInv, NEW w \in Trackers, NEW kind \in OperationKinds, NEW ms \in Latencies,
           Track(w, kind, ms)
    PROVE  TrackInv' /\ Settled(1)' = Settled(1) /\ Settled(2)' = Settled(2)
<1> DEFINE t == [kind |-> kind, ms |-> ms, done |-> 0]
<1>1. /\ track[w] = Resting /\ tracksMade[w] < TracksPerWorker /\ track' = [track EXCEPT ![w] = t]
      /\ tracksMade' = [tracksMade EXCEPT ![w] = @ + 1]
  BY DEF Track
<1>2. t \in Tracks /\ t.kind = kind /\ t.ms = ms /\ t.done = 0
  BY DEF Tracks
<1>3. t # Resting
  BY DEF Resting
<1> HIDE DEF t
<1>4. /\ track \in [Trackers -> Tracks] /\ tracksMade \in [Trackers -> 0..TracksPerWorker]
      /\ TracksPerWorker \in Nat /\ tracksMade[w] \in Nat
  BY MeasureAssumption DEF TrackInv
<1>5. /\ track'[w] = t /\ \A v \in Trackers : v # w => track'[v] = track[v]
      /\ track' \in [Trackers -> Tracks]
  BY <1>1, <1>2, <1>4
<1>6. /\ tracksMade'[w] = tracksMade[w] + 1
      /\ \A v \in Trackers : v # w => tracksMade'[v] = tracksMade[v]
      /\ tracksMade' \in [Trackers -> 0..TracksPerWorker]
  <2>1. tracksMade[w] + 1 \in 0..TracksPerWorker
    BY <1>1, <1>4
  <2> QED
    BY <1>1, <1>4, <2>1
<1>7. TrackInv'
  <2>1. ASSUME NEW v \in Trackers, track'[v] # Resting
        PROVE  /\ track'[v].kind \in OperationKinds /\ track'[v].ms \in Latencies
               /\ track'[v].done \in 0..2 /\ tracksMade'[v] >= 1
    BY <1>2, <1>4, <1>5, <1>6, <2>1 DEF TrackInv
  <2> QED
    BY <1>5, <1>6, <2>1 DEF TrackInv
<1>8. ASSUME NEW need \in {1, 2}, NEW o \in Trackers \X (1..TracksPerWorker)
      PROVE  o \in Settled(need)' <=> o \in Settled(need)
  <2>1. o[1] \in Trackers /\ o[2] \in Nat /\ tracksMade[o[1]] \in Nat
    BY <1>4
  <2>2. CASE o[1] = w
    <3>1. ~(t.done >= need)
      BY <1>2
    <3>2. o \in Settled(need)' <=> o[2] <= tracksMade[w] + 1 /\ o[2] # tracksMade[w] + 1
      BY <1>3, <1>5, <1>6, <2>2, <3>1 DEF Settled
    <3>3. o \in Settled(need) <=> o[2] <= tracksMade[w]
      BY <1>1, <2>2 DEF Settled
    <3> QED
      BY <1>4, <2>1, <3>2, <3>3
  <2>3. CASE o[1] # w
    BY <1>5, <1>6, <2>1, <2>3 DEF Settled
  <2> QED
    BY <2>2, <2>3
<1> QED
  BY <1>7, <1>8 DEF Settled

\* The operation a worker records is in one more histogram.
LEMMA RecordSettled ==
    ASSUME TrackInv, NEW w \in Trackers, Record(w)
    PROVE  /\ TrackInv'
           /\ track[w].kind \in OperationKinds /\ track[w].ms \in Latencies /\ track[w].done \in 0..2
           /\ \A need \in {1, 2} :
                 Cardinality(Settled(need)') = Cardinality(Settled(need))
                                               + (IF track[w].done + 1 = need THEN 1 ELSE 0)
<1> DEFINE t == track[w]
           next == IF t.done = 2 THEN Resting ELSE [t EXCEPT !.done = @ + 1]
<1>1. t.done < 3 /\ track' = [track EXCEPT ![w] = next] /\ tracksMade' = tracksMade
  BY DEF Record
<1>2. /\ track \in [Trackers -> Tracks] /\ tracksMade \in [Trackers -> 0..TracksPerWorker]
      /\ TracksPerWorker \in Nat /\ t \in Tracks
  BY MeasureAssumption DEF TrackInv
<1>3. t # Resting
  BY <1>1 DEF Resting
<1>4. t.kind \in OperationKinds /\ t.ms \in Latencies /\ t.done \in 0..2 /\ tracksMade[w] >= 1
  BY <1>3 DEF TrackInv
<1>5. t.done # 2 => /\ next \in Tracks /\ next.kind = t.kind /\ next.ms = t.ms /\ next.done = t.done + 1
                    /\ next # Resting /\ next.done \in 0..2
  <2> SUFFICES ASSUME t.done # 2
               PROVE  /\ next \in Tracks /\ next.kind = t.kind /\ next.ms = t.ms /\ next.done = t.done + 1
                      /\ next # Resting /\ next.done \in 0..2
    OBVIOUS
  <2>1. next = [t EXCEPT !.done = @ + 1]
    OBVIOUS
  <2>2. t.done + 1 \in 0..2 /\ t.done + 1 \in 0..3 /\ t.done + 1 # 3
    BY <1>4
  <2> HIDE DEF next
  <2>3. next \in Tracks /\ next.kind = t.kind /\ next.ms = t.ms /\ next.done = t.done + 1
    BY <1>2, <2>1, <2>2 DEF Tracks
  <2>4. next # Resting
    BY <2>2, <2>3 DEF Resting
  <2> QED
    BY <2>2, <2>3, <2>4
<1>6. t.done = 2 => next = Resting
  OBVIOUS
<1>7. Resting \in Tracks
  BY DEF Resting, Tracks
<1> HIDE DEF next
<1>8. /\ track'[w] = next /\ \A v \in Trackers : v # w => track'[v] = track[v]
      /\ track' \in [Trackers -> Tracks]
  BY <1>1, <1>2, <1>5, <1>6, <1>7
<1>9. TrackInv'
  <2>1. ASSUME NEW v \in Trackers, track'[v] # Resting
        PROVE  /\ track'[v].kind \in OperationKinds /\ track'[v].ms \in Latencies
               /\ track'[v].done \in 0..2 /\ tracksMade'[v] >= 1
    BY <1>1, <1>4, <1>5, <1>6, <1>8, <2>1 DEF TrackInv
  <2> QED
    BY <1>1, <1>2, <1>8, <2>1 DEF TrackInv
<1>10. ASSUME NEW need \in {1, 2}
       PROVE  Cardinality(Settled(need)') = Cardinality(Settled(need))
                                            + (IF track[w].done + 1 = need THEN 1 ELSE 0)
  <2> DEFINE own == <<w, tracksMade[w]>>
  <2>1. own \in Trackers \X (1..TracksPerWorker) /\ own[1] = w /\ own[2] = tracksMade[w]
    BY <1>2, <1>4
  <2>2. own \in Settled(need) <=> t.done >= need
    BY <1>2, <1>3, <2>1 DEF Settled
  <2>3. own \in Settled(need)' <=> t.done + 1 >= need
    <3>1. own \in Settled(need)' <=> (next # Resting => next.done >= need)
      BY <1>1, <1>2, <1>8, <2>1 DEF Settled
    <3> QED
      BY <1>4, <1>5, <1>6, <3>1
  <2>4. \A o \in Trackers \X (1..TracksPerWorker) :
            o # own => (o \in Settled(need)' <=> o \in Settled(need))
    <3> SUFFICES ASSUME NEW o \in Trackers \X (1..TracksPerWorker), o # own
                 PROVE  o \in Settled(need)' <=> o \in Settled(need)
      OBVIOUS
    <3>1. o[1] \in Trackers /\ o = <<o[1], o[2]>>
      OBVIOUS
    <3>2. o[1] = w => o[2] # tracksMade[w]
      BY <3>1
    <3>3. CASE o[1] = w
      BY <1>1, <3>2, <3>3 DEF Settled
    <3>4. CASE o[1] # w
      BY <1>1, <1>8, <3>1, <3>4 DEF Settled
    <3> QED
      BY <3>3, <3>4
  <2> HIDE DEF own
  <2>5. Settled(need)' = IF t.done + 1 = need THEN Settled(need) \cup {own} ELSE Settled(need)
    <3>1. /\ Settled(need) \subseteq Trackers \X (1..TracksPerWorker)
          /\ Settled(need)' \subseteq Trackers \X (1..TracksPerWorker)
      BY DEF Settled
    <3>2. t.done + 1 = need <=> (t.done + 1 >= need /\ ~(t.done >= need))
      BY <1>4
    <3>3. t.done >= need => t.done + 1 >= need
      BY <1>4
    <3>4. CASE t.done + 1 = need
      <4>1. own \in Settled(need)'
        BY <2>3, <3>2, <3>4
      <4> QED
        BY <2>1, <2>4, <3>1, <3>4, <4>1
    <3>5. CASE t.done + 1 # need
      <4>1. own \in Settled(need)' <=> own \in Settled(need)
        BY <1>4, <2>2, <2>3, <3>5
      <4> QED
        BY <2>1, <2>4, <3>1, <3>5, <4>1
    <3> QED
      BY <3>4, <3>5
  <2>6. t.done + 1 = need => own \notin Settled(need)
    BY <1>4, <2>2
  <2>7. IsFiniteSet(Settled(need)) /\ Cardinality(Settled(need)) \in Nat
    BY SettledFinite
  <2>8. /\ Cardinality(Settled(need) \cup {own})
              = IF own \in Settled(need) THEN Cardinality(Settled(need)) ELSE Cardinality(Settled(need)) + 1
    BY <2>7, FS_AddElement
  <2> QED
    BY <2>5, <2>6, <2>7, <2>8
<1> QED
  BY <1>4, <1>9, <1>10

LEMMA Counted ==
    ASSUME NEW h \in [Latencies -> Nat]
    PROVE  Count(h) = SumFunctionOnSet(h, Latencies) /\ Count(h) \in Nat
<1>1. DOMAIN h = Latencies /\ IsFiniteSet(Latencies)
  BY MeasureAssumption
<1> QED
  BY <1>1, SumType DEF Count, SumFunction

LEMMA CountOne ==
    ASSUME NEW h \in [Latencies -> Nat], NEW ms \in Latencies
    PROVE  /\ [h EXCEPT ![ms] = @ + 1] \in [Latencies -> Nat]
           /\ Count([h EXCEPT ![ms] = @ + 1]) = Count(h) + 1
<1> DEFINE g == [h EXCEPT ![ms] = h[ms] + 1]
<1>1. g \in [Latencies -> Nat] /\ g[ms] = h[ms] + 1 /\ \A x \in Latencies \ {ms} : g[x] = h[x]
  OBVIOUS
<1> HIDE DEF g
<1>2. SumFunctionOnSet(g, Latencies) = SumFunctionOnSet(h, Latencies) - h[ms] + g[ms]
  BY <1>1, MeasureAssumption, SumChanges
<1>3. Count(g) = Count(h) - h[ms] + (h[ms] + 1) /\ Count(h) \in Nat /\ h[ms] \in Nat
  BY <1>1, <1>2, Counted
<1>4. Count(g) = Count(h) + 1
  BY <1>3
<1> QED
  BY <1>1, <1>4 DEF g

LEMMA CountNone == EmptyHist \in [Latencies -> Nat] /\ Count(EmptyHist) = 0
<1>1. EmptyHist \in [Latencies -> Nat] /\ \A ms \in Latencies : EmptyHist[ms] = 0
  BY DEF EmptyHist
<1> QED
  BY <1>1, Counted, SumOfZeros, MeasureAssumption

Captured == SumFunction([i \in DOMAIN heatmap |-> heatmap[i].count])

LEMMA CapturedIs ==
    ASSUME CountTypes
    PROVE  /\ Captured = SumFunctionOnSet([i \in 1..Len(heatmap) |-> heatmap[i].count], 1..Len(heatmap))
           /\ Captured \in Nat
<1>1. DOMAIN heatmap = 1..Len(heatmap) /\ IsFiniteSet(1..Len(heatmap))
  <2>1. Len(heatmap) \in Nat /\ heatmap = [i \in 1..Len(heatmap) |-> heatmap[i]]
    BY DEF CountTypes
  <2>2. IsFiniteSet(1..Len(heatmap))
    BY <2>1, FS_Interval
  <2>3. DOMAIN [i \in 1..Len(heatmap) |-> heatmap[i]] = 1..Len(heatmap)
    OBVIOUS
  <2> QED
    BY Zenon, <2>1, <2>2, <2>3
<1>2. Captured = SumFunctionOnSet([i \in 1..Len(heatmap) |-> heatmap[i].count], 1..Len(heatmap))
  <2>1. DOMAIN [i \in DOMAIN heatmap |-> heatmap[i].count] = 1..Len(heatmap)
    BY <1>1
  <2> QED
    BY <1>1, <2>1 DEF Captured, SumFunction
<1>3. \A i \in 1..Len(heatmap) : [j \in 1..Len(heatmap) |-> heatmap[j].count][i] \in Nat
  BY DEF CountTypes
<1>4. SumFunctionOnSet([i \in 1..Len(heatmap) |-> heatmap[i].count], 1..Len(heatmap)) \in Nat
  <2> DEFINE f == [i \in 1..Len(heatmap) |-> heatmap[i].count]
  <2>1. \A i \in 1..Len(heatmap) : f[i] \in Nat
    BY <1>3
  <2> HIDE DEF f
  <2>2. SumFunctionOnSet(f, 1..Len(heatmap)) \in Nat
    BY <1>1, <2>1, SumType
  <2> QED
    BY <2>2 DEF f
<1> QED
  BY <1>2, <1>4

LEMMA AppendsBucket ==
    ASSUME CountTypes, NEW bucket, bucket.count \in Nat, heatmap' = Append(heatmap, bucket)
    PROVE  /\ Len(heatmap') \in Nat /\ heatmap' = [i \in 1..Len(heatmap') |-> heatmap'[i]]
           /\ \A i \in 1..Len(heatmap') : heatmap'[i].count \in Nat
           /\ Captured' = Captured + bucket.count
<1> DEFINE n == Len(heatmap)
           S == {heatmap[i] : i \in 1..n} \cup {bucket}
<1>1. n \in Nat /\ heatmap = [i \in 1..n |-> heatmap[i]] /\ \A i \in 1..n : heatmap[i].count \in Nat
  BY DEF CountTypes
<1>2. heatmap \in Seq(S)
  <2>1. \A i \in 1..n : heatmap[i] \in S
    OBVIOUS
  <2> HIDE DEF S, n
  <2>2. heatmap \in [1..n -> S]
    BY <1>1, <2>1
  <2> QED
    BY <1>1, <2>2, SeqDef
<1>3. bucket \in S
  OBVIOUS
<1> HIDE DEF S
<1>4. /\ heatmap' \in Seq(S) /\ Len(heatmap') = n + 1 /\ heatmap'[n + 1] = bucket
      /\ \A i \in 1..n : heatmap'[i] = heatmap[i]
  BY <1>2, <1>3
<1> HIDE DEF n
<1>5. n + 1 \in Nat /\ 1..(n + 1) = (1..n) \cup {n + 1} /\ n + 1 \notin 1..n /\ (1..(n + 1)) \ {n + 1} = 1..n
  BY <1>1
<1>6. heatmap' = [i \in 1..(n + 1) |-> heatmap'[i]] /\ DOMAIN heatmap' = 1..(n + 1)
  <2>1. heatmap' \in [1..(n + 1) -> S]
    BY <1>4, LenProperties
  <2> QED
    BY <2>1
<1>7. \A i \in 1..(n + 1) : heatmap'[i].count \in Nat
  BY <1>1, <1>4, <1>5
<1> DEFINE f == [i \in 1..n |-> heatmap[i].count]
           g == [i \in 1..(n + 1) |-> heatmap'[i].count]
<1>8. Captured = SumFunctionOnSet(f, 1..n)
  BY CapturedIs DEF n
<1>9. Captured' = SumFunctionOnSet(g, 1..(n + 1))
  <2>1. Captured' = SumFunction([i \in DOMAIN heatmap' |-> heatmap'[i].count])
    BY DEF Captured
  <2>2. [i \in DOMAIN heatmap' |-> heatmap'[i].count] = g /\ DOMAIN g = 1..(n + 1)
    BY <1>6
  <2> QED
    BY <2>1, <2>2 DEF SumFunction
<1>10. /\ \A i \in 1..n : f[i] \in Nat /\ g[i] = f[i]
       /\ \A i \in 1..(n + 1) : g[i] \in Nat
       /\ g[n + 1] = bucket.count
  BY <1>1, <1>4, <1>5, <1>7
<1> HIDE DEF f, g
<1>11. IsFiniteSet(1..n) /\ IsFiniteSet(1..(n + 1)) /\ n + 1 \in 1..(n + 1)
  BY <1>1, <1>5, FS_Interval
<1>12. SumFunctionOnSet(g, 1..(n + 1)) = SumFunctionOnSet(g, 1..n) + g[n + 1]
  <2>1. SumFunctionOnSet(g, 1..(n + 1))
            = SumFunctionOnSet(g, (1..(n + 1)) \ {n + 1}) + g[n + 1]
    BY <1>10, <1>11, SumTerm
  <2> QED
    BY Zenon, <1>5, <2>1
<1>13. SumFunctionOnSet(g, 1..n) = SumFunctionOnSet(f, 1..n)
  BY <1>10, <1>11, SumSame
<1> QED
  BY <1>4, <1>5, <1>6, <1>7, <1>8, <1>9, <1>10, <1>12, <1>13

\* The two counts of WindowsCountOnce.
CountInv ==
    /\ Captured + Count(hist[HeatmapTotal]) = Cardinality(Settled(2))
    /\ given["total"] + Count(hist[UiTotal]) = Cardinality(Settled(1))

LEMMA WindowsAre == ASSUME TrackInv PROVE WindowsCountOnce <=> CountInv
<1>1. /\ RecordedIn(UiTotal) = Cardinality(Settled(1))
      /\ RecordedIn(HeatmapTotal) = Cardinality(Settled(2))
  BY RecordedAre
<1> QED
  BY <1>1 DEF WindowsCountOnce, CountInv, Captured, UiTotal, HeatmapTotal

MeasureCounts == TrackInv /\ CountTypes /\ CountInv

LEMMA MeasureInitial == KInit => MeasureCounts /\ ClockInv
<1> SUFFICES ASSUME KInit PROVE MeasureCounts /\ ClockInv
  OBVIOUS
<1>1. TrackInv
  <2>1. Resting \in Tracks
    BY DEF Resting, Tracks
  <2> QED
    BY <2>1, MeasureAssumption DEF KInit, TrackInv
<1>2. CountTypes
  <2>1. heatmap = <<>> /\ Len(heatmap) = 0 /\ 1..0 = {}
    BY DEF KInit
  <2>2. heatmap = [i \in 1..Len(heatmap) |-> heatmap[i]]
    BY <2>1
  <2>3. hist \in [Names -> [Latencies -> Nat]] /\ given \in [Series -> Nat]
    BY CountNone DEF KInit
  <2> QED
    BY <2>1, <2>2, <2>3 DEF CountTypes
<1>3. CountInv
  <2>1. Settled(1) = {} /\ Settled(2) = {}
    BY DEF Settled, KInit
  <2>2. Count(hist[HeatmapTotal]) = 0 /\ Count(hist[UiTotal]) = 0 /\ given["total"] = 0
    BY NamesAre, CountNone DEF KInit, Series
  <2>3. Captured = 0
    <3>1. Len(heatmap) = 0 /\ 1..0 = {}
      BY DEF KInit
    <3> QED
      BY <1>2, <3>1, CapturedIs, SumOfNone
  <2> QED
    BY <2>1, <2>2, <2>3, FS_EmptySet DEF CountInv
<1>4. ClockInv
  BY DEF KInit, ClockInv, ActiveDuration
<1> QED
  BY <1>1, <1>2, <1>3, <1>4 DEF MeasureCounts

LEMMA CountsAre ==
    ASSUME MeasureCounts
    PROVE  /\ Captured \in Nat /\ given["total"] \in Nat
           /\ \A name \in Names : hist[name] \in [Latencies -> Nat] /\ Count(hist[name]) \in Nat
           /\ \A need : Cardinality(Settled(need)) \in Nat
<1>1. \A name \in Names : hist[name] \in [Latencies -> Nat]
  BY DEF MeasureCounts, CountTypes
<1>2. \A name \in Names : Count(hist[name]) \in Nat
  BY <1>1, Counted
<1>3. given["total"] \in Nat
  BY DEF MeasureCounts, CountTypes, Series
<1> QED
  BY <1>1, <1>2, <1>3, CapturedIs, SettledFinite DEF MeasureCounts

\* Nothing is written, captured or read.
LEMMA CountsStay ==
    ASSUME MeasureCounts, UNCHANGED <<track, tracksMade, hist, given, heatmap>>
    PROVE  MeasureCounts'
BY DEF MeasureCounts, TrackInv, CountTypes, CountInv, Captured, Settled

LEMMA TrackStep ==
    ASSUME MeasureCounts, NEW w \in Trackers, NEW kind \in OperationKinds, NEW ms \in Latencies,
           Track(w, kind, ms)
    PROVE  MeasureCounts'
<1>1. TrackInv' /\ Settled(1)' = Settled(1) /\ Settled(2)' = Settled(2)
  BY TrackSettled DEF MeasureCounts
<1>2. UNCHANGED <<hist, given, heatmap>>
  BY DEF Track
<1>3. CountTypes' /\ Captured' = Captured
  BY <1>2 DEF MeasureCounts, CountTypes, Captured
<1>4. CountInv'
  BY <1>1, <1>2, <1>3 DEF MeasureCounts, CountInv
<1> QED
  BY <1>1, <1>3, <1>4 DEF MeasureCounts

LEMMA RecordStep == ASSUME MeasureCounts, NEW w \in Trackers, Record(w) PROVE MeasureCounts'
<1> DEFINE t == track[w]
           name == WritesOf(t.kind)[t.done + 1]
           more == [hist[name] EXCEPT ![t.ms] = @ + 1]
<1>1. /\ TrackInv' /\ t.kind \in OperationKinds /\ t.ms \in Latencies /\ t.done \in 0..2
      /\ \A need \in {1, 2} :
            Cardinality(Settled(need)') = Cardinality(Settled(need)) + (IF t.done + 1 = need THEN 1 ELSE 0)
  BY RecordSettled DEF MeasureCounts
<1>2. /\ t.done = 0 => name = UiTotal
      /\ t.done = 1 => name = HeatmapTotal
      /\ t.done = 2 => name = <<"ui", t.kind>>
  BY DEF WritesOf, UiTotal, HeatmapTotal
<1>3. name \in Names /\ (name = UiTotal <=> t.done = 0) /\ (name = HeatmapTotal <=> t.done = 1)
  BY <1>1, <1>2, NamesAre
<1>4. hist' = [hist EXCEPT ![name] = more] /\ UNCHANGED <<given, heatmap>>
  BY DEF Record
<1>5. hist \in [Names -> [Latencies -> Nat]] /\ hist[name] \in [Latencies -> Nat]
  BY <1>3 DEF MeasureCounts, CountTypes
<1>6. more \in [Latencies -> Nat] /\ Count(more) = Count(hist[name]) + 1
  BY <1>1, <1>5, CountOne
<1> HIDE DEF t, name, more
<1>7. /\ hist' \in [Names -> [Latencies -> Nat]] /\ hist'[name] = more
      /\ \A n \in Names : n # name => hist'[n] = hist[n]
  BY <1>3, <1>4, <1>5, <1>6
<1>8. CountTypes' /\ Captured' = Captured
  BY <1>4, <1>7 DEF MeasureCounts, CountTypes, Captured
<1>9. /\ Captured \in Nat /\ given["total"] \in Nat
      /\ Count(hist[HeatmapTotal]) \in Nat /\ Count(hist[UiTotal]) \in Nat
  BY CountsAre, NamesAre
<1>10. CountInv'
  <2>1. Count(hist'[HeatmapTotal]) = Count(hist[HeatmapTotal]) + (IF t.done + 1 = 2 THEN 1 ELSE 0)
    <3>1. CASE t.done = 1
      BY <1>3, <1>6, <1>7, <3>1
    <3>2. CASE t.done # 1
      <4>1. hist'[HeatmapTotal] = hist[HeatmapTotal] /\ t.done + 1 # 2
        BY <1>1, <1>3, <1>7, <3>2, NamesAre
      <4> QED
        BY <1>9, <4>1
    <3> QED
      BY <3>1, <3>2
  <2>2. Count(hist'[UiTotal]) = Count(hist[UiTotal]) + (IF t.done + 1 = 1 THEN 1 ELSE 0)
    <3>1. CASE t.done = 0
      BY <1>3, <1>6, <1>7, <3>1
    <3>2. CASE t.done # 0
      <4>1. hist'[UiTotal] = hist[UiTotal] /\ t.done + 1 # 1
        BY <1>1, <1>3, <1>7, <3>2, NamesAre
      <4> QED
        BY <1>9, <4>1
    <3> QED
      BY <3>1, <3>2
  <2>3. /\ Captured + Count(hist[HeatmapTotal]) = Cardinality(Settled(2))
        /\ given["total"] + Count(hist[UiTotal]) = Cardinality(Settled(1))
    BY DEF MeasureCounts, CountInv
  <2>4. /\ Captured + Count(hist'[HeatmapTotal]) = Cardinality(Settled(2)')
        /\ given["total"] + Count(hist'[UiTotal]) = Cardinality(Settled(1)')
    BY <1>1, <1>9, <2>1, <2>2, <2>3
  <2> QED
    BY <1>4, <1>8, <2>4 DEF CountInv
<1> QED
  BY <1>1, <1>8, <1>10 DEF MeasureCounts

LEMMA CaptureStep == ASSUME MeasureCounts, NEW p \in Pollers, Capture(p) PROVE MeasureCounts'
<1> DEFINE h == hist[HeatmapTotal]
           bucket == [count |-> Count(h), p50 |-> GetPercentile(h, 50), p99 |-> GetPercentile(h, 99)]
<1>1. /\ heatmap' = IF Count(h) = 0 THEN heatmap ELSE Append(heatmap, bucket)
      /\ hist' = [hist EXCEPT ![HeatmapTotal] = EmptyHist]
      /\ UNCHANGED <<track, tracksMade, given>>
  BY DEF Capture, CaptureLatencyInterval, HeatmapTotal
<1>2. bucket.count = Count(h)
  OBVIOUS
<1> HIDE DEF bucket
<1>3. /\ hist \in [Names -> [Latencies -> Nat]] /\ EmptyHist \in [Latencies -> Nat] /\ Count(EmptyHist) = 0
  BY CountNone DEF MeasureCounts, CountTypes
<1>4. /\ hist' \in [Names -> [Latencies -> Nat]]
      /\ hist'[HeatmapTotal] = EmptyHist /\ hist'[UiTotal] = hist[UiTotal]
  BY <1>1, <1>3, NamesAre
<1>5. Count(h) \in Nat /\ Captured \in Nat
  BY CountsAre, NamesAre
<1>6. /\ Len(heatmap') \in Nat /\ heatmap' = [i \in 1..Len(heatmap') |-> heatmap'[i]]
      /\ \A i \in 1..Len(heatmap') : heatmap'[i].count \in Nat
      /\ Captured' = Captured + Count(h)
  <2>1. CASE Count(h) = 0
    <3>1. heatmap' = heatmap
      BY <1>1, <2>1
    <3>2. Captured' = Captured
      BY <3>1 DEF Captured
    <3>3. Captured' = Captured + Count(h)
      BY <1>5, <2>1, <3>2
    <3> QED
      BY <3>1, <3>3 DEF MeasureCounts, CountTypes
  <2>2. CASE Count(h) # 0
    BY <1>1, <1>2, <1>5, <2>2, AppendsBucket DEF MeasureCounts
  <2> QED
    BY <2>1, <2>2
<1>7. CountTypes'
  BY <1>1, <1>4, <1>6 DEF MeasureCounts, CountTypes
<1>8. TrackInv' /\ Settled(1)' = Settled(1) /\ Settled(2)' = Settled(2)
  BY <1>1 DEF MeasureCounts, TrackInv, Settled
<1>9. CountInv'
  <2>1. Captured' + Count(hist'[HeatmapTotal]) = Captured + Count(h)
    BY <1>3, <1>4, <1>5, <1>6
  <2> QED
    BY <1>1, <1>4, <1>8, <2>1 DEF MeasureCounts, CountInv
<1> QED
  BY <1>7, <1>8, <1>9 DEF MeasureCounts

LEMMA ReadStep ==
    ASSUME MeasureCounts, NEW p \in Pollers, GetUILatencyTimelineAndReset(p)
    PROVE  MeasureCounts'
<1>1. /\ given' = [s \in Series |-> given[s] + Count(hist[<<"ui", s>>])]
      /\ hist' = [n \in Names |-> IF n[1] = "ui" THEN EmptyHist ELSE hist[n]]
      /\ UNCHANGED <<track, tracksMade, heatmap>>
  BY DEF GetUILatencyTimelineAndReset
<1>2. /\ hist \in [Names -> [Latencies -> Nat]] /\ EmptyHist \in [Latencies -> Nat] /\ Count(EmptyHist) = 0
      /\ given \in [Series -> Nat]
  BY CountNone DEF MeasureCounts, CountTypes
<1>3. /\ hist' \in [Names -> [Latencies -> Nat]]
      /\ hist'[UiTotal] = EmptyHist /\ hist'[HeatmapTotal] = hist[HeatmapTotal]
  BY <1>1, <1>2, NamesAre
<1>4. given' \in [Series -> Nat] /\ given'["total"] = given["total"] + Count(hist[UiTotal])
  <2>1. \A s \in Series : <<"ui", s>> \in Names
    BY DEF Names
  <2>2. \A s \in Series : Count(hist[<<"ui", s>>]) \in Nat
    BY <2>1, CountsAre
  <2>3. \A s \in Series : given[s] + Count(hist[<<"ui", s>>]) \in Nat
    <3> SUFFICES ASSUME NEW s \in Series PROVE given[s] + Count(hist[<<"ui", s>>]) \in Nat
      OBVIOUS
    <3>1. given[s] \in Nat
      BY <1>2
    <3>2. Count(hist[<<"ui", s>>]) \in Nat
      BY <2>2
    <3> QED
      BY <3>1, <3>2
  <2>4. "total" \in Series
    BY DEF Series
  <2>5. given' \in [Series -> Nat]
    BY <1>1, <2>3
  <2> QED
    BY <1>1, <2>4, <2>5 DEF UiTotal
<1>5. Count(hist[UiTotal]) \in Nat /\ given["total"] \in Nat
  BY CountsAre, NamesAre
<1>6. CountTypes' /\ Captured' = Captured
  BY <1>1, <1>3, <1>4 DEF MeasureCounts, CountTypes, Captured
<1>7. TrackInv' /\ Settled(1)' = Settled(1) /\ Settled(2)' = Settled(2)
  BY <1>1 DEF MeasureCounts, TrackInv, Settled
<1>8. CountInv'
  <2>1. given'["total"] + Count(hist'[UiTotal]) = given["total"] + Count(hist[UiTotal])
    BY <1>2, <1>3, <1>4, <1>5
  <2> QED
    BY <1>3, <1>6, <1>7, <2>1 DEF MeasureCounts, CountInv
<1> QED
  BY <1>6, <1>7, <1>8 DEF MeasureCounts

\* The clock: what has run is in done, but for the iteration that runs.
LEMMA ClockStep == ASSUME ClockInv, [KNext]_kvars PROVE ClockInv'
<1>1. /\ now \in Nat /\ now # 0 /\ ranTicks \in Nat
      /\ activeClock \in [done : Nat, since : Nat, waiting : Nat]
      /\ activeClock.done \in Nat /\ activeClock.since \in Nat /\ activeClock.since <= now
      /\ ranTicks = activeClock.done + (IF activeClock.since # 0 THEN now - activeClock.since ELSE 0)
  BY DEF ClockInv, ActiveDuration
<1>2. CASE UNCHANGED <<now, activeClock, ranTicks>>
  BY <1>2 DEF ClockInv, ActiveDuration
<1>3. CASE MarkWorkloadStart
  <2>1. /\ activeClock.since = 0 /\ activeClock' = [activeClock EXCEPT !.since = now, !.waiting = 0]
        /\ UNCHANGED <<now, ranTicks>>
    BY <1>3 DEF MarkWorkloadStart
  <2>2. /\ activeClock' \in [done : Nat, since : Nat, waiting : Nat]
        /\ activeClock'.done = activeClock.done /\ activeClock'.since = now
    BY <1>1, <2>1
  <2> QED
    BY <1>1, <2>1, <2>2 DEF ClockInv, ActiveDuration
<1>4. CASE IterationEnds
  <2>1. /\ activeClock.since # 0 /\ UNCHANGED <<now, ranTicks>>
        /\ activeClock' = [activeClock EXCEPT !.done = @ + now - activeClock.since, !.since = 0]
    BY <1>4 DEF IterationEnds, MarkWorkloadEnd
  <2>2. activeClock.done + now - activeClock.since \in Nat
    BY <1>1
  <2>3. /\ activeClock' \in [done : Nat, since : Nat, waiting : Nat]
        /\ activeClock'.done = activeClock.done + now - activeClock.since /\ activeClock'.since = 0
    BY <1>1, <2>1, <2>2
  <2> QED
    BY <1>1, <2>1, <2>3 DEF ClockInv, ActiveDuration
<1>5. CASE \E b \in BOOLEAN : SetWaiting(b)
  <2>1. PICK b \in BOOLEAN : SetWaiting(b)
    BY <1>5
  <2>2. /\ activeClock' = [activeClock EXCEPT !.waiting = IF b THEN now ELSE 0]
        /\ UNCHANGED <<now, ranTicks>>
    BY <2>1 DEF SetWaiting
  <2>3. /\ activeClock' \in [done : Nat, since : Nat, waiting : Nat]
        /\ activeClock'.done = activeClock.done /\ activeClock'.since = activeClock.since
    BY <1>1, <2>2
  <2> QED
    BY <1>1, <2>2, <2>3 DEF ClockInv, ActiveDuration
<1>6. CASE ClockTicks
  <2>1. /\ now' = now + 1 /\ activeClock' = activeClock
        /\ ranTicks' = ranTicks + (IF activeClock.since # 0 THEN 1 ELSE 0)
    BY <1>6 DEF ClockTicks
  <2> QED
    BY <1>1, <2>1 DEF ClockInv, ActiveDuration
<1>7. CASE \/ \E w \in Trackers : Record(w) \/ \E k \in OperationKinds, ms \in Latencies : Track(w, k, ms)
           \/ \E p \in Pollers : ReadCaptureTime(p) \/ SwapCaptureTime(p) \/ Capture(p)
                                 \/ GetUILatencyTimelineAndReset(p)
  BY <1>2, <1>7 DEF Record, Track, ReadCaptureTime, SwapCaptureTime, Capture, CaptureLatencyInterval,
                    GetUILatencyTimelineAndReset
<1>8. CASE UNCHANGED kvars
  BY <1>2, <1>8 DEF kvars
<1> QED
  BY <1>3, <1>4, <1>5, <1>6, <1>7, <1>8 DEF KNext

LEMMA CountStep == ASSUME MeasureCounts, [KNext]_kvars PROVE MeasureCounts'
<1>1. CASE \E w \in Trackers : Record(w) \/ \E k \in OperationKinds, ms \in Latencies : Track(w, k, ms)
  BY <1>1, RecordStep, TrackStep
<1>2. CASE \E p \in Pollers : Capture(p) \/ GetUILatencyTimelineAndReset(p)
  BY <1>2, CaptureStep, ReadStep
<1>3. CASE \E p \in Pollers : ReadCaptureTime(p) \/ SwapCaptureTime(p)
  BY <1>3, CountsStay DEF ReadCaptureTime, SwapCaptureTime
<1>4. CASE MarkWorkloadStart \/ IterationEnds \/ (\E b \in BOOLEAN : SetWaiting(b)) \/ ClockTicks
  BY <1>4, CountsStay DEF MarkWorkloadStart, IterationEnds, MarkWorkloadEnd, SetWaiting, ClockTicks
<1>5. CASE UNCHANGED kvars
  BY <1>5, CountsStay DEF kvars
<1> QED
  BY <1>1, <1>2, <1>3, <1>4, <1>5 DEF KNext

\* Each operation that was written to a histogram is in one window of the
\* heatmap, or waits for one, and went to one dashboard, or waits for one,
\* however writes, captures and polls interleave (SnapshotAndReset); the time
\* the rates are for is the time in which workers ran (MarkWorkloadStart,
\* MarkWorkloadEnd).
THEOREM MeasureTheorem == KSpec => []MeasuredOnce
<1>1. MeasureCounts /\ ClockInv => MeasuredOnce
  <2>1. MeasureCounts => WindowsCountOnce
    BY WindowsAre DEF MeasureCounts
  <2>2. ClockInv => DurationIsActiveTime
    BY DEF ClockInv, DurationIsActiveTime, WorkloadDuration
  <2> QED
    BY <2>1, <2>2 DEF MeasuredOnce
<1>2. MeasureCounts /\ ClockInv /\ [KNext]_kvars => (MeasureCounts /\ ClockInv)'
  BY CountStep, ClockStep
<1> QED
  BY <1>1, <1>2, MeasureInitial, PTL DEF KSpec

-----------------------------------------------------------------------------
(***************************************************************************)
(* InsightEvents.                                                          *)
(***************************************************************************)
Samples == [op : Nat, ns : Nat, bytes : Nat]
Captures ==
    [eligible : Nat, admitted : Nat, oversized : Nat, overBudget : Nat,
     reservoir : Seq(Samples), slowest : Seq(Samples)]
Aggregates == [count : Nat, errors : Nat, sum : Nat, max : Nat, capture : Captures]
Counters ==
    [ops : Nat, ns : Nat, overflowOps : Nat, overflowNs : Nat, eligible : Nat, failed : Nat,
     noQuery : Nat, untracked : Nat, admitted : Nat, evicted : Nat, oversized : Nat,
     overBudget : Nat, retained : Int]

OpsOf(samples) == {samples[i].op : i \in DOMAIN samples}

InsightTypes ==
    /\ tracked \subseteq Groups
    /\ aggregate \in [Groups -> Aggregates]
    /\ observed \in Counters
    /\ eligibleOps \in [Groups -> SUBSET Nat]

\* Until an operation is left out of it, a reservoir holds all there are.
CaptureFits(sc, operations) ==
    /\ Len(sc.slowest) <= 1
    /\ Len(sc.reservoir) <= SamplesPerShape /\ Len(sc.reservoir) <= sc.eligible
    /\ OpsOf(sc.reservoir) \subseteq operations /\ OpsOf(sc.slowest) \subseteq operations
    /\ ~Dropped(sc) /\ sc.eligible = Len(sc.reservoir) => OpsOf(sc.reservoir) = operations

BytesOf(sc) == Bytes(sc.reservoir) + Bytes(sc.slowest)

LEMMA BytesAre ==
    ASSUME NEW s \in Seq(Samples)
    PROVE  /\ DOMAIN s = 1..Len(s) /\ IsFiniteSet(1..Len(s)) /\ Len(s) \in Nat
           /\ \A i \in 1..Len(s) : s[i].bytes \in Nat
           /\ Bytes(s) = SumFunctionOnSet([i \in 1..Len(s) |-> s[i].bytes], 1..Len(s))
           /\ Bytes(s) \in Nat
<1>1. Len(s) \in Nat /\ s \in [1..Len(s) -> Samples] /\ DOMAIN s = 1..Len(s)
  BY LenProperties
<1>2. IsFiniteSet(1..Len(s))
  BY <1>1, FS_Interval
<1>3. \A i \in 1..Len(s) : s[i].bytes \in Nat
  BY <1>1 DEF Samples
<1> DEFINE f == [i \in 1..Len(s) |-> s[i].bytes]
<1>4. Bytes(s) = SumFunctionOnSet(f, 1..Len(s))
  <2>1. [i \in DOMAIN s |-> s[i].bytes] = f /\ DOMAIN f = 1..Len(s)
    BY <1>1
  <2> QED
    BY <2>1 DEF Bytes, SumFunction
<1>5. \A i \in 1..Len(s) : f[i] \in Nat
  BY <1>3
<1> HIDE DEF f
<1>6. SumFunctionOnSet(f, 1..Len(s)) \in Nat
  BY <1>2, <1>5, SumType
<1> QED
  BY <1>1, <1>2, <1>3, <1>4, <1>6 DEF f

LEMMA BytesAppended ==
    ASSUME NEW s \in Seq(Samples), NEW x \in Samples
    PROVE  Bytes(Append(s, x)) = Bytes(s) + x.bytes
<1> DEFINE n == Len(s)
           t == Append(s, x)
<1>1. n \in Nat /\ \A i \in 1..n : s[i].bytes \in Nat
  BY BytesAre
<1>2. t \in Seq(Samples) /\ Len(t) = n + 1 /\ t[n + 1] = x /\ \A i \in 1..n : t[i] = s[i]
  OBVIOUS
<1> HIDE DEF t, n
<1>3. n + 1 \in 1..(n + 1) /\ (1..(n + 1)) \ {n + 1} = 1..n /\ \A i \in 1..n : i \in 1..(n + 1)
  BY <1>1
<1> DEFINE f == [i \in 1..n |-> s[i].bytes]
           g == [i \in 1..(n + 1) |-> t[i].bytes]
<1>4. Bytes(s) = SumFunctionOnSet(f, 1..n) /\ IsFiniteSet(1..n)
  BY BytesAre DEF n
<1>5. Bytes(t) = SumFunctionOnSet(g, 1..(n + 1)) /\ IsFiniteSet(1..(n + 1)) /\ \A i \in 1..(n + 1) : t[i].bytes \in Nat
  BY <1>2, BytesAre
<1>6. /\ \A i \in 1..n : f[i] \in Nat /\ g[i] = f[i]
      /\ \A i \in 1..(n + 1) : g[i] \in Nat
      /\ g[n + 1] = x.bytes
  BY <1>1, <1>2, <1>3, <1>5
<1> HIDE DEF f, g
<1>7. SumFunctionOnSet(g, 1..(n + 1)) = SumFunctionOnSet(g, (1..(n + 1)) \ {n + 1}) + g[n + 1]
  BY <1>3, <1>5, <1>6, SumTerm
<1>8. SumFunctionOnSet(g, 1..n) = SumFunctionOnSet(f, 1..n)
  BY <1>4, <1>6, SumSame
<1>9. Bytes(t) = SumFunctionOnSet(g, 1..n) + x.bytes
  BY <1>3, <1>5, <1>6, <1>7, Zenon
<1> QED
  BY <1>4, <1>8, <1>9 DEF t

LEMMA BytesReplaced ==
    ASSUME NEW s \in Seq(Samples), NEW x \in Samples, NEW j \in DOMAIN s
    PROVE  /\ [s EXCEPT ![j] = x] \in Seq(Samples) /\ Len([s EXCEPT ![j] = x]) = Len(s)
           /\ Bytes([s EXCEPT ![j] = x]) = Bytes(s) - s[j].bytes + x.bytes
           /\ s[j].bytes \in Nat
<1> DEFINE n == Len(s)
           t == [s EXCEPT ![j] = x]
<1>1. n \in Nat /\ j \in 1..n /\ \A i \in 1..n : s[i].bytes \in Nat
  BY BytesAre
<1>2. t \in Seq(Samples) /\ Len(t) = n /\ t[j] = x /\ \A i \in 1..n : i # j => t[i] = s[i]
  OBVIOUS
<1> HIDE DEF t, n
<1> DEFINE f == [i \in 1..n |-> s[i].bytes]
           g == [i \in 1..n |-> t[i].bytes]
<1>4. Bytes(s) = SumFunctionOnSet(f, 1..n) /\ IsFiniteSet(1..n)
  BY BytesAre DEF n
<1>5. Bytes(t) = SumFunctionOnSet(g, 1..n) /\ \A i \in 1..n : t[i].bytes \in Nat
  BY <1>2, BytesAre
<1>6. /\ \A i \in 1..n : f[i] \in Nat
      /\ g[j] \in Nat /\ f[j] = s[j].bytes /\ g[j] = x.bytes
      /\ \A i \in (1..n) \ {j} : g[i] = f[i]
  BY <1>1, <1>2, <1>5
<1> HIDE DEF f, g
<1>7. SumFunctionOnSet(g, 1..n) = SumFunctionOnSet(f, 1..n) - f[j] + g[j]
  <2> DEFINE I == 1..n
  <2>1. IsFiniteSet(I)
    BY <1>4
  <2>2. j \in I /\ g[j] \in Nat
    BY <1>1, <1>6
  <2>3. (\A y \in I : f[y] \in Nat) /\ (\A y \in I \ {j} : g[y] = f[y])
    BY <1>6
  <2> HIDE DEF I
  <2>4. SumFunctionOnSet(g, I) = SumFunctionOnSet(f, I) - f[j] + g[j]
    BY <2>1, <2>2, <2>3, SumChanges
  <2> QED
    BY <2>4 DEF I
<1>8. Bytes(t) = Bytes(s) - s[j].bytes + x.bytes /\ s[j].bytes \in Nat
  <2>1. s[j].bytes \in Nat
    BY <1>1
  <2>2. Bytes(t) = Bytes(s) - f[j] + g[j]
    BY <1>4, <1>5, <1>7, Zenon
  <2> QED
    BY <1>6, <2>1, <2>2, Zenon
<1> QED
  BY <1>2, <1>8 DEF t, n

LEMMA BytesOne ==
    ASSUME NEW x \in Samples
    PROVE  Bytes(<<x>>) = x.bytes /\ Bytes(<<>>) = 0 /\ x.bytes \in Nat /\ <<x>> \in Seq(Samples)
<1>1. <<>> \in Seq(Samples) /\ Append(<<>>, x) = <<x>> /\ Len(<<>>) = 0
  OBVIOUS
<1>2. Bytes(<<>>) = 0
  <2>1. 1..Len(<<>>) = {}
    BY <1>1
  <2>2. Bytes(<<>>) = SumFunctionOnSet([i \in 1..Len(<<>>) |-> <<>>[i].bytes], 1..Len(<<>>))
    BY <1>1, BytesAre
  <2> QED
    BY <2>1, <2>2, SumOfNone
<1>3. x.bytes \in Nat
  BY DEF Samples
<1>4. Bytes(Append(<<>>, x)) = Bytes(<<>>) + x.bytes
  BY <1>1, BytesAppended
<1> QED
  BY <1>1, <1>2, <1>3, <1>4

LEMMA NoBytes == Bytes(<<>>) = 0
<1>1. [op |-> 0, ns |-> 0, bytes |-> 0] \in Samples
  BY DEF Samples
<1> QED
  BY <1>1, BytesOne

LEMMA OpsAppended ==
    ASSUME NEW s \in Seq(Samples), NEW x \in Samples
    PROVE  OpsOf(Append(s, x)) = OpsOf(s) \cup {x.op}
<1> DEFINE n == Len(s)
           t == Append(s, x)
<1>1. n \in Nat /\ DOMAIN s = 1..n
  BY LenProperties
<1>2. t \in Seq(Samples) /\ DOMAIN t = 1..(n + 1) /\ t[n + 1] = x /\ \A i \in 1..n : t[i] = s[i]
  BY LenProperties
<1> HIDE DEF t, n
<1>3. n + 1 \in 1..(n + 1) /\ \A i \in 1..(n + 1) : i = n + 1 \/ i \in 1..n
  BY <1>1
<1>4. \A i \in 1..n : i \in 1..(n + 1)
  BY <1>1
<1>5. OpsOf(t) \subseteq OpsOf(s) \cup {x.op}
  BY <1>1, <1>2, <1>3 DEF OpsOf
<1>6. OpsOf(s) \cup {x.op} \subseteq OpsOf(t)
  BY <1>1, <1>2, <1>3, <1>4 DEF OpsOf
<1> QED
  BY <1>5, <1>6 DEF t

\* What the next sample makes of a reservoir.
LEMMA PutSample ==
    ASSUME NEW sc \in Captures, NEW x \in Samples, NEW slot \in 0..(Len(sc.reservoir) + 1)
    PROVE  LET s == sc.reservoir
               t == Put(s, slot, x)
               gone == Replaced(sc, slot)
           IN  /\ t \in Seq(Samples) /\ gone \in Seq(Samples)
               /\ Bytes(t) = Bytes(s) + (IF slot = 0 THEN 0 ELSE x.bytes) - Bytes(gone)
               /\ Len(t) = IF slot = Len(s) + 1 THEN Len(s) + 1 ELSE Len(s)
               /\ OpsOf(t) \subseteq OpsOf(s) \cup {x.op}
               /\ slot = Len(s) + 1 => OpsOf(t) = OpsOf(s) \cup {x.op}
<1> DEFINE s == sc.reservoir
           t == Put(s, slot, x)
           gone == Replaced(sc, slot)
<1>6. /\ s \in Seq(Samples) /\ slot \in 0..(Len(s) + 1) /\ s = sc.reservoir
      /\ t = Put(s, slot, x) /\ gone = Replaced(sc, slot)
  BY DEF Captures
<1> SUFFICES /\ t \in Seq(Samples) /\ gone \in Seq(Samples)
             /\ Bytes(t) = Bytes(s) + (IF slot = 0 THEN 0 ELSE x.bytes) - Bytes(gone)
             /\ Len(t) = IF slot = Len(s) + 1 THEN Len(s) + 1 ELSE Len(s)
             /\ OpsOf(t) \subseteq OpsOf(s) \cup {x.op}
             /\ slot = Len(s) + 1 => OpsOf(t) = OpsOf(s) \cup {x.op}
  BY Zenon
<1> HIDE DEF s, t, gone
<1>1. /\ Len(s) \in Nat /\ DOMAIN s = 1..Len(s) /\ Bytes(s) \in Nat
      /\ x.bytes \in Nat /\ Bytes(<<>>) = 0 /\ <<>> \in Seq(Samples)
  <2>1. Len(s) \in Nat /\ DOMAIN s = 1..Len(s) /\ Bytes(s) \in Nat
    BY <1>6, BytesAre
  <2>2. x.bytes \in Nat
    BY BytesOne
  <2>3. <<>> \in Seq(Samples)
    OBVIOUS
  <2> QED
    BY <2>1, <2>2, <2>3, NoBytes
<1>2. CASE slot = 0
  <2>1. t = s
    BY <1>2, <1>6 DEF Put
  <2>2. slot \notin DOMAIN s /\ slot # Len(s) + 1
    BY <1>1, <1>2, <1>6
  <2>3. gone = <<>>
    BY <1>6, <2>2 DEF Replaced
  <2>4. t \in Seq(Samples) /\ gone \in Seq(Samples) /\ Bytes(gone) = 0 /\ Bytes(t) = Bytes(s)
    BY <1>1, <1>6, <2>1, <2>3
  <2>5. Bytes(t) = Bytes(s) + 0 - Bytes(gone)
    BY <1>1, <2>4
  <2> QED
    BY <1>2, <2>1, <2>2, <2>4, <2>5
<1>3. CASE slot \in DOMAIN s
  <2>1. t = [s EXCEPT ![slot] = x] /\ slot # 0 /\ slot # Len(s) + 1
    BY <1>1, <1>3, <1>6 DEF Put
  <2>2. gone = <<s[slot]>> /\ s[slot] \in Samples
    BY <1>1, <1>3, <1>6 DEF Replaced
  <2>3. Bytes(gone) = s[slot].bytes /\ gone \in Seq(Samples)
    BY <2>2, BytesOne
  <2>4. t \in Seq(Samples) /\ Len(t) = Len(s) /\ Bytes(t) = Bytes(s) - s[slot].bytes + x.bytes
        /\ s[slot].bytes \in Nat
    BY <1>1, <1>3, <1>6, <2>1, BytesReplaced
  <2>5. OpsOf(t) \subseteq OpsOf(s) \cup {x.op}
    <3>1. DOMAIN t = DOMAIN s /\ \A i \in DOMAIN s : t[i] = IF i = slot THEN x ELSE s[i]
      BY <2>1
    <3> QED
      BY <3>1 DEF OpsOf
  <2>6. Bytes(t) = Bytes(s) + x.bytes - Bytes(gone)
    BY <1>1, <2>3, <2>4
  <2> QED
    BY <2>1, <2>3, <2>4, <2>5, <2>6
<1>4. CASE slot = Len(s) + 1
  <2>1. slot # 0 /\ slot \notin DOMAIN s
    BY <1>1, <1>4
  <2>2. t = Append(s, x) /\ gone = <<>>
    BY <1>1, <1>4, <1>6, <2>1 DEF Put, Replaced
  <2>3. Bytes(t) = Bytes(s) + x.bytes /\ OpsOf(t) = OpsOf(s) \cup {x.op}
    BY <1>1, <1>6, <2>2, BytesAppended, OpsAppended
  <2>4. t \in Seq(Samples) /\ Len(t) = Len(s) + 1
    BY <1>1, <1>6, <2>2
  <2>5. Bytes(t) = Bytes(s) + x.bytes - Bytes(gone)
    BY <1>1, <2>2, <2>3
  <2> QED
    BY <1>1, <1>4, <2>1, <2>2, <2>3, <2>4, <2>5
<1>5. slot = 0 \/ slot \in DOMAIN s \/ slot = Len(s) + 1
  BY <1>1, <1>6
<1> QED
  BY <1>2, <1>3, <1>4, <1>5

LEMMA BytesJoined ==
    ASSUME NEW s \in Seq(Samples), NEW u \in Seq(Samples), Len(u) <= 1
    PROVE  Bytes(s \o u) = Bytes(s) + Bytes(u)
<1>1. Len(u) \in Nat /\ Bytes(s) \in Nat
  BY BytesAre
<1>2. CASE Len(u) = 0
  <2>1. u = <<>> /\ s \o u = s
    BY <1>2
  <2> QED
    BY <1>1, <2>1, NoBytes
<1>3. CASE Len(u) = 1
  <2>1. u = <<u[1]>> /\ u[1] \in Samples
    BY <1>3
  <2>3. s \o <<u[1]>> = Append(s, u[1])
    BY <2>1
  <2>2. Bytes(u) = u[1].bytes
    BY <2>1, BytesOne
  <2> QED
    BY <2>1, <2>2, <2>3, BytesAppended
<1>4. \A n \in Nat : n <= 1 => n = 0 \/ n = 1
  OBVIOUS
<1>5. Len(u) = 0 \/ Len(u) = 1
  BY <1>1, <1>4
<1> QED
  BY <1>2, <1>3, <1>5

\* What the capture of an operation changes: the retained bytes by those of its
\* samples, and the reservoir by one operation or none.
LEMMA AdmitSample ==
    ASSUME NEW sc \in Captures, Len(sc.slowest) <= 1, NEW c \in Counters, NEW x \in Samples,
           NEW slot \in 0..(Len(sc.reservoir) + 1)
    PROVE  LET a == Admit(sc, c, slot, x)
           IN  /\ a.sc \in Captures /\ a.c \in Counters
               /\ a.c.retained = c.retained + BytesOf(a.sc) - BytesOf(sc)
               /\ a.c.retained = c.retained \/ a.c.retained <= MaxRetainedBytes
               /\ <<a.c.ops, a.c.ns, a.c.overflowOps, a.c.overflowNs, a.c.eligible, a.c.failed,
                    a.c.noQuery, a.c.untracked>>
                    = <<c.ops, c.ns, c.overflowOps, c.overflowNs, c.eligible, c.failed, c.noQuery,
                        c.untracked>>
               /\ a.sc.eligible = sc.eligible /\ Len(a.sc.slowest) <= 1
               /\ \/ Len(a.sc.reservoir) = Len(sc.reservoir)
                  \/ /\ slot = Len(sc.reservoir) + 1 /\ Len(a.sc.reservoir) = Len(sc.reservoir) + 1
                     /\ OpsOf(a.sc.reservoir) = OpsOf(sc.reservoir) \cup {x.op}
               /\ OpsOf(a.sc.reservoir) \subseteq OpsOf(sc.reservoir) \cup {x.op}
               /\ OpsOf(a.sc.slowest) \subseteq OpsOf(sc.slowest) \cup {x.op}
               /\ ~Dropped(a.sc) => ~Dropped(sc)
<1> DEFINE s == sc.reservoir
           old == sc.slowest
           slowest == IsSlowest(sc, x.ns)
           added == (IF slot = 0 THEN 0 ELSE x.bytes) + (IF slowest THEN x.bytes ELSE 0)
           replaced == Replaced(sc, slot)
           gone == replaced \o (IF slowest THEN old ELSE <<>>)
           t == Put(s, slot, x)
           new == IF slowest THEN <<x>> ELSE old
           a == Admit(sc, c, slot, x)
<1>1. /\ s \in Seq(Samples) /\ old \in Seq(Samples) /\ Len(s) \in Nat /\ Bytes(s) \in Nat /\ Bytes(old) \in Nat
      /\ x.bytes \in Nat /\ Bytes(<<x>>) = x.bytes /\ <<x>> \in Seq(Samples) /\ Bytes(<<>>) = 0
  <2>1. s \in Seq(Samples) /\ old \in Seq(Samples)
    BY DEF Captures
  <2> QED
    BY <2>1, BytesAre, BytesOne
<1>2. /\ t \in Seq(Samples) /\ replaced \in Seq(Samples)
      /\ Bytes(t) = Bytes(s) + (IF slot = 0 THEN 0 ELSE x.bytes) - Bytes(replaced)
      /\ Len(t) = IF slot = Len(s) + 1 THEN Len(s) + 1 ELSE Len(s)
      /\ OpsOf(t) \subseteq OpsOf(s) \cup {x.op}
      /\ slot = Len(s) + 1 => OpsOf(t) = OpsOf(s) \cup {x.op}
  BY PutSample, Zenon
<1>11. Len(old) <= 1
  OBVIOUS
<1>3. /\ new \in Seq(Samples) /\ Len(new) <= 1
      /\ OpsOf(new) \subseteq OpsOf(old) \cup {x.op}
      /\ Bytes(gone) = Bytes(replaced) + (IF slowest THEN Bytes(old) ELSE 0)
      /\ Bytes(new) = IF slowest THEN x.bytes ELSE Bytes(old)
      /\ Len(gone) \in Nat /\ Bytes(gone) \in Nat /\ Bytes(replaced) \in Nat
  <2>1. Len(<<x>>) = 1 /\ OpsOf(<<x>>) = {x.op} /\ Len(<<>>) = 0 /\ <<>> \in Seq(Samples)
    BY DEF OpsOf
  <2>2. Bytes(replaced) \in Nat
    BY <1>2, BytesAre
  <2>3. \A u \in Seq(Samples) : Len(u) <= 1 => Bytes(replaced \o u) = Bytes(replaced) + Bytes(u)
    BY <1>2, BytesJoined
  <2>4. gone \in Seq(Samples)
    BY <1>1, <1>2, <2>1
  <2>5. Len(gone) \in Nat /\ Bytes(gone) \in Nat
    BY <2>4, BytesAre
  <2>6. Bytes(gone) = Bytes(replaced) + (IF slowest THEN Bytes(old) ELSE 0)
    <3> HIDE DEF replaced, old, slowest
    <3>1. CASE slowest
      BY <1>1, <1>11, <2>3, <3>1
    <3>2. CASE ~slowest
      BY <1>1, <2>1, <2>2, <2>3, <3>2
    <3> QED
      BY <3>1, <3>2
  <2> HIDE DEF gone, replaced
  <2> QED
    BY <1>1, <2>1, <2>2, <2>5, <2>6
<1>4. /\ slot = 0 /\ ~slowest => a = [sc |-> sc, c |-> c]
      /\ ~(slot = 0 /\ ~slowest) /\ x.bytes > MaxSampleBytes =>
            a = [sc |-> [sc EXCEPT !.oversized = @ + 1], c |-> [c EXCEPT !.oversized = @ + 1]]
      /\ ~(slot = 0 /\ ~slowest) /\ ~(x.bytes > MaxSampleBytes)
            /\ c.retained + added - Bytes(gone) > MaxRetainedBytes =>
            a = [sc |-> [sc EXCEPT !.overBudget = @ + 1], c |-> [c EXCEPT !.overBudget = @ + 1]]
      /\ ~(slot = 0 /\ ~slowest) /\ ~(x.bytes > MaxSampleBytes)
            /\ ~(c.retained + added - Bytes(gone) > MaxRetainedBytes) =>
            a = [sc |-> [sc EXCEPT !.reservoir = t, !.admitted = @ + 1, !.slowest = new],
                 c  |-> [c EXCEPT !.retained = @ + added - Bytes(gone),
                                  !.evicted = @ + Len(gone), !.admitted = @ + 1]]
  <2> DEFINE unchanged == [sc |-> sc, c |-> c]
             tooLarge == [sc |-> [sc EXCEPT !.oversized = @ + 1], c |-> [c EXCEPT !.oversized = @ + 1]]
             noRoom == [sc |-> [sc EXCEPT !.overBudget = @ + 1], c |-> [c EXCEPT !.overBudget = @ + 1]]
             kept == [sc |-> [sc EXCEPT !.reservoir = t, !.admitted = @ + 1, !.slowest = new],
                      c  |-> [c EXCEPT !.retained = @ + added - Bytes(gone),
                                       !.evicted = @ + Len(gone), !.admitted = @ + 1]]
             small == ~(x.bytes > MaxSampleBytes)
             over == c.retained + added - Bytes(gone) > MaxRetainedBytes
  <2>1. a = IF slot = 0 /\ ~slowest THEN unchanged ELSE IF ~small THEN tooLarge
            ELSE IF over THEN noRoom ELSE kept
    BY DEF Admit
  <2> HIDE DEF a, slowest, added, gone, t, new, unchanged, tooLarge, noRoom, kept, small, over
  <2>3. /\ slot = 0 /\ ~slowest => a = unchanged
        /\ ~(slot = 0 /\ ~slowest) /\ ~small => a = tooLarge
        /\ ~(slot = 0 /\ ~slowest) /\ small /\ over => a = noRoom
        /\ ~(slot = 0 /\ ~slowest) /\ small /\ ~over => a = kept
    BY <2>1
  <2> QED
    BY <2>3 DEF unchanged, tooLarge, noRoom, kept, small, over
<1>5. c.retained \in Int /\ added \in Nat /\ MaxRetainedBytes \in Nat /\ BytesOf(sc) = Bytes(s) + Bytes(old)
  <2>1. c.retained \in Int /\ BytesOf(sc) = Bytes(s) + Bytes(old) /\ MaxRetainedBytes \in Nat
    BY InsightAssumption DEF Counters, BytesOf
  <2> HIDE DEF slowest
  <2>2. added \in Nat
    BY <1>1
  <2> QED
    BY <2>1, <2>2
<1>6. added - Bytes(gone) = (Bytes(t) + Bytes(new)) - BytesOf(sc)
  <2> HIDE DEF s, old, slowest, replaced, gone, t, new
  <2> DEFINE first == IF slot = 0 THEN 0 ELSE x.bytes
             second == IF slowest THEN x.bytes ELSE 0
             freed == IF slowest THEN Bytes(old) ELSE 0
  <2>1. Bytes(t) = Bytes(s) + first - Bytes(replaced) /\ Bytes(gone) = Bytes(replaced) + freed
        /\ added = first + second
    BY <1>2, <1>3
  <2>2. Bytes(new) = Bytes(old) + second - freed
    BY <1>1, <1>3
  <2>3. first \in Nat /\ second \in Nat /\ freed \in Nat
    BY <1>1
  <2>4. /\ Bytes(s) \in Nat /\ Bytes(old) \in Nat /\ Bytes(replaced) \in Nat
        /\ BytesOf(sc) = Bytes(s) + Bytes(old)
    BY <1>1, <1>3, <1>5
  <2> HIDE DEF first, second, freed, added
  <2> QED
    BY <2>1, <2>2, <2>3, <2>4
<1> HIDE DEF s, old, slowest, added, replaced, gone, t, new, a
<1>7. CASE slot = 0 /\ ~slowest
  BY <1>1, <1>4, <1>5, <1>7 DEF a, s, old
<1>8. CASE ~(slot = 0 /\ ~slowest) /\ x.bytes > MaxSampleBytes
  <2> DEFINE sd == [sc EXCEPT !.oversized = @ + 1]
             cd == [c EXCEPT !.oversized = @ + 1]
  <2>1. sd \in Captures /\ <<sd.eligible, sd.reservoir, sd.slowest>> = <<sc.eligible, sc.reservoir, sc.slowest>>
        /\ sd.oversized = sc.oversized + 1 /\ sc.oversized \in Nat
    <3>1. sc.oversized \in Nat
      BY DEF Captures
    <3>2. sc.oversized + 1 \in Nat
      BY <3>1
    <3> QED
      BY <3>1, <3>2 DEF Captures
  <2>7. c.oversized + 1 \in Nat
    BY DEF Counters
  <2>2. cd \in Counters /\ cd.retained = c.retained
        /\ <<cd.ops, cd.ns, cd.overflowOps, cd.overflowNs, cd.eligible, cd.failed, cd.noQuery, cd.untracked>>
           = <<c.ops, c.ns, c.overflowOps, c.overflowNs, c.eligible, c.failed, c.noQuery, c.untracked>>
    BY <2>7 DEF Counters
  <2>3. Dropped(sd)
    BY <2>1 DEF Dropped
  <2>4. a.sc = sd /\ a.c = cd
    BY <1>4, <1>8
  <2> HIDE DEF sd, cd
  <2>5. BytesOf(sd) = BytesOf(sc)
    BY <2>1 DEF BytesOf
  <2>6. cd.retained = c.retained + BytesOf(sd) - BytesOf(sc)
    BY <1>1, <1>5, <2>2, <2>5
  <2> QED
    BY <2>1, <2>2, <2>3, <2>4, <2>6 DEF a
<1>9. CASE ~(slot = 0 /\ ~slowest) /\ ~(x.bytes > MaxSampleBytes)
           /\ c.retained + added - Bytes(gone) > MaxRetainedBytes
  <2> DEFINE sd == [sc EXCEPT !.overBudget = @ + 1]
             cd == [c EXCEPT !.overBudget = @ + 1]
  <2>1. sd \in Captures /\ <<sd.eligible, sd.reservoir, sd.slowest>> = <<sc.eligible, sc.reservoir, sc.slowest>>
        /\ sd.overBudget = sc.overBudget + 1 /\ sc.overBudget \in Nat
    <3>1. sc.overBudget \in Nat
      BY DEF Captures
    <3>2. sc.overBudget + 1 \in Nat
      BY <3>1
    <3> QED
      BY <3>1, <3>2 DEF Captures
  <2>7. c.overBudget + 1 \in Nat
    BY DEF Counters
  <2>2. cd \in Counters /\ cd.retained = c.retained
        /\ <<cd.ops, cd.ns, cd.overflowOps, cd.overflowNs, cd.eligible, cd.failed, cd.noQuery, cd.untracked>>
           = <<c.ops, c.ns, c.overflowOps, c.overflowNs, c.eligible, c.failed, c.noQuery, c.untracked>>
    BY <2>7 DEF Counters
  <2>3. Dropped(sd)
    BY <2>1 DEF Dropped
  <2>4. a.sc = sd /\ a.c = cd
    BY <1>4, <1>9
  <2> HIDE DEF sd, cd
  <2>5. BytesOf(sd) = BytesOf(sc)
    BY <2>1 DEF BytesOf
  <2>6. cd.retained = c.retained + BytesOf(sd) - BytesOf(sc)
    BY <1>1, <1>5, <2>2, <2>5
  <2> QED
    BY <2>1, <2>2, <2>3, <2>4, <2>6 DEF a
<1>10. CASE ~(slot = 0 /\ ~slowest) /\ ~(x.bytes > MaxSampleBytes)
            /\ ~(c.retained + added - Bytes(gone) > MaxRetainedBytes)
  <2> DEFINE sd == [sc EXCEPT !.reservoir = t, !.admitted = @ + 1, !.slowest = new]
             cd == [c EXCEPT !.retained = @ + added - Bytes(gone),
                             !.evicted = @ + Len(gone), !.admitted = @ + 1]
  <2>1. sc.admitted + 1 \in Nat
    BY DEF Captures
  <2>2. /\ sd \in Captures /\ sd.eligible = sc.eligible /\ sd.reservoir = t /\ sd.slowest = new
        /\ sd.oversized = sc.oversized /\ sd.overBudget = sc.overBudget
    BY <1>2, <1>3, <2>1 DEF Captures
  <2>3. /\ c.retained + added - Bytes(gone) \in Int /\ c.evicted + Len(gone) \in Nat /\ c.admitted + 1 \in Nat
    <3>1. c.evicted \in Nat /\ c.admitted \in Nat
      BY DEF Counters
    <3>2. c.retained \in Int /\ added \in Int /\ Bytes(gone) \in Int /\ Len(gone) \in Nat
      BY <1>3, <1>5
    <3> QED
      BY <3>1, <3>2
  <2>4. /\ cd \in Counters /\ cd.retained = c.retained + added - Bytes(gone)
        /\ <<cd.ops, cd.ns, cd.overflowOps, cd.overflowNs, cd.eligible, cd.failed, cd.noQuery, cd.untracked>>
           = <<c.ops, c.ns, c.overflowOps, c.overflowNs, c.eligible, c.failed, c.noQuery, c.untracked>>
    BY <2>3 DEF Counters
  <2>5. a.sc = sd /\ a.c = cd
    BY <1>4, <1>10
  <2> HIDE DEF sd, cd
  <2>6. BytesOf(sd) = Bytes(t) + Bytes(new)
    BY <2>2 DEF BytesOf
  <2>7. cd.retained = c.retained + BytesOf(sd) - BytesOf(sc) /\ cd.retained <= MaxRetainedBytes
    <3>1. Bytes(t) \in Nat /\ Bytes(new) \in Nat
      BY <1>2, <1>3, BytesAre
    <3>2. BytesOf(sd) \in Int /\ BytesOf(sc) \in Int
      BY <1>1, <1>5, <2>6, <3>1
    <3>3. added - Bytes(gone) = BytesOf(sd) - BytesOf(sc)
      BY <1>6, <2>6
    <3>4. cd.retained = c.retained + (added - Bytes(gone)) /\ cd.retained <= MaxRetainedBytes
      BY <1>3, <1>5, <1>10, <2>4
    <3> QED
      BY <1>5, <3>2, <3>3, <3>4
  <2>8. ~Dropped(sd) => ~Dropped(sc)
    BY <2>2 DEF Dropped
  <2>9. \/ Len(t) = Len(s)
        \/ slot = Len(s) + 1 /\ Len(t) = Len(s) + 1 /\ OpsOf(t) = OpsOf(s) \cup {x.op}
    BY <1>2
  <2> QED
    BY <1>2, <1>3, <2>2, <2>4, <2>5, <2>7, <2>8, <2>9 DEF a, s, old
<1> QED
  BY <1>7, <1>8, <1>9, <1>10

\* Two sums that agree, of terms that do not exceed each other, agree termwise.
LEMMA SumForces ==
    ASSUME NEW f, NEW g, NEW S, IsFiniteSet(S),
           \A x \in S : f[x] \in Nat /\ g[x] \in Nat /\ f[x] <= g[x],
           SumFunctionOnSet(g, S) <= SumFunctionOnSet(f, S)
    PROVE  \A x \in S : g[x] = f[x]
<1>1. IsFiniteSet(Table(f, S)) /\ IsFiniteSet(Table(g, S))
  BY TableFinite
<1>2. Table(f, S) \subseteq Table(g, S)
  <2>1. \A x \in S : \A n \in 1..f[x] : n \in 1..g[x]
    OBVIOUS
  <2> QED
    BY <2>1 DEF Table
<1>3. Cardinality(Table(f, S)) <= Cardinality(Table(g, S))
  BY <1>1, <1>2, FS_Subset
<1>4. Cardinality(Table(g, S)) <= Cardinality(Table(f, S))
  BY SumIsCount
<1>5. Cardinality(Table(f, S)) \in Nat /\ Cardinality(Table(g, S)) \in Nat
  BY <1>1, FS_CardinalityType
<1>6. Table(g, S) = Table(f, S)
  BY <1>1, <1>2, <1>3, <1>4, <1>5, FS_Subset
<1> SUFFICES ASSUME NEW x \in S, g[x] # f[x] PROVE FALSE
  OBVIOUS
<1>7. g[x] \in 1..g[x] /\ g[x] \notin 1..f[x]
  OBVIOUS
<1>8. <<x, g[x]>> \in Table(g, S)
  BY <1>7 DEF Table
<1>9. <<x, g[x]>> \notin Table(f, S)
  BY <1>7 DEF Table
<1> QED
  BY <1>6, <1>8, <1>9

-----------------------------------------------------------------------------
\* Below the modulus, and once around it.
LEMMA Around ==
    ASSUME NEW m \in Nat \ {0}, NEW x \in 0..(2 * m - 1)
    PROVE  x % m = IF x < m THEN x ELSE x - m
<1>1. CASE x < m
  BY <1>1
<1>2. CASE x >= m
  BY <1>2
<1> QED
  BY <1>1, <1>2

\* Where the event of an age lies in the ring; 1 is the newest.
Back(age) == IF age <= ringWrite THEN ringWrite - age ELSE ringWrite + MaxEvents - age

RingTypes ==
    /\ ringWrite \in 0..(MaxEvents - 1) /\ ringCount \in 0..MaxEvents
    /\ sampledOps \in Seq(Nat) /\ ringCount <= Len(sampledOps)
    /\ DOMAIN ring = 0..(MaxEvents - 1)

\* The ring holds the newest sampled operations, back from where it writes.
RingInv ==
    /\ RingTypes
    /\ \A age \in 1..ringCount : ring[Back(age)] = sampledOps[Len(sampledOps) + 1 - age]

LEMMA RingInitial == IInit => RingInv
<1> SUFFICES ASSUME IInit PROVE RingInv
  OBVIOUS
<1>1. ringWrite = 0 /\ ringCount = 0 /\ sampledOps = <<>> /\ ring = [i \in 0..(MaxEvents - 1) |-> 0]
  BY DEF IInit
<1>2. sampledOps \in Seq(Nat) /\ Len(sampledOps) = 0 /\ 0 \in 0..(MaxEvents - 1) /\ 0 \in 0..MaxEvents
  BY <1>1, InsightAssumption
<1>3. 1..0 = {} /\ 0 <= 0
  OBVIOUS
<1> QED
  BY <1>1, <1>2, <1>3 DEF RingInv, RingTypes

LEMMA RingStep ==
    ASSUME RingInv, NEW op \in Nat, RingAppend(op) PROVE RingInv'
<1> DEFINE n == Len(sampledOps)
           m == MaxEvents
<1>1. /\ ringWrite \in 0..(m - 1) /\ ringCount \in 0..m /\ sampledOps \in Seq(Nat) /\ n \in Nat
      /\ ringCount <= n /\ DOMAIN ring = 0..(m - 1)
      /\ \A age \in 1..ringCount : ring[Back(age)] = sampledOps[n + 1 - age]
  BY DEF RingInv, RingTypes
<1>2. m \in Nat /\ m >= 1
  BY InsightAssumption
<1>3. CASE ~ShouldSample(op)
  <2>1. UNCHANGED <<ring, ringWrite, ringCount, sampledOps>>
    BY <1>3 DEF RingAppend
  <2> QED
    BY <2>1 DEF RingInv, RingTypes, Back
<1>4. CASE ShouldSample(op)
  <2>1. /\ ring' = [ring EXCEPT ![ringWrite] = op]
        /\ ringWrite' = (ringWrite + 1) % m
        /\ ringCount' = IF ringCount < m THEN ringCount + 1 ELSE ringCount
        /\ sampledOps' = Append(sampledOps, op)
    BY <1>4 DEF RingAppend
  <2>2. ringWrite' = IF ringWrite + 1 < m THEN ringWrite + 1 ELSE 0
    <3>1. ringWrite + 1 \in 0..(2 * m - 1)
      BY <1>1, <1>2
    <3>2. m \in Nat \ {0}
      BY <1>2
    <3> DEFINE x == ringWrite + 1
    <3> HIDE DEF x, m
    <3>3. x % m = IF x < m THEN x ELSE x - m
      BY <3>1, <3>2, Around DEF x
    <3>4. x - m = 0 \/ x < m
      BY <1>1, <1>2 DEF x
    <3>5. ringWrite' = x % m /\ x = ringWrite + 1
      BY <2>1 DEF x
    <3> QED
      BY <3>3, <3>4, <3>5
  <2>3. /\ Len(sampledOps') = n + 1 /\ sampledOps' \in Seq(Nat) /\ sampledOps'[n + 1] = op
        /\ \A i \in 1..n : sampledOps'[i] = sampledOps[i]
    BY <1>1, <2>1
  <2>4. ringWrite' \in 0..(m - 1) /\ ringCount' \in 0..m /\ ringCount' <= n + 1
        /\ \A age \in 1..ringCount' : age = 1 \/ age - 1 \in 1..ringCount
    BY <1>1, <1>2, <2>1, <2>2
  <2>5. DOMAIN ring' = 0..(m - 1) /\ ring'[ringWrite] = op
        /\ \A i \in 0..(m - 1) : i # ringWrite => ring'[i] = ring[i]
    BY <1>1, <2>1
  <2>6. ASSUME NEW age \in 1..ringCount' PROVE ring'[Back(age)'] = sampledOps'[n + 2 - age]
    <3>1. Back(age)' = IF age <= ringWrite' THEN ringWrite' - age ELSE ringWrite' + m - age
      BY DEF Back
    <3>2. CASE age = 1
      <4>1. Back(age)' = ringWrite /\ n + 2 - age = n + 1
        BY <1>1, <1>2, <2>2, <3>1, <3>2
      <4> QED
        BY <2>3, <2>5, <4>1
    <3>3. CASE age # 1
      <4>1. age - 1 \in 1..ringCount
        BY <2>4, <3>3
      <4>2. Back(age - 1) = IF age - 1 <= ringWrite THEN ringWrite - (age - 1) ELSE ringWrite + m - (age - 1)
        BY DEF Back
      <4> DEFINE at == Back(age - 1)
      <4>3. Back(age)' = at /\ at \in 0..(m - 1) /\ at # ringWrite
        <5> HIDE DEF at, n, m
        <5>1. at = IF age - 1 <= ringWrite THEN ringWrite - (age - 1) ELSE ringWrite + m - (age - 1)
          BY <4>2 DEF at
        <5>2. age \in Int /\ age >= 2 /\ age <= m
          BY <1>1, <1>2, <2>4, <3>3
        <5>3. age - 1 <= m - 1
          BY <1>2, <5>2
        <5>4. CASE ringWrite + 1 < m
          BY <1>1, <1>2, <2>2, <3>1, <5>1, <5>2, <5>4
        <5>5. CASE ~(ringWrite + 1 < m)
          BY <1>1, <1>2, <2>2, <3>1, <5>1, <5>2, <5>5
        <5> QED
          BY <5>4, <5>5
      <4>4. ring'[at] = ring[at]
        BY <2>5, <4>3
      <4>5. ring[at] = sampledOps[n + 1 - (age - 1)]
        BY <1>1, <4>1
      <4>6. n + 1 - (age - 1) = n + 2 - age /\ n + 2 - age \in 1..n
        BY <1>1, <4>1
      <4> QED
        BY <2>3, <4>3, <4>4, <4>5, <4>6
    <3> QED
      BY <3>2, <3>3
  <2>7. \A age \in 1..ringCount' : Len(sampledOps') + 1 - age = n + 2 - age
    BY <1>1, <2>3
  <2>8. \A age \in 1..ringCount' : ring'[Back(age)'] = sampledOps'[Len(sampledOps') + 1 - age]
    BY <2>6, <2>7
  <2>9. RingTypes'
    BY <2>3, <2>4, <2>5 DEF RingTypes
  <2> QED
    BY <2>8, <2>9 DEF RingInv
<1> QED
  BY <1>3, <1>4

\* Read from its oldest event the ring is the end of the history.
LEMMA RingInOrder ==
    ASSUME RingInv
    PROVE  Events = SubSeq(sampledOps, Len(sampledOps) - ringCount + 1, Len(sampledOps))
<1> DEFINE n == Len(sampledOps)
           m == MaxEvents
           start == (ringWrite + m - ringCount) % m
           last == SubSeq(sampledOps, n - ringCount + 1, n)
<1>1. /\ ringWrite \in 0..(m - 1) /\ ringCount \in 0..m /\ sampledOps \in Seq(Nat) /\ n \in Nat
      /\ ringCount <= n
      /\ \A age \in 1..ringCount : ring[Back(age)] = sampledOps[n + 1 - age]
  BY DEF RingInv, RingTypes
<1>2. m \in Nat \ {0} /\ m >= 1
  BY InsightAssumption
<1>3. start = IF ringCount <= ringWrite THEN ringWrite - ringCount ELSE ringWrite + m - ringCount
  <2> DEFINE x == ringWrite + m - ringCount
  <2>1. x \in 0..(2 * m - 1)
    BY <1>1, <1>2
  <2>2. x < m <=> ~(ringCount <= ringWrite)
    BY <1>1, <1>2
  <2>3. x - m = ringWrite - ringCount
    BY <1>1, <1>2
  <2> HIDE DEF x
  <2>4. x % m = IF x < m THEN x ELSE x - m
    BY <1>2, <2>1, Around
  <2> QED
    BY <2>2, <2>3, <2>4 DEF x
<1>4. ASSUME NEW i \in 1..ringCount
      PROVE  ring[(start + i - 1) % m] = sampledOps[n - ringCount + i]
  <2> DEFINE age == ringCount + 1 - i
             x == start + i - 1
  <2>1. age \in 1..ringCount /\ n + 1 - age = n - ringCount + i
    BY <1>1
  <2>2. x \in 0..(2 * m - 1)
    BY <1>1, <1>2, <1>3
  <2>3. x % m = IF x < m THEN x ELSE x - m
    <3> HIDE DEF x, m
    <3> QED
      BY <1>2, <2>2, Around
  <2>4. (IF x < m THEN x ELSE x - m) = IF age <= ringWrite THEN ringWrite - age ELSE ringWrite + m - age
    <3> HIDE DEF start
    <3> QED
      BY <1>1, <1>2, <1>3
  <2>5. x % m = Back(age)
    BY <2>3, <2>4 DEF Back
  <2>6. ring[Back(age)] = sampledOps[n + 1 - age]
    BY <1>1, <2>1
  <2> QED
    BY <2>1, <2>5, <2>6
<1>5. Events = [i \in 1..ringCount |-> sampledOps[n - ringCount + i]]
  BY <1>4 DEF Events
<1>6. last = [i \in 1..ringCount |-> sampledOps[n - ringCount + i]]
  <2>1. n - (n - ringCount + 1) + 1 = ringCount /\ n - ringCount + 1 \in Int
    BY <1>1
  <2>2. 1 + n - (n - ringCount + 1) = ringCount /\ \A i \in 1..ringCount : i + (n - ringCount + 1) - 1 = n - ringCount + i
    BY <1>1
  <2>3. last = [i \in 1..(1 + n - (n - ringCount + 1)) |-> sampledOps[i + (n - ringCount + 1) - 1]]
    BY <1>1, <2>1
  <2> QED
    BY <2>2, <2>3
<1> QED
  BY <1>5, <1>6

-----------------------------------------------------------------------------
\* An operation of key k, with the capture it leaves, in the terms of the
\* accounts: what it adds to each counter, and to which key.
Accounts(k, ok, ns, sc) ==
    LET nextOps == eligibleOps'[k] IN
    /\ observed' \in Counters
    /\ observed'.ops = observed.ops + 1 /\ observed'.ns = observed.ns + ns
    /\ observed'.eligible + observed'.failed + observed'.noQuery + observed'.untracked
          = observed.eligible + observed.failed + observed.noQuery + observed.untracked + 1
    /\ observed'.retained = observed.retained + BytesOf(sc) - BytesOf(aggregate[k].capture)
    /\ observed'.retained = observed.retained \/ observed'.retained <= MaxRetainedBytes
    /\ \/ /\ tracked' = tracked \cup {k}
          /\ aggregate' = [aggregate EXCEPT ![k] = [Recorded(aggregate[k], ok, ns) EXCEPT !.capture = sc]]
          /\ observed'.overflowOps = observed.overflowOps /\ observed'.overflowNs = observed.overflowNs
       \/ /\ tracked' = tracked /\ aggregate' = aggregate /\ sc = aggregate[k].capture
          /\ observed'.overflowOps = observed.overflowOps + 1
          /\ observed'.overflowNs = observed.overflowNs + ns
    /\ nextOps \in SUBSET Nat /\ eligibleOps' = [eligibleOps EXCEPT ![k] = nextOps]
    /\ sc \in Captures /\ CaptureFits(sc, nextOps)

LEMMA OperationAccounts ==
    ASSUME InsightTypes, NEW k \in Groups, CaptureFits(aggregate[k].capture, eligibleOps[k]),
           NEW ok \in BOOLEAN, NEW query \in QueryBytes, NEW ns \in Durations,
           NEW slot \in 0..SamplesPerShape, RecordOperationEvent(k, ok, query, ns, slot)
    PROVE  \E sc \in Captures : Accounts(k, ok, ns, sc)
<1> DEFINE op == observed.ops + 1
           fits == Fits(k)
           eligible == ok /\ query > 0 /\ fits
           old == aggregate[k].capture
           sd == [old EXCEPT !.eligible = IF eligible THEN @ + 1 ELSE @]
           c == [observed EXCEPT !.ops = op, !.ns = @ + ns,
                   !.overflowOps = IF fits THEN @ ELSE @ + 1, !.overflowNs = IF fits THEN @ ELSE @ + ns,
                   !.failed = IF ok THEN @ ELSE @ + 1,
                   !.noQuery = IF ok /\ query = 0 THEN @ + 1 ELSE @,
                   !.untracked = IF ok /\ query > 0 /\ ~fits THEN @ + 1 ELSE @,
                   !.eligible = IF eligible THEN @ + 1 ELSE @]
           x == [op |-> op, ns |-> ns, bytes |-> query]
           admitted == IF eligible THEN Admit(sd, c, slot, x) ELSE [sc |-> sd, c |-> c]
           opsOfK == eligibleOps[k]
<1>1. /\ slot \in (IF eligible THEN Slots(sd) ELSE {0})
      /\ observed' = admitted.c
      /\ tracked' = IF fits THEN tracked \cup {k} ELSE tracked
      /\ aggregate' = IF fits THEN [aggregate EXCEPT ![k] =
                                      [Recorded(aggregate[k], ok, ns) EXCEPT !.capture = admitted.sc]]
                      ELSE aggregate
      /\ eligibleOps' = IF eligible THEN [eligibleOps EXCEPT ![k] = opsOfK \cup {op}] ELSE eligibleOps
  BY Zenon DEF RecordOperationEvent
<1>2. /\ ns \in Nat /\ query \in Nat /\ observed \in Counters /\ aggregate[k] \in Aggregates
      /\ old \in Captures /\ opsOfK \in SUBSET Nat /\ eligibleOps \in [Groups -> SUBSET Nat]
  <2>1. aggregate[k] \in Aggregates
    BY DEF InsightTypes
  <2>2. aggregate[k].capture \in Captures
    BY <2>1 DEF Aggregates
  <2>3. eligibleOps[k] \in SUBSET Nat /\ observed \in Counters /\ eligibleOps \in [Groups -> SUBSET Nat]
    BY DEF InsightTypes
  <2>4. ns \in Nat /\ query \in Nat
    BY InsightAssumption
  <2> QED
    BY <2>1, <2>2, <2>3, <2>4
<1>3. /\ op \in Nat /\ observed.ops \in Nat /\ observed.ns \in Nat /\ observed.overflowOps \in Nat
      /\ observed.overflowNs \in Nat /\ observed.eligible \in Nat /\ observed.failed \in Nat
      /\ observed.noQuery \in Nat /\ observed.untracked \in Nat /\ observed.retained \in Int
  <2>1. /\ observed.ops \in Nat /\ observed.ns \in Nat /\ observed.overflowOps \in Nat
        /\ observed.overflowNs \in Nat /\ observed.eligible \in Nat /\ observed.failed \in Nat
        /\ observed.noQuery \in Nat /\ observed.untracked \in Nat /\ observed.retained \in Int
    BY <1>2 DEF Counters
  <2> QED
    BY <2>1
<1>4. x \in Samples /\ x.op = op
  BY <1>2, <1>3 DEF Samples
<1>5. /\ Len(old.slowest) <= 1 /\ Len(old.reservoir) <= SamplesPerShape /\ Len(old.reservoir) <= old.eligible
      /\ OpsOf(old.reservoir) \subseteq opsOfK /\ OpsOf(old.slowest) \subseteq opsOfK
      /\ ~Dropped(old) /\ old.eligible = Len(old.reservoir) => OpsOf(old.reservoir) = opsOfK
      /\ old.eligible \in Nat /\ Len(old.reservoir) \in Nat /\ SamplesPerShape \in Nat
  <2>1. old.eligible \in Nat /\ old.reservoir \in Seq(Samples)
    BY <1>2 DEF Captures
  <2>2. Len(old.reservoir) \in Nat
    BY <2>1, LenProperties
  <2>3. SamplesPerShape \in Nat
    BY InsightAssumption
  <2> QED
    BY <2>1, <2>2, <2>3 DEF CaptureFits
<1>6. /\ c \in Counters /\ c.ops = op /\ c.ns = observed.ns + ns /\ c.retained = observed.retained
      /\ c.overflowOps = (IF fits THEN observed.overflowOps ELSE observed.overflowOps + 1)
      /\ c.overflowNs = (IF fits THEN observed.overflowNs ELSE observed.overflowNs + ns)
      /\ c.eligible = (IF eligible THEN observed.eligible + 1 ELSE observed.eligible)
      /\ c.failed = (IF ok THEN observed.failed ELSE observed.failed + 1)
      /\ c.noQuery = (IF ok /\ query = 0 THEN observed.noQuery + 1 ELSE observed.noQuery)
      /\ c.untracked = (IF ok /\ query > 0 /\ ~fits THEN observed.untracked + 1 ELSE observed.untracked)
  <2> HIDE DEF op, fits, eligible
  <2>1. /\ observed.ns + ns \in Nat /\ observed.overflowOps + 1 \in Nat /\ observed.overflowNs + ns \in Nat
        /\ observed.eligible + 1 \in Nat /\ observed.failed + 1 \in Nat /\ observed.noQuery + 1 \in Nat
        /\ observed.untracked + 1 \in Nat
    BY <1>2, <1>3
  <2> DEFINE n1 == observed.ns + ns
             n2 == IF fits THEN observed.overflowOps ELSE observed.overflowOps + 1
             n3 == IF fits THEN observed.overflowNs ELSE observed.overflowNs + ns
             n4 == IF eligible THEN observed.eligible + 1 ELSE observed.eligible
             n5 == IF ok THEN observed.failed ELSE observed.failed + 1
             n6 == IF ok /\ query = 0 THEN observed.noQuery + 1 ELSE observed.noQuery
             n7 == IF ok /\ query > 0 /\ ~fits THEN observed.untracked + 1 ELSE observed.untracked
  <2>2. n1 \in Nat /\ n2 \in Nat /\ n3 \in Nat /\ n4 \in Nat /\ n5 \in Nat /\ n6 \in Nat /\ n7 \in Nat
    BY <1>3, <2>1
  <2>3. c = [observed EXCEPT !.ops = op, !.ns = n1, !.overflowOps = n2, !.overflowNs = n3,
                !.failed = n5, !.noQuery = n6, !.untracked = n7, !.eligible = n4]
    BY Zenon
  <2> HIDE DEF c, n1, n2, n3, n4, n5, n6, n7
  <2>4. /\ c \in Counters /\ c.ops = op /\ c.ns = n1 /\ c.retained = observed.retained
        /\ c.overflowOps = n2 /\ c.overflowNs = n3 /\ c.eligible = n4 /\ c.failed = n5
        /\ c.noQuery = n6 /\ c.untracked = n7
    BY <1>2, <1>3, <2>2, <2>3 DEF Counters, op
  <2> QED
    BY <2>4 DEF n1, n2, n3, n4, n5, n6, n7
<1>7. c.eligible + c.failed + c.noQuery + c.untracked
        = observed.eligible + observed.failed + observed.noQuery + observed.untracked + 1
  <2>1. query = 0 <=> ~(query > 0)
    BY <1>2
  <2> HIDE DEF op, c, fits
  <2> QED
    BY <1>3, <1>6, <2>1
<1>8. /\ sd \in Captures /\ BytesOf(sd) = BytesOf(old) /\ sd.reservoir = old.reservoir
      /\ sd.slowest = old.slowest /\ (Dropped(sd) <=> Dropped(old))
      /\ sd.eligible = IF eligible THEN old.eligible + 1 ELSE old.eligible
  <2> HIDE DEF eligible, old
  <2>1. old.eligible + 1 \in Nat /\ sd = [old EXCEPT !.eligible = IF eligible THEN old.eligible + 1 ELSE old.eligible]
    BY <1>5
  <2>2. /\ sd \in Captures /\ sd.reservoir = old.reservoir /\ sd.slowest = old.slowest
        /\ sd.oversized = old.oversized /\ sd.overBudget = old.overBudget
        /\ sd.eligible = IF eligible THEN old.eligible + 1 ELSE old.eligible
    BY <1>2, <2>1 DEF Captures
  <2> HIDE DEF sd
  <2> QED
    BY <2>2 DEF BytesOf, Dropped
<1>9. BytesOf(old) \in Nat /\ BytesOf(sd) \in Nat
  <2>1. old.reservoir \in Seq(Samples) /\ old.slowest \in Seq(Samples)
    BY <1>2 DEF Captures
  <2>2. Bytes(old.reservoir) \in Nat /\ Bytes(old.slowest) \in Nat
    BY <2>1, BytesAre
  <2>3. BytesOf(old) \in Nat
    BY <2>2 DEF BytesOf
  <2> QED
    BY <1>8, <2>3
<1>10. CASE ~eligible
  <2>1. observed' = c /\ admitted.sc = old /\ eligibleOps' = eligibleOps
    <3>1. admitted = [sc |-> sd, c |-> c] /\ sd = old
      BY <1>2, <1>10 DEF Captures
    <3> QED
      BY <1>1, <1>10, <3>1
  <2>2. eligibleOps = [eligibleOps EXCEPT ![k] = opsOfK]
    BY <1>2
  <2>3. /\ tracked' = IF fits THEN tracked \cup {k} ELSE tracked
        /\ aggregate' = IF fits THEN [aggregate EXCEPT ![k] = [Recorded(aggregate[k], ok, ns) EXCEPT !.capture = old]]
                        ELSE aggregate
    BY <1>1, <2>1
  <2>4. CaptureFits(old, eligibleOps'[k]) /\ eligibleOps'[k] = opsOfK
    BY <2>1
  <2>5. observed.retained = observed.retained + BytesOf(old) - BytesOf(old)
    BY <1>3, <1>9
  <2> HIDE DEF old, sd, c, admitted, opsOfK, fits, eligible
  <2>6. Accounts(k, ok, ns, old)
    BY <1>2, <1>6, <1>7, <2>1, <2>2, <2>3, <2>4, <2>5 DEF Accounts, op, old
  <2> QED
    BY <1>2, <2>6
<1>11. CASE eligible
  <2> DEFINE sc == admitted.sc
             d == admitted.c
             nextOps == opsOfK \cup {op}
  <2>1. slot \in Slots(sd) /\ admitted = Admit(sd, c, slot, x)
    BY <1>1, <1>11
  <2>2. /\ slot \in 0..(Len(sd.reservoir) + 1) /\ Len(sd.slowest) <= 1
        /\ slot = Len(sd.reservoir) + 1 => Len(sd.reservoir) + 1 <= SamplesPerShape
    <3>1. /\ slot \in IF Len(sd.reservoir) < SamplesPerShape THEN {Len(sd.reservoir) + 1}
                      ELSE 0..(IF sd.eligible < SamplesPerShape THEN sd.eligible ELSE SamplesPerShape)
          /\ slot \in 0..SamplesPerShape
      BY <2>1 DEF Slots
    <3> HIDE DEF sd, old
    <3> QED
      BY <1>5, <1>8, <3>1
  <2> HIDE DEF sd, c, x, old, op
  <2>3. /\ sc \in Captures /\ d \in Counters
        /\ d.retained = c.retained + BytesOf(sc) - BytesOf(sd)
        /\ d.retained = c.retained \/ d.retained <= MaxRetainedBytes
        /\ <<d.ops, d.ns, d.overflowOps, d.overflowNs, d.eligible, d.failed, d.noQuery, d.untracked>>
             = <<c.ops, c.ns, c.overflowOps, c.overflowNs, c.eligible, c.failed, c.noQuery, c.untracked>>
        /\ sc.eligible = sd.eligible /\ Len(sc.slowest) <= 1
        /\ \/ Len(sc.reservoir) = Len(sd.reservoir)
           \/ /\ slot = Len(sd.reservoir) + 1 /\ Len(sc.reservoir) = Len(sd.reservoir) + 1
              /\ OpsOf(sc.reservoir) = OpsOf(sd.reservoir) \cup {x.op}
        /\ OpsOf(sc.reservoir) \subseteq OpsOf(sd.reservoir) \cup {x.op}
        /\ OpsOf(sc.slowest) \subseteq OpsOf(sd.slowest) \cup {x.op}
        /\ ~Dropped(sc) => ~Dropped(sd)
    <3> DEFINE a == Admit(sd, c, slot, x)
    <3>1. /\ a.sc \in Captures /\ a.c \in Counters
          /\ a.c.retained = c.retained + BytesOf(a.sc) - BytesOf(sd)
          /\ a.c.retained = c.retained \/ a.c.retained <= MaxRetainedBytes
          /\ <<a.c.ops, a.c.ns, a.c.overflowOps, a.c.overflowNs, a.c.eligible, a.c.failed, a.c.noQuery, a.c.untracked>>
               = <<c.ops, c.ns, c.overflowOps, c.overflowNs, c.eligible, c.failed, c.noQuery, c.untracked>>
          /\ a.sc.eligible = sd.eligible /\ Len(a.sc.slowest) <= 1
          /\ \/ Len(a.sc.reservoir) = Len(sd.reservoir)
             \/ /\ slot = Len(sd.reservoir) + 1 /\ Len(a.sc.reservoir) = Len(sd.reservoir) + 1
                /\ OpsOf(a.sc.reservoir) = OpsOf(sd.reservoir) \cup {x.op}
          /\ OpsOf(a.sc.reservoir) \subseteq OpsOf(sd.reservoir) \cup {x.op}
          /\ OpsOf(a.sc.slowest) \subseteq OpsOf(sd.slowest) \cup {x.op}
          /\ ~Dropped(a.sc) => ~Dropped(sd)
      BY <1>4, <1>6, <1>8, <2>2, AdmitSample
    <3>2. sc = a.sc /\ d = a.c
      BY <2>1
    <3> HIDE DEF a, sc, d
    <3> QED
      BY <3>1, <3>2
  <2> HIDE DEF sc, d, admitted, fits, eligible, opsOfK
  <2>4. observed' = d /\ fits /\ eligibleOps' = [eligibleOps EXCEPT ![k] = nextOps]
        /\ tracked' = tracked \cup {k}
        /\ aggregate' = [aggregate EXCEPT ![k] = [Recorded(aggregate[k], ok, ns) EXCEPT !.capture = sc]]
    BY <1>1, <1>11 DEF sc, d, eligible
  <2>5. nextOps \in SUBSET Nat /\ eligibleOps'[k] = nextOps
    BY <1>2, <1>3, <2>4
  <2>6. CaptureFits(sc, nextOps)
    <3>1. Len(sc.reservoir) \in Nat
      <4>1. sc.reservoir \in Seq(Samples)
        BY <2>3 DEF Captures
      <4> QED
        BY <4>1, LenProperties
    <3>2. Len(sc.reservoir) <= SamplesPerShape /\ Len(sc.reservoir) <= sc.eligible
      BY <1>5, <1>8, <1>11, <2>2, <2>3, <3>1
    <3>3. OpsOf(sc.reservoir) \subseteq nextOps /\ OpsOf(sc.slowest) \subseteq nextOps
      BY <1>4, <1>5, <1>8, <2>3
    <3>4. ASSUME ~Dropped(sc), sc.eligible = Len(sc.reservoir) PROVE OpsOf(sc.reservoir) = nextOps
      <4>1. Len(sc.reservoir) = old.eligible + 1 /\ ~Dropped(old)
        BY <1>8, <1>11, <2>3, <3>4
      <4>2. Len(sc.reservoir) = Len(old.reservoir) + 1 /\ old.eligible = Len(old.reservoir)
        BY <1>5, <1>8, <2>3, <4>1
      <4>3. Len(sc.reservoir) # Len(sd.reservoir)
        BY <1>5, <1>8, <4>2
      <4> QED
        BY <1>4, <1>5, <1>8, <2>3, <4>1, <4>2, <4>3
    <3> QED
      BY <2>3, <3>2, <3>3, <3>4 DEF CaptureFits
  <2>7. d.retained = observed.retained + BytesOf(sc) - BytesOf(old)
    BY <1>6, <1>8, <2>3
  <2>8. Accounts(k, ok, ns, sc)
    <3> HIDE DEF nextOps
    <3> QED
      BY <1>6, <1>7, <2>3, <2>4, <2>5, <2>6, <2>7 DEF Accounts, old, op
  <2> QED
    BY <2>3, <2>8
<1> QED
  BY <1>10, <1>11

-----------------------------------------------------------------------------
\* A key without an aggregate has counted nothing.
UntrackedIdle == \A k \in Groups \ tracked : aggregate[k].count = 0 /\ aggregate[k].sum = 0

AccountInv ==
    /\ InsightTypes /\ \A k \in Groups : CaptureFits(aggregate[k].capture, eligibleOps[k])
    /\ UntrackedIdle /\ BytesAccounted /\ OperationsAccounted

LEMMA AccountInitial == IInit => AccountInv
<1> SUFFICES ASSUME IInit PROVE AccountInv
  OBVIOUS
<1>1. /\ tracked = {} /\ aggregate = [k \in Groups |-> NoAggregate] /\ eligibleOps = [k \in Groups |-> {}]
      /\ observed = [ops |-> 0, ns |-> 0, overflowOps |-> 0, overflowNs |-> 0, eligible |-> 0,
                     failed |-> 0, noQuery |-> 0, untracked |-> 0, admitted |-> 0, evicted |-> 0,
                     oversized |-> 0, overBudget |-> 0, retained |-> 0]
  BY DEF IInit
<1>2. NoCapture \in Captures /\ CaptureFits(NoCapture, {}) /\ BytesOf(NoCapture) = 0
  <2>1. <<>> \in Seq(Samples) /\ Len(<<>>) = 0 /\ OpsOf(<<>>) = {}
    BY DEF OpsOf
  <2>2. SamplesPerShape \in Nat
    BY InsightAssumption
  <2>3. 0 <= 1 /\ 0 <= SamplesPerShape /\ 0 <= 0 /\ 0 + 0 = 0
    BY <2>2
  <2> QED
    BY <2>1, <2>3, NoBytes DEF NoCapture, Captures, CaptureFits, BytesOf
<1>3. NoAggregate \in Aggregates /\ NoAggregate.capture = NoCapture /\ NoAggregate.count = 0 /\ NoAggregate.sum = 0
  BY <1>2 DEF NoAggregate, Aggregates
<1>4. InsightTypes
  BY <1>1, <1>3 DEF InsightTypes, Counters
<1>5. UntrackedIdle /\ \A k \in Groups : CaptureFits(aggregate[k].capture, eligibleOps[k])
  BY <1>1, <1>2, <1>3 DEF UntrackedIdle
<1>6. BytesAccounted
  <2> DEFINE f == [k \in Groups |-> Bytes(aggregate[k].capture.reservoir) + Bytes(aggregate[k].capture.slowest)]
  <2>1. \A k \in Groups : f[k] = 0
    BY <1>1, <1>2, <1>3 DEF BytesOf
  <2>2. SumFunctionOnSet(f, Groups) = 0
    <3> HIDE DEF f
    <3> QED
      BY <2>1, InsightAssumption, SumOfZeros
  <2>3. MaxRetainedBytes \in Nat /\ observed.retained = 0
    BY <1>1, InsightAssumption
  <2>4. 0 <= MaxRetainedBytes
    BY <2>3
  <2> QED
    BY <2>2, <2>3, <2>4 DEF BytesAccounted
<1>7. OperationsAccounted
  <2>1. /\ SumFunctionOnSet([k \in Groups |-> aggregate[k].count], tracked) = 0
        /\ SumFunctionOnSet([k \in Groups |-> aggregate[k].sum], tracked) = 0
    BY <1>1, SumOfNone
  <2>2. /\ observed.ops = 0 /\ observed.ns = 0 /\ observed.overflowOps = 0 /\ observed.overflowNs = 0
        /\ observed.eligible = 0 /\ observed.failed = 0 /\ observed.noQuery = 0 /\ observed.untracked = 0
    BY <1>1
  <2> QED
    BY <2>1, <2>2 DEF OperationsAccounted
<1> QED
  BY <1>4, <1>5, <1>6, <1>7 DEF AccountInv

\* Over the keys with one more among them, the sum grows by what its term did.
LEMMA SumJoined ==
    ASSUME NEW T \in SUBSET Groups, NEW k \in Groups, NEW n \in Nat,
           NEW f \in [Groups -> Nat], NEW g \in [Groups -> Nat],
           k \notin T => f[k] = 0, g[k] = f[k] + n, \A j \in Groups \ {k} : g[j] = f[j]
    PROVE  /\ SumFunctionOnSet(g, T \cup {k}) = SumFunctionOnSet(f, T) + n
           /\ SumFunctionOnSet(f, T) \in Nat
<1>1. IsFiniteSet(T) /\ IsFiniteSet(T \cup {k})
  BY InsightAssumption, FS_Subset, FS_AddElement
<1>2. SumFunctionOnSet(f, T) \in Nat
  BY <1>1, SumType
<1>3. CASE k \in T
  <2>1. T \cup {k} = T
    BY <1>3
  <2>2. SumFunctionOnSet(g, T) = SumFunctionOnSet(f, T) - f[k] + g[k]
    BY <1>1, <1>3, SumChanges
  <2>3. f[k] \in Nat /\ g[k] = f[k] + n
    OBVIOUS
  <2> DEFINE total == SumFunctionOnSet(f, T)
             value == f[k]
  <2>4. SumFunctionOnSet(g, T \cup {k}) = total - value + (value + n) /\ total \in Nat /\ value \in Nat
    BY <1>2, <2>1, <2>2, <2>3
  <2> HIDE DEF total, value
  <2>5. total - value + (value + n) = total + n
    BY <2>4
  <2> QED
    BY <2>4, <2>5 DEF total
<1>4. CASE k \notin T
  <2> DEFINE U == T \cup {k}
  <2>1. U \ {k} = T /\ k \in U
    BY <1>4
  <2>2. SumFunctionOnSet(g, U) = SumFunctionOnSet(g, U \ {k}) + g[k]
    <3> HIDE DEF U
    <3>1. IsFiniteSet(U) /\ \A y \in U : g[y] \in Nat
      BY <1>1 DEF U
    <3> QED
      BY <2>1, <3>1, SumTerm
  <2>3. SumFunctionOnSet(g, T) = SumFunctionOnSet(f, T)
    BY <1>1, <1>4, SumSame
  <2>4. g[k] = n
    BY <1>4
  <2> QED
    BY <2>1, <2>2, <2>3, <2>4, <1>2
<1> QED
  BY <1>3, <1>4

LEMMA AccountStep ==
    ASSUME AccountInv, NEW k \in Groups, NEW ok \in BOOLEAN, NEW ns \in Nat, NEW sc \in Captures,
           Accounts(k, ok, ns, sc)
    PROVE  AccountInv'
<1> DEFINE a == aggregate[k]
           b == [Recorded(a, ok, ns) EXCEPT !.capture = sc]
           nextOps == eligibleOps'[k]
<1>1. /\ tracked \subseteq Groups /\ aggregate \in [Groups -> Aggregates] /\ observed \in Counters
      /\ eligibleOps \in [Groups -> SUBSET Nat] /\ a \in Aggregates
      /\ \A j \in Groups : CaptureFits(aggregate[j].capture, eligibleOps[j])
      /\ UntrackedIdle
  BY DEF AccountInv, InsightTypes
<1>2. /\ a.count \in Nat /\ a.errors \in Nat /\ a.sum \in Nat /\ a.max \in Nat /\ a.capture \in Captures
  BY <1>1 DEF Aggregates
<1>3. b \in Aggregates /\ b.count = a.count + 1 /\ b.sum = a.sum + ns /\ b.capture = sc
  <2> DEFINE n1 == a.count + 1
             n2 == IF ok THEN a.errors ELSE a.errors + 1
             n3 == a.sum + ns
             n4 == IF ns > a.max THEN ns ELSE a.max
  <2>1. n1 \in Nat /\ n2 \in Nat /\ n3 \in Nat /\ n4 \in Nat
    BY <1>2
  <2>2. b = [a EXCEPT !.count = n1, !.errors = n2, !.sum = n3, !.max = n4, !.capture = sc]
    BY <1>1 DEF Recorded, Aggregates
  <2> HIDE DEF a, b, n1, n2, n3, n4
  <2>3. b \in Aggregates /\ b.count = n1 /\ b.sum = n3 /\ b.capture = sc
    BY <1>1, <2>1, <2>2 DEF Aggregates
  <2> QED
    BY <2>3 DEF n1, n3
<1>4. /\ observed' \in Counters
      /\ observed'.ops = observed.ops + 1 /\ observed'.ns = observed.ns + ns
      /\ observed'.eligible + observed'.failed + observed'.noQuery + observed'.untracked
            = observed.eligible + observed.failed + observed.noQuery + observed.untracked + 1
      /\ observed'.retained = observed.retained + BytesOf(sc) - BytesOf(a.capture)
      /\ observed'.retained = observed.retained \/ observed'.retained <= MaxRetainedBytes
      /\ \/ /\ tracked' = tracked \cup {k} /\ aggregate' = [aggregate EXCEPT ![k] = b]
            /\ observed'.overflowOps = observed.overflowOps /\ observed'.overflowNs = observed.overflowNs
         \/ /\ tracked' = tracked /\ aggregate' = aggregate /\ sc = a.capture
            /\ observed'.overflowOps = observed.overflowOps + 1
            /\ observed'.overflowNs = observed.overflowNs + ns
      /\ nextOps \in SUBSET Nat /\ eligibleOps' = [eligibleOps EXCEPT ![k] = nextOps]
      /\ CaptureFits(sc, nextOps)
  BY DEF Accounts
<1> HIDE DEF a, b, nextOps
<1>5. /\ aggregate' \in [Groups -> Aggregates] /\ aggregate'[k].capture = sc
      /\ \A j \in Groups \ {k} : aggregate'[j] = aggregate[j] /\ eligibleOps'[j] = eligibleOps[j]
      /\ eligibleOps' \in [Groups -> SUBSET Nat] /\ tracked' \subseteq Groups /\ aggregate[k] = a
      /\ eligibleOps'[k] = nextOps
  <2>1. aggregate[k] = a /\ eligibleOps'[k] = nextOps
    BY DEF a, nextOps
  <2> QED
    BY <1>1, <1>3, <1>4, <2>1
<1>6. InsightTypes'
  BY <1>4, <1>5 DEF InsightTypes
<1>7. \A j \in Groups : CaptureFits(aggregate'[j].capture, eligibleOps'[j])
  BY <1>1, <1>4, <1>5
<1>8. UntrackedIdle'
  BY <1>1, <1>4, <1>5 DEF UntrackedIdle
<1>9. BytesAccounted'
  <2> DEFINE f == [j \in Groups |-> Bytes(aggregate[j].capture.reservoir) + Bytes(aggregate[j].capture.slowest)]
             g == [j \in Groups |-> Bytes(aggregate'[j].capture.reservoir) + Bytes(aggregate'[j].capture.slowest)]
  <2>1. \A t \in Captures : BytesOf(t) \in Nat
    <3> TAKE t \in Captures
    <3>1. t.reservoir \in Seq(Samples) /\ t.slowest \in Seq(Samples)
      BY DEF Captures
    <3>2. Bytes(t.reservoir) \in Nat /\ Bytes(t.slowest) \in Nat
      BY <3>1, BytesAre
    <3> QED
      BY <3>2 DEF BytesOf
  <2>2. \A j \in Groups : aggregate[j].capture \in Captures
    BY <1>1 DEF Aggregates
  <2>3. /\ \A j \in Groups : f[j] = BytesOf(aggregate[j].capture) /\ g[j] = BytesOf(aggregate'[j].capture)
    BY DEF BytesOf
  <2>4. /\ \A j \in Groups : f[j] \in Nat
        /\ g[k] \in Nat /\ g[k] = BytesOf(sc) /\ f[k] = BytesOf(a.capture)
        /\ \A j \in Groups \ {k} : g[j] = f[j]
    BY <1>5, <2>1, <2>2, <2>3
  <2>5. observed.retained = SumFunctionOnSet(f, Groups) /\ observed.retained <= MaxRetainedBytes
    BY DEF AccountInv, BytesAccounted
  <2>6. BytesAccounted' <=> observed'.retained = SumFunctionOnSet(g, Groups) /\ observed'.retained <= MaxRetainedBytes
    BY DEF BytesAccounted
  <2> HIDE DEF f, g
  <2>7. SumFunctionOnSet(g, Groups) = SumFunctionOnSet(f, Groups) - f[k] + g[k]
    BY <2>4, InsightAssumption, SumChanges
  <2>8. SumFunctionOnSet(f, Groups) \in Nat
    BY <2>4, InsightAssumption, SumType
  <2>9. observed'.retained = SumFunctionOnSet(g, Groups)
    BY <1>4, <2>4, <2>5, <2>7, <2>8
  <2> QED
    BY <1>4, <2>5, <2>6, <2>9
<1>10. OperationsAccounted'
  <2> DEFINE f == [j \in Groups |-> aggregate[j].count]
             g == [j \in Groups |-> aggregate'[j].count]
             p == [j \in Groups |-> aggregate[j].sum]
             q == [j \in Groups |-> aggregate'[j].sum]
  <2>1. \A j \in Groups : /\ aggregate[j].count \in Nat /\ aggregate'[j].count \in Nat
                          /\ aggregate[j].sum \in Nat /\ aggregate'[j].sum \in Nat
    BY <1>1, <1>5 DEF Aggregates
  <2>2. /\ f \in [Groups -> Nat] /\ g \in [Groups -> Nat] /\ p \in [Groups -> Nat] /\ q \in [Groups -> Nat]
        /\ \A j \in Groups \ {k} : g[j] = f[j] /\ q[j] = p[j]
        /\ k \notin tracked => f[k] = 0 /\ p[k] = 0
    BY <1>1, <1>5, <2>1 DEF UntrackedIdle
  <2>3. /\ observed.ops = observed.overflowOps + SumFunctionOnSet(f, tracked)
        /\ observed.ns = observed.overflowNs + SumFunctionOnSet(p, tracked)
        /\ observed.ops = observed.eligible + observed.failed + observed.noQuery + observed.untracked
    BY DEF AccountInv, OperationsAccounted
  <2>4. OperationsAccounted' <=>
          /\ observed'.ops = observed'.overflowOps + SumFunctionOnSet(g, tracked')
          /\ observed'.ns = observed'.overflowNs + SumFunctionOnSet(q, tracked')
          /\ observed'.ops = observed'.eligible + observed'.failed + observed'.noQuery + observed'.untracked
    BY DEF OperationsAccounted
  <2>5. /\ observed.overflowOps \in Nat /\ observed.overflowNs \in Nat /\ observed.eligible \in Nat
        /\ observed.failed \in Nat /\ observed.noQuery \in Nat /\ observed.untracked \in Nat
        /\ observed'.eligible \in Nat /\ observed'.failed \in Nat /\ observed'.noQuery \in Nat
        /\ observed'.untracked \in Nat
    BY <1>1, <1>4 DEF Counters
  <2>6. observed'.ops = observed'.eligible + observed'.failed + observed'.noQuery + observed'.untracked
    BY <1>4, <2>3, <2>5
  <2>7. CASE tracked' = tracked \cup {k} /\ aggregate' = [aggregate EXCEPT ![k] = b]
             /\ observed'.overflowOps = observed.overflowOps /\ observed'.overflowNs = observed.overflowNs
    <3>1. aggregate'[k] = b
      BY <1>1, <2>7
    <3>2. g[k] = f[k] + 1 /\ q[k] = p[k] + ns
      BY <1>3, <1>5, <3>1
    <3> HIDE DEF f, g, p, q
    <3>5. tracked \in SUBSET Groups /\ 1 \in Nat
      BY <1>1
    <3>6. /\ f \in [Groups -> Nat] /\ g \in [Groups -> Nat]
          /\ k \notin tracked => f[k] = 0
          /\ \A j \in Groups \ {k} : g[j] = f[j]
      BY <2>2
    <3>7. /\ p \in [Groups -> Nat] /\ q \in [Groups -> Nat]
          /\ k \notin tracked => p[k] = 0
          /\ \A j \in Groups \ {k} : q[j] = p[j]
      BY <2>2
    <3>3. /\ SumFunctionOnSet(g, tracked \cup {k}) = SumFunctionOnSet(f, tracked) + 1
          /\ SumFunctionOnSet(f, tracked) \in Nat
      BY <3>2, <3>5, <3>6, SumJoined, Zenon
    <3>4. /\ SumFunctionOnSet(q, tracked \cup {k}) = SumFunctionOnSet(p, tracked) + ns
          /\ SumFunctionOnSet(p, tracked) \in Nat
      BY <3>2, <3>5, <3>7, SumJoined, Zenon
    <3> QED
      BY <1>4, <2>3, <2>4, <2>5, <2>6, <2>7, <3>3, <3>4
  <2>8. CASE tracked' = tracked /\ aggregate' = aggregate
             /\ observed'.overflowOps = observed.overflowOps + 1
             /\ observed'.overflowNs = observed.overflowNs + ns
    <3>1. g = f /\ q = p
      BY <2>8
    <3> HIDE DEF f, g, p, q
    <3>2. SumFunctionOnSet(f, tracked) \in Nat /\ SumFunctionOnSet(p, tracked) \in Nat
      <4>1. IsFiniteSet(tracked)
        BY <1>1, InsightAssumption, FS_Subset
      <4> QED
        BY <1>1, <2>2, <4>1, SumType
    <3> QED
      BY <1>4, <2>3, <2>4, <2>5, <2>6, <2>8, <3>1, <3>2
  <2> QED
    BY <1>4, <2>7, <2>8
<1> QED
  BY <1>6, <1>7, <1>8, <1>9, <1>10 DEF AccountInv

-----------------------------------------------------------------------------
LEMMA RetainedOps ==
    ASSUME NEW sc \in Captures
    PROVE  /\ OpsOf(sc.reservoir) \subseteq {s.op : s \in RetainedOf(sc)}
           /\ {s.op : s \in RetainedOf(sc)} \subseteq OpsOf(sc.reservoir) \cup OpsOf(sc.slowest)
<1>1. /\ Range(sc.reservoir) = {sc.reservoir[i] : i \in DOMAIN sc.reservoir}
      /\ Range(sc.slowest) = {sc.slowest[i] : i \in DOMAIN sc.slowest}
  BY DEF Range
<1> DEFINE r == Range(sc.reservoir)
           q == Range(sc.slowest)
<1>2. OpsOf(sc.reservoir) = {s.op : s \in r} /\ OpsOf(sc.slowest) = {s.op : s \in q}
  BY <1>1 DEF OpsOf
<1>3. r \subseteq RetainedOf(sc) /\ RetainedOf(sc) \subseteq r \cup q
  BY DEF RetainedOf
<1> HIDE DEF r, q
<1> QED
  BY <1>2, <1>3

\* A reservoir that is no shorter than the operations of its key holds all.
LEMMA AllMeansAll == ASSUME AccountInv PROVE AllOperationsMeansAll
<1> SUFFICES ASSUME NEW id \in ShapeIds, SampleScope(id) = "all_operations"
             PROVE  {s.op : s \in SamplesOf(id)} = UNION {eligibleOps[k] : k \in KeysOf(id)}
  BY DEF AllOperationsMeansAll
<1> DEFINE keys == KeysOf(id)
           f == [k \in Groups |-> Len(aggregate[k].capture.reservoir)]
           g == [k \in Groups |-> aggregate[k].capture.eligible]
<1>1. keys \subseteq Groups /\ IsFiniteSet(keys)
  <2>1. keys \subseteq Groups
    BY DEF KeysOf, AccountInv, InsightTypes
  <2> QED
    BY <2>1, InsightAssumption, FS_Subset
<1>2. \A k \in keys : /\ aggregate[k].capture \in Captures
                      /\ CaptureFits(aggregate[k].capture, eligibleOps[k])
  <2>1. \A k \in Groups : aggregate[k] \in Aggregates
    BY DEF AccountInv, InsightTypes
  <2> QED
    BY <1>1, <2>1 DEF AccountInv, Aggregates
<1>3. /\ \A k \in keys : ~Dropped(aggregate[k].capture)
      /\ SumFunctionOnSet(g, keys) <= SumFunctionOnSet(f, keys)
  <2> DEFINE empty == SamplesOf(id) = {}
             dropped == \E k \in keys : Dropped(aggregate[k].capture)
             all == SumFunctionOnSet(g, keys) <= SumFunctionOnSet(f, keys)
  <2>1. SampleScope(id) = IF empty THEN "none" ELSE IF dropped THEN "reservoir_with_drops"
                          ELSE IF all THEN "all_operations" ELSE "uniform_reservoir"
    BY Zenon DEF SampleScope
  <2>2. ~dropped /\ all
    <3> HIDE DEF empty, dropped, all
    <3> QED
      BY <2>1
  <2> QED
    BY <2>2
<1>4. \A k \in keys : f[k] \in Nat /\ g[k] \in Nat /\ f[k] <= g[k]
  <2> TAKE k \in keys
  <2> DEFINE sc == aggregate[k].capture
  <2>1. sc.eligible \in Nat /\ sc.reservoir \in Seq(Samples) /\ Len(sc.reservoir) <= sc.eligible
    BY <1>2 DEF Captures, CaptureFits
  <2>2. f[k] = Len(sc.reservoir) /\ g[k] = sc.eligible
    BY <1>1
  <2> HIDE DEF sc, f, g
  <2> QED
    BY <2>1, <2>2, LenProperties
<1>5. \A k \in keys : g[k] = f[k]
  <2> HIDE DEF f, g, keys
  <2> QED
    BY <1>1, <1>3, <1>4, SumForces
<1>6. \A k \in keys : {s.op : s \in RetainedOf(aggregate[k].capture)} = eligibleOps[k]
  <2> TAKE k \in keys
  <2> DEFINE sc == aggregate[k].capture
  <2>1. sc \in Captures /\ CaptureFits(sc, eligibleOps[k]) /\ ~Dropped(sc)
    BY <1>2, <1>3
  <2>2. sc.eligible = Len(sc.reservoir)
    BY <1>1, <1>5
  <2> HIDE DEF sc
  <2>3. OpsOf(sc.reservoir) = eligibleOps[k] /\ OpsOf(sc.slowest) \subseteq eligibleOps[k]
    BY <2>1, <2>2 DEF CaptureFits
  <2>4. {s.op : s \in RetainedOf(sc)} = eligibleOps[k]
    BY <2>1, <2>3, RetainedOps
  <2> QED
    BY <2>4 DEF sc
<1> DEFINE ret(k) == RetainedOf(aggregate[k].capture)
<1>7. SamplesOf(id) = UNION {ret(k) : k \in keys}
  BY DEF SamplesOf
<1>8. \A k \in keys : {s.op : s \in ret(k)} = eligibleOps[k]
  BY <1>6
<1> HIDE DEF ret, keys
<1>9. {s.op : s \in UNION {ret(k) : k \in keys}} \subseteq UNION {eligibleOps[k] : k \in keys}
  <2> SUFFICES ASSUME NEW k \in keys, NEW s \in ret(k) PROVE s.op \in eligibleOps[k]
    OBVIOUS
  <2>1. s.op \in {t.op : t \in ret(k)}
    OBVIOUS
  <2> QED
    BY <1>8, <2>1
<1>10. UNION {eligibleOps[k] : k \in keys} \subseteq {s.op : s \in UNION {ret(k) : k \in keys}}
  <2> SUFFICES ASSUME NEW k \in keys, NEW op \in eligibleOps[k]
               PROVE  \E s \in UNION {ret(j) : j \in keys} : op = s.op
    OBVIOUS
  <2>1. PICK s \in ret(k) : op = s.op
    BY <1>8
  <2>2. s \in UNION {ret(j) : j \in keys}
    OBVIOUS
  <2> QED
    BY <2>1, <2>2
<1> QED
  BY <1>7, <1>9, <1>10 DEF keys

InsightInv == AccountInv /\ RingInv /\ (cachedReport # NoReport => cachedReport = FreshReport)

LEMMA InsightStep == ASSUME InsightInv, [INext]_insightVars PROVE InsightInv'
<1>1. ASSUME NEW k \in Groups, NEW ok \in BOOLEAN, NEW query \in QueryBytes, NEW ns \in Durations,
             NEW slot \in 0..SamplesPerShape, RecordOperationEvent(k, ok, query, ns, slot)
      PROVE  InsightInv'
  <2>1. AccountInv /\ InsightTypes /\ CaptureFits(aggregate[k].capture, eligibleOps[k]) /\ ns \in Nat
    BY InsightAssumption DEF InsightInv, AccountInv
  <2>2. PICK sc \in Captures : Accounts(k, ok, ns, sc)
    BY <1>1, <2>1, OperationAccounts
  <2>3. AccountInv'
    BY <2>1, <2>2, AccountStep
  <2>4. RingAppend(observed.ops + 1) /\ cachedReport' = NoReport
    BY <1>1, Zenon DEF RecordOperationEvent
  <2>5. observed.ops + 1 \in Nat
    <3>1. observed.ops \in Nat
      BY <2>1 DEF InsightTypes, Counters
    <3> QED
      BY <3>1
  <2>6. RingInv'
    BY <2>4, <2>5, RingStep DEF InsightInv
  <2> QED
    BY <2>3, <2>4, <2>6 DEF InsightInv
<1>2. CASE GetFinalInsights
  <2>1. /\ cachedReport' = FreshReport
        /\ UNCHANGED <<tracked, aggregate, observed, ring, ringWrite, ringCount, sampledIn,
                       eligibleOps, sampledOps>>
    BY <1>2 DEF GetFinalInsights
  <2>2. FreshReport' = FreshReport
    BY <2>1 DEF FreshReport, Events
  <2>3. AccountInv' <=> AccountInv
    BY <2>1 DEF AccountInv, InsightTypes, UntrackedIdle, BytesAccounted, OperationsAccounted
  <2>4. RingInv' <=> RingInv
    BY <2>1 DEF RingInv, RingTypes, Back
  <2> QED
    BY <2>1, <2>2, <2>3, <2>4 DEF InsightInv
<1>3. CASE UNCHANGED insightVars
  <2>1. UNCHANGED <<tracked, aggregate, observed, ring, ringWrite, ringCount, sampledIn,
                    cachedReport, eligibleOps, sampledOps>>
    BY <1>3 DEF insightVars
  <2>2. FreshReport' = FreshReport
    BY <2>1 DEF FreshReport, Events
  <2>3. AccountInv' <=> AccountInv
    BY <2>1 DEF AccountInv, InsightTypes, UntrackedIdle, BytesAccounted, OperationsAccounted
  <2>4. RingInv' <=> RingInv
    BY <2>1 DEF RingInv, RingTypes, Back
  <2> QED
    BY <2>1, <2>2, <2>3, <2>4 DEF InsightInv
<1> QED
  BY <1>1, <1>2, <1>3 DEF INext

\* The samples, the counters and the report of the insights account for every
\* operation of the run (RecordOperationEvent and captureState.observe,
\* GetFinalInsights): every operation is counted in its group or as one of
\* none, the retained bytes are those of the samples kept and never above the
\* limit, a shape said to be sampled in full has all its operations, over all
\* its databases, and the report and its events are those of now.
THEOREM AccountTheorem == ISpec => []InsightsAccount
<1>1. IInit => InsightInv
  <2>1. IInit => cachedReport = NoReport
    BY DEF IInit
  <2> QED
    BY <2>1, AccountInitial, RingInitial DEF InsightInv
<1>2. InsightInv /\ [INext]_insightVars => InsightInv'
  BY InsightStep
<1>3. InsightInv => InsightsAccount
  <2> SUFFICES ASSUME InsightInv PROVE InsightsAccount
    OBVIOUS
  <2>1. AllOperationsMeansAll /\ BytesAccounted /\ OperationsAccounted
    BY AllMeansAll DEF InsightInv, AccountInv
  <2>2. ReportIsCurrent
    BY RingInOrder DEF InsightInv, ReportIsCurrent
  <2> QED
    BY <2>1, <2>2 DEF InsightsAccount
<1> QED
  BY <1>1, <1>2, <1>3, PTL DEF ISpec

-----------------------------------------------------------------------------
(***************************************************************************)
(* The outcomes of a replay, for every number of workers, outcomes and    *)
(* iterations and any room in the channel: whatever part of a write that   *)
(* fails is in the file, its outcomes are in order, a trailer counts them, *)
(* and one that says complete has all of them above it.                    *)
(*                                                                         *)
(* The argument.  The file, the buffer and the channel put together are    *)
(* one sequence, the flow: taking a line or writing the buffer out moves a *)
(* boundary and leaves the flow alone, and a line only ever joins at its   *)
(* end.  As long as no write has failed, the flow and the lines that       *)
(* workers still hold are all outcomes there are (FlowInv).  Once one has  *)
(* failed, the file is a part of the flow and perhaps half a line, and     *)
(* nothing is added (ReadInv).                                             *)
(***************************************************************************)

OutcomeLine == [type : {"outcome"}, worker : OutcomeWorkers, seq : Nat]
TrailerLines ==
    [type : {"trailer"}, status : {"failed", "complete", "stopped"},
     reason : {"", "write_error"}, ops : Nat, waits : Nat]
FileLine == {Header, Torn} \cup OutcomeLine \cup TrailerLines

Flow == (outcomeFile \o buffer) \o channel

Types ==
    /\ iteration \in 1..(OutcomeIterations + 2)
    /\ counted \in [OutcomeWorkers -> Nat]
    /\ waiters \subseteq OutcomeLine
    /\ channel \in Seq(OutcomeLine) /\ buffer \in Seq(OutcomeLine)
    /\ outcomeFile \in Seq(FileLine) /\ Len(outcomeFile) >= 1
    /\ sticky \in BOOLEAN /\ broke \in BOOLEAN
    /\ cause \in {"", "write_error"} /\ writer \in {"take", "fail", "done"}
    /\ ops \in Nat /\ waits \in Nat

\* Where the goroutine and the iterations are when Close comes.
StageInv ==
    /\ ~Running => waiters = {}
    /\ writer = "done" => ~Running /\ channel = << >>
    /\ outcomeResult # Open => writer = "done"
    /\ outcomeResult = Open => sticky = broke
    /\ IF broke THEN writer = "fail" \/ cause = "write_error" ELSE cause = "" /\ writer # "fail"
    /\ iteration = OutcomeIterations + 1 =>
          \A w \in OutcomeWorkers : counted[w] = OutcomeIterations * OutcomesPerWorker

\* Lines 2 to k of s are the outcomes 1, 2, 3, ... of their workers.
Sound(s, k) ==
    \A i \in 2..k :
        /\ s[i] \in OutcomeLine /\ s[i].seq >= 1
        /\ \A j \in 2..(i-1) : s[j].worker = s[i].worker => s[j].seq < s[i].seq
        /\ \A m \in 1..(s[i].seq - 1) :
              \E j \in 2..(i-1) : s[j].worker = s[i].worker /\ s[j].seq = m

\* Lines 2 to k of s are every outcome that count says, but those that wait.
Whole(s, k, count, waiting) ==
    /\ \A i \in 2..k : s[i].seq <= count[s[i].worker]
    /\ \A i \in 2..k : \A l \in waiting : l.worker = s[i].worker => s[i].seq < l.seq
    /\ \A w \in OutcomeWorkers : \A m \in 1..count[w] :
          \/ \E i \in 2..k : s[i].worker = w /\ s[i].seq = m
          \/ Line(w, m) \in waiting

FlowInv ==
    ~broke /\ outcomeResult = Open =>
        /\ Sound(Flow, Len(Flow)) /\ Whole(Flow, Len(Flow), counted, waiters)
        /\ ops = Len(outcomeFile) + Len(buffer) - 1
        /\ \A l \in waiters : l.seq = counted[l.worker] /\ l.seq >= 1

\* k lines of the file f are good, and half a line may follow.
Broken(f, k) ==
    /\ Sound(f, k)
    /\ \/ Len(f) = k
       \/ Len(f) = k + 1 /\ f[k + 1].type = "torn"

\* k good lines and a trailer that describes them.
Sealed(f, k, count, waiting) ==
    /\ Sound(f, k) /\ Len(f) = k + 1
    /\ f[k + 1].type = "trailer" /\ f[k + 1].ops = k - 1
    /\ f[k + 1].status = "complete" =>
          /\ waiting = {} /\ Whole(f, k, count, {})
          /\ \A w \in OutcomeWorkers : count[w] = OutcomeIterations * OutcomesPerWorker

Failed == outcomeResult.status = "failed" /\ outcomeResult.reason # ""

ReadInv ==
    /\ broke /\ outcomeResult = Open =>
          \E k \in 1..Len(outcomeFile) : Broken(outcomeFile, k) /\ ops >= k - 1
    /\ outcomeResult # Open =>
          \/ Failed /\ \E k \in 1..Len(outcomeFile) : Broken(outcomeFile, k)
          \/ \E k \in 1..Len(outcomeFile) :
                /\ Sealed(outcomeFile, k, counted, waiters)
                /\ Failed \/ /\ outcomeResult.status = outcomeFile[k + 1].status
                             /\ outcomeResult.status # "failed"

OutcomeInv == Types /\ StageInv /\ FlowInv /\ ReadInv

-----------------------------------------------------------------------------
(* The flow *)

\* s is x, y and z one after the other.
Parts(s, x, y, z) ==
    /\ Len(x) \in Nat /\ Len(y) \in Nat /\ Len(z) \in Nat
    /\ Len(s) = Len(x) + Len(y) + Len(z)
    /\ \A i \in 1..Len(x) : s[i] = x[i]
    /\ \A i \in 1..Len(y) : s[Len(x) + i] = y[i]
    /\ \A i \in 1..Len(z) : s[Len(x) + Len(y) + i] = z[i]

LEMMA Joined ==
  ASSUME NEW T, NEW x \in Seq(T), NEW y \in Seq(T)
  PROVE  /\ Len(x) \in Nat /\ Len(y) \in Nat
         /\ x \o y \in Seq(T) /\ Len(x \o y) = Len(x) + Len(y)
         /\ \A i \in 1..Len(x) : (x \o y)[i] = x[i]
         /\ \A i \in 1..Len(y) : (x \o y)[Len(x) + i] = y[i]
  OBVIOUS

LEMMA Appended ==
  ASSUME NEW T, NEW x \in Seq(T), NEW e \in T
  PROVE  /\ Len(x) \in Nat /\ Append(x, e) \in Seq(T) /\ Len(Append(x, e)) = Len(x) + 1
         /\ \A i \in 1..Len(x) : Append(x, e)[i] = x[i]
         /\ Append(x, e)[Len(x) + 1] = e
  OBVIOUS

LEMMA Taken ==
  ASSUME NEW T, NEW x \in Seq(T), x # << >>
  PROVE  /\ Len(x) \in Nat /\ Len(x) >= 1 /\ Head(x) = x[1] /\ Head(x) \in T
         /\ Tail(x) \in Seq(T) /\ Len(Tail(x)) = Len(x) - 1
         /\ \A i \in 1..(Len(x) - 1) : Tail(x)[i] = x[i + 1]
  OBVIOUS

LEMMA Widened ==
  ASSUME NEW S, NEW T, S \subseteq T, NEW x \in Seq(S)
  PROVE  x \in Seq(T)
  OBVIOUS

LEMMA PartsOf ==
  ASSUME NEW T, NEW x \in Seq(T), NEW y \in Seq(T), NEW z \in Seq(T)
  PROVE  Parts((x \o y) \o z, x, y, z)
<1> DEFINE u == x \o y
<1>0. u \in Seq(T)
  BY Joined
<1>1. /\ Len(x) \in Nat /\ Len(y) \in Nat /\ Len(z) \in Nat
      /\ Len(u) = Len(x) + Len(y)
      /\ \A i \in 1..Len(x) : u[i] = x[i]
      /\ \A i \in 1..Len(y) : u[Len(x) + i] = y[i]
  BY Joined
<1> HIDE DEF u
<1>2. /\ Len(u \o z) = Len(u) + Len(z)
      /\ \A i \in 1..Len(u) : (u \o z)[i] = u[i]
      /\ \A i \in 1..Len(z) : (u \o z)[Len(u) + i] = z[i]
  BY <1>0, Joined
<1>3. \A i \in 1..Len(x) : (u \o z)[i] = x[i]
  BY <1>1, <1>2
<1>4. \A i \in 1..Len(y) : (u \o z)[Len(x) + i] = y[i]
  <2> SUFFICES ASSUME NEW i \in 1..Len(y) PROVE (u \o z)[Len(x) + i] = y[i]
    OBVIOUS
  <2>1. Len(x) + i \in 1..Len(u)
    BY <1>1
  <2> QED
    BY <1>1, <1>2, <2>1
<1> QED
  BY <1>1, <1>2, <1>3, <1>4 DEF Parts, u

\* The flow is made of the file, the buffer and the channel.
LEMMA FlowParts ==
  ASSUME Types
  PROVE  Parts(Flow, outcomeFile, buffer, channel)
<1>1. OutcomeLine \subseteq FileLine
  BY DEF FileLine
<1>2. buffer \in Seq(OutcomeLine) /\ channel \in Seq(OutcomeLine) /\ outcomeFile \in Seq(FileLine)
  BY DEF Types
<1>3. buffer \in Seq(FileLine) /\ channel \in Seq(FileLine)
  BY <1>1, <1>2, Widened
<1> QED
  BY <1>2, <1>3, PartsOf DEF Flow

LEMMA FlowPartsNext ==
  ASSUME Types'
  PROVE  Parts(Flow', outcomeFile', buffer', channel')
<1>1. OutcomeLine \subseteq FileLine
  BY DEF FileLine
<1>2. buffer' \in Seq(OutcomeLine) /\ channel' \in Seq(OutcomeLine) /\ outcomeFile' \in Seq(FileLine)
  BY DEF Types
<1>3. buffer' \in Seq(FileLine) /\ channel' \in Seq(FileLine)
  BY <1>1, <1>2, Widened
<1> QED
  BY <1>2, <1>3, PartsOf DEF Flow

LEMMA FlowLength ==
  ASSUME Types
  PROVE  Len(Flow) \in Nat /\ Len(Flow) >= 1
<1>1. Len(outcomeFile) >= 1
  BY DEF Types
<1>2. /\ Len(outcomeFile) \in Nat /\ Len(buffer) \in Nat /\ Len(channel) \in Nat
      /\ Len(Flow) = Len(outcomeFile) + Len(buffer) + Len(channel)
  BY FlowParts DEF Parts
<1> QED
  BY <1>1, <1>2

\* A line joins the flow at its end.
LEMMA FlowJoins ==
  ASSUME Types, Types', NEW l \in OutcomeLine, channel' = Append(channel, l),
         UNCHANGED <<outcomeFile, buffer>>
  PROVE  /\ Len(Flow) \in Nat /\ Len(Flow) >= 1 /\ Len(Flow') = Len(Flow) + 1
         /\ \A i \in 1..Len(Flow) : Flow'[i] = Flow[i]
         /\ Flow'[Len(Flow) + 1] = l
<1> DEFINE a == Len(outcomeFile)
           b == Len(buffer)
           c == Len(channel)
<1>1. Len(channel') = c + 1 /\ channel'[c + 1] = l /\ \A i \in 1..c : channel'[i] = channel[i]
  <2>1. channel \in Seq(OutcomeLine)
    BY DEF Types
  <2> QED
    BY <2>1, Appended
<1>2. /\ a \in Nat /\ a >= 1 /\ b \in Nat /\ c \in Nat
      /\ Len(Flow) = a + b + c
      /\ \A i \in 1..a : Flow[i] = outcomeFile[i]
      /\ \A i \in 1..b : Flow[a + i] = buffer[i]
      /\ \A i \in 1..c : Flow[a + b + i] = channel[i]
  BY FlowParts DEF Parts, Types
<1>3. /\ Len(Flow') = a + b + c + 1
      /\ \A i \in 1..a : Flow'[i] = outcomeFile[i]
      /\ \A i \in 1..b : Flow'[a + i] = buffer[i]
      /\ \A i \in 1..(c + 1) : Flow'[a + b + i] = channel'[i]
  <2>1. outcomeFile' = outcomeFile /\ buffer' = buffer
    OBVIOUS
  <2>2. /\ Len(Flow') = a + b + Len(channel')
        /\ \A i \in 1..a : Flow'[i] = outcomeFile[i]
        /\ \A i \in 1..b : Flow'[a + i] = buffer[i]
        /\ \A i \in 1..Len(channel') : Flow'[a + b + i] = channel'[i]
    BY <2>1, FlowPartsNext DEF Parts
  <2> HIDE DEF a, b, c
  <2>3. Len(channel') = c + 1 /\ a \in Nat /\ b \in Nat /\ c \in Nat
    BY <1>1, <1>2
  <2>4. a + b + (c + 1) = a + b + c + 1
    BY <2>3
  <2> QED
    BY <2>2, <2>3, <2>4
<1> HIDE DEF a, b, c
<1>4. ASSUME NEW i \in 1..Len(Flow) PROVE Flow'[i] = Flow[i]
  <2>1. CASE i \in 1..a
    BY <1>2, <1>3, <2>1
  <2>2. CASE i > a /\ i <= a + b
    <3>1. i - a \in 1..b /\ i = a + (i - a)
      BY <1>2, <2>2
    <3>2. PICK j \in 1..b : i = a + j
      BY <3>1
    <3>3. Flow[a + j] = buffer[j] /\ Flow'[a + j] = buffer[j]
      BY <1>2, <1>3
    <3> QED
      BY <3>2, <3>3
  <2>3. CASE i > a + b
    <3>1. i - a - b \in 1..c /\ i = a + b + (i - a - b)
      BY <1>2, <2>3
    <3>2. PICK j \in 1..c : i = a + b + j
      BY <3>1
    <3>3. j \in 1..(c + 1)
      BY <1>2
    <3>4. Flow[a + b + j] = channel[j] /\ Flow'[a + b + j] = channel[j]
      BY <1>1, <1>2, <1>3, <3>3
    <3> QED
      BY <3>2, <3>4
  <2> QED
    BY <1>2, <2>1, <2>2, <2>3
<1>5. Flow'[Len(Flow) + 1] = l
  <2>1. c + 1 \in 1..(c + 1) /\ a + b + (c + 1) = Len(Flow) + 1
    BY <1>2
  <2> QED
    BY <1>1, <1>3, <2>1
<1> QED
  BY <1>2, <1>3, <1>4, <1>5

\* Taking a line, with or without writing the buffer out, moves the boundaries.
LEMMA FlowStays ==
  ASSUME Types, Types', channel # << >>, channel' = Tail(channel),
         \/ buffer' = Append(buffer, Head(channel)) /\ UNCHANGED outcomeFile
         \/ buffer' = << >> /\ outcomeFile' = outcomeFile \o Append(buffer, Head(channel))
  PROVE  /\ Len(Flow) \in Nat /\ Len(Flow') = Len(Flow)
         /\ \A i \in 1..Len(Flow) : Flow'[i] = Flow[i]
         /\ Len(outcomeFile') + Len(buffer') = Len(outcomeFile) + Len(buffer) + 1
<1> DEFINE a == Len(outcomeFile)
           b == Len(buffer)
           c == Len(channel)
           h == Head(channel)
           full == Append(buffer, h)
<1>1. /\ a \in Nat /\ b \in Nat /\ c \in Nat
      /\ Len(Flow) = a + b + c
      /\ \A i \in 1..a : Flow[i] = outcomeFile[i]
      /\ \A i \in 1..b : Flow[a + i] = buffer[i]
      /\ \A i \in 1..c : Flow[a + b + i] = channel[i]
  BY FlowParts DEF Parts
<1>2. /\ c >= 1 /\ h = channel[1] /\ h \in OutcomeLine /\ Len(channel') = c - 1
      /\ \A i \in 1..(c - 1) : channel'[i] = channel[i + 1]
  <2>1. channel \in Seq(OutcomeLine)
    BY DEF Types
  <2> QED
    BY <2>1, Taken
<1>3. /\ full \in Seq(FileLine) /\ Len(full) = b + 1 /\ full[b + 1] = h
      /\ \A i \in 1..b : full[i] = buffer[i]
  <2>1. OutcomeLine \subseteq FileLine /\ buffer \in Seq(OutcomeLine)
    BY DEF Types, FileLine
  <2>2. buffer \in Seq(FileLine) /\ h \in FileLine
    BY <1>2, <2>1, Widened
  <2> HIDE DEF h
  <2> QED
    BY <2>2, Appended
<1>4. /\ Len(Flow') = Len(outcomeFile') + Len(buffer') + Len(channel')
      /\ \A i \in 1..Len(outcomeFile') : Flow'[i] = outcomeFile'[i]
      /\ \A i \in 1..Len(buffer') : Flow'[Len(outcomeFile') + i] = buffer'[i]
      /\ \A i \in 1..Len(channel') :
            Flow'[Len(outcomeFile') + Len(buffer') + i] = channel'[i]
  BY FlowPartsNext DEF Parts
<1> HIDE DEF a, b, c, h, full
<1>5. /\ Len(outcomeFile') + Len(buffer') = a + b + 1
      /\ \A i \in 1..a : Flow'[i] = outcomeFile[i]
      /\ \A i \in 1..(b + 1) : Flow'[a + i] = full[i]
  <2>1. CASE buffer' = full /\ outcomeFile' = outcomeFile
    <3>1. Len(outcomeFile') = a /\ Len(buffer') = b + 1
      BY <1>3, <2>1 DEF a
    <3> QED
      BY <1>1, <1>4, <2>1, <3>1
  <2>2. CASE buffer' = << >> /\ outcomeFile' = outcomeFile \o full
    <3>1. outcomeFile \in Seq(FileLine)
      BY DEF Types
    <3>2. /\ Len(outcomeFile') = a + (b + 1)
          /\ \A i \in 1..a : outcomeFile'[i] = outcomeFile[i]
          /\ \A i \in 1..(b + 1) : outcomeFile'[a + i] = full[i]
      <4>1. full \in Seq(FileLine) /\ Len(full) = b + 1
        BY <1>3
      <4>2. /\ Len(outcomeFile \o full) = Len(outcomeFile) + Len(full)
            /\ \A i \in 1..Len(outcomeFile) : (outcomeFile \o full)[i] = outcomeFile[i]
            /\ \A i \in 1..Len(full) : (outcomeFile \o full)[Len(outcomeFile) + i] = full[i]
        <5>1. full \in Seq(FileLine)
          BY <4>1
        <5> QED
          BY <3>1, <5>1, Joined
      <4> QED
        BY <2>2, <4>1, <4>2 DEF a
    <3>3. Len(buffer') = 0
      BY <2>2
    <3>4. \A i \in 1..(b + 1) : a + i \in 1..Len(outcomeFile')
      BY <1>1, <3>2
    <3>5. \A i \in 1..a : i \in 1..Len(outcomeFile')
      BY <1>1, <3>2
    <3> QED
      BY <1>1, <1>4, <3>2, <3>3, <3>4, <3>5
  <2> QED
    BY <2>1, <2>2 DEF full, h
<1>6. \A i \in 1..(c - 1) : Flow'[a + b + 1 + i] = channel[i + 1]
  BY <1>2, <1>4, <1>5
<1>7. ASSUME NEW i \in 1..Len(Flow) PROVE Flow'[i] = Flow[i]
  <2>1. CASE i \in 1..a
    BY <1>1, <1>5, <2>1
  <2>2. CASE i > a /\ i <= a + b
    <3>1. i - a \in 1..b /\ i = a + (i - a)
      BY <1>1, <2>2
    <3>2. PICK j \in 1..b : i = a + j
      BY <3>1
    <3>3. j \in 1..(b + 1)
      BY <1>1
    <3>4. Flow[a + j] = buffer[j] /\ Flow'[a + j] = buffer[j]
      BY <1>1, <1>3, <1>5, <3>3
    <3> QED
      BY <3>2, <3>4
  <2>3. CASE i = a + b + 1
    <3>1. b + 1 \in 1..(b + 1) /\ a + (b + 1) = i /\ 1 \in 1..c /\ a + b + 1 = i
      BY <1>1, <1>2, <2>3
    <3> QED
      BY <1>1, <1>2, <1>3, <1>5, <3>1
  <2>4. CASE i > a + b + 1
    <3>1. /\ i - a - b - 1 \in 1..(c - 1) /\ a + b + 1 + (i - a - b - 1) = i
          /\ i - a - b \in 1..c /\ a + b + (i - a - b) = i
          /\ (i - a - b - 1) + 1 = i - a - b
      BY <1>1, <1>2, <2>4
    <3>2. Flow'[i] = channel[i - a - b]
      <4>1. Flow'[a + b + 1 + (i - a - b - 1)] = channel[(i - a - b - 1) + 1]
        BY <1>6, <3>1
      <4> QED
        BY <3>1, <4>1, Zenon
    <3>3. Flow[i] = channel[i - a - b]
      <4>1. Flow[a + b + (i - a - b)] = channel[i - a - b]
        BY <1>1, <3>1
      <4> QED
        BY <3>1, <4>1, Zenon
    <3> QED
      BY <3>2, <3>3
  <2>5. i \in 1..a \/ (i > a /\ i <= a + b) \/ i = a + b + 1 \/ i > a + b + 1
    <3>1. a \in Nat /\ b \in Nat /\ i \in Int /\ 1 <= i
      BY <1>1
    <3> QED
      BY <3>1
  <2> QED
    BY <2>1, <2>2, <2>3, <2>4, <2>5
<1>8. Len(Flow') = Len(Flow)
  <2>1. Len(Flow') = (a + b + 1) + (c - 1)
    BY <1>2, <1>4, <1>5
  <2> QED
    BY <1>1, <2>1
<1> QED
  BY <1>1, <1>5, <1>7, <1>8 DEF a, b

\* Part of a sound sequence is sound.
LEMMA SoundPart ==
  ASSUME NEW s, NEW t, NEW n \in Nat, NEW k \in Nat, k <= n, Sound(s, n),
         \A i \in 2..k : t[i] = s[i]
  PROVE  Sound(t, k)
<1> SUFFICES ASSUME NEW i \in 2..k
             PROVE  /\ t[i] \in OutcomeLine /\ t[i].seq >= 1
                    /\ \A j \in 2..(i-1) : t[j].worker = t[i].worker => t[j].seq < t[i].seq
                    /\ \A m \in 1..(t[i].seq - 1) :
                          \E j \in 2..(i-1) : t[j].worker = t[i].worker /\ t[j].seq = m
  BY DEF Sound
<1>1. i \in 2..n /\ t[i] = s[i] /\ \A j \in 2..(i-1) : t[j] = s[j]
  OBVIOUS
<1> QED
  BY <1>1 DEF Sound

\* The next outcome of a worker keeps it sound.
LEMMA SoundGrows ==
  ASSUME NEW s, NEW t, NEW n \in Nat, n >= 1, Sound(s, n),
         \A i \in 2..n : t[i] = s[i],
         t[n + 1] \in OutcomeLine, t[n + 1].seq >= 1,
         \A i \in 2..n : s[i].worker = t[n + 1].worker => s[i].seq < t[n + 1].seq,
         \A m \in 1..(t[n + 1].seq - 1) :
            \E i \in 2..n : s[i].worker = t[n + 1].worker /\ s[i].seq = m
  PROVE  Sound(t, n + 1)
<1> SUFFICES ASSUME NEW i \in 2..(n + 1)
             PROVE  /\ t[i] \in OutcomeLine /\ t[i].seq >= 1
                    /\ \A j \in 2..(i-1) : t[j].worker = t[i].worker => t[j].seq < t[i].seq
                    /\ \A m \in 1..(t[i].seq - 1) :
                          \E j \in 2..(i-1) : t[j].worker = t[i].worker /\ t[j].seq = m
  BY DEF Sound
<1>1. CASE i \in 2..n
  <2>1. Sound(t, n)
    BY SoundPart
  <2> QED
    BY <1>1, <2>1 DEF Sound
<1>2. CASE i = n + 1
  <2>1. i - 1 = n /\ \A j \in 2..(i-1) : t[j] = s[j]
    BY <1>2
  <2> QED
    BY <1>2, <2>1
<1> QED
  BY <1>1, <1>2

-----------------------------------------------------------------------------
(* Types and stages *)

\* An outcome's line, and where a worker counts.
LEMMA OutcomeLines ==
  /\ \A w \in OutcomeWorkers, n \in Nat :
        /\ Line(w, n) \in OutcomeLine /\ Line(w, n).worker = w /\ Line(w, n).seq = n
  /\ \A l \in OutcomeLine :
        /\ l.worker \in OutcomeWorkers /\ l.seq \in Nat /\ l = Line(l.worker, l.seq)
        /\ l.type = "outcome"
  BY DEF Line, OutcomeLine

\* The trailer is a line of the file.
LEMMA TrailerTypes ==
  ASSUME Types, NEW status \in {"failed", "complete", "stopped"}
  PROVE  Trailer(status, cause) \in TrailerLines
  BY DEF Types, Trailer, TrailerLines

LEMMA StatusTypes == TrafficStatus \in {"complete", "stopped"}
  BY DEF TrafficStatus

\* What a write leaves in the buffer and in the file.
LEMMA WriteTypes ==
  ASSUME Types, NEW line \in OutcomeLine, NEW error \in BOOLEAN, WriteLine(line, error)
  PROVE  /\ sticky' \in BOOLEAN /\ buffer' \in Seq(OutcomeLine)
         /\ outcomeFile' \in Seq(FileLine) /\ Len(outcomeFile') >= 1
<1>1. /\ outcomeFile \in Seq(FileLine) /\ Len(outcomeFile) >= 1 /\ Len(outcomeFile) \in Nat
      /\ buffer \in Seq(OutcomeLine) /\ sticky \in BOOLEAN
  <2>1. /\ outcomeFile \in Seq(FileLine) /\ Len(outcomeFile) >= 1
        /\ buffer \in Seq(OutcomeLine) /\ sticky \in BOOLEAN
    BY DEF Types
  <2>2. Len(outcomeFile) \in Nat
    BY <2>1
  <2> QED
    BY <2>1, <2>2
<1>2. OutcomeLine \subseteq FileLine /\ Torn \in FileLine
  BY DEF FileLine
<1>3. sticky' \in BOOLEAN /\ (buffer' = << >> \/ buffer' = Append(buffer, line))
  BY <1>1 DEF WriteLine
<1>4. buffer' \in Seq(OutcomeLine)
  <2>1. Append(buffer, line) \in Seq(OutcomeLine)
    BY <1>1, Appended
  <2>2. << >> \in Seq(OutcomeLine)
    OBVIOUS
  <2> QED
    BY <1>3, <2>1, <2>2
<1>5. CASE outcomeFile' = outcomeFile
  BY <1>1, <1>3, <1>4, <1>5
<1>6. CASE \E n \in 0..Len(buffer) : outcomeFile' = outcomeFile \o SubSeq(buffer, 1, n) \o <<Torn>>
  <2>1. PICK n \in 0..Len(buffer) :
           outcomeFile' = (outcomeFile \o SubSeq(buffer, 1, n)) \o <<Torn>>
    BY <1>6
  <2>2. SubSeq(buffer, 1, n) \in Seq(OutcomeLine)
    BY <1>1
  <2>3. SubSeq(buffer, 1, n) \in Seq(FileLine) /\ <<Torn>> \in Seq(FileLine)
    <3>1. SubSeq(buffer, 1, n) \in Seq(FileLine)
      BY <1>2, <2>2, Widened
    <3>2. <<Torn>> \in Seq(FileLine)
      BY <1>2
    <3> QED
      BY <3>1, <3>2
  <2> DEFINE part == SubSeq(buffer, 1, n)
             head == outcomeFile \o part
  <2>4. part \in Seq(FileLine)
    BY <2>3
  <2> HIDE DEF part
  <2>5. head \in Seq(FileLine) /\ Len(head) = Len(outcomeFile) + Len(part) /\ Len(part) \in Nat
    BY <1>1, <2>4, Joined
  <2> HIDE DEF head
  <2>6. head \o <<Torn>> \in Seq(FileLine) /\ Len(head \o <<Torn>>) = Len(head) + Len(<<Torn>>)
    BY <2>3, <2>5, Joined
  <2>7. outcomeFile' = head \o <<Torn>>
    BY <2>1 DEF head, part
  <2>8. Len(<<Torn>>) = 1
    OBVIOUS
  <2> QED
    BY <1>1, <1>3, <1>4, <2>5, <2>6, <2>7, <2>8
<1>7. CASE outcomeFile' = outcomeFile \o Append(buffer, line)
  <2>1. Append(buffer, line) \in Seq(OutcomeLine)
    BY <1>1, Appended
  <2> DEFINE full == Append(buffer, line)
  <2>2. full \in Seq(FileLine)
    BY <1>2, <2>1, Widened
  <2> HIDE DEF full
  <2>3. /\ outcomeFile \o full \in Seq(FileLine)
        /\ Len(outcomeFile \o full) = Len(outcomeFile) + Len(full) /\ Len(full) \in Nat
    BY <1>1, <2>2, Joined
  <2>4. outcomeFile' = outcomeFile \o full
    BY <1>7 DEF full
  <2> QED
    BY <1>1, <1>3, <1>4, <2>3, <2>4
<1> QED
  BY <1>5, <1>6, <1>7 DEF WriteLine

\* The trailer's write leaves lines in the file too.
LEMMA SealTypes ==
  ASSUME Types, NEW error \in BOOLEAN, Seal(error)
  PROVE  /\ sticky' \in BOOLEAN /\ buffer' \in Seq(OutcomeLine)
         /\ outcomeFile' \in Seq(FileLine) /\ Len(outcomeFile') >= 1
<1> DEFINE status == IF broke THEN "failed" ELSE TrafficStatus
           tail == Append(buffer, Trailer(status, cause))
<1>1. /\ outcomeFile \in Seq(FileLine) /\ Len(outcomeFile) >= 1 /\ Len(outcomeFile) \in Nat
      /\ buffer \in Seq(OutcomeLine) /\ sticky \in BOOLEAN
  <2>1. /\ outcomeFile \in Seq(FileLine) /\ Len(outcomeFile) >= 1
        /\ buffer \in Seq(OutcomeLine) /\ sticky \in BOOLEAN
    BY DEF Types
  <2>2. Len(outcomeFile) \in Nat
    BY <2>1
  <2> QED
    BY <2>1, <2>2
<1>2. tail \in Seq(FileLine)
  <2>1. Trailer(status, cause) \in FileLine /\ OutcomeLine \subseteq FileLine
    BY TrailerTypes, StatusTypes DEF FileLine
  <2>2. buffer \in Seq(FileLine)
    BY <1>1, <2>1, Widened
  <2> QED
    BY <2>1, <2>2, Appended
<1> HIDE DEF tail
<1>3. CASE sticky
  BY <1>1, <1>3 DEF Seal, outcomeFileVars
<1>4. CASE ~sticky /\ ~error
  <2>1. outcomeFile' = outcomeFile \o tail /\ buffer' = << >> /\ sticky' = error
    BY <1>4 DEF Seal, tail
  <2>2. /\ outcomeFile \o tail \in Seq(FileLine)
        /\ Len(outcomeFile \o tail) = Len(outcomeFile) + Len(tail) /\ Len(tail) \in Nat
    BY <1>1, <1>2, Joined
  <2>3. buffer' \in Seq(OutcomeLine)
    BY <2>1
  <2> QED
    BY <1>1, <2>1, <2>2, <2>3
<1>5. CASE ~sticky /\ error
  <2>1. buffer' = << >> /\ sticky' = error
    BY <1>5 DEF Seal
  <2>2. PICK n \in 0..Len(tail), torn \in {<< >>, <<Torn>>} :
           outcomeFile' = (outcomeFile \o SubSeq(tail, 1, n))
                             \o (IF n < Len(tail) THEN torn ELSE << >>)
    BY <1>5 DEF Seal, tail
  <2> DEFINE part == SubSeq(tail, 1, n)
             end == IF n < Len(tail) THEN torn ELSE << >>
             head == outcomeFile \o part
  <2>3. part \in Seq(FileLine)
    BY <1>2
  <2>4. end \in Seq(FileLine)
    <3>1. Torn \in FileLine
      BY DEF FileLine
    <3>2. <<Torn>> \in Seq(FileLine) /\ << >> \in Seq(FileLine)
      BY <3>1
    <3> QED
      BY <3>2
  <2> HIDE DEF part, end
  <2>5. head \in Seq(FileLine) /\ Len(head) = Len(outcomeFile) + Len(part) /\ Len(part) \in Nat
    BY <1>1, <2>3, Joined
  <2> HIDE DEF head
  <2>6. head \o end \in Seq(FileLine) /\ Len(head \o end) = Len(head) + Len(end) /\ Len(end) \in Nat
    BY <2>4, <2>5, Joined
  <2>7. outcomeFile' = head \o end
    BY <2>2 DEF head, part, end
  <2>8. buffer' \in Seq(OutcomeLine)
    BY <2>1
  <2> QED
    BY <1>1, <2>1, <2>5, <2>6, <2>7, <2>8
<1> QED
  BY <1>3, <1>4, <1>5

LEMMA TypesStep ==
  ASSUME Types, [ONext]_outcomeVars
  PROVE  Types'
<1>1. CASE UNCHANGED outcomeVars
  BY <1>1 DEF Types, outcomeVars, outcomeFileVars, writerVars
<1>2. ASSUME NEW w \in OutcomeWorkers, Write(w) PROVE Types'
  <2>1. counted' = [counted EXCEPT ![w] = @ + 1] /\ counted'[w] \in Nat
    <3>1. counted \in [OutcomeWorkers -> Nat] /\ counted' = [counted EXCEPT ![w] = @ + 1]
      BY <1>2 DEF Types, Write
    <3>2. counted'[w] = counted[w] + 1 /\ counted[w] \in Nat
      BY <3>1
    <3> QED
      BY <3>1, <3>2
  <2>2. Line(w, counted'[w]) \in OutcomeLine
    BY <2>1, OutcomeLines
  <2>3. \/ channel' = Append(channel, Line(w, counted'[w])) /\ UNCHANGED waiters
        \/ waiters' = waiters \cup {Line(w, counted'[w])} /\ UNCHANGED channel
    BY <1>2 DEF Write
  <2>4. waiters' \subseteq OutcomeLine
    BY <2>2, <2>3 DEF Types
  <2>5. channel' \in Seq(OutcomeLine)
    <3> DEFINE line == Line(w, counted'[w])
    <3>1. channel \in Seq(OutcomeLine)
      BY DEF Types
    <3>2. line \in OutcomeLine
      BY <2>2
    <3>3. channel' = Append(channel, line) \/ channel' = channel
      BY <2>3
    <3> HIDE DEF line
    <3>4. Append(channel, line) \in Seq(OutcomeLine)
      BY <3>1, <3>2, Appended
    <3> QED
      BY <3>1, <3>3, <3>4, Zenon
  <2>6. counted' \in [OutcomeWorkers -> Nat]
    <3>1. counted \in [OutcomeWorkers -> Nat]
      BY DEF Types
    <3> QED
      BY <2>1, <3>1
  <2> QED
    BY <1>2, <2>4, <2>5, <2>6 DEF Types, Write, outcomeFileVars, writerVars
<1>3. ASSUME NEW l \in waiters, Queued(l) PROVE Types'
  <2>1. channel' \in Seq(OutcomeLine)
    <3>1. l \in OutcomeLine /\ channel \in Seq(OutcomeLine) /\ channel' = Append(channel, l)
      BY <1>3 DEF Types, Queued
    <3> QED
      BY <3>1, Appended
  <2>2. waiters' \subseteq OutcomeLine /\ waits' \in Nat
    <3>1. waiters \subseteq OutcomeLine /\ waits \in Nat
      BY DEF Types
    <3>2. waiters' = waiters \ {l} /\ waits' = waits + 1
      BY <1>3 DEF Queued
    <3> QED
      BY <3>1, <3>2
  <2> QED
    BY <1>3, <2>1, <2>2 DEF Types, Queued, outcomeFileVars, writerVars
<1>4. ASSUME NEW error \in BOOLEAN, Take(error) PROVE Types'
  <2>1. channel' \in Seq(OutcomeLine) /\ Head(channel) \in OutcomeLine
    BY <1>4, Taken DEF Types, Take
  <2>2. CASE broke
    BY <1>4, <2>1, <2>2 DEF Types, Take, outcomeFileVars, writerVars
  <2>3. CASE ~broke
    <3>1. WriteLine(Head(channel), error)
      BY <1>4, <2>3 DEF Take
    <3>2. /\ sticky' \in BOOLEAN /\ buffer' \in Seq(OutcomeLine)
          /\ outcomeFile' \in Seq(FileLine) /\ Len(outcomeFile') >= 1
      BY <2>1, <3>1, WriteTypes
    <3>3. /\ broke' = sticky' /\ cause' = cause
          /\ ops' = IF sticky' THEN ops ELSE ops + 1
          /\ writer' = IF sticky' THEN "fail" ELSE "take"
      BY <1>4, <2>3 DEF Take
    <3>4. ops' \in Nat /\ writer' \in {"take", "fail", "done"}
      <4>1. ops \in Nat
        BY DEF Types
      <4> QED
        BY <3>3, <4>1
    <3>5. UNCHANGED <<iteration, counted, waiters, waits>>
      BY <1>4 DEF Take
    <3> QED
      BY <2>1, <3>2, <3>3, <3>4, <3>5 DEF Types
  <2> QED
    BY <2>2, <2>3 DEF Types
<1>5. CASE Fail
  BY <1>5 DEF Types, Fail, outcomeFileVars
<1>6. CASE Drained
  BY <1>6 DEF Types, Drained, outcomeFileVars
<1>7. CASE EndIteration
  <2>1. iteration' \in 1..(OutcomeIterations + 2)
    <3>1. OutcomeIterations \in Nat
      BY OutcomeAssumption
    <3>2. /\ iteration \in 1..OutcomeIterations
          /\ iteration' = iteration + 1 \/ iteration' = OutcomeIterations + 2
      BY <1>7 DEF EndIteration, Running
    <3> QED
      BY <3>1, <3>2
  <2> QED
    BY <1>7, <2>1 DEF Types, EndIteration, outcomeFileVars, writerVars
<1>8. ASSUME NEW error \in BOOLEAN, Close(error) PROVE Types'
  <2>1. Seal(error)
    BY <1>8 DEF Close
  <2>2. /\ sticky' \in BOOLEAN /\ buffer' \in Seq(OutcomeLine)
        /\ outcomeFile' \in Seq(FileLine) /\ Len(outcomeFile') >= 1
    BY <2>1, SealTypes
  <2> QED
    BY <1>8, <2>2 DEF Types, Close, writerVars
<1> QED
  BY <1>1, <1>2, <1>3, <1>4, <1>5, <1>6, <1>7, <1>8 DEF ONext, WorkerStep, WriterStep

\* After Close nothing happens any more.
LEMMA ClosedStays ==
  ASSUME StageInv, outcomeResult # Open, [ONext]_outcomeVars
  PROVE  UNCHANGED outcomeVars
<1>1. writer = "done" /\ ~Running /\ waiters = {}
  BY DEF StageInv
<1>2. ASSUME NEW w \in OutcomeWorkers PROVE ~Write(w)
  BY <1>1 DEF Write
<1>3. ~EndIteration
  BY <1>1 DEF EndIteration
<1>4. ~WriterStep
  BY <1>1 DEF WriterStep, Queued, Take, Close, Fail, Drained
<1> QED
  BY <1>2, <1>3, <1>4 DEF ONext, WorkerStep

\* What Close returns is a result.
LEMMA ClosedResult ==
  ASSUME NEW error, Seal(error)
  PROVE  outcomeResult' # Open
<1>1. outcomeResult'.status \in {"failed", "complete", "stopped"}
  BY StatusTypes DEF Seal
<1> QED
  BY <1>1 DEF Open

LEMMA StageStep ==
  ASSUME Types, StageInv, [ONext]_outcomeVars
  PROVE  StageInv'
<1>1. CASE UNCHANGED outcomeVars
  BY <1>1 DEF StageInv, outcomeVars, outcomeFileVars, writerVars, Running
<1>2. ASSUME NEW w \in OutcomeWorkers, Write(w) PROVE StageInv'
  <2>1. Running /\ iteration' = iteration /\ iteration # OutcomeIterations + 1
    BY <1>2, OutcomeAssumption DEF Write, Running
  <2>2. Running' /\ writer # "done" /\ UNCHANGED <<writerVars, sticky, outcomeResult>>
    BY <1>2, <2>1 DEF Write, Running, StageInv, outcomeFileVars
  <2> QED
    BY <2>1, <2>2 DEF StageInv, writerVars
<1>3. ASSUME NEW l \in waiters, Queued(l) PROVE StageInv'
  <2>1. Running /\ writer # "done"
    BY <1>3 DEF StageInv
  <2>2. UNCHANGED <<iteration, counted, writerVars, sticky, outcomeResult>> /\ Running'
    BY <1>3, <2>1 DEF Queued, outcomeFileVars, Running
  <2> QED
    BY <2>1, <2>2 DEF StageInv, writerVars
<1>4. ASSUME NEW error \in BOOLEAN, Take(error) PROVE StageInv'
  <2>1. /\ writer = "take" /\ UNCHANGED <<iteration, counted, waiters, outcomeResult>>
        /\ outcomeResult = Open
    BY <1>4 DEF Take, StageInv
  <2>2. CASE broke
    <3>1. UNCHANGED <<broke, cause, writer, sticky>>
      BY <1>4, <2>2 DEF Take, outcomeFileVars, writerVars
    <3> QED
      BY <2>1, <2>2, <3>1 DEF StageInv, Running
  <2>3. CASE ~broke
    <3>1. /\ broke' = sticky' /\ cause' = cause /\ sticky' \in BOOLEAN
          /\ writer' = IF sticky' THEN "fail" ELSE "take"
      BY <1>4, <2>3, TypesStep DEF Take, Types
    <3> QED
      BY <2>1, <2>3, <3>1 DEF StageInv, Running
  <2> QED
    BY <2>2, <2>3
<1>5. CASE Fail
  BY <1>5 DEF StageInv, Fail, outcomeFileVars, Running
<1>6. CASE Drained
  BY <1>6 DEF StageInv, Drained, outcomeFileVars, Running
<1>7. CASE EndIteration
  <2>1. Running /\ writer # "done"
    BY <1>7 DEF EndIteration, StageInv
  <2>2. UNCHANGED <<counted, waiters, writerVars, sticky, outcomeResult>> /\ waiters = {}
    BY <1>7 DEF EndIteration, outcomeFileVars
  <2>3. iteration' = OutcomeIterations + 1
           => \A w \in OutcomeWorkers : counted[w] = OutcomeIterations * OutcomesPerWorker
    <3>1. OutcomeIterations \in Nat /\ iteration \in Nat
      <4>1. OutcomeIterations \in Nat
        BY OutcomeAssumption
      <4>2. iteration \in 1..(OutcomeIterations + 2)
        BY DEF Types
      <4> QED
        BY <4>1, <4>2
    <3>2. \/ /\ \A w \in OutcomeWorkers : counted[w] = iteration * OutcomesPerWorker
             /\ iteration' = iteration + 1
          \/ iteration' = OutcomeIterations + 2
      BY <1>7 DEF EndIteration
    <3>3. iteration' = OutcomeIterations + 1 => iteration' = iteration + 1
      BY <3>1, <3>2
    <3>4. iteration' = OutcomeIterations + 1 /\ iteration' = iteration + 1
             => iteration = OutcomeIterations
      BY <3>1
    <3>5. OutcomeIterations + 1 # OutcomeIterations + 2
      BY <3>1
    <3> QED
      BY <3>2, <3>3, <3>4, <3>5
  <2> QED
    BY <2>1, <2>2, <2>3 DEF StageInv, writerVars
<1>8. ASSUME NEW error \in BOOLEAN, Close(error) PROVE StageInv'
  <2>1. outcomeResult' # Open
    BY <1>8, ClosedResult DEF Close
  <2>2. writer = "done" /\ UNCHANGED <<iteration, counted, waiters, channel, writerVars>>
    BY <1>8 DEF Close
  <2> QED
    BY <2>1, <2>2 DEF StageInv, writerVars, Running
<1> QED
  BY <1>1, <1>2, <1>3, <1>4, <1>5, <1>6, <1>7, <1>8 DEF ONext, WorkerStep, WriterStep

-----------------------------------------------------------------------------
(* The flow keeps its order *)

\* A sequence with the same lines is as whole.
LEMMA WholePart ==
  ASSUME NEW s, NEW t, NEW n \in Nat, NEW count, NEW waiting,
         Whole(s, n, count, waiting), \A i \in 2..n : t[i] = s[i]
  PROVE  Whole(t, n, count, waiting)
  BY DEF Whole

\* A worker that waits for nothing counts its next outcome.
LEMMA WholeCounts ==
  ASSUME NEW s, NEW n \in Nat, NEW count \in [OutcomeWorkers -> Nat],
         NEW waiting \in SUBSET OutcomeLine, NEW w \in OutcomeWorkers,
         Sound(s, n), Whole(s, n, count, waiting)
  PROVE  Whole(s, n, [count EXCEPT ![w] = @ + 1], waiting \cup {Line(w, count[w] + 1)})
<1> DEFINE more == [count EXCEPT ![w] = @ + 1]
           new  == Line(w, count[w] + 1)
<1>1. /\ \A v \in OutcomeWorkers : more[v] = IF v = w THEN count[w] + 1 ELSE count[v]
      /\ \A v \in OutcomeWorkers : count[v] \in Nat
  OBVIOUS
<1>2. new.worker = w /\ new.seq = count[w] + 1
  BY DEF Line
<1>3. \A i \in 2..n : s[i].worker \in OutcomeWorkers /\ s[i].seq \in Nat
  BY DEF Sound, OutcomeLine
<1> HIDE DEF more, new
<1>4. \A i \in 2..n : s[i].seq <= more[s[i].worker]
  <2> SUFFICES ASSUME NEW i \in 2..n PROVE s[i].seq <= more[s[i].worker]
    OBVIOUS
  <2>1. s[i].seq <= count[s[i].worker]
    BY DEF Whole
  <2> QED
    BY <1>1, <1>3, <2>1
<1>5. \A i \in 2..n : \A l \in waiting \cup {new} : l.worker = s[i].worker => s[i].seq < l.seq
  <2> SUFFICES ASSUME NEW i \in 2..n, NEW l \in waiting \cup {new}, l.worker = s[i].worker
               PROVE  s[i].seq < l.seq
    OBVIOUS
  <2>1. CASE l = new
    <3>1. s[i].seq <= count[w]
      BY <1>2, <2>1 DEF Whole
    <3> QED
      BY <1>1, <1>2, <1>3, <2>1, <3>1
  <2> QED
    BY <2>1 DEF Whole
<1>6. ASSUME NEW v \in OutcomeWorkers, NEW m \in 1..more[v]
      PROVE  \/ \E i \in 2..n : s[i].worker = v /\ s[i].seq = m
             \/ Line(v, m) \in waiting \cup {new}
  <2>1. CASE m \in 1..count[v]
    BY <2>1 DEF Whole
  <2>2. CASE v = w /\ m = count[w] + 1
    BY <2>2 DEF new
  <2> QED
    BY <1>1, <2>1, <2>2
<1>7. Whole(s, n, more, waiting \cup {new})
  BY <1>4, <1>5, <1>6 DEF Whole
<1> QED
  BY <1>7 DEF more, new

\* A line that waited joins.
LEMMA WholeJoins ==
  ASSUME NEW s, NEW t, NEW n \in Nat, n >= 1, NEW count \in [OutcomeWorkers -> Nat],
         NEW waiting \in SUBSET OutcomeLine, NEW l \in waiting,
         Sound(s, n), Whole(s, n, count, waiting),
         \A k \in waiting : k.seq = count[k.worker] /\ k.seq >= 1,
         \A i \in 2..n : t[i] = s[i], t[n + 1] = l
  PROVE  Sound(t, n + 1) /\ Whole(t, n + 1, count, waiting \ {l})
<1>1. /\ l \in OutcomeLine /\ l.seq = count[l.worker] /\ l.seq >= 1
      /\ l.worker \in OutcomeWorkers /\ l.seq \in Nat
  BY OutcomeLines
<1>2. \A k \in waiting : k.worker = l.worker => k = l
  <2> SUFFICES ASSUME NEW k \in waiting, k.worker = l.worker PROVE k = l
    OBVIOUS
  <2>1. k \in OutcomeLine /\ k.seq = l.seq
    OBVIOUS
  <2> QED
    BY <1>1, <2>1, OutcomeLines
<1>3. \A i \in 2..n : s[i].worker = t[n + 1].worker => s[i].seq < t[n + 1].seq
  BY DEF Whole
<1>4. ASSUME NEW m \in 1..(t[n + 1].seq - 1)
      PROVE  \E i \in 2..n : s[i].worker = t[n + 1].worker /\ s[i].seq = m
  <2>1. m \in 1..count[l.worker] /\ m # l.seq
    BY <1>1
  <2>2. Line(l.worker, m).worker = l.worker /\ Line(l.worker, m).seq = m
    BY DEF Line
  <2>3. Line(l.worker, m) \notin waiting
    BY <1>2, <2>1, <2>2
  <2> QED
    BY <1>1, <2>1, <2>3 DEF Whole
<1>5. Sound(t, n + 1)
  BY <1>1, <1>3, <1>4, SoundGrows
<1>6. ASSUME NEW i \in 2..(n + 1) PROVE t[i].seq <= count[t[i].worker]
  <2>1. CASE i \in 2..n
    BY <2>1 DEF Whole
  <2>2. CASE i = n + 1
    BY <1>1, <2>2
  <2> QED
    BY <2>1, <2>2
<1>7. ASSUME NEW i \in 2..(n + 1), NEW k \in waiting \ {l}, k.worker = t[i].worker
      PROVE  t[i].seq < k.seq
  <2>1. CASE i \in 2..n
    BY <1>7, <2>1 DEF Whole
  <2>2. CASE i = n + 1
    BY <1>2, <1>7, <2>2
  <2> QED
    BY <2>1, <2>2
<1>8. ASSUME NEW w \in OutcomeWorkers, NEW m \in 1..count[w]
      PROVE  \/ \E i \in 2..(n + 1) : t[i].worker = w /\ t[i].seq = m
             \/ Line(w, m) \in waiting \ {l}
  <2>1. CASE \E i \in 2..n : s[i].worker = w /\ s[i].seq = m
    <3>1. PICK i \in 2..n : s[i].worker = w /\ s[i].seq = m
      BY <2>1
    <3>2. i \in 2..(n + 1) /\ t[i] = s[i]
      OBVIOUS
    <3> QED
      BY <3>1, <3>2
  <2>2. CASE Line(w, m) = l
    <3>1. l.worker = w /\ l.seq = m
      BY <2>2 DEF Line
    <3>2. n + 1 \in 2..(n + 1)
      OBVIOUS
    <3> QED
      BY <3>1, <3>2
  <2>3. CASE Line(w, m) \in waiting /\ Line(w, m) # l
    BY <2>3
  <2> QED
    BY <2>1, <2>2, <2>3 DEF Whole
<1> QED
  BY <1>5, <1>6, <1>7, <1>8 DEF Whole

\* What FlowInv says, of any values.
Counts(s, count, waiting) ==
    /\ Sound(s, Len(s)) /\ Whole(s, Len(s), count, waiting)
    /\ \A l \in waiting : l.seq = count[l.worker] /\ l.seq >= 1

\* Steps that leave the flow alone.
LEMMA FlowSame ==
  ASSUME FlowInv, UNCHANGED <<outcomeFile, buffer, channel, counted, waiters, ops>>,
         broke' \/ UNCHANGED broke, outcomeResult' # Open \/ UNCHANGED outcomeResult
  PROVE  FlowInv'
<1>1. Flow' = Flow
  BY DEF Flow
<1> HIDE DEF Flow
<1> QED
  BY <1>1 DEF FlowInv, Sound, Whole

LEMMA FlowWrite ==
  ASSUME Types, Types', FlowInv, NEW w \in OutcomeWorkers, Write(w)
  PROVE  FlowInv'
<1> SUFFICES ASSUME ~broke, outcomeResult = Open
             PROVE  /\ Counts(Flow', counted', waiters')
                    /\ ops' = Len(outcomeFile') + Len(buffer') - 1
  BY DEF FlowInv, Counts, Write, writerVars
<1> DEFINE new == Line(w, counted[w] + 1)
           more == [counted EXCEPT ![w] = @ + 1]
           n == Len(Flow)
<1>1. /\ Sound(Flow, n) /\ Whole(Flow, n, counted, waiters)
      /\ ops = Len(outcomeFile) + Len(buffer) - 1
      /\ \A l \in waiters : l.seq = counted[l.worker] /\ l.seq >= 1
  BY DEF FlowInv
<1>2. /\ counted \in [OutcomeWorkers -> Nat] /\ waiters \in SUBSET OutcomeLine
      /\ counted[w] \in Nat /\ more \in [OutcomeWorkers -> Nat]
  <2>1. counted \in [OutcomeWorkers -> Nat] /\ waiters \in SUBSET OutcomeLine
    BY DEF Types
  <2> QED
    BY <2>1
<1>3. /\ counted' = more /\ more[w] = counted[w] + 1
      /\ UNCHANGED <<outcomeFile, buffer, ops>>
      /\ \A l \in waiters : l.worker # w
      /\ \/ channel' = Append(channel, new) /\ waiters' = waiters
         \/ waiters' = waiters \cup {new} /\ channel' = channel
  BY <1>2 DEF Write, outcomeFileVars, writerVars
<1>4. new \in OutcomeLine /\ new.worker = w /\ new.seq = counted[w] + 1 /\ new.seq >= 1
  BY <1>2, OutcomeLines
<1>5. n \in Nat /\ n >= 1
  BY FlowLength
<1>6. Whole(Flow, n, more, waiters \cup {new})
  BY <1>1, <1>2, <1>5, WholeCounts
<1>7. \A l \in waiters \cup {new} : l.seq = more[l.worker] /\ l.seq >= 1
  <2> SUFFICES ASSUME NEW l \in waiters PROVE l.seq = more[l.worker] /\ l.seq >= 1
    BY <1>3, <1>4
  <2>1. l.worker # w /\ l.worker \in OutcomeWorkers
    BY <1>2, <1>3, OutcomeLines
  <2> QED
    BY <1>1, <1>2, <2>1
<1>8. new \notin waiters
  BY <1>3, <1>4
<1> HIDE DEF new, more
<1>9. CASE waiters' = waiters \cup {new} /\ channel' = channel
  <2>1. Flow' = Flow
    BY <1>3, <1>9 DEF Flow
  <2> QED
    BY <1>1, <1>3, <1>6, <1>7, <1>9, <2>1 DEF Counts
<1>10. CASE channel' = Append(channel, new) /\ waiters' = waiters
  <2>1. /\ Len(Flow') = n + 1 /\ Flow'[n + 1] = new
        /\ \A i \in 1..n : Flow'[i] = Flow[i]
    BY <1>3, <1>4, <1>10, FlowJoins
  <2>2. PICK t : t = Flow'
    OBVIOUS
  <2>3. \A i \in 2..n : t[i] = Flow[i]
    BY <1>5, <2>1, <2>2
  <2>4. t[n + 1] = new
    BY <2>1, <2>2
  <2>5. waiters \cup {new} \in SUBSET OutcomeLine /\ new \in waiters \cup {new}
    BY <1>2, <1>4
  <2>6. Sound(t, n + 1) /\ Whole(t, n + 1, more, (waiters \cup {new}) \ {new})
    BY <1>1, <1>2, <1>5, <1>6, <1>7, <2>3, <2>4, <2>5, WholeJoins
  <2>7. (waiters \cup {new}) \ {new} = waiters'
    BY <1>8, <1>10
  <2>8. Counts(t, counted', waiters')
    BY <1>3, <1>7, <1>10, <2>1, <2>2, <2>6, <2>7 DEF Counts
  <2> QED
    BY <1>1, <1>3, <2>2, <2>8
<1> QED
  BY <1>3, <1>9, <1>10

LEMMA FlowQueued ==
  ASSUME Types, Types', FlowInv, NEW l \in waiters, Queued(l)
  PROVE  FlowInv'
<1> SUFFICES ASSUME ~broke, outcomeResult = Open
             PROVE  /\ Counts(Flow', counted', waiters')
                    /\ ops' = Len(outcomeFile') + Len(buffer') - 1
  BY DEF FlowInv, Counts, Queued, writerVars
<1> DEFINE n == Len(Flow)
<1>1. /\ Sound(Flow, n) /\ Whole(Flow, n, counted, waiters)
      /\ ops = Len(outcomeFile) + Len(buffer) - 1
      /\ \A k \in waiters : k.seq = counted[k.worker] /\ k.seq >= 1
  BY DEF FlowInv
<1>2. /\ counted \in [OutcomeWorkers -> Nat] /\ waiters \in SUBSET OutcomeLine
      /\ l \in OutcomeLine
  BY DEF Types
<1>3. /\ channel' = Append(channel, l) /\ waiters' = waiters \ {l}
      /\ UNCHANGED <<counted, outcomeFile, buffer, ops>>
  BY DEF Queued, outcomeFileVars, writerVars
<1>4. n \in Nat /\ n >= 1
  BY FlowLength
<1>5. /\ Len(Flow') = n + 1 /\ Flow'[n + 1] = l
      /\ \A i \in 1..n : Flow'[i] = Flow[i]
  BY <1>2, <1>3, FlowJoins
<1>6. PICK t : t = Flow'
  OBVIOUS
<1>7. \A i \in 2..n : t[i] = Flow[i]
  BY <1>4, <1>5, <1>6
<1>8. t[n + 1] = l
  BY <1>5, <1>6
<1>9. Sound(t, n + 1) /\ Whole(t, n + 1, counted, waiters \ {l})
  BY <1>1, <1>2, <1>4, <1>7, <1>8, WholeJoins
<1>10. Counts(t, counted', waiters')
  BY <1>1, <1>3, <1>5, <1>6, <1>9 DEF Counts
<1> QED
  BY <1>1, <1>3, <1>6, <1>10

LEMMA FlowTake ==
  ASSUME Types, Types', FlowInv, NEW error \in BOOLEAN, Take(error)
  PROVE  FlowInv'
<1> SUFFICES ASSUME ~broke', outcomeResult' = Open
             PROVE  /\ Counts(Flow', counted', waiters')
                    /\ ops' = Len(outcomeFile') + Len(buffer') - 1
  BY DEF FlowInv, Counts
<1>1. ~broke /\ outcomeResult = Open /\ UNCHANGED <<counted, waiters>>
  BY DEF Take, writerVars
<1>2. WriteLine(Head(channel), error) /\ ~sticky' /\ ops' = ops + 1
  BY <1>1 DEF Take
<1>3. \/ buffer' = Append(buffer, Head(channel)) /\ UNCHANGED outcomeFile
      \/ buffer' = << >> /\ outcomeFile' = outcomeFile \o Append(buffer, Head(channel))
  BY <1>2 DEF WriteLine
<1>4. channel # << >> /\ channel' = Tail(channel)
  BY DEF Take
<1>5. /\ Len(Flow) \in Nat /\ Len(Flow') = Len(Flow)
      /\ \A i \in 1..Len(Flow) : Flow'[i] = Flow[i]
      /\ Len(outcomeFile') + Len(buffer') = Len(outcomeFile) + Len(buffer) + 1
  BY <1>3, <1>4, FlowStays
<1>6. /\ Sound(Flow, Len(Flow)) /\ Whole(Flow, Len(Flow), counted, waiters)
      /\ ops = Len(outcomeFile) + Len(buffer) - 1
      /\ \A l \in waiters : l.seq = counted[l.worker] /\ l.seq >= 1
  BY <1>1 DEF FlowInv
<1>7. PICK t : t = Flow'
  OBVIOUS
<1> DEFINE n == Len(Flow)
<1>8. n \in Nat /\ n <= n /\ Len(t) = n /\ \A i \in 2..n : t[i] = Flow[i]
  BY <1>5, <1>7
<1>9. Sound(t, n) /\ Whole(t, n, counted, waiters)
  <2>1. Sound(Flow, n) /\ Whole(Flow, n, counted, waiters)
    BY <1>6
  <2> HIDE DEF n
  <2>2. Sound(t, n)
    BY <1>8, <2>1, SoundPart
  <2>3. Whole(t, n, counted, waiters)
    BY <1>8, <2>1, WholePart
  <2> QED
    BY <2>2, <2>3
<1>10. Counts(t, counted', waiters')
  BY <1>1, <1>6, <1>8, <1>9 DEF Counts
<1>11. ops' = Len(outcomeFile') + Len(buffer') - 1
  <2>1. Len(outcomeFile) \in Nat /\ Len(buffer) \in Nat
    BY FlowParts DEF Parts
  <2> QED
    BY <1>2, <1>5, <1>6, <2>1
<1> QED
  BY <1>7, <1>10, <1>11

LEMMA FlowStep ==
  ASSUME Types, Types', StageInv, FlowInv, [ONext]_outcomeVars
  PROVE  FlowInv'
<1>1. CASE UNCHANGED outcomeVars
  BY <1>1, FlowSame DEF outcomeVars, outcomeFileVars, writerVars
<1>2. CASE Fail
  BY <1>2, FlowSame DEF Fail, outcomeFileVars
<1>3. CASE Drained
  BY <1>3, FlowSame DEF Drained, outcomeFileVars
<1>4. CASE EndIteration
  BY <1>4, FlowSame DEF EndIteration, outcomeFileVars, writerVars
<1>5. ASSUME NEW error \in BOOLEAN, Close(error) PROVE FlowInv'
  BY <1>5, ClosedResult DEF FlowInv, Close
<1> QED
  BY <1>1, <1>2, <1>3, <1>4, <1>5, FlowWrite, FlowQueued, FlowTake
  DEF ONext, WorkerStep, WriterStep

-----------------------------------------------------------------------------
(* What a write that fails, or Close, leaves *)

\* As long as no write has failed, the file and the buffer are the flow's
\* first lines.
LEMMA FlowFile ==
  ASSUME Types, FlowInv, ~broke, outcomeResult = Open
  PROVE  /\ Len(outcomeFile) \in Nat /\ Len(outcomeFile) >= 1 /\ Len(buffer) \in Nat
         /\ ops = Len(outcomeFile) + Len(buffer) - 1
         /\ Sound(Flow, Len(outcomeFile) + Len(buffer))
         /\ \A i \in 1..Len(outcomeFile) : Flow[i] = outcomeFile[i]
         /\ \A i \in 1..Len(buffer) : Flow[Len(outcomeFile) + i] = buffer[i]
         /\ channel = << >> => Whole(Flow, Len(outcomeFile) + Len(buffer), counted, waiters)
<1> DEFINE a == Len(outcomeFile)
           b == Len(buffer)
           c == Len(channel)
<1>1. /\ a \in Nat /\ b \in Nat /\ c \in Nat /\ Len(Flow) = a + b + c
      /\ \A i \in 1..a : Flow[i] = outcomeFile[i]
      /\ \A i \in 1..b : Flow[a + i] = buffer[i]
  BY FlowParts DEF Parts
<1>2. /\ Sound(Flow, Len(Flow)) /\ Whole(Flow, Len(Flow), counted, waiters)
      /\ ops = a + b - 1
  BY DEF FlowInv
<1>3. a >= 1
  BY DEF Types
<1>4. channel = << >> => c = 0
  OBVIOUS
<1> HIDE DEF a, b, c
<1>5. Sound(Flow, a + b)
  <2>1. a + b \in Nat /\ a + b + c \in Nat /\ a + b <= a + b + c
    BY <1>1
  <2>2. Sound(Flow, a + b + c)
    BY <1>1, <1>2
  <2>3. \A i \in 2..(a + b) : Flow[i] = Flow[i]
    OBVIOUS
  <2> QED
    BY <2>1, <2>2, <2>3, SoundPart
<1>6. c = 0 => Len(Flow) = a + b
  BY <1>1
<1> QED
  BY <1>1, <1>2, <1>3, <1>4, <1>5, <1>6 DEF a, b

\* The file with the first n lines of the buffer after it, and perhaps more.
LEMMA FileGrows ==
  ASSUME Types, FlowInv, ~broke, outcomeResult = Open, NEW n \in 0..Len(buffer), NEW f,
         Len(f) >= Len(outcomeFile) + n,
         \A i \in 1..Len(outcomeFile) : f[i] = outcomeFile[i],
         \A i \in 1..n : f[Len(outcomeFile) + i] = buffer[i]
  PROVE  /\ Sound(f, Len(outcomeFile) + n)
         /\ channel = << >> /\ n = Len(buffer) =>
               Whole(f, Len(outcomeFile) + n, counted, waiters)
<1> DEFINE a == Len(outcomeFile)
           b == Len(buffer)
<1>1. /\ a \in Nat /\ b \in Nat /\ Sound(Flow, a + b)
      /\ \A i \in 1..a : Flow[i] = outcomeFile[i]
      /\ \A i \in 1..b : Flow[a + i] = buffer[i]
      /\ channel = << >> => Whole(Flow, a + b, counted, waiters)
  BY FlowFile
<1>2. /\ \A i \in 1..a : f[i] = outcomeFile[i]
      /\ \A i \in 1..n : f[a + i] = buffer[i]
      /\ n \in 0..b
  OBVIOUS
<1> HIDE DEF a, b
<1>3. \A i \in 2..(a + n) : f[i] = Flow[i]
  <2> SUFFICES ASSUME NEW i \in 2..(a + n) PROVE f[i] = Flow[i]
    OBVIOUS
  <2>1. CASE i \in 1..a
    BY <1>1, <1>2, <2>1
  <2>2. CASE i > a
    <3>1. i - a \in 1..n /\ i = a + (i - a)
      BY <1>1, <1>2, <2>2
    <3>2. PICK j \in 1..n : i = a + j
      BY <3>1
    <3>3. j \in 1..b
      BY <1>1, <1>2
    <3>4. f[a + j] = buffer[j] /\ Flow[a + j] = buffer[j]
      BY <1>1, <1>2, <3>3
    <3> QED
      BY <3>2, <3>4
  <2> QED
    BY <1>1, <2>1, <2>2
<1>4. a + n \in Nat /\ a + b \in Nat /\ a + n <= a + b
  BY <1>1, <1>2
<1>5. Sound(f, a + n)
  BY <1>1, <1>3, <1>4, SoundPart
<1>6. channel = << >> /\ n = b => Whole(f, a + n, counted, waiters)
  BY <1>1, <1>3, <1>4, WholePart
<1> QED
  BY <1>5, <1>6 DEF a, b

\* A part x of a sequence, and y after it, behind the file.
LEMMA Behind ==
  ASSUME NEW file \in Seq(FileLine), NEW x \in Seq(FileLine), NEW y \in Seq(FileLine), NEW f,
         f = (file \o x) \o y
  PROVE  /\ Len(f) = Len(file) + Len(x) + Len(y)
         /\ \A i \in 1..Len(file) : f[i] = file[i]
         /\ \A i \in 1..Len(x) : f[Len(file) + i] = x[i]
         /\ \A i \in 1..Len(y) : f[Len(file) + Len(x) + i] = y[i]
<1>1. Parts((file \o x) \o y, file, x, y)
  BY PartsOf
<1>2. Parts(f, file, x, y)
  BY <1>1, Zenon
<1> QED
  BY <1>2 DEF Parts

\* A failed write leaves a part of the buffer, and half a line.
LEMMA ReadTake ==
  ASSUME Types, StageInv, FlowInv, ReadInv, NEW error \in BOOLEAN, Take(error)
  PROVE  ReadInv'
<1>1. outcomeResult = Open /\ outcomeResult' = Open /\ (sticky = broke)
  BY DEF Take, StageInv
<1>2. CASE broke
  <2>1. UNCHANGED <<outcomeFile, broke, ops>>
    BY <1>2 DEF Take, outcomeFileVars, writerVars
  <2> QED
    BY <1>1, <1>2, <2>1 DEF ReadInv
<1>3. CASE ~broke
  <2> SUFFICES ASSUME broke'
               PROVE  \E k \in 1..Len(outcomeFile') : Broken(outcomeFile', k) /\ ops' >= k - 1
    BY <1>1 DEF ReadInv
  <2>1. WriteLine(Head(channel), error) /\ sticky' /\ ops' = ops /\ ~sticky
    BY <1>1, <1>3 DEF Take
  <2>2. /\ Len(outcomeFile) \in Nat /\ Len(outcomeFile) >= 1 /\ Len(buffer) \in Nat
        /\ ops = Len(outcomeFile) + Len(buffer) - 1
        /\ buffer \in Seq(OutcomeLine) /\ outcomeFile \in Seq(FileLine)
    BY <1>1, <1>3, FlowFile DEF Types
  <2>3. \/ outcomeFile' = outcomeFile
        \/ \E n \in 0..Len(buffer) : outcomeFile' = (outcomeFile \o SubSeq(buffer, 1, n)) \o <<Torn>>
    BY <2>1 DEF WriteLine
  <2>4. CASE outcomeFile' = outcomeFile
    <3>1. Sound(outcomeFile, Len(outcomeFile) + 0)
      <4>1. 0 \in 0..Len(buffer) /\ Len(outcomeFile) >= Len(outcomeFile) + 0
        BY <2>2
      <4>2. \A i \in 1..0 : outcomeFile[Len(outcomeFile) + i] = buffer[i]
        OBVIOUS
      <4> QED
        BY <1>1, <1>3, <4>1, <4>2, FileGrows
    <3>2. Len(outcomeFile) + 0 = Len(outcomeFile) /\ Len(outcomeFile) \in 1..Len(outcomeFile)
      BY <2>2
    <3>3. ops >= Len(outcomeFile) - 1
      BY <2>2
    <3> QED
      BY <2>1, <2>4, <3>1, <3>2, <3>3 DEF Broken
  <2>5. CASE \E n \in 0..Len(buffer) :
               outcomeFile' = (outcomeFile \o SubSeq(buffer, 1, n)) \o <<Torn>>
    <3>1. PICK n \in 0..Len(buffer) :
             outcomeFile' = (outcomeFile \o SubSeq(buffer, 1, n)) \o <<Torn>>
      BY <2>5
    <3> DEFINE part == SubSeq(buffer, 1, n)
               a == Len(outcomeFile)
    <3>2. /\ part \in Seq(OutcomeLine) /\ Len(part) = n
          /\ \A i \in 1..n : part[i] = buffer[i]
      BY <2>2
    <3>3. PICK f : f = outcomeFile'
      OBVIOUS
    <3> HIDE DEF part
    <3>4. part \in Seq(FileLine) /\ <<Torn>> \in Seq(FileLine)
      <4>1. OutcomeLine \subseteq FileLine /\ Torn \in FileLine
        BY DEF FileLine
      <4>2. <<Torn>> \in Seq(FileLine)
        BY <4>1
      <4> QED
        BY <3>2, <4>1, <4>2, Widened
    <3>5. Len(<<Torn>>) = 1 /\ <<Torn>>[1] = Torn
      OBVIOUS
    <3>6. /\ Len(f) = Len(outcomeFile) + Len(part) + Len(<<Torn>>)
          /\ \A i \in 1..Len(outcomeFile) : f[i] = outcomeFile[i]
          /\ \A i \in 1..Len(part) : f[Len(outcomeFile) + i] = part[i]
          /\ \A i \in 1..Len(<<Torn>>) : f[Len(outcomeFile) + Len(part) + i] = <<Torn>>[i]
      <4>1. f = (outcomeFile \o part) \o <<Torn>>
        BY <3>1, <3>3 DEF part
      <4>2. outcomeFile \in Seq(FileLine)
        BY <2>2
      <4> QED
        BY <3>4, <4>1, <4>2, Behind
    <3>7. /\ Len(f) = a + n + 1
          /\ \A i \in 1..n : f[a + i] = buffer[i]
          /\ f[a + n + 1] = Torn
      <4>1. 1 \in 1..1
        OBVIOUS
      <4> QED
        BY <3>2, <3>5, <3>6, <4>1
    <3>8. a + n \in Nat /\ a + n \in 1..Len(f) /\ n \in Nat /\ Len(f) >= a + n
      BY <2>2, <3>7
    <3>9. Sound(f, a + n)
      BY <1>1, <1>3, <3>6, <3>7, <3>8, FileGrows
    <3>10. ops >= (a + n) - 1
      BY <2>2
    <3>11. Broken(f, a + n)
      BY <3>7, <3>9 DEF Broken, Torn
    <3> HIDE DEF a
    <3> QED
      BY <2>1, <3>3, <3>8, <3>10, <3>11
  <2> QED
    BY <2>3, <2>4, <2>5
<1> QED
  BY <1>2, <1>3

\* Close writes the rest of the buffer and the trailer, or a part of them.
LEMMA ReadSeal ==
  ASSUME Types, StageInv, FlowInv, NEW error \in BOOLEAN, Close(error), ~sticky
  PROVE  /\ UNCHANGED <<counted, waiters>> /\ sticky' = error /\ ~broke
         /\ \/ error /\ \E k \in 1..Len(outcomeFile') : Broken(outcomeFile', k)
            \/ \E k \in 1..Len(outcomeFile') :
                  /\ Sealed(outcomeFile', k, counted, waiters)
                  /\ outcomeFile'[k + 1].status = TrafficStatus
<1> DEFINE line == Trailer(TrafficStatus, cause)
           tail == Append(buffer, line)
           a == Len(outcomeFile)
           b == Len(buffer)
<1>1. /\ Seal(error) /\ outcomeResult = Open /\ writer = "done" /\ ~broke
      /\ channel = << >> /\ ~Running /\ waiters = {} /\ UNCHANGED <<counted, waiters>>
  <2>1. Seal(error) /\ outcomeResult = Open /\ writer = "done" /\ UNCHANGED <<counted, waiters>>
    BY DEF Close
  <2>2. /\ writer = "done" => ~Running /\ channel = << >>
        /\ ~Running => waiters = {}
        /\ outcomeResult = Open => sticky = broke
    BY DEF StageInv
  <2> QED
    BY <2>1, <2>2
<1>2. /\ a \in Nat /\ a >= 1 /\ b \in Nat /\ ops = a + b - 1
      /\ buffer \in Seq(OutcomeLine) /\ outcomeFile \in Seq(FileLine)
  BY <1>1, FlowFile DEF Types
<1>3. /\ line \in FileLine /\ line.type = "trailer" /\ line.ops = ops
      /\ line.status = TrafficStatus
  <2>1. line \in TrailerLines
    BY TrailerTypes, StatusTypes
  <2> QED
    BY <2>1 DEF FileLine, Trailer
<1>4. /\ sticky' = error
      /\ IF ~error THEN outcomeFile' = outcomeFile \o tail
         ELSE \E n \in 0..Len(tail), torn \in {<< >>, <<Torn>>} :
                  outcomeFile' = (outcomeFile \o SubSeq(tail, 1, n))
                                    \o (IF n < Len(tail) THEN torn ELSE << >>)
  BY <1>1 DEF Seal
<1> HIDE DEF line
<1>5. /\ tail \in Seq(FileLine) /\ Len(tail) = b + 1 /\ tail[b + 1] = line
      /\ \A i \in 1..b : tail[i] = buffer[i]
  <2>1. OutcomeLine \subseteq FileLine
    BY DEF FileLine
  <2>2. buffer \in Seq(FileLine)
    BY <1>2, <2>1, Widened
  <2> QED
    BY <1>3, <2>2, Appended
<1>6. PICK f : f = outcomeFile'
  OBVIOUS
<1> HIDE DEF tail
\* The whole tail is in the file.
<1>7. ASSUME f = outcomeFile \o tail
      PROVE  \E k \in 1..Len(f) :
                /\ Sealed(f, k, counted, waiters)
                /\ f[k + 1].status = TrafficStatus
  <2>1. /\ Len(f) = a + Len(tail)
        /\ \A i \in 1..a : f[i] = outcomeFile[i]
        /\ \A i \in 1..Len(tail) : f[a + i] = tail[i]
    <3>1. outcomeFile \in Seq(FileLine) /\ tail \in Seq(FileLine)
      BY <1>2, <1>5
    <3>2. /\ Len(outcomeFile \o tail) = Len(outcomeFile) + Len(tail)
          /\ \A i \in 1..Len(outcomeFile) : (outcomeFile \o tail)[i] = outcomeFile[i]
          /\ \A i \in 1..Len(tail) : (outcomeFile \o tail)[Len(outcomeFile) + i] = tail[i]
      BY <3>1, Joined
    <3> QED
      BY <1>7, <3>2
  <2>2. /\ Len(f) = a + b + 1 /\ f[a + b + 1] = line
        /\ \A i \in 1..b : f[a + i] = buffer[i]
    <3>1. b + 1 \in 1..(b + 1) /\ a + (b + 1) = a + b + 1
      BY <1>2
    <3> HIDE DEF a, b
    <3> QED
      BY <1>2, <1>5, <2>1, <3>1
  <2>3. b \in 0..b /\ Len(f) >= a + b /\ a + b \in 1..Len(f) /\ a + b \in Nat
    BY <1>2, <2>2
  <2>4. Sound(f, a + b) /\ Whole(f, a + b, counted, waiters)
    BY <1>1, <2>1, <2>2, <2>3, FileGrows
  <2>5. TrafficStatus = "complete" => iteration = OutcomeIterations + 1
    BY DEF TrafficStatus
  <2>6. TrafficStatus = "complete" =>
           \A w \in OutcomeWorkers : counted[w] = OutcomeIterations * OutcomesPerWorker
    BY <2>5 DEF StageInv
  <2>7. Sealed(f, a + b, counted, waiters)
    BY <1>1, <1>2, <1>3, <2>2, <2>4, <2>6 DEF Sealed
  <2> HIDE DEF a, b
  <2> QED
    BY <1>3, <2>2, <2>3, <2>7
<1>8. CASE ~error
  BY <1>1, <1>4, <1>6, <1>7, <1>8
<1>9. CASE error
  <2>1. PICK n \in 0..Len(tail), torn \in {<< >>, <<Torn>>} :
           f = (outcomeFile \o SubSeq(tail, 1, n)) \o (IF n < Len(tail) THEN torn ELSE << >>)
    BY <1>4, <1>6, <1>9
  <2> DEFINE part == SubSeq(tail, 1, n)
             end == IF n < Len(tail) THEN torn ELSE << >>
  <2>2. /\ part \in Seq(FileLine) /\ Len(part) = n
        /\ \A i \in 1..n : part[i] = tail[i]
    BY <1>5
  <2>3. /\ end \in Seq(FileLine)
        /\ Len(end) = 0 \/ (Len(end) = 1 /\ end[1] = Torn /\ n < Len(tail))
    <3>1. Torn \in FileLine
      BY DEF FileLine
    <3>2. <<Torn>> \in Seq(FileLine) /\ << >> \in Seq(FileLine)
      BY <3>1
    <3>3. Len(<< >>) = 0 /\ Len(<<Torn>>) = 1 /\ <<Torn>>[1] = Torn
      OBVIOUS
    <3>4. end = << >> \/ (end = <<Torn>> /\ n < Len(tail))
      BY <2>1
    <3> HIDE DEF end
    <3>5. CASE end = << >>
      BY <3>2, <3>3, <3>5
    <3>6. CASE end = <<Torn>> /\ n < Len(tail)
      BY <3>2, <3>3, <3>6
    <3> QED
      BY <3>4, <3>5, <3>6
  <2>4. CASE n = Len(tail)
    <3>1. end = << >> /\ n = b + 1
      BY <1>5, <2>4
    <3>2. f = (outcomeFile \o part) \o << >>
      BY <2>1, <3>1
    <3>3. part = tail
      BY <1>5, <2>4
    <3>4. outcomeFile \o tail \in Seq(FileLine)
      BY <1>2, <1>5, Joined
    <3> DEFINE u == outcomeFile \o tail
    <3>5. u \o << >> = u
      <4>1. u \in Seq(FileLine)
        BY <3>4
      <4> HIDE DEF u
      <4> QED
        BY <4>1
    <3>6. f = outcomeFile \o tail
      BY <3>2, <3>3, <3>5
    <3> QED
      BY <1>1, <1>4, <1>6, <1>7, <3>6
  <2>5. CASE n < Len(tail)
    <3>1. n \in 0..b /\ n \in Nat /\ n <= b
      BY <1>2, <1>5, <2>5
    <3> HIDE DEF part, end
    <3>2. f = (outcomeFile \o part) \o end
      BY <2>1 DEF part, end
    <3>3. /\ Len(f) = Len(outcomeFile) + Len(part) + Len(end)
          /\ \A i \in 1..Len(outcomeFile) : f[i] = outcomeFile[i]
          /\ \A i \in 1..Len(part) : f[Len(outcomeFile) + i] = part[i]
          /\ \A i \in 1..Len(end) : f[Len(outcomeFile) + Len(part) + i] = end[i]
      <4>1. outcomeFile \in Seq(FileLine) /\ part \in Seq(FileLine) /\ end \in Seq(FileLine)
        BY <1>2, <2>2, <2>3
      <4> QED
        BY <3>2, <4>1, Behind
    <3>4. \A i \in 1..n : f[Len(outcomeFile) + i] = buffer[i]
      <4>1. \A i \in 1..n : i \in 1..b
        BY <1>2, <3>1
      <4> QED
        BY <1>5, <2>2, <3>3, <4>1
    <3>5. Len(f) = a + n \/ (Len(f) = a + n + 1 /\ f[a + n + 1] = Torn)
      <4>1. 1 \in 1..1
        OBVIOUS
      <4>2. Len(f) = a + n + Len(end) /\ (Len(end) = 1 => f[a + n + 1] = end[1])
        BY <2>2, <3>3, <4>1
      <4>3. a \in Nat /\ n \in Nat /\ (Len(end) = 0 \/ (Len(end) = 1 /\ end[1] = Torn))
        BY <1>2, <2>3, <3>1
      <4> HIDE DEF a
      <4>4. CASE Len(end) = 0
        <5>1. Len(f) = a + n + 0
          BY <4>2, <4>4
        <5> QED
          BY <4>3, <5>1
      <4>5. CASE Len(end) = 1 /\ end[1] = Torn
        BY <4>2, <4>5
      <4> QED
        BY <4>3, <4>4, <4>5
    <3>6. Len(f) >= a + n /\ a + n \in 1..Len(f)
      BY <1>2, <3>1, <3>5
    <3>7. Sound(f, a + n)
      BY <1>1, <3>1, <3>3, <3>4, <3>6, FileGrows
    <3>8. Broken(f, a + n)
      BY <3>5, <3>7 DEF Broken, Torn
    <3> HIDE DEF a
    <3> QED
      BY <1>1, <1>4, <1>6, <1>9, <3>6, <3>8
  <2> QED
    BY <1>5, <1>2, <2>4, <2>5
<1> QED
  BY <1>8, <1>9

LEMMA ReadClose ==
  ASSUME Types, StageInv, FlowInv, ReadInv, NEW error \in BOOLEAN, Close(error)
  PROVE  ReadInv'
<1>1. Seal(error) /\ outcomeResult' # Open /\ outcomeResult = Open /\ writer = "done"
  BY ClosedResult DEF Close
<1>2. sticky = broke /\ broke' = broke /\ (broke => cause = "write_error")
      /\ UNCHANGED <<counted, waiters>>
  BY <1>1 DEF Close, StageInv, writerVars
<1>3. /\ outcomeResult'.status = IF sticky' THEN "failed"
                                 ELSE IF broke THEN "failed" ELSE TrafficStatus
      /\ outcomeResult'.reason =
            IF (IF broke THEN "failed" ELSE TrafficStatus) # "failed" /\ sticky'
            THEN "write_error" ELSE cause
  BY <1>1 DEF Seal
<1>4. TrafficStatus # "failed"
  BY StatusTypes
<1>5. CASE sticky
  <2>1. UNCHANGED <<outcomeFile, sticky>>
    BY <1>1, <1>5 DEF Seal, outcomeFileVars
  <2>2. \E k \in 1..Len(outcomeFile) : Broken(outcomeFile, k)
    BY <1>1, <1>2, <1>5 DEF ReadInv
  <2>3. outcomeResult'.status = "failed" /\ outcomeResult'.reason = "write_error"
    BY <1>2, <1>3, <1>5, <2>1
  <2> QED
    BY <1>1, <2>1, <2>2, <2>3 DEF ReadInv, Failed
<1>6. CASE ~sticky
  <2>1. /\ sticky' = error /\ ~broke
        /\ \/ error /\ \E k \in 1..Len(outcomeFile') : Broken(outcomeFile', k)
           \/ \E k \in 1..Len(outcomeFile') :
                 /\ Sealed(outcomeFile', k, counted, waiters)
                 /\ outcomeFile'[k + 1].status = TrafficStatus
    BY <1>6, ReadSeal
  <2>2. IF error THEN outcomeResult'.status = "failed" /\ outcomeResult'.reason = "write_error"
        ELSE outcomeResult'.status = TrafficStatus
    BY <1>3, <1>4, <2>1
  <2>3. error => Failed'
    BY <2>2 DEF Failed
  <2>4. CASE error /\ \E k \in 1..Len(outcomeFile') : Broken(outcomeFile', k)
    BY <1>1, <2>3, <2>4 DEF ReadInv
  <2>5. CASE \E k \in 1..Len(outcomeFile') :
                 /\ Sealed(outcomeFile', k, counted, waiters)
                 /\ outcomeFile'[k + 1].status = TrafficStatus
    <3>1. PICK k \in 1..Len(outcomeFile') :
             /\ Sealed(outcomeFile', k, counted, waiters)
             /\ outcomeFile'[k + 1].status = TrafficStatus
      BY <2>5
    <3>2. Sealed(outcomeFile', k, counted', waiters')
      BY <1>2, <3>1
    <3>3. \/ Failed'
          \/ /\ outcomeResult'.status = outcomeFile'[k + 1].status
             /\ outcomeResult'.status # "failed"
      BY <1>4, <2>2, <2>3, <3>1
    <3> QED
      BY <1>1, <3>2, <3>3 DEF ReadInv
  <2> QED
    BY <2>1, <2>4, <2>5
<1> QED
  BY <1>5, <1>6

LEMMA OutcomeReadStep ==
  ASSUME Types, StageInv, FlowInv, ReadInv, [ONext]_outcomeVars
  PROVE  ReadInv'
<1>1. CASE outcomeResult # Open
  <2>1. UNCHANGED outcomeVars
    BY <1>1, ClosedStays
  <2> QED
    BY <2>1 DEF ReadInv, Failed, outcomeVars, outcomeFileVars, writerVars
<1>2. CASE outcomeResult = Open
  <2>1. ASSUME UNCHANGED <<outcomeFile, broke, ops, outcomeResult>> PROVE ReadInv'
    BY <1>2, <2>1 DEF ReadInv
  <2>2. ASSUME NEW w \in OutcomeWorkers, Write(w) PROVE ReadInv'
    BY <2>1, <2>2 DEF Write, outcomeFileVars, writerVars
  <2>3. ASSUME NEW l \in waiters, Queued(l) PROVE ReadInv'
    BY <2>1, <2>3 DEF Queued, outcomeFileVars, writerVars
  <2>4. ASSUME Fail \/ Drained \/ EndIteration \/ UNCHANGED outcomeVars PROVE ReadInv'
    BY <2>1, <2>4 DEF Fail, Drained, EndIteration, outcomeVars, outcomeFileVars, writerVars
  <2> QED
    BY <2>2, <2>3, <2>4, ReadTake, ReadClose DEF ONext, WorkerStep, WriterStep
<1> QED
  BY <1>1, <1>2

-----------------------------------------------------------------------------
(* The invariant *)

LEMMA OutcomeInit == OInit => OutcomeInv
<1> SUFFICES ASSUME OInit PROVE OutcomeInv
  OBVIOUS
<1>1. Header \in FileLine
  BY DEF FileLine
<1>2. outcomeFile \in Seq(FileLine) /\ Len(outcomeFile) = 1
  <2>1. <<Header>> \in Seq(FileLine) /\ Len(<<Header>>) = 1
    BY <1>1
  <2> QED
    BY <2>1 DEF OInit
<1>3. Types
  <2>1. OutcomeIterations \in Nat \ {0} /\ 1 \in 1..(OutcomeIterations + 2)
    <3>1. OutcomeIterations \in Nat \ {0}
      BY OutcomeAssumption
    <3> QED
      BY <3>1
  <2>2. << >> \in Seq(OutcomeLine)
    OBVIOUS
  <2>3. counted \in [OutcomeWorkers -> Nat] /\ waiters \subseteq OutcomeLine
    BY DEF OInit
  <2>4. buffer \in Seq(OutcomeLine) /\ channel \in Seq(OutcomeLine)
    BY <2>2 DEF OInit
  <2>5. /\ iteration \in 1..(OutcomeIterations + 2)
        /\ sticky \in BOOLEAN /\ broke \in BOOLEAN
        /\ cause \in {"", "write_error"} /\ writer \in {"take", "fail", "done"}
        /\ ops \in Nat /\ waits \in Nat
    BY <2>1 DEF OInit
  <2>6. Len(outcomeFile) >= 1
    BY <1>2
  <2> QED
    BY <1>2, <2>3, <2>4, <2>5, <2>6 DEF Types
<1>4. StageInv
  <2>1. Running /\ iteration # OutcomeIterations + 1
    <3>1. OutcomeIterations \in Nat \ {0} /\ iteration = 1
      BY OutcomeAssumption DEF OInit
    <3> QED
      BY <3>1 DEF Running
  <2> QED
    BY <2>1 DEF OInit, StageInv
<1>5. FlowInv
  <2>1. Len(Flow) = 1
    <3>1. Len(buffer) = 0 /\ Len(channel) = 0
      BY DEF OInit
    <3>2. Len(Flow) = Len(outcomeFile) + Len(buffer) + Len(channel)
      BY <1>3, FlowParts DEF Parts
    <3> QED
      BY <1>2, <3>1, <3>2
  <2>2. \A s : Sound(s, 1) /\ Whole(s, 1, counted, waiters)
    <3>1. waiters = {} /\ \A w \in OutcomeWorkers : counted[w] = 0
      BY DEF OInit
    <3> QED
      BY <3>1 DEF Sound, Whole
  <2>3. ops = Len(outcomeFile) + Len(buffer) - 1 /\ waiters = {}
    <3>1. ops = 0 /\ Len(buffer) = 0 /\ waiters = {}
      BY DEF OInit
    <3> QED
      BY <1>2, <3>1
  <2> QED
    BY <2>1, <2>2, <2>3 DEF FlowInv
<1>6. ReadInv
  BY DEF OInit, ReadInv
<1> QED
  BY <1>3, <1>4, <1>5, <1>6 DEF OutcomeInv

THEOREM OutcomeInvariant == OSpec => []OutcomeInv
<1>1. OInit => OutcomeInv
  BY OutcomeInit
<1>2. OutcomeInv /\ [ONext]_outcomeVars => OutcomeInv'
  BY TypesStep, StageStep, FlowStep, OutcomeReadStep DEF OutcomeInv
<1> QED
  BY <1>1, <1>2, PTL DEF OSpec

-----------------------------------------------------------------------------
(* What a reader finds *)

\* F numbers the elements of S from 1 to n.
Numbers(F, S, n) ==
    /\ n \in Nat /\ F \in [S -> 1..n]
    /\ \A a, b \in S : F[a] = F[b] => a = b
    /\ \A k \in 1..n : \E a \in S : F[a] = k

LEMMA Numbered ==
  ASSUME NEW S, NEW n, NEW F, Numbers(F, S, n)
  PROVE  Cardinality(S) = n
<1>1. F \in Injection(S, 1..n) /\ F \in Surjection(S, 1..n)
  BY DEF Numbers, Injection, IsInjective, Surjection
<1>2. IsFiniteSet(1..n) /\ Cardinality(1..n) = n
  <2>1. IsFiniteSet(1..n) /\ Cardinality(1..n) = IF 1 > n THEN 0 ELSE n - 1 + 1
    BY FS_Interval DEF Numbers
  <2> QED
    BY <2>1 DEF Numbers
<1>3. IsFiniteSet(S) /\ Cardinality(S) = Cardinality(1..n)
  BY <1>1, <1>2, FS_Injection
<1> QED
  BY <1>2, <1>3

\* The outcomes of worker w in lines 2 to k of f, as far as line i.
OutcomesTo(f, k, w, i) == {j \in 2..k : f[j].worker = w /\ j <= i}

\* Those up to an outcome are as many as its number says.
LEMMA SoundRank ==
  ASSUME NEW f, NEW k \in Nat, Sound(f, k), NEW i \in 2..k
  PROVE  Cardinality(OutcomesTo(f, k, f[i].worker, i)) = f[i].seq
<1> DEFINE own == OutcomesTo(f, k, f[i].worker, i)
           n == f[i].seq
           F == [j \in own |-> f[j].seq]
<1>1. \A j \in own : j \in 2..k /\ f[j].worker = f[i].worker /\ (j = i \/ j \in 2..(i-1))
  BY DEF OutcomesTo
<1>2. \A j \in 2..k : f[j].seq \in Nat /\ f[j].seq >= 1
  BY DEF Sound, OutcomeLine
<1>3. /\ \A j \in 2..(i-1) : f[j].worker = f[i].worker => f[j].seq < f[i].seq
      /\ \A m \in 1..(f[i].seq - 1) : \E j \in 2..(i-1) : f[j].worker = f[i].worker /\ f[j].seq = m
  BY DEF Sound
<1>4. i \in own /\ \A j \in 2..(i-1) : f[j].worker = f[i].worker => j \in own
  BY DEF OutcomesTo
<1> HIDE DEF own
<1>5. \A j \in own : f[j].seq \in 1..n
  <2> SUFFICES ASSUME NEW j \in own PROVE f[j].seq \in 1..n
    OBVIOUS
  <2>1. f[j].seq \in Nat /\ f[j].seq >= 1 /\ n \in Nat
    BY <1>1, <1>2
  <2>2. j = i \/ f[j].seq < n
    BY <1>1, <1>3
  <2> QED
    BY <2>1, <2>2
<1>6. \A a, b \in own : f[a].seq = f[b].seq => a = b
  <2> SUFFICES ASSUME NEW a \in own, NEW b \in own, a < b PROVE f[a].seq < f[b].seq
    <3>1. \A j \in own : f[j].seq \in Nat /\ j \in Nat
      BY <1>1, <1>2
    <3> QED
      BY <3>1
  <2>1. a \in 2..(b-1) /\ b \in 2..k /\ f[a].worker = f[b].worker
    BY <1>1
  <2> QED
    BY <2>1 DEF Sound
<1>7. \A m \in 1..n : \E j \in own : f[j].seq = m
  <2> SUFFICES ASSUME NEW m \in 1..n PROVE \E j \in own : f[j].seq = m
    OBVIOUS
  <2>1. CASE m = n
    BY <1>4, <2>1
  <2>2. CASE m # n
    <3>1. m \in 1..(f[i].seq - 1)
      BY <1>2, <2>2
    <3>2. PICK j \in 2..(i-1) : f[j].worker = f[i].worker /\ f[j].seq = m
      BY <1>3, <3>1
    <3> QED
      BY <1>4, <3>2
  <2> QED
    BY <2>1, <2>2
<1>8. n \in Nat
  BY <1>2
<1> HIDE DEF n
<1>9. F \in [own -> 1..n] /\ \A j \in own : F[j] = f[j].seq
  BY <1>5
<1> HIDE DEF F
<1>10. \A a, b \in own : F[a] = F[b] => a = b
  BY <1>6, <1>9
<1>11. \A m \in 1..n : \E j \in own : F[j] = m
  BY <1>7, <1>9
<1>12. Numbers(F, own, n)
  BY <1>8, <1>9, <1>10, <1>11 DEF Numbers
<1> QED
  BY <1>12, Numbered DEF own, n

\* A whole sequence has as many outcomes of a worker as are counted.
LEMMA WholeCount ==
  ASSUME NEW f, NEW k \in Nat, NEW count \in [OutcomeWorkers -> Nat],
         Sound(f, k), Whole(f, k, count, {}), NEW w \in OutcomeWorkers
  PROVE  Cardinality({i \in 2..k : f[i].worker = w}) = count[w]
<1> DEFINE own == {i \in 2..k : f[i].worker = w}
           n == count[w]
           F == [j \in own |-> f[j].seq]
<1>1. n \in Nat
  OBVIOUS
<1>2. \A j \in own : j \in 2..k /\ f[j].worker = w
  OBVIOUS
<1>3. \A j \in 2..k : f[j].seq \in Nat /\ f[j].seq >= 1
  BY DEF Sound, OutcomeLine
<1>4. \A j \in own : f[j].seq \in 1..n
  BY <1>1, <1>2, <1>3 DEF Whole
<1>5. \A a, b \in own : f[a].seq = f[b].seq => a = b
  <2> SUFFICES ASSUME NEW a \in own, NEW b \in own, a < b PROVE f[a].seq < f[b].seq
    <3>1. \A j \in own : f[j].seq \in Nat /\ j \in Nat
      BY <1>2, <1>3
    <3> QED
      BY <3>1
  <2>1. a \in 2..(b-1) /\ b \in 2..k /\ f[a].worker = f[b].worker
    BY <1>2
  <2> QED
    BY <2>1 DEF Sound
<1>6. \A m \in 1..n : \E j \in own : f[j].seq = m
  BY DEF Whole
<1> HIDE DEF own, n
<1>7. F \in [own -> 1..n] /\ \A j \in own : F[j] = f[j].seq
  BY <1>4
<1> HIDE DEF F
<1>8. \A a, b \in own : F[a] = F[b] => a = b
  BY <1>5, <1>7
<1>9. \A m \in 1..n : \E j \in own : F[j] = m
  BY <1>6, <1>7
<1>10. Numbers(F, own, n)
  BY <1>1, <1>7, <1>8, <1>9 DEF Numbers
<1> QED
  BY <1>10, Numbered DEF own, n

\* The reader stops before half a line, and finds no trailer.
LEMMA BrokenRead ==
  ASSUME NEW f, Len(f) \in Nat, NEW k \in 1..Len(f), Broken(f, k)
  PROVE  StreamOutcomes(f).outcomes = 2..k /\ StreamOutcomes(f).trailer = {}
<1> DEFINE bad == {i \in 2..Len(f) :
                      \/ f[i].type \notin {"outcome", "trailer"}
                      \/ \E j \in 2..(i - 1) : f[j].type = "trailer"}
           last == IF bad = {} THEN Len(f) ELSE (CHOOSE i \in bad : \A j \in bad : i <= j) - 1
<1>1. \A i \in 2..k : f[i].type = "outcome"
  BY DEF Broken, Sound, OutcomeLine
<1>2. \A i \in bad : i > k
  <2> SUFFICES ASSUME NEW i \in 2..k PROVE i \notin bad
    OBVIOUS
  <2>1. \A j \in 2..(i - 1) : j \in 2..k
    OBVIOUS
  <2> QED
    BY <1>1, <2>1
<1>3. last = k
  <2>1. CASE Len(f) = k
    BY <1>2, <2>1
  <2>2. CASE Len(f) = k + 1 /\ f[k + 1].type = "torn"
    <3>1. bad = {k + 1}
      BY <1>2, <2>2
    <3> HIDE DEF bad
    <3>2. (CHOOSE i \in bad : \A j \in bad : i <= j) = k + 1
      BY <3>1
    <3> QED
      BY <3>1, <3>2
  <2> QED
    BY <2>1, <2>2 DEF Broken
<1>4. /\ StreamOutcomes(f).outcomes = {i \in 2..last : f[i].type = "outcome"}
      /\ StreamOutcomes(f).trailer = {i \in 2..last : f[i].type = "trailer"}
  BY DEF StreamOutcomes
<1> HIDE DEF last
<1> QED
  BY <1>1, <1>3, <1>4

\* The reader comes to the trailer, and to its end.
LEMMA SealedRead ==
  ASSUME NEW f, NEW k \in Nat, k >= 1, NEW count, NEW waiting, Sealed(f, k, count, waiting)
  PROVE  /\ StreamOutcomes(f).outcomes = 2..k /\ StreamOutcomes(f).trailer = {k + 1}
         /\ ~StreamOutcomes(f).error
<1> DEFINE bad == {i \in 2..Len(f) :
                      \/ f[i].type \notin {"outcome", "trailer"}
                      \/ \E j \in 2..(i - 1) : f[j].type = "trailer"}
           last == IF bad = {} THEN Len(f) ELSE (CHOOSE i \in bad : \A j \in bad : i <= j) - 1
<1>1. \A i \in 2..k : f[i].type = "outcome"
  BY DEF Sealed, Sound, OutcomeLine
<1>2. Len(f) = k + 1 /\ f[k + 1].type = "trailer"
  BY DEF Sealed
<1>3. bad = {}
  <2> SUFFICES ASSUME NEW i \in 2..(k + 1) PROVE i \notin bad
    BY <1>2
  <2>1. \A j \in 2..(i - 1) : j \in 2..k
    OBVIOUS
  <2>2. i \in 2..k \/ i = k + 1
    OBVIOUS
  <2> QED
    BY <1>1, <1>2, <2>1, <2>2
<1>4. last = k + 1
  BY <1>2, <1>3
<1>5. /\ StreamOutcomes(f).outcomes = {i \in 2..last : f[i].type = "outcome"}
      /\ StreamOutcomes(f).trailer = {i \in 2..last : f[i].type = "trailer"}
      /\ StreamOutcomes(f).error = (bad # {})
  BY DEF StreamOutcomes
<1> HIDE DEF last, bad
<1>6. \A i \in 2..(k + 1) : i \in 2..k \/ i = k + 1
  OBVIOUS
<1>7. {i \in 2..(k + 1) : f[i].type = "outcome"} = 2..k
  BY <1>1, <1>2, <1>6
<1>8. {i \in 2..(k + 1) : f[i].type = "trailer"} = {k + 1}
  BY <1>1, <1>2, <1>6
<1> QED
  BY <1>3, <1>4, <1>5, <1>7, <1>8

\* The outcomes that were read, of a worker and in all.
LEMMA ReadOutcomes ==
  ASSUME NEW k \in Nat, k >= 1, Sound(outcomeFile, k)
  PROVE  /\ \A w \in OutcomeWorkers : InOrder(w, 2..k)
         /\ Cardinality(2..k) = k - 1
<1>1. ASSUME NEW w \in OutcomeWorkers, NEW i \in OutcomesOf(w, 2..k)
      PROVE  outcomeFile[i].seq = Cardinality({j \in OutcomesOf(w, 2..k) : j <= i})
  <2>1. i \in 2..k /\ outcomeFile[i].worker = w
    BY DEF OutcomesOf
  <2>2. {j \in OutcomesOf(w, 2..k) : j <= i} = OutcomesTo(outcomeFile, k, w, i)
    BY DEF OutcomesOf, OutcomesTo
  <2> QED
    BY <2>1, <2>2, SoundRank
<1>2. Cardinality(2..k) = k - 1
  <2>1. Cardinality(2..k) = IF 2 > k THEN 0 ELSE k - 2 + 1
    BY FS_Interval
  <2> QED
    BY <2>1
<1> QED
  BY <1>1, <1>2 DEF InOrder

\* What the invariant says, as the reader of the file finds it.
LEMMA FileRead ==
  ASSUME OutcomeInv
  PROVE  OutcomeFileTrue
<1> DEFINE file == StreamOutcomes(outcomeFile)
<1>1. Len(outcomeFile) \in Nat /\ Len(outcomeFile) >= 1 /\ ops \in Nat
      /\ counted \in [OutcomeWorkers -> Nat]
  <2>1. Len(outcomeFile) \in Nat
    BY FlowParts DEF Parts, OutcomeInv
  <2> QED
    BY <2>1 DEF OutcomeInv, Types
<1>2. \/ /\ outcomeResult # Open => Failed
         /\ \E k \in 1..Len(outcomeFile) :
               Broken(outcomeFile, k) /\ (outcomeResult = Open => ops >= k - 1)
      \/ /\ outcomeResult # Open
         /\ \E k \in 1..Len(outcomeFile) :
               /\ Sealed(outcomeFile, k, counted, waiters)
               /\ Failed \/ /\ outcomeResult.status = outcomeFile[k + 1].status
                            /\ outcomeResult.status # "failed"
  <2>1. CASE outcomeResult = Open /\ ~broke
    <3>1. /\ ops = Len(outcomeFile) + Len(buffer) - 1 /\ Len(buffer) \in Nat
          /\ Sound(Flow, Len(outcomeFile) + Len(buffer))
      BY <2>1, FlowFile DEF OutcomeInv
    <3>2. Sound(outcomeFile, Len(outcomeFile))
      <4>1. 0 \in 0..Len(buffer) /\ Len(outcomeFile) >= Len(outcomeFile) + 0
        BY <1>1, <3>1
      <4>2. \A i \in 1..0 : outcomeFile[Len(outcomeFile) + i] = buffer[i]
        OBVIOUS
      <4>3. Sound(outcomeFile, Len(outcomeFile) + 0)
        BY <2>1, <4>1, <4>2, FileGrows DEF OutcomeInv
      <4> QED
        BY <1>1, <4>3
    <3>3. ops >= Len(outcomeFile) - 1 /\ Len(outcomeFile) \in 1..Len(outcomeFile)
      BY <1>1, <3>1
    <3>4. Broken(outcomeFile, Len(outcomeFile))
      BY <3>2 DEF Broken
    <3> QED
      BY <2>1, <3>3, <3>4
  <2>2. CASE outcomeResult = Open /\ broke
    BY <2>2 DEF OutcomeInv, ReadInv
  <2>3. CASE outcomeResult # Open
    BY <2>3 DEF OutcomeInv, ReadInv
  <2> QED
    BY <2>1, <2>2, <2>3
<1>3. CASE /\ outcomeResult # Open => Failed
           /\ \E k \in 1..Len(outcomeFile) :
                 Broken(outcomeFile, k) /\ (outcomeResult = Open => ops >= k - 1)
  <2>1. PICK k \in 1..Len(outcomeFile) :
           Broken(outcomeFile, k) /\ (outcomeResult = Open => ops >= k - 1)
    BY <1>3
  <2>2. file.outcomes = 2..k /\ file.trailer = {}
    BY <1>1, <2>1, BrokenRead
  <2>3. k \in Nat /\ k >= 1 /\ Sound(outcomeFile, k)
    BY <1>1, <2>1 DEF Broken
  <2>4. /\ \A w \in OutcomeWorkers : InOrder(w, 2..k)
        /\ Cardinality(2..k) = k - 1
    BY <2>3, ReadOutcomes
  <2> HIDE DEF file
  <2>5. outcomeResult # Open => outcomeResult.status = "failed" /\ outcomeResult.reason # ""
    BY <1>3 DEF Failed
  <2>6. outcomeResult = Open => Snapshot.ops >= Cardinality(file.outcomes)
    BY <2>1, <2>2, <2>4 DEF Snapshot
  <2> QED
    BY <2>2, <2>4, <2>5, <2>6 DEF OutcomeFileTrue, file
<1>4. CASE /\ outcomeResult # Open
           /\ \E k \in 1..Len(outcomeFile) :
                 /\ Sealed(outcomeFile, k, counted, waiters)
                 /\ Failed \/ /\ outcomeResult.status = outcomeFile[k + 1].status
                              /\ outcomeResult.status # "failed"
  <2>1. PICK k \in 1..Len(outcomeFile) :
           /\ Sealed(outcomeFile, k, counted, waiters)
           /\ Failed \/ /\ outcomeResult.status = outcomeFile[k + 1].status
                        /\ outcomeResult.status # "failed"
    BY <1>4
  <2>2. k \in Nat /\ k >= 1 /\ Sound(outcomeFile, k)
    BY <1>1, <2>1 DEF Sealed
  <2>3. file.outcomes = 2..k /\ file.trailer = {k + 1} /\ ~file.error
    BY <2>1, <2>2, SealedRead
  <2>4. /\ \A w \in OutcomeWorkers : InOrder(w, 2..k)
        /\ Cardinality(2..k) = k - 1
    BY <2>2, ReadOutcomes
  <2>5. outcomeFile[k + 1].ops = k - 1
    BY <2>1 DEF Sealed
  <2>6. outcomeFile[k + 1].status = "complete" =>
           \A w \in OutcomeWorkers :
              Cardinality(OutcomesOf(w, 2..k)) = OutcomeIterations * OutcomesPerWorker
    <3> SUFFICES ASSUME outcomeFile[k + 1].status = "complete", NEW w \in OutcomeWorkers
                 PROVE  Cardinality(OutcomesOf(w, 2..k)) = OutcomeIterations * OutcomesPerWorker
      OBVIOUS
    <3>1. /\ Whole(outcomeFile, k, counted, {})
          /\ counted[w] = OutcomeIterations * OutcomesPerWorker
      BY <2>1 DEF Sealed
    <3>2. Cardinality({i \in 2..k : outcomeFile[i].worker = w}) = counted[w]
      BY <1>1, <2>2, <3>1, WholeCount
    <3> QED
      BY <3>1, <3>2 DEF OutcomesOf
  <2>7. IF outcomeResult.status = "failed" THEN outcomeResult.reason # ""
        ELSE outcomeFile[k + 1].status = outcomeResult.status
    BY <2>1 DEF Failed
  <2> HIDE DEF file
  <2> QED
    BY <1>4, <2>3, <2>4, <2>5, <2>6, <2>7 DEF OutcomeFileTrue, file
<1> QED
  BY <1>2, <1>3, <1>4

\* At any moment, and so when the process is killed: whatever part of a failed write
\* is in the file, a reader finds each worker's outcomes in order; a trailer
\* counts them all, one that says complete has every outcome of every worker
\* above it, and a result that is not failed is in the file.
THEOREM OutcomeTheorem == OSpec => []OutcomeFileTrue
<1>1. OutcomeInv => OutcomeFileTrue
  BY FileRead
<1> QED
  BY <1>1, OutcomeInvariant, PTL

=============================================================================
