------------------------------ MODULE WorkProofs ------------------------------
(***************************************************************************)
(* Proofs about who works when: the pool of workers behind the load gate   *)
(* (LoadGate), the workers that send the explain commands after a run      *)
(* (ExplainJobs), the targets of a run on several servers (MultiTarget)    *)
(* and the levels of a sweep (Sweep), for any number of each of them.      *)
(***************************************************************************)
EXTENDS LoadGate, ExplainJobs, MultiTarget, Sweep, FiniteSetTheorems,
        WellFoundedInduction, TLAPS

TargetRange(p) == 0..Peak(p, GateFallback)

\* What the compiled profiles of a run give (loadprofile.Compile).
ProfilesFit ==
    /\ RunTicks \in Nat
    /\ \A p \in GateProfiles :
          /\ Compiles(p) /\ Peak(p, GateFallback) \in Nat
          /\ \A t \in 0..RunTicks : TargetAt(p, GateFallback, t) \in TargetRange(p)

GatePlaces == {"look", "paced", "operation", "parked", "unwound", "gone"}
Left == {"unwound", "gone"}

Types ==
    /\ profile \in GateProfiles /\ elapsed \in 0..RunTicks /\ target \in TargetRange(profile)
    /\ gate \in [Pool -> GatePlaces] /\ unparked \subseteq Pool
    /\ contextDone \in {"no", "deadline", "stopped", "panic"}
    /\ window \in {"open", "closed"}
    /\ measured \in [within : {0, 1}, outside : {0, 1}]

\* The gauge counts the workers behind the gate, which are not gone.
GaugeInv ==
    /\ active = Cardinality(unparked)
    /\ \A w \in Pool : /\ gate[w] \in {"paced", "operation"} => w \in unparked
                       /\ gate[w] \in Left => w \notin unparked

\* The window closes after the last worker and after the context is done; a
\* context that a panic ended has that panic, or an earlier one, behind it.
WindowInv ==
    /\ measured.outside = 0
    /\ window = "closed" => contextDone # "no" /\ \A w \in Pool : gate[w] \in Left
    /\ contextDone = "panic" => panicErr # NoError
    /\ runResult # NotYet => /\ window = "closed"
                             /\ \/ runResult = NoError /\ contextDone # "panic"
                                \/ runResult = panicErr /\ panicErr # NoError

GateInv == Types /\ GaugeInv /\ WindowInv

-----------------------------------------------------------------------------
\* Induction, as the least counterexample.
NatOrder == {p \in Nat \X Nat : p[1] < p[2]}

LEMMA LeastOf ==
    ASSUME NEW T, T \subseteq Nat, T # {}
    PROVE  \E m \in T : \A j \in T : m <= j
<1>1. IsWellFoundedOn(NatOrder, Nat)
  BY NatLessThanWellFounded DEF OpToRel, NatOrder
<1>2. PICK m \in T : \A j \in T : ~(<<j, m>> \in NatOrder)
  BY <1>1, WFMin
<1>3. ASSUME NEW j \in T PROVE m <= j
  <2>1. m \in Nat /\ j \in Nat
    OBVIOUS
  <2>2. ~(<<j, m>> \in NatOrder)
    BY <1>2
  <2>3. ~(j < m)
    BY <2>1, <2>2 DEF NatOrder
  <2> QED
    BY <2>1, <2>3
<1> QED
  BY <1>3

\* The profiles that are not stages fit, whatever their numbers: rounding does
\* not take a ramp or a sine beyond its ends (TargetAt).
LEMMA MaxOfTwo ==
    ASSUME NEW a \in Nat, NEW b \in Nat
    PROVE  Max({a, b}) \in Nat /\ a <= Max({a, b}) /\ b <= Max({a, b})
<1>1. \E x \in {a, b} : \A y \in {a, b} : x >= y
  <2>1. CASE a >= b
    BY <2>1
  <2>2. CASE b >= a
    BY <2>2
  <2>3. QED
    BY <2>1, <2>2
<1>2. Max({a, b}) \in {a, b} /\ \A y \in {a, b} : Max({a, b}) >= y
  BY <1>1 DEF Max
<1>3. QED
  BY <1>2

LEMMA RoundedBelow ==
    ASSUME NEW n \in Nat, NEW d \in Nat \ {0}, NEW m \in Nat, n <= m * d
    PROVE  Rounded(n, d) \in 0..m
<1> DEFINE q == (2 * n + d) \div (2 * d)
           e == 2 * d
           k == 2 * n + d
<1>1. e \in Nat \ {0} /\ k \in Nat
  OBVIOUS
<1>2. q \in Nat /\ q * e <= k
  <2> HIDE DEF e, k
  <2>1. (k \div e) \in Nat /\ (k \div e) * e <= k
    BY <1>1
  <2>2. QED
    BY <2>1 DEF e, k
<1>3. k < (m + 1) * e
  <2>1. (m + 1) * e = 2 * (m * d) + 2 * d
    OBVIOUS
  <2>2. QED
    BY <2>1
<1>4. q < m + 1
  <2>1. SUFFICES ASSUME q >= m + 1 PROVE FALSE
    BY <1>2
  <2>2. q * e >= (m + 1) * e
    <3> HIDE DEF q, e
    <3>1. QED
      BY <2>1, <1>1, <1>2
  <2>3. QED
    BY <2>2, <1>1, <1>2, <1>3
<1>5. QED
  BY <1>2, <1>4 DEF Rounded

LEMMA RampFits ==
    ASSUME NEW p \in [kind : {"ramp"}, start : Nat, end : Nat, over : Nat], Compiles(p), NEW t \in Nat
    PROVE  Ramp(p, t) \in 0..Max({p.start, p.end})
<1> DEFINE m == Max({p.start, p.end})
<1>1. m \in Nat /\ p.start <= m /\ p.end <= m
  BY MaxOfTwo
<1>2. CASE t >= p.over
  BY <1>1, <1>2 DEF Ramp
<1>3. CASE ~(t >= p.over)
  <2> DEFINE n == p.start * (p.over - t) + p.end * t
  <2>1. p.over \in Nat \ {0} /\ p.over - t \in Nat
    BY <1>3
  <2>2. n \in Nat /\ n <= m * p.over
    <3> HIDE DEF m
    <3>1. p.start * (p.over - t) \in Nat /\ p.start * (p.over - t) <= m * (p.over - t)
      BY <1>1, <2>1
    <3>2. p.end * t \in Nat /\ p.end * t <= m * t
      BY <1>1
    <3>3. m * (p.over - t) + m * t = m * p.over
      BY <1>1, <2>1
    <3>4. m * (p.over - t) \in Nat /\ m * t \in Nat /\ m * p.over \in Nat
      BY <1>1, <2>1
    <3>5. QED
      BY <3>1, <3>2, <3>3, <3>4
  <2>3. Rounded(n, p.over) \in 0..m
    <3> HIDE DEF n, m
    <3>1. QED
      BY <1>1, <2>1, <2>2, RoundedBelow
  <2>4. QED
    BY <1>3, <2>3 DEF Ramp
<1>4. QED
  BY <1>2, <1>3

LEMMA SineFits ==
    ASSUME NEW p \in [kind : {"sine"}, min : Nat, max : Nat, quarter : Nat \ {0}], Compiles(p), NEW t \in Nat
    PROVE  Sine(p, t) \in 0..p.max
<1>1. p.min <= p.max
  BY DEF Compiles
<1>2. Rounded(p.min + p.max, 2) \in 0..p.max
  BY <1>1, RoundedBelow
<1>3. QED
  BY <1>1, <1>2 DEF Sine

\* Of natural numbers in a row one is the largest.
LEMMA LargestOf ==
    ASSUME NEW n \in Nat \ {0}, NEW f, \A i \in 1..n : f[i] \in Nat
    PROVE  \E i \in 1..n : \A j \in 1..n : f[j] <= f[i]
<1> DEFINE Has(k) == \E i \in 1..k : \A j \in 1..k : f[j] <= f[i]
           lacking == {k \in 1..n : ~Has(k)}
<1>1. SUFFICES ASSUME lacking # {} PROVE FALSE
  BY <1>1
<1>2. PICK k \in lacking : \A j \in lacking : k <= j
  <2>1. lacking \subseteq Nat
    OBVIOUS
  <2> HIDE DEF lacking
  <2> QED
    BY <1>1, <2>1, LeastOf
<1>3. k \in 1..n /\ ~Has(k)
  OBVIOUS
<1>4. k # 1
  BY <1>3
<1>5. k - 1 \in 1..n /\ Has(k - 1)
  <2> HIDE DEF Has
  <2>1. k - 1 \in 1..n /\ ~(k <= k - 1)
    BY <1>3, <1>4
  <2>2. k - 1 \notin lacking
    <3> HIDE DEF lacking
    <3> QED
      BY <1>2, <2>1
  <2> QED
    BY <2>1, <2>2
<1>6. PICK i \in 1..(k - 1) : \A j \in 1..(k - 1) : f[j] <= f[i]
  BY <1>5
<1>7. CASE f[k] <= f[i]
  BY <1>3, <1>6, <1>7
<1>8. CASE f[i] <= f[k]
  <2>1. ASSUME NEW j \in 1..k PROVE f[j] <= f[k]
    <3>1. j = k \/ j \in 1..(k - 1)
      BY <1>3
    <3>2. f[j] \in Nat /\ f[i] \in Nat /\ f[k] \in Nat
      BY <1>3, <1>6
    <3>3. QED
      BY <3>1, <3>2, <1>6, <1>8
  <2>2. QED
    BY <2>1, <1>3
<1>9. f[k] \in Nat /\ f[i] \in Nat
  BY <1>3, <1>6
<1> QED
  BY <1>7, <1>8, <1>9

\* The stage of the moment is one of the stages, and none asks for more than
\* the largest of them (StepAt).
LEMMA StepFits ==
    ASSUME NEW p \in [kind : {"step"}, steps : Seq([workers : Nat, duration : Nat])], Compiles(p),
           NEW t \in Nat
    PROVE  /\ Max({p.steps[i].workers : i \in DOMAIN p.steps}) \in Nat
           /\ StepAt(p, t) \in 0..Max({p.steps[i].workers : i \in DOMAIN p.steps})
<1> DEFINE n == Len(p.steps)
           asked == [i \in 1..n |-> p.steps[i].workers]
           counts == {p.steps[i].workers : i \in DOMAIN p.steps}
<1>1. p.steps \in Seq([workers : Nat, duration : Nat]) /\ p.steps # <<>>
  BY DEF Compiles
<1>2. n \in Nat \ {0} /\ DOMAIN p.steps = 1..n
  BY <1>1
<1>3. \A i \in 1..n : p.steps[i].workers \in Nat
  <2>1. ASSUME NEW S, NEW s \in Seq(S) PROVE \A i \in 1..Len(s) : s[i] \in S
    OBVIOUS
  <2>2. \A i \in 1..n : p.steps[i] \in [workers : Nat, duration : Nat]
    BY Zenon, <1>1, <2>1
  <2> QED
    BY <2>2
<1>4. PICK i \in 1..n : \A j \in 1..n : asked[j] <= asked[i]
  <2> HIDE DEF n
  <2>1. \A j \in 1..n : asked[j] \in Nat
    BY <1>3
  <2> HIDE DEF asked
  <2> QED
    BY <1>2, <2>1, LargestOf
<1>5. \E x \in counts : \A y \in counts : x >= y
  <2> HIDE DEF n
  <2>1. \A j \in 1..n : p.steps[j].workers <= p.steps[i].workers
    BY <1>4
  <2>2. QED
    BY <2>1, <1>2, <1>3
<1>6. Max(counts) \in counts /\ \A y \in counts : Max(counts) >= y
  <2> HIDE DEF counts
  <2> QED
    BY <1>5 DEF Max
<1>7. Max(counts) \in Nat
  <2> HIDE DEF n
  <2> QED
    BY <1>2, <1>3, <1>6
<1>8. ASSUME NEW on \in SUBSET (1..n) PROVE (IF on = {} THEN n ELSE Min(on)) \in 1..n
  <2> HIDE DEF n
  <2>1. CASE on = {}
    BY <1>2, <2>1
  <2>2. CASE on # {}
    <3>1. \E x \in on : \A y \in on : x <= y
      <4>1. on \subseteq Nat
        BY <1>2
      <4> QED
        BY Zenon, <2>2, <4>1, LeastOf
    <3>2. Min(on) \in on
      BY <3>1 DEF Min
    <3>3. QED
      BY <2>2, <3>2
  <2>3. QED
    BY <2>1, <2>2
<1>9. StepAt(p, t) \in counts
  <2> DEFINE Until(k) == FoldLeft(LAMBDA sum, st : sum + st.duration, 0, SubSeq(p.steps, 1, k))
             on == {k \in DOMAIN p.steps : t < Until(k)}
             stage == IF on = {} THEN Len(p.steps) ELSE Min(on)
  <2>1. on \in SUBSET (1..n)
    <3> HIDE DEF Until, n
    <3> QED
      BY <1>2
  <2>2. stage \in 1..n
    <3> HIDE DEF on
    <3> QED
      BY <2>1, <1>8
  <2>3. StepAt(p, t) = p.steps[stage].workers
    BY DEF StepAt
  <2>4. QED
    <3> HIDE DEF stage, n
    <3> QED
      BY <2>2, <2>3, <1>2
<1>10. counts \subseteq Nat
  <2> HIDE DEF n
  <2> QED
    BY <1>2, <1>3
<1>11. QED
  <2> HIDE DEF counts
  <2>1. StepAt(p, t) \in Nat
    BY <1>9, <1>10
  <2>2. StepAt(p, t) <= Max(counts)
    BY <1>6, <1>7, <1>9, <1>10
  <2>3. StepAt(p, t) \in 0..Max(counts)
    BY <2>1, <2>2, <1>7
  <2> QED
    BY <1>7, <2>3 DEF counts

\* Every compiled profile fits (Compile, TargetAt).
LEMMA ProfilesAreFit == ProfilesFit
<1> SUFFICES ASSUME NEW p \in GateProfiles
             PROVE  /\ Peak(p, GateFallback) \in Nat
                    /\ \A t \in 0..RunTicks : TargetAt(p, GateFallback, t) \in TargetRange(p)
  BY GateAssumption DEF ProfilesFit
<1> USE GateAssumption
<1>1. CASE p \in [kind : {"fixed"}, workers : Nat]
  BY <1>1 DEF Peak, TargetAt, TargetRange
<1>2. CASE p \in [kind : {"ramp"}, start : Nat, end : Nat, over : Nat]
  <2>1. Peak(p, GateFallback) = Max({p.start, p.end})
    BY <1>2 DEF Peak
  <2>2. \A t \in 0..RunTicks : TargetAt(p, GateFallback, t) = Ramp(p, t)
    BY <1>2 DEF TargetAt
  <2>3. \A t \in 0..RunTicks : Ramp(p, t) \in 0..Max({p.start, p.end})
    BY <1>2, RampFits
  <2>4. QED
    BY <1>2, <2>1, <2>2, <2>3, MaxOfTwo DEF TargetRange
<1>3. CASE p \in [kind : {"spike"}, base : Nat, peak : Nat, at : Nat, for : Nat]
  <2>1. Peak(p, GateFallback) = Max({p.base, p.peak})
    BY <1>3 DEF Peak
  <2>2. \A t \in 0..RunTicks : TargetAt(p, GateFallback, t) \in {p.base, p.peak}
    BY <1>3 DEF TargetAt, Spike
  <2>3. QED
    BY <1>3, <2>1, <2>2, MaxOfTwo DEF TargetRange
<1>4. CASE p \in [kind : {"sine"}, min : Nat, max : Nat, quarter : Nat \ {0}]
  <2>1. Peak(p, GateFallback) = p.max
    BY <1>4 DEF Peak
  <2>2. \A t \in 0..RunTicks : TargetAt(p, GateFallback, t) = Sine(p, t)
    BY <1>4 DEF TargetAt
  <2>3. QED
    BY <1>4, <2>1, <2>2, SineFits DEF TargetRange
<1>5. CASE p \in [kind : {"step"}, steps : Seq([workers : Nat, duration : Nat])]
  <2>1. Peak(p, GateFallback) = Max({p.steps[i].workers : i \in DOMAIN p.steps})
    BY <1>5 DEF Peak
  <2>2. \A t \in 0..RunTicks : TargetAt(p, GateFallback, t) = StepAt(p, t)
    BY <1>5 DEF TargetAt
  <2>3. Compiles(p) /\ 0 \in Nat
    OBVIOUS
  <2>4. \A t \in 0..RunTicks : t \in Nat
    OBVIOUS
  <2>5. Max({p.steps[i].workers : i \in DOMAIN p.steps}) \in Nat
    BY Zenon, <1>5, <2>3, StepFits
  <2>6. \A t \in 0..RunTicks :
           StepAt(p, t) \in 0..Max({p.steps[i].workers : i \in DOMAIN p.steps})
    BY Zenon, <1>5, <2>3, <2>4, StepFits
  <2>7. QED
    BY <2>1, <2>2, <2>5, <2>6 DEF TargetRange
<1>6. QED
  BY <1>1, <1>2, <1>3, <1>4, <1>5 DEF Profiles

\* Sets of workers are finite.
LEMMA PoolFinite ==
    ASSUME ProfilesFit, Types
    PROVE  /\ IsFiniteSet(Pool) /\ Cardinality(Pool) = Peak(profile, GateFallback)
           /\ IsFiniteSet(unparked) /\ Cardinality(unparked) \in Nat
<1>1. Peak(profile, GateFallback) \in Nat
  BY DEF ProfilesFit, Types
<1>2. IsFiniteSet(Pool) /\ Cardinality(Pool) = Peak(profile, GateFallback)
  BY <1>1, FS_Interval DEF Pool
<1>3. IsFiniteSet(unparked)
  BY <1>2, FS_Subset DEF Types
<1>4. QED
  BY <1>2, <1>3, FS_CardinalityType

LEMMA InitInv == ProfilesFit /\ GInit => GateInv
<1> SUFFICES ASSUME ProfilesFit, GInit PROVE GateInv
  OBVIOUS
<1>1. Types
  BY DEF ProfilesFit, GInit, Types, GatePlaces, TargetRange
<1>2. GaugeInv
  BY FS_EmptySet DEF GInit, GaugeInv
<1>3. WindowInv
  BY DEF GInit, WindowInv
<1>4. QED
  BY <1>1, <1>2, <1>3 DEF GateInv

\* The pool does not change during a run.
LEMMA SamePool == ASSUME UNCHANGED profile PROVE Pool' = Pool /\ TargetRange(profile)' = TargetRange(profile)
BY DEF Pool, TargetRange

\* Steps that leave the gate alone.
LEMMA ClockSteps ==
    ASSUME ProfilesFit, GateInv,
           Tick \/ StopRun \/ Publish \/ \E h \in Helpers : HelperEnds(h)
    PROVE  GateInv'
<1> USE DEF GateInv
<1>1. UNCHANGED <<profile, active, gate, unparked, panicErr, window, measured, runResult>>
  BY DEF Tick, StopRun, Publish, HelperEnds
<1>2. Pool' = Pool /\ TargetRange(profile)' = TargetRange(profile)
  BY <1>1, SamePool
<1>3. elapsed' \in 0..RunTicks
  BY DEF Types, Tick, StopRun, Publish, HelperEnds, ProfilesFit
<1>4. target' \in TargetRange(profile)
  BY DEF Types, Tick, StopRun, Publish, HelperEnds, ProfilesFit
<1>5. contextDone' \in {"no", "deadline", "stopped", "panic"}
  BY DEF Types, Tick, StopRun, Publish, HelperEnds
<1>6. Types'
  BY <1>1, <1>2, <1>3, <1>4, <1>5 DEF Types
<1>7. contextDone' = contextDone \/ (contextDone = "no" /\ contextDone' \in {"deadline", "stopped"})
  BY DEF Tick, StopRun, Publish, HelperEnds
<1>8. GaugeInv' /\ WindowInv'
  BY <1>1, <1>2, <1>7 DEF GaugeInv, WindowInv
<1>9. QED
  BY <1>6, <1>8

\* A worker that leaves takes itself off the gauge, if it was on it.
LEMMA LeavesGauge ==
    ASSUME ProfilesFit, GateInv, NEW w \in Pool, UNCHANGED profile,
           unparked' = unparked \ {w},
           active' = IF w \in unparked THEN active - 1 ELSE active
    PROVE  active' = Cardinality(unparked') /\ unparked' \subseteq Pool'
<1>1. IsFiniteSet(unparked)
  BY PoolFinite DEF GateInv
<1>2. active' = Cardinality(unparked')
  BY <1>1, FS_RemoveElement DEF GateInv, GaugeInv
<1>3. QED
  BY <1>2, SamePool DEF GateInv, Types

\* Every step of a worker through the loop.
LEMMA GateSteps ==
    ASSUME ProfilesFit, GateInv, NEW w \in Pool, Look(w) \/ Unpark(w) \/ Send(w) \/ Reply(w)
    PROVE  GateInv'
<1> USE DEF GateInv
<1>1. UNCHANGED <<profile, elapsed, target, contextDone, panicErr, window, runResult>>
  BY DEF Look, Unpark, Send, Reply
<1>2. Pool' = Pool /\ TargetRange(profile)' = TargetRange(profile)
  BY <1>1, SamePool
<1>3. gate[w] \notin Left /\ \E where \in GatePlaces : gate' = [gate EXCEPT ![w] = where]
  BY DEF Look, Unpark, Send, Reply, Goto, Gone, GatePlaces, Left
<1>4. gate' \in [Pool -> GatePlaces] /\ \A v \in Pool : v # w => gate'[v] = gate[v]
  BY <1>3 DEF Types
<1>5. window = "open" /\ runResult = NotYet
  BY <1>3 DEF WindowInv, Types
<1>6. measured' \in [within : {0, 1}, outside : {0, 1}] /\ measured'.outside = 0
  BY <1>5 DEF Look, Unpark, Send, Reply, Types, WindowInv
<1>7. WindowInv'
  BY <1>1, <1>5, <1>6 DEF WindowInv
<1>8. /\ unparked' \subseteq Pool /\ active' = Cardinality(unparked')
      /\ \A v \in Pool : v # w => (v \in unparked' <=> v \in unparked)
      /\ gate'[w] \in {"paced", "operation"} => w \in unparked'
      /\ gate'[w] \in Left => w \notin unparked'
  <2>1. CASE Look(w) /\ contextDone # "no"
    <3>1. gate'[w] = "gone" /\ unparked' = unparked \ {w}
          /\ active' = IF w \in unparked THEN active - 1 ELSE active
      BY <2>1 DEF Look, Gone, Goto, Types
    <3>2. QED
      BY <1>1, <1>2, <3>1, LeavesGauge DEF Left
  <2>2. CASE Look(w) /\ contextDone = "no" /\ w <= target
    <3>1. gate'[w] = "paced" /\ unparked' = unparked \cup {w}
          /\ active' = IF w \in unparked THEN active ELSE active + 1
      BY <2>2 DEF Look, Goto, Types
    <3>2. active' = Cardinality(unparked')
      BY <3>1, PoolFinite, FS_AddElement DEF GaugeInv
    <3>3. QED
      BY <3>1, <3>2 DEF Types, Left
  <2>3. CASE Look(w) /\ contextDone = "no" /\ ~(w <= target)
    <3>1. gate'[w] = "parked" /\ unparked' = unparked \ {w}
          /\ active' = IF w \in unparked THEN active - 1 ELSE active
      BY <2>3 DEF Look, Goto, Types
    <3>2. QED
      BY <1>1, <1>2, <3>1, LeavesGauge DEF Left
  <2>4. CASE Unpark(w)
    BY <2>4 DEF Unpark, Goto, Types, GaugeInv, Left
  <2>5. CASE Send(w)
    BY <2>5 DEF Send, Goto, Types, GaugeInv, Left
  <2>6. CASE Reply(w)
    BY <2>6 DEF Reply, Goto, Types, GaugeInv, Left
  <2>7. QED
    BY <2>1, <2>2, <2>3, <2>4, <2>5, <2>6
<1>9. GaugeInv'
  BY <1>2, <1>4, <1>8 DEF GaugeInv
<1>10. Types'
  BY <1>1, <1>2, <1>4, <1>6, <1>8 DEF Types
<1>11. QED
  BY <1>7, <1>9, <1>10

\* A panic takes the worker off the gauge, before it is reported.
LEMMA PanicStep ==
    ASSUME ProfilesFit, GateInv, NEW w \in Pool, WorkerPanics(w)
    PROVE  GateInv'
<1> USE DEF GateInv
<1>1. UNCHANGED <<profile, elapsed, target, contextDone, panicErr, window, measured, runResult>>
  BY DEF WorkerPanics
<1>2. Pool' = Pool /\ TargetRange(profile)' = TargetRange(profile)
  BY <1>1, SamePool
<1>3. /\ gate[w] \notin Left /\ gate' = [gate EXCEPT ![w] = "unwound"]
      /\ unparked' = unparked \ {w}
      /\ active' = IF w \in unparked THEN active - 1 ELSE active
  BY DEF WorkerPanics, Goto, Left
<1>4. active' = Cardinality(unparked')
  BY <1>1, <1>3, LeavesGauge
<1>5. Types'
  BY <1>1, <1>2, <1>3 DEF Types, GatePlaces
<1>6. GaugeInv'
  BY <1>2, <1>3, <1>4 DEF GaugeInv, Types
<1>7. WindowInv'
  BY <1>1, <1>2, <1>3 DEF WindowInv, Types
<1>8. QED
  BY <1>5, <1>6, <1>7

\* A report keeps the first panic; a run that returned keeps its result.
LEMMA ReportStep ==
    ASSUME ProfilesFit, GateInv, NEW panic, panic # NoError, Report(panic),
           UNCHANGED <<profile, elapsed, target, active, unparked, window, measured, runResult>>,
           \/ UNCHANGED gate
           \/ \E w \in Pool : gate[w] = "unwound" /\ gate' = [gate EXCEPT ![w] = "gone"]
    PROVE  GateInv'
<1> USE DEF GateInv
<1>1. Pool' = Pool /\ TargetRange(profile)' = TargetRange(profile)
  BY SamePool
<1>2. /\ panicErr' # NoError /\ (panicErr # NoError => panicErr' = panicErr)
      /\ contextDone' = IF contextDone = "no" THEN "panic" ELSE contextDone
  BY DEF Report
<1>3. /\ gate' \in [Pool -> GatePlaces]
      /\ \A v \in Pool : gate'[v] = gate[v] \/ (gate[v] \in Left /\ gate'[v] \in Left)
  BY DEF Types, GatePlaces, Left
<1>4. Types'
  BY <1>1, <1>2, <1>3 DEF Types
<1>5. GaugeInv'
  BY <1>1, <1>3 DEF GaugeInv, Left
<1>6. WindowInv'
  BY <1>1, <1>2, <1>3 DEF WindowInv, Types
<1>7. QED
  BY <1>4, <1>5, <1>6

LEMMA ReportSteps ==
    ASSUME ProfilesFit, GateInv,
           \/ \E w \in Pool : ReportWorker(w)
           \/ \E h \in Helpers : HelperPanics(h)
    PROVE  GateInv'
<1>1. ASSUME NEW w \in Pool, ReportWorker(w) PROVE GateInv'
  <2>1. PanicOf("worker", w) # NoError
    BY DEF PanicOf, NoError
  <2> QED
    BY <1>1, <2>1, ReportStep DEF ReportWorker, Goto
<1>2. ASSUME NEW h \in Helpers, HelperPanics(h) PROVE GateInv'
  <2>1. PanicOf(h, 0) # NoError
    BY DEF PanicOf, NoError, Helpers
  <2> QED
    BY <1>2, <2>1, ReportStep DEF HelperPanics
<1> QED
  BY <1>1, <1>2

\* The end of the run.
LEMMA EndSteps ==
    ASSUME ProfilesFit, GateInv, CloseWindow \/ ReturnFromRun
    PROVE  GateInv'
<1> USE DEF GateInv
<1>1. UNCHANGED <<profile, elapsed, target, active, gate, unparked, contextDone, panicErr, measured>>
  BY DEF CloseWindow, ReturnFromRun
<1>2. Pool' = Pool /\ TargetRange(profile)' = TargetRange(profile)
  BY <1>1, SamePool
<1>3. Types' /\ GaugeInv'
  BY <1>1, <1>2 DEF Types, GaugeInv, CloseWindow, ReturnFromRun
<1>4. WindowInv'
  BY <1>1, <1>2 DEF WindowInv, Types, CloseWindow, ReturnFromRun, Left
<1>5. QED
  BY <1>3, <1>4

LEMMA StepInv == ProfilesFit /\ GateInv /\ [GNext]_gateVars => GateInv'
<1> SUFFICES ASSUME ProfilesFit, GateInv, [GNext]_gateVars PROVE GateInv'
  OBVIOUS
<1>1. CASE UNCHANGED gateVars
  BY <1>1, SamePool DEF gateVars, GateInv, Types, GaugeInv, WindowInv
<1>2. CASE RunStep \/ StopRun
  BY <1>2, ClockSteps, EndSteps DEF RunStep
<1>3. ASSUME NEW w \in Pool, GateStep(w) \/ WorkerPanics(w) PROVE GateInv'
  BY <1>3, GateSteps, PanicStep, ReportSteps DEF GateStep
<1>4. ASSUME NEW h \in Helpers, HelperPanics(h) PROVE GateInv'
  BY <1>4, ReportSteps
<1>5. QED
  BY <1>1, <1>2, <1>3, <1>4 DEF GNext

\* The invariant says what the run reports of its load.
LEMMA InvImplies == ProfilesFit /\ GateInv => LoadMeasured
<1> SUFFICES ASSUME ProfilesFit, GateInv PROVE LoadMeasured
  OBVIOUS
<1>1. Cardinality(Pool) = Peak(profile, GateFallback) /\ Peak(profile, GateFallback) \in Nat
  BY PoolFinite DEF GateInv, Types, ProfilesFit
<1>2. runResult # NotYet => active = 0
  <2>1. SUFFICES ASSUME runResult # NotYet PROVE unparked = {}
    BY FS_EmptySet DEF GateInv, GaugeInv
  <2>2. QED
    BY <2>1 DEF GateInv, GaugeInv, WindowInv, Types
<1>3. GaugeBalanced
  BY <1>1, <1>2 DEF GaugeBalanced, GateInv, GaugeInv, Types, TargetRange
<1>4. WindowHoldsOperations
  <2>1. NoError # NotYet
    BY DEF NoError, NotYet, PanicOf
  <2> QED
    BY <2>1 DEF WindowHoldsOperations, GateInv, WindowInv
<1>5. QED
  BY <1>3, <1>4 DEF LoadMeasured

\* For any number of workers the gauge counts those behind the gate, whoever
\* parks, leaves or panics; at the end it is 0 and the measured window holds every
\* operation; a run that a panic ended fails, with the panic that was reported
\* first (independentWorker, runContinuousWorkload).
THEOREM LoadTheorem == GSpec => []LoadMeasured
<1>1. GInit => GateInv
  BY InitInv, ProfilesAreFit
<1>2. GateInv /\ [GNext]_gateVars => GateInv'
  BY StepInv, ProfilesAreFit
<1>3. GateInv => LoadMeasured
  BY InvImplies, ProfilesAreFit
<1>4. QED
  BY <1>1, <1>2, <1>3, PTL DEF GSpec

-----------------------------------------------------------------------------
(***************************************************************************)
(* The explain jobs.  A job that was handed over is with exactly one       *)
(* worker or has its result (OwnerInv); what its worker does next fits the *)
(* commands that were sent for it (Fits), and these are repeated only for  *)
(* a timeout (Chain).                                                      *)
(***************************************************************************)

ExplainHand == [at : Places, job : Nat, attempt : Nat, limit : Nat]
JobEvidence == [status : Statuses \cup {"none"}, attempts : Nat]
JobAnswer == [status : Statuses, limit : Nat \ {0}]

\* The commands of one job.
Chain(s) ==
    \A i \in 1..Len(s) - 1 :
        s[i].status = "timed_out" /\ s[i + 1].limit = Longer(s[i].limit)

\* A worker at one of its steps, after the commands s of its job.
Fits(h, s) ==
    \/ h.at = "take" /\ s = <<>> /\ h.attempt = 0
    \/ /\ h.at \in {"try", "sent"} /\ Len(s) = h.attempt /\ h.limit # 0
       /\ s # <<>> => s[Len(s)].status = "timed_out" /\ h.limit = Longer(s[Len(s)].limit)
    \/ /\ h.at = "backoff" /\ s # <<>> /\ Len(s) = h.attempt + 1
       /\ s[Len(s)].status = "timed_out" /\ s[Len(s)].limit = h.limit

Busy(h) == h.at \in {"take", "try", "sent", "backoff"}
Answered(e, s) == e.status # "none" /\ e.attempts = Len(s)

ExplainTypes ==
    /\ hand \in [ExplainWorkers -> ExplainHand]
    /\ dispatched \in 0..Len(JobDatabase)
    /\ evidence \in [Jobs -> JobEvidence]
    /\ answers \in [Jobs -> Seq(JobAnswer)]
    /\ DOMAIN connections = ExplainWorkers

OwnerInv ==
    /\ \A w \in ExplainWorkers :
          Busy(hand[w]) => hand[w].job \in 1..dispatched /\ Fits(hand[w], answers[hand[w].job])
    /\ \A v, w \in ExplainWorkers :
          Busy(hand[v]) /\ Busy(hand[w]) /\ hand[v].job = hand[w].job => v = w
    /\ \A j \in Jobs :
          IF j > dispatched THEN answers[j] = <<>>
          ELSE \/ Answered(evidence[j], answers[j])
               \/ \E w \in ExplainWorkers : Busy(hand[w]) /\ hand[w].job = j

ChainInv == \A j \in Jobs : Chain(answers[j])

\* At the end everybody is gone, with what they had open.
GoneInv ==
    /\ \A w \in ExplainWorkers : hand[w].at = "gone" => connections[w] = {}
    /\ build = "done" =>
          /\ \A w \in ExplainWorkers : hand[w].at = "gone"
          /\ \A j \in Jobs : Answered(evidence[j], answers[j])

ExplainInv == ExplainTypes /\ OwnerInv /\ ChainInv /\ GoneInv

LEMMA IdleHand == Idle \in ExplainHand /\ Idle.at = "idle"
  BY DEF Idle, ExplainHand, Places

LEMMA JobsAre == Len(JobDatabase) \in Nat /\ Jobs = 1..Len(JobDatabase)
  BY ExplainAssumption DEF Jobs

LEMMA ExplainInitial == XInit => ExplainInv
<1> SUFFICES ASSUME XInit PROVE ExplainInv
  OBVIOUS
<1>1. Idle \in ExplainHand /\ Idle.at = "idle"
  BY IdleHand
<1>2. NoEvidence \in JobEvidence
  BY DEF NoEvidence, JobEvidence
<1>3. <<>> \in Seq(JobAnswer) /\ Len(<<>>) = 0
  OBVIOUS
<1>4. dispatched = 0 /\ build = "idle"
  BY DEF XInit
<1>5. ExplainTypes
  <2>1. dispatched \in 0..Len(JobDatabase)
    BY <1>4, JobsAre
  <2> QED
    BY <1>1, <1>2, <1>3, <2>1 DEF XInit, ExplainTypes
<1>6. OwnerInv
  <2>1. \A w \in ExplainWorkers : ~Busy(hand[w])
    BY <1>1 DEF XInit, Busy
  <2>2. \A j \in Jobs : j > dispatched /\ answers[j] = <<>>
    BY <1>4, JobsAre DEF XInit
  <2> QED
    BY <2>1, <2>2 DEF OwnerInv
<1>7. ChainInv
  BY <1>3 DEF XInit, ChainInv, Chain
<1>8. GoneInv
  BY <1>1, <1>4 DEF XInit, GoneInv
<1> QED
  BY <1>5, <1>6, <1>7, <1>8 DEF ExplainInv

\* A step of a busy worker: it goes on with its job, or has its result.
LEMMA WorkerMoves ==
    ASSUME ExplainInv, NEW w \in ExplainWorkers, Busy(hand[w]),
           NEW h \in ExplainHand, NEW e \in JobEvidence, NEW s \in Seq(JobAnswer),
           hand' = [hand EXCEPT ![w] = h],
           evidence' = [evidence EXCEPT ![hand[w].job] = e],
           answers' = [answers EXCEPT ![hand[w].job] = s],
           UNCHANGED <<build, dispatched>>,
           DOMAIN connections' = ExplainWorkers,
           \A v \in ExplainWorkers : v # w => connections'[v] = connections[v],
           Chain(s),
           \/ h.at = "idle" /\ Answered(e, s)
           \/ Busy(h) /\ h.job = hand[w].job /\ Fits(h, s)
    PROVE  ExplainInv'
<1> DEFINE job == hand[w].job
<1>1. job \in 1..dispatched /\ job \in Jobs
  BY JobsAre DEF ExplainInv, OwnerInv, ExplainTypes
<1>2. hand'[w] = h /\ \A v \in ExplainWorkers : v # w => hand'[v] = hand[v]
  BY DEF ExplainInv, ExplainTypes
<1>3. /\ evidence'[job] = e /\ answers'[job] = s
      /\ \A j \in Jobs : j # job => evidence'[j] = evidence[j] /\ answers'[j] = answers[j]
  BY <1>1 DEF ExplainInv, ExplainTypes
<1>4. \A v \in ExplainWorkers : v # w /\ Busy(hand[v]) => hand[v].job # job
  BY DEF ExplainInv, OwnerInv
<1>5. h.at # "gone" /\ hand[w].at # "gone"
  BY DEF Busy
<1>6. h.at = "idle" => ~Busy(h)
  BY DEF Busy
<1>7. ExplainTypes'
  BY DEF ExplainInv, ExplainTypes
<1> HIDE DEF job
<1>8. OwnerInv'
  <2>1. ASSUME NEW v \in ExplainWorkers, Busy(hand'[v])
        PROVE  hand'[v].job \in 1..dispatched' /\ Fits(hand'[v], answers'[hand'[v].job])
    <3>1. CASE v = w
      BY <1>1, <1>2, <1>3, <1>6, <2>1, <3>1 DEF job
    <3>2. CASE v # w
      <4>1. hand[v].job \in 1..dispatched /\ Fits(hand[v], answers[hand[v].job])
        BY <1>2, <2>1, <3>2 DEF ExplainInv, OwnerInv
      <4>2. hand[v].job \in Jobs /\ hand[v].job # job
        BY <1>2, <1>4, <2>1, <3>2, <4>1, JobsAre DEF ExplainInv, ExplainTypes
      <4> QED
        BY <1>2, <1>3, <3>2, <4>1, <4>2
    <3> QED
      BY <3>1, <3>2
  <2>2. ASSUME NEW u \in ExplainWorkers, NEW v \in ExplainWorkers,
               Busy(hand'[u]), Busy(hand'[v]), hand'[u].job = hand'[v].job
        PROVE  u = v
    BY <1>2, <1>4, <1>6, <2>2 DEF ExplainInv, OwnerInv, job
  <2>3. ASSUME NEW j \in Jobs
        PROVE  IF j > dispatched' THEN answers'[j] = <<>>
               ELSE \/ Answered(evidence'[j], answers'[j])
                    \/ \E v \in ExplainWorkers : Busy(hand'[v]) /\ hand'[v].job = j
    <3>1. CASE j = job
      <4>1. ~(j > dispatched')
        BY <1>1, <3>1 DEF ExplainInv, ExplainTypes
      <4>2. CASE h.at = "idle" /\ Answered(e, s)
        BY <1>3, <3>1, <4>1, <4>2
      <4>3. CASE Busy(h) /\ h.job = job
        BY <1>2, <3>1, <4>1, <4>3
      <4> QED
        BY <4>2, <4>3 DEF job
    <3>2. CASE j # job
      <4>1. ASSUME NEW v \in ExplainWorkers, Busy(hand[v]), hand[v].job = j
            PROVE  Busy(hand'[v]) /\ hand'[v].job = j
        BY <1>2, <3>2, <4>1 DEF job
      <4> QED
        BY <1>3, <3>2, <4>1 DEF ExplainInv, OwnerInv
    <3> QED
      BY <3>1, <3>2
  <2> QED
    BY <2>1, <2>2, <2>3 DEF OwnerInv
<1>9. ChainInv'
  BY <1>3 DEF ExplainInv, ChainInv
<1>10. GoneInv'
  <2>1. \A v \in ExplainWorkers : hand'[v].at = "gone" => connections'[v] = {}
    BY <1>2, <1>5 DEF ExplainInv, GoneInv
  <2>2. build # "done"
    BY <1>5 DEF ExplainInv, GoneInv
  <2> QED
    BY <2>1, <2>2 DEF GoneInv
<1> QED
  BY <1>7, <1>8, <1>9, <1>10 DEF ExplainInv

\* A step that leaves the workers and the results as they are.
LEMMA OthersMove ==
    ASSUME ExplainInv,
           UNCHANGED <<hand, evidence, answers, dispatched, connections>>, build' # "done"
    PROVE  ExplainInv'
<1>1. ExplainTypes' /\ ChainInv'
  BY DEF ExplainInv, ExplainTypes, ChainInv
<1>2. OwnerInv'
  BY DEF ExplainInv, OwnerInv
<1>3. GoneInv'
  BY DEF ExplainInv, GoneInv
<1> QED
  BY <1>1, <1>2, <1>3 DEF ExplainInv

\* The dispatcher hands the next job to a worker that waits for one.
LEMMA DispatchStep ==
    ASSUME ExplainInv, NEW w \in ExplainWorkers, Dispatch(w)
    PROVE  ExplainInv'
<1> DEFINE job == dispatched + 1
           h == [Idle EXCEPT !.at = "take", !.job = job]
<1>1. /\ build # "done" /\ dispatched < Len(JobDatabase) /\ hand[w].at = "idle"
      /\ dispatched' = job /\ hand' = [hand EXCEPT ![w] = h]
      /\ UNCHANGED <<build, connections, evidence, answers>>
  BY DEF Dispatch
<1>2. dispatched \in Nat /\ job \in Jobs /\ job \in 0..Len(JobDatabase)
  BY <1>1, JobsAre DEF ExplainInv, ExplainTypes
<1>3. h.at = "take" /\ h.job = job /\ h.attempt = 0 /\ h.limit = 0
  BY DEF Idle
<1>4. h \in ExplainHand
  <2>1. job \in Nat /\ "take" \in Places
    BY <1>2 DEF Places
  <2> HIDE DEF job
  <2> QED
    BY <2>1, IdleHand DEF ExplainHand
<1> HIDE DEF h
<1>5. hand'[w] = h /\ \A v \in ExplainWorkers : v # w => hand'[v] = hand[v]
  BY <1>1 DEF ExplainInv, ExplainTypes
<1>6. ~Busy(hand[w]) /\ Busy(h)
  BY <1>1, <1>3 DEF Busy
<1>7. ExplainTypes'
  BY <1>1, <1>2, <1>4 DEF ExplainInv, ExplainTypes
<1>8. \A v \in ExplainWorkers : Busy(hand[v]) => hand[v].job \in 1..dispatched
  BY DEF ExplainInv, OwnerInv
<1>9. OwnerInv'
  <2>1. answers[job] = <<>>
    BY <1>2 DEF ExplainInv, OwnerInv
  <2>2. ASSUME NEW v \in ExplainWorkers, Busy(hand'[v])
        PROVE  hand'[v].job \in 1..dispatched' /\ Fits(hand'[v], answers'[hand'[v].job])
    <3>1. CASE v = w
      <4>1. Fits(h, answers[job])
        BY <1>3, <2>1 DEF Fits
      <4>2. job \in 1..job
        BY <1>2
      <4> QED
        BY <1>1, <1>3, <1>5, <3>1, <4>1, <4>2
    <3>2. CASE v # w
      <4>1. hand[v].job \in 1..dispatched /\ Fits(hand[v], answers[hand[v].job])
        BY <1>5, <2>2, <3>2 DEF ExplainInv, OwnerInv
      <4>2. hand[v].job \in 1..job
        BY <1>2, <4>1
      <4> QED
        BY <1>1, <1>5, <3>2, <4>1, <4>2
    <3> QED
      BY <3>1, <3>2
  <2>3. ASSUME NEW u \in ExplainWorkers, NEW v \in ExplainWorkers,
               Busy(hand'[u]), Busy(hand'[v]), hand'[u].job = hand'[v].job
        PROVE  u = v
    <3>1. \A x \in ExplainWorkers : x # w /\ Busy(hand'[x]) => hand'[x].job # job
      BY <1>2, <1>5, <1>8
    <3>2. hand'[w].job = job
      BY <1>3, <1>5
    <3>3. CASE u = w \/ v = w
      BY <2>3, <3>1, <3>2, <3>3
    <3>4. CASE u # w /\ v # w
      BY <1>5, <2>3, <3>4 DEF ExplainInv, OwnerInv
    <3> QED
      BY <3>3, <3>4
  <2>4. ASSUME NEW j \in Jobs
        PROVE  IF j > dispatched' THEN answers'[j] = <<>>
               ELSE \/ Answered(evidence'[j], answers'[j])
                    \/ \E v \in ExplainWorkers : Busy(hand'[v]) /\ hand'[v].job = j
    <3>1. CASE j = job
      BY <1>1, <1>2, <1>3, <1>5, <1>6, <3>1
    <3>2. CASE j # job
      <4>1. (j > job) = (j > dispatched)
        BY <1>2, <3>2, JobsAre
      <4>2. ASSUME NEW v \in ExplainWorkers, Busy(hand[v]), hand[v].job = j
            PROVE  Busy(hand'[v]) /\ hand'[v].job = j
        BY <1>5, <1>6, <4>2
      <4> QED
        BY <1>1, <4>1, <4>2 DEF ExplainInv, OwnerInv
    <3> QED
      BY <3>1, <3>2
  <2> QED
    BY <2>2, <2>3, <2>4 DEF OwnerInv
<1>10. ChainInv' /\ GoneInv'
  BY <1>1, <1>3, <1>5 DEF ExplainInv, ChainInv, GoneInv
<1> QED
  BY <1>7, <1>9, <1>10 DEF ExplainInv

\* When all workers are gone the jobs that were never handed over are cancelled.
LEMMA ReturnStep ==
    ASSUME ExplainInv, ReturnJobs
    PROVE  ExplainInv'
<1> DEFINE cancelled == [status |-> "cancelled", attempts |-> 0]
<1>1. /\ \A w \in ExplainWorkers : hand[w].at = "gone"
      /\ evidence' = [j \in Jobs |-> IF j > dispatched THEN cancelled ELSE evidence[j]]
      /\ UNCHANGED <<dispatched, hand, connections, answers>>
  BY DEF ReturnJobs
<1>2. cancelled \in JobEvidence /\ cancelled.status # "none" /\ cancelled.attempts = 0
  BY DEF JobEvidence, Statuses
<1> HIDE DEF cancelled
<1>3. \A w \in ExplainWorkers : ~Busy(hand[w])
  BY <1>1 DEF Busy
<1>4. \A j \in Jobs : Answered(evidence'[j], answers[j])
  <2> SUFFICES ASSUME NEW j \in Jobs PROVE Answered(evidence'[j], answers[j])
    OBVIOUS
  <2>1. CASE j > dispatched
    <3>1. answers[j] = <<>> /\ evidence'[j] = cancelled
      BY <1>1, <2>1 DEF ExplainInv, OwnerInv
    <3>2. Len(<<>>) = 0
      OBVIOUS
    <3> QED
      BY <1>2, <3>1, <3>2 DEF Answered
  <2>2. CASE ~(j > dispatched)
    BY <1>1, <1>3, <2>2 DEF ExplainInv, OwnerInv
  <2> QED
    BY <2>1, <2>2
<1>5. ExplainTypes'
  BY <1>1, <1>2 DEF ExplainInv, ExplainTypes
<1>6. OwnerInv'
  BY <1>1, <1>3, <1>4 DEF ExplainInv, OwnerInv
<1>7. ChainInv' /\ GoneInv'
  BY <1>1, <1>4 DEF ExplainInv, ChainInv, GoneInv
<1> QED
  BY <1>5, <1>6, <1>7 DEF ExplainInv

\* Nothing written is what WorkerMoves takes for the results of before.
LEMMA NothingWritten ==
    ASSUME ExplainInv, NEW j \in Jobs
    PROVE  /\ evidence = [evidence EXCEPT ![j] = evidence[j]]
           /\ answers = [answers EXCEPT ![j] = answers[j]]
           /\ evidence[j] \in JobEvidence /\ answers[j] \in Seq(JobAnswer) /\ Chain(answers[j])
  BY DEF ExplainInv, ExplainTypes, ChainInv

LEMMA BusyJob ==
    ASSUME ExplainInv, NEW w \in ExplainWorkers, Busy(hand[w])
    PROVE  /\ hand[w].job \in Jobs /\ hand[w] \in ExplainHand
           /\ Fits(hand[w], answers[hand[w].job])
  BY JobsAre DEF ExplainInv, ExplainTypes, OwnerInv

LEMMA TakeStep ==
    ASSUME ExplainInv, NEW w \in ExplainWorkers, TakeJob(w)
    PROVE  ExplainInv'
<1> DEFINE job == hand[w].job
<1>1. hand[w].at = "take" /\ Busy(hand[w])
  BY DEF TakeJob, Busy
<1>2. job \in Jobs /\ hand[w] \in ExplainHand /\ answers[job] = <<>> /\ hand[w].attempt = 0
  BY <1>1, BusyJob DEF Fits
<1>3. /\ evidence = [evidence EXCEPT ![job] = evidence[job]]
      /\ answers = [answers EXCEPT ![job] = answers[job]]
      /\ evidence[job] \in JobEvidence /\ answers[job] \in Seq(JobAnswer) /\ Chain(answers[job])
  BY <1>2, NothingWritten
<1>4. /\ UNCHANGED <<build, dispatched, answers>> /\ DOMAIN connections' = ExplainWorkers
      /\ \A v \in ExplainWorkers : v # w => connections'[v] = connections[v]
  BY DEF TakeJob, ExplainInv, ExplainTypes
<1>5. ASSUME NEW how \in {"cancelled", "execution_failed"}, Answer(w, how, 0)
      PROVE  ExplainInv'
  <2> DEFINE e == [status |-> how, attempts |-> 0]
  <2>1. evidence' = [evidence EXCEPT ![job] = e] /\ hand' = [hand EXCEPT ![w] = Idle]
    BY <1>5 DEF Answer
  <2>2. e \in JobEvidence
    BY DEF JobEvidence, Statuses
  <2>3. Answered(e, answers[job])
    <3>1. Len(<<>>) = 0
      OBVIOUS
    <3> QED
      BY <1>2, <3>1 DEF Answered
  <2> HIDE DEF e
  <2> QED
    BY <1>1, <1>3, <1>4, <2>1, <2>2, <2>3, IdleHand, WorkerMoves
<1>6. ASSUME NEW base \in BaseTimes,
             hand' = [hand EXCEPT ![w] = [@ EXCEPT !.at = "try", !.limit = base]],
             UNCHANGED evidence
      PROVE  ExplainInv'
  <2> DEFINE h == [hand[w] EXCEPT !.at = "try", !.limit = base]
  <2>1. hand' = [hand EXCEPT ![w] = h]
    BY <1>6 DEF ExplainInv, ExplainTypes
  <2>2. h.at = "try" /\ h.job = job /\ h.attempt = 0 /\ h.limit # 0
    BY <1>2, ExplainAssumption DEF ExplainHand
  <2>3. h \in ExplainHand
    BY <1>2, ExplainAssumption DEF ExplainHand, Places
  <2> HIDE DEF h
  <2>4. Busy(h) /\ Fits(h, answers[job])
    <3>1. Len(<<>>) = 0
      OBVIOUS
    <3> QED
      BY <1>2, <2>2, <3>1 DEF Fits, Busy
  <2>5. evidence' = [evidence EXCEPT ![job] = evidence[job]]
    BY <1>3, <1>6
  <2>6. answers' = [answers EXCEPT ![job] = answers[job]]
    BY <1>3, <1>4
  <2> QED
    BY <1>1, <1>3, <1>4, <2>1, <2>2, <2>3, <2>4, <2>5, <2>6, WorkerMoves
<1> QED
  BY <1>5, <1>6 DEF TakeJob

LEMMA TryStep ==
    ASSUME ExplainInv, NEW w \in ExplainWorkers, Try(w)
    PROVE  ExplainInv'
<1> DEFINE job == hand[w].job
<1>1. hand[w].at = "try" /\ Busy(hand[w])
  BY DEF Try, Busy
<1>2. job \in Jobs /\ hand[w] \in ExplainHand /\ Fits(hand[w], answers[job])
  BY <1>1, BusyJob
<1>3. /\ evidence = [evidence EXCEPT ![job] = evidence[job]]
      /\ answers = [answers EXCEPT ![job] = answers[job]]
      /\ evidence[job] \in JobEvidence /\ answers[job] \in Seq(JobAnswer) /\ Chain(answers[job])
  BY <1>2, NothingWritten
<1>4. /\ UNCHANGED <<build, dispatched, answers, connections>>
      /\ DOMAIN connections' = ExplainWorkers
  BY DEF Try, ExplainInv, ExplainTypes
<1>5. CASE Answer(w, "cancelled", hand[w].attempt)
  <2> DEFINE e == [status |-> "cancelled", attempts |-> hand[w].attempt]
  <2>1. evidence' = [evidence EXCEPT ![job] = e] /\ hand' = [hand EXCEPT ![w] = Idle]
    BY <1>5 DEF Answer
  <2>2. e \in JobEvidence
    BY <1>2 DEF JobEvidence, Statuses, ExplainHand
  <2>3. Answered(e, answers[job])
    BY <1>1, <1>2 DEF Answered, Fits
  <2> HIDE DEF e
  <2> QED
    BY <1>1, <1>3, <1>4, <2>1, <2>2, <2>3, IdleHand, WorkerMoves
<1>6. CASE hand' = [hand EXCEPT ![w].at = "sent"] /\ UNCHANGED evidence
  <2> DEFINE h == [hand[w] EXCEPT !.at = "sent"]
  <2>1. hand' = [hand EXCEPT ![w] = h]
    BY <1>6 DEF ExplainInv, ExplainTypes
  <2>2. /\ h.at = "sent" /\ h.job = job /\ h.attempt = hand[w].attempt
        /\ h.limit = hand[w].limit
    BY <1>2 DEF ExplainHand
  <2>3. h \in ExplainHand
    BY <1>2 DEF ExplainHand, Places
  <2> HIDE DEF h
  <2>4. Busy(h) /\ Fits(h, answers[job])
    BY <1>1, <1>2, <2>2 DEF Fits, Busy
  <2>5. evidence' = [evidence EXCEPT ![job] = evidence[job]]
    BY <1>3, <1>6
  <2>6. answers' = [answers EXCEPT ![job] = answers[job]]
    BY <1>3, <1>4
  <2> QED
    BY <1>1, <1>3, <1>4, <2>1, <2>2, <2>3, <2>4, <2>5, <2>6, WorkerMoves
<1> QED
  BY <1>5, <1>6 DEF Try

\* One command more, with the time that belongs to it.
LEMMA ChainGrows ==
    ASSUME NEW s \in Seq(JobAnswer), NEW x \in JobAnswer, Chain(s),
           s # <<>> => s[Len(s)].status = "timed_out" /\ x.limit = Longer(s[Len(s)].limit)
    PROVE  /\ Append(s, x) \in Seq(JobAnswer) /\ Append(s, x) # <<>>
           /\ Len(Append(s, x)) = Len(s) + 1
           /\ Append(s, x)[Len(s) + 1] = x
           /\ Chain(Append(s, x))
<1> DEFINE t == Append(s, x)
<1>1. /\ t \in Seq(JobAnswer) /\ Len(t) = Len(s) + 1 /\ t[Len(s) + 1] = x /\ Len(s) \in Nat
      /\ \A i \in 1..Len(s) : t[i] = s[i]
  OBVIOUS
<1>2. t # <<>>
  BY <1>1
<1> HIDE DEF t
<1>3. ASSUME NEW i \in 1..Len(t) - 1
      PROVE  t[i].status = "timed_out" /\ t[i + 1].limit = Longer(t[i].limit)
  <2>1. i \in 1..Len(s) /\ t[i] = s[i] /\ i \in Nat
    BY <1>1
  <2>2. CASE i = Len(s)
    <3>1. s # <<>>
      BY <2>1
    <3> QED
      BY <1>1, <2>1, <2>2, <3>1
  <2>3. CASE i # Len(s)
    <3>1. i \in 1..Len(s) - 1 /\ i + 1 \in 1..Len(s)
      BY <1>1, <2>1, <2>3
    <3>2. t[i + 1] = s[i + 1]
      BY <1>1, <3>1
    <3> QED
      BY <2>1, <3>1, <3>2 DEF Chain
  <2> QED
    BY <2>2, <2>3
<1> QED
  BY <1>1, <1>2, <1>3 DEF Chain, t

\* The end of a command: repeated after a timeout, or the result of its job.
LEMMA SettleStep ==
    ASSUME ExplainInv, NEW w \in ExplainWorkers, NEW how \in Statuses,
           Settle(w, how, how = "timed_out")
    PROVE  ExplainInv'
<1> DEFINE job == hand[w].job
           x == [status |-> how, limit |-> hand[w].limit]
           s == Append(answers[job], x)
<1>1. hand[w].at = "sent" /\ Busy(hand[w])
  BY DEF Settle, Busy
<1>2. job \in Jobs /\ hand[w] \in ExplainHand /\ Fits(hand[w], answers[job])
  BY <1>1, BusyJob
<1>3. /\ evidence = [evidence EXCEPT ![job] = evidence[job]]
      /\ evidence[job] \in JobEvidence /\ answers[job] \in Seq(JobAnswer) /\ Chain(answers[job])
  BY <1>2, NothingWritten
<1>4. /\ UNCHANGED <<build, dispatched, connections>>
      /\ DOMAIN connections' = ExplainWorkers
  BY DEF Settle, ExplainInv, ExplainTypes
<1>5. answers' = [answers EXCEPT ![job] = s]
  BY <1>2 DEF Settle, ExplainInv, ExplainTypes
<1>6. x \in JobAnswer /\ x.status = how /\ x.limit = hand[w].limit
  BY <1>1, <1>2 DEF JobAnswer, ExplainHand, Fits
<1>7. /\ Len(answers[job]) = hand[w].attempt
      /\ answers[job] # <<>> => /\ answers[job][Len(answers[job])].status = "timed_out"
                                /\ x.limit = Longer(answers[job][Len(answers[job])].limit)
  BY <1>1, <1>2, <1>6 DEF Fits
<1> HIDE DEF x
<1>8. /\ s \in Seq(JobAnswer) /\ s # <<>> /\ Len(s) = hand[w].attempt + 1
      /\ s[Len(s)] = x /\ Chain(s)
  BY <1>3, <1>6, <1>7, ChainGrows
<1> HIDE DEF s
<1>9. CASE how = "timed_out" /\ hand[w].attempt < Retries
  <2> DEFINE h == [hand[w] EXCEPT !.at = "backoff"]
  <2>1. hand' = [hand EXCEPT ![w].at = "backoff"] /\ UNCHANGED evidence
    BY <1>9 DEF Settle
  <2>2. hand' = [hand EXCEPT ![w] = h]
    BY <2>1 DEF ExplainInv, ExplainTypes
  <2>3. /\ h.at = "backoff" /\ h.job = job /\ h.attempt = hand[w].attempt
        /\ h.limit = hand[w].limit
    BY <1>2 DEF ExplainHand
  <2>4. h \in ExplainHand
    BY <1>2 DEF ExplainHand, Places
  <2> HIDE DEF h
  <2>5. Busy(h) /\ Fits(h, s)
    BY <1>6, <1>8, <1>9, <2>3 DEF Fits, Busy
  <2>6. evidence' = [evidence EXCEPT ![job] = evidence[job]]
    BY <1>3, <2>1
  <2> QED
    BY <1>1, <1>3, <1>4, <1>5, <1>8, <2>2, <2>3, <2>4, <2>5, <2>6, WorkerMoves
<1>10. CASE ~(how = "timed_out" /\ hand[w].attempt < Retries)
  <2> DEFINE e == [status |-> how, attempts |-> hand[w].attempt + 1]
  <2>1. Answer(w, how, hand[w].attempt + 1)
    BY <1>10 DEF Settle
  <2>2. evidence' = [evidence EXCEPT ![job] = e] /\ hand' = [hand EXCEPT ![w] = Idle]
    BY <2>1 DEF Answer
  <2>3. e \in JobEvidence
    BY <1>2 DEF JobEvidence, ExplainHand
  <2>4. Answered(e, s)
    <3>1. how # "none"
      BY DEF Statuses
    <3> QED
      BY <1>8, <3>1 DEF Answered
  <2> HIDE DEF e
  <2> QED
    BY <1>1, <1>4, <1>5, <1>8, <2>2, <2>3, <2>4, IdleHand, WorkerMoves
<1> QED
  BY <1>9, <1>10

LEMMA WaitStep ==
    ASSUME ExplainInv, NEW w \in ExplainWorkers, Wait(w)
    PROVE  ExplainInv'
<1> DEFINE job == hand[w].job
<1>1. hand[w].at = "backoff" /\ Busy(hand[w])
  BY DEF Wait, Busy
<1>2. job \in Jobs /\ hand[w] \in ExplainHand /\ Fits(hand[w], answers[job])
  BY <1>1, BusyJob
<1>3. /\ evidence = [evidence EXCEPT ![job] = evidence[job]]
      /\ answers = [answers EXCEPT ![job] = answers[job]]
      /\ evidence[job] \in JobEvidence /\ answers[job] \in Seq(JobAnswer) /\ Chain(answers[job])
  BY <1>2, NothingWritten
<1>4. /\ UNCHANGED <<build, dispatched, answers, connections>>
      /\ DOMAIN connections' = ExplainWorkers
  BY DEF Wait, ExplainInv, ExplainTypes
<1>5. /\ answers[job] # <<>> /\ Len(answers[job]) = hand[w].attempt + 1
      /\ answers[job][Len(answers[job])].status = "timed_out"
      /\ answers[job][Len(answers[job])].limit = hand[w].limit
  BY <1>1, <1>2 DEF Fits
<1>6. answers' = [answers EXCEPT ![job] = answers[job]]
  BY <1>3, <1>4
<1>7. hand[w].limit \in Nat \ {0} /\ hand[w].attempt \in Nat
  <2>1. Len(answers[job]) \in 1..Len(answers[job])
    BY <1>3, <1>5
  <2>2. answers[job][Len(answers[job])] \in JobAnswer
    BY <1>3, <2>1
  <2> QED
    BY <1>2, <1>5, <2>2 DEF ExplainHand, JobAnswer
<1>8. CASE Answer(w, "cancelled", hand[w].attempt + 1)
  <2> DEFINE e == [status |-> "cancelled", attempts |-> hand[w].attempt + 1]
  <2>1. evidence' = [evidence EXCEPT ![job] = e] /\ hand' = [hand EXCEPT ![w] = Idle]
    BY <1>8 DEF Answer
  <2>2. e \in JobEvidence
    BY <1>7 DEF JobEvidence, Statuses
  <2>3. Answered(e, answers[job])
    BY <1>5 DEF Answered
  <2> HIDE DEF e
  <2> QED
    BY <1>1, <1>3, <1>4, <1>6, <2>1, <2>2, <2>3, IdleHand, WorkerMoves
<1>9. CASE ~Answer(w, "cancelled", hand[w].attempt + 1)
  <2> DEFINE next == Longer(hand[w].limit)
             h == [hand[w] EXCEPT !.at = "try", !.attempt = hand[w].attempt + 1, !.limit = next]
  <2>1. hand' = [hand EXCEPT ![w] = h] /\ UNCHANGED evidence
    BY <1>9 DEF Wait
  <2>2. next \in Nat \ {0}
    BY <1>7, ExplainAssumption DEF Longer
  <2> HIDE DEF next
  <2>3. /\ h.at = "try" /\ h.job = job /\ h.attempt = hand[w].attempt + 1
        /\ h.limit = next
    BY <1>2 DEF ExplainHand
  <2>4. h \in ExplainHand
    <3>1. "try" \in Places /\ hand[w].attempt + 1 \in Nat
      BY <1>7 DEF Places
    <3> QED
      BY <1>2, <2>2, <3>1 DEF ExplainHand
  <2> HIDE DEF h
  <2>5. Busy(h) /\ Fits(h, answers[job])
    <3>1. next # 0 /\ next = Longer(hand[w].limit)
      BY <2>2 DEF next
    <3> QED
      BY <1>5, <2>3, <3>1 DEF Fits, Busy
  <2>6. evidence' = [evidence EXCEPT ![job] = evidence[job]]
    BY <1>3, <2>1
  <2> QED
    BY <1>1, <1>3, <1>4, <1>6, <2>1, <2>3, <2>4, <2>5, <2>6, WorkerMoves
<1> QED
  BY <1>8, <1>9

\* The deferred call of a worker closes what the worker opened.
LEMMA LeaveStep ==
    ASSUME ExplainInv, NEW w \in ExplainWorkers, Leave(w)
    PROVE  ExplainInv'
<1> DEFINE h == [hand[w] EXCEPT !.at = "gone"]
<1>1. /\ hand[w].at = "idle" /\ UNCHANGED <<build, dispatched, evidence, answers>>
      /\ hand' = [hand EXCEPT ![w].at = "gone"]
      /\ connections' = [connections EXCEPT ![w] = {}]
  BY DEF Leave
<1>2. hand' = [hand EXCEPT ![w] = h] /\ h.at = "gone" /\ h \in ExplainHand
  BY <1>1 DEF ExplainInv, ExplainTypes, ExplainHand, Places
<1> HIDE DEF h
<1>3. hand'[w] = h /\ \A v \in ExplainWorkers : v # w => hand'[v] = hand[v]
  BY <1>2 DEF ExplainInv, ExplainTypes
<1>4. ~Busy(hand[w]) /\ ~Busy(h)
  BY <1>1, <1>2 DEF Busy
<1>5. build # "done"
  BY <1>1 DEF ExplainInv, GoneInv
<1>6. ExplainTypes'
  BY <1>1, <1>2 DEF ExplainInv, ExplainTypes
<1>7. OwnerInv'
  <2>1. ASSUME NEW v \in ExplainWorkers
        PROVE  (Busy(hand'[v]) <=> Busy(hand[v])) /\ (Busy(hand[v]) => hand'[v] = hand[v])
    <3>1. CASE v = w
      BY <1>3, <1>4, <3>1
    <3>2. CASE v # w
      BY <1>3, <3>2
    <3> QED
      BY <3>1, <3>2
  <2> QED
    BY <1>1, <2>1 DEF ExplainInv, OwnerInv
<1>8. ChainInv' /\ GoneInv'
  <2>1. \A v \in ExplainWorkers : hand'[v].at = "gone" => connections'[v] = {}
    BY <1>1, <1>3 DEF ExplainInv, ExplainTypes, GoneInv
  <2> QED
    BY <1>1, <1>5, <2>1 DEF ExplainInv, ChainInv, GoneInv
<1> QED
  BY <1>6, <1>7, <1>8 DEF ExplainInv

LEMMA ExplainNext == ExplainInv /\ [XNext]_xvars => ExplainInv'
<1> SUFFICES ASSUME ExplainInv, [XNext]_xvars PROVE ExplainInv'
  OBVIOUS
<1>1. CASE ReadState
  BY <1>1, OthersMove DEF ReadState
<1>2. CASE StartRun
  BY <1>2 DEF StartRun, ExplainInv, ExplainTypes, OwnerInv, ChainInv, GoneInv
<1>3. CASE RegisterCancel
  BY <1>3, OthersMove DEF RegisterCancel
<1>4. CASE HandOver
  BY <1>4, DispatchStep DEF HandOver
<1>5. CASE CloseWork
  BY <1>5, OthersMove DEF CloseWork
<1>6. CASE ReturnJobs
  BY <1>6, ReturnStep
<1>7. ASSUME NEW w \in ExplainWorkers, ExplainStep(w) PROVE ExplainInv'
  <2>1. CASE CommandEnds(w)
    BY <2>1, SettleStep DEF CommandEnds
  <2> QED
    BY <1>7, <2>1, TakeStep, TryStep, WaitStep, LeaveStep DEF ExplainStep, WorkerLeaves
<1>8. CASE UNCHANGED xvars
  BY <1>8 DEF xvars, ExplainInv, ExplainTypes, OwnerInv, ChainInv, GoneInv
<1> QED
  BY <1>1, <1>2, <1>3, <1>4, <1>5, <1>6, <1>7, <1>8 DEF XNext

LEMMA ExplainInvGives == ExplainInv => ExplainsAccounted
<1> SUFFICES ASSUME ExplainInv PROVE ExplainsAccounted
  OBVIOUS
<1>1. JobsAnswered
  BY DEF ExplainInv, GoneInv, Answered, JobsAnswered
<1>2. ASSUME NEW j \in Jobs, NEW i \in 1..Len(answers[j]) - 1
      PROVE  /\ answers[j][i].status = "timed_out"
             /\ IF answers[j][i].limit < TopTime
                THEN /\ answers[j][i].limit < answers[j][i + 1].limit
                     /\ answers[j][i + 1].limit <= TopTime
                ELSE answers[j][i + 1].limit = answers[j][i].limit
  <2>1. answers[j] \in Seq(JobAnswer) /\ Chain(answers[j])
    BY DEF ExplainInv, ExplainTypes, ChainInv
  <2>2. i \in 1..Len(answers[j])
    BY <2>1
  <2>3. answers[j][i] \in JobAnswer
    BY <2>1, <2>2
  <2>4. answers[j][i].limit \in Nat \ {0}
    BY <2>3 DEF JobAnswer
  <2>5. /\ answers[j][i].status = "timed_out"
        /\ answers[j][i + 1].limit = Longer(answers[j][i].limit)
    BY <2>1 DEF Chain
  <2> QED
    BY <2>4, <2>5, ExplainAssumption DEF Longer
<1>3. OnlyTimeoutsRepeated
  BY <1>2 DEF OnlyTimeoutsRepeated
<1> QED
  BY <1>1, <1>3 DEF ExplainsAccounted

\* When the explains return every job has its result, with the number of
\* commands that were sent, no connection is left, and only timeouts were
\* repeated, with more time below the cap and with the same time from there on,
\* for any number of workers and jobs and any configured limit, whenever a start
\* cancels them (runExplainJobsConcurrently, retryExplainEvidence).
THEOREM ExplainsTheorem == XSpec => []ExplainsAccounted
<1>1. ExplainInv /\ [][XNext]_xvars => []ExplainInv
  BY ExplainNext, PTL
<1> QED
  BY ExplainInitial, ExplainInvGives, <1>1, PTL DEF XSpec

-----------------------------------------------------------------------------
(***************************************************************************)
(* The targets of a plan.  StageInv says where each target is in every     *)
(* step of the plan: behind the one in work they are done, or ready when   *)
(* they will work at once, before it they are untouched.                   *)
(***************************************************************************)

Untouched(u) == status[u] = "pending" /\ client[u] = "none" /\ work[u] = "none"
InPreparation(u) ==
    status[u] \in {"pending", "preparing"} /\ client[u] = "none" /\ work[u] = "none"
Ready(u) == status[u] = "preparing" /\ client[u] = "open" /\ work[u] = "none"
Due(u) == status[u] = "preparing" /\ client[u] = "open" /\ work[u] = "due"
Working(u) == status[u] = "running" /\ client[u] = "open" /\ work[u] = "on"
Over(u) == status[u] \in Finished /\ client[u] \in {"none", "closed"} /\ work[u] \in {"none", "over"}

PlanTypes ==
    /\ mode \in Modes /\ planAt.target \in 0..TargetCount
    /\ planAt.step \in {"prepare", "run", "launch", "wait", "compare", "finish", "ended"}
    /\ DOMAIN status = Targets /\ DOMAIN client = Targets /\ DOMAIN work = Targets
    /\ DOMAIN outcomes = Targets /\ DOMAIN comparisons = 2..TargetCount

\* What is behind the target in work, when the plan is at target t.
Behind(u) == Over(u) \/ (mode = "concurrent" /\ Ready(u))

\* The plan ended, by a panic at target t or not.
EndedAt(t) ==
    /\ \A u \in Targets :
          /\ work[u] \in {"none", "over"}
          /\ status[u] = "preparing" /\ client[u] = "none" => u = t
          /\ client[u] = "open" =>
                /\ verdict = "crashed" /\ work[u] = "none"
                /\ \E w \in Targets : status[w] = "preparing"
    /\ verdict = "crashed" \/ \A u \in Targets : status[u] \in Finished

StageInv ==
    LET t == planAt.target
    IN  /\ planAt.step = "prepare" =>
              /\ t \in Targets /\ InPreparation(t)
              /\ \A u \in Targets : (u > t => Untouched(u)) /\ (u < t => Behind(u))
        /\ planAt.step = "run" =>
              /\ mode = "sequential" /\ t \in Targets
              /\ Due(t) \/ (Working(t) /\ shown = t)
              /\ \A u \in Targets : (u > t => Untouched(u)) /\ (u < t => Over(u))
        /\ planAt.step = "launch" =>
              mode = "concurrent" /\ \A u \in Targets : Behind(u)
        /\ planAt.step = "wait" =>
              mode = "concurrent" /\ \A u \in Targets : Over(u) \/ Due(u) \/ Working(u)
        /\ planAt.step \in {"compare", "finish"} => \A u \in Targets : Over(u)
        /\ planAt.step = "ended" => EndedAt(t)

\* A complete target wrote its outcome file, and a comparison of two is of these.
CompareInv ==
    /\ \A u \in Targets : status[u] = "complete" => outcomes[u] = "this"
    /\ planAt.step \notin {"finish", "ended"} => comparisons = ComparedWith
    /\ \A u \in 2..TargetCount :
          comparisons[u] # "no" /\ status[1] = "complete" /\ status[u] = "complete" =>
              comparisons[u] = "this run"
    /\ verdict = "completed" => refInsights # "none"

PlanInv == PlanTypes /\ StageInv /\ CompareInv

LEMMA TargetsAre == TargetCount \in Nat /\ Targets = 1..TargetCount /\ 1 \in Targets
  BY TargetAssumption DEF Targets

LEMMA WhenEnded == PlanInv /\ planAt.step = "ended" => EndedAt(planAt.target)
  BY DEF PlanInv, StageInv

LEMMA PlanInitial == MInit => PlanInv
<1> SUFFICES ASSUME MInit PROVE PlanInv
  OBVIOUS
<1>1. planAt.step = "prepare" /\ planAt.target = 1
  BY DEF MInit
<1>2. \A u \in Targets : Untouched(u)
  BY DEF MInit, Untouched
<1>3. InPreparation(1)
  BY <1>2, TargetsAre DEF Untouched, InPreparation
<1>4. PlanTypes
  <2>1. mode \in Modes /\ planAt.target \in 0..TargetCount
    <3>1. 1 \in 0..TargetCount
      BY TargetsAre
    <3>2. mode \in Modes
      BY DEF MInit
    <3> QED
      BY <1>1, <3>1, <3>2
  <2>2. DOMAIN status = Targets /\ DOMAIN client = Targets /\ DOMAIN work = Targets
    BY DEF MInit
  <2>3. DOMAIN outcomes = Targets
    BY DEF MInit
  <2>4. DOMAIN comparisons = 2..TargetCount
    BY DEF MInit, ComparedWith
  <2> QED
    BY <1>1, <2>1, <2>2, <2>3, <2>4 DEF PlanTypes
<1>5. StageInv
  <2>1. \A u \in Targets : ~(u < 1)
    BY TargetsAre
  <2> QED
    BY <1>1, <1>2, <1>3, <2>1, TargetsAre DEF StageInv
<1>6. CompareInv
  <2>1. \A u \in Targets : status[u] # "complete"
    BY DEF MInit
  <2>2. comparisons = ComparedWith /\ verdict = "none"
    BY DEF MInit
  <2> QED
    BY <2>1, <2>2 DEF CompareInv, ComparedWith
<1> QED
  BY <1>4, <1>5, <1>6 DEF PlanInv

\* The plan goes on behind a target that is over, or ready to work with the others.
LEMMA Advance ==
    ASSUME PlanTypes, NEW t \in Targets, mode' = mode, AfterTarget(t),
           DOMAIN status' = Targets, DOMAIN client' = Targets, DOMAIN work' = Targets,
           DOMAIN outcomes' = Targets, DOMAIN comparisons' = 2..TargetCount,
           \A u \in Targets : u > t => Untouched(u)',
           \A u \in Targets : ~(u > t) => Behind(u)'
    PROVE  PlanTypes' /\ StageInv'
<1>1. mode \in {"sequential", "concurrent"}
  BY DEF PlanTypes, Modes
<1>2. CASE t < TargetCount
  <2>1. planAt' = [step |-> "prepare", target |-> t + 1]
    BY <1>2 DEF AfterTarget, Step
  <2>2. planAt'.step = "prepare" /\ planAt'.target = t + 1
    BY <2>1
  <2>3. t + 1 \in Targets /\ t + 1 \in 0..TargetCount /\ t + 1 > t
    BY <1>2, TargetsAre
  <2>4. InPreparation(t + 1)'
    BY <2>3 DEF Untouched, InPreparation
  <2>5. PlanTypes'
    BY <2>2, <2>3 DEF PlanTypes
  <2>6. \A u \in Targets : (u > t + 1 => u > t) /\ (u < t + 1 => ~(u > t))
    BY TargetsAre
  <2>7. StageInv'
    BY <2>2, <2>3, <2>4, <2>6 DEF StageInv
  <2> QED
    BY <2>5, <2>7
<1>3. CASE ~(t < TargetCount)
  <2>1. planAt' = [step |-> IF mode = "concurrent" THEN "launch" ELSE "compare", target |-> 0]
    BY <1>3 DEF AfterTarget, Step
  <2>2. /\ planAt'.step = IF mode = "concurrent" THEN "launch" ELSE "compare"
        /\ planAt'.target = 0
    BY <2>1
  <2>3. \A u \in Targets : Behind(u)'
    BY <1>3, TargetsAre
  <2>4. PlanTypes'
    BY <2>2, TargetsAre DEF PlanTypes
  <2>5. StageInv'
    BY <1>1, <2>2, <2>3 DEF StageInv, Behind
  <2> QED
    BY <2>4, <2>5
<1> QED
  BY <1>2, <1>3

\* Steps that leave the targets where they are: a stop is asked for, a last
\* sample is taken, a target opens its outcome file.
LEMMA TargetsStay ==
    ASSUME PlanInv,
           UNCHANGED <<mode, planAt, status, client, work, shown, refInsights, comparisons, verdict>>,
           DOMAIN outcomes' = Targets,
           \A u \in Targets : outcomes[u] = "this" => outcomes'[u] = "this"
    PROVE  PlanInv'
<1>1. PlanTypes'
  BY DEF PlanInv, PlanTypes
<1>2. StageInv'
  BY DEF PlanInv, StageInv, EndedAt, Behind, Untouched, InPreparation, Ready, Due, Working, Over
<1>3. CompareInv'
  BY DEF PlanInv, CompareInv
<1> QED
  BY <1>1, <1>2, <1>3 DEF PlanInv

\* As long as nothing is compared, only the outcome files of targets that are
\* complete matter.
LEMMA StillUncompared ==
    ASSUME CompareInv, planAt.step \notin {"finish", "ended"}, comparisons' = comparisons,
           \A u \in Targets : status'[u] = "complete" => outcomes'[u] = "this",
           verdict' = "completed" => refInsights' # "none"
    PROVE  CompareInv'
<1>1. comparisons' = ComparedWith
  BY DEF CompareInv
<1>2. \A u \in 2..TargetCount : comparisons'[u] = "no"
  BY <1>1 DEF ComparedWith
<1> QED
  BY <1>1, <1>2 DEF CompareInv

\* Target t is left in the loop of the preparations: refused, failed, or ready.
LEMMA LeavesPreparation ==
    ASSUME PlanInv, NEW t \in Targets, Is("prepare", t), AfterTarget(t),
           DOMAIN status' = Targets, DOMAIN client' = Targets,
           \A u \in Targets : u # t => status'[u] = status[u] /\ client'[u] = client[u],
           Behind(t)', status'[t] # "complete",
           UNCHANGED <<mode, work, outcomes, refInsights, comparisons, verdict>>
    PROVE  PlanInv'
<1>1. planAt.step = "prepare" /\ planAt.target = t
  BY DEF Is
<1>2. \A u \in Targets : u # t => status'[u] = status[u] /\ client'[u] = client[u]
  OBVIOUS
<1>3. /\ DOMAIN work' = Targets
      /\ DOMAIN outcomes' = Targets /\ DOMAIN comparisons' = 2..TargetCount
  BY DEF PlanInv, PlanTypes
<1>4. \A u \in Targets : (u > t => Untouched(u)) /\ (u < t => Behind(u))
  BY <1>1 DEF PlanInv, StageInv
<1>5. \A u \in Targets : (u > t \/ u < t => u # t) /\ (~(u > t) => u < t \/ u = t)
  BY TargetsAre
<1>6. \A u \in Targets : u > t => Untouched(u)'
  BY <1>2, <1>4, <1>5 DEF Untouched
<1>7. \A u \in Targets : u < t => Behind(u)'
  BY <1>2, <1>4, <1>5 DEF Behind, Over, Ready
<1>8. PlanTypes' /\ StageInv'
  BY <1>3, <1>5, <1>6, <1>7, Advance DEF PlanInv
<1>9. \A u \in Targets : status'[u] = "complete" => outcomes'[u] = "this"
  <2>1. \A u \in Targets : status'[u] = "complete" => status[u] = "complete"
    BY <1>2
  <2> QED
    BY <2>1 DEF PlanInv, CompareInv
<1>10. CompareInv'
  BY <1>1, <1>9, StillUncompared DEF PlanInv, CompareInv
<1> QED
  BY <1>8, <1>10 DEF PlanInv

LEMMA RefuseStep == ASSUME PlanInv, NEW t \in Targets, Refuse(t) PROVE PlanInv'
<1>1. InPreparation(t)
  BY DEF PlanInv, StageInv, Refuse, Is
<1>2. /\ Is("prepare", t) /\ AfterTarget(t) /\ status' = [status EXCEPT ![t] = "cancelled"]
      /\ UNCHANGED <<mode, client, work, outcomes, refInsights, comparisons, verdict>>
  BY DEF Refuse, SetStatus
<1>3. DOMAIN status = Targets /\ DOMAIN client = Targets
  BY DEF PlanInv, PlanTypes
<1>4. /\ DOMAIN status' = Targets /\ DOMAIN client' = Targets /\ status'[t] = "cancelled"
      /\ \A u \in Targets : u # t => status'[u] = status[u] /\ client'[u] = client[u]
  BY <1>2, <1>3
<1>5. Behind(t)'
  BY <1>1, <1>2, <1>4 DEF Behind, Over, InPreparation, Finished
<1> QED
  BY <1>2, <1>4, <1>5, LeavesPreparation

LEMMA PrepareFailsStep == ASSUME PlanInv, NEW t \in Targets, PrepareFails(t) PROVE PlanInv'
<1>1. InPreparation(t)
  BY DEF PlanInv, StageInv, PrepareFails, Is
<1>2. PICK s \in {"failed", "cancelled"} : status' = [status EXCEPT ![t] = s]
  BY DEF PrepareFails, FailedOr, SetStatus
<1>3. PICK c \in {"none", "closed"} : client' = [client EXCEPT ![t] = c]
  BY DEF PrepareFails
<1>4. /\ Is("prepare", t) /\ AfterTarget(t)
      /\ UNCHANGED <<mode, work, outcomes, refInsights, comparisons, verdict>>
  BY DEF PrepareFails
<1>5. DOMAIN status = Targets /\ DOMAIN client = Targets
  BY DEF PlanInv, PlanTypes
<1>6. /\ DOMAIN status' = Targets /\ DOMAIN client' = Targets
      /\ status'[t] \in {"failed", "cancelled"} /\ client'[t] \in {"none", "closed"}
      /\ \A u \in Targets : u # t => status'[u] = status[u] /\ client'[u] = client[u]
  BY <1>2, <1>3, <1>5
<1>7. Behind(t)'
  BY <1>1, <1>4, <1>6 DEF Behind, Over, InPreparation, Finished
<1> QED
  BY <1>4, <1>6, <1>7, LeavesPreparation

LEMMA PreparedStep == ASSUME PlanInv, NEW t \in Targets, Prepared(t) PROVE PlanInv'
<1>1. planAt.step = "prepare" /\ planAt.target = t /\ status[t] = "preparing"
  BY DEF Prepared, Is
<1>2. /\ InPreparation(t)
      /\ \A u \in Targets : (u > t => Untouched(u)) /\ (u < t => Behind(u))
  BY <1>1 DEF PlanInv, StageInv
<1>3. /\ client' = [client EXCEPT ![t] = "open"]
      /\ UNCHANGED <<mode, status, outcomes, shown, refInsights, comparisons, verdict>>
  BY DEF Prepared
<1>4. /\ DOMAIN status = Targets /\ DOMAIN client = Targets /\ DOMAIN work = Targets
      /\ mode \in {"sequential", "concurrent"}
  BY DEF PlanInv, PlanTypes, Modes
<1>5. /\ DOMAIN client' = Targets /\ client'[t] = "open"
      /\ \A u \in Targets : u # t => client'[u] = client[u]
  BY <1>3, <1>4
<1>6. CASE mode = "concurrent"
  <2>1. Is("prepare", t) /\ AfterTarget(t) /\ UNCHANGED work
    BY <1>6 DEF Prepared
  <2>2. Behind(t)'
    BY <1>1, <1>2, <1>3, <1>5, <1>6, <2>1 DEF Behind, Ready, InPreparation
  <2>3. /\ DOMAIN status' = Targets /\ status'[t] # "complete"
        /\ \A u \in Targets : u # t => status'[u] = status[u] /\ client'[u] = client[u]
    BY <1>1, <1>3, <1>4, <1>5
  <2> QED
    BY <1>3, <1>5, <2>1, <2>2, <2>3, LeavesPreparation
<1>7. CASE mode = "sequential"
  <2>1. planAt' = [step |-> "run", target |-> t] /\ work' = [work EXCEPT ![t] = "due"]
    BY <1>7 DEF Prepared, Step
  <2>2. planAt'.step = "run" /\ planAt'.target = t /\ planAt'.target = planAt.target
    BY <1>1, <2>1
  <2>3. /\ DOMAIN work' = Targets /\ work'[t] = "due"
        /\ \A u \in Targets : u # t => work'[u] = work[u]
    BY <1>4, <2>1
  <2>4. Due(t)'
    BY <1>1, <1>3, <1>5, <2>3 DEF Due
  <2>5. \A u \in Targets : u > t \/ u < t => u # t
    BY TargetsAre
  <2>6. \A u \in Targets : (u > t => Untouched(u)') /\ (u < t => Over(u)')
    BY <1>2, <1>3, <1>5, <1>7, <2>3, <2>5 DEF Untouched, Behind, Over
  <2>7. PlanTypes'
    BY <1>3, <1>5, <2>2, <2>3 DEF PlanInv, PlanTypes
  <2>8. StageInv'
    BY <1>3, <1>7, <2>2, <2>4, <2>6 DEF StageInv
  <2>9. CompareInv'
    BY <1>1, <1>3, StillUncompared DEF PlanInv, CompareInv
  <2> QED
    BY <2>7, <2>8, <2>9 DEF PlanInv
<1> QED
  BY <1>4, <1>6, <1>7

LEMMA PrepareStep == ASSUME PlanInv, NEW t \in Targets, Prepare(t) PROVE PlanInv'
<1>1. planAt.step = "prepare" /\ planAt.target = t
  BY DEF Prepare, Is
<1>2. /\ InPreparation(t)
      /\ \A u \in Targets : (u > t => Untouched(u)) /\ (u < t => Behind(u))
  BY <1>1 DEF PlanInv, StageInv
<1>3. /\ status' = [status EXCEPT ![t] = "preparing"] /\ DOMAIN status = Targets
      /\ UNCHANGED <<mode, planAt, client, work, outcomes, shown, refInsights, comparisons,
                     verdict>>
  BY DEF Prepare, SetStatus, PlanInv, PlanTypes
<1>4. /\ DOMAIN status' = Targets /\ status'[t] = "preparing"
      /\ \A u \in Targets : u # t => status'[u] = status[u]
  BY <1>3
<1>5. \A u \in Targets : u > t \/ u < t => u # t
  BY TargetsAre
<1>6. InPreparation(t)'
  BY <1>2, <1>3, <1>4 DEF InPreparation
<1>7. \A u \in Targets : (u > t => Untouched(u)') /\ (u < t => Behind(u)')
  BY <1>2, <1>3, <1>4, <1>5 DEF Untouched, Behind, Over, Ready
<1>8. PlanTypes'
  BY <1>3, <1>4 DEF PlanInv, PlanTypes
<1>9. StageInv'
  BY <1>1, <1>3, <1>6, <1>7 DEF StageInv
<1>10. \A u \in Targets : status'[u] = "complete" => status[u] = "complete"
  BY <1>4
<1>11. CompareInv'
  BY <1>1, <1>3, <1>10, StillUncompared DEF PlanInv, CompareInv
<1> QED
  BY <1>8, <1>9, <1>11 DEF PlanInv

\* Only the target at hand works in a sequential plan, and all of them may
\* while a concurrent one waits.
LEMMA WhoWorks ==
    ASSUME PlanInv, NEW t \in Targets, work[t] \in {"due", "on"}
    PROVE  /\ work[t] = "due" => Due(t)
           /\ work[t] = "on" => Working(t)
           /\ \/ planAt.step = "run" /\ planAt.target = t /\ mode = "sequential"
              \/ planAt.step = "wait" /\ mode = "concurrent"
<1>1. planAt.step \in {"prepare", "run", "launch", "wait", "compare", "finish", "ended"}
  BY DEF PlanInv, PlanTypes
<1>2. ~Untouched(t) /\ ~InPreparation(t) /\ ~Ready(t) /\ ~Over(t) /\ ~Behind(t)
  BY DEF Untouched, InPreparation, Ready, Over, Behind
<1>3. planAt.step \notin {"launch", "compare", "finish", "ended"}
  BY <1>2, WhenEnded DEF PlanInv, StageInv, EndedAt
<1>4. planAt.target \in Targets => planAt.target = t \/ planAt.target < t \/ planAt.target > t
  BY TargetsAre
<1>5. planAt.target \in Targets => (planAt.target < t => t > planAt.target)
                                   /\ (planAt.target > t => t < planAt.target)
  BY TargetsAre
<1>6. planAt.step # "prepare"
  BY <1>2, <1>4, <1>5 DEF PlanInv, StageInv
<1>7. CASE planAt.step = "run"
  <2>1. planAt.target = t /\ mode = "sequential" /\ (Due(t) \/ Working(t))
    BY <1>2, <1>4, <1>5, <1>7 DEF PlanInv, StageInv
  <2> QED
    BY <1>7, <2>1 DEF Due, Working
<1>8. CASE planAt.step = "wait"
  <2>1. mode = "concurrent" /\ (Due(t) \/ Working(t))
    BY <1>2, <1>8 DEF PlanInv, StageInv
  <2> QED
    BY <1>8, <2>1 DEF Due, Working
<1> QED
  BY <1>1, <1>3, <1>6, <1>7, <1>8

\* The others stay where they are while target t goes on.
LEMMA OneMoves ==
    ASSUME PlanInv, NEW t \in Targets,
           planAt.step = "wait" \/ (planAt.step = "run" /\ planAt.target = t),
           mode' = mode, planAt' = planAt,
           DOMAIN status' = Targets, DOMAIN client' = Targets, DOMAIN work' = Targets,
           outcomes' = outcomes, comparisons' = comparisons,
           \A u \in Targets : u # t =>
               status'[u] = status[u] /\ client'[u] = client[u] /\ work'[u] = work[u],
           \/ Working(t)' /\ (mode = "sequential" => shown' = t)
           \/ Over(t)' /\ planAt.step = "wait",
           status'[t] = "complete" => outcomes[t] = "this",
           verdict' = "completed" => refInsights' # "none"
    PROVE  PlanInv'
<1>1. PlanTypes'
  BY DEF PlanInv, PlanTypes
<1>2. StageInv'
  <2>1. CASE planAt.step = "wait"
    <3>1. mode = "concurrent" /\ \A u \in Targets : Over(u) \/ Due(u) \/ Working(u)
      BY <2>1 DEF PlanInv, StageInv
    <3>2. \A u \in Targets : (Over(u) \/ Due(u) \/ Working(u))'
      BY <3>1 DEF Over, Due, Working
    <3> QED
      BY <2>1, <3>1, <3>2 DEF StageInv
  <2>2. CASE planAt.step = "run" /\ planAt.target = t
    <3>1. /\ mode = "sequential"
          /\ \A u \in Targets : (u > t => Untouched(u)) /\ (u < t => Over(u))
      BY <2>2 DEF PlanInv, StageInv
    <3>2. \A u \in Targets : u > t \/ u < t => u # t
      BY TargetsAre
    <3>3. \A u \in Targets : (u > t => Untouched(u)') /\ (u < t => Over(u)')
      BY <3>1, <3>2 DEF Untouched, Over
    <3>4. Working(t)' /\ shown' = t
      BY <2>2, <3>1
    <3> QED
      BY <2>2, <3>1, <3>3, <3>4 DEF StageInv
  <2> QED
    BY <2>1, <2>2
<1>3. \A u \in Targets : status'[u] = "complete" => outcomes'[u] = "this"
  <2>1. \A u \in Targets : u # t /\ status'[u] = "complete" => status[u] = "complete"
    OBVIOUS
  <2> QED
    BY <2>1 DEF PlanInv, CompareInv
<1>4. CompareInv'
  BY <1>3, StillUncompared DEF PlanInv
<1> QED
  BY <1>1, <1>2, <1>4 DEF PlanInv

LEMMA BeginTargetStep == ASSUME PlanInv, NEW t \in Targets, BeginTarget(t) PROVE PlanInv'
<1>1. work[t] = "due"
  BY DEF BeginTarget
<1>2. /\ Due(t)
      /\ \/ planAt.step = "run" /\ planAt.target = t /\ mode = "sequential"
         \/ planAt.step = "wait" /\ mode = "concurrent"
  BY <1>1, WhoWorks
<1>3. /\ work' = [work EXCEPT ![t] = "on"] /\ status' = [status EXCEPT ![t] = "running"]
      /\ mode = "sequential" => shown' = t
      /\ UNCHANGED <<mode, planAt, client, outcomes, refInsights, comparisons, verdict>>
  BY DEF BeginTarget, SetStatus
<1>4. DOMAIN status = Targets /\ DOMAIN work = Targets /\ DOMAIN client = Targets
  BY DEF PlanInv, PlanTypes
<1>5. /\ DOMAIN status' = Targets /\ DOMAIN client' = Targets /\ DOMAIN work' = Targets
      /\ status'[t] = "running" /\ work'[t] = "on" /\ client'[t] = client[t]
      /\ \A u \in Targets : u # t =>
             status'[u] = status[u] /\ client'[u] = client[u] /\ work'[u] = work[u]
  BY <1>3, <1>4
<1>6. Working(t)'
  BY <1>2, <1>5 DEF Due, Working
<1>7. verdict' = "completed" => refInsights' # "none"
  BY <1>3 DEF PlanInv, CompareInv
<1> QED
  BY <1>2, <1>3, <1>5, <1>6, <1>7, OneMoves

\* The workload of target t is over, whatever became of it.
LEMMA WorkEnds ==
    ASSUME PlanInv, NEW t \in Targets, work[t] = "on",
           work' = [work EXCEPT ![t] = "over"], client' = [client EXCEPT ![t] = "closed"],
           NEW s \in Finished, status' = [status EXCEPT ![t] = s],
           s = "complete" => outcomes[t] = "this",
           verdict' = verdict, refInsights # "none" => refInsights' # "none",
           UNCHANGED <<mode, outcomes, shown, comparisons>>,
           IF mode = "sequential" THEN AfterTarget(t) ELSE UNCHANGED planAt
    PROVE  PlanInv'
<1>1. /\ Working(t)
      /\ \/ planAt.step = "run" /\ planAt.target = t /\ mode = "sequential"
         \/ planAt.step = "wait" /\ mode = "concurrent"
  BY WhoWorks
<1>2. /\ DOMAIN status = Targets /\ DOMAIN work = Targets /\ DOMAIN client = Targets
      /\ DOMAIN outcomes = Targets /\ DOMAIN comparisons = 2..TargetCount
  BY DEF PlanInv, PlanTypes
<1>3. /\ DOMAIN status' = Targets /\ DOMAIN client' = Targets /\ DOMAIN work' = Targets
      /\ status'[t] = s /\ work'[t] = "over" /\ client'[t] = "closed"
      /\ \A u \in Targets : u # t =>
             status'[u] = status[u] /\ client'[u] = client[u] /\ work'[u] = work[u]
  BY <1>2
<1>4. Over(t)'
  BY <1>3 DEF Over
<1>5. verdict' = "completed" => refInsights' # "none"
  BY DEF PlanInv, CompareInv
<1>6. CASE planAt.step = "wait" /\ mode = "concurrent"
  <2>1. planAt' = planAt
    BY <1>6
  <2> QED
    BY <1>3, <1>4, <1>5, <1>6, <2>1, OneMoves
<1>7. CASE planAt.step = "run" /\ planAt.target = t /\ mode = "sequential"
  <2>1. \A u \in Targets : (u > t => Untouched(u)) /\ (u < t => Over(u))
    BY <1>7 DEF PlanInv, StageInv
  <2>2. \A u \in Targets : (u > t \/ u < t => u # t) /\ (~(u > t) => u < t \/ u = t)
    BY TargetsAre
  <2>3. \A u \in Targets : u > t => Untouched(u)'
    BY <1>3, <2>1, <2>2 DEF Untouched
  <2>4. \A u \in Targets : ~(u > t) => Over(u)'
    BY <1>3, <1>4, <2>1, <2>2 DEF Over
  <2>5. AfterTarget(t)
    BY <1>7
  <2>6. DOMAIN outcomes' = Targets /\ DOMAIN comparisons' = 2..TargetCount
    BY <1>2
  <2>7. PlanTypes
    BY DEF PlanInv
  <2>8. \A u \in Targets : ~(u > t) => Behind(u)'
    BY <2>4 DEF Behind
  <2>9. PlanTypes' /\ StageInv'
    BY <1>3, <2>3, <2>5, <2>6, <2>7, <2>8, Advance
  <2>10. \A u \in Targets : status'[u] = "complete" => outcomes'[u] = "this"
    <3>1. \A u \in Targets : u # t /\ status'[u] = "complete" => status[u] = "complete"
      BY <1>3
    <3> QED
      BY <1>3, <3>1 DEF PlanInv, CompareInv
  <2>11. CompareInv'
    BY <1>5, <1>7, <2>10, StillUncompared DEF PlanInv
  <2> QED
    BY <2>9, <2>11 DEF PlanInv
<1> QED
  BY <1>1, <1>6, <1>7

LEMMA RunEndsStep ==
    ASSUME PlanInv, NEW t \in Targets, NEW error \in BOOLEAN, RunEnds(t, error)
    PROVE  PlanInv'
<1>1. PICK s \in Finished : /\ status' = [status EXCEPT ![t] = s]
                            /\ s = "complete" => outcomes[t] = "this"
  <2>1. CASE error
    <3>1. PICK s \in Finished : FailedOr(s) /\ SetStatus(t, s)
      BY <2>1 DEF RunEnds
    <3>2. s # "complete"
      BY <3>1 DEF FailedOr
    <3> QED
      BY <3>1, <3>2 DEF SetStatus
  <2>2. CASE ~error
    <3>1. PICK s \in Finished :
              /\ SetStatus(t, IF stopAsked /\ s = "complete" THEN "cancelled" ELSE s)
              /\ outcomes[t] = "this" \/ stopAsked
      BY <2>2 DEF RunEnds
    <3> DEFINE r == IF stopAsked /\ s = "complete" THEN "cancelled" ELSE s
    <3>2. r \in Finished /\ (r = "complete" => outcomes[t] = "this")
      BY <3>1 DEF Finished
    <3> QED
      BY <3>1, <3>2 DEF SetStatus
  <2> QED
    BY <2>1, <2>2
<1>2. /\ work[t] = "on" /\ work' = [work EXCEPT ![t] = "over"]
      /\ client' = [client EXCEPT ![t] = "closed"]
      /\ verdict' = verdict /\ UNCHANGED <<mode, outcomes, shown, comparisons>>
      /\ IF mode = "sequential" THEN AfterTarget(t) ELSE UNCHANGED planAt
  BY DEF RunEnds
<1>3. refInsights # "none" => refInsights' # "none"
  BY DEF RunEnds
<1> QED
  BY <1>1, <1>2, <1>3, WorkEnds

LEMMA PanicsStep == ASSUME PlanInv, NEW t \in Targets, Panic(t) PROVE PlanInv'
<1>1. /\ work[t] = "on" /\ work' = [work EXCEPT ![t] = "over"]
      /\ client' = [client EXCEPT ![t] = "closed"]
      /\ UNCHANGED <<mode, outcomes, shown, comparisons, refInsights>>
  BY DEF Panic
<1>2. CASE mode = "concurrent"
  <2>1. status' = [status EXCEPT ![t] = "failed"] /\ UNCHANGED <<planAt, verdict>>
    BY <1>2 DEF Panic, SetStatus
  <2>2. "failed" \in Finished /\ mode # "sequential"
    BY <1>2 DEF Finished
  <2> QED
    BY <1>1, <2>1, <2>2, WorkEnds
<1>3. CASE mode # "concurrent"
  <2>1. planAt' = [step |-> "ended", target |-> t] /\ verdict' = "crashed" /\ status' = status
    BY <1>3 DEF Panic, Crash, Step
  <2>2. planAt'.step = "ended" /\ planAt'.target = t
    BY <2>1
  <2>3. /\ DOMAIN status = Targets /\ DOMAIN work = Targets /\ DOMAIN client = Targets
        /\ mode = "sequential"
    BY <1>3 DEF PlanInv, PlanTypes, Modes
  <2>4. /\ DOMAIN client' = Targets /\ DOMAIN work' = Targets
        /\ work'[t] = "over" /\ client'[t] = "closed"
        /\ \A u \in Targets : u # t => client'[u] = client[u] /\ work'[u] = work[u]
    BY <1>1, <2>3
  <2>5. planAt.step = "run" /\ planAt.target = t
    BY <1>1, <1>3, WhoWorks
  <2>6. \A u \in Targets : u # t => u > t \/ u < t
    BY TargetsAre
  <2>7. \A u \in Targets : u # t => Untouched(u) \/ Over(u)
    BY <2>5, <2>6 DEF PlanInv, StageInv
  <2>8. \A u \in Targets :
            client'[u] # "open" /\ work'[u] \in {"none", "over"} /\ (status'[u] = "preparing" => u = t)
    BY <2>1, <2>4, <2>7 DEF Untouched, Over, Finished
  <2>9. EndedAt(t)'
    BY <2>1, <2>8 DEF EndedAt
  <2>10. PlanTypes'
    BY <1>1, <2>1, <2>2, <2>4, TargetsAre DEF PlanInv, PlanTypes
  <2>11. StageInv'
    BY <2>2, <2>9 DEF StageInv
  <2>12. CompareInv'
    BY <1>1, <2>1, <2>5, StillUncompared DEF PlanInv, CompareInv
  <2> QED
    BY <2>10, <2>11, <2>12 DEF PlanInv
<1> QED
  BY <1>2, <1>3

LEMMA PanicPreparingStep ==
    ASSUME PlanInv, NEW t \in Targets, PanicPreparing(t) PROVE PlanInv'
<1>1. planAt.step = "prepare" /\ planAt.target = t /\ status[t] = "preparing"
  BY DEF PanicPreparing, Is
<1>2. /\ InPreparation(t)
      /\ \A u \in Targets : (u > t => Untouched(u)) /\ (u < t => Behind(u))
  BY <1>1 DEF PlanInv, StageInv
<1>3. /\ planAt' = [step |-> "ended", target |-> t] /\ verdict' = "crashed"
      /\ UNCHANGED <<mode, status, work, outcomes, refInsights, comparisons>>
  BY DEF PanicPreparing, Crash, Step
<1>4. PICK c \in {"none", "open"} : client' = [client EXCEPT ![t] = c]
  BY DEF PanicPreparing
<1>5. /\ DOMAIN client' = Targets
      /\ \A u \in Targets : u # t => client'[u] = client[u]
  BY <1>4 DEF PlanInv, PlanTypes
<1>6. planAt'.step = "ended" /\ planAt'.target = t
  BY <1>3
<1>7. \A u \in Targets : u # t => u > t \/ u < t
  BY TargetsAre
<1>8. \A u \in Targets : u # t => Untouched(u) \/ Over(u) \/ Ready(u)
  BY <1>2, <1>7 DEF Behind
<1>9. work[t] = "none" /\ status'[t] = "preparing"
  BY <1>1, <1>2, <1>3 DEF InPreparation
<1>10. \A u \in Targets :
          /\ work'[u] \in {"none", "over"}
          /\ status'[u] = "preparing" /\ client'[u] = "none" => u = t
          /\ client'[u] = "open" => work'[u] = "none"
  <2> SUFFICES ASSUME NEW u \in Targets
               PROVE  /\ work'[u] \in {"none", "over"}
                      /\ status'[u] = "preparing" /\ client'[u] = "none" => u = t
                      /\ client'[u] = "open" => work'[u] = "none"
    OBVIOUS
  <2>1. CASE u = t
    BY <1>3, <1>9, <2>1
  <2>2. CASE u # t
    BY <1>3, <1>5, <1>8, <2>2 DEF Untouched, Over, Ready, Finished
  <2> QED
    BY <2>1, <2>2
<1>11. EndedAt(t)'
  BY <1>3, <1>9, <1>10 DEF EndedAt
<1>12. PlanTypes'
  BY <1>3, <1>5, <1>6, TargetsAre DEF PlanInv, PlanTypes
<1>13. StageInv'
  BY <1>6, <1>11 DEF StageInv
<1>14. CompareInv'
  BY <1>1, <1>3, StillUncompared DEF PlanInv, CompareInv
<1> QED
  BY <1>12, <1>13, <1>14 DEF PlanInv

LEMMA LaunchAllStep == PlanInv /\ LaunchAll => PlanInv'
<1> SUFFICES ASSUME PlanInv, LaunchAll PROVE PlanInv'
  OBVIOUS
<1>1. planAt.step = "launch" /\ mode = "concurrent" /\ \A u \in Targets : Behind(u)
  BY DEF LaunchAll, Is, PlanInv, StageInv
<1>2. /\ planAt' = [step |-> "wait", target |-> 0]
      /\ work' = [u \in Targets |-> IF client[u] = "open" THEN "due" ELSE work[u]]
      /\ UNCHANGED <<mode, status, client, outcomes, shown, refInsights, comparisons, verdict>>
  BY DEF LaunchAll, Step
<1>3. planAt'.step = "wait" /\ planAt'.target = 0 /\ 0 \in 0..TargetCount
  BY <1>2, TargetsAre
<1>4. DOMAIN work' = Targets
  BY <1>2
<1>5. \A u \in Targets : (Over(u) \/ Due(u))'
  BY <1>1, <1>2 DEF Behind, Over, Ready, Due
<1>6. PlanTypes'
  BY <1>2, <1>3, <1>4 DEF PlanInv, PlanTypes
<1>7. StageInv'
  BY <1>1, <1>2, <1>3, <1>5 DEF StageInv
<1>8. CompareInv'
  BY <1>1, <1>2, StillUncompared DEF PlanInv, CompareInv
<1> QED
  BY <1>6, <1>7, <1>8 DEF PlanInv

LEMMA WaitAllStep == PlanInv /\ WaitAll => PlanInv'
<1> SUFFICES ASSUME PlanInv, WaitAll PROVE PlanInv'
  OBVIOUS
<1>1. /\ planAt.step = "wait" /\ planAt' = [step |-> "compare", target |-> 0]
      /\ \A u \in Targets : work[u] \in {"none", "over"}
      /\ UNCHANGED <<mode, status, client, work, outcomes, shown, refInsights, comparisons, verdict>>
  BY DEF WaitAll, Is, Step, targetVars
<1>2. planAt'.step = "compare" /\ planAt'.target = 0 /\ 0 \in 0..TargetCount
  BY <1>1, TargetsAre
<1>3. \A u \in Targets : Over(u)
  BY <1>1 DEF PlanInv, StageInv, Due, Working
<1>4. \A u \in Targets : Over(u)'
  BY <1>1, <1>3 DEF Over
<1>5. PlanTypes'
  BY <1>1, <1>2 DEF PlanInv, PlanTypes
<1>6. StageInv'
  BY <1>2, <1>4 DEF StageInv
<1>7. CompareInv'
  BY <1>1, StillUncompared DEF PlanInv, CompareInv
<1> QED
  BY <1>5, <1>6, <1>7 DEF PlanInv

LEMMA CompareStep == PlanInv /\ Compare => PlanInv'
<1> SUFFICES ASSUME PlanInv, Compare PROVE PlanInv'
  OBVIOUS
<1>1. /\ planAt.step = "compare" /\ planAt' = [step |-> "finish", target |-> 0]
      /\ comparisons' = [u \in DOMAIN comparisons |-> ComparisonOf(u)]
      /\ UNCHANGED <<mode, status, client, work, outcomes, shown, refInsights, verdict>>
  BY DEF Compare, Is, Step, targetVars
<1>2. planAt'.step = "finish" /\ planAt'.target = 0 /\ 0 \in 0..TargetCount
  BY <1>1, TargetsAre
<1>3. \A u \in Targets : Over(u)
  BY <1>1 DEF PlanInv, StageInv
<1>4. \A u \in Targets : Over(u)'
  BY <1>1, <1>3 DEF Over
<1>5. /\ DOMAIN comparisons' = 2..TargetCount
      /\ \A u \in 2..TargetCount : comparisons'[u] = ComparisonOf(u)
  BY <1>1 DEF PlanInv, PlanTypes
<1>6. PlanTypes'
  BY <1>1, <1>2, <1>5 DEF PlanInv, PlanTypes
<1>7. StageInv'
  BY <1>2, <1>4 DEF StageInv
<1>8. \A u \in 2..TargetCount : u \in Targets
  BY TargetsAre
<1>9. \A u \in Targets : status[u] = "complete" => outcomes[u] = "this"
  BY DEF PlanInv, CompareInv
<1>10. \A u \in 2..TargetCount : status[1] = "complete" /\ status[u] = "complete" =>
           ComparisonOf(u) = "this run"
  BY <1>8, <1>9, TargetsAre DEF ComparisonOf
<1>11. verdict = "completed" => refInsights # "none"
  BY DEF PlanInv, CompareInv
<1>12. CompareInv'
  BY <1>1, <1>2, <1>5, <1>9, <1>10, <1>11 DEF CompareInv
<1> QED
  BY <1>6, <1>7, <1>12 DEF PlanInv

LEMMA FinishStep == PlanInv /\ Finish => PlanInv'
<1> SUFFICES ASSUME PlanInv, Finish PROVE PlanInv'
  OBVIOUS
<1>1. /\ planAt.step = "finish" /\ planAt' = [step |-> "ended", target |-> 0]
      /\ refInsights' # "none"
      /\ UNCHANGED <<mode, status, client, work, outcomes, comparisons>>
  BY DEF Finish, Is, Step, targetVars
<1>2. planAt'.step = "ended" /\ planAt'.target = 0 /\ 0 \in 0..TargetCount
  BY <1>1, TargetsAre
<1>3. \A u \in Targets : Over(u)
  BY <1>1 DEF PlanInv, StageInv
<1>4. \A u \in Targets : /\ client'[u] # "open" /\ work'[u] \in {"none", "over"}
                         /\ status'[u] \in Finished /\ status'[u] # "preparing"
  BY <1>1, <1>3 DEF Over, Finished
<1>8. EndedAt(0)'
  BY <1>4 DEF EndedAt
<1>5. PlanTypes'
  BY <1>1, <1>2 DEF PlanInv, PlanTypes
<1>6. StageInv'
  BY <1>2, <1>8 DEF StageInv
<1>7. CompareInv'
  BY <1>1, <1>2 DEF PlanInv, CompareInv
<1> QED
  BY <1>5, <1>6, <1>7 DEF PlanInv

LEMMA PlanNext == PlanInv /\ [MNext]_planVars => PlanInv'
<1> SUFFICES ASSUME PlanInv, [MNext]_planVars PROVE PlanInv'
  OBVIOUS
<1>0. DOMAIN outcomes = Targets
  BY DEF PlanInv, PlanTypes
<1>1. ASSUME NEW t \in Targets, \/ Refuse(t) \/ Prepare(t) \/ PrepareFails(t) \/ Prepared(t)
                                \/ PanicPreparing(t) \/ BeginTarget(t)
      PROVE PlanInv'
  BY <1>1, RefuseStep, PrepareStep, PrepareFailsStep, PreparedStep, PanicPreparingStep,
     BeginTargetStep
<1>2. ASSUME LaunchAll \/ WaitAll \/ Compare \/ Finish PROVE PlanInv'
  BY <1>2, LaunchAllStep, WaitAllStep, CompareStep, FinishStep
<1>3. CASE AskStop
  BY <1>0, <1>3, TargetsStay DEF AskStop, targetVars
<1>4. ASSUME NEW t \in Targets, OpenOutcomes(t) PROVE PlanInv'
  <2>1. outcomes' = [outcomes EXCEPT ![t] = "this"]
    BY <1>4 DEF OpenOutcomes
  <2>2. /\ DOMAIN outcomes' = Targets
        /\ \A u \in Targets : outcomes[u] = "this" => outcomes'[u] = "this"
    BY <1>0, <2>1
  <2> QED
    BY <1>4, <2>2, TargetsStay DEF OpenOutcomes
<1>5. ASSUME NEW t \in Targets, Panic(t) \/ \E error \in BOOLEAN : RunEnds(t, error)
      PROVE PlanInv'
  BY <1>5, PanicsStep, RunEndsStep
<1>6. ASSUME NEW t \in Targets, SampleFinal(t) PROVE PlanInv'
  BY <1>0, <1>6, TargetsStay DEF SampleFinal, targetVars
<1>7. CASE UNCHANGED planVars
  BY <1>0, <1>7, TargetsStay DEF planVars, targetVars
<1> QED
  BY <1>1, <1>2, <1>3, <1>4, <1>5, <1>6, <1>7 DEF MNext, PlanStep, TargetStep

LEMMA PlanInvGives == PlanInv => PlanSound
<1> SUFFICES ASSUME PlanInv PROVE PlanSound
  OBVIOUS
<1>1. Cardinality({t \in Targets : status[t] = "preparing" /\ client[t] = "none"}) <= 1
  <2> DEFINE InWork == {t \in Targets : status[t] = "preparing" /\ client[t] = "none"}
  <2>1. planAt.step \in {"prepare", "run", "launch", "wait", "compare", "finish", "ended"}
    BY DEF PlanInv, PlanTypes
  <2>2. \A u \in InWork : ~Untouched(u) /\ ~Ready(u) /\ ~Due(u) /\ ~Working(u) /\ ~Over(u)
    BY DEF Untouched, Ready, Due, Working, Over, Finished
  <2>3. \A u \in InWork : u = planAt.target
    <3> SUFFICES ASSUME NEW u \in InWork PROVE u = planAt.target
      OBVIOUS
    <3>1. u \in Targets /\ status[u] \notin Finished
      BY DEF Finished
    <3>2. ~Untouched(u) /\ ~Ready(u) /\ ~Due(u) /\ ~Working(u) /\ ~Over(u) /\ ~Behind(u)
      BY <2>2 DEF Behind
    <3>3. planAt.target \in Targets => u = planAt.target \/ u < planAt.target \/ u > planAt.target
      BY <3>1, TargetsAre
    <3>4. planAt.step \notin {"launch", "wait", "compare", "finish"}
      BY <3>1, <3>2 DEF PlanInv, StageInv
    <3>5. planAt.step # "run"
      BY <3>1, <3>2, <3>3 DEF PlanInv, StageInv
    <3>6. planAt.step = "prepare" => u = planAt.target
      BY <3>1, <3>2, <3>3 DEF PlanInv, StageInv
    <3>7. planAt.step = "ended" => u = planAt.target
      BY <3>1, WhenEnded DEF EndedAt
    <3> QED
      BY <2>1, <3>4, <3>5, <3>6, <3>7
  <2>4. InWork \subseteq {planAt.target}
    BY <2>3
  <2>5. IsFiniteSet({planAt.target}) /\ Cardinality({planAt.target}) = 1
    BY FS_Singleton
  <2>6. Cardinality(InWork) <= Cardinality({planAt.target})
    BY <2>4, <2>5, FS_Subset
  <2> QED
    BY <2>5, <2>6
<1>2. planAt.step = "prepare" => \A t \in Targets : work[t] \notin {"due", "on"}
  BY WhoWorks
<1>3. mode = "sequential" => \A t \in Targets : work[t] = "on" => shown = t
  <2> SUFFICES ASSUME mode = "sequential", NEW t \in Targets, work[t] = "on" PROVE shown = t
    OBVIOUS
  <2>1. planAt.step = "run" /\ planAt.target = t
    BY WhoWorks
  <2>2. ~Due(t)
    BY DEF Due
  <2> QED
    BY <2>1, <2>2 DEF PlanInv, StageInv
<1>4. PlanSettled
  <2> SUFFICES ASSUME planAt.step = "ended" PROVE PlanSettled
    BY DEF PlanSettled
  <2>1. \A u \in Targets : client[u] = "open" =>
            /\ verdict = "crashed" /\ work[u] = "none"
            /\ \E w \in Targets : status[w] = "preparing"
    BY WhenEnded DEF EndedAt
  <2>2. verdict = "crashed" \/ \A u \in Targets : status[u] \in Finished
    BY WhenEnded DEF EndedAt
  <2>3. \A u \in DOMAIN comparisons :
            {status[1], status[u]} = {"complete"} /\ comparisons[u] # "no"
                => comparisons[u] = "this run"
    BY DEF PlanInv, PlanTypes, CompareInv
  <2>4. verdict = "completed" => refInsights # "none"
    BY DEF PlanInv, CompareInv
  <2> QED
    BY <2>1, <2>2, <2>3, <2>4 DEF PlanSettled
<1> QED
  BY <1>1, <1>2, <1>3, <1>4 DEF PlanSound, OneAtATime

\* One target is prepared at a time and nothing works meanwhile, a sequential
\* plan shows the target that works, and at the end every target is settled and
\* closed, unless a panic ended the plan (one while a target is prepared leaves
\* open what was prepared), and targets that completed are compared by the
\* files of this run, for any number of targets (Plan.Run).
THEOREM PlanTheorem == MSpec => []PlanSound
<1>1. PlanInv /\ [][MNext]_planVars => []PlanInv
  BY PlanNext, PTL
<1> QED
  BY PlanInitial, PlanInvGives, <1>1, PTL DEF MSpec

-----------------------------------------------------------------------------
(***************************************************************************)
(* A sweep.  While one that has the server to itself goes on no other      *)
(* request is past its check or has taken the slot unread, so that every   *)
(* change of the slot and of the phase is its own; SweepInv says which of its runs work, failed or are stored in  *)
(* every step of it.                                                       *)
(***************************************************************************)

Afoot == {"start", "starting", "wait", "look", "next", "pause", "stop", "fail", "finish"}

Stored(r, l) == \E d \in tagged : d.run = Run(r, l)

\* No run of request r exists yet.
Unborn(r) ==
    \A l \in 0..Levels : /\ Run(r, l) \notin live \cup leaving \cup fault
                         /\ ~Stored(r, l)

\* Sweep r has the server to itself until it is gone.
AloneInv(r) ==
    /\ at[r] \in Afoot \cup {"gone"} /\ sw[r].level >= 1
    /\ at[r] = "gone" => ~Active(r)
    /\ at[r] # "gone" => /\ Active(r) /\ sweep = r
                         /\ \A q \in Requests : q # r => at[q] \in {"new", "unread", "gone"}

\* Only the run of its level works, while the sweep waits, and a failed one
\* ends the sweep.
RunsInv(r) ==
    \A l \in 0..Levels :
        /\ Run(r, l) \in live \cup leaving => at[r] = "wait" /\ l = sw[r].level
        /\ Run(r, l) \in fault => \/ at[r] \in {"wait", "look"} /\ failed
                                  \/ at[r] \in {"stop", "fail", "gone"}

\* Levels behind the sweep are stored, each under its own name.
StoredInv(r) ==
    /\ \A l \in 1..Levels : l < sw[r].level => Stored(r, l)
    /\ at[r] \in {"next", "pause"} => Stored(r, sw[r].level)
    /\ at[r] = "look" => failed \/ Stored(r, sw[r].level)
    /\ at[r] = "wait" =>
          failed \/ Run(r, sw[r].level) \in live \cup leaving \/ Stored(r, sw[r].level)
    /\ \A l \in 0..Levels : \A d \in tagged : d.run = Run(r, l) => d.tag = Run(r, l)

SweepStates == {"none", "running", "waiting", "stopped", "failed", "done"}

SweepTypes ==
    /\ DOMAIN at = Requests /\ alone \subseteq Sweeps
    /\ sw \in [Sweeps -> [level : Nat, state : SweepStates, cancelled : BOOLEAN]]

SweepPart(r) ==
    /\ at[r] \in {"new", "checked"} => Unborn(r)
    /\ r \in alone => AloneInv(r) /\ RunsInv(r) /\ StoredInv(r)

SweepInv == SweepTypes /\ \A r \in Sweeps : SweepPart(r)

LEMMA RunsDiffer ==
    ASSUME NEW r, NEW l, NEW q, NEW m
    PROVE  Run(r, l) = Run(q, m) <=> r = q /\ l = m
<1>1. Run(r, l).by = r /\ Run(r, l).level = l /\ Run(q, m).by = q /\ Run(q, m).level = m
  BY DEF Run
<1> QED
  BY <1>1

LEMMA SweepInitial == SweepInit => SweepInv
<1> SUFFICES ASSUME SweepInit PROVE SweepInv
  OBVIOUS
<1>1. SweepTypes
  <2>1. [level |-> 0, state |-> "none", cancelled |-> FALSE]
            \in [level : Nat, state : SweepStates, cancelled : BOOLEAN]
    BY DEF SweepStates
  <2>2. sw \in [Sweeps -> [level : Nat, state : SweepStates, cancelled : BOOLEAN]]
    BY <2>1 DEF SweepInit
  <2>3. DOMAIN at = Requests /\ alone \subseteq Sweeps
    BY DEF SweepInit
  <2> QED
    BY <2>2, <2>3 DEF SweepTypes
<1>2. \A r \in Sweeps : SweepPart(r)
  BY DEF SweepInit, SweepPart, Unborn, Stored
<1> QED
  BY <1>1, <1>2 DEF SweepInv

\* Somebody else's step: a sweep that has the server allows none, and one
\* that is gone does not mind.
LEMMA Bystander ==
    ASSUME SweepInv, NEW q \in Requests, at[q] \notin {"new", "unread", "gone"},
           NEW r \in Sweeps, r # q, at'[r] = at[r], sw'[r] = sw[r], r \in alone' => r \in alone,
           live' \subseteq live \cup {Now(q)}, leaving' = leaving,
           fault' \subseteq fault \cup {Now(q)}, tagged' = tagged
    PROVE  SweepPart(r)'
<1>1. \A l \in 0..Levels : Run(r, l) # Now(q)
  BY RunsDiffer DEF Now
<1>2. SweepPart(r)
  BY DEF SweepInv
<1>3. at'[r] \in {"new", "checked"} => Unborn(r)'
  BY <1>1, <1>2 DEF SweepPart, Unborn, Stored
<1>4. ASSUME r \in alone' PROVE (AloneInv(r) /\ RunsInv(r) /\ StoredInv(r))'
  <2>1. AloneInv(r) /\ RunsInv(r) /\ StoredInv(r)
    BY <1>2, <1>4 DEF SweepPart
  <2>2. at[r] = "gone"
    BY <2>1 DEF AloneInv
  <2>3. AloneInv(r)'
    BY <2>1, <2>2 DEF AloneInv, Active
  <2>4. RunsInv(r)'
    BY <1>1, <2>1, <2>2 DEF RunsInv
  <2>5. StoredInv(r)'
    BY <2>1, <2>2 DEF StoredInv, Stored
  <2> QED
    BY <2>3, <2>4, <2>5
<1> QED
  BY <1>3, <1>4 DEF SweepPart

\* A step of request q that is past its check, from what it does to q itself.
LEMMA RequestMoves ==
    ASSUME SweepInv, NEW q \in Requests, at[q] \notin {"new", "unread", "gone"}, NEW where,
           at' = [at EXCEPT ![q] = where], where \notin {"new", "checked"},
           SweepTypes',
           \A r \in Sweeps : r # q => sw'[r] = sw[r] /\ (r \in alone' => r \in alone),
           live' \subseteq live \cup {Now(q)}, leaving' = leaving,
           fault' \subseteq fault \cup {Now(q)}, tagged' = tagged,
           q \in alone' => AloneInv(q)' /\ RunsInv(q)' /\ StoredInv(q)'
    PROVE  SweepInv'
<1>1. DOMAIN at = Requests
  BY DEF SweepInv, SweepTypes
<1>2. ASSUME NEW r \in Sweeps PROVE SweepPart(r)'
  <2>1. CASE r = q
    BY <1>1, <2>1 DEF SweepPart
  <2>2. CASE r # q
    <3>1. at'[r] = at[r]
      BY <1>1, <2>2
    <3> QED
      BY <2>2, <3>1, Bystander
  <2> QED
    BY <2>1, <2>2
<1> QED
  BY <1>2 DEF SweepInv

\* What the invariant says of a sweep that registered alone and goes on.
LEMMA AloneGoes ==
    ASSUME SweepInv, NEW r \in Requests, r \in alone, at[r] # "gone"
    PROVE  /\ r \in Sweeps /\ AloneInv(r) /\ RunsInv(r) /\ StoredInv(r)
           /\ sweep = r /\ Active(r) /\ at[r] \in Afoot
           /\ sw[r].level \in Nat /\ sw[r].level >= 1
           /\ \A q \in Requests : q # r => at[q] \in {"new", "unread", "gone"}
<1>1. r \in Sweeps
  BY DEF SweepInv, SweepTypes
<1>2. AloneInv(r) /\ RunsInv(r) /\ StoredInv(r)
  BY <1>1 DEF SweepInv, SweepPart
<1>3. sw[r].level \in Nat
  BY <1>1 DEF SweepInv, SweepTypes
<1> QED
  BY <1>1, <1>2, <1>3 DEF AloneInv

\* While the sweep keeps its place alone so does its claim on the server.
LEMMA StaysAlone ==
    ASSUME SweepInv, NEW r \in Requests, r \in alone, at[r] # "gone", NEW where \in Afoot,
           at' = [at EXCEPT ![r] = where], sweep' = sweep, Active(r)', sw'[r].level >= 1
    PROVE  AloneInv(r)'
<1>1. DOMAIN at = Requests
  BY DEF SweepInv, SweepTypes
<1>2. at'[r] = where /\ \A q \in Requests : q # r => at'[q] = at[q]
  BY <1>1
<1>3. sweep = r /\ \A q \in Requests : q # r => at[q] \in {"new", "unread", "gone"}
  BY AloneGoes
<1>4. where # "gone"
  BY DEF Afoot
<1> QED
  BY <1>2, <1>3, <1>4 DEF AloneInv

LEMMA CheckStep == ASSUME SweepInv, NEW q \in Requests, Check(q) PROVE SweepInv'
<1>1. /\ at[q] = "new"
      /\ at' = [at EXCEPT ![q] = IF Active(sweep) THEN "gone" ELSE "checked"]
      /\ UNCHANGED <<slot, failed, phase, cancelSet, live, leaving, fault, tagged, sweep, sw, alone>>
  BY DEF Check, To, runVars
<1>2. DOMAIN at = Requests
  BY DEF SweepInv, SweepTypes
<1>3. /\ at'[q] = IF Active(sweep) THEN "gone" ELSE "checked"
      /\ \A r \in Requests : r # q => at'[r] = at[r]
  BY <1>1, <1>2
<1>4. SweepTypes'
  BY <1>1, <1>2 DEF SweepInv, SweepTypes
<1>5. ASSUME NEW r \in Sweeps PROVE SweepPart(r)'
  <2>1. SweepPart(r) /\ r \in Requests
    BY DEF SweepInv, Requests
  <2>2. at'[r] \in {"new", "checked"} => Unborn(r)'
    <3>1. at'[r] \in {"new", "checked"} => at[r] \in {"new", "checked"}
      BY <1>1, <1>3, <2>1
    <3> QED
      BY <1>1, <2>1, <3>1 DEF SweepPart, Unborn, Stored
  <2>3. ASSUME r \in alone' PROVE (AloneInv(r) /\ RunsInv(r) /\ StoredInv(r))'
    <3>1. r \in alone /\ AloneInv(r) /\ RunsInv(r) /\ StoredInv(r)
      BY <1>1, <2>1, <2>3 DEF SweepPart
    <3>2. r # q /\ at'[r] = at[r]
      BY <1>1, <1>3, <2>1, <3>1 DEF AloneInv, Afoot
    <3>3. at[r] # "gone" => at'[q] = "gone"
      BY <1>3, <3>1 DEF AloneInv
    <3>4. Active(r)' <=> Active(r)
      BY <1>1 DEF Active
    <3>5. at'[r] # "gone" => \A p \in Requests : p # r => at'[p] \in {"new", "unread", "gone"}
      BY <1>3, <3>1, <3>2, <3>3 DEF AloneInv
    <3>6. AloneInv(r)'
      BY <1>1, <3>1, <3>2, <3>4, <3>5 DEF AloneInv
    <3>7. RunsInv(r)'
      BY <1>1, <3>1, <3>2 DEF RunsInv
    <3>8. StoredInv(r)'
      BY <1>1, <3>1, <3>2 DEF StoredInv, Stored
    <3> QED
      BY <3>6, <3>7, <3>8
  <2> QED
    BY <2>2, <2>3 DEF SweepPart
<1> QED
  BY <1>4, <1>5 DEF SweepInv

LEMMA UnreadableStep == ASSUME SweepInv, NEW q \in Requests, Unreadable(q) PROVE SweepInv'
<1>1. /\ at[q] = "new" /\ q \in Plain /\ at' = [at EXCEPT ![q] = "unread"]
      /\ UNCHANGED <<slot, failed, phase, cancelSet, live, leaving, fault, tagged, sweep, sw, alone>>
  BY DEF Unreadable, To, runVars
<1>2. DOMAIN at = Requests /\ SweepTypes
  BY DEF SweepInv, SweepTypes
<1>3. SweepTypes'
  BY <1>1, <1>2 DEF SweepTypes
<1>4. ASSUME NEW r \in Sweeps PROVE SweepPart(r)'
  <2>1. SweepPart(r) /\ r # q /\ at'[r] = at[r]
    BY <1>1, <1>2, SweepAssumption DEF SweepInv
  <2>2. Unborn(r) => Unborn(r)'
    BY <1>1 DEF Unborn, Stored
  <2>3. AloneInv(r) => AloneInv(r)'
    BY <1>1, <1>2, <2>1 DEF AloneInv, Active
  <2>4. (RunsInv(r) => RunsInv(r)') /\ (StoredInv(r) => StoredInv(r)')
    BY <1>1, <2>1 DEF RunsInv, StoredInv, Stored
  <2> QED
    BY <1>1, <2>1, <2>2, <2>3, <2>4 DEF SweepPart
<1> QED
  BY <1>3, <1>4 DEF SweepInv

\* It leaves alone the claim of a sweep that goes on, or takes it.
LEMMA TakeUnreadStep == ASSUME SweepInv, NEW q \in Requests, TakeUnread(q) PROVE SweepInv'
<1>1. /\ at[q] = "unread" /\ q \in Requests
      /\ UNCHANGED <<live, leaving, fault, tagged, sweep, sw>>
      /\ (slot /\ at' = [at EXCEPT ![q] = "gone"] /\ UNCHANGED <<failed, alone>>)
            \/ (at' = [at EXCEPT ![q] = "broken"] /\ alone' = alone \ {sweep})
  BY DEF TakeUnread, To
<1>2. DOMAIN at = Requests /\ SweepTypes
  BY DEF SweepInv, SweepTypes
<1>3. SweepTypes'
  BY <1>1, <1>2 DEF SweepTypes
<1>4. ASSUME NEW r \in Sweeps PROVE SweepPart(r)'
  <2>1. SweepPart(r)
    BY DEF SweepInv
  <2>2. at'[r] \in {"new", "checked"} => at[r] = at'[r]
    BY <1>1, <1>2 DEF Requests
  <2>3. Unborn(r) => Unborn(r)'
    BY <1>1 DEF Unborn, Stored
  <2>4. ASSUME r \in alone' PROVE (AloneInv(r) /\ RunsInv(r) /\ StoredInv(r))'
    <3>1. AloneInv(r) /\ RunsInv(r) /\ StoredInv(r)
      BY <1>1, <2>1, <2>4 DEF SweepPart
    <3>2. r # q /\ at'[r] = at[r]
      BY <1>1, <1>2, <3>1 DEF AloneInv, Afoot, Requests
    <3>3. CASE slot /\ at' = [at EXCEPT ![q] = "gone"] /\ UNCHANGED <<failed, alone>>
      <4>1. AloneInv(r)'
        BY <1>1, <1>2, <3>1, <3>2, <3>3 DEF AloneInv, Active
      <4> QED
        BY <1>1, <3>1, <3>2, <3>3, <4>1 DEF RunsInv, StoredInv, Stored
    <3>4. CASE at' = [at EXCEPT ![q] = "broken"] /\ alone' = alone \ {sweep}
      <4>1. at[r] = "gone"
        BY <2>4, <3>1, <3>4 DEF AloneInv
      <4>2. AloneInv(r)'
        BY <1>1, <3>1, <3>2, <4>1 DEF AloneInv, Active
      <4> QED
        BY <1>1, <3>1, <3>2, <4>1, <4>2 DEF RunsInv, StoredInv, Stored
    <3> QED
      BY <1>1, <3>3, <3>4
  <2> QED
    BY <2>1, <2>2, <2>3, <2>4 DEF SweepPart
<1> QED
  BY <1>3, <1>4 DEF SweepInv

LEMMA RegisterStep == ASSUME SweepInv, NEW q \in Requests, Register(q) PROVE SweepInv'
<1>1. /\ at[q] = "checked" /\ q \in Sweeps
      /\ UNCHANGED <<slot, failed, phase, cancelSet, live, leaving, fault, tagged>>
  BY DEF Register, runVars
<1>2. DOMAIN at = Requests /\ SweepTypes /\ Unborn(q)
  BY <1>1 DEF SweepInv, SweepTypes, SweepPart
<1>3. q \notin alone
  BY <1>1 DEF SweepInv, SweepPart, AloneInv, Afoot
<1>4. CASE slot
  <2>1. at' = [at EXCEPT ![q] = "gone"] /\ UNCHANGED <<sweep, sw, alone>>
    BY <1>4 DEF Register, To
  <2>2. SweepTypes'
    BY <1>2, <2>1 DEF SweepTypes
  <2> QED
    BY <1>1, <1>3, <2>1, <2>2, RequestMoves
<1>5. CASE ~slot
  <2>1. /\ sweep' = q /\ at' = [at EXCEPT ![q] = "start"]
        /\ sw' = [sw EXCEPT ![q] = [level |-> 1, state |-> "running", cancelled |-> FALSE]]
        /\ alone' = IF \A p \in Requests \ {q} : at[p] \in {"new", "unread", "gone"}
                    THEN alone \cup {q} ELSE alone
    BY <1>5 DEF Register, To, Harmless
  <2>2. [level |-> 1, state |-> "running", cancelled |-> FALSE]
            \in [level : Nat, state : SweepStates, cancelled : BOOLEAN]
    BY DEF SweepStates
  <2>3. sw' \in [Sweeps -> [level : Nat, state : SweepStates, cancelled : BOOLEAN]]
    BY <1>2, <2>1, <2>2 DEF SweepTypes
  <2>4. SweepTypes'
    BY <1>1, <1>2, <2>1, <2>3 DEF SweepTypes
  <2>5. /\ sw'[q] = [level |-> 1, state |-> "running", cancelled |-> FALSE]
        /\ \A r \in Sweeps : r # q => sw'[r] = sw[r]
    BY <1>1, <1>2, <2>1 DEF SweepTypes
  <2>6. sw'[q].level = 1 /\ sw'[q].state = "running"
    BY <2>5
  <2>7. at'[q] = "start" /\ \A p \in Requests : p # q => at'[p] = at[p]
    BY <1>2, <2>1
  <2>8. ASSUME q \in alone' PROVE (AloneInv(q) /\ RunsInv(q) /\ StoredInv(q))'
    <3>1. \A p \in Requests \ {q} : at[p] \in {"new", "unread", "gone"}
      BY <1>3, <2>1, <2>8
    <3>2. Active(q)'
      BY <1>1, <2>6, SweepAssumption DEF Active
    <3>3. AloneInv(q)'
      BY <2>1, <2>6, <2>7, <3>1, <3>2 DEF AloneInv, Afoot
    <3>4. RunsInv(q)'
      BY <1>1, <1>2 DEF RunsInv, Unborn
    <3>5. \A l \in 1..Levels : ~(l < 1) /\ l \in 0..Levels
      BY SweepAssumption
    <3>6. StoredInv(q)'
      BY <1>1, <1>2, <2>6, <2>7, <3>5 DEF StoredInv, Stored, Unborn
    <3> QED
      BY <3>3, <3>4, <3>6
  <2> QED
    BY <1>1, <2>1, <2>4, <2>5, <2>8, RequestMoves
<1> QED
  BY <1>4, <1>5

\* A step of a sweep sets its state, and may set its level.
LEMMA SweepRecord ==
    ASSUME SweepInv, NEW q \in Sweeps, NEW n \in Nat, NEW st \in SweepStates,
           sw' = [sw EXCEPT ![q] = [sw[q] EXCEPT !.level = n, !.state = st]]
    PROVE  /\ sw' \in [Sweeps -> [level : Nat, state : SweepStates, cancelled : BOOLEAN]]
           /\ sw'[q].level = n /\ sw'[q].state = st
           /\ \A r \in Sweeps : r # q => sw'[r] = sw[r]
<1>1. sw \in [Sweeps -> [level : Nat, state : SweepStates, cancelled : BOOLEAN]]
  BY DEF SweepInv, SweepTypes
<1>2. [sw[q] EXCEPT !.level = n, !.state = st]
          \in [level : Nat, state : SweepStates, cancelled : BOOLEAN]
  BY <1>1
<1>3. /\ sw'[q] = [sw[q] EXCEPT !.level = n, !.state = st]
      /\ \A r \in Sweeps : r # q => sw'[r] = sw[r]
  BY <1>1
<1>4. sw' \in [Sweeps -> [level : Nat, state : SweepStates, cancelled : BOOLEAN]]
  BY <1>1, <1>2
<1>5. sw'[q].level = n /\ sw'[q].state = st
  BY <1>1, <1>3
<1> QED
  BY <1>3, <1>4, <1>5

LEMMA TakeSlotStep == ASSUME SweepInv, NEW q \in Requests, TakeSlot(q) PROVE SweepInv'
<1>1. /\ at[q] = "start" \/ (at[q] = "checked" /\ q \in Plain)
      /\ UNCHANGED <<live, leaving, fault, tagged, sweep, sw, alone>>
  BY DEF TakeSlot
<1>2. PICK where \in {"fail", "gone", "starting"} :
          at' = [at EXCEPT ![q] = where] /\ (q \in Sweeps => where # "gone")
  BY DEF TakeSlot, To
<1>3. DOMAIN at = Requests /\ SweepTypes
  BY DEF SweepInv, SweepTypes
<1>4. SweepTypes'
  BY <1>1, <1>2, <1>3 DEF SweepTypes
<1>5. ASSUME q \in alone' PROVE (AloneInv(q) /\ RunsInv(q) /\ StoredInv(q))'
  <2>1. q \in alone /\ q \in Sweeps
    BY <1>1, <1>3, <1>5 DEF SweepTypes
  <2>2. at[q] = "start"
    BY <1>1, <2>1, SweepAssumption
  <2>3. at'[q] = where /\ where \in {"fail", "starting"} /\ where \in Afoot
    BY <1>2, <1>3, <2>1 DEF Afoot
  <2>4. /\ RunsInv(q) /\ StoredInv(q) /\ Active(q) /\ sw[q].level >= 1
    BY <2>1, <2>2, AloneGoes
  <2>5. Active(q)' /\ sw'[q].level >= 1
    BY <1>1, <2>4 DEF Active
  <2>6. AloneInv(q)'
    BY <1>1, <1>2, <2>1, <2>2, <2>3, <2>5, StaysAlone
  <2>7. RunsInv(q)'
    BY <1>1, <2>2, <2>3, <2>4 DEF RunsInv
  <2>8. StoredInv(q)'
    BY <1>1, <2>3, <2>4 DEF StoredInv, Stored
  <2> QED
    BY <2>6, <2>7, <2>8
<1> QED
  BY <1>1, <1>2, <1>4, <1>5, RequestMoves

LEMMA AbortStep == ASSUME SweepInv, NEW q \in Requests, Abort(q) PROVE SweepInv'
<1>1. /\ at[q] \in {"starting", "broken"} /\ fault' = fault \cup {Now(q)} /\ failed'
      /\ UNCHANGED <<live, leaving, tagged, sweep, sw, alone>>
  BY DEF Abort
<1>2. DOMAIN at = Requests /\ SweepTypes
  BY DEF SweepInv, SweepTypes
<1>3. PICK where \in {"fail", "wait", "gone"} :
          at' = [at EXCEPT ![q] = where] /\ (q \in Sweeps => where # "gone")
  BY DEF Abort, To
<1>4. SweepTypes'
  BY <1>1, <1>2, <1>3 DEF SweepTypes
<1>5. ASSUME q \in alone' PROVE (AloneInv(q) /\ RunsInv(q) /\ StoredInv(q))'
  <2>1. q \in alone /\ q \in Sweeps
    BY <1>1, <1>2, <1>5 DEF SweepTypes
  <2>2. at'[q] = where /\ where \in {"fail", "wait"} /\ where \in Afoot
    BY <1>2, <1>3, <2>1 DEF Afoot
  <2>3. /\ RunsInv(q) /\ StoredInv(q) /\ Active(q) /\ sw[q].level >= 1
    BY <1>1, <2>1, AloneGoes
  <2>4. Active(q)' /\ sw'[q].level >= 1
    BY <1>1, <2>3 DEF Active
  <2>5. AloneInv(q)'
    BY <1>1, <1>3, <2>1, <2>2, <2>4, StaysAlone
  <2>6. RunsInv(q)'
    BY <1>1, <2>2, <2>3 DEF RunsInv
  <2>7. StoredInv(q)'
    BY <1>1, <2>2, <2>3 DEF StoredInv, Stored
  <2> QED
    BY <2>5, <2>6, <2>7
<1>6. live' \subseteq live \cup {Now(q)} /\ fault' \subseteq fault \cup {Now(q)}
  BY <1>1
<1> QED
  BY <1>1, <1>3, <1>5, <1>4, <1>6, RequestMoves

LEMMA LaunchRunStep == ASSUME SweepInv, NEW q \in Requests, LaunchRun(q) PROVE SweepInv'
<1>1. /\ at[q] = "starting" /\ live' = live \cup {Now(q)}
      /\ UNCHANGED <<leaving, fault, tagged, sweep, sw, alone>>
      /\ at' = [at EXCEPT ![q] = IF q \in Sweeps THEN "wait" ELSE "gone"]
  BY DEF LaunchRun, To
<1>2. DOMAIN at = Requests /\ SweepTypes
  BY DEF SweepInv, SweepTypes
<1>3. SweepTypes'
  BY <1>1, <1>2 DEF SweepTypes
<1>4. ASSUME q \in alone' PROVE (AloneInv(q) /\ RunsInv(q) /\ StoredInv(q))'
  <2>1. q \in alone /\ q \in Sweeps
    BY <1>1, <1>2, <1>4 DEF SweepTypes
  <2>2. at' = [at EXCEPT ![q] = "wait"] /\ at'[q] = "wait" /\ "wait" \in Afoot
    BY <1>1, <1>2, <2>1 DEF Afoot
  <2>3. /\ RunsInv(q) /\ StoredInv(q) /\ Active(q) /\ sw[q].level >= 1
    BY <1>1, <2>1, AloneGoes
  <2>4. Active(q)' /\ sw'[q].level >= 1
    BY <1>1, <2>3 DEF Active
  <2>5. AloneInv(q)'
    BY <1>1, <2>1, <2>2, <2>4, StaysAlone
  <2>6. live' = live \cup {Run(q, sw[q].level)}
    BY <1>1, <2>1 DEF Now
  <2>7. RunsInv(q)'
    BY <1>1, <2>2, <2>3, <2>6, RunsDiffer DEF RunsInv
  <2>8. StoredInv(q)'
    BY <1>1, <2>2, <2>3, <2>6 DEF StoredInv, Stored
  <2> QED
    BY <2>5, <2>7, <2>8
<1>5. PICK where \in {"wait", "gone"} : at' = [at EXCEPT ![q] = where]
  BY <1>1
<1>6. live' \subseteq live \cup {Now(q)} /\ fault' \subseteq fault \cup {Now(q)}
  BY <1>1
<1> QED
  BY <1>1, <1>3, <1>4, <1>5, <1>6, RequestMoves

LEMMA AwaitStep == ASSUME SweepInv, NEW q \in Sweeps, Await(q) PROVE SweepInv'
<1>1. /\ at[q] = "wait" /\ live = {} /\ leaving = {} /\ at' = [at EXCEPT ![q] = "look"]
      /\ UNCHANGED <<slot, failed, phase, cancelSet, live, leaving, fault, tagged, sweep, sw, alone>>
  BY DEF Await, To, runVars
<1>2. DOMAIN at = Requests /\ SweepTypes /\ q \in Requests
  BY DEF SweepInv, SweepTypes, Requests
<1>3. SweepTypes'
  BY <1>1, <1>2 DEF SweepTypes
<1>4. ASSUME q \in alone' PROVE (AloneInv(q) /\ RunsInv(q) /\ StoredInv(q))'
  <2>1. q \in alone /\ at'[q] = "look" /\ "look" \in Afoot
    BY <1>1, <1>2, <1>4 DEF Afoot
  <2>2. /\ RunsInv(q) /\ StoredInv(q) /\ Active(q) /\ sw[q].level >= 1
    BY <1>1, <1>2, <2>1, AloneGoes
  <2>3. Active(q)' /\ sw'[q].level >= 1
    BY <1>1, <2>2 DEF Active
  <2>4. AloneInv(q)'
    BY <1>1, <1>2, <2>1, <2>3, StaysAlone
  <2>5. RunsInv(q)'
    BY <1>1, <2>1, <2>2 DEF RunsInv
  <2>6. StoredInv(q)'
    BY <1>1, <2>1, <2>2 DEF StoredInv, Stored
  <2> QED
    BY <2>4, <2>5, <2>6
<1>5. live' \subseteq live \cup {Now(q)} /\ fault' \subseteq fault \cup {Now(q)}
  BY <1>1
<1>6. at[q] \notin {"new", "unread", "gone"}
  BY <1>1
<1>7. "look" \notin {"new", "checked"}
  OBVIOUS
<1>8. \A r \in Sweeps : r # q => sw'[r] = sw[r] /\ (r \in alone' => r \in alone)
  BY <1>1
<1> QED
  BY <1>1, <1>2, <1>3, <1>4, <1>5, <1>6, <1>7, <1>8, RequestMoves

LEMMA LookBackStep == ASSUME SweepInv, NEW q \in Sweeps, LookBack(q) PROVE SweepInv'
<1>1. /\ at[q] = "look"
      /\ UNCHANGED <<slot, failed, phase, cancelSet, live, leaving, fault, tagged, sweep, sw, alone>>
  BY DEF LookBack, runVars
<1>2. PICK where \in {"stop", "fail", "finish", "next"} :
          /\ at' = [at EXCEPT ![q] = where]
          /\ failed => where \in {"stop", "fail"}
  BY DEF LookBack, To
<1>3. DOMAIN at = Requests /\ SweepTypes /\ q \in Requests
  BY DEF SweepInv, SweepTypes, Requests
<1>4. SweepTypes'
  BY <1>1, <1>2, <1>3 DEF SweepTypes
<1>5. ASSUME q \in alone' PROVE (AloneInv(q) /\ RunsInv(q) /\ StoredInv(q))'
  <2>1. q \in alone /\ at'[q] = where /\ where \in Afoot
    BY <1>1, <1>2, <1>3, <1>5 DEF Afoot
  <2>2. /\ RunsInv(q) /\ StoredInv(q) /\ Active(q) /\ sw[q].level >= 1
    BY <1>1, <1>3, <2>1, AloneGoes
  <2>3. Active(q)' /\ sw'[q].level >= 1
    BY <1>1, <2>2 DEF Active
  <2>4. AloneInv(q)'
    BY <1>1, <1>2, <1>3, <2>1, <2>3, StaysAlone
  <2>5. RunsInv(q)'
    BY <1>1, <1>2, <2>1, <2>2 DEF RunsInv
  <2>6. StoredInv(q)'
    BY <1>1, <1>2, <2>1, <2>2 DEF StoredInv, Stored
  <2> QED
    BY <2>4, <2>5, <2>6
<1> QED
  BY <1>1, <1>2, <1>3, <1>4, <1>5, RequestMoves

LEMMA PauseStep == ASSUME SweepInv, NEW q \in Sweeps, Pause(q) PROVE SweepInv'
<1>1. /\ at[q] = "next" /\ at' = [at EXCEPT ![q] = "pause"]
      /\ sw' = [sw EXCEPT ![q].state = "waiting"]
      /\ UNCHANGED <<slot, failed, phase, cancelSet, live, leaving, fault, tagged, sweep, alone>>
  BY DEF Pause, To, runVars
<1>2. DOMAIN at = Requests /\ SweepTypes /\ q \in Requests
  BY DEF SweepInv, SweepTypes, Requests
<1>3. sw[q] \in [level : Nat, state : SweepStates, cancelled : BOOLEAN]
  BY <1>2 DEF SweepTypes
<1>4. sw' = [sw EXCEPT ![q] = [sw[q] EXCEPT !.level = sw[q].level, !.state = "waiting"]]
  BY <1>1, <1>3
<1>5. sw[q].level \in Nat /\ "waiting" \in SweepStates
  BY <1>3 DEF SweepStates
<1>6. /\ sw' \in [Sweeps -> [level : Nat, state : SweepStates, cancelled : BOOLEAN]]
      /\ sw'[q].level = sw[q].level /\ sw'[q].state = "waiting"
      /\ \A r \in Sweeps : r # q => sw'[r] = sw[r]
  BY <1>4, <1>5, SweepRecord
<1>7. SweepTypes'
  BY <1>1, <1>2, <1>6 DEF SweepTypes
<1>8. ASSUME q \in alone' PROVE (AloneInv(q) /\ RunsInv(q) /\ StoredInv(q))'
  <2>1. q \in alone /\ at'[q] = "pause" /\ "pause" \in Afoot
    BY <1>1, <1>2, <1>8 DEF Afoot
  <2>2. /\ RunsInv(q) /\ StoredInv(q) /\ Active(q) /\ sw[q].level >= 1
    BY <1>1, <1>2, <2>1, AloneGoes
  <2>3. Active(q)' /\ sw'[q].level >= 1
    BY <1>6, <2>2 DEF Active
  <2>4. AloneInv(q)'
    BY <1>1, <1>2, <2>1, <2>3, StaysAlone
  <2>5. RunsInv(q)'
    BY <1>1, <1>6, <2>1, <2>2 DEF RunsInv
  <2>6. StoredInv(q)'
    BY <1>1, <1>6, <2>1, <2>2 DEF StoredInv, Stored
  <2> QED
    BY <2>4, <2>5, <2>6
<1> QED
  BY <1>1, <1>2, <1>6, <1>7, <1>8, RequestMoves

LEMMA NextLevelStep == ASSUME SweepInv, NEW q \in Sweeps, NextLevel(q) PROVE SweepInv'
<1>1. /\ at[q] = "pause"
      /\ UNCHANGED <<slot, failed, phase, cancelSet, live, leaving, fault, tagged, sweep, alone>>
  BY DEF NextLevel, runVars
<1>2. DOMAIN at = Requests /\ SweepTypes /\ q \in Requests
  BY DEF SweepInv, SweepTypes, Requests
<1>3. sw[q] \in [level : Nat, state : SweepStates, cancelled : BOOLEAN]
  BY <1>2 DEF SweepTypes
<1>4. live' \subseteq live \cup {Now(q)} /\ fault' \subseteq fault \cup {Now(q)}
  BY <1>1
<1>5. at[q] \notin {"new", "unread", "gone"}
  BY <1>1
<1>6. CASE sw[q].cancelled
  <2>1. at' = [at EXCEPT ![q] = "stop"] /\ sw' = sw
    BY <1>6 DEF NextLevel, To
  <2>2. SweepTypes'
    BY <1>1, <1>2, <2>1 DEF SweepTypes
  <2>3. ASSUME q \in alone' PROVE (AloneInv(q) /\ RunsInv(q) /\ StoredInv(q))'
    <3>1. q \in alone /\ at'[q] = "stop" /\ "stop" \in Afoot
      BY <1>1, <1>2, <2>1, <2>3 DEF Afoot
    <3>2. /\ RunsInv(q) /\ StoredInv(q) /\ Active(q) /\ sw[q].level >= 1
      BY <1>1, <1>2, <3>1, AloneGoes
    <3>3. Active(q)' /\ sw'[q].level >= 1
      BY <2>1, <3>2 DEF Active
    <3>4. AloneInv(q)'
      BY <1>1, <1>2, <2>1, <3>1, <3>3, StaysAlone
    <3>5. RunsInv(q)'
      BY <1>1, <2>1, <3>1, <3>2 DEF RunsInv
    <3>6. StoredInv(q)'
      BY <1>1, <2>1, <3>1, <3>2 DEF StoredInv, Stored
    <3> QED
      BY <3>4, <3>5, <3>6
  <2>4. "stop" \notin {"new", "checked"}
    OBVIOUS
  <2>5. \A r \in Sweeps : r # q => sw'[r] = sw[r] /\ (r \in alone' => r \in alone)
    BY <1>1, <2>1
  <2> QED
    BY <1>1, <1>2, <1>4, <1>5, <2>1, <2>2, <2>3, <2>4, <2>5, RequestMoves
<1>7. CASE ~sw[q].cancelled
  <2>1. /\ at' = [at EXCEPT ![q] = "start"]
        /\ sw' = [sw EXCEPT ![q].level = @ + 1, ![q].state = "running"]
    BY <1>7 DEF NextLevel, To
  <2>2. sw' = [sw EXCEPT ![q] = [sw[q] EXCEPT !.level = sw[q].level + 1, !.state = "running"]]
    BY <1>2, <1>3, <2>1 DEF SweepTypes
  <2>3. sw[q].level \in Nat /\ sw[q].level + 1 \in Nat /\ "running" \in SweepStates
    BY <1>3 DEF SweepStates
  <2>4. /\ sw' \in [Sweeps -> [level : Nat, state : SweepStates, cancelled : BOOLEAN]]
        /\ sw'[q].level = sw[q].level + 1 /\ sw'[q].state = "running"
        /\ \A r \in Sweeps : r # q => sw'[r] = sw[r]
    BY <2>2, <2>3, SweepRecord
  <2>5. SweepTypes'
    BY <1>1, <1>2, <2>1, <2>4 DEF SweepTypes
  <2>6. ASSUME q \in alone' PROVE (AloneInv(q) /\ RunsInv(q) /\ StoredInv(q))'
    <3>1. q \in alone /\ at'[q] = "start" /\ "start" \in Afoot
      BY <1>1, <1>2, <2>1, <2>6 DEF Afoot
    <3>2. /\ RunsInv(q) /\ StoredInv(q) /\ Active(q) /\ sw[q].level >= 1
      BY <1>1, <1>2, <3>1, AloneGoes
    <3>3. Active(q)' /\ sw'[q].level >= 1
      BY <2>3, <2>4, <3>2 DEF Active
    <3>4. AloneInv(q)'
      BY <1>1, <1>2, <2>1, <3>1, <3>3, StaysAlone
    <3>5. RunsInv(q)'
      BY <1>1, <3>1, <3>2 DEF RunsInv
    <3>6. \A l \in 1..Levels : l < sw'[q].level => l < sw[q].level \/ l = sw[q].level
      BY <2>3, <2>4, SweepAssumption
    <3>7. StoredInv(q)'
      BY <1>1, <3>1, <3>2, <3>6 DEF StoredInv, Stored
    <3> QED
      BY <3>4, <3>5, <3>7
  <2>7. "start" \notin {"new", "checked"}
    OBVIOUS
  <2>8. \A r \in Sweeps : r # q => sw'[r] = sw[r] /\ (r \in alone' => r \in alone)
    BY <1>1, <2>4
  <2> QED
    BY <1>1, <1>2, <1>4, <1>5, <2>1, <2>5, <2>6, <2>7, <2>8, RequestMoves
<1> QED
  BY <1>6, <1>7

LEMMA EndSweepStep == ASSUME SweepInv, NEW q \in Sweeps, EndSweep(q) PROVE SweepInv'
<1>1. /\ at[q] \in {"stop", "fail", "finish"} /\ at' = [at EXCEPT ![q] = "gone"]
      /\ UNCHANGED <<slot, failed, phase, cancelSet, live, leaving, fault, tagged, sweep, alone>>
  BY DEF EndSweep, To, runVars, Verdict
<1>2. PICK st \in {"stopped", "failed", "done"} : sw' = [sw EXCEPT ![q].state = st]
  <2>1. sw' = [sw EXCEPT ![q].state = Verdict[at[q]]]
    BY DEF EndSweep
  <2>2. Verdict["stop"] = "stopped" /\ Verdict["fail"] = "failed" /\ Verdict["finish"] = "done"
    BY DEF Verdict
  <2>3. Verdict[at[q]] \in {"stopped", "failed", "done"}
    BY <1>1, <2>2
  <2> QED
    BY <2>1, <2>3
<1>3. DOMAIN at = Requests /\ SweepTypes /\ q \in Requests
  BY DEF SweepInv, SweepTypes, Requests
<1>4. sw[q] \in [level : Nat, state : SweepStates, cancelled : BOOLEAN]
  BY <1>3 DEF SweepTypes
<1>5. sw' = [sw EXCEPT ![q] = [sw[q] EXCEPT !.level = sw[q].level, !.state = st]]
  BY <1>2, <1>4
<1>6. sw[q].level \in Nat /\ st \in SweepStates
  BY <1>4 DEF SweepStates
<1>7. /\ sw' \in [Sweeps -> [level : Nat, state : SweepStates, cancelled : BOOLEAN]]
      /\ sw'[q].level = sw[q].level /\ sw'[q].state = st
      /\ \A r \in Sweeps : r # q => sw'[r] = sw[r]
  BY <1>5, <1>6, SweepRecord
<1>8. SweepTypes'
  BY <1>1, <1>3, <1>7 DEF SweepTypes
<1>9. ASSUME q \in alone' PROVE (AloneInv(q) /\ RunsInv(q) /\ StoredInv(q))'
  <2>1. q \in alone /\ at'[q] = "gone"
    BY <1>1, <1>3, <1>9
  <2>2. RunsInv(q) /\ StoredInv(q) /\ sw[q].level >= 1
    BY <1>1, <1>3, <2>1, AloneGoes
  <2>3. AloneInv(q)'
    BY <1>7, <2>1, <2>2 DEF AloneInv, Active
  <2>4. RunsInv(q)'
    BY <1>1, <2>1, <2>2 DEF RunsInv
  <2>5. StoredInv(q)'
    BY <1>1, <1>7, <2>1, <2>2 DEF StoredInv, Stored
  <2> QED
    BY <2>3, <2>4, <2>5
<1>10. at[q] \notin {"new", "unread", "gone"}
  BY <1>1
<1> QED
  BY <1>1, <1>3, <1>7, <1>8, <1>9, <1>10, RequestMoves

LEMMA FinishRunStep == ASSUME SweepInv, NEW run \in Runs, FinishRun(run) PROVE SweepInv'
<1>1. /\ run \in live /\ live' = live \ {run} /\ leaving' = leaving \cup {run}
      /\ UNCHANGED <<at, tagged, sweep, sw, alone>>
  BY DEF FinishRun
<1>2. live' \cup leaving' = live \cup leaving
  BY <1>1
<1>3. (failed' = failed /\ fault' = fault) \/ (failed' /\ fault' = fault \cup {run})
  BY DEF FinishRun
<1>4. SweepTypes'
  BY <1>1 DEF SweepInv, SweepTypes
<1>5. ASSUME NEW r \in Sweeps PROVE SweepPart(r)'
  <2>1. SweepPart(r)
    BY DEF SweepInv
  <2>2. at'[r] \in {"new", "checked"} => Unborn(r)'
    <3>1. at[r] \in {"new", "checked"} => \A l \in 0..Levels : Run(r, l) # run
      BY <1>1, <2>1 DEF SweepPart, Unborn
    <3> QED
      BY <1>1, <1>2, <1>3, <2>1, <3>1 DEF SweepPart, Unborn, Stored
  <2>3. ASSUME r \in alone' PROVE (AloneInv(r) /\ RunsInv(r) /\ StoredInv(r))'
    <3>1. AloneInv(r) /\ RunsInv(r) /\ StoredInv(r)
      BY <1>1, <2>1, <2>3 DEF SweepPart
    <3>2. AloneInv(r)'
      BY <1>1, <3>1 DEF AloneInv, Active
    <3>3. RunsInv(r)'
      <4> SUFFICES ASSUME NEW l \in 0..Levels
                   PROVE  /\ Run(r, l) \in live' \cup leaving' =>
                                 at'[r] = "wait" /\ l = sw'[r].level
                          /\ Run(r, l) \in fault' => \/ at'[r] \in {"wait", "look"} /\ failed'
                                                     \/ at'[r] \in {"stop", "fail", "gone"}
        BY DEF RunsInv
      <4>1. /\ Run(r, l) \in live \cup leaving => at[r] = "wait" /\ l = sw[r].level
            /\ Run(r, l) \in fault => \/ at[r] \in {"wait", "look"} /\ failed
                                      \/ at[r] \in {"stop", "fail", "gone"}
        BY <3>1 DEF RunsInv
      <4>2. CASE Run(r, l) \in fault
        BY <1>1, <1>2, <1>3, <4>1, <4>2
      <4>3. CASE Run(r, l) \notin fault
        BY <1>1, <1>2, <1>3, <4>1, <4>3
      <4> QED
        BY <4>2, <4>3
    <3>4. StoredInv(r)'
      BY <1>1, <1>2, <1>3, <3>1 DEF StoredInv, Stored
    <3> QED
      BY <3>2, <3>3, <3>4
  <2> QED
    BY <2>2, <2>3 DEF SweepPart
<1> QED
  BY <1>4, <1>5 DEF SweepInv

LEMMA LeaveRunStep == ASSUME SweepInv, NEW run \in Runs, LeaveRun(run) PROVE SweepInv'
<1> DEFINE new == [run |-> run, tag |-> Tag]
<1>1. /\ run \in leaving /\ leaving' = leaving \ {run} /\ tagged' = tagged \cup {new}
      /\ UNCHANGED <<at, slot, failed, phase, cancelSet, live, fault, sweep, sw, alone>>
  BY DEF LeaveRun
<1>2. new.run = run /\ new.tag = Tag
  OBVIOUS
<1> HIDE DEF new
<1>3. SweepTypes'
  BY <1>1 DEF SweepInv, SweepTypes
<1>4. ASSUME NEW r \in Sweeps PROVE SweepPart(r)'
  <2>1. SweepPart(r)
    BY DEF SweepInv
  <2>2. at'[r] \in {"new", "checked"} => Unborn(r)'
    <3>1. at[r] \in {"new", "checked"} => \A l \in 0..Levels : Run(r, l) # run
      BY <1>1, <2>1 DEF SweepPart, Unborn
    <3> QED
      BY <1>1, <1>2, <2>1, <3>1 DEF SweepPart, Unborn, Stored
  <2>3. ASSUME r \in alone' PROVE (AloneInv(r) /\ RunsInv(r) /\ StoredInv(r))'
    <3>1. AloneInv(r) /\ RunsInv(r) /\ StoredInv(r)
      BY <1>1, <2>1, <2>3 DEF SweepPart
    <3>2. AloneInv(r)'
      BY <1>1, <3>1 DEF AloneInv, Active
    <3>3. RunsInv(r)'
      BY <1>1, <3>1 DEF RunsInv
    <3>4. \A l : Stored(r, l) => Stored(r, l)'
      BY <1>1 DEF Stored
    <3>5. Run(r, sw[r].level) = run => Stored(r, sw[r].level)'
      BY <1>1, <1>2 DEF Stored
    <3>6. \A l \in 0..Levels : Run(r, l) = run => Tag = Run(r, l)
      <4> SUFFICES ASSUME NEW l \in 0..Levels, Run(r, l) = run PROVE Tag = Run(r, l)
        OBVIOUS
      <4>1. at[r] = "wait" /\ l = sw[r].level
        BY <1>1, <3>1 DEF RunsInv
      <4>2. sweep = r /\ Active(r)
        BY <3>1, <4>1 DEF AloneInv
      <4> QED
        BY <4>1, <4>2 DEF Tag
    <3>7. StoredInv(r)'
      <4>1. \A l \in 1..Levels : l < sw'[r].level => Stored(r, l)'
        BY <1>1, <3>1, <3>4 DEF StoredInv
      <4>2. /\ at'[r] \in {"next", "pause"} => Stored(r, sw[r].level)'
            /\ at'[r] = "look" => failed' \/ Stored(r, sw[r].level)'
        BY <1>1, <3>1, <3>4 DEF StoredInv
      <4>3. at'[r] = "wait" => \/ failed'
                               \/ Run(r, sw[r].level) \in live' \cup leaving'
                               \/ Stored(r, sw[r].level)'
        BY <1>1, <3>1, <3>4, <3>5 DEF StoredInv
      <4>4. \A l \in 0..Levels : \A d \in tagged' : d.run = Run(r, l) => d.tag = Run(r, l)
        BY <1>1, <1>2, <3>1, <3>6 DEF StoredInv
      <4> QED
        BY <1>1, <4>1, <4>2, <4>3, <4>4 DEF StoredInv, Stored
    <3> QED
      BY <3>2, <3>3, <3>7
  <2> QED
    BY <2>2, <2>3 DEF SweepPart
<1> QED
  BY <1>3, <1>4 DEF SweepInv

\* What a stop request does to the sweeps.
LEMMA StopMarks ==
    ASSUME SweepInv, Stop
    PROVE  /\ sw' \in [Sweeps -> [level : Nat, state : SweepStates, cancelled : BOOLEAN]]
           /\ \A r \in Sweeps :
                  /\ sw'[r].level = sw[r].level /\ sw'[r].state = sw[r].state
                  /\ sw[r].cancelled \/ (r = sweep /\ Active(r)) => sw'[r].cancelled
<1>1. sw \in [Sweeps -> [level : Nat, state : SweepStates, cancelled : BOOLEAN]]
  BY DEF SweepInv, SweepTypes
<1>2. CASE Active(sweep)
  <2>1. sw' = [sw EXCEPT ![sweep] = [sw[sweep] EXCEPT !.cancelled = TRUE]]
    BY <1>2 DEF Stop
  <2>2. CASE sweep \in Sweeps
    <3>1. [sw[sweep] EXCEPT !.cancelled = TRUE]
              \in [level : Nat, state : SweepStates, cancelled : BOOLEAN]
      BY <1>1, <2>2
    <3>2. /\ sw'[sweep] = [sw[sweep] EXCEPT !.cancelled = TRUE]
          /\ \A r \in Sweeps : r # sweep => sw'[r] = sw[r]
      BY <1>1, <2>1, <2>2
    <3>3. /\ sw'[sweep].level = sw[sweep].level /\ sw'[sweep].state = sw[sweep].state
          /\ sw'[sweep].cancelled
      BY <1>1, <2>2, <3>2
    <3>4. sw' \in [Sweeps -> [level : Nat, state : SweepStates, cancelled : BOOLEAN]]
      BY <1>1, <2>1, <3>1
    <3> QED
      BY <3>2, <3>3, <3>4
  <2>3. CASE sweep \notin Sweeps
    <3>1. sw' = sw
      BY <1>1, <2>1, <2>3
    <3> QED
      BY <1>1, <2>3, <3>1
  <2> QED
    BY <2>2, <2>3
<1>3. CASE ~Active(sweep)
  <2>1. sw' = sw
    BY <1>3 DEF Stop
  <2> QED
    BY <1>1, <1>3, <2>1
<1> QED
  BY <1>2, <1>3

LEMMA StopStep == SweepInv /\ Stop => SweepInv'
<1> SUFFICES ASSUME SweepInv, Stop PROVE SweepInv'
  OBVIOUS
<1>1. UNCHANGED <<at, failed, cancelSet, live, leaving, fault, tagged, sweep, alone>>
  BY DEF Stop
<1>2. /\ sw' \in [Sweeps -> [level : Nat, state : SweepStates, cancelled : BOOLEAN]]
      /\ \A r \in Sweeps : sw'[r].level = sw[r].level /\ sw'[r].state = sw[r].state
  BY StopMarks
<1>3. SweepTypes'
  BY <1>1, <1>2 DEF SweepInv, SweepTypes
<1>4. ASSUME NEW r \in Sweeps PROVE SweepPart(r)'
  <2>1. SweepPart(r)
    BY DEF SweepInv
  <2>2. AloneInv(r) => AloneInv(r)'
    BY <1>1, <1>2 DEF AloneInv, Active
  <2>3. RunsInv(r) => RunsInv(r)'
    BY <1>1, <1>2 DEF RunsInv
  <2>4. StoredInv(r) => StoredInv(r)'
    BY <1>1, <1>2 DEF StoredInv, Stored
  <2>5. Unborn(r) => Unborn(r)'
    BY <1>1 DEF Unborn, Stored
  <2> QED
    BY <1>1, <2>1, <2>2, <2>3, <2>4, <2>5 DEF SweepPart
<1> QED
  BY <1>3, <1>4 DEF SweepInv

LEMMA SweepNextStep == SweepInv /\ [SweepNext]_sweepVars => SweepInv'
<1> SUFFICES ASSUME SweepInv, [SweepNext]_sweepVars PROVE SweepInv'
  OBVIOUS
<1>1. ASSUME NEW q \in Requests, RequestStep(q) PROVE SweepInv'
  BY <1>1, CheckStep, RegisterStep, TakeSlotStep, AbortStep, LaunchRunStep, UnreadableStep,
     TakeUnreadStep DEF RequestStep
<1>2. ASSUME NEW q \in Sweeps, SweepStep(q) PROVE SweepInv'
  BY <1>2, AwaitStep, LookBackStep, PauseStep, NextLevelStep, EndSweepStep DEF SweepStep
<1>3. ASSUME NEW run \in Runs, FinishRun(run) \/ LeaveRun(run) PROVE SweepInv'
  BY <1>3, FinishRunStep, LeaveRunStep
<1>4. CASE Stop
  BY <1>4, StopStep
<1>5. CASE UNCHANGED sweepVars
  <2>1. UNCHANGED <<at, slot, failed, phase, cancelSet, live, leaving, fault, tagged, sweep, sw, alone>>
    BY <1>5 DEF sweepVars, runVars
  <2>2. SweepTypes'
    BY <2>1 DEF SweepInv, SweepTypes
  <2>3. \A r \in Sweeps : SweepPart(r)'
    BY <2>1 DEF SweepInv, SweepPart, Unborn, AloneInv, RunsInv, StoredInv, Stored, Active
  <2> QED
    BY <2>2, <2>3 DEF SweepInv
<1> QED
  BY <1>1, <1>2, <1>3, <1>4, <1>5 DEF SweepNext

LEMMA LevelsFollow == SweepInv => LevelsInOrder
<1> SUFFICES ASSUME SweepInv, NEW r \in alone, NEW l \in 1..Levels
             PROVE  /\ at[r] \in {"start", "starting"} /\ l < sw[r].level =>
                           /\ Run(r, l) \notin live \cup leaving \cup fault
                           /\ \E d \in tagged : d.run = Run(r, l)
                    /\ \A d \in tagged : d.run = Run(r, l) => d.tag = d.run
  BY DEF LevelsInOrder
<1>1. r \in Sweeps
  BY DEF SweepInv, SweepTypes
<1>2. RunsInv(r) /\ StoredInv(r)
  BY <1>1 DEF SweepInv, SweepPart
<1>3. l \in 0..Levels
  BY SweepAssumption
<1>4. at[r] \in {"start", "starting"} => Run(r, l) \notin live \cup leaving \cup fault
  BY <1>2, <1>3 DEF RunsInv
<1>5. l < sw[r].level => \E d \in tagged : d.run = Run(r, l)
  BY <1>2 DEF StoredInv, Stored
<1>6. \A d \in tagged : d.run = Run(r, l) => d.tag = d.run
  BY <1>2, <1>3 DEF StoredInv
<1> QED
  BY <1>4, <1>5, <1>6

\* The level of a stopped sweep stays, and a stop marks the sweep it means.
LEMMA StopsHold ==
    ASSUME SweepInv, SweepNext, NEW r \in alone
    PROVE  /\ sw[r].cancelled => sw'[r].level = sw[r].level
           /\ Active(r) /\ stopsMade' # stopsMade => sw'[r].cancelled
<1>1. r \in Sweeps /\ r \in Requests
  BY DEF SweepInv, SweepTypes, Requests
<1>2. sw \in [Sweeps -> [level : Nat, state : SweepStates, cancelled : BOOLEAN]]
  BY DEF SweepInv, SweepTypes
<1>3. AloneInv(r)
  BY <1>1 DEF SweepInv, SweepPart
<1>4. CASE Stop
  <2>1. Active(r) => sweep = r
    BY <1>3 DEF AloneInv
  <2> QED
    BY <1>1, <1>4, <2>1, StopMarks
<1>5. ASSUME sw' = sw, stopsMade' = stopsMade
      PROVE  /\ sw[r].cancelled => sw'[r].level = sw[r].level
             /\ Active(r) /\ stopsMade' # stopsMade => sw'[r].cancelled
  BY <1>5
<1>6. ASSUME NEW q \in Requests, RequestStep(q)
      PROVE  /\ sw[r].cancelled => sw'[r].level = sw[r].level
             /\ Active(r) /\ stopsMade' # stopsMade => sw'[r].cancelled
  <2>1. CASE Register(q)
    <3>1. q # r
      BY <1>3, <2>1 DEF Register, AloneInv, Afoot
    <3>2. sw'[r] = sw[r] /\ stopsMade' = stopsMade
      BY <1>1, <1>2, <2>1, <3>1 DEF Register
    <3> QED
      BY <3>2
  <2>2. CASE \/ Check(q) \/ TakeSlot(q) \/ Abort(q) \/ LaunchRun(q)
             \/ Unreadable(q) \/ TakeUnread(q)
    <3>1. sw' = sw /\ stopsMade' = stopsMade
      BY <2>2 DEF Check, TakeSlot, Abort, LaunchRun, Unreadable, TakeUnread
    <3> QED
      BY <1>5, <3>1
  <2> QED
    BY <1>6, <2>1, <2>2 DEF RequestStep
<1>7. ASSUME NEW q \in Sweeps, SweepStep(q)
      PROVE  /\ sw[r].cancelled => sw'[r].level = sw[r].level
             /\ Active(r) /\ stopsMade' # stopsMade => sw'[r].cancelled
  <2>1. stopsMade' = stopsMade
    BY <1>7 DEF SweepStep, Await, LookBack, Pause, NextLevel, EndSweep
  <2>2. CASE Await(q) \/ LookBack(q)
    BY <1>5, <2>1, <2>2 DEF Await, LookBack
  <2>3. CASE Pause(q) \/ EndSweep(q)
    <3>1. PICK st : sw' = [sw EXCEPT ![q].state = st]
      BY <2>3 DEF Pause, EndSweep
    <3>2. sw'[r].level = sw[r].level
      BY <1>1, <1>2, <3>1
    <3> QED
      BY <2>1, <3>2
  <2>4. CASE NextLevel(q)
    <3>1. sw[q].cancelled => sw' = sw
      BY <2>4 DEF NextLevel
    <3>2. ~sw[q].cancelled => sw' = [sw EXCEPT ![q].level = @ + 1, ![q].state = "running"]
      BY <2>4 DEF NextLevel
    <3>3. sw[r].cancelled => sw'[r] = sw[r]
      BY <1>1, <1>2, <3>1, <3>2
    <3> QED
      BY <2>1, <3>3
  <2> QED
    BY <1>7, <2>2, <2>3, <2>4 DEF SweepStep
<1>8. ASSUME NEW run \in Runs, FinishRun(run) \/ LeaveRun(run)
      PROVE  /\ sw[r].cancelled => sw'[r].level = sw[r].level
             /\ Active(r) /\ stopsMade' # stopsMade => sw'[r].cancelled
  BY <1>5, <1>8 DEF FinishRun, LeaveRun
<1> QED
  BY <1>4, <1>6, <1>7, <1>8 DEF SweepNext

\* A sweep with the server to itself starts a level only when the earlier ones are
\* stored under their own names and did not fail, no level of a stopped one
\* begins and no stop is lost on it, for any number of requests, levels and
\* stops (startSweep, runSweep, endSweep).
THEOREM SweepTheorem == SweepSpec => SweepInOrder
<1>1. SweepInv /\ [][SweepNext]_sweepVars => []SweepInv
  BY SweepNextStep, PTL
<1>2. SweepInv /\ [SweepNext]_sweepVars =>
          [\A r \in alone :
              /\ sw[r].cancelled => sw'[r].level = sw[r].level
              /\ Active(r) /\ stopsMade' # stopsMade => sw'[r].cancelled]_sweepVars
  BY StopsHold
<1> QED
  BY SweepInitial, LevelsFollow, <1>1, <1>2, PTL DEF SweepSpec, SweepInOrder
=============================================================================
