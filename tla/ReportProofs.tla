---------------------------- MODULE ReportProofs ----------------------------
(***************************************************************************)
(* Proofs about the reports, for every limit, sample, plan, query and      *)
(* index: the finding of a shape (ExplainEvidence), the indexes that serve *)
(* it already (IndexAdvice), its ratings (Efficiency) and the verdicts of  *)
(* a comparison (TrendCompare).                                            *)
(***************************************************************************)
EXTENDS MCAlgorithms, FiniteSetTheorems, SequenceTheorems, WellFoundedInduction, TLAPS

-----------------------------------------------------------------------------
(* Numbers. *)

NatOrder == {p \in Nat \X Nat : p[1] < p[2]}

LEMMA LeastOf ==
    ASSUME NEW T, T \subseteq Nat, T # {}
    PROVE  \E m \in T : \A j \in T : m <= j
<1>1. IsWellFoundedOn(NatOrder, Nat)
  BY NatLessThanWellFounded DEF OpToRel, NatOrder
<1>2. PICK m \in T : \A j \in T : ~(<<j, m>> \in NatOrder)
  BY <1>1, WFMin
<1>3. ASSUME NEW j \in T PROVE m <= j
  <2>1. m \in Nat /\ j \in Nat
    OBVIOUS
  <2>2. ~(<<j, m>> \in NatOrder)
    BY <1>2
  <2>3. ~(j < m)
    BY <2>1, <2>2 DEF NatOrder
  <2> QED
    BY <2>1, <2>3
<1> QED
  BY <1>3

-----------------------------------------------------------------------------
(***************************************************************************)
(* The finding of a shape.  A rank names one diagnosis, and that of the    *)
(* finding is the least of those that the explained samples show.          *)
(***************************************************************************)
LEMMA RankOf ==
    \A i \in 1..11 : Xe!diagnosisRank(Xe!diagnosisOrder[i]) = i
<1> DEFINE o == Xe!diagnosisOrder
<1>1. /\ DOMAIN o = 1..11
      /\ \A i, j \in 1..11 : o[i] = o[j] => i = j
  BY DEF Xe!diagnosisOrder
<1> HIDE DEF o
<1> SUFFICES ASSUME NEW i \in 1..11 PROVE Xe!diagnosisRank(o[i]) = i
  BY DEF o
<1>2. Xe!diagnosisRank(o[i]) = CHOOSE j \in DOMAIN o : o[j] = o[i]
  BY DEF Xe!diagnosisRank, o
<1>3. \E j \in DOMAIN o : o[j] = o[i]
  BY <1>1
<1>4. Xe!diagnosisRank(o[i]) \in 1..11 /\ o[Xe!diagnosisRank(o[i])] = o[i]
  BY <1>1, <1>2, <1>3
<1> QED
  BY <1>1, <1>4

\* Each diagnosis applies; the first two and the sixth need execution statistics.
LEMMA ClassifiedIs ==
    ASSUME NEW d
    PROVE  /\ Xe!diagnosisRank(Xe!ClassifyExplainSample(d)) \in 1..11
           /\ Xe!ClassifyExplainSample(d)
                = Xe!diagnosisOrder[Xe!diagnosisRank(Xe!ClassifyExplainSample(d))]
           /\ Xe!diagnosisRank(Xe!ClassifyExplainSample(d)) \in {1, 2} => d.stats
<1> DEFINE T == {i \in 1..11 : Xe!Applies(i, d)}
           m == Xe!Least(T)
<1>1. 11 \in T
  BY DEF Xe!Applies
<1>2. ASSUME 1 \in T \/ 2 \in T PROVE d.stats
  BY <1>2 DEF Xe!Applies
<1>3. Xe!ClassifyExplainSample(d) = Xe!diagnosisOrder[m]
  BY DEF Xe!ClassifyExplainSample
<1>4. T \subseteq 1..11
  OBVIOUS
<1> HIDE DEF T
<1>5. m \in T
  <2>1. T \subseteq Nat /\ T # {}
    BY <1>1, <1>4
  <2> QED
    BY <2>1, LeastOf DEF Xe!Least
<1> HIDE DEF m
<1>6. Xe!diagnosisRank(Xe!diagnosisOrder[m]) = m /\ m \in 1..11
  BY <1>4, <1>5, RankOf
<1> QED
  BY <1>2, <1>3, <1>5, <1>6

LEMMA LeastIs ==
    ASSUME NEW T, T \subseteq Nat, T # {}
    PROVE  Xe!Least(T) \in T /\ \A j \in T : Xe!Least(T) <= j
BY LeastOf DEF Xe!Least

\* The caps of the diagnoses, by rank.
LEMMA CapOf ==
    ASSUME NEW i \in 1..11
    PROVE  /\ Xe!diagnosisCap(Xe!diagnosisOrder[i]) \in 1..3
           /\ Xe!diagnosisCap(Xe!diagnosisOrder[i]) = 3 <=> i <= 3
           /\ Xe!needsExecutionStats(Xe!diagnosisOrder[i]) <=> i \notin {4, 5, 7}
<1>1. Xe!diagnosisRank(Xe!diagnosisOrder[i]) = i
  BY RankOf
<1> QED
  BY <1>1 DEF Xe!diagnosisCap, Xe!needsExecutionStats

LEMMA FindingIs ==
    ASSUME NEW s, s \in Seq(Xe!ExplainSample), Xe!Explained(s) # {}
    PROVE  \E r \in 1..11 :
              /\ Xe!BuildExplainFinding(s).diagnosis = Xe!diagnosisOrder[r]
              /\ \E i \in Xe!Explained(s) : Xe!ClassifyExplainSample(s[i].d) = Xe!diagnosisOrder[r]
              /\ Xe!BuildExplainFinding(s).confidence \in 1..3
              /\ r <= 3 /\ Xe!BuildExplainFinding(s).confidence > 1 =>
                    \A i \in Xe!Explained(s) : s[i].d.stats
              /\ Xe!BuildExplainFinding(s).confidence = 3 =>
                    /\ r <= 3 /\ (\E i, j \in Xe!Explained(s) : i # j) 
                    /\ \A i, j \in Xe!Explained(s) :
                          Xe!ClassifyExplainSample(s[i].d) = Xe!ClassifyExplainSample(s[j].d)
<1> DEFINE f == Xe!BuildExplainFinding(s)
           R == Xe!Ranks(s)
           r == Xe!Least(R)
           o == Xe!diagnosisOrder
           disagree == \E p, q \in R : p # q
           quality == Xe!Quality(o[r], s, disagree)
           cap == Xe!diagnosisCap(o[r])
<1>1. /\ f.diagnosis = o[r] /\ f.confidence = Xe!Least({quality, cap})
  BY DEF Xe!BuildExplainFinding
<1>2. R \subseteq 1..11 /\ \A i \in Xe!Explained(s) : Xe!diagnosisRank(Xe!ClassifyExplainSample(s[i].d)) \in R
  BY ClassifiedIs DEF Xe!Ranks
<1>3. r \in R
  <2>1. R \subseteq Nat /\ R # {}
    BY <1>2
  <2> QED
    BY <2>1, LeastIs
<1>4. PICK w \in Xe!Explained(s) : Xe!diagnosisRank(Xe!ClassifyExplainSample(s[w].d)) = r
  BY <1>3 DEF Xe!Ranks
<1>5. Xe!ClassifyExplainSample(s[w].d) = o[r]
  BY <1>4, ClassifiedIs
<1>6. r \in 1..11
  BY <1>2, <1>3
<1> HIDE DEF r, R
<1>7. cap \in 1..3 /\ (cap = 3 <=> r <= 3) /\ (Xe!needsExecutionStats(o[r]) <=> r \notin {4, 5, 7})
  BY <1>6, CapOf
<1> HIDE DEF o, cap
<1>8. /\ quality \in 1..3
      /\ quality > 1 /\ r \notin {4, 5, 7} => \A i \in Xe!Explained(s) : s[i].d.stats
      /\ quality = 3 => ~disagree /\ (\E i, j \in Xe!Explained(s) : i # j)
  <2> DEFINE unmeasured == Xe!needsExecutionStats(o[r]) /\ Xe!Unmeasured(s) # {}
  <2>0. disagree \in BOOLEAN
    OBVIOUS
  <2> HIDE DEF disagree
  <2> DEFINE two == (\E i, j \in Xe!Explained(s) : i # j) /\ Xe!Inconclusive(s) = {}
  <2>1. /\ disagree \/ unmeasured => quality = 1
        /\ ~disagree /\ ~unmeasured => quality = IF two THEN 3 ELSE 2
    BY <2>0 DEF Xe!Quality
  <2>2. ~unmeasured /\ r \notin {4, 5, 7} => \A i \in Xe!Explained(s) : s[i].d.stats
    BY <1>7 DEF Xe!Unmeasured
  <2> HIDE DEF quality, unmeasured
  <2>3. quality \in 1..3 /\ (quality > 1 => ~disagree /\ ~unmeasured)
    BY <2>1
  <2>4. quality = 3 => (\E i, j \in Xe!Explained(s) : i # j)
    BY <2>1
  <2> QED
    BY <2>2, <2>3, <2>4
<1> HIDE DEF quality
<1>9. f.confidence \in {quality, cap} /\ f.confidence <= quality /\ f.confidence <= cap
  <2>1. {quality, cap} \subseteq Nat /\ {quality, cap} # {}
    BY <1>7, <1>8
  <2> QED
    BY <1>1, <2>1, LeastIs
<1> HIDE DEF f
<1>10. f.confidence \in 1..3
  BY <1>7, <1>8, <1>9
<1>11. r <= 3 /\ f.confidence > 1 => \A i \in Xe!Explained(s) : s[i].d.stats
  <2>1. r <= 3 /\ f.confidence > 1 => quality > 1 /\ r \notin {4, 5, 7}
    BY <1>6, <1>8, <1>9, <1>10
  <2> QED
    BY <1>8, <2>1
<1>12. ASSUME f.confidence = 3
       PROVE  /\ r <= 3 /\ (\E i, j \in Xe!Explained(s) : i # j)
              /\ \A i, j \in Xe!Explained(s) :
                    Xe!ClassifyExplainSample(s[i].d) = Xe!ClassifyExplainSample(s[j].d)
  <2>1. quality = 3 /\ cap = 3
    BY <1>7, <1>8, <1>9, <1>12
  <2>2. ~disagree /\ (\E i, j \in Xe!Explained(s) : i # j) /\ r <= 3
    BY <1>7, <1>8, <2>1
  <2>3. ASSUME NEW i \in Xe!Explained(s), NEW j \in Xe!Explained(s)
        PROVE  Xe!ClassifyExplainSample(s[i].d) = Xe!ClassifyExplainSample(s[j].d)
    <3>1. Xe!diagnosisRank(Xe!ClassifyExplainSample(s[i].d))
            = Xe!diagnosisRank(Xe!ClassifyExplainSample(s[j].d))
      BY <1>2, <2>2
    <3> QED
      BY <3>1, ClassifiedIs
  <2> QED
    BY <2>2, <2>3
<1> QED
  BY <1>1, <1>5, <1>6, <1>10, <1>11, <1>12 DEF f, o

-----------------------------------------------------------------------------
(***************************************************************************)
(* What is said of the samples of a shape, and of a plan.                  *)
(***************************************************************************)
LEMMA NothingExplained ==
    ASSUME NEW s, Xe!Explained(s) = {}
    PROVE  /\ Xe!BuildExplainFinding(s) = Xe!NoFinding
           /\ Xe!coverageStatusFromSamples(s).status # "explained"
BY DEF Xe!BuildExplainFinding, Xe!coverageStatusFromSamples

\* What was explained is covered, with execution statistics if a sample has them,
\* and the plan that is shown is one of an explained sample.
LEMMA SomethingExplained ==
    ASSUME NEW s, s \in Seq(Xe!ExplainSample), Xe!Explained(s) # {}
    PROVE  /\ Xe!coverageStatusFromSamples(s).status = "explained"
           /\ (\E i \in Xe!Explained(s) : s[i].d.stats) =>
                 Xe!coverageStatusFromSamples(s).evidence = "execution_stats"
           /\ Xe!PrimarySample(s).status = "explained"
<1> DEFINE tail == {i \in Xe!Explained(s) : s[i].role \in {"p95", "median+p95"}}
           T == IF tail # {} THEN tail ELSE Xe!Explained(s)
<1>1. Xe!Explained(s) \subseteq Nat
  BY DEF Xe!Explained
<1>2. T \subseteq Nat /\ T # {} /\ T \subseteq Xe!Explained(s)
  BY <1>1
<1>3. Xe!PrimarySample(s) = s[Xe!Least(T)]
  BY DEF Xe!PrimarySample
<1> HIDE DEF T
<1>4. Xe!Least(T) \in Xe!Explained(s)
  BY <1>2, LeastIs
<1>5. Xe!PrimarySample(s).status = "explained"
  BY <1>3, <1>4 DEF Xe!Explained
<1>6. Xe!coverageStatusFromSamples(s).status = "explained"
  BY DEF Xe!coverageStatusFromSamples
<1>7. (\E i \in Xe!Explained(s) : s[i].d.stats) =>
         Xe!coverageStatusFromSamples(s).evidence = "execution_stats"
  BY DEF Xe!coverageStatusFromSamples, Xe!Explained
<1> QED
  BY <1>5, <1>6, <1>7

\* Latencies are compared where a sample was explained with statistics.
LEMMA ComparableIs ==
    ASSUME NEW s, s \in Seq(Xe!ExplainSample), NEW i \in DOMAIN s,
           Xe!compareLatency(s[i]) # "not_comparable"
    PROVE  i \in Xe!Explained(s) /\ s[i].d.stats
BY DEF Xe!compareLatency, Xe!Explained

\* The signals of a plan are those of what it shows.
LEMMA SignalsAreShown ==
    ASSUME NEW p, NEW q, Xe!Shown(p) = Xe!Shown(q)
    PROVE  Xe!parseExplainSignals(p) = Xe!parseExplainSignals(q)
<1> DEFINE Counts(n) == \/ n.kind = "stage"
                        \/ (n.kind = "dollar" /\ n.path # <<>> /\ Xe!Last(n.path) = "stages")
           Nodes(x) == {i \in DOMAIN x : Xe!VisitedNodes(x[i])}
           Stages(x) == {x[i].stage : i \in {j \in Nodes(x) : Counts(x[j])}}
           There(S) == {n.stage : n \in {m \in S : Counts(m)}}
           Sorted(S) == \E n \in S : n.kind = "stage" /\ n.stage = "SORT"
           Sorts(x) == \E i \in Nodes(x) : x[i].kind = "stage" /\ x[i].stage = "SORT"
<1>1. ASSUME NEW x
      PROVE  /\ Stages(x) = There(Xe!Shown(x))
             /\ Sorts(x) <=> Sorted(Xe!Shown(x))
  <2>1. Nodes(x) = {j \in DOMAIN x : Xe!Visited(x[j])}
    BY DEF Xe!VisitedNodes
  <2>2. Xe!Shown(x) = {x[i] : i \in Nodes(x)}
    BY <2>1 DEF Xe!Shown
  <2> HIDE DEF Nodes, Counts
  <2>3. Sorts(x) <=> Sorted(Xe!Shown(x))
    BY <2>2
  <2>4. Stages(x) \subseteq There(Xe!Shown(x))
    BY <2>2
  <2>5. There(Xe!Shown(x)) \subseteq Stages(x)
    BY <2>2
  <2> QED
    BY <2>3, <2>4, <2>5
<1>2. Stages(p) = Stages(q) /\ (Sorts(p) <=> Sorts(q))
  <2> HIDE DEF Stages, Sorts, There, Sorted
  <2>1. Stages(p) = Stages(q)
    BY <1>1
  <2>2. Sorts(p) <=> Sorts(q)
    BY <1>1
  <2> QED
    BY <2>1, <2>2
<1>3. ASSUME NEW x
      PROVE  Xe!parseExplainSignals(x)
               = [collscan |-> "COLLSCAN" \in Stages(x),
                  ixscan |-> Stages(x) \cap {"IXSCAN", "IDHACK"} # {},
                  group |-> "GROUP" \in Stages(x),
                  sort |-> Sorts(x),
                  spills |-> "SPILL" \in Stages(x)]
  BY Zenon DEF Xe!parseExplainSignals
<1> HIDE DEF Stages, Sorts
<1>4. Sorts(p) \in BOOLEAN /\ Sorts(q) \in BOOLEAN
  BY DEF Sorts
<1> QED
  BY <1>2, <1>3, <1>4

\* The conjuncts of the finding that a report may rely on, for the samples of one
\* or two values.
LEMMA FindingEarned ==
    ASSUME NEW s, s \in Seq(Xe!ExplainSample), Len(s) \in 1..2
    PROVE  LET f == Xe!BuildExplainFinding(s)
               coverage == Xe!coverageStatusFromSamples(s)
           IN  /\ f.confidence = 3 =>
                     /\ Len(s) = 2 /\ \A i \in 1..2 : s[i].status = "explained" /\ s[i].d.stats
                     /\ Xe!ClassifyExplainSample(s[1].d) = Xe!ClassifyExplainSample(s[2].d)
               /\ (f = Xe!NoFinding) <=> coverage.status # "explained"
               /\ f # Xe!NoFinding =>
                     /\ Xe!PrimarySample(s).status = "explained"
                     /\ Xe!explainFindingPriority(f) = "high" => coverage.evidence = "execution_stats"
               /\ Xe!applyFindingToIssue(s).confidence > 1 => f.confidence > 1
               /\ \A i \in DOMAIN s :
                     Xe!compareLatency(s[i]) # "not_comparable" => coverage.evidence = "execution_stats"
<1> DEFINE f == Xe!BuildExplainFinding(s)
           coverage == Xe!coverageStatusFromSamples(s)
           E == Xe!Explained(s)
<1>1. \A i \in DOMAIN s : Xe!compareLatency(s[i]) # "not_comparable" => i \in E /\ s[i].d.stats
  BY ComparableIs
<1>2. Xe!NoFinding.confidence = 0
  BY DEF Xe!NoFinding
<1>3. Xe!applyFindingToIssue(s).confidence = IF f = Xe!NoFinding THEN 1 ELSE f.confidence
  BY DEF Xe!applyFindingToIssue
<1>4. CASE E = {}
  <2>1. f = Xe!NoFinding /\ coverage.status # "explained"
    BY <1>4, NothingExplained
  <2> QED
    BY <1>1, <1>2, <1>3, <1>4, <2>1
<1>5. CASE E # {}
  <2>1. /\ coverage.status = "explained"
        /\ (\E i \in E : s[i].d.stats) => coverage.evidence = "execution_stats"
        /\ Xe!PrimarySample(s).status = "explained"
    BY <1>5, SomethingExplained
  <2>2. PICK r \in 1..11 :
            /\ f.diagnosis = Xe!diagnosisOrder[r]
            /\ f.confidence \in 1..3
            /\ r <= 3 /\ f.confidence > 1 => \A i \in E : s[i].d.stats
            /\ f.confidence = 3 =>
                  /\ r <= 3 /\ \E i, j \in E : i # j
                  /\ \A i, j \in E :
                        Xe!ClassifyExplainSample(s[i].d) = Xe!ClassifyExplainSample(s[j].d)
    BY <1>5, FindingIs
  <2>3. f # Xe!NoFinding
    BY <1>2, <2>2
  <2>4. \A i \in E : i \in 1..Len(s) /\ s[i].status = "explained"
    BY DEF Xe!Explained
  <2>5. Xe!explainFindingPriority(f) = "high" => r <= 3 /\ f.confidence # 1
    <3>1. Xe!diagnosisRank(f.diagnosis) = r
      BY <2>2, RankOf
    <3> QED
      BY <2>2, <3>1 DEF Xe!explainFindingPriority
  <2> HIDE DEF f, coverage, E
  <2>6. Xe!explainFindingPriority(f) = "high" => coverage.evidence = "execution_stats"
    <3>1. ASSUME r <= 3 /\ f.confidence # 1 PROVE \E i \in E : s[i].d.stats
      BY <1>5, <2>2, <3>1
    <3> QED
      BY <2>1, <2>5, <3>1
  <2>7. ASSUME f.confidence = 3
        PROVE  /\ Len(s) = 2 /\ 1 \in E /\ 2 \in E
               /\ \A i \in E : s[i].d.stats
    <3>1. PICK i \in E, j \in E : i # j
      BY <2>2, <2>7
    <3>2. i \in 1..Len(s) /\ j \in 1..Len(s)
      BY <2>4
    <3> DEFINE n == Len(s)
    <3>3. n \in 1..2 /\ i \in 1..n /\ j \in 1..n
      BY <3>2
    <3> HIDE DEF n
    <3>4. n = 2 /\ ((i = 1 /\ j = 2) \/ (i = 2 /\ j = 1))
      <4>1. i \in {1, 2} /\ j \in {1, 2} /\ n \in {1, 2} /\ (n = 1 => i = 1 /\ j = 1)
        BY <3>3
      <4> QED
        BY <3>1, <4>1
    <3> QED
      BY <2>2, <2>7, <3>1, <3>4 DEF n
  <2>8. f.confidence = 3 =>
            /\ Len(s) = 2 /\ \A i \in 1..2 : s[i].status = "explained" /\ s[i].d.stats
            /\ Xe!ClassifyExplainSample(s[1].d) = Xe!ClassifyExplainSample(s[2].d)
    <3> SUFFICES ASSUME f.confidence = 3
                 PROVE  /\ Len(s) = 2 /\ \A i \in {1, 2} : s[i].status = "explained" /\ s[i].d.stats
                        /\ Xe!ClassifyExplainSample(s[1].d) = Xe!ClassifyExplainSample(s[2].d)
      OBVIOUS
    <3>1. Len(s) = 2 /\ 1 \in E /\ 2 \in E /\ \A i \in E : s[i].d.stats
      BY <2>7
    <3>2. Xe!ClassifyExplainSample(s[1].d) = Xe!ClassifyExplainSample(s[2].d)
      BY <2>2, <3>1
    <3> QED
      BY <2>4, <3>1, <3>2
  <2>9. Xe!applyFindingToIssue(s).confidence > 1 => f.confidence > 1
    BY <1>3, <2>3 DEF f
  <2> QED
    BY <1>1, <2>1, <2>3, <2>6, <2>8, <2>9 DEF f, coverage
<1> QED
  BY <1>4, <1>5

\* What is asked about a finding is one of Findings.
FindingAsked == algorithm = "finding" => input \in Findings

LEMMA FindingAskedHolds == Spec => []FindingAsked
<1>1. Init => FindingAsked
  BY DEF Init, FindingAsked
<1>2. FindingAsked /\ [Next]_questionVars => FindingAsked'
  <2> SUFFICES ASSUME FindingAsked, Next PROVE FindingAsked'
    BY DEF FindingAsked, questionVars
  <2>1. CASE TrendStep
    BY <2>1 DEF TrendStep, FindingAsked
  <2>2. CASE AskFinding
    BY <2>2 DEF AskFinding, Ask, FindingAsked
  <2>3. CASE AskVerdict \/ AskBaseline \/ AskChanges \/ AskValues \/ AskSelection \/ AskSignals
    BY <2>3 DEF AskVerdict, AskBaseline, AskChanges, AskValues, AskSelection, AskSignals, Ask, FindingAsked
  <2>4. CASE AskRating \/ AskAdvice \/ AskComparison
    BY <2>4 DEF AskRating, AskAdvice, AskComparison, Ask, FindingAsked
  <2> QED
    BY <2>1, <2>2, <2>3, <2>4 DEF Next
<1> QED
  BY <1>1, <1>2, PTL DEF Spec

\* High confidence needs two plans that agree, none missing, and measured ones
\* where the diagnosis is about measures; what is under a rejected plan is no
\* signal (BuildExplainFinding, parseExplainSignals): for all samples of at most
\* two explained commands and all plans.
THEOREM FindingTheorem == Spec => []HighConfidenceIsEarned
<1>1. FindingAsked => HighConfidenceIsEarned
  <2> SUFFICES ASSUME FindingAsked PROVE HighConfidenceIsEarned
    OBVIOUS
  <2>1. ASSUME algorithm = "finding" PROVE input \in Seq(Xe!ExplainSample) /\ Len(input) \in 1..2
    BY <2>1, QuestionAssumption DEF FindingAsked
  <2>2. \A plan \in ExplainedPlans : Xe!Shown(plan) = Xe!Shown(input) =>
            Xe!parseExplainSignals(plan) = Xe!parseExplainSignals(input)
    BY SignalsAreShown
  <2> QED
    BY Zenon, <2>1, <2>2, FindingEarned DEF HighConfidenceIsEarned
<1> QED
  BY <1>1, FindingAskedHolds, PTL

-----------------------------------------------------------------------------
(***************************************************************************)
(* The keys that are left when some fields are fixed.                      *)
(***************************************************************************)
Keys(D) == [field : STRING, dir : D]

LeftOf(f, keys, fixed, m) ==
    f = [n \in 0..m |-> IF n = 0 THEN <<>>
                        ELSE IF keys[n].field \in fixed THEN f[n - 1]
                        ELSE Append(f[n - 1], keys[n])]

LEMMA LeftExists ==
    ASSUME NEW keys, NEW fixed, NEW L \in Nat
    PROVE  \E f : LeftOf(f, keys, fixed, L)
<1> DEFINE T == {l \in Nat : ~\E f : LeftOf(f, keys, fixed, l)}
           Rule(n, g) == IF n = 0 THEN <<>>
                         ELSE IF keys[n].field \in fixed THEN g[n - 1]
                         ELSE Append(g[n - 1], keys[n])
<1>1. ASSUME T # {} PROVE FALSE
  <2>1. PICK m \in T : \A j \in T : m <= j
    BY <1>1, LeastOf
  <2>2. m \in Nat /\ ~\E f : LeftOf(f, keys, fixed, m)
    OBVIOUS
  <2>3. CASE m = 0
    <3> DEFINE f == [n \in 0..0 |-> <<>>]
    <3>1. f = [n \in 0..0 |-> Rule(n, f)]
      OBVIOUS
    <3> HIDE DEF f
    <3> QED
      BY <2>2, <2>3, <3>1 DEF LeftOf
  <2>4. CASE m # 0
    <3>1. m - 1 \in Nat /\ m - 1 \notin T
      BY <2>1, <2>2, <2>4
    <3>2. PICK f : LeftOf(f, keys, fixed, m - 1)
      BY <3>1
    <3> DEFINE h == [n \in 0..m |-> IF n = m THEN Rule(m, f) ELSE f[n]]
    <3>3. f = [n \in 0..(m - 1) |-> Rule(n, f)]
      BY <3>2 DEF LeftOf
    <3>4. \A n \in 0..(m - 1) : h[n] = f[n] /\ f[n] = Rule(n, f)
      <4> HIDE DEF Rule
      <4>1. \A n \in 0..(m - 1) : n \in 0..m /\ n # m
        BY <2>2
      <4> QED
        BY <3>3, <4>1
    <3>5. \A n \in 0..m : Rule(n, h) = Rule(n, f)
      <4> SUFFICES ASSUME NEW n \in 0..m PROVE Rule(n, h) = Rule(n, f)
        OBVIOUS
      <4>1. n = 0 \/ n - 1 \in 0..(m - 1)
        BY <2>2
      <4>2. n = 0 \/ h[n - 1] = f[n - 1]
        BY <3>4, <4>1
      <4> HIDE DEF h
      <4> QED
        BY <4>2
    <3>6. \A n \in 0..m : h[n] = Rule(n, f)
      <4> HIDE DEF Rule
      <4>1. \A n \in 0..m : n = m \/ n \in 0..(m - 1)
        BY <2>2
      <4>2. h[m] = Rule(m, f)
        BY <2>2
      <4> HIDE DEF h
      <4> QED
        BY <3>4, <4>1, <4>2
    <3>7. h = [n \in 0..m |-> Rule(n, h)]
      <4> HIDE DEF Rule
      <4>1. h = [n \in 0..m |-> h[n]]
        OBVIOUS
      <4> HIDE DEF h
      <4> QED
        BY <3>5, <3>6, <4>1
    <3> HIDE DEF h
    <3>8. LeftOf(h, keys, fixed, m)
      BY <3>7 DEF LeftOf
    <3> QED
      BY <2>2, <3>8
  <2> QED
    BY <2>3, <2>4
<1> QED
  BY <1>1

\* Rest is such a function at the length of the keys.
LEMMA RestSteps ==
    ASSUME NEW D, NEW keys, keys \in Seq(Keys(D)), NEW fixed
    PROVE  \E f : /\ Ia!Rest(keys, fixed) = f[Len(keys)]
                  /\ f[0] = <<>>
                  /\ \A n \in 1..Len(keys) :
                        f[n] = IF keys[n].field \in fixed THEN f[n - 1] ELSE Append(f[n - 1], keys[n])
<1> DEFINE L == Len(keys)
           f == CHOOSE f : LeftOf(f, keys, fixed, L)
<1>1. L \in Nat
  OBVIOUS
<1>2. Ia!Rest(keys, fixed) = f[L]
  BY DEF Ia!Rest, LeftOf
<1> HIDE DEF L
<1>3. LeftOf(f, keys, fixed, L)
  BY <1>1, LeftExists
<1> HIDE DEF f
<1>4. f[0] = <<>>
  <2>1. 0 \in 0..L
    BY <1>1
  <2> QED
    BY <1>3, <2>1 DEF LeftOf
<1>5. ASSUME NEW n \in 1..L
      PROVE  f[n] = IF keys[n].field \in fixed THEN f[n - 1] ELSE Append(f[n - 1], keys[n])
  <2>1. n \in 0..L /\ n # 0
    BY <1>1
  <2> QED
    BY <1>3, <2>1 DEF LeftOf
<1> QED
  BY <1>2, <1>4, <1>5 DEF L

\* After n fixed keys, the others are left as they are.
LEMMA RestAfter ==
    ASSUME NEW D, NEW keys, keys \in Seq(Keys(D)), NEW fixed, NEW n \in 0..Len(keys),
           \A i \in 1..n : keys[i].field \in fixed,
           \A i \in (n + 1)..Len(keys) : keys[i].field \notin fixed
    PROVE  /\ Ia!Rest(keys, fixed) \in Seq(Keys(D))
           /\ Len(Ia!Rest(keys, fixed)) = Len(keys) - n
           /\ \A i \in 1..(Len(keys) - n) : Ia!Rest(keys, fixed)[i] = keys[n + i]
<1> DEFINE L == Len(keys)
<1>1. PICK f : /\ Ia!Rest(keys, fixed) = f[L]
               /\ f[0] = <<>>
               /\ \A m \in 1..L :
                     f[m] = IF keys[m].field \in fixed THEN f[m - 1] ELSE Append(f[m - 1], keys[m])
  BY RestSteps
<1>2. L \in Nat /\ n \in 0..L /\ \A i \in 1..L : keys[i] \in Keys(D)
  OBVIOUS
<1> DEFINE Is(m) == /\ f[m] \in Seq(Keys(D))
                    /\ Len(f[m]) = IF m <= n THEN 0 ELSE m - n
                    /\ \A i \in 1..Len(f[m]) : f[m][i] = keys[n + i]
           T == {m \in 0..L : ~Is(m)}
<1>3. Is(0)
  BY <1>1, <1>2
<1>4. ASSUME NEW m \in 1..L, Is(m - 1) PROVE Is(m)
  <2> HIDE DEF L
  <2>1. m \in Nat /\ m - 1 \in Nat /\ n \in Nat
    BY <1>2
  <2> DEFINE g == f[m - 1]
  <2>2. CASE m <= n
    <3>1. m \in 1..n
      BY <2>1, <2>2
    <3>2. f[m] = g
      BY <1>1, <3>1
    <3>3. m - 1 <= n
      BY <2>1, <2>2
    <3> QED
      BY <1>4, <2>2, <3>2, <3>3
  <2>3. CASE ~(m <= n)
    <3>1. m \in (n + 1)..L /\ m - 1 >= n
      BY <1>2, <2>1, <2>3
    <3>2. f[m] = Append(g, keys[m]) /\ keys[m] \in Keys(D)
      BY <1>1, <1>2, <3>1 DEF L
    <3>3. g \in Seq(Keys(D)) /\ Len(g) = m - 1 - n /\ \A i \in 1..Len(g) : g[i] = keys[n + i]
      BY <1>4, <2>1, <3>1
    <3> HIDE DEF g
    <3>4. f[m] \in Seq(Keys(D)) /\ Len(f[m]) = m - n
      BY <2>1, <3>2, <3>3
    <3>5. \A i \in 1..(m - n) : f[m][i] = keys[n + i]
      <4> SUFFICES ASSUME NEW i \in 1..(m - n) PROVE f[m][i] = keys[n + i]
        OBVIOUS
      <4>1. i \in 1..Len(g) \/ (i = Len(g) + 1 /\ n + i = m)
        BY <2>1, <3>1, <3>3
      <4>2. CASE i \in 1..Len(g)
        BY <3>2, <3>3, <4>2
      <4>3. CASE i = Len(g) + 1 /\ n + i = m
        BY <3>2, <3>3, <4>3
      <4> QED
        BY <4>1, <4>2, <4>3
    <3> QED
      BY <2>3, <3>4, <3>5
  <2> QED
    BY <2>2, <2>3
<1> HIDE DEF Is
<1>5. ASSUME T # {} PROVE FALSE
  <2> HIDE DEF L
  <2>1. T \subseteq Nat
    BY <1>2
  <2>2. PICK m \in T : \A j \in T : m <= j
    BY <1>5, <2>1, LeastOf
  <2>3. m \in 0..L /\ ~Is(m) /\ m # 0
    BY <1>3
  <2>4. m \in 1..L /\ m - 1 \in 0..L /\ ~(m <= m - 1)
    BY <1>2, <2>3
  <2>5. Is(m - 1)
    BY <2>2, <2>4
  <2> QED
    BY <1>4, <2>3, <2>4, <2>5
<1>6. Is(L)
  <2>1. L \in 0..L
    BY <1>2
  <2> QED
    BY <1>5, <2>1
<1> QED
  BY <1>1, <1>2, <1>6 DEF Is

\* What is left are keys of other fields; the fields stay distinct.
LEMMA RestOf ==
    ASSUME NEW D, NEW keys, keys \in Seq(Keys(D)), NEW fixed,
           \A i, j \in DOMAIN keys : keys[i].field = keys[j].field => i = j
    PROVE  LET rest == Ia!Rest(keys, fixed)
           IN  /\ rest \in Seq(Keys(D))
               /\ \A i \in DOMAIN rest : /\ rest[i].field \notin fixed
                                         /\ \E k \in DOMAIN keys : rest[i] = keys[k]
               /\ \A i, j \in DOMAIN rest : rest[i].field = rest[j].field => i = j
<1> DEFINE L == Len(keys)
<1>1. PICK f : /\ Ia!Rest(keys, fixed) = f[L]
               /\ f[0] = <<>>
               /\ \A m \in 1..L :
                     f[m] = IF keys[m].field \in fixed THEN f[m - 1] ELSE Append(f[m - 1], keys[m])
  BY RestSteps
<1>2. L \in Nat /\ DOMAIN keys = 1..L /\ \A i \in 1..L : keys[i] \in Keys(D)
  OBVIOUS
<1> DEFINE Is(m) == /\ f[m] \in Seq(Keys(D))
                    /\ \A i \in DOMAIN f[m] : /\ f[m][i].field \notin fixed
                                              /\ \E k \in 1..m : f[m][i] = keys[k]
                    /\ \A i, j \in DOMAIN f[m] : f[m][i].field = f[m][j].field => i = j
           T == {m \in 0..L : ~Is(m)}
<1>3. Is(0)
  BY <1>1, <1>2
<1>4. ASSUME NEW m \in 1..L, Is(m - 1) PROVE Is(m)
  <2> HIDE DEF L
  <2>1. m \in Nat /\ m - 1 \in Nat /\ \A k \in 1..(m - 1) : k \in 1..m /\ k \in 1..L /\ k # m
    BY <1>2
  <2> DEFINE g == f[m - 1]
  <2>2. CASE keys[m].field \in fixed
    <3>1. f[m] = g
      BY <1>1, <2>2
    <3> QED
      BY <1>4, <2>1, <3>1
  <2>3. CASE keys[m].field \notin fixed
    <3>1. f[m] = Append(g, keys[m]) /\ keys[m] \in Keys(D)
      BY <1>1, <1>2, <2>3
    <3>2. /\ g \in Seq(Keys(D))
          /\ \A i \in DOMAIN g : g[i].field \notin fixed /\ \E k \in 1..(m - 1) : g[i] = keys[k]
          /\ \A i, j \in DOMAIN g : g[i].field = g[j].field => i = j
      BY <1>4
    <3> HIDE DEF g
    <3> DEFINE e == f[m]
               l == Len(g)
    <3>3. /\ e \in Seq(Keys(D)) /\ l \in Nat /\ DOMAIN g = 1..l
          /\ DOMAIN e = 1..(l + 1) /\ e[l + 1] = keys[m]
          /\ \A i \in 1..l : e[i] = g[i]
      BY <3>1, <3>2
    <3> HIDE DEF e, l
    <3>4. \A i \in DOMAIN e : (i \in 1..l /\ i \in DOMAIN g) \/ i = l + 1
      BY <3>3
    <3>5. \A i \in DOMAIN g : e[i].field # keys[m].field
      <4> SUFFICES ASSUME NEW i \in DOMAIN g PROVE g[i].field # keys[m].field
        BY <3>3
      <4>1. PICK k \in 1..(m - 1) : g[i] = keys[k]
        BY <3>2
      <4>2. k \in DOMAIN keys /\ m \in DOMAIN keys /\ k # m
        BY <1>2, <2>1
      <4> QED
        BY <4>1, <4>2
    <3>6. ASSUME NEW i \in DOMAIN e
          PROVE  e[i].field \notin fixed /\ \E k \in 1..m : e[i] = keys[k]
      <4>1. m \in 1..m
        BY <2>1
      <4>2. CASE i = l + 1
        BY <2>3, <3>3, <4>1, <4>2
      <4>3. CASE i \in DOMAIN g /\ i \in 1..l
        BY <2>1, <3>2, <3>3, <4>3
      <4> QED
        BY <3>4, <4>2, <4>3
    <3>7. ASSUME NEW i \in DOMAIN e, NEW j \in DOMAIN e, e[i].field = e[j].field
          PROVE  i = j
      <4>1. CASE i \in DOMAIN g /\ j \in DOMAIN g
        BY <3>2, <3>3, <3>7, <4>1
      <4>2. CASE i = l + 1 /\ j = l + 1
        BY <4>2
      <4>3. CASE i = l + 1 /\ j \in DOMAIN g
        BY <3>3, <3>5, <3>7, <4>3
      <4>4. CASE j = l + 1 /\ i \in DOMAIN g
        BY <3>3, <3>5, <3>7, <4>4
      <4> QED
        BY <3>4, <4>1, <4>2, <4>3, <4>4
    <3> QED
      BY <3>3, <3>6, <3>7 DEF e
  <2> QED
    BY <2>2, <2>3
<1> HIDE DEF Is
<1>5. ASSUME T # {} PROVE FALSE
  <2> HIDE DEF L
  <2>1. T \subseteq Nat
    BY <1>2
  <2>2. PICK m \in T : \A j \in T : m <= j
    BY <1>5, <2>1, LeastOf
  <2>3. m \in 0..L /\ ~Is(m) /\ m # 0
    BY <1>3
  <2>4. m \in 1..L /\ m - 1 \in 0..L /\ ~(m <= m - 1)
    BY <1>2, <2>3
  <2>5. Is(m - 1)
    BY <2>2, <2>4
  <2> QED
    BY <1>4, <2>3, <2>4, <2>5
<1>6. Is(L)
  <2>1. L \in 0..L
    BY <1>2
  <2> QED
    BY <1>5, <2>1
<1> QED
  BY <1>1, <1>2, <1>6 DEF Is

\* Sizes of the sets of fields, in the module of the advice.
LEMMA SizeIs ==
    ASSUME NEW S, IsFiniteSet(S)
    PROVE  /\ Ia!Cardinality(S) \in Nat
           /\ Ia!Cardinality(S) = 0 <=> S = {}
           /\ \A x : S = {x} => Ia!Cardinality(S) = 1
<1>1. Ia!Cardinality(S) = Cardinality(S)
  BY DEF Ia!Cardinality, Cardinality, Ia!IsFiniteSet, IsFiniteSet
<1> QED
  BY <1>1, FS_CardinalityType, FS_EmptySet, FS_Singleton

\* Documents of keys: sequences without a field twice.
LEMMA KeysAre ==
    /\ \A keys : keys \in Ia!IndexKeys <=>
          /\ keys \in Seq(Keys({Ia!Asc, Ia!Desc, Ia!Hashed, Ia!Special}))
          /\ \A i, j \in DOMAIN keys : keys[i].field = keys[j].field => i = j
    /\ \A keys : keys \in Ia!SortKeys <=>
          /\ keys \in Seq(Keys({Ia!Asc, Ia!Desc}))
          /\ \A i, j \in DOMAIN keys : keys[i].field = keys[j].field => i = j
BY DEF Ia!IndexKeys, Ia!SortKeys, Ia!KeySpecs, Keys

IsProfile(p) ==
    /\ IsFiniteSet(p.eq) /\ p.eq \cup p.ranges \subseteq STRING
    /\ p.sort \in Ia!SortKeys

LEMMA FieldsFinite ==
    ASSUME NEW S, IsFiniteSet(S)
    PROVE  IsFiniteSet({c.field : c \in S})
<1> DEFINE f == [c \in S |-> c.field]
           T == {c.field : c \in S}
<1>1. f \in Surjection(S, T)
  BY DEF Surjection
<1> QED
  BY <1>1, FS_Surjection

LEMMA ProfileIs ==
    ASSUME NEW q \in Queries
    PROVE  IsProfile(Ia!ProfileQuery(q.filter, q.sort, q.ordered))
<1> DEFINE p == Ia!ProfileQuery(q.filter, q.sort, q.ordered)
           filter == q.filter
           E == {c.field : c \in {c \in filter : c.op = "eq" /\ c.value # Ia!NoValue}}
           I == {c.field : c \in {x \in filter : x.op = "in"}}
<1>1. IsFiniteSet(filter) /\ (\A c \in filter : c.field \in STRING) /\ q.sort \in Ia!SortKeys
  BY QuestionAssumption
<1>2. p.eq = E \cup I
  BY DEF Ia!ProfileQuery
<1>3. p.ranges = {c.field : c \in {x \in filter : x.op = "range"}}
  BY DEF Ia!ProfileQuery
<1>4. p.sort = <<>> \/ p.sort = q.sort
  BY DEF Ia!ProfileQuery
<1> HIDE DEF filter, p
<1>5. IsFiniteSet(E)
  <2> DEFINE S == {c \in filter : c.op = "eq" /\ c.value # Ia!NoValue}
  <2>1. IsFiniteSet(S)
    BY <1>1, FS_Subset
  <2> HIDE DEF S
  <2>2. IsFiniteSet({c.field : c \in S})
    BY <2>1, FieldsFinite
  <2> QED
    BY <2>2 DEF S
<1>6. IsFiniteSet(I)
  <2> DEFINE S == {x \in filter : x.op = "in"}
  <2>1. IsFiniteSet(S)
    BY <1>1, FS_Subset
  <2> HIDE DEF S
  <2>2. IsFiniteSet({c.field : c \in S})
    BY <2>1, FieldsFinite
  <2> QED
    BY <2>2 DEF S
<1>7. E \cup I \cup p.ranges \subseteq STRING
  BY <1>1, <1>3
<1>8. <<>> \in Ia!SortKeys
  <2>1. <<>> \in Seq(Keys({Ia!Asc, Ia!Desc})) /\ DOMAIN <<>> = {}
    OBVIOUS
  <2> QED
    BY <2>1, KeysAre
<1> HIDE DEF E, I
<1>9. IsFiniteSet(p.eq)
  BY <1>2, <1>5, <1>6, FS_Union
<1> QED
  BY <1>1, <1>2, <1>4, <1>7, <1>8, <1>9 DEF IsProfile, p

\* An index with the equality fields first and the tail next.
Fits(keys, eq, tail) ==
    LET n == Ia!Cardinality(eq)
    IN  /\ n \in Nat /\ n + Len(tail) <= Len(keys)
        /\ {keys[i].field : i \in 1..n} = eq
        /\ \A i \in (n + 1)..Len(keys) : keys[i].field \notin eq
        /\ \A i \in 1..Len(tail) : keys[n + i] = tail[i]
        /\ Ia!Starts(Ia!Rest(keys, eq), tail)

LEMMA ForwardIs ==
    ASSUME NEW keys \in Ia!IndexKeys, NEW eq, IsFiniteSet(eq),
           NEW tail \in Seq(Keys({Ia!Asc, Ia!Desc})), Ia!Forward(keys, eq, tail)
    PROVE  Fits(keys, eq, tail)
<1> DEFINE n == Ia!Cardinality(eq)
           D == {Ia!Asc, Ia!Desc, Ia!Hashed, Ia!Special}
           L == Len(keys)
           m == Len(tail)
           first == SubSeq(keys, 1, n)
<1>1. /\ m + n <= L /\ n + m <= L /\ n \in Nat
      /\ Ia!FieldsOf(first) = eq
      /\ SubSeq(keys, n + 1, n + m) = tail
  <2>1. n \in Nat
    BY SizeIs
  <2>2. /\ L >= n + m
        /\ Ia!FieldsOf(first) = eq
        /\ SubSeq(keys, n + 1, n + m) = tail
    BY DEF Ia!Forward
  <2>3. L \in Nat /\ m \in Nat
    BY KeysAre
  <2> HIDE DEF n, L, m, first
  <2> QED
    BY <2>1, <2>2, <2>3
<1>2. /\ keys \in Seq(Keys(D)) /\ L \in Nat /\ m \in Nat /\ DOMAIN keys = 1..L
      /\ \A i, j \in DOMAIN keys : keys[i].field = keys[j].field => i = j
  <2>1. /\ keys \in Seq(Keys(D))
        /\ \A i, j \in DOMAIN keys : keys[i].field = keys[j].field => i = j
    BY KeysAre
  <2> HIDE DEF D
  <2> QED
    BY <2>1
<1> HIDE DEF n, L, D, m
<1>3. /\ DOMAIN first = 1..n /\ \A i \in 1..n : first[i] = keys[i]
  <2>1. 1 \in Nat /\ 1 <= n + 1 /\ n <= Len(keys)
    BY <1>1, <1>2 DEF L
  <2> QED
    BY <1>1, <1>2, <2>1 DEF L
<1>4. {keys[i].field : i \in 1..n} = eq
  <2> HIDE DEF first
  <2>1. eq = {first[i].field : i \in 1..n}
    BY <1>1, <1>3 DEF Ia!FieldsOf
  <2> QED
    BY <1>3, <2>1
<1> HIDE DEF first
<1>5. \A i \in 1..n : i \in 1..L /\ keys[i].field \in eq
  BY <1>1, <1>2, <1>4
<1>6. \A i \in (n + 1)..L : keys[i].field \notin eq
  <2> SUFFICES ASSUME NEW i \in (n + 1)..L, keys[i].field \in eq PROVE FALSE
    OBVIOUS
  <2>1. PICK j \in 1..n : keys[j].field = keys[i].field
    BY <1>4
  <2>2. i \in 1..L /\ j \in 1..L /\ i # j
    BY <1>1, <1>2
  <2> QED
    BY <1>2, <2>1, <2>2
<1>7. \A i \in 1..m : keys[n + i] = tail[i]
  <2> SUFFICES ASSUME NEW i \in 1..m PROVE keys[n + i] = tail[i]
    OBVIOUS
  <2> DEFINE part == SubSeq(keys, n + 1, n + m)
  <2>1. n + 1 \in Nat /\ n + m \in Nat /\ 1 <= n + 1 /\ n + m <= Len(keys)
    BY <1>1, <1>2 DEF L
  <2>2. part[i] = keys[n + 1 + i - 1]
    BY <1>1, <1>2, <2>1
  <2>3. n + 1 + i - 1 = n + i
    BY <1>1, <1>2
  <2>4. part = tail
    BY <1>1
  <2> HIDE DEF part
  <2> QED
    BY <2>2, <2>3, <2>4
<1>8. /\ Len(Ia!Rest(keys, eq)) = L - n
      /\ \A i \in 1..(L - n) : Ia!Rest(keys, eq)[i] = keys[n + i]
  <2>1. n \in 0..Len(keys)
    BY <1>1, <1>2 DEF L
  <2> QED
    <3>1. (\A i \in 1..n : keys[i].field \in eq) /\ \A i \in (n + 1)..Len(keys) : keys[i].field \notin eq
      BY <1>5, <1>6 DEF L
    <3>2. keys \in Seq(Keys(D))
      BY <1>2
    <3>3. /\ Len(Ia!Rest(keys, eq)) = Len(keys) - n
          /\ \A i \in 1..(Len(keys) - n) : Ia!Rest(keys, eq)[i] = keys[n + i]
      BY <2>1, <3>1, <3>2, RestAfter, SMTT(30)
    <3> QED
      BY <3>3 DEF L
<1>9. Ia!Starts(Ia!Rest(keys, eq), tail)
  <2>1. DOMAIN tail = 1..m
    BY DEF m
  <2>2. m <= L - n
    BY <1>1, <1>2
  <2>3. \A i \in 1..m : i \in 1..(L - n)
    BY <1>1, <1>2
  <2> QED
    BY <1>7, <1>8, <2>1, <2>2, <2>3 DEF Ia!Starts, m
<1> QED
  BY <1>1, <1>4, <1>6, <1>7, <1>9 DEF n, L, m, Fits

\* The same index read from its other end.
LEMMA FlipIs ==
    ASSUME NEW keys \in Ia!IndexKeys
    PROVE  /\ Ia!Flip(keys) \in Ia!IndexKeys /\ Len(Ia!Flip(keys)) = Len(keys)
           /\ \A i \in 1..Len(keys) : Ia!Flip(keys)[i].field = keys[i].field
<1> DEFINE D == {Ia!Asc, Ia!Desc, Ia!Hashed, Ia!Special}
           L == Len(keys)
           h == Ia!Flip(keys)
<1>1. /\ keys \in Seq(Keys(D))
      /\ \A i, j \in DOMAIN keys : keys[i].field = keys[j].field => i = j
  BY KeysAre
<1>2. L \in Nat /\ DOMAIN keys = 1..L /\ \A i \in 1..L : keys[i] \in Keys(D)
  <2> HIDE DEF D
  <2> QED
    BY <1>1
<1>3. DOMAIN h = 1..L /\ \A i \in 1..L :
         h[i] = IF Ia!Btree(keys[i]) THEN [keys[i] EXCEPT !.dir = -keys[i].dir] ELSE keys[i]
  <2> HIDE DEF L
  <2> QED
    BY <1>2 DEF Ia!Flip
<1> HIDE DEF L
<1>4. ASSUME NEW i \in 1..L PROVE h[i] \in Keys(D) /\ h[i].field = keys[i].field
  <2> DEFINE k == keys[i]
  <2>1. k \in Keys(D)
    BY <1>2
  <2>2. h[i] = IF Ia!Btree(k) THEN [k EXCEPT !.dir = -k.dir] ELSE k
    BY <1>3
  <2> HIDE DEF k, h
  <2>3. k.field \in STRING /\ k.dir \in D /\ k = [field |-> k.field, dir |-> k.dir]
    BY <2>1 DEF Keys
  <2>4. CASE Ia!Btree(k)
    <3>1. -k.dir \in D
      <4>1. k.dir = 1 \/ k.dir = -1
        BY <2>4 DEF Ia!Btree, Ia!Asc, Ia!Desc
      <4>2. 1 \in D /\ -1 \in D
        BY DEF Ia!Asc, Ia!Desc
      <4>3. CASE k.dir = 1
        BY <4>2, <4>3
      <4>4. CASE k.dir = -1
        BY <4>2, <4>4
      <4> QED
        BY <4>1, <4>3, <4>4
    <3>2. h[i] = [field |-> k.field, dir |-> -k.dir]
      BY <2>2, <2>3, <2>4
    <3> HIDE DEF D
    <3> QED
      BY <2>3, <3>1, <3>2 DEF Keys, k
  <2>5. CASE ~Ia!Btree(k)
    BY <2>1, <2>2, <2>5 DEF k
  <2> QED
    BY <2>4, <2>5
<1> HIDE DEF D
<1>5. h \in Seq(Keys(D)) /\ Len(h) = L
  <2> HIDE DEF h
  <2>1. h = [i \in 1..L |-> h[i]]
    BY <1>3 DEF h, Ia!Flip, L
  <2>2. h \in [1..L -> Keys(D)]
    BY <1>4, <2>1
  <2> QED
    BY <1>2, <2>2
<1> HIDE DEF h
<1>6. \A i, j \in DOMAIN h : h[i].field = h[j].field => i = j
  BY <1>1, <1>2, <1>3, <1>4
<1>7. h \in Ia!IndexKeys
  BY <1>5, <1>6, KeysAre DEF D
<1> QED
  BY <1>4, <1>5, <1>7 DEF h, L

LEMMA Joined ==
    ASSUME NEW K, NEW a \in Seq(K), NEW b \in Seq(K)
    PROVE  /\ a \o b \in Seq(K) /\ Len(a \o b) = Len(a) + Len(b)
           /\ \A i \in 1..Len(a) : (a \o b)[i] = a[i]
           /\ \A i \in 1..Len(b) : (a \o b)[Len(a) + i] = b[i]
OBVIOUS

\* The keys of a candidate: the equality field, what is left of the sort, and a
\* range field that neither has.
LEMMA CandidateIs ==
    ASSUME NEW p, IsProfile(p), Ia!AtMostOne(p.eq), Ia!AtMostOne(Ia!PlacedRange(p))
    PROVE  LET n == Ia!Cardinality(p.eq)
               rest == Ia!Rest(p.sort, p.eq)
               keys == Ia!CandidateKeys(p)
           IN  /\ keys \in Ia!SortKeys
               /\ n \in {0, 1} /\ n + Len(rest) <= Len(keys)
               /\ {keys[i].field : i \in 1..n} = p.eq
               /\ \A i \in 1..Len(rest) : keys[n + i] = rest[i]
               /\ Ia!FieldsOf(keys) \subseteq p.eq \cup p.ranges \cup Ia!FieldsOf(p.sort)
<1> DEFINE n == Ia!Cardinality(p.eq)
           rest == Ia!Rest(p.sort, p.eq)
           keys == Ia!CandidateKeys(p)
           D == {Ia!Asc, Ia!Desc}
           KeyOf(S) == IF S = {} THEN <<>> ELSE <<[field |-> CHOOSE f \in S : TRUE, dir |-> Ia!Asc]>>
           last == Ia!PlacedRange(p) \ (p.eq \cup Ia!FieldsOf(p.sort))
           a == KeyOf(p.eq)
           c == KeyOf(last)
<1>1. keys = a \o rest \o c
  BY DEF Ia!CandidateKeys
<1>2. /\ p.sort \in Seq(Keys(D))
      /\ \A i, j \in DOMAIN p.sort : p.sort[i].field = p.sort[j].field => i = j
  BY KeysAre DEF IsProfile
<1>3. /\ rest \in Seq(Keys(D))
      /\ \A i \in DOMAIN rest : /\ rest[i].field \notin p.eq
                                /\ \E k \in DOMAIN p.sort : rest[i] = p.sort[k]
      /\ \A i, j \in DOMAIN rest : rest[i].field = rest[j].field => i = j
  <2> HIDE DEF D
  <2> QED
    BY <1>2, RestOf
<1>4. ASSUME NEW S, S \subseteq STRING, Ia!AtMostOne(S)
      PROVE  /\ KeyOf(S) \in Seq(Keys(D)) /\ Len(KeyOf(S)) \in {0, 1}
             /\ (S = {} => Len(KeyOf(S)) = 0)
             /\ (S # {} => Len(KeyOf(S)) = 1 /\ S = {KeyOf(S)[1].field})
  <2>1. CASE S = {}
    BY <2>1
  <2>2. CASE S # {}
    <3> DEFINE f == CHOOSE f \in S : TRUE
    <3>1. f \in S
      BY <2>2
    <3>2. S = {f}
      BY <1>4, <3>1 DEF Ia!AtMostOne
    <3>3. KeyOf(S) = <<[field |-> f, dir |-> Ia!Asc]>>
      BY <2>2
    <3> HIDE DEF f
    <3>4. [field |-> f, dir |-> Ia!Asc] \in Keys(D)
      BY <1>4, <3>1 DEF Keys
    <3> HIDE DEF D
    <3> QED
      BY <2>2, <3>2, <3>3, <3>4
  <2> QED
    BY <2>1, <2>2
<1>5. last \subseteq STRING /\ Ia!AtMostOne(last) /\ last \subseteq p.ranges
      /\ p.eq \subseteq STRING /\ last \cap (p.eq \cup Ia!FieldsOf(p.sort)) = {}
  <2>1. Ia!PlacedRange(p) \subseteq p.ranges
    BY DEF Ia!PlacedRange
  <2> QED
    BY <2>1 DEF IsProfile, Ia!AtMostOne
<1> HIDE DEF KeyOf, last, D, rest
<1>6. /\ a \in Seq(Keys(D)) /\ Len(a) \in {0, 1}
      /\ (p.eq = {} => Len(a) = 0)
      /\ (p.eq # {} => Len(a) = 1 /\ p.eq = {a[1].field})
  BY <1>4, <1>5
<1>7. /\ c \in Seq(Keys(D)) /\ Len(c) \in {0, 1}
      /\ (last = {} => Len(c) = 0)
      /\ (last # {} => Len(c) = 1 /\ last = {c[1].field})
  BY <1>4, <1>5
<1> HIDE DEF a, c
<1>8. n = Len(a)
  <2>1. IsFiniteSet(p.eq)
    BY DEF IsProfile
  <2> QED
    BY <1>6, <2>1, SizeIs
<1> DEFINE m == Len(rest)
           N == Len(keys)
<1>9. /\ n \in {0, 1} /\ m \in Nat /\ Len(c) \in {0, 1} /\ N = n + m + Len(c)
      /\ keys \in Seq(Keys(D))
      /\ \A i \in 1..n : keys[i] = a[i]
      /\ \A i \in 1..m : keys[n + i] = rest[i]
      /\ \A i \in 1..Len(c) : keys[n + m + i] = c[i]
  <2> HIDE DEF keys
  <2> DEFINE ar == a \o rest
  <2>1. /\ ar \in Seq(Keys(D)) /\ Len(ar) = Len(a) + m
        /\ \A i \in 1..Len(a) : ar[i] = a[i]
        /\ \A i \in 1..m : ar[Len(a) + i] = rest[i]
    BY <1>3, <1>6, Joined
  <2>2. keys = ar \o c
    BY <1>1
  <2> HIDE DEF ar
  <2>3. /\ keys \in Seq(Keys(D)) /\ N = Len(ar) + Len(c)
        /\ \A i \in 1..Len(ar) : keys[i] = ar[i]
        /\ \A i \in 1..Len(c) : keys[Len(ar) + i] = c[i]
    <3>1. /\ ar \o c \in Seq(Keys(D)) /\ Len(ar \o c) = Len(ar) + Len(c)
          /\ \A i \in 1..Len(ar) : (ar \o c)[i] = ar[i]
          /\ \A i \in 1..Len(c) : (ar \o c)[Len(ar) + i] = c[i]
      <4> DEFINE K == Keys(D)
      <4>1. ar \in Seq(K) /\ c \in Seq(K)
        BY <1>7, <2>1
      <4> HIDE DEF K
      <4>2. /\ ar \o c \in Seq(K) /\ Len(ar \o c) = Len(ar) + Len(c)
            /\ \A i \in 1..Len(ar) : (ar \o c)[i] = ar[i]
            /\ \A i \in 1..Len(c) : (ar \o c)[Len(ar) + i] = c[i]
        BY <4>1
      <4> QED
        BY <4>2 DEF K
    <3> QED
      BY <2>2, <3>1, Zenon DEF N
  <2>4. m \in Nat
    BY <1>3
  <2> HIDE DEF m, N
  <2>5. /\ n \in {0, 1} /\ Len(ar) = n + m
        /\ \A i \in 1..n : i \in 1..Len(ar) /\ i \in 1..Len(a)
        /\ \A i \in 1..m : n + i \in 1..Len(ar)
    BY <1>6, <1>8, <2>1, <2>4
  <2> HIDE DEF n
  <2>6. N = n + m + Len(c) /\ \A i \in 1..Len(c) : keys[n + m + i] = c[i]
    BY <2>3, <2>5
  <2>7. \A i \in 1..n : keys[i] = a[i]
    BY <2>1, <2>3, <2>5
  <2>8. \A i \in 1..m : keys[n + i] = rest[i]
    BY <1>8, <2>1, <2>3, <2>5 DEF n
  <2> QED
    BY <1>7, <2>3, <2>4, <2>5, <2>6, <2>7, <2>8
<1> HIDE DEF n, keys
<1>10. {keys[i].field : i \in 1..n} = p.eq
  <2>1. CASE n = 0
    BY <1>6, <1>8, <2>1
  <2>2. CASE n = 1
    <3>1. 1..n = {1}
      BY <2>2
    <3>2. keys[1] = a[1] /\ p.eq = {a[1].field}
      BY <1>6, <1>8, <1>9, <2>2
    <3> QED
      BY <3>1, <3>2
  <2> QED
    BY <1>9, <2>1, <2>2
\* Which part a key is of.
<1> DEFINE IsEq(i)   == i = 1 /\ n = 1 /\ keys[i].field \in p.eq
           IsSort(i) == i - n \in DOMAIN rest /\ keys[i] = rest[i - n]
           IsRange(i) == i = N /\ keys[i].field \in last
<1>11. ASSUME NEW i \in 1..N PROVE IsEq(i) \/ IsSort(i) \/ IsRange(i)
  <2> HIDE DEF N
  <2>1. N \in Nat /\ DOMAIN rest = 1..m
    BY <1>3, <1>9
  <2> HIDE DEF m
  <2>2. \/ i \in 1..n
        \/ i - n \in 1..m
        \/ Len(c) = 1 /\ i = n + m + 1 /\ i = N
    <3> DEFINE q == Len(c)
    <3>1. n \in {0, 1} /\ q \in {0, 1} /\ m \in Nat /\ N = n + m + q
      BY <1>9
    <3> HIDE DEF q
    <3>2. i \in Int /\ 1 <= i /\ i <= N
      BY <2>1
    <3>3. i <= n \/ (n < i /\ i <= n + m) \/ (q = 1 /\ i = n + m + 1 /\ i = N)
      BY <3>1, <3>2
    <3>4. i <= n => i \in 1..n
      BY <3>1, <3>2
    <3>5. n < i /\ i <= n + m => i - n \in 1..m
      BY <3>1, <3>2
    <3> QED
      BY <3>3, <3>4, <3>5 DEF q
  <2>3. CASE i \in 1..n
    <3>1. i = 1 /\ n = 1
      BY <1>9, <2>3
    <3> QED
      BY <1>6, <1>8, <1>9, <3>1
  <2>4. CASE i - n \in 1..m
    <3>1. n + (i - n) = i
      BY <1>9, <2>1
    <3> QED
      BY <1>9, <2>1, <2>4, <3>1
  <2>5. CASE Len(c) = 1 /\ i = n + m + 1 /\ i = N
    <3>1. 1 \in 1..Len(c) /\ last # {}
      BY <1>7, <2>5
    <3> QED
      BY <1>7, <1>9, <2>5, <3>1
  <2> QED
    BY <2>2, <2>3, <2>4, <2>5
<1>12. \A i : IsSort(i) => keys[i].field \notin p.eq /\ keys[i].field \in Ia!FieldsOf(p.sort)
  BY <1>3 DEF Ia!FieldsOf
<1>13. DOMAIN keys = 1..N
  BY <1>9
<1>14. Ia!FieldsOf(keys) \subseteq p.eq \cup p.ranges \cup Ia!FieldsOf(p.sort)
  <2>1. ASSUME NEW i \in DOMAIN keys PROVE keys[i].field \in p.eq \cup p.ranges \cup Ia!FieldsOf(p.sort)
    BY <1>5, <1>11, <1>12, <1>13
  <2> QED
    BY <2>1 DEF Ia!FieldsOf
<1>15. ASSUME NEW i \in DOMAIN keys, NEW j \in DOMAIN keys, keys[i].field = keys[j].field
       PROVE  i = j
  <2>1. (IsEq(i) \/ IsSort(i) \/ IsRange(i)) /\ (IsEq(j) \/ IsSort(j) \/ IsRange(j))
    BY <1>11, <1>13
  <2>2. CASE IsSort(i) /\ IsSort(j)
    <3>1. i - n = j - n
      BY <1>3, <1>15, <2>2
    <3>2. i \in Int /\ j \in Int /\ n \in Int
      BY <1>9, <1>13
    <3> QED
      BY <3>1, <3>2
  <2>3. CASE ~(IsSort(i) /\ IsSort(j))
    BY <1>5, <1>12, <1>15, <2>1, <2>3
  <2> QED
    BY <2>2, <2>3
<1>16. keys \in Ia!SortKeys
  BY <1>9, <1>15, KeysAre DEF D
<1>17. n + m <= N
  BY <1>9
<1> QED
  BY <1>9, <1>10, <1>14, <1>16, <1>17 DEF n, keys, rest

LEMMA FirstFields ==
    ASSUME NEW keys \in Ia!IndexKeys, NEW n \in 0..Len(keys)
    PROVE  Ia!FieldsOf(SubSeq(keys, 1, n)) = {keys[i].field : i \in 1..n}
<1> DEFINE first == SubSeq(keys, 1, n)
           D == {Ia!Asc, Ia!Desc, Ia!Hashed, Ia!Special}
<1>1. keys \in Seq(Keys(D))
  BY KeysAre
<1> HIDE DEF D
<1>2. DOMAIN first = 1..n /\ \A i \in 1..n : first[i] = keys[i]
  <2>1. 1 \in Nat /\ 1 <= n + 1 /\ n <= Len(keys) /\ n \in Nat
    BY <1>1
  <2> QED
    BY <1>1, <2>1
<1> HIDE DEF first
<1>3. Ia!FieldsOf(first) = {first[i].field : i \in 1..n}
  BY <1>2 DEF Ia!FieldsOf
<1> QED
  BY <1>2, <1>3 DEF first

LEMMA StartsOn ==
    ASSUME NEW a, NEW b, NEW c, Ia!Starts(a, b), Ia!Starts(b, c),
           Len(a) \in Nat, Len(b) \in Nat, Len(c) \in Nat,
           DOMAIN b = 1..Len(b), DOMAIN c = 1..Len(c)
    PROVE  Ia!Starts(a, c)
<1>1. /\ Len(b) <= Len(a) /\ \A i \in DOMAIN b : a[i] = b[i]
      /\ Len(c) <= Len(b) /\ \A i \in DOMAIN c : b[i] = c[i]
  BY DEF Ia!Starts
<1>2. Len(c) <= Len(a)
  BY <1>1
<1>3. \A i \in DOMAIN c : i \in DOMAIN b
  BY <1>1
<1> QED
  BY <1>1, <1>2, <1>3 DEF Ia!Starts

\* An index with the equality fields first and a tail that starts with what is left
\* of the sort gives the order, read from one end or the other.
LEMMA OrderProvided ==
    ASSUME NEW p, IsProfile(p), NEW keys \in Ia!IndexKeys,
           NEW tail \in Seq(Keys({Ia!Asc, Ia!Desc})),
           Ia!EitherWay(keys, p.eq, tail), Ia!Starts(tail, Ia!Rest(p.sort, p.eq))
    PROVE  /\ Ia!ProvidesOrder(keys, p.eq, p.sort)
           /\ Ia!Cardinality(p.eq) \in 0..Len(keys)
           /\ Ia!Cardinality(p.eq) + Len(tail) <= Len(keys)
           /\ Ia!FieldsOf(SubSeq(keys, 1, Ia!Cardinality(p.eq))) = p.eq
           /\ Len(tail) > 0 => keys[Ia!Cardinality(p.eq) + 1].field = tail[1].field
<1> DEFINE n == Ia!Cardinality(p.eq)
           rest == Ia!Rest(p.sort, p.eq)
           D == {Ia!Asc, Ia!Desc}
<1>1. /\ p.sort \in Seq(Keys(D))
      /\ \A i, j \in DOMAIN p.sort : p.sort[i].field = p.sort[j].field => i = j
  BY KeysAre DEF IsProfile
<1>2. rest \in Seq(Keys(D)) /\ tail \in Seq(Keys(D))
  <2> HIDE DEF D
  <2>1. rest \in Seq(Keys(D))
    BY <1>1, RestOf
  <2> QED
    BY <2>1 DEF D
<1>3. /\ Len(tail) \in Nat /\ DOMAIN tail = 1..Len(tail)
      /\ Len(rest) \in Nat /\ DOMAIN rest = 1..Len(rest)
  <2> HIDE DEF D, rest
  <2> QED
    BY <1>2
<1>4. ASSUME NEW k \in Ia!IndexKeys, Ia!Forward(k, p.eq, tail),
             Len(k) = Len(keys), \A i \in 1..Len(keys) : k[i].field = keys[i].field
      PROVE  /\ Ia!Starts(Ia!Rest(k, p.eq), rest)
             /\ n \in 0..Len(keys) /\ n + Len(tail) <= Len(keys)
             /\ Ia!FieldsOf(SubSeq(keys, 1, n)) = p.eq
             /\ Len(tail) > 0 => keys[n + 1].field = tail[1].field
  <2>1. /\ n \in Nat /\ n + Len(tail) <= Len(k)
        /\ {k[i].field : i \in 1..n} = p.eq
        /\ \A i \in 1..Len(tail) : k[n + i] = tail[i]
        /\ Ia!Starts(Ia!Rest(k, p.eq), tail)
    <3>1. IsFiniteSet(p.eq)
      BY DEF IsProfile
    <3>2. Ia!Forward(k, p.eq, tail)
      BY <1>4
    <3>3. Fits(k, p.eq, tail)
      BY <3>1, <3>2, ForwardIs
    <3> QED
      BY <3>3 DEF Fits
  <2>2. Len(Ia!Rest(k, p.eq)) \in Nat
    <3> DEFINE E == {Ia!Asc, Ia!Desc, Ia!Hashed, Ia!Special}
    <3>1. /\ k \in Seq(Keys(E))
          /\ \A i, j \in DOMAIN k : k[i].field = k[j].field => i = j
      BY KeysAre
    <3> HIDE DEF E
    <3>2. Ia!Rest(k, p.eq) \in Seq(Keys(E))
      BY <3>1, RestOf
    <3> QED
      BY <3>2
  <2>3. Ia!Starts(Ia!Rest(k, p.eq), rest)
    BY <1>3, <2>1, <2>2, StartsOn
  <2> HIDE DEF n, rest
  <2>4. Len(keys) \in Nat
    BY KeysAre
  <2>5. n \in 0..Len(keys) /\ n + Len(tail) <= Len(keys)
    BY <1>3, <1>4, <2>1, <2>4
  <2>6. \A i \in 1..n : k[i].field = keys[i].field
    BY <1>4, <2>1, <2>4, <2>5
  <2>7. Ia!FieldsOf(SubSeq(keys, 1, n)) = p.eq
    <3>1. Ia!FieldsOf(SubSeq(keys, 1, n)) = {keys[i].field : i \in 1..n}
      BY <2>5, FirstFields
    <3>2. {keys[i].field : i \in 1..n} = {k[i].field : i \in 1..n}
      BY <2>6
    <3>3. {k[i].field : i \in 1..n} = p.eq
      BY <2>1
    <3> QED
      BY <3>1, <3>2, <3>3, Zenon
  <2>8. Len(tail) > 0 => keys[n + 1].field = tail[1].field
    <3> SUFFICES ASSUME Len(tail) > 0 PROVE keys[n + 1].field = tail[1].field
      OBVIOUS
    <3>1. 1 \in 1..Len(tail) /\ n + 1 \in 1..Len(keys)
      BY <1>3, <2>1, <2>4, <2>5
    <3> QED
      BY <1>4, <2>1, <3>1
  <2> QED
    BY <2>3, <2>5, <2>7, <2>8
<1>5. CASE Ia!Forward(keys, p.eq, tail)
  <2>1. Ia!Starts(Ia!Rest(keys, p.eq), rest)
    BY <1>4, <1>5
  <2> QED
    BY <1>4, <1>5, <2>1 DEF Ia!ProvidesOrder
<1>6. CASE Ia!Forward(Ia!Flip(keys), p.eq, tail)
  <2> DEFINE k == Ia!Flip(keys)
  <2>1. k \in Ia!IndexKeys /\ Len(k) = Len(keys) /\ \A i \in 1..Len(keys) : k[i].field = keys[i].field
    BY FlipIs
  <2>2. Ia!Forward(k, p.eq, tail)
    BY <1>6
  <2>3. Ia!Starts(Ia!Rest(k, p.eq), rest) => Ia!ProvidesOrder(keys, p.eq, p.sort)
    BY DEF Ia!ProvidesOrder
  <2> HIDE DEF k
  <2> QED
    BY <1>4, <2>1, <2>2, <2>3
<1> QED
  BY <1>5, <1>6 DEF Ia!EitherWay

\* What a plan says of its query.
LEMMA PlanIs ==
    ASSUME NEW p
    PROVE  LET plan == Ia!DeriveCandidate(p)
           IN  /\ plan.eq = p.eq
               /\ plan.determined => /\ Ia!AtMostOne(p.eq) /\ Ia!AtMostOne(Ia!PlacedRange(p))
                                     /\ plan.keys = Ia!CandidateKeys(p)
                                     /\ plan.reason = "equality_sort_range"
               /\ plan.reason = "equality_order_undetermined" => ~plan.determined /\ p.eq # {}
<1>1. Ia!Reason(p) = "equality_sort_range" => ~Ia!MultipleRanges(p) /\ Ia!AtMostOne(p.eq)
  BY DEF Ia!Reason, Ia!EqualityOrdered
<1>2. Ia!Reason(p) = "equality_order_undetermined" => ~Ia!AtMostOne(p.eq)
  BY DEF Ia!Reason, Ia!EqualityOrdered
<1>3. ~Ia!MultipleRanges(p) => Ia!AtMostOne(Ia!PlacedRange(p))
  BY DEF Ia!MultipleRanges, Ia!PlacedRange
<1>4. ~Ia!AtMostOne(p.eq) => p.eq # {}
  BY DEF Ia!AtMostOne
<1> QED
  BY <1>1, <1>2, <1>3, <1>4 DEF Ia!DeriveCandidate

\* The tail of a plan is what follows the equality field.
LEMMA TailIs ==
    ASSUME NEW p, IsProfile(p), Ia!DeriveCandidate(p).determined
    PROVE  LET plan == Ia!DeriveCandidate(p)
               tail == Ia!TailOf(plan, p)
               n == Ia!Cardinality(p.eq)
           IN  /\ tail \in Seq(Keys({Ia!Asc, Ia!Desc}))
               /\ n \in {0, 1} /\ Len(plan.keys) = n + Len(tail)
               /\ \A i \in 1..Len(tail) : tail[i] = plan.keys[n + i]
               /\ Ia!Starts(tail, Ia!Rest(p.sort, p.eq))
<1> DEFINE plan == Ia!DeriveCandidate(p)
           keys == plan.keys
           tail == Ia!TailOf(plan, p)
           n == Ia!Cardinality(p.eq)
           rest == Ia!Rest(p.sort, p.eq)
           D == {Ia!Asc, Ia!Desc}
           L == Len(keys)
<1>1. /\ keys \in Ia!SortKeys
      /\ n \in {0, 1} /\ n + Len(rest) <= L
      /\ \A i \in 1..Len(rest) : keys[n + i] = rest[i]
  BY CandidateIs, PlanIs
<1>2. tail = SubSeq(keys, n + 1, L)
  BY PlanIs DEF Ia!TailOf
<1> HIDE DEF plan
<1>3. keys \in Seq(Keys(D))
  BY <1>1, KeysAre
<1>4. /\ rest \in Seq(Keys(D))
  <2>1. /\ p.sort \in Seq(Keys(D))
        /\ \A i, j \in DOMAIN p.sort : p.sort[i].field = p.sort[j].field => i = j
    BY KeysAre DEF IsProfile
  <2> HIDE DEF D
  <2> QED
    BY <2>1, RestOf
<1> HIDE DEF D, keys, rest, tail, n
<1>5. L \in Nat /\ Len(rest) \in Nat /\ DOMAIN rest = 1..Len(rest) /\ n <= L
  <2>1. L \in Nat /\ Len(rest) \in Nat /\ DOMAIN rest = 1..Len(rest)
    BY <1>3, <1>4
  <2> HIDE DEF L
  <2> QED
    BY <1>1, <2>1
<1>6. /\ tail \in Seq(Keys(D)) /\ Len(tail) = L - n
      /\ \A i \in 1..(L - n) : tail[i] = keys[n + i]
  <2>1. n + 1 \in Nat /\ n + 1 >= 1 /\ L \in Nat /\ L <= Len(keys) /\ n \in Nat
    BY <1>1, <1>5
  <2>2. tail \in Seq(Keys(D)) /\ Len(tail) = IF n + 1 <= L THEN L - (n + 1) + 1 ELSE 0
    BY <1>2, <1>3, <2>1
  <2>3. \A i \in 1..(L - n) : tail[i] = keys[n + 1 + i - 1]
    BY <1>2, <1>3, <2>1
  <2> HIDE DEF L
  <2>4. Len(tail) = L - n
    BY <1>1, <1>5, <2>2
  <2>5. \A i \in 1..(L - n) : n + 1 + i - 1 = n + i
    BY <1>1, <1>5
  <2> QED
    BY <2>2, <2>3, <2>4, <2>5
<1>7. Ia!Starts(tail, rest)
  <2> HIDE DEF L
  <2>1. Len(rest) <= L - n /\ \A i \in 1..Len(rest) : i \in 1..(L - n)
    BY <1>1, <1>5
  <2> QED
    BY <1>1, <1>5, <1>6, <2>1 DEF Ia!Starts
<1>8. L = n + Len(tail) /\ Len(tail) = L - n
  <2> HIDE DEF L
  <2> QED
    BY <1>1, <1>5, <1>6
<1> QED
  BY <1>1, <1>6, <1>7, <1>8 DEF D, keys, rest, tail, n, plan, L

\* What is called suitable could serve, is visible and of simple collation, and
\* its filter, if any, is proven.
LEMMA SuitableIs ==
    ASSUME NEW idx, NEW plan, NEW p, Ia!EvaluateIndex(idx, plan, p) = "suitable"
    PROVE  /\ Ia!IndexCouldServe(idx, plan, p)
           /\ ~idx.hidden /\ idx.simple /\ Ia!PartialProven(idx, p)
BY DEF Ia!EvaluateIndex

\* A tail that an index serves by is a sequence of keys that starts with what is
\* left of the sort, also where no candidate is determined.
LEMMA ServingTail ==
    ASSUME NEW p, IsProfile(p), NEW idx, idx.keys \in Ia!IndexKeys,
           LET plan == Ia!DeriveCandidate(p)
           IN  /\ plan.determined \/ plan.reason = "equality_order_undetermined"
               /\ Ia!EitherWay(idx.keys, plan.eq, Ia!TailOf(plan, p))
    PROVE  LET tail == Ia!TailOf(Ia!DeriveCandidate(p), p)
           IN  /\ tail \in Seq(Keys({Ia!Asc, Ia!Desc}))
               /\ Ia!Starts(tail, Ia!Rest(p.sort, p.eq))
<1> DEFINE plan == Ia!DeriveCandidate(p)
           tail == Ia!TailOf(plan, p)
           D == {Ia!Asc, Ia!Desc}
<1>1. CASE plan.determined
  BY <1>1, TailIs
<1>2. CASE ~plan.determined
  <2>1. tail = p.sort /\ plan.eq = p.eq
    BY <1>2, PlanIs DEF Ia!TailOf
  <2>2. p.sort \in Seq(Keys(D))
    BY KeysAre DEF IsProfile
  <2> HIDE DEF D
  <2>3. /\ Ia!Forward(idx.keys, p.eq, p.sort) \/ Ia!Forward(Ia!Flip(idx.keys), p.eq, p.sort)
    BY <2>1 DEF Ia!EitherWay
  <2>4. PICK k \in Ia!IndexKeys : Ia!Forward(k, p.eq, p.sort)
    BY <2>3, FlipIs
  <2>5. /\ Ia!Cardinality(p.eq) \in Nat /\ Ia!Cardinality(p.eq) + Len(p.sort) <= Len(k)
        /\ \A i \in (Ia!Cardinality(p.eq) + 1)..Len(k) : k[i].field \notin p.eq
        /\ \A i \in 1..Len(p.sort) : k[Ia!Cardinality(p.eq) + i] = p.sort[i]
    <3>1. IsFiniteSet(p.eq)
      BY DEF IsProfile
    <3>2. p.sort \in Seq(Keys({Ia!Asc, Ia!Desc}))
      BY <2>2 DEF D
    <3>3. Fits(k, p.eq, p.sort)
      BY <2>4, <3>1, <3>2, ForwardIs
    <3> QED
      BY <3>3 DEF Fits
  <2>6. Len(k) \in Nat /\ Len(p.sort) \in Nat /\ DOMAIN p.sort = 1..Len(p.sort)
    <3>1. Len(k) \in Nat
      BY KeysAre
    <3> QED
      BY <2>2, <3>1
  <2>7. \A i \in 1..Len(p.sort) : p.sort[i].field \notin p.eq
    <3> DEFINE n == Ia!Cardinality(p.eq)
    <3> HIDE DEF n
    <3>1. \A i \in 1..Len(p.sort) : n + i \in (n + 1)..Len(k)
      BY <2>5, <2>6 DEF n
    <3> QED
      BY <2>5, <3>1 DEF n
  <2>8. /\ Len(Ia!Rest(p.sort, p.eq)) = Len(p.sort) - 0
        /\ \A i \in 1..(Len(p.sort) - 0) : Ia!Rest(p.sort, p.eq)[i] = p.sort[0 + i]
        /\ Ia!Rest(p.sort, p.eq) \in Seq(Keys(D))
    <3>1. /\ 0 \in 0..Len(p.sort)
          /\ \A i \in 1..0 : p.sort[i].field \in p.eq
          /\ \A i \in (0 + 1)..Len(p.sort) : p.sort[i].field \notin p.eq
      BY <2>6, <2>7
    <3> QED
      BY <2>2, <3>1, RestAfter
  <2>9. Ia!Starts(p.sort, Ia!Rest(p.sort, p.eq))
    <3> DEFINE rest == Ia!Rest(p.sort, p.eq)
    <3>1. DOMAIN rest = 1..Len(rest)
      BY <2>8
    <3> HIDE DEF rest
    <3>2. Len(p.sort) - 0 = Len(p.sort) /\ \A i \in 1..Len(p.sort) : 0 + i = i
      BY <2>6
    <3> QED
      BY <2>6, <2>8, <3>1, <3>2 DEF Ia!Starts, rest
  <2> QED
    BY <2>1, <2>2, <2>9 DEF D
<1> QED
  BY <1>1, <1>2

\* A suitable index answers the query, but for one hashed key of the only equality.
LEMMA SuitableAnswers ==
    ASSUME NEW p, IsProfile(p), NEW idx, idx.keys \in Ia!IndexKeys,
           Ia!EvaluateIndex(idx, Ia!DeriveCandidate(p), p) = "suitable"
    PROVE  /\ Ia!Answers(idx, p) \/ idx.keys[1].dir = Ia!Hashed
           /\ Ia!DecodedWhole(idx) => Ia!Includes(idx, p)
           /\ Ia!AdviceKind(FALSE, TRUE, <<idx>>, FALSE, p) = "existing_index"
<1> DEFINE plan == Ia!DeriveCandidate(p)
           tail == Ia!TailOf(plan, p)
           keys == idx.keys
           n == Ia!Cardinality(p.eq)
<1>1. /\ Ia!IndexCouldServe(idx, plan, p)
      /\ ~idx.hidden /\ idx.simple /\ Ia!PartialProven(idx, p)
  BY SuitableIs
<1>2. plan.determined \/ plan.reason = "equality_order_undetermined"
  BY <1>1 DEF Ia!IndexCouldServe
<1>3. /\ Ia!DecodedWhole(idx) => Ia!Includes(idx, p)
      /\ Ia!AdviceKind(FALSE, TRUE, <<idx>>, FALSE, p) = "existing_index"
  <2>1. <<idx>>[1] = idx /\ DOMAIN <<idx>> = {1}
    OBVIOUS
  <2>2. Ia!Suitable(<<idx>>, plan, p) # {}
    BY <2>1 DEF Ia!Suitable
  <2>3. Ia!DecodedWhole(idx) => Ia!Includes(idx, p)
    BY <1>1 DEF Ia!PartialProven, Ia!DecodedWhole, Ia!Includes
  <2> HIDE DEF plan
  <2> QED
    BY <1>2, <2>2, <2>3 DEF Ia!AdviceKind, plan
<1>4. CASE Ia!EitherWay(keys, plan.eq, tail) /\ (plan.determined => plan.keys # <<>>)
  <2>1. plan.eq = p.eq
    BY PlanIs
  <2>2. tail \in Seq(Keys({Ia!Asc, Ia!Desc})) /\ Ia!Starts(tail, Ia!Rest(p.sort, p.eq))
    BY <1>2, <1>4, ServingTail
  <2>3. /\ Ia!ProvidesOrder(keys, p.eq, p.sort)
        /\ n \in 0..Len(keys) /\ n + Len(tail) <= Len(keys)
        /\ Ia!FieldsOf(SubSeq(keys, 1, n)) = p.eq
        /\ Len(tail) > 0 => keys[n + 1].field = tail[1].field
    BY <1>4, <2>1, <2>2, OrderProvided
  <2>4. Len(keys) \in Nat /\ DOMAIN keys = 1..Len(keys) /\ Len(tail) \in Nat
    <3>1. keys \in Seq(Keys({Ia!Asc, Ia!Desc, Ia!Hashed, Ia!Special}))
      BY KeysAre
    <3> HIDE DEF keys, tail
    <3> QED
      BY <2>2, <3>1
  <2>5. \E i \in DOMAIN keys : keys[i].field \in p.eq \cup p.ranges \cup Ia!FieldsOf(p.sort)
    <3>1. CASE p.eq # {}
      <4>1. p.eq = {keys[i].field : i \in 1..n}
        BY <2>3, FirstFields
      <4>2. \A i \in 1..n : i \in DOMAIN keys
        BY <2>3, <2>4
      <4> QED
        BY <3>1, <4>1, <4>2
    <3>2. CASE p.eq = {}
      <4>1. plan.determined /\ plan.keys # <<>>
        BY <1>2, <1>4, <3>2, PlanIs
      <4>2. n = 0
        BY <3>2, SizeIs DEF IsProfile
      <4>3. Len(plan.keys) = n + Len(tail) /\ \A i \in 1..Len(tail) : tail[i] = plan.keys[n + i]
        BY <4>1, TailIs
      <4>4. plan.keys \in Ia!SortKeys
            /\ Ia!FieldsOf(plan.keys) \subseteq p.eq \cup p.ranges \cup Ia!FieldsOf(p.sort)
        BY <4>1, PlanIs, CandidateIs
      <4>5. plan.keys \in Seq(Keys({Ia!Asc, Ia!Desc}))
        BY <4>4, KeysAre
      <4> HIDE DEF plan, tail, n, keys
      <4>6. Len(plan.keys) > 0 /\ 1 \in DOMAIN plan.keys
        BY <4>1, <4>5
      <4>7. Len(tail) > 0 /\ 1 \in 1..Len(tail) /\ 1 \in DOMAIN keys
        BY <2>3, <2>4, <4>2, <4>3, <4>6
      <4>8. keys[1].field = plan.keys[1].field
        BY <2>3, <4>2, <4>3, <4>7
      <4>9. plan.keys[1].field \in Ia!FieldsOf(plan.keys)
        BY <4>6 DEF Ia!FieldsOf
      <4> QED
        BY <4>4, <4>7, <4>8, <4>9
    <3> QED
      BY <3>1, <3>2
  <2> HIDE DEF n
  <2>6. Ia!Answers(idx, p)
    BY <1>1, <2>3, <2>5 DEF Ia!Answers
  <2> QED
    BY <1>3, <2>6
<1>5. CASE idx.keys = <<[field |-> plan.keys[1].field, dir |-> Ia!Hashed]>>
  <2> HIDE DEF plan, keys
  <2>1. idx.keys[1].dir = Ia!Hashed
    BY <1>5
  <2> QED
    BY <1>3, <2>1
<1>6. \/ Ia!EitherWay(keys, plan.eq, tail) /\ (plan.determined => plan.keys # <<>>)
      \/ idx.keys = <<[field |-> plan.keys[1].field, dir |-> Ia!Hashed]>>
  <2>1. plan.reason = "equality_order_undetermined" => ~plan.determined
    BY PlanIs
  <2> HIDE DEF plan
  <2> QED
    BY <1>1, <2>1 DEF Ia!IndexCouldServe
<1> QED
  BY <1>4, <1>5, <1>6

\* The index of a candidate is suitable for its query.
LEMMA CandidateServes ==
    ASSUME NEW p, IsProfile(p), Ia!DeriveCandidate(p).determined, Ia!DeriveCandidate(p).keys # <<>>
    PROVE  LET plan == Ia!DeriveCandidate(p)
           IN  /\ Plain(plan.keys).keys \in Ia!IndexKeys
               /\ Ia!EvaluateIndex(Plain(plan.keys), plan, p) = "suitable"
               /\ Plain(plan.keys).keys[1].dir # Ia!Hashed
<1> DEFINE plan == Ia!DeriveCandidate(p)
           keys == plan.keys
           tail == Ia!TailOf(plan, p)
           n == Ia!Cardinality(p.eq)
           D == {Ia!Asc, Ia!Desc}
           E == {Ia!Asc, Ia!Desc, Ia!Hashed, Ia!Special}
<1>1. /\ plan.eq = p.eq /\ plan.determined /\ plan.reason = "equality_sort_range"
      /\ keys \in Ia!SortKeys /\ {keys[i].field : i \in 1..n} = p.eq
  BY PlanIs, CandidateIs
<1>2. /\ tail \in Seq(Keys(D))
      /\ n \in {0, 1} /\ Len(keys) = n + Len(tail)
      /\ \A i \in 1..Len(tail) : tail[i] = keys[n + i]
  BY TailIs
<1>3. /\ keys \in Seq(Keys(D))
      /\ \A i, j \in DOMAIN keys : keys[i].field = keys[j].field => i = j
  BY <1>1, KeysAre
<1>4. Plain(keys).keys = keys /\ ~Plain(keys).hidden /\ Plain(keys).simple /\ ~Plain(keys).isPartial
      /\ Plain(keys).multikey = FALSE
  BY DEF Plain
<1> HIDE DEF keys
<1>5. keys \in Ia!IndexKeys
  <2>1. Keys(D) \subseteq Keys(E)
    BY DEF Keys
  <2> HIDE DEF D, E
  <2>2. keys \in Seq(Keys(E))
    BY <1>3, <2>1
  <2> QED
    BY <1>3, <2>2, KeysAre DEF E
<1>6. \A i \in 1..Len(keys) : Ia!Btree(keys[i])
  <2>1. \A i \in 1..Len(keys) : keys[i] \in Keys(D)
    <3> HIDE DEF D
    <3> QED
      BY <1>3
  <2> QED
    BY <2>1 DEF Ia!Btree, Keys
<1>7. Ia!Forward(keys, p.eq, tail)
  <2> HIDE DEF D, tail, plan
  <2>1. Len(keys) \in Nat /\ Len(tail) \in Nat
    BY <1>2, <1>3
  <2>2. Len(keys) >= n + Len(tail) /\ n \in 0..Len(keys)
    BY <1>2, <2>1
  <2>3. Ia!FieldsOf(SubSeq(keys, 1, n)) = p.eq
    BY <1>1, <1>5, <2>2, FirstFields
  <2>4. SubSeq(keys, n + 1, n + Len(tail)) = tail
    <3> DEFINE part == SubSeq(keys, n + 1, n + Len(tail))
    <3>1. n + 1 \in Nat /\ n + Len(tail) \in Nat /\ 1 <= n + 1 /\ n + Len(tail) <= Len(keys)
      BY <1>2, <2>1, <2>2
    <3>2. /\ part \in Seq(Keys(D))
          /\ Len(part) = IF n + 1 <= n + Len(tail) THEN n + Len(tail) - (n + 1) + 1 ELSE 0
          /\ \A i \in 1..Len(tail) : part[i] = keys[n + 1 + i - 1]
      BY <1>2, <1>3, <2>1, <3>1
    <3> HIDE DEF part
    <3>3. Len(part) = Len(tail)
      BY <1>2, <2>1, <3>2
    <3>4. \A i \in 1..Len(tail) : n + 1 + i - 1 = n + i
      BY <1>2, <2>1
    <3>5. \A i \in 1..Len(tail) : part[i] = tail[i]
      BY <1>2, <3>2, <3>4
    <3>6. part = tail
      <4>1. tail \in Seq(Keys(D)) /\ part \in Seq(Keys(D))
        BY <1>2, <3>2
      <4>2. /\ tail = [i \in 1..Len(tail) |-> tail[i]]
            /\ part = [i \in 1..Len(part) |-> part[i]]
        BY <4>1
      <4> QED
        BY <3>3, <3>5, <4>2
    <3> QED
      BY <3>6 DEF part
  <2> QED
    BY <1>2, <1>6, <2>2, <2>3, <2>4 DEF Ia!Forward
<1>8. Ia!IndexCouldServe(Plain(keys), plan, p)
  <2>1. Ia!EitherWay(Plain(keys).keys, plan.eq, tail)
    BY <1>1, <1>4, <1>7 DEF Ia!EitherWay
  <2>2. plan.determined /\ plan.keys # <<>>
    BY <1>1
  <2> HIDE DEF plan
  <2> QED
    BY <2>1, <2>2 DEF Ia!IndexCouldServe
<1>9. Ia!EvaluateIndex(Plain(keys), plan, p) = "suitable"
  <2>1. Ia!PartialProven(Plain(keys), p)
    BY <1>4 DEF Ia!PartialProven
  <2>2. ~Ia!MultikeyBlocks(Plain(keys), plan)
    BY <1>4 DEF Ia!MultikeyBlocks
  <2> HIDE DEF plan
  <2> QED
    BY <1>4, <1>8, <2>1, <2>2 DEF Ia!EvaluateIndex
<1>10. keys[1].dir # Ia!Hashed
  <2>1. 1 \in 1..Len(keys)
    <3> HIDE DEF D
    <3>1. keys # <<>>
      BY DEF keys
    <3> QED
      BY <1>3, <3>1
  <2> QED
    BY <1>6, <2>1 DEF Ia!Btree, Ia!Asc, Ia!Desc, Ia!Hashed
<1> QED
  BY <1>4, <1>5, <1>9, <1>10 DEF keys

\* What is asked of the advice is the profile of one of Queries.
AdviceAsked ==
    algorithm = "advice" => \E q \in Queries : input = Ia!ProfileQuery(q.filter, q.sort, q.ordered)

LEMMA AdviceAskedHolds == Spec => []AdviceAsked
<1>1. Init => AdviceAsked
  BY DEF Init, AdviceAsked
<1>2. AdviceAsked /\ [Next]_questionVars => AdviceAsked'
  <2> SUFFICES ASSUME AdviceAsked, Next PROVE AdviceAsked'
    BY DEF AdviceAsked, questionVars
  <2>1. CASE TrendStep
    BY <2>1 DEF TrendStep, AdviceAsked
  <2>2. CASE AskAdvice
    BY <2>2 DEF AskAdvice, Ask, AdviceAsked
  <2>3. CASE AskVerdict \/ AskBaseline \/ AskChanges \/ AskValues \/ AskSelection \/ AskSignals
    BY <2>3 DEF AskVerdict, AskBaseline, AskChanges, AskValues, AskSelection, AskSignals, Ask, AdviceAsked
  <2>4. CASE AskRating \/ AskFinding \/ AskComparison
    BY <2>4 DEF AskRating, AskFinding, AskComparison, Ask, AdviceAsked
  <2> QED
    BY <2>1, <2>2, <2>3, <2>4 DEF Next
<1> QED
  BY <1>1, <1>2, PTL DEF Spec

\* An index that is called suitable serves the query: it begins with the
\* equality fields, gives the order without a sort, may be used, and includes
\* the query if its filter was decoded whole; a candidate serves its query
\* itself, and the advice never proposes one where a suitable index is used
\* (deriveCandidate, keysServe, evaluateIndex): for all filters of known fields,
\* all sorts and all indexes without a key twice.
THEOREM AdviceTheorem == Spec => []SuitableServes
<1>1. AdviceAsked => SuitableServes
  <2> SUFFICES ASSUME AdviceAsked, algorithm = "advice" PROVE SuitableServes
    BY DEF SuitableServes
  <2>1. PICK q \in Queries : input = Ia!ProfileQuery(q.filter, q.sort, q.ordered)
    BY DEF AdviceAsked
  <2>2. IsProfile(input)
    BY <2>1, ProfileIs
  <2> DEFINE plan == Ia!DeriveCandidate(input)
  <2>3. ASSUME NEW idx \in Indexes, Ia!EvaluateIndex(idx, plan, input) = "suitable"
        PROVE  /\ Ia!Answers(idx, input) \/ idx.keys[1].dir = Ia!Hashed
               /\ Ia!DecodedWhole(idx) => Ia!Includes(idx, input)
               /\ Ia!AdviceKind(FALSE, TRUE, <<idx>>, FALSE, input) = "existing_index"
    <3>1. idx.keys \in Ia!IndexKeys
      BY QuestionAssumption
    <3> QED
      BY <2>2, <2>3, <3>1, SuitableAnswers
  <2>4. ASSUME plan.determined, plan.keys # <<>>
        PROVE  /\ Ia!EvaluateIndex(Plain(plan.keys), plan, input) = "suitable"
               /\ Ia!Answers(Plain(plan.keys), input)
    <3>1. /\ Plain(plan.keys).keys \in Ia!IndexKeys
          /\ Ia!EvaluateIndex(Plain(plan.keys), plan, input) = "suitable"
          /\ Plain(plan.keys).keys[1].dir # Ia!Hashed
      BY <2>2, <2>4, CandidateServes
    <3> QED
      BY <2>2, <3>1, SuitableAnswers
  <2> HIDE DEF plan
  <2> QED
    BY <2>3, <2>4 DEF SuitableServes, plan
<1> QED
  BY <1>1, AdviceAskedHolds, PTL

-----------------------------------------------------------------------------
(***************************************************************************)
(* The ratings and the verdicts, for all measures, scores and ranks: what  *)
(* NothingIsGuessed and TrendVerdictsSound check on small sets.            *)
(***************************************************************************)
TableRow == [score : Nat \cup {-1}, upper : BOOLEAN, status : STRING, rank : Nat, id : Int]

\* The order of the efficiency table is a strict weak one,
\* as sort.SliceStable asks for: no two rows are before each other, and a row
\* that is before another is before each third row or has that third row before
\* the other (SortEfficiencyRows), whatever the ranks and the ids.
THEOREM TableOrderTheorem ==
    ASSUME NEW a \in TableRow, NEW b \in TableRow, NEW c \in TableRow, Ef!RowBefore(a, b)
    PROVE  /\ ~Ef!RowBefore(b, a)
           /\ Ef!RowBefore(a, c) \/ Ef!RowBefore(c, b)
<1> DEFINE Group(r) == IF r.score # -1 THEN 0 ELSE IF r.status = "not_applicable" THEN 2 ELSE 1
           Rank(r)  == IF r.rank = 0 THEN 1000 ELSE r.rank
           Impact(r, s) == Rank(r) < Rank(s) \/ (Rank(r) = Rank(s) /\ r.id < s.id)
<1>1. ASSUME NEW r \in TableRow
      PROVE  /\ r.score \in Int /\ r.upper \in BOOLEAN /\ Group(r) \in Int /\ Rank(r) \in Int
             /\ r.id \in Int /\ (r.score # -1 <=> Group(r) = 0)
  BY <1>1 DEF TableRow
<1>2. ASSUME NEW r \in TableRow, NEW s \in TableRow
      PROVE  Ef!RowBefore(r, s) <=>
                 \/ Group(r) < Group(s)
                 \/ Group(r) = Group(s) /\ r.score < s.score
                 \/ /\ Group(r) = Group(s) /\ r.score = s.score
                    /\ Group(r) = 0 /\ ~r.upper /\ s.upper
                 \/ /\ Group(r) = Group(s) /\ r.score = s.score
                    /\ Group(r) # 0 \/ r.upper = s.upper
                    /\ Impact(r, s)
  <2>1. CASE Group(r) # Group(s)
    BY <1>1, <2>1 DEF Ef!RowBefore
  <2>2. CASE Group(r) = Group(s) /\ r.score # s.score
    BY <1>1, <2>2 DEF Ef!RowBefore
  <2>3. CASE Group(r) = Group(s) /\ r.score = s.score /\ r.score # -1 /\ r.upper # s.upper
    BY <1>1, <2>3 DEF Ef!RowBefore
  <2>4. CASE Group(r) = Group(s) /\ r.score = s.score /\ ~(r.score # -1 /\ r.upper # s.upper)
    BY <1>1, <2>4 DEF Ef!RowBefore
  <2> QED
    BY <2>1, <2>2, <2>3, <2>4
<1>3. /\ \A r \in {a, b, c} : /\ r.score \in Int /\ r.upper \in BOOLEAN /\ Group(r) \in Int
                              /\ Rank(r) \in Int /\ r.id \in Int
  BY <1>1
<1> HIDE DEF Group, Rank
<1>4. ~Ef!RowBefore(b, a)
  BY <1>2, <1>3
<1>5. Ef!RowBefore(a, c) \/ Ef!RowBefore(c, b)
  BY <1>2, <1>3
<1> QED
  BY <1>4, <1>5

LatencyKinds == {"avg", "p95", "p99"}

\* A latency rating that is given with some latencies not measured is the one
\* that any values in their place would give (rateLatency), for all measures
\* and targets.
THEOREM TargetTheorem ==
    ASSUME NEW measured \in [LatencyKinds -> Nat \cup {-1}], NEW target \in [LatencyKinds -> Int],
           NEW full \in [LatencyKinds -> Nat],
           \A k \in LatencyKinds : measured[k] # -1 => full[k] = measured[k],
           Ef!rateLatency(measured, target) # "not_assessed"
    PROVE  Ef!rateLatency(full, target) = Ef!rateLatency(measured, target)
<1> DEFINE asked == {k \in LatencyKinds : target[k] > 0}
           Above(m) == \E k \in asked : m[k] > target[k]
<1>1. \A k \in LatencyKinds : measured[k] \in Int /\ target[k] \in Int /\ full[k] \in Nat
  OBVIOUS
<1>2. /\ asked # {} /\ (Above(measured) \/ \A k \in asked : measured[k] # -1)
      /\ Ef!rateLatency(measured, target) = IF Above(measured) THEN "above_target" ELSE "within_target"
  BY DEF Ef!rateLatency, LatencyKinds
<1>3. Above(full) <=> Above(measured)
  <2>1. ASSUME NEW k \in asked, measured[k] > target[k] PROVE full[k] > target[k]
    BY <1>1, <2>1
  <2>2. ASSUME \A k \in asked : measured[k] # -1, NEW k \in asked, full[k] > target[k]
        PROVE  measured[k] > target[k]
    BY <2>2
  <2> QED
    BY <1>2, <2>1, <2>2
<1>4. \A k \in asked : full[k] # -1
  BY <1>1
<1> QED
  BY <1>2, <1>3, <1>4 DEF Ef!rateLatency, LatencyKinds

\* What a comparison of two scores says is the opposite of what it says when the
\* runs change places (compareTrendEfficiency), whatever the scores.
THEOREM VerdictTheorem ==
    ASSUME NEW b, NEW c, b.score \in Int, c.score \in Int
    PROVE  Tc!CompareTrendEfficiency(<<c>>, <<b>>) = Opposite(Tc!CompareTrendEfficiency(<<b>>, <<c>>))
<1> DEFINE Verdict(x, y) == Tc!CompareTrendEfficiency(<<x>>, <<y>>)
           NotApplicable == "not_applicable" \in {b.status, c.status}
           Both == Tc!Assessed(b) /\ Tc!Assessed(c)
<1>1. CASE NotApplicable
  <2>1. Verdict(b, c) = "not_comparable" /\ Verdict(c, b) = "not_comparable"
    BY <1>1 DEF Tc!CompareTrendEfficiency
  <2> QED
    BY <2>1 DEF Opposite
<1>2. CASE ~NotApplicable /\ ~Both
  <2>1. Verdict(b, c) = "insufficient_evidence" /\ Verdict(c, b) = "insufficient_evidence"
    BY <1>2 DEF Tc!CompareTrendEfficiency
  <2> QED
    BY <2>1 DEF Opposite
<1>3. CASE ~NotApplicable /\ Both
  <2> DEFINE Said(d) == IF d >= 15 THEN "improved" ELSE IF -d >= 15 THEN "regressed" ELSE "no_material_change"
  <2>1. Verdict(b, c) = Said(c.score - b.score) /\ Verdict(c, b) = Said(b.score - c.score)
    BY <1>3 DEF Tc!CompareTrendEfficiency, Tc!TrendMaterialScoreDelta
  <2>2. Said(b.score - c.score) = Opposite(Said(c.score - b.score))
    BY DEF Opposite
  <2> QED
    BY <2>1, <2>2
<1> QED
  BY <1>1, <1>2, <1>3

LEMMA DivAtLeast ==
    ASSUME NEW x \in Nat, NEW y \in Nat \ {0}
    PROVE  x \div y >= 2000 <=> x >= 2000 * y
<1> DEFINE q == x \div y
<1>1. q \in Nat /\ y * q <= x /\ x < y * q + y
  OBVIOUS
<1>2. ASSUME q >= 2000 PROVE x >= 2000 * y
  <2>1. PICK d \in Nat : q = 2000 + d
    BY <1>1, <1>2
  <2>2. y * q = 2000 * y + y * d /\ y * d >= 0
    BY <2>1
  <2> QED
    BY <1>1, <2>2
<1>3. ASSUME ~(q >= 2000) PROVE ~(x >= 2000 * y)
  <2>1. PICK d \in Nat : q + 1 + d = 2000
    BY <1>1, <1>3
  <2>2. 2000 * y = y * q + y + y * d /\ y * d >= 0
    BY <2>1, <1>1
  <2> QED
    BY <1>1, <2>2
<1> QED
  BY <1>2, <1>3

\* The relative change from an average of y, as it is rounded, is material when
\* the change is at least 3999 / 20000 of it.
LEMMA RelativeAtLeast ==
    ASSUME NEW d \in Int, NEW y \in Nat \ {0}
    PROVE  Tc!AbsOf(Tc!Relative(d, y)) >= 2000 <=> 20000 * Tc!AbsOf(d) >= 3999 * y
<1> DEFINE n == Tc!AbsOf(d)
           half == (20000 * n + y) \div (2 * y)
<1>1. n \in Nat
  BY DEF Tc!AbsOf
<1>2. 20000 * n + y \in Nat /\ 2 * y \in Nat \ {0}
  BY <1>1
<1>3. half \in Nat /\ (half >= 2000 <=> 20000 * n + y >= 2000 * (2 * y))
  BY <1>2, DivAtLeast
<1>4. Tc!Relative(d, y) = IF d < 0 THEN -half ELSE half
  BY <1>1 DEF Tc!Relative
<1>5. Tc!AbsOf(Tc!Relative(d, y)) = half
  BY <1>3, <1>4 DEF Tc!AbsOf
<1> HIDE DEF half, n
<1> QED
  BY <1>1, <1>3, <1>5 DEF n

Latencies == [ops : Nat, avg : Nat, p95 : Nat \cup {-1}, samples : Nat]

\* An improvement of the latency is a regression when the runs change places
\* (compareTrendLatency), for all averages but zero; where the first run has a p95
\* of zero, whose change is not relative, there may be too little evidence, but
\* never an improvement or no change.
THEOREM LatencyVerdictTheorem ==
    ASSUME NEW b \in Latencies, NEW c \in Latencies, c.avg > 0,
           Tc!CompareTrendLatency(b, c) = "improved"
    PROVE  /\ Tc!CompareTrendLatency(c, b) \in {"regressed", "insufficient_evidence"}
           /\ b.p95 # 0 => Tc!CompareTrendLatency(c, b) = "regressed"
<1> DEFINE Against(x, y) == Tc!P95Material(x, y) /\ (y.avg > x.avg) # (y.p95 > x.p95)
           Enough == b.ops >= 30 /\ c.ops >= 30
<1>1. /\ b.ops \in Nat /\ b.avg \in Nat /\ b.p95 \in Int /\ b.samples \in Nat
      /\ c.ops \in Nat /\ c.avg \in Nat /\ c.p95 \in Int /\ c.samples \in Nat
      /\ b.p95 >= -1 /\ c.p95 >= -1
  BY DEF Latencies
<1>2. /\ Enough /\ b.avg > 0 /\ Tc!MaterialLatency(b.avg, c.avg) /\ ~Against(b, c)
      /\ ~(c.avg > b.avg)
  <2>1. Enough /\ b.avg > 0
    BY <1>1 DEF Tc!CompareTrendLatency, Tc!TrendMinOperations
  <2>2. Tc!CompareTrendLatency(b, c) =
            IF ~Tc!MaterialLatency(b.avg, c.avg) THEN "no_material_change"
            ELSE IF Against(b, c) THEN "insufficient_evidence"
            ELSE IF c.avg > b.avg THEN "regressed" ELSE "improved"
    BY <1>1, <2>1 DEF Tc!CompareTrendLatency, Tc!TrendMinOperations
  <2> HIDE DEF Against
  <2> QED
    BY <2>1, <2>2
<1>3. Tc!CompareTrendLatency(c, b) =
          IF ~Tc!MaterialLatency(c.avg, b.avg) THEN "no_material_change"
          ELSE IF Against(c, b) THEN "insufficient_evidence"
          ELSE IF b.avg > c.avg THEN "regressed" ELSE "improved"
  BY <1>1, <1>2 DEF Tc!CompareTrendLatency, Tc!TrendMinOperations
<1>4. b.avg > c.avg /\ Tc!MaterialLatency(c.avg, b.avg)
  <2>1. /\ Tc!AbsOf(c.avg - b.avg) >= 10
        /\ Tc!AbsOf(Tc!Relative(c.avg - b.avg, b.avg)) >= 2000
    BY <1>2 DEF Tc!MaterialLatency, Tc!LatencyMaterialAbs, Tc!LatencyMaterialRelative
  <2>2. Tc!AbsOf(c.avg - b.avg) = b.avg - c.avg
    BY <1>1, <1>2 DEF Tc!AbsOf
  <2>3. b.avg > c.avg /\ Tc!AbsOf(b.avg - c.avg) = b.avg - c.avg
    BY <1>1, <2>1, <2>2 DEF Tc!AbsOf
  <2>4. 20000 * (b.avg - c.avg) >= 3999 * b.avg
    BY <1>1, <1>2, <2>1, <2>2, RelativeAtLeast
  <2>5. 20000 * (b.avg - c.avg) >= 3999 * c.avg
    BY <1>1, <2>3, <2>4
  <2>6. Tc!AbsOf(Tc!Relative(b.avg - c.avg, c.avg)) >= 2000
    BY <1>1, <2>3, <2>5, RelativeAtLeast
  <2> QED
    BY <2>1, <2>2, <2>3, <2>6 DEF Tc!MaterialLatency, Tc!LatencyMaterialAbs, Tc!LatencyMaterialRelative
<1>5. ASSUME b.p95 # 0 PROVE ~Against(c, b)
  <2> SUFFICES ASSUME Against(c, b) PROVE FALSE
    OBVIOUS
  <2>1. /\ c.p95 # -1 /\ b.p95 # -1 /\ c.samples >= 20 /\ b.samples >= 20
        /\ Tc!AbsOf(b.p95 - c.p95) >= 10 /\ 10000 * Tc!AbsOf(b.p95 - c.p95) >= 2000 * c.p95
        /\ ~(b.p95 > c.p95)
    BY <1>1, <1>4 DEF Tc!P95Material, Tc!LatencyMaterialAbs, Tc!LatencyMaterialRelative,
                      Tc!MinImpactPercentileSamples
  <2>2. /\ Tc!AbsOf(b.p95 - c.p95) = c.p95 - b.p95 /\ Tc!AbsOf(c.p95 - b.p95) = c.p95 - b.p95
    BY <1>1, <2>1 DEF Tc!AbsOf
  <2>3. b.p95 > 0 /\ c.p95 > b.p95 /\ 10000 * (c.p95 - b.p95) >= 2000 * b.p95
    BY <1>1, <1>5, <2>1, <2>2
  <2>4. Against(b, c)
    BY <1>1, <1>4, <2>1, <2>2, <2>3 DEF Tc!P95Material, Tc!LatencyMaterialAbs,
                                        Tc!LatencyMaterialRelative, Tc!MinImpactPercentileSamples
  <2> QED
    BY <1>2, <2>4
<1> HIDE DEF Against
<1> QED
  BY <1>3, <1>4, <1>5

\* An overhead that is reported although the statistics of some samples are
\* missing is the one that all of them would show, or a sort that is seen to
\* spill with them (classifyExecutionOverhead): the samples show a spill only
\* with statistics, and a sort without.
THEOREM OverheadTheorem ==
    ASSUME NEW op, NEW part, NEW full, DOMAIN part = DOMAIN full,
           \A i \in DOMAIN full :
               /\ part[i].status = full[i].status /\ part[i].d.sort = full[i].d.sort
               /\ full[i].d.stats /\ (part[i].d.disk => full[i].d.disk)
               /\ part[i].d.stats => part[i].d.disk = full[i].d.disk,
           \A i \in DOMAIN full : /\ part[i].d.disk \in BOOLEAN /\ full[i].d.disk \in BOOLEAN
                                  /\ part[i].d.stats \in BOOLEAN /\ full[i].d.sort \in BOOLEAN
    PROVE  LET said  == Ef!classifyExecutionOverhead(op, part)
               truth == Ef!classifyExecutionOverhead(op, full)
           IN  \/ said \in {"not_assessed", truth}
               \/ said = "in_memory_sort" /\ truth = "spilled_to_disk"
<1> DEFINE explained == {i \in DOMAIN full : full[i].status = "explained"}
           Said(x) == IF op \in Ef!insertOps THEN "not_applicable"
                      ELSE IF explained = {} THEN "not_assessed"
                      ELSE IF \E i \in explained : x[i].d.disk THEN "spilled_to_disk"
                      ELSE IF \E i \in explained : full[i].d.sort THEN "in_memory_sort"
                      ELSE IF \E i \in explained : ~x[i].d.stats THEN "not_assessed"
                      ELSE "none_observed"
<1>1. {i \in DOMAIN part : part[i].status = "explained"} = explained
  OBVIOUS
<1>2. Ef!classifyExecutionOverhead(op, full) = Said(full)
  BY DEF Ef!classifyExecutionOverhead
<1>3. Ef!classifyExecutionOverhead(op, part) = Said(part)
  <2>1. (\E i \in explained : part[i].d.sort) <=> (\E i \in explained : full[i].d.sort)
    OBVIOUS
  <2> QED
    BY <1>1, <2>1 DEF Ef!classifyExecutionOverhead
<1>4. (\E i \in explained : part[i].d.disk) => (\E i \in explained : full[i].d.disk)
  OBVIOUS
<1>5. (\A i \in explained : part[i].d.stats)
          => ((\E i \in explained : part[i].d.disk) <=> (\E i \in explained : full[i].d.disk))
  OBVIOUS
<1>6. \A i \in explained : full[i].d.stats
  OBVIOUS
<1> HIDE DEF explained
<1> QED
  BY <1>2, <1>3, <1>4, <1>5, <1>6

-----------------------------------------------------------------------------
(* The score of one sample. *)

Cost == {-1, 0, 33, 67, 100}
LEMMA CostIs ==
    ASSUME NEW examined, NEW result, NEW missing
    PROVE  Ef!RatioCost(examined, result, missing) \in Cost
BY DEF Ef!RatioCost, Ef!ratioDimension, Ef!ratioPenalty, Cost

LEMMA LargestOfThree ==
    ASSUME NEW a \in Int, NEW b \in Int, NEW c \in Int
    PROVE  LET m == Ef!Max({<<a, b, c>>[i] : i \in 1..3})
           IN  m \in {a, b, c} /\ m >= a /\ m >= b /\ m >= c
<1>1. {<<a, b, c>>[i] : i \in 1..3} = {a, b, c}
  <2>1. 1..3 = {1, 2, 3}
    OBVIOUS
  <2> QED
    BY <2>1
<1>2. \E x \in {a, b, c} : \A y \in {a, b, c} : x >= y
  <2>1. CASE a >= b /\ a >= c
    BY <2>1
  <2>2. CASE b >= a /\ b >= c
    BY <2>2
  <2>3. CASE c >= a /\ c >= b
    BY <2>3
  <2> QED
    BY <2>1, <2>2, <2>3
<1> DEFINE m == CHOOSE x \in {a, b, c} : \A y \in {a, b, c} : x >= y
<1>3. m \in {a, b, c} /\ \A y \in {a, b, c} : m >= y
  BY <1>2
<1>4. Ef!Max({<<a, b, c>>[i] : i \in 1..3}) = m
  BY <1>1 DEF Ef!Max
<1> HIDE DEF m
<1> QED
  BY <1>3, <1>4

\* The costs of a sample, and what is said of it by the largest of them.
CostsOf(s, op) ==
    LET m       == s.d.metrics
        result  == Ef!efficiencyResultCounter(m, op)
        missing == ~s.d.stats \/ m.unsupported # "" \/ ~Ef!Known(result)
    IN  << Ef!RatioCost(m.docs, result, missing), Ef!RatioCost(m.keys, result, missing),
           IF s.d.collscan /\ ~s.d.unfiltered THEN 62 ELSE 0 >>

WorstCost(costs)   == Ef!Max({costs[i] : i \in 1..3})
CostUnknown(costs) == \E i \in 1..3 : costs[i] = -1

LEMMA SampleScore ==
    ASSUME NEW s, NEW op, s.status = "explained"
    PROVE  /\ Ef!scoreEfficiencySample(s, op).score = 100 - WorstCost(CostsOf(s, op))
           /\ Ef!scoreEfficiencySample(s, op).upper = CostUnknown(CostsOf(s, op))
           /\ Ef!scoreEfficiencySample(s, op).band =
                  IF CostUnknown(CostsOf(s, op)) THEN Ef!upperBoundBand(100 - WorstCost(CostsOf(s, op)))
                  ELSE Ef!efficiencyBand(100 - WorstCost(CostsOf(s, op)))
<1> DEFINE costs  == CostsOf(s, op)
           worst  == WorstCost(costs)
           result == Ef!efficiencyResultCounter(s.d.metrics, op)
<1>1. Ef!scoreEfficiencySample(s, op) = Ef!RatingByCosts(costs, worst, s, result)
  BY DEF Ef!scoreEfficiencySample, CostsOf, WorstCost, Ef!efficiencyCollscanCost
<1> HIDE DEF costs, worst, result
<1>2. /\ Ef!RatingByCosts(costs, worst, s, result).score = 100 - worst
      /\ Ef!RatingByCosts(costs, worst, s, result).upper = CostUnknown(costs)
      /\ Ef!RatingByCosts(costs, worst, s, result).band =
              IF CostUnknown(costs) THEN Ef!upperBoundBand(100 - worst)
              ELSE Ef!efficiencyBand(100 - worst)
  BY DEF Ef!RatingByCosts, Ef!SelectInSeq, CostUnknown
<1> QED
  BY <1>1, <1>2 DEF costs, worst

\* What is left out of a report: each counter is the one of the whole report or
\* unknown.
LeftOut(part, full, op) ==
    /\ part.status = "explained" /\ full.status = "explained"
    /\ part.d.collscan = full.d.collscan /\ part.d.unfiltered = full.d.unfiltered
    /\ part.d.stats => full.d.stats
    /\ part.d.metrics.unsupported = "" => full.d.metrics.unsupported = ""
    /\ ~Ef!Known(part.d.metrics.docs) \/ part.d.metrics.docs = full.d.metrics.docs
    /\ ~Ef!Known(part.d.metrics.keys) \/ part.d.metrics.keys = full.d.metrics.keys
    /\ LET result(s) == Ef!efficiencyResultCounter(s.d.metrics, op)
       IN  ~Ef!Known(result(part)) \/ result(part) = result(full)

\* A sample of which some counters are not known is not rated worse than it would
\* be with all of them, and the same when no cost is unknown; a bound is never
\* called efficient, and the band that it names is not too bad
\* (scoreEfficiencySample), for all values of the counters.
THEOREM BoundTheorem ==
    ASSUME NEW op, NEW part, NEW full, LeftOut(part, full, op)
    PROVE  LET rated == Ef!scoreEfficiencySample(part, op)
               whole == Ef!scoreEfficiencySample(full, op)
           IN  /\ rated.score >= whole.score
               /\ ~rated.upper => rated.score = whole.score /\ rated.band = whole.band
               /\ rated.upper =>
                     /\ rated.band # "efficient"
                     /\ rated.band = "inefficient" => whole.band = "inefficient"
                     /\ rated.band = "moderate" => whole.band # "efficient"
<1> DEFINE p == CostsOf(part, op)
           f == CostsOf(full, op)
           result(s) == Ef!efficiencyResultCounter(s.d.metrics, op)
           missing(s) == ~s.d.stats \/ s.d.metrics.unsupported # "" \/ ~Ef!Known(result(s))
<1>1. /\ p = <<p[1], p[2], p[3]>> /\ f = <<f[1], f[2], f[3]>>
      /\ p[1] \in Cost /\ p[2] \in Cost /\ f[1] \in Cost /\ f[2] \in Cost
      /\ p[3] = f[3] /\ f[3] \in {0, 62}
  BY CostIs DEF CostsOf, LeftOut
<1>2. ~missing(part) => ~missing(full) /\ result(part) = result(full)
  BY DEF LeftOut
<1>3. p[1] = -1 \/ p[1] = f[1]
  <2>1. CASE missing(part) \/ ~Ef!Known(part.d.metrics.docs)
    BY <2>1 DEF CostsOf, Ef!RatioCost, Ef!ratioDimension
  <2>2. CASE ~missing(part) /\ Ef!Known(part.d.metrics.docs)
    <3>1. part.d.metrics.docs = full.d.metrics.docs
      BY <2>2 DEF LeftOut
    <3> QED
      BY <1>2, <2>2, <3>1 DEF CostsOf
  <2> QED
    BY <2>1, <2>2
<1>4. p[2] = -1 \/ p[2] = f[2]
  <2>1. CASE missing(part) \/ ~Ef!Known(part.d.metrics.keys)
    BY <2>1 DEF CostsOf, Ef!RatioCost, Ef!ratioDimension
  <2>2. CASE ~missing(part) /\ Ef!Known(part.d.metrics.keys)
    <3>1. part.d.metrics.keys = full.d.metrics.keys
      BY <2>2 DEF LeftOut
    <3> QED
      BY <1>2, <2>2, <3>1 DEF CostsOf
  <2> QED
    BY <2>1, <2>2
<1>5. ASSUME NEW c, c = <<c[1], c[2], c[3]>>, c[1] \in Cost, c[2] \in Cost, c[3] \in {0, 62}
      PROVE  /\ WorstCost(c) \in {c[1], c[2], c[3]} /\ WorstCost(c) \in Int
             /\ WorstCost(c) >= c[1] /\ WorstCost(c) >= c[2] /\ WorstCost(c) >= c[3]
             /\ CostUnknown(c) <=> c[1] = -1 \/ c[2] = -1
  <2>1. c[1] \in Int /\ c[2] \in Int /\ c[3] \in Int
    BY <1>5 DEF Cost
  <2>2. LET m == Ef!Max({<<c[1], c[2], c[3]>>[i] : i \in 1..3})
        IN  m \in {c[1], c[2], c[3]} /\ m >= c[1] /\ m >= c[2] /\ m >= c[3]
    BY <2>1, LargestOfThree
  <2>3. 1..3 = {1, 2, 3}
    OBVIOUS
  <2>4. CostUnknown(c) <=> c[1] = -1 \/ c[2] = -1
    BY <1>5, <2>3 DEF CostUnknown
  <2> QED
    BY <1>5, <2>1, <2>2, <2>4 DEF WorstCost
<1> DEFINE rated == Ef!scoreEfficiencySample(part, op)
           whole == Ef!scoreEfficiencySample(full, op)
<1>6. /\ rated.score = 100 - WorstCost(p) /\ rated.upper = CostUnknown(p)
      /\ rated.band = IF CostUnknown(p) THEN Ef!upperBoundBand(100 - WorstCost(p))
                      ELSE Ef!efficiencyBand(100 - WorstCost(p))
      /\ whole.score = 100 - WorstCost(f) /\ whole.upper = CostUnknown(f)
      /\ whole.band = IF CostUnknown(f) THEN Ef!upperBoundBand(100 - WorstCost(f))
                      ELSE Ef!efficiencyBand(100 - WorstCost(f))
  <2>1. part.status = "explained" /\ full.status = "explained"
    BY DEF LeftOut
  <2>2. /\ rated.score = 100 - WorstCost(p) /\ rated.upper = CostUnknown(p)
        /\ rated.band = IF CostUnknown(p) THEN Ef!upperBoundBand(100 - WorstCost(p))
                        ELSE Ef!efficiencyBand(100 - WorstCost(p))
    BY <2>1, SampleScore
  <2>3. /\ whole.score = 100 - WorstCost(f) /\ whole.upper = CostUnknown(f)
        /\ whole.band = IF CostUnknown(f) THEN Ef!upperBoundBand(100 - WorstCost(f))
                        ELSE Ef!efficiencyBand(100 - WorstCost(f))
    BY <2>1, SampleScore
  <2> QED
    BY <2>2, <2>3
<1>7. /\ WorstCost(p) \in Int /\ WorstCost(f) \in Int /\ WorstCost(p) <= WorstCost(f)
      /\ ~CostUnknown(p) => WorstCost(p) = WorstCost(f) /\ ~CostUnknown(f)
  <2> HIDE DEF p, f
  <2>1. /\ WorstCost(p) \in {p[1], p[2], p[3]} /\ WorstCost(p) \in Int
        /\ WorstCost(p) >= p[1] /\ WorstCost(p) >= p[2] /\ WorstCost(p) >= p[3]
        /\ CostUnknown(p) <=> p[1] = -1 \/ p[2] = -1
    BY <1>1, <1>5
  <2>2. /\ WorstCost(f) \in {f[1], f[2], f[3]} /\ WorstCost(f) \in Int
        /\ WorstCost(f) >= f[1] /\ WorstCost(f) >= f[2] /\ WorstCost(f) >= f[3]
        /\ CostUnknown(f) <=> f[1] = -1 \/ f[2] = -1
    BY <1>1, <1>5
  <2> QED
    BY <1>1, <1>3, <1>4, <2>1, <2>2 DEF Cost
<1> HIDE DEF p, f, rated, whole
<1>8. rated.score >= whole.score /\ (~rated.upper => rated.score = whole.score /\ rated.band = whole.band)
  BY <1>6, <1>7
<1>9. ASSUME rated.upper
      PROVE  /\ rated.band # "efficient"
             /\ rated.band = "inefficient" => whole.band = "inefficient"
             /\ rated.band = "moderate" => whole.band # "efficient"
  BY <1>6, <1>7, <1>9 DEF Ef!upperBoundBand, Ef!efficiencyBand, Ef!efficiencyEfficientMin,
                          Ef!efficiencyModerateMin
<1> QED
  BY <1>8, <1>9 DEF rated, whole

=============================================================================
