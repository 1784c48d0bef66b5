----------------------------- MODULE ReplayProofs -----------------------------
(***************************************************************************)
(* Proofs about Replay, for every recording, number of workers, queue size *)
(* and set of faults: the types and the wait group's count, the order of   *)
(* what is sent, the status at the end, and the refinement of the contract.*)
(*                                                                         *)
(* The argument.  The reader hands the operations of the plan to the       *)
(* queues in the order of the file and a worker takes them in that order   *)
(* (OrderInv), so an operation the reader has passed was sent, was lost,   *)
(* is being handled or waits in the queue of its worker, as long as nothing*)
(* was cancelled (SeenInv).  A worker that lost an operation cancels the   *)
(* replay before it takes another one (CauseInv): when it looks at the     *)
(* context and the replay goes on, all its earlier operations were sent    *)
(* (TurnInv).  The wait group counts what is handled or waits (CountInv),  *)
(* so when it is zero and nothing was cancelled, all that the reader has   *)
(* passed is over, and the next iteration may begin (IterInv).             *)
(***************************************************************************)
EXTENDS Replay, FiniteSetTheorems, TLAPS

\* Iteration and worker of an operation of the plan.
Iter == [p \in Plan |-> OpIteration(lines[p])]
Work == [p \in Plan |-> lines[p].worker]

\* What the worker handles between the take and pending.Done.
Busy == {"check", "timer", "exec", "cancel", "finish"}

\* What left the queue of worker w for good.
Past(w) == Sent(w) \cup {p \in lost : Work[p] = w}

Over == Ran \cup lost

\* Where the reader is, and what that says of the workers.
PlaceInv ==
    /\ ctl \in {"barrier", "send"} => pos \in Plan
    /\ ctl = "send" => iteration = Iter[pos]
    /\ ctl \in {"scan", "ended"} => \A w \in WorkerID : wpc[w] \in {"idle", "done"}
    /\ ctl = "scan" => report.status = "none"
    /\ Launched => report.status = "running"
    /\ \A w \in WorkerID :
          /\ wpc[w] = "done" => queue[w] = << >> /\ ctl \in {"join", "ended"}
          /\ cur[w] # 0 <=> wpc[w] \in Busy

\* The operations a worker has sent, and those in its queue, in file order.
SortedInv ==
    \A w \in WorkerID :
        /\ \A k, l \in 1..Len(sent[w]) : k < l => sent[w][k] < sent[w][l]
        /\ \A k, l \in 1..Len(queue[w]) : k < l => queue[w][k] < queue[w][l]

\* Operations of w go through its queue in the order of the file.
OrderClauses(w) ==
    /\ \A p \in Sent(w) \cup Queued(w) : p \in Plan /\ Work[p] = w /\ p < pos
    /\ cur[w] # 0 => cur[w] \in Plan /\ Work[cur[w]] = w /\ cur[w] < pos
    /\ \A q \in Queued(w) : cur[w] < q /\ \A p \in Past(w) : p < q
    /\ wpc[w] \in {"check", "timer", "exec"} => \A p \in Past(w) : p < cur[w]

OrderInv ==
    /\ \A p \in lost : p \in Plan /\ p < pos
    /\ \A w \in WorkerID : OrderClauses(w)

\* What the reader has passed is accounted for, unless the replay is over.
SeenInv ==
    /\ RunCtxDone \/ \A p \in Plan :
          p < pos => p \in Past(Work[p]) \/ p = cur[Work[p]] \/ p \in Queued(Work[p])
    /\ \A w \in WorkerID :
          /\ wpc[w] = "finish" => RunCtxDone \/ cur[w] \in Past(w)
          /\ wpc[w] = "cancel" => cur[w] \in Past(w)
          /\ wpc[w] = "drain" => cancelled

\* An operation that failed or panicked is followed by the cancellation.
CauseInv ==
    /\ cancelled => execErr \/ panicErr
    /\ streamErr = "cancelled" => RunCtxDone
    /\ streamErr # "none" => ctl \in {"join", "ended"}
    /\ ctl = "join" /\ streamErr = "none" => pos = Len(lines) + 1
    /\ \A w \in WorkerID : wpc[w] = "cancel" => execErr
    /\ \A p \in lost :
          /\ cancelled \/ wpc[Work[p]] \in {"cancel", "recover"}
          /\ execErr \/ panicErr \/ wpc[Work[p]] = "recover"

\* A worker sends an operation only after all its earlier ones.
TurnInv ==
    \A w \in WorkerID :
        /\ wpc[w] \in {"timer", "exec"} =>
              \A p \in Plan : Work[p] = w /\ p < cur[w] => p \in Sent(w)
        /\ \A p \in Plan, q \in Sent(w) : Work[p] = w /\ p <= q => p \in Sent(w)

\* An operation is sent only after all of the iterations before its own.
IterInv ==
    /\ \A p \in Plan : p < pos => Iter[p] <= iteration
    /\ RunCtxDone \/ \A p \in Plan : Iter[p] < iteration => p \in Over
    /\ \A w \in WorkerID :
          wpc[w] \in {"timer", "exec"} =>
              \A p \in Plan : Iter[p] < Iter[cur[w]] => p \in Over

\* The lines a reads-only replay has left out.
SkippedBelow(n) == {i \in 1..(n - 1) : IsOp(lines[i]) /\ SkipsWrite(i)}

CountInv == PendingIsOutstanding /\ skipped = Cardinality(SkippedBelow(pos))

\* The status is final once the replay has ended, and true then.
StatusInv ==
    /\ ctl # "ended" => report.status \in {"none", "running"}
    /\ StatusTrue

Inv ==
    /\ Types /\ PlaceInv /\ SortedInv /\ OrderInv /\ SeenInv /\ CauseInv /\ TurnInv
    /\ IterInv /\ CountInv /\ StatusInv

-----------------------------------------------------------------------------
(* Sequences and the recording.                                            *)

Elements(s) == {s[k] : k \in DOMAIN s}


\* The elements of a sequence after an Append.
LEMMA AppendElements ==
    ASSUME NEW S, NEW s \in Seq(S), NEW x \in S,
           NEW t \in Seq(S), Len(t) = Len(s) + 1, t[Len(s) + 1] = x,
           \A k \in 1..Len(s) : t[k] = s[k]
    PROVE  Elements(t) = Elements(s) \cup {x}
<1>1. /\ Len(s) \in Nat /\ DOMAIN t = 1..Len(t) /\ DOMAIN s = 1..Len(s)
      /\ \A k \in DOMAIN s : t[k] = s[k]
    OBVIOUS
<1>2. \A k \in DOMAIN t : k \in DOMAIN s \/ k = Len(s) + 1
    BY <1>1
<1>3. \A k \in DOMAIN s : k \in DOMAIN t /\ Len(s) + 1 \in DOMAIN t
    BY <1>1
<1>4. Len(s) + 1 \in DOMAIN t
    BY <1>1
<1> QED BY <1>1, <1>2, <1>3, <1>4 DEF Elements

\* The elements of a sequence without repetitions after its head is taken.
LEMMA TailElements ==
    ASSUME NEW S, NEW s \in Seq(S), s # << >>,
           \A k, l \in 1..Len(s) : k < l => s[k] # s[l],
           NEW t \in Seq(S), Len(t) = Len(s) - 1,
           \A k \in 1..Len(t) : t[k] = s[k + 1]
    PROVE  /\ s[1] \in Elements(s)
           /\ Elements(t) = Elements(s) \ {s[1]}
<1>1. Len(s) \in Nat \ {0} /\ DOMAIN t = 1..Len(t) /\ DOMAIN s = 1..Len(s)
    OBVIOUS
<1>2. /\ 1 \in DOMAIN s
      /\ \A k \in DOMAIN t : k + 1 \in DOMAIN s /\ 1 < k + 1
      /\ \A k \in DOMAIN s : k = 1 \/ (1 < k /\ k - 1 \in DOMAIN t /\ (k - 1) + 1 = k)
    BY <1>1
<1>3. \A k \in DOMAIN s : 1 < k => s[k] # s[1]
    BY <1>1, <1>2
<1>4. \A k \in DOMAIN t : t[k] \in Elements(s) \ {s[1]}
    BY <1>1, <1>2, <1>3 DEF Elements
<1>5. \A k \in DOMAIN s : s[k] # s[1] => s[k] \in Elements(t)
  <2> SUFFICES ASSUME NEW k \in DOMAIN s, s[k] # s[1] PROVE \E l \in DOMAIN t : t[l] = s[k]
      BY DEF Elements
  <2>1. k - 1 \in DOMAIN t /\ (k - 1) + 1 = k
      BY <1>2
  <2>2. t[k - 1] = s[k]
      BY <2>1, <1>1
  <2> QED BY <2>1, <2>2
<1>6. Elements(t) = Elements(s) \ {s[1]}
    BY <1>4, <1>5 DEF Elements
<1>7. s[1] \in Elements(s)
    BY <1>2 DEF Elements
<1> QED BY <1>6, <1>7

\* A sequence with no elements is empty.
LEMMA NoElements ==
    ASSUME NEW S, NEW s \in Seq(S)
    PROVE  Elements(s) = {} <=> s = << >>
<1>1. DOMAIN s = 1..Len(s) /\ Len(s) \in Nat
    OBVIOUS
<1>2. s # << >> => 1 \in DOMAIN s
    BY <1>1
<1>3. s = << >> => DOMAIN s = {}
    BY <1>1
<1> QED BY <1>2, <1>3 DEF Elements

\* What is left of a queue.
LEMMA HeadTail ==
    ASSUME NEW S, NEW s \in Seq(S), s # << >>, NEW n \in Nat, Len(s) <= n
    PROVE  Head(s) \in S /\ Tail(s) \in Seq(S) /\ Len(Tail(s)) <= n
OBVIOUS

\* What Scan has checked of the recording, in terms of the plan.
LEMMA PlanFacts ==
    ASSUME setup \in Setups
    PROVE  /\ Len(lines) \in Nat /\ DOMAIN lines = 1..Len(lines)
           /\ Plan \subseteq 1..Len(lines) /\ IsFiniteSet(Plan)
           /\ \A p \in Plan : Work[p] \in WorkerID /\ Iter[p] \in Nat
           /\ \A p, q \in Plan : p < q => Iter[p] <= Iter[q]
<1>1. /\ Len(lines) \in Nat /\ DOMAIN lines = 1..Len(lines)
      /\ \A i \in DOMAIN lines : IsOp(lines[i]) => lines[i].worker \in WorkerID
      /\ \A i \in DOMAIN lines : lines[i].iter \in Nat
      /\ Readable(lines, setup.iterations)
  <2> DEFINE Line == [type : {"op", "trailer"}, worker : Nat, wseq : Nat, iter : Nat,
                      write : BOOLEAN, ops : Nat, status : STRING]
  <2>1. /\ lines \in Seq(Line)
        /\ \A i \in DOMAIN lines : IsOp(lines[i]) => lines[i].worker \in WorkerID
        /\ Readable(lines, setup.iterations)
      BY ReplayAssumption DEF lines
  <2>2. \A x \in Line : x.iter \in Nat
      OBVIOUS
  <2> HIDE DEF Line
  <2>3. /\ Len(lines) \in Nat /\ DOMAIN lines = 1..Len(lines)
        /\ \A i \in DOMAIN lines : lines[i] \in Line
      BY <2>1
  <2> QED BY <2>1, <2>2, <2>3
<1>2. Plan \subseteq 1..Len(lines)
    BY <1>1 DEF Plan
<1>3. IsFiniteSet(Plan)
  <2>1. IsFiniteSet(1..Len(lines))
      BY <1>1, FS_Interval
  <2> QED BY <1>2, <2>1, FS_Subset
<1>4. \A p \in Plan : Work[p] \in WorkerID /\ Iter[p] \in Nat
    BY <1>1 DEF Plan, Work, Iter, OpIteration
<1>5. \A p, q \in Plan : p < q => Iter[p] <= Iter[q]
  <2> SUFFICES ASSUME NEW p \in Plan, NEW q \in Plan, p < q
               PROVE  OpIteration(lines[p]) <= OpIteration(lines[q])
      BY DEF Iter
  <2>1. p \in 1..Len(lines) /\ q \in 1..Len(lines) /\ IsOp(lines[p]) /\ IsOp(lines[q])
      BY <1>1 DEF Plan
  <2>2. p \in 1..(q - 1)
      BY <2>1, <1>1
  <2> QED BY <1>1, <2>1, <2>2 DEF Readable, IterationsInOrder
<1> QED BY <1>1, <1>2, <1>3, <1>4, <1>5

\* No step changes the recording.
LEMMA Fixed ==
    ASSUME [Next]_vars
    PROVE  /\ setup' = setup /\ lines' = lines /\ WorkerID' = WorkerID
           /\ Plan' = Plan /\ Iter' = Iter /\ Work' = Work
<1>1. setup' = setup
    BY DEF Next, ReaderStep, WorkerStep, vars, Refuse, Start, StreamCancelled, ReadFails,
           ReadEnd, ReadOther, ReadOp, PassBarrier, Send, SendCancelled, Join, Take, Exit,
           Check, TimerEnds, ExecReturns, ExecFails, Cancel, Finish, Panic, Recover, Drain,
           MonitorPanics, Stop, Ended
<1> QED BY <1>1 DEF Plan, Iter, Work, lines, SkipsWrite

\* A worker takes the head of its queue, or drains it.
LEMMA PopSets ==
    ASSUME Types, SortedInv, NEW w \in WorkerID, queue[w] # << >>,
           queue' = [queue EXCEPT ![w] = Tail(@)]
    PROVE  /\ Head(queue[w]) \in Queued(w)
           /\ \A q \in Queued(w) : q # Head(queue[w]) => Head(queue[w]) < q
           /\ Queued(w)' = Queued(w) \ {Head(queue[w])}
           /\ \A v \in WorkerID : v # w => Queued(v)' = Queued(v)
           /\ \A k, l \in 1..Len(queue'[w]) : k < l => queue'[w][k] < queue'[w][l]
<1> DEFINE s == queue[w]
           t == Tail(s)
<1>1. /\ queue'[w] = t /\ \A v \in WorkerID : v # w => queue'[v] = queue[v]
      /\ s \in Seq(DOMAIN lines) /\ \A k \in DOMAIN s : s[k] \in Nat
  <2>1. /\ queue'[w] = t /\ \A v \in WorkerID : v # w => queue'[v] = queue[v]
        /\ s \in Seq(DOMAIN lines)
      BY DEF Types
  <2>2. \A k \in DOMAIN s : s[k] \in DOMAIN lines
      BY <2>1
  <2>3. DOMAIN lines \subseteq Nat
      BY PlanFacts DEF Types
  <2> QED BY <2>1, <2>2, <2>3
<1>2. \A k, l \in 1..Len(s) : k < l => s[k] < s[l]
    BY DEF SortedInv
<1>3. \A k, l \in 1..Len(s) : k < l => s[k] # s[l]
  <2>1. DOMAIN s = 1..Len(s)
      BY <1>1
  <2> QED BY <1>1, <1>2, <2>1
<1>4. s # << >>
    OBVIOUS
<1> HIDE DEF s
<1>5. /\ t \in Seq(DOMAIN lines) /\ Len(t) = Len(s) - 1
      /\ \A k \in 1..Len(t) : t[k] = s[k + 1]
      /\ Head(s) = s[1] /\ Head(s) \in Elements(s)
      /\ Elements(t) = Elements(s) \ {Head(s)}
  <2>1. /\ t \in Seq(DOMAIN lines) /\ Len(t) = Len(s) - 1
        /\ \A k \in 1..Len(t) : t[k] = s[k + 1]
        /\ Head(s) = s[1] /\ s \in Seq(DOMAIN lines)
      BY <1>1, <1>4
  <2> HIDE DEF t
  <2>2. /\ s[1] \in Elements(s)
        /\ Elements(t) = Elements(s) \ {s[1]}
      BY <1>3, <1>4, <2>1, TailElements
  <2> QED BY <2>1, <2>2
<1>6. DOMAIN s = 1..Len(s) /\ Len(s) \in Nat /\ 1 \in 1..Len(s)
  <2>1. DOMAIN s = 1..Len(s) /\ Len(s) \in Nat /\ Len(s) # 0
      BY <1>1, <1>4
  <2> QED BY <2>1
<1>7. \A k \in DOMAIN s : s[k] # s[1] => s[1] < s[k]
    BY <1>2, <1>6
<1> HIDE DEF t
<1>8. \A k, l \in 1..Len(t) : k < l => t[k] < t[l]
  <2> SUFFICES ASSUME NEW k \in 1..Len(t), NEW l \in 1..Len(t), k < l PROVE t[k] < t[l]
      OBVIOUS
  <2>1. k + 1 \in 1..Len(s) /\ l + 1 \in 1..Len(s) /\ k + 1 < l + 1
      BY <1>5, <1>6
  <2> QED BY <1>2, <1>5, <2>1
<1>9. Queued(w) = Elements(s) /\ Queued(w)' = Elements(t)
    BY <1>1 DEF Queued, Elements, s
<1>10. \A v \in WorkerID : v # w => Queued(v)' = Queued(v)
    BY <1>1 DEF Queued
<1>11. Head(queue[w]) = Head(s)
    BY DEF s
<1>12. Queued(w)' = Queued(w) \ {Head(s)} /\ Head(s) \in Queued(w)
    BY <1>5, <1>9
<1>13. \A q \in Queued(w) : q # Head(s) => Head(s) < q
    BY <1>5, <1>7, <1>9 DEF Elements
<1>14. \A k, l \in 1..Len(queue'[w]) : k < l => queue'[w][k] < queue'[w][l]
    BY <1>1, <1>8
<1> QED BY <1>10, <1>11, <1>12, <1>13, <1>14

\* The reader puts the operation at pos in the queue of its worker.
LEMMA SendSets ==
    ASSUME Types, PlaceInv, SortedInv, OrderInv, Send
    PROVE  /\ Work[pos] \in WorkerID /\ pos \in Plan
           /\ \A v \in WorkerID :
                 Queued(v)' = IF v = Work[pos] THEN Queued(v) \cup {pos} ELSE Queued(v)
           /\ queue' \in [WorkerID -> Seq(DOMAIN lines)]
           /\ \A v \in WorkerID : Len(queue'[v]) <= QueueSize
           /\ \A v \in WorkerID :
                 \A k, l \in 1..Len(queue'[v]) : k < l => queue'[v][k] < queue'[v][l]
<1> PICK w \in WorkerID : w = Work[pos]
    BY PlanFacts DEF Send, PlaceInv, Types
<1> DEFINE s == queue[w]
           t == Append(s, pos)
<1>1. pos \in Plan /\ w = lines[pos].worker /\ pos \in DOMAIN lines /\ pos \in Nat
    BY PlanFacts DEF Send, PlaceInv, Types, Work
<1>2. queue' = [queue EXCEPT ![w] = t] /\ Len(s) < QueueSize
    BY <1>1 DEF Send
<1>3. s \in Seq(DOMAIN lines)
    BY <1>1 DEF Types
<1>4. /\ queue'[w] = t
      /\ \A v \in WorkerID : v # w => queue'[v] = queue[v]
    BY <1>1, <1>2 DEF Types
<1> HIDE DEF s, t
<1>5. /\ t \in Seq(DOMAIN lines) /\ Len(t) = Len(s) + 1
      /\ \A k \in 1..Len(s) : t[k] = s[k]
      /\ t[Len(s) + 1] = pos
      /\ Elements(t) = Elements(s) \cup {pos}
  <2>1. /\ s \in Seq(DOMAIN lines) /\ pos \in DOMAIN lines
      BY <1>1, <1>3
  <2>2. /\ t \in Seq(DOMAIN lines) /\ Len(t) = Len(s) + 1
        /\ \A k \in 1..Len(s) : t[k] = s[k]
        /\ t[Len(s) + 1] = pos
      BY <2>1 DEF t
  <2> QED BY <2>1, <2>2, AppendElements
<1>6. Queued(w) = Elements(s) /\ Queued(w)' = Elements(t)
    BY <1>4 DEF Queued, Elements, s
<1>7. \A v \in WorkerID : v # w => Queued(v)' = Queued(v)
    BY <1>4 DEF Queued
<1>8. DOMAIN s = 1..Len(s) /\ Len(s) \in Nat
    BY <1>3
<1>9. \A k \in 1..Len(s) : s[k] < pos
    BY <1>1, <1>6, <1>8 DEF Elements, OrderInv, OrderClauses
<1>10. \A k, l \in 1..Len(t) : k < l => t[k] < t[l]
  <2> SUFFICES ASSUME NEW k \in 1..Len(t), NEW l \in 1..Len(t), k < l PROVE t[k] < t[l]
      OBVIOUS
  <2>1. k \in 1..Len(s)
      BY <1>5, <1>8
  <2>2. CASE l = Len(s) + 1
      BY <2>1, <2>2, <1>5, <1>9
  <2>3. CASE l # Len(s) + 1
    <3>1. l \in 1..Len(s)
        BY <2>3, <1>5, <1>8
    <3>2. s[k] < s[l]
        BY <2>1, <3>1, <1>1 DEF SortedInv, s
    <3> QED BY <2>1, <3>1, <3>2, <1>5
  <2> QED BY <2>2, <2>3
<1>11. \A v \in WorkerID : \A k, l \in 1..Len(queue'[v]) : k < l => queue'[v][k] < queue'[v][l]
    BY <1>4, <1>10 DEF SortedInv
<1>12. Len(t) <= QueueSize
  <2>1. QueueSize \in Nat
      BY ReplayAssumption
  <2> QED BY <1>2, <1>5, <1>8, <2>1
<1>13. queue' \in [WorkerID -> Seq(DOMAIN lines)]
    BY <1>2, <1>5 DEF Types
<1>14. \A v \in WorkerID : Len(queue'[v]) <= QueueSize
    BY <1>4, <1>12 DEF Types
<1>15. \A v \in WorkerID :
          Queued(v)' = IF v = Work[pos] THEN Queued(v) \cup {pos} ELSE Queued(v)
    BY <1>5, <1>6, <1>7
<1> QED BY <1>1, <1>11, <1>13, <1>14, <1>15

\* A worker sends its operation: it is the last one in its stream.
LEMMA ExecSets ==
    ASSUME Types, PlaceInv, SortedInv, OrderInv, NEW w \in WorkerID, ExecReturns(w)
    PROVE  /\ cur[w] \in Plan
           /\ \A v \in WorkerID :
                 Sent(v)' = IF v = w THEN Sent(v) \cup {cur[w]} ELSE Sent(v)
           /\ sent' \in [WorkerID -> Seq(DOMAIN lines)]
           /\ \A v \in WorkerID :
                 \A k, l \in 1..Len(sent'[v]) : k < l => sent'[v][k] < sent'[v][l]
<1> DEFINE s == sent[w]
           t == Append(s, cur[w])
<1>1. cur[w] \in Plan /\ cur[w] \in DOMAIN lines /\ cur[w] \in Nat
    BY PlanFacts DEF ExecReturns, PlaceInv, Busy, OrderInv, OrderClauses, Types
<1>2. sent' = [sent EXCEPT ![w] = t]
    BY DEF ExecReturns
<1>3. s \in Seq(DOMAIN lines)
    BY DEF Types
<1>4. /\ sent'[w] = t
      /\ \A v \in WorkerID : v # w => sent'[v] = sent[v]
    BY <1>2 DEF Types
<1> HIDE DEF s, t
<1>5. /\ t \in Seq(DOMAIN lines) /\ Len(t) = Len(s) + 1
      /\ \A k \in 1..Len(s) : t[k] = s[k]
      /\ t[Len(s) + 1] = cur[w]
      /\ Elements(t) = Elements(s) \cup {cur[w]}
  <2>1. /\ s \in Seq(DOMAIN lines) /\ cur[w] \in DOMAIN lines
      BY <1>1, <1>3
  <2>2. /\ t \in Seq(DOMAIN lines) /\ Len(t) = Len(s) + 1
        /\ \A k \in 1..Len(s) : t[k] = s[k]
        /\ t[Len(s) + 1] = cur[w]
      BY <2>1 DEF t
  <2> QED BY <2>1, <2>2, AppendElements
<1>6. Sent(w) = Elements(s) /\ Sent(w)' = Elements(t)
    BY <1>4 DEF Sent, Elements, s
<1>7. \A v \in WorkerID : v # w => Sent(v)' = Sent(v)
    BY <1>4 DEF Sent
<1>8. DOMAIN s = 1..Len(s) /\ Len(s) \in Nat
    BY <1>3
<1>9. \A k \in 1..Len(s) : s[k] < cur[w]
    BY <1>6, <1>8 DEF Elements, OrderInv, OrderClauses, Past, ExecReturns
<1>10. \A k, l \in 1..Len(t) : k < l => t[k] < t[l]
  <2> SUFFICES ASSUME NEW k \in 1..Len(t), NEW l \in 1..Len(t), k < l PROVE t[k] < t[l]
      OBVIOUS
  <2>1. k \in 1..Len(s)
      BY <1>5, <1>8
  <2>2. CASE l = Len(s) + 1
      BY <2>1, <2>2, <1>5, <1>9
  <2>3. CASE l # Len(s) + 1
    <3>1. l \in 1..Len(s)
        BY <2>3, <1>5, <1>8
    <3>2. s[k] < s[l]
        BY <2>1, <3>1 DEF SortedInv, s
    <3> QED BY <2>1, <3>1, <3>2, <1>5
  <2> QED BY <2>2, <2>3
<1>11. \A v \in WorkerID : \A k, l \in 1..Len(sent'[v]) : k < l => sent'[v][k] < sent'[v][l]
    BY <1>4, <1>10 DEF SortedInv
<1>12. sent' \in [WorkerID -> Seq(DOMAIN lines)]
    BY <1>2, <1>5 DEF Types
<1> QED BY <1>1, <1>5, <1>6, <1>7, <1>11, <1>12

-----------------------------------------------------------------------------
(* Each part of the invariant is kept by every step.                       *)

LEMMA TypesStep == Inv /\ [Next]_vars => Types'
<1> SUFFICES ASSUME Inv, [Next]_vars PROVE Types'
    OBVIOUS
<1> USE DEF Inv
<1>1. setup' = setup /\ lines' = lines /\ Len(lines) \in Nat /\ DOMAIN lines = 1..Len(lines)
    BY Fixed, PlanFacts DEF Types
<1>2. \A p \in Plan : p \in DOMAIN lines /\ Iter[p] \in Nat /\ Iter[p] = OpIteration(lines[p])
    BY <1>1, PlanFacts DEF Types, Plan, Iter
<1>3. CASE Refuse
    BY <1>1, <1>3 DEF Types, Refuse, workVars, errVars
<1>4. CASE Start
    BY <1>1, <1>4 DEF Types, Start, workVars, errVars
<1>5. CASE StreamCancelled \/ ReadFails \/ ReadEnd
    BY <1>1, <1>5 DEF Types, StreamCancelled, ReadFails, ReadEnd, EndStream, workVars, errVars
<1>6. CASE ReadOther
    BY <1>1, <1>6 DEF Types, ReadOther, workVars, errVars
<1>7. CASE ReadOp
    BY <1>1, <1>7 DEF Types, ReadOp, workVars, errVars
<1>8. CASE PassBarrier
    BY <1>1, <1>2, <1>8 DEF Types, PlaceInv, PassBarrier, workVars, errVars
<1>9. CASE Send
  <2>1. /\ queue' \in [WorkerID -> Seq(DOMAIN lines)]
        /\ \A v \in WorkerID : Len(queue'[v]) <= QueueSize
        /\ pos \in Plan
      BY <1>9, SendSets
  <2>2. pos' \in 1..Len(lines) + 1
      BY <1>1, <1>2, <1>9, <2>1 DEF Send
  <2> QED BY <1>1, <1>9, <2>1, <2>2 DEF Types, Send, workVars, errVars
<1>10. CASE SendCancelled
    BY <1>1, <1>10 DEF Types, SendCancelled, EndStream, workVars, errVars
<1>11. CASE Join
  <2>1. EndStatus \in {"complete", "cancelled", "failed"}
      BY DEF EndStatus
  <2>2. HashMatch \in {"uncompared", "equal", "different"}
      BY DEF HashMatch
  <2> QED BY <1>1, <1>11, <2>1, <2>2 DEF Types, Join, workVars, errVars
<1>12. ASSUME NEW w \in WorkerID, Take(w) PROVE Types'
  <2>1. /\ queue[w] \in Seq(DOMAIN lines) /\ queue[w] # << >> /\ Len(queue[w]) <= QueueSize
        /\ queue' = [queue EXCEPT ![w] = Tail(@)] /\ cur' = [cur EXCEPT ![w] = Head(queue[w])]
      BY <1>12 DEF Types, Take
  <2>2. QueueSize \in Nat
      BY ReplayAssumption
  <2>3. /\ Head(queue[w]) \in DOMAIN lines /\ Tail(queue[w]) \in Seq(DOMAIN lines)
        /\ Len(Tail(queue[w])) <= QueueSize
      BY <2>1, <2>2, HeadTail
  <2>4. /\ queue' \in [WorkerID -> Seq(DOMAIN lines)]
        /\ cur' \in [WorkerID -> {0} \cup DOMAIN lines]
        /\ \A v \in WorkerID : Len(queue'[v]) <= QueueSize
      BY <2>1, <2>3 DEF Types
  <2>5. wpc' = [wpc EXCEPT ![w] = "check"]
      BY <1>12 DEF Take, Goto
  <2> QED BY <1>1, <1>12, <2>4, <2>5 DEF Types, Take, feederVars, errVars
<1>13. ASSUME NEW w \in WorkerID, Drain(w) PROVE Types'
  <2>1. /\ queue[w] \in Seq(DOMAIN lines) /\ queue[w] # << >> /\ Len(queue[w]) <= QueueSize
        /\ queue' = [queue EXCEPT ![w] = Tail(@)]
      BY <1>13 DEF Types, Drain
  <2>2. QueueSize \in Nat
      BY ReplayAssumption
  <2>3. Tail(queue[w]) \in Seq(DOMAIN lines) /\ Len(Tail(queue[w])) <= QueueSize
      BY <2>1, <2>2, HeadTail
  <2>4. /\ queue' \in [WorkerID -> Seq(DOMAIN lines)]
        /\ \A v \in WorkerID : Len(queue'[v]) <= QueueSize
      BY <2>1, <2>3 DEF Types
  <2>5. UNCHANGED <<setup, feederVars, workVars, sent, stopped, errVars, report, lost>>
      BY <1>13 DEF Drain
  <2> QED BY <1>1, <2>4, <2>5 DEF Types, feederVars, workVars, errVars
<1>14. ASSUME NEW w \in WorkerID, ExecReturns(w) PROVE Types'
  <2>1. sent' \in [WorkerID -> Seq(DOMAIN lines)]
      BY <1>14, ExecSets
  <2>2. wpc' = [wpc EXCEPT ![w] = "finish"]
      BY <1>14 DEF ExecReturns, Goto
  <2> QED BY <1>1, <1>14, <2>1, <2>2 DEF Types, ExecReturns, feederVars, errVars
<1>15. ASSUME NEW w \in WorkerID, ExecFails(w) \/ Panic(w) PROVE Types'
  <2>1. cur[w] \in DOMAIN lines
      BY <1>15 DEF Types, PlaceInv, Busy, ExecFails, Panic
  <2> QED BY <1>1, <1>15, <2>1 DEF Types, ExecFails, Panic, Goto, feederVars, errVars
<1>16. ASSUME NEW w \in WorkerID, Exit(w) \/ Check(w) \/ TimerEnds(w) PROVE Types'
    BY <1>1, <1>16 DEF Types, Exit, Check, TimerEnds, Goto, feederVars, errVars
<1>17. ASSUME NEW w \in WorkerID, Cancel(w) \/ Recover(w) PROVE Types'
    BY <1>1, <1>17 DEF Types, Cancel, Recover, Goto, feederVars, errVars
<1>18. ASSUME NEW w \in WorkerID, Finish(w) PROVE Types'
    BY <1>1, <1>18 DEF Types, Finish, Goto, feederVars, errVars
<1>19. CASE MonitorPanics \/ Stop \/ UNCHANGED vars
    BY <1>1, <1>19 DEF Types, MonitorPanics, Stop, vars, feederVars, workVars, errVars
<1> QED BY <1>3, <1>4, <1>5, <1>6, <1>7, <1>8, <1>9, <1>10, <1>11, <1>12, <1>13, <1>14, <1>15,
           <1>16, <1>17, <1>18, <1>19 DEF Next, ReaderStep, WorkerStep, Ended

\* The steps that leave the queues, the streams and the workers alone.
QuietStep ==
    \/ Refuse \/ Start \/ StreamCancelled \/ ReadFails \/ ReadEnd \/ ReadOther \/ ReadOp
    \/ PassBarrier \/ SendCancelled \/ Join \/ MonitorPanics \/ Stop \/ UNCHANGED vars

LEMMA QuietFacts ==
    ASSUME QuietStep
    PROVE  /\ UNCHANGED <<queue, sent, wpc, cur, lost>>
           /\ \A w : Sent(w)' = Sent(w) /\ Queued(w)' = Queued(w)
<1>1. UNCHANGED <<queue, sent, wpc, cur, lost>>
    BY DEF QuietStep, Refuse, Start, StreamCancelled, ReadFails, ReadEnd, ReadOther, ReadOp,
           PassBarrier, SendCancelled, Join, MonitorPanics, Stop, vars, workVars
<1> QED BY <1>1 DEF Sent, Queued

\* pos only moves over lines that are not in the plan, or with the send.
LEMMA QuietPos ==
    ASSUME QuietStep, Types
    PROVE  pos' >= pos /\ \A p \in Plan : p < pos' <=> p < pos
<1>1. /\ Plan \subseteq 1..Len(lines) /\ Len(lines) \in Nat /\ DOMAIN lines = 1..Len(lines)
      /\ pos \in 1..Len(lines) + 1
    BY PlanFacts DEF Types
<1>2. CASE ReadOther
  <2>1. pos' = pos + 1 /\ pos \notin Plan
      BY <1>1, <1>2 DEF ReadOther, Plan
  <2> QED BY <1>1, <2>1
<1>3. CASE pos' = pos
    BY <1>1, <1>3
<1> QED BY <1>2, <1>3 DEF QuietStep, Refuse, Start, StreamCancelled, ReadFails, ReadEnd,
           ReadOp, PassBarrier, SendCancelled, Join, MonitorPanics, Stop, vars, feederVars

LEMMA PlaceStep == Inv /\ [Next]_vars => PlaceInv'
<1> SUFFICES ASSUME Inv, [Next]_vars PROVE PlaceInv'
    OBVIOUS
<1> USE DEF Inv
<1>1. /\ Plan' = Plan /\ Iter' = Iter /\ WorkerID' = WorkerID
      /\ \A p \in Plan : Iter[p] = OpIteration(lines[p]) /\ p # 0
      /\ Len(lines) \in Nat /\ DOMAIN lines = 1..Len(lines)
    BY Fixed, PlanFacts DEF Types, Iter
<1>2. CASE Refuse \/ Start
    BY <1>1, <1>2 DEF Types, PlaceInv, Refuse, Start, Launched, workVars
<1>3. CASE StreamCancelled \/ ReadFails \/ ReadEnd \/ SendCancelled
    BY <1>1, <1>3 DEF Types, PlaceInv, StreamCancelled, ReadFails, ReadEnd, SendCancelled,
                      EndStream, Launched, workVars
<1>4. CASE ReadOther
    BY <1>1, <1>4 DEF Types, PlaceInv, ReadOther, Launched, workVars
<1>5. CASE ReadOp
  <2>1. pos \in Plan
      BY <1>1, <1>5 DEF ReadOp, Types, Plan
  <2> QED BY <1>1, <1>5, <2>1 DEF Types, PlaceInv, ReadOp, Launched, workVars
<1>6. CASE PassBarrier
    BY <1>1, <1>6 DEF Types, PlaceInv, PassBarrier, Launched, workVars
<1>7. CASE Send
    BY <1>1, <1>7 DEF Types, PlaceInv, Send, Launched, workVars
<1>8. CASE Join
    BY <1>1, <1>8 DEF Types, PlaceInv, Join, Launched, workVars
<1>9. ASSUME NEW w \in WorkerID, Take(w) PROVE PlaceInv'
  <2>1. cur'[w] # 0 /\ cur' = [cur EXCEPT ![w] = cur'[w]] /\ wpc' = [wpc EXCEPT ![w] = "check"]
    <3>1. /\ cur' = [cur EXCEPT ![w] = Head(queue[w])] /\ queue[w] \in Seq(DOMAIN lines)
          /\ queue[w] # << >>
        BY <1>9 DEF Take, Types
    <3>2. Head(queue[w]) \in DOMAIN lines
        BY <3>1
    <3>3. Head(queue[w]) # 0
        BY <3>2, <1>1
    <3> QED BY <1>9, <3>1, <3>3 DEF Take, Goto, Types
  <2>2. \A v \in WorkerID : v # w => queue'[v] = queue[v]
      BY <1>9 DEF Take, Types
  <2> QED BY <1>1, <1>9, <2>1, <2>2 DEF Types, PlaceInv, Take, Busy, Launched, feederVars
<1>10. ASSUME NEW w \in WorkerID, Exit(w) PROVE PlaceInv'
    BY <1>1, <1>10 DEF Types, PlaceInv, Exit, Goto, Closed, Busy, Launched, feederVars
<1>11. ASSUME NEW w \in WorkerID, Check(w) \/ TimerEnds(w) PROVE PlaceInv'
    BY <1>1, <1>11 DEF Types, PlaceInv, Check, TimerEnds, Goto, Busy, Launched, feederVars
<1>12. ASSUME NEW w \in WorkerID, ExecReturns(w) \/ ExecFails(w) \/ Cancel(w) PROVE PlaceInv'
    BY <1>1, <1>12 DEF Types, PlaceInv, ExecReturns, ExecFails, Cancel, Goto, Busy, Launched,
                       feederVars
<1>13. ASSUME NEW w \in WorkerID, Finish(w) \/ Panic(w) PROVE PlaceInv'
    BY <1>1, <1>13 DEF Types, PlaceInv, Finish, Panic, Goto, Busy, Launched, feederVars
<1>14. ASSUME NEW w \in WorkerID, Recover(w) PROVE PlaceInv'
    BY <1>1, <1>14 DEF Types, PlaceInv, Recover, Goto, Busy, Launched, feederVars
<1>15. ASSUME NEW w \in WorkerID, Drain(w) PROVE PlaceInv'
  <2>1. \A v \in WorkerID : v # w => queue'[v] = queue[v]
      BY <1>15 DEF Drain, Types
  <2> QED BY <1>1, <1>15, <2>1 DEF Types, PlaceInv, Drain, Busy, Launched, feederVars, workVars
<1>16. CASE MonitorPanics \/ Stop \/ UNCHANGED vars
    BY <1>1, <1>16 DEF PlaceInv, MonitorPanics, Stop, Launched, vars, feederVars, workVars
<1> QED BY <1>2, <1>3, <1>4, <1>5, <1>6, <1>7, <1>8, <1>9, <1>10, <1>11, <1>12, <1>13, <1>14,
           <1>15, <1>16 DEF Next, ReaderStep, WorkerStep, Ended

LEMMA SortedStep == Inv /\ [Next]_vars => SortedInv'
<1> SUFFICES ASSUME Inv, [Next]_vars PROVE SortedInv'
    OBVIOUS
<1> USE DEF Inv
<1>1. WorkerID' = WorkerID
    BY DEF WorkerID
<1>2. CASE QuietStep
    BY <1>1, <1>2, QuietFacts DEF SortedInv
<1>3. CASE Send
  <2>1. UNCHANGED sent
      BY <1>3 DEF Send
  <2> QED BY <1>1, <1>3, <2>1, SendSets DEF SortedInv
<1>4. ASSUME NEW w \in WorkerID, Take(w) \/ Drain(w) PROVE SortedInv'
  <2>1. /\ queue[w] # << >> /\ queue' = [queue EXCEPT ![w] = Tail(@)] /\ UNCHANGED sent
      BY <1>4 DEF Take, Drain
  <2>2. \A k, l \in 1..Len(queue'[w]) : k < l => queue'[w][k] < queue'[w][l]
      BY <2>1, PopSets
  <2>3. \A v \in WorkerID : v # w => queue'[v] = queue[v]
      BY <2>1 DEF Types
  <2> QED BY <1>1, <2>1, <2>2, <2>3 DEF SortedInv
<1>5. ASSUME NEW w \in WorkerID, ExecReturns(w) PROVE SortedInv'
  <2>1. UNCHANGED queue
      BY <1>5 DEF ExecReturns
  <2>2. \A v \in WorkerID :
            \A k, l \in 1..Len(sent'[v]) : k < l => sent'[v][k] < sent'[v][l]
      BY <1>5, ExecSets
  <2> QED BY <1>1, <2>1, <2>2 DEF SortedInv
<1>6. ASSUME NEW w \in WorkerID,
             \/ Exit(w) \/ Check(w) \/ TimerEnds(w) \/ ExecFails(w) \/ Cancel(w) \/ Finish(w)
             \/ Panic(w) \/ Recover(w)
      PROVE  SortedInv'
  <2>1. UNCHANGED <<queue, sent>>
      BY <1>6 DEF Exit, Check, TimerEnds, ExecFails, Cancel, Finish, Panic, Recover
  <2> QED BY <1>1, <2>1 DEF SortedInv
<1> QED BY <1>2, <1>3, <1>4, <1>5, <1>6 DEF QuietStep, Next, ReaderStep, WorkerStep, Ended

LEMMA OrderStep == Inv /\ [Next]_vars => OrderInv'
<1> SUFFICES ASSUME Inv, [Next]_vars PROVE OrderInv'
    OBVIOUS
<1> USE DEF Inv
<1>1. /\ Plan' = Plan /\ Work' = Work /\ WorkerID' = WorkerID
      /\ \A p \in Plan : p \in Nat /\ Work[p] \in WorkerID
      /\ pos \in Nat
    BY Fixed, PlanFacts DEF Types
<1>2. /\ cur \in [WorkerID -> Nat]
      /\ wpc \in [WorkerID -> {"idle", "check", "timer", "exec", "cancel", "finish",
                               "recover", "drain", "done"}]
    BY PlanFacts DEF Types
<1>3. CASE QuietStep
  <2>1. pos' >= pos /\ \A p \in Plan : p < pos' <=> p < pos
      BY <1>3, QuietPos
  <2> QED BY <1>1, <1>3, <2>1, QuietFacts DEF OrderInv, OrderClauses, Past
<1>4. CASE Send
  <2>1. /\ pos \in Plan /\ pos' = pos + 1
        /\ UNCHANGED <<sent, cur, wpc, lost>>
        /\ \A v \in WorkerID : Sent(v)' = Sent(v)
      BY <1>4, SendSets DEF Send, workVars, Sent
  <2>2. \A v \in WorkerID :
            Queued(v)' = IF v = Work[pos] THEN Queued(v) \cup {pos} ELSE Queued(v)
      BY <1>4, SendSets
  <2>3. \A p \in Plan : p < pos => p < pos + 1
      BY <1>1
  <2>4. ASSUME NEW v \in WorkerID PROVE OrderClauses(v)'
    <3>1. \A p \in (Sent(v) \cup Queued(v))' : p \in Plan /\ Work[p] = v /\ p < pos'
      <4>1. \A p \in Sent(v)' : p \in Plan /\ Work[p] = v /\ p < pos'
          BY <2>1, <2>3 DEF OrderInv, OrderClauses
      <4>2. \A p \in Queued(v)' : p \in Plan /\ Work[p] = v /\ p < pos'
        <5>1. pos < pos'
            BY <1>1, <2>1
        <5>2. \A p \in Queued(v) : p \in Plan /\ Work[p] = v /\ p < pos
            BY DEF OrderInv, OrderClauses
        <5>3. \A p \in Queued(v)' : p \in Queued(v) \/ (p = pos /\ v = Work[pos])
            BY <2>2
        <5> QED BY <2>1, <2>3, <5>1, <5>2, <5>3
      <4> QED BY <4>1, <4>2
    <3>2. cur[v] # 0 => cur[v] \in Plan /\ Work[cur[v]] = v /\ cur[v] < pos'
        BY <1>1, <2>1, <2>3 DEF OrderInv, OrderClauses
    <3>3. /\ \A p \in Past(v) : p < pos
          /\ cur[v] < pos
          /\ Past(v)' = Past(v)
      <4>1. pos # 0 /\ cur[v] \in Nat
          BY <1>1, <1>2, <2>1, PlanFacts DEF Types
      <4> QED BY <1>1, <2>1, <4>1 DEF OrderInv, OrderClauses, Past
    <3>4. \A q \in Queued(v)' : cur[v] < q /\ \A p \in Past(v) : p < q
        BY <2>2, <3>3 DEF OrderInv, OrderClauses
    <3>5. wpc[v] \in {"check", "timer", "exec"} => \A p \in Past(v) : p < cur[v]
        BY DEF OrderInv, OrderClauses
    <3> QED BY <1>1, <2>1, <3>1, <3>2, <3>3, <3>4, <3>5 DEF OrderClauses
  <2>5. \A p \in lost' : p \in Plan /\ p < pos'
      BY <1>1, <2>1, <2>3 DEF OrderInv
  <2> QED BY <1>1, <2>4, <2>5 DEF OrderInv
<1>5. ASSUME NEW w \in WorkerID, Take(w) PROVE OrderInv'
  <2>1. /\ queue[w] # << >> /\ queue' = [queue EXCEPT ![w] = Tail(@)]
        /\ cur' = [cur EXCEPT ![w] = Head(queue[w])] /\ wpc' = [wpc EXCEPT ![w] = "check"]
        /\ UNCHANGED <<sent, pos, lost>>
        /\ \A v \in WorkerID : Sent(v)' = Sent(v)
      BY <1>5 DEF Take, Goto, feederVars, Sent
  <2> DEFINE h == Head(queue[w])
  <2>2. /\ h \in Queued(w)
        /\ \A q \in Queued(w)' : q \in Queued(w) /\ h < q
        /\ \A v \in WorkerID : v # w => Queued(v)' = Queued(v)
      BY <2>1, PopSets
  <2>3. /\ cur'[w] = h /\ wpc'[w] = "check"
        /\ \A v \in WorkerID : v # w => cur'[v] = cur[v] /\ wpc'[v] = wpc[v]
      BY <1>2, <2>1
  <2> HIDE DEF h
  <2>4. \A v \in WorkerID : Past(v)' = Past(v)
      BY <1>1, <2>1 DEF Past
  <2>5. ASSUME NEW v \in WorkerID PROVE OrderClauses(v)'
    <3>1. CASE v # w
        BY <1>1, <2>1, <2>2, <2>3, <2>4, <3>1 DEF OrderInv, OrderClauses
    <3>2. CASE v = w
        BY <1>1, <2>1, <2>2, <2>3, <2>4, <3>2 DEF OrderInv, OrderClauses
    <3> QED BY <3>1, <3>2
  <2> QED BY <1>1, <2>1, <2>5 DEF OrderInv
<1>6. ASSUME NEW w \in WorkerID, Drain(w) PROVE OrderInv'
  <2>1. /\ queue[w] # << >> /\ queue' = [queue EXCEPT ![w] = Tail(@)]
        /\ UNCHANGED <<sent, pos, lost, cur, wpc>>
        /\ \A v \in WorkerID : Sent(v)' = Sent(v)
      BY <1>6 DEF Drain, feederVars, workVars, Sent
  <2>2. \A v \in WorkerID : Queued(v)' \subseteq Queued(v)
      BY <2>1, PopSets
  <2> QED BY <1>1, <2>1, <2>2 DEF OrderInv, OrderClauses, Past
<1>7. ASSUME NEW w \in WorkerID, ExecReturns(w) PROVE OrderInv'
  <2>1. /\ wpc[w] = "exec" /\ wpc' = [wpc EXCEPT ![w] = "finish"]
        /\ UNCHANGED <<queue, cur, pos, lost>>
        /\ \A v \in WorkerID : Queued(v)' = Queued(v)
      BY <1>7 DEF ExecReturns, Goto, feederVars, Queued
  <2>2. /\ cur[w] \in Plan
        /\ \A v \in WorkerID : Sent(v)' = IF v = w THEN Sent(v) \cup {cur[w]} ELSE Sent(v)
      BY <1>7, ExecSets
  <2>3. /\ wpc'[w] = "finish" /\ \A v \in WorkerID : v # w => wpc'[v] = wpc[v]
        /\ cur[w] # 0
      BY <1>2, <2>1 DEF PlaceInv, Busy
  <2>4. ASSUME NEW v \in WorkerID PROVE OrderClauses(v)'
    <3>1. CASE v # w
        BY <1>1, <2>1, <2>2, <2>3, <3>1 DEF OrderInv, OrderClauses, Past
    <3>2. CASE v = w
        BY <1>1, <2>1, <2>2, <2>3, <3>2 DEF OrderInv, OrderClauses, Past
    <3> QED BY <3>1, <3>2
  <2> QED BY <1>1, <2>1, <2>4 DEF OrderInv
<1>8. ASSUME NEW w \in WorkerID, ExecFails(w) PROVE OrderInv'
  <2>1. /\ wpc[w] = "exec" /\ wpc' = [wpc EXCEPT ![w] = "cancel"]
        /\ UNCHANGED <<queue, cur, pos, sent>> /\ lost' = lost \cup {cur[w]}
        /\ \A v \in WorkerID : Queued(v)' = Queued(v) /\ Sent(v)' = Sent(v)
      BY <1>8 DEF ExecFails, Goto, feederVars, Queued, Sent
  <2>2. /\ wpc'[w] = "cancel" /\ \A v \in WorkerID : v # w => wpc'[v] = wpc[v]
        /\ cur[w] # 0
      BY <1>2, <2>1 DEF PlaceInv, Busy
  <2>3. cur[w] \in Plan /\ Work[cur[w]] = w /\ cur[w] < pos
      BY <2>2 DEF OrderInv, OrderClauses
  <2>4. ASSUME NEW v \in WorkerID PROVE OrderClauses(v)'
    <3>1. CASE v # w
        BY <1>1, <2>1, <2>2, <2>3, <3>1 DEF OrderInv, OrderClauses, Past
    <3>2. CASE v = w
        BY <1>1, <2>1, <2>2, <2>3, <3>2 DEF OrderInv, OrderClauses, Past
    <3> QED BY <3>1, <3>2
  <2> QED BY <1>1, <2>1, <2>3, <2>4 DEF OrderInv
<1>9. ASSUME NEW w \in WorkerID, Panic(w) PROVE OrderInv'
  <2>1. /\ wpc[w] = "exec" /\ wpc' = [wpc EXCEPT ![w] = "recover"]
        /\ UNCHANGED <<queue, pos, sent>> /\ lost' = lost \cup {cur[w]}
        /\ cur' = [cur EXCEPT ![w] = 0]
        /\ \A v \in WorkerID : Queued(v)' = Queued(v) /\ Sent(v)' = Sent(v)
      BY <1>9 DEF Panic, Goto, feederVars, Queued, Sent
  <2>2. /\ wpc'[w] = "recover" /\ cur'[w] = 0
        /\ \A v \in WorkerID : v # w => wpc'[v] = wpc[v] /\ cur'[v] = cur[v]
        /\ cur[w] # 0
      BY <1>2, <2>1 DEF PlaceInv, Busy
  <2>3. cur[w] \in Plan /\ Work[cur[w]] = w /\ cur[w] < pos
      BY <2>2 DEF OrderInv, OrderClauses
  <2>4. \A v \in WorkerID : \A q \in Queued(v) : q \in Nat /\ 0 < q
      BY <1>1, PlanFacts DEF Types, OrderInv, OrderClauses
  <2>5. ASSUME NEW v \in WorkerID PROVE OrderClauses(v)'
    <3>1. CASE v # w
        BY <1>1, <2>1, <2>2, <2>3, <3>1 DEF OrderInv, OrderClauses, Past
    <3>2. CASE v = w
        BY <1>1, <2>1, <2>2, <2>3, <2>4, <3>2 DEF OrderInv, OrderClauses, Past
    <3> QED BY <3>1, <3>2
  <2> QED BY <1>1, <2>1, <2>3, <2>5 DEF OrderInv
<1>10. ASSUME NEW w \in WorkerID, Finish(w) PROVE OrderInv'
  <2>1. /\ wpc' = [wpc EXCEPT ![w] = "idle"]
        /\ UNCHANGED <<queue, pos, sent, lost>> /\ cur' = [cur EXCEPT ![w] = 0]
        /\ \A v \in WorkerID : Queued(v)' = Queued(v) /\ Sent(v)' = Sent(v)
      BY <1>10 DEF Finish, Goto, feederVars, Queued, Sent
  <2>2. /\ wpc'[w] = "idle" /\ cur'[w] = 0
        /\ \A v \in WorkerID : v # w => wpc'[v] = wpc[v] /\ cur'[v] = cur[v]
      BY <1>2, <2>1
  <2>3. \A v \in WorkerID : \A q \in Queued(v) : q \in Nat /\ 0 < q
      BY <1>1, PlanFacts DEF Types, OrderInv, OrderClauses
  <2> QED BY <1>1, <2>1, <2>2, <2>3 DEF OrderInv, OrderClauses, Past
<1>11. ASSUME NEW w \in WorkerID,
              Exit(w) \/ Check(w) \/ TimerEnds(w) \/ Cancel(w) \/ Recover(w)
       PROVE  OrderInv'
  <2>1. /\ UNCHANGED <<queue, pos, sent, lost, cur>>
        /\ \A v \in WorkerID : Queued(v)' = Queued(v) /\ Sent(v)' = Sent(v)
      BY <1>11 DEF Exit, Check, TimerEnds, Cancel, Recover, feederVars, Queued, Sent
  <2>2. \A v \in WorkerID :
            wpc'[v] \in {"check", "timer", "exec"} => wpc[v] \in {"check", "timer", "exec"}
      BY <1>2, <1>11 DEF Exit, Check, TimerEnds, Cancel, Recover, Goto
  <2> QED BY <1>1, <2>1, <2>2 DEF OrderInv, OrderClauses, Past
<1> QED BY <1>3, <1>4, <1>5, <1>6, <1>7, <1>8, <1>9, <1>10, <1>11
        DEF QuietStep, Next, ReaderStep, WorkerStep, Ended

\* The context of the run stays done once it is.
LEMMA DoneStays == [Next]_vars => (RunCtxDone => RunCtxDone')
    BY DEF RunCtxDone, Next, ReaderStep, WorkerStep, vars, Refuse, Start, StreamCancelled,
           ReadFails, ReadEnd, ReadOther, ReadOp, PassBarrier, Send, SendCancelled, Join, Take,
           Exit, Check, TimerEnds, ExecReturns, ExecFails, Cancel, Finish, Panic, Recover, Drain,
           MonitorPanics, Stop, Ended, errVars

LEMMA SeenStep == Inv /\ [Next]_vars => SeenInv'
<1> SUFFICES ASSUME Inv, [Next]_vars PROVE SeenInv'
    OBVIOUS
<1> USE DEF Inv
<1>1. /\ Plan' = Plan /\ Work' = Work /\ WorkerID' = WorkerID
      /\ \A p \in Plan : p \in Nat /\ p # 0 /\ Work[p] \in WorkerID
      /\ pos \in Nat
    BY Fixed, PlanFacts DEF Types
<1>2. /\ cur \in [WorkerID -> Nat]
      /\ wpc \in [WorkerID -> {"idle", "check", "timer", "exec", "cancel", "finish",
                               "recover", "drain", "done"}]
    BY PlanFacts DEF Types
<1>3. RunCtxDone => RunCtxDone'
    BY DoneStays
<1> DEFINE Seen(p) == p \in Past(Work[p]) \/ p = cur[Work[p]] \/ p \in Queued(Work[p])
<1>4. CASE QuietStep
  <2>1. \A p \in Plan : p < pos' <=> p < pos
      BY <1>4, QuietPos
  <2>2. cancelled => cancelled'
      BY <1>4 DEF QuietStep, Refuse, Start, StreamCancelled, ReadFails, ReadEnd, ReadOther,
             ReadOp, PassBarrier, SendCancelled, Join, MonitorPanics, Stop, vars, errVars
  <2> QED BY <1>1, <1>3, <1>4, <2>1, <2>2, QuietFacts DEF SeenInv, Past
<1>5. CASE Send
  <2>1. /\ pos \in Plan /\ pos' = pos + 1
        /\ UNCHANGED <<sent, cur, wpc, lost, cancelled>>
        /\ \A v \in WorkerID : Sent(v)' = Sent(v)
        /\ \A v \in WorkerID :
              Queued(v)' = IF v = Work[pos] THEN Queued(v) \cup {pos} ELSE Queued(v)
      BY <1>5, SendSets DEF Send, workVars, errVars, Sent
  <2>2. \A v \in WorkerID : Past(v)' = Past(v)
      BY <1>1, <2>1 DEF Past
  <2>3. \A p \in Plan : p < pos' => p < pos \/ p = pos
      BY <1>1, <2>1
  <2>4. ASSUME ~RunCtxDone', NEW p \in Plan, p < pos' PROVE Seen(p)'
    <3>1. CASE p = pos
        BY <1>1, <2>1, <3>1
    <3>2. CASE p < pos
        BY <1>1, <1>3, <2>1, <2>2, <2>4, <3>2 DEF SeenInv
    <3> QED BY <2>3, <2>4, <3>1, <3>2
  <2> QED BY <1>1, <1>3, <2>1, <2>2, <2>4 DEF SeenInv
<1>6. ASSUME NEW w \in WorkerID, Take(w) PROVE SeenInv'
  <2>1. /\ queue[w] # << >> /\ queue' = [queue EXCEPT ![w] = Tail(@)]
        /\ cur' = [cur EXCEPT ![w] = Head(queue[w])] /\ wpc' = [wpc EXCEPT ![w] = "check"]
        /\ UNCHANGED <<sent, pos, lost, cancelled>> /\ wpc[w] = "idle"
        /\ \A v \in WorkerID : Sent(v)' = Sent(v)
      BY <1>6 DEF Take, Goto, feederVars, errVars, Sent
  <2> DEFINE h == Head(queue[w])
  <2>2. /\ Queued(w)' = Queued(w) \ {h}
        /\ \A v \in WorkerID : v # w => Queued(v)' = Queued(v)
      BY <2>1, PopSets
  <2>3. /\ cur'[w] = h /\ wpc'[w] = "check" /\ cur[w] = 0
        /\ \A v \in WorkerID : v # w => cur'[v] = cur[v] /\ wpc'[v] = wpc[v]
      BY <1>2, <2>1 DEF PlaceInv, Busy
  <2> HIDE DEF h
  <2>4. \A v \in WorkerID : Past(v)' = Past(v)
      BY <1>1, <2>1 DEF Past
  <2>5. ASSUME ~RunCtxDone', NEW p \in Plan, p < pos' PROVE Seen(p)'
    <3>1. Seen(p)
        BY <1>3, <2>1, <2>5 DEF SeenInv
    <3> QED BY <1>1, <2>2, <2>3, <2>4, <3>1
  <2>6. \A v \in WorkerID :
            /\ wpc'[v] = "finish" => RunCtxDone' \/ cur'[v] \in Past(v)'
            /\ wpc'[v] = "cancel" => cur'[v] \in Past(v)'
            /\ wpc'[v] = "drain" => cancelled'
      BY <1>3, <2>1, <2>3, <2>4 DEF SeenInv
  <2> QED BY <1>1, <2>5, <2>6 DEF SeenInv
<1>7. ASSUME NEW w \in WorkerID, Drain(w) PROVE SeenInv'
  <2>1. /\ UNCHANGED <<sent, lost, cancelled, cur, wpc>> /\ wpc[w] = "drain"
      BY <1>7 DEF Drain, feederVars, workVars, errVars
  <2>2. RunCtxDone'
      BY <2>1 DEF SeenInv, RunCtxDone
  <2>3. \A v \in WorkerID : Past(v)' = Past(v)
      BY <1>1, <2>1 DEF Past, Sent
  <2> QED BY <1>1, <2>1, <2>2, <2>3 DEF SeenInv
<1>8. ASSUME NEW w \in WorkerID, ExecReturns(w) PROVE SeenInv'
  <2>1. /\ wpc' = [wpc EXCEPT ![w] = "finish"]
        /\ UNCHANGED <<queue, cur, pos, lost, cancelled>>
        /\ \A v \in WorkerID : Queued(v)' = Queued(v)
        /\ \A v \in WorkerID : Sent(v)' = IF v = w THEN Sent(v) \cup {cur[w]} ELSE Sent(v)
      BY <1>8, ExecSets DEF ExecReturns, Goto, feederVars, errVars, Queued
  <2>2. wpc'[w] = "finish" /\ \A v \in WorkerID : v # w => wpc'[v] = wpc[v]
      BY <1>2, <2>1
  <2>3. /\ \A v \in WorkerID : Past(v) \subseteq Past(v)'
        /\ cur[w] \in Past(w)'
      BY <1>1, <2>1 DEF Past
  <2>4. ASSUME ~RunCtxDone', NEW p \in Plan, p < pos' PROVE Seen(p)'
    <3>1. Seen(p)
        BY <1>3, <2>1, <2>4 DEF SeenInv
    <3> QED BY <1>1, <2>1, <2>3, <3>1
  <2>5. \A v \in WorkerID :
            /\ wpc'[v] = "finish" => RunCtxDone' \/ cur'[v] \in Past(v)'
            /\ wpc'[v] = "cancel" => cur'[v] \in Past(v)'
            /\ wpc'[v] = "drain" => cancelled'
      BY <1>3, <2>1, <2>2, <2>3 DEF SeenInv
  <2> QED BY <1>1, <2>4, <2>5 DEF SeenInv
<1>9. ASSUME NEW w \in WorkerID, ExecFails(w) PROVE SeenInv'
  <2>1. /\ wpc' = [wpc EXCEPT ![w] = "cancel"] /\ wpc[w] = "exec"
        /\ UNCHANGED <<queue, cur, pos, sent, cancelled>> /\ lost' = lost \cup {cur[w]}
        /\ \A v \in WorkerID : Queued(v)' = Queued(v) /\ Sent(v)' = Sent(v)
      BY <1>9 DEF ExecFails, Goto, feederVars, Queued, Sent
  <2>2. wpc'[w] = "cancel" /\ \A v \in WorkerID : v # w => wpc'[v] = wpc[v]
      BY <1>2, <2>1
  <2>3. Work[cur[w]] = w
      BY <2>1 DEF PlaceInv, Busy, OrderInv, OrderClauses
  <2>4. /\ \A v \in WorkerID : Past(v) \subseteq Past(v)'
        /\ cur[w] \in Past(w)'
      BY <1>1, <2>1, <2>3 DEF Past
  <2>5. ASSUME ~RunCtxDone', NEW p \in Plan, p < pos' PROVE Seen(p)'
    <3>1. Seen(p)
        BY <1>3, <2>1, <2>5 DEF SeenInv
    <3> QED BY <1>1, <2>1, <2>4, <3>1
  <2>6. \A v \in WorkerID :
            /\ wpc'[v] = "finish" => RunCtxDone' \/ cur'[v] \in Past(v)'
            /\ wpc'[v] = "cancel" => cur'[v] \in Past(v)'
            /\ wpc'[v] = "drain" => cancelled'
      BY <1>3, <2>1, <2>2, <2>4 DEF SeenInv
  <2> QED BY <1>1, <2>5, <2>6 DEF SeenInv
<1>10. ASSUME NEW w \in WorkerID, Panic(w) PROVE SeenInv'
  <2>1. /\ wpc' = [wpc EXCEPT ![w] = "recover"] /\ wpc[w] = "exec"
        /\ UNCHANGED <<queue, pos, sent, cancelled>> /\ lost' = lost \cup {cur[w]}
        /\ cur' = [cur EXCEPT ![w] = 0]
        /\ \A v \in WorkerID : Queued(v)' = Queued(v) /\ Sent(v)' = Sent(v)
      BY <1>10 DEF Panic, Goto, feederVars, errVars, Queued, Sent
  <2>2. /\ wpc'[w] = "recover" /\ \A v \in WorkerID : v # w => wpc'[v] = wpc[v]
        /\ cur'[w] = 0 /\ \A v \in WorkerID : v # w => cur'[v] = cur[v]
      BY <1>2, <2>1
  <2>3. Work[cur[w]] = w
      BY <2>1 DEF PlaceInv, Busy, OrderInv, OrderClauses
  <2>4. /\ \A v \in WorkerID : Past(v) \subseteq Past(v)'
        /\ cur[w] \in Past(w)'
      BY <1>1, <2>1, <2>3 DEF Past
  <2>5. ASSUME ~RunCtxDone', NEW p \in Plan, p < pos' PROVE Seen(p)'
    <3>1. Seen(p)
        BY <1>3, <2>1, <2>5 DEF SeenInv
    <3> QED BY <1>1, <2>1, <2>2, <2>4, <3>1
  <2>6. \A v \in WorkerID :
            /\ wpc'[v] = "finish" => RunCtxDone' \/ cur'[v] \in Past(v)'
            /\ wpc'[v] = "cancel" => cur'[v] \in Past(v)'
            /\ wpc'[v] = "drain" => cancelled'
      BY <1>3, <2>1, <2>2, <2>4 DEF SeenInv
  <2> QED BY <1>1, <2>5, <2>6 DEF SeenInv
<1>11. ASSUME NEW w \in WorkerID, Finish(w) PROVE SeenInv'
  <2>1. /\ wpc' = [wpc EXCEPT ![w] = "idle"] /\ wpc[w] = "finish"
        /\ UNCHANGED <<queue, pos, sent, cancelled, lost>>
        /\ cur' = [cur EXCEPT ![w] = 0]
        /\ \A v \in WorkerID : Queued(v)' = Queued(v) /\ Sent(v)' = Sent(v)
      BY <1>11 DEF Finish, Goto, feederVars, errVars, Queued, Sent
  <2>2. /\ wpc'[w] = "idle" /\ \A v \in WorkerID : v # w => wpc'[v] = wpc[v]
        /\ cur'[w] = 0 /\ \A v \in WorkerID : v # w => cur'[v] = cur[v]
      BY <1>2, <2>1
  <2>3. \A v \in WorkerID : Past(v)' = Past(v)
      BY <1>1, <2>1 DEF Past
  <2>4. ASSUME ~RunCtxDone', NEW p \in Plan, p < pos' PROVE Seen(p)'
    <3>1. Seen(p)
        BY <1>3, <2>1, <2>4 DEF SeenInv
    <3>2. cur[w] \in Past(w)
        BY <1>3, <2>1, <2>4 DEF SeenInv
    <3> QED BY <1>1, <2>1, <2>2, <2>3, <3>1, <3>2
  <2>5. \A v \in WorkerID :
            /\ wpc'[v] = "finish" => RunCtxDone' \/ cur'[v] \in Past(v)'
            /\ wpc'[v] = "cancel" => cur'[v] \in Past(v)'
            /\ wpc'[v] = "drain" => cancelled'
      BY <1>3, <2>1, <2>2, <2>3 DEF SeenInv
  <2> QED BY <1>1, <2>4, <2>5 DEF SeenInv
<1>12. ASSUME NEW w \in WorkerID,
              Exit(w) \/ Check(w) \/ TimerEnds(w) \/ Cancel(w) \/ Recover(w)
       PROVE  SeenInv'
  <2>1. /\ UNCHANGED <<queue, pos, sent, lost, cur>>
        /\ \A v \in WorkerID : Queued(v)' = Queued(v) /\ Sent(v)' = Sent(v)
        /\ cancelled => cancelled'
      BY <1>12 DEF Exit, Check, TimerEnds, Cancel, Recover, feederVars, errVars, Queued, Sent
  <2>2. \A v \in WorkerID : Past(v)' = Past(v)
      BY <1>1, <2>1 DEF Past
  <2>3. \A v \in WorkerID :
            /\ wpc'[v] = "finish" => RunCtxDone' \/ wpc[v] = "finish"
            /\ wpc'[v] = "cancel" => wpc[v] = "cancel"
            /\ wpc'[v] = "drain" => cancelled' \/ wpc[v] = "drain"
      BY <1>2, <1>12 DEF Exit, Check, TimerEnds, Cancel, Recover, Goto, RunCtxDone, errVars
  <2> QED BY <1>1, <1>3, <2>1, <2>2, <2>3 DEF SeenInv
<1> QED BY <1>4, <1>5, <1>6, <1>7, <1>8, <1>9, <1>10, <1>11, <1>12
        DEF QuietStep, Next, ReaderStep, WorkerStep, Ended

LEMMA CauseStep == Inv /\ [Next]_vars => CauseInv'
<1> SUFFICES ASSUME Inv, [Next]_vars PROVE CauseInv'
    OBVIOUS
<1> USE DEF Inv
<1>1. /\ Plan' = Plan /\ Work' = Work /\ WorkerID' = WorkerID /\ lines' = lines
      /\ \A p \in Plan : Work[p] \in WorkerID
      /\ \A p \in lost : p \in Plan
      /\ pos \in 1..Len(lines) + 1 /\ Len(lines) \in Nat
    BY Fixed, PlanFacts DEF Types, OrderInv
<1>2. wpc \in [WorkerID -> {"idle", "check", "timer", "exec", "cancel", "finish",
                            "recover", "drain", "done"}]
    BY DEF Types
<1>3. RunCtxDone => RunCtxDone'
    BY DoneStays
<1>4. CASE \/ Refuse \/ Start \/ ReadOther \/ ReadOp \/ PassBarrier \/ Send \/ Join
           \/ UNCHANGED vars
  <2>1. /\ UNCHANGED <<streamErr, wpc, cancelled, execErr, panicErr, lost>>
        /\ ctl' = "join" => ctl = "join" /\ pos' = pos
        /\ ctl \in {"join", "ended"} => ctl' \in {"join", "ended"}
      BY <1>4 DEF Refuse, Start, ReadOther, ReadOp, PassBarrier, Send, Join, vars, workVars,
             feederVars, errVars
  <2> QED BY <1>1, <1>2, <1>3, <2>1 DEF CauseInv
<1>5. CASE StreamCancelled \/ ReadFails \/ ReadEnd \/ SendCancelled
  <2>1. /\ UNCHANGED <<wpc, cancelled, execErr, panicErr, lost, pos>>
        /\ ctl' = "join"
        /\ streamErr' = "cancelled" => RunCtxDone
        /\ streamErr' = "none" => pos = Len(lines) + 1
      BY <1>1, <1>5 DEF StreamCancelled, ReadFails, ReadEnd, SendCancelled, EndStream, workVars,
             errVars
  <2> QED BY <1>1, <1>2, <1>3, <2>1 DEF CauseInv
<1>6. CASE MonitorPanics \/ Stop
  <2>1. /\ UNCHANGED <<ctl, pos, streamErr, wpc, lost, execErr>>
        /\ panicErr => panicErr'
        /\ cancelled => cancelled'
        /\ cancelled' => cancelled \/ panicErr'
      BY <1>6 DEF MonitorPanics, Stop, feederVars, workVars, errVars
  <2> QED BY <1>1, <1>2, <1>3, <2>1 DEF CauseInv
<1>7. ASSUME NEW w \in WorkerID,
             \/ Take(w) \/ Exit(w) \/ Check(w) \/ TimerEnds(w) \/ ExecReturns(w) \/ Finish(w)
             \/ Drain(w)
      PROVE  CauseInv'
  <2>1. /\ UNCHANGED <<ctl, pos, streamErr, cancelled, execErr, panicErr, lost>>
        /\ \A v \in WorkerID :
              /\ wpc[v] \in {"cancel", "recover"} => wpc'[v] = wpc[v]
              /\ wpc'[v] = "cancel" => wpc[v] = "cancel"
      BY <1>2, <1>7 DEF Take, Exit, Check, TimerEnds, ExecReturns, Finish, Drain, Goto,
             feederVars, workVars, errVars
  <2> QED BY <1>1, <1>3, <2>1 DEF CauseInv
<1>8. ASSUME NEW w \in WorkerID, ExecFails(w) PROVE CauseInv'
  <2>1. /\ UNCHANGED <<ctl, pos, streamErr, cancelled, panicErr>>
        /\ execErr' /\ lost' = lost \cup {cur[w]} /\ wpc[w] = "exec"
        /\ wpc'[w] = "cancel" /\ \A v \in WorkerID : v # w => wpc'[v] = wpc[v]
      BY <1>2, <1>8 DEF ExecFails, Goto, feederVars
  <2>2. Work[cur[w]] = w
      BY <2>1 DEF PlaceInv, Busy, OrderInv, OrderClauses
  <2>3. \A p \in lost' : cancelled' \/ wpc'[Work[p]] \in {"cancel", "recover"}
      BY <1>1, <2>1, <2>2 DEF CauseInv
  <2> QED BY <1>1, <1>3, <2>1, <2>3 DEF CauseInv
<1>9. ASSUME NEW w \in WorkerID, Panic(w) PROVE CauseInv'
  <2>1. /\ UNCHANGED <<ctl, pos, streamErr, cancelled, panicErr, execErr>>
        /\ lost' = lost \cup {cur[w]} /\ wpc[w] = "exec"
        /\ wpc'[w] = "recover" /\ \A v \in WorkerID : v # w => wpc'[v] = wpc[v]
      BY <1>2, <1>9 DEF Panic, Goto, feederVars, errVars
  <2>2. Work[cur[w]] = w
      BY <2>1 DEF PlaceInv, Busy, OrderInv, OrderClauses
  <2>3. \A p \in lost' : /\ cancelled' \/ wpc'[Work[p]] \in {"cancel", "recover"}
                         /\ execErr' \/ panicErr' \/ wpc'[Work[p]] = "recover"
      BY <1>1, <2>1, <2>2 DEF CauseInv
  <2> QED BY <1>1, <1>3, <2>1, <2>3 DEF CauseInv
<1>10. ASSUME NEW w \in WorkerID, Cancel(w) PROVE CauseInv'
  <2>1. /\ UNCHANGED <<ctl, pos, streamErr, panicErr, execErr, lost>>
        /\ cancelled' /\ wpc[w] = "cancel"
        /\ \A v \in WorkerID : wpc'[v] = IF v = w THEN "finish" ELSE wpc[v]
      BY <1>2, <1>10 DEF Cancel, Goto, feederVars
  <2>2. execErr'
      BY <2>1 DEF CauseInv
  <2> QED BY <1>1, <1>3, <2>1, <2>2 DEF CauseInv
<1>11. ASSUME NEW w \in WorkerID, Recover(w) PROVE CauseInv'
  <2>1. /\ UNCHANGED <<ctl, pos, streamErr, execErr, lost>>
        /\ cancelled' /\ panicErr' /\ wpc[w] = "recover"
        /\ \A v \in WorkerID : wpc'[v] = IF v = w THEN "drain" ELSE wpc[v]
      BY <1>2, <1>11 DEF Recover, Goto, feederVars
  <2> QED BY <1>1, <1>3, <2>1 DEF CauseInv
<1> QED BY <1>4, <1>5, <1>6, <1>7, <1>8, <1>9, <1>10, <1>11
        DEF Next, ReaderStep, WorkerStep, Ended

LEMMA TurnStep == Inv /\ [Next]_vars => TurnInv'
<1> SUFFICES ASSUME Inv, [Next]_vars PROVE TurnInv'
    OBVIOUS
<1> USE DEF Inv
<1>1. /\ Plan' = Plan /\ Work' = Work /\ WorkerID' = WorkerID
      /\ \A p \in Plan : p \in Nat /\ p # 0 /\ Work[p] \in WorkerID
    BY Fixed, PlanFacts DEF Types
<1>2. /\ cur \in [WorkerID -> Nat]
      /\ wpc \in [WorkerID -> {"idle", "check", "timer", "exec", "cancel", "finish",
                               "recover", "drain", "done"}]
    BY PlanFacts DEF Types
<1>3. ASSUME \A v \in WorkerID :
                 /\ Sent(v)' = Sent(v)
                 /\ wpc'[v] \in {"timer", "exec"} =>
                       wpc[v] \in {"timer", "exec"} /\ cur'[v] = cur[v]
      PROVE  TurnInv'
    BY <1>1, <1>3 DEF TurnInv
<1>4. CASE QuietStep
    BY <1>3, <1>4, QuietFacts
<1>5. CASE Send
    BY <1>3, <1>5 DEF Send, workVars, Sent
<1>6. ASSUME NEW w \in WorkerID,
             \/ Take(w) \/ Exit(w) \/ TimerEnds(w) \/ ExecFails(w) \/ Cancel(w) \/ Finish(w)
             \/ Panic(w) \/ Recover(w) \/ Drain(w)
      PROVE  TurnInv'
  <2>1. UNCHANGED sent
      BY <1>6 DEF Take, Exit, TimerEnds, ExecFails, Cancel, Finish, Panic, Recover, Drain
  <2>2. \A v \in WorkerID : wpc'[v] \in {"timer", "exec"} =>
                                wpc[v] \in {"timer", "exec"} /\ cur'[v] = cur[v]
      BY <1>2, <1>6 DEF Take, Exit, TimerEnds, ExecFails, Cancel, Finish, Panic, Recover, Drain,
             Goto, workVars
  <2> QED BY <1>3, <2>1, <2>2 DEF Sent
<1>7. ASSUME NEW w \in WorkerID, Check(w) PROVE TurnInv'
  <2>1. /\ UNCHANGED <<sent, cur>> /\ wpc[w] = "check"
        /\ \A v \in WorkerID : Sent(v)' = Sent(v)
        /\ \A v \in WorkerID : v # w => wpc'[v] = wpc[v]
        /\ wpc'[w] \in {"timer", "exec"} => ~RunCtxDone
      BY <1>2, <1>7 DEF Check, Goto, Sent
  <2>2. ASSUME wpc'[w] \in {"timer", "exec"}, NEW p \in Plan, Work[p] = w, p < cur[w]
        PROVE  p \in Sent(w)
    <3>1. cur[w] \in Plan /\ cur[w] < pos /\ pos \in Nat
        BY <2>1 DEF PlaceInv, Busy, OrderInv, OrderClauses, Types
    <3>2. p < pos
        BY <1>1, <2>2, <3>1
    <3>3. p \in Past(w) \/ p = cur[w] \/ p \in Queued(w)
        BY <2>1, <2>2, <3>2 DEF SeenInv
    <3>4. p \notin Queued(w)
        BY <1>1, <2>2, <3>1 DEF OrderInv, OrderClauses
    <3>5. p \notin lost
        BY <2>1, <2>2 DEF CauseInv, RunCtxDone
    <3> QED BY <1>1, <2>2, <3>1, <3>3, <3>4, <3>5 DEF Past
  <2> QED BY <1>1, <2>1, <2>2 DEF TurnInv
<1>8. ASSUME NEW w \in WorkerID, ExecReturns(w) PROVE TurnInv'
  <2>1. /\ UNCHANGED cur /\ wpc[w] = "exec"
        /\ wpc'[w] = "finish" /\ \A v \in WorkerID : v # w => wpc'[v] = wpc[v]
      BY <1>2, <1>8 DEF ExecReturns, Goto
  <2>2. /\ cur[w] \in Plan
        /\ \A v \in WorkerID : Sent(v)' = IF v = w THEN Sent(v) \cup {cur[w]} ELSE Sent(v)
      BY <1>8, ExecSets
  <2>3. ASSUME NEW v \in WorkerID PROVE
            \A p \in Plan, q \in Sent(v)' : Work[p] = v /\ p <= q => p \in Sent(v)'
    <3>1. CASE v # w
        BY <2>2, <3>1 DEF TurnInv
    <3>2. CASE v = w
      <4> SUFFICES ASSUME NEW p \in Plan, NEW q \in Sent(w)', Work[p] = w, p <= q
                   PROVE  p \in Sent(w)'
          BY <3>2
      <4>1. CASE q \in Sent(w)
          BY <2>2, <4>1 DEF TurnInv
      <4>2. CASE q = cur[w]
        <5>1. p = cur[w] \/ p < cur[w]
            BY <1>1, <2>2, <4>2
        <5> QED BY <2>1, <2>2, <5>1 DEF TurnInv
      <4> QED BY <2>2, <4>1, <4>2
    <3> QED BY <3>1, <3>2
  <2>4. ASSUME NEW v \in WorkerID, wpc'[v] \in {"timer", "exec"} PROVE
            \A p \in Plan : Work[p] = v /\ p < cur[v] => p \in Sent(v)'
      BY <2>1, <2>2, <2>4 DEF TurnInv
  <2> QED BY <1>1, <2>1, <2>3, <2>4 DEF TurnInv
<1> QED BY <1>4, <1>5, <1>6, <1>7, <1>8 DEF QuietStep, Next, ReaderStep, WorkerStep, Ended

\* All that is handed to a queue and not yet taken.
AllQueued == UNION {Queued(w) : w \in WorkerID}

AtWork == {w \in WorkerID : cur[w] # 0}

LEMMA OutstandingFinite ==
    ASSUME Types, OrderInv
    PROVE  /\ IsFiniteSet(AllQueued) /\ IsFiniteSet(AtWork)
           /\ Cardinality(AllQueued) \in Nat /\ Cardinality(AtWork) \in Nat
<1>1. IsFiniteSet(Plan)
    BY PlanFacts DEF Types
<1>2. AllQueued \subseteq Plan
    BY DEF AllQueued, OrderInv, OrderClauses
<1>3. IsFiniteSet(WorkerID)
  <2>1. 1 \in Int /\ Workers \in Int
      BY ReplayAssumption
  <2> QED BY <2>1, FS_Interval DEF WorkerID
<1>4. IsFiniteSet(AllQueued) /\ IsFiniteSet(AtWork)
  <2>1. AtWork \subseteq WorkerID
      BY DEF AtWork
  <2> QED BY <1>1, <1>2, <1>3, <2>1, FS_Subset
<1> QED BY <1>4, FS_CardinalityType

\* When pending.Wait returns, nothing is handled and nothing waits.
LEMMA Drained ==
    ASSUME Inv, pending = 0, ctl # "send"
    PROVE  \A w \in WorkerID : Queued(w) = {} /\ cur[w] = 0
<1>1. Cardinality(AllQueued) = 0 /\ Cardinality(AtWork) = 0
  <2>1. Cardinality(AllQueued) \in Nat /\ Cardinality(AtWork) \in Nat
      BY OutstandingFinite DEF Inv
  <2>2. 0 = Cardinality(AllQueued) + Cardinality(AtWork) + 0
      BY DEF Inv, CountInv, PendingIsOutstanding, AllQueued, AtWork
  <2> QED BY <2>1, <2>2
<1>2. AllQueued = {} /\ AtWork = {}
    BY <1>1, OutstandingFinite, FS_EmptySet DEF Inv
<1> QED BY <1>2 DEF AllQueued, AtWork

LEMMA IterStep == Inv /\ [Next]_vars => IterInv'
<1> SUFFICES ASSUME Inv, [Next]_vars PROVE IterInv'
    OBVIOUS
<1> USE DEF Inv
<1>1. /\ Plan' = Plan /\ Work' = Work /\ Iter' = Iter /\ WorkerID' = WorkerID
      /\ \A p \in Plan : p \in Nat /\ p # 0 /\ Work[p] \in WorkerID /\ Iter[p] \in Nat
      /\ \A p \in Plan : Iter[p] = OpIteration(lines[p])
      /\ \A p, q \in Plan : p < q => Iter[p] <= Iter[q]
      /\ pos \in Nat /\ iteration \in Nat
    BY Fixed, PlanFacts DEF Types, Iter
<1>2. /\ cur \in [WorkerID -> Nat]
      /\ wpc \in [WorkerID -> {"idle", "check", "timer", "exec", "cancel", "finish",
                               "recover", "drain", "done"}]
    BY PlanFacts DEF Types
<1>3. RunCtxDone => RunCtxDone'
    BY DoneStays
<1>4. Over \subseteq Over'
  <2>1. ASSUME \A v \in WorkerID : Sent(v)' = Sent(v), lost \subseteq lost'
        PROVE  Over \subseteq Over'
      BY <1>1, <2>1 DEF Over, Ran
  <2>2. CASE QuietStep
      BY <2>1, <2>2, QuietFacts
  <2>3. CASE Send
      BY <2>1, <2>3 DEF Send, Sent
  <2>4. ASSUME NEW w \in WorkerID,
               \/ Take(w) \/ Exit(w) \/ Check(w) \/ TimerEnds(w) \/ ExecFails(w) \/ Cancel(w)
               \/ Finish(w) \/ Panic(w) \/ Recover(w) \/ Drain(w)
        PROVE  Over \subseteq Over'
      BY <2>1, <2>4 DEF Take, Exit, Check, TimerEnds, ExecFails, Cancel, Finish, Panic, Recover,
             Drain, Sent
  <2>5. ASSUME NEW w \in WorkerID, ExecReturns(w) PROVE Over \subseteq Over'
    <3>1. \A v \in WorkerID : Sent(v) \subseteq Sent(v)'
        BY <2>5, ExecSets
    <3>2. UNCHANGED lost
        BY <2>5 DEF ExecReturns
    <3> QED BY <1>1, <3>1, <3>2 DEF Over, Ran
  <2> QED BY <2>2, <2>3, <2>4, <2>5 DEF QuietStep, Next, ReaderStep, WorkerStep, Ended
<1>5. ASSUME \A p \in Plan : p < pos' => p < pos, UNCHANGED iteration,
             \A v \in WorkerID :
                 wpc'[v] \in {"timer", "exec"} =>
                     wpc[v] \in {"timer", "exec"} /\ cur'[v] = cur[v]
      PROVE  IterInv'
    BY <1>1, <1>3, <1>4, <1>5 DEF IterInv
<1>6. CASE QuietStep /\ ~PassBarrier
  <2>1. UNCHANGED iteration
      BY <1>6 DEF QuietStep, Refuse, Start, StreamCancelled, ReadFails, ReadEnd, ReadOther,
             ReadOp, SendCancelled, Join, MonitorPanics, Stop, vars, feederVars
  <2> QED BY <1>5, <1>6, <2>1, QuietFacts, QuietPos
<1>7. CASE PassBarrier
  <2>1. /\ ctl = "barrier" /\ pending = 0 /\ UNCHANGED <<pos, wpc, cur>>
        /\ iteration' = Iter[pos] /\ pos \in Plan
      BY <1>1, <1>7 DEF PassBarrier, PlaceInv, workVars
  <2>2. \A p \in Plan : p < pos => Iter[p] <= iteration'
      BY <1>1, <2>1
  <2>3. ASSUME ~RunCtxDone', NEW p \in Plan, Iter[p] < iteration' PROVE p \in Over
    <3>1. p < pos
        BY <1>1, <2>1, <2>3
    <3>2. p \in Past(Work[p]) \/ p = cur[Work[p]] \/ p \in Queued(Work[p])
        BY <1>3, <2>3, <3>1 DEF SeenInv
    <3>3. Queued(Work[p]) = {} /\ cur[Work[p]] = 0
        BY <1>1, <2>1, Drained
    <3> QED BY <1>1, <3>2, <3>3 DEF Past, Over, Ran
  <2> QED BY <1>1, <1>3, <1>4, <2>1, <2>2, <2>3 DEF IterInv
<1>8. CASE Send
  <2>1. /\ pos' = pos + 1 /\ UNCHANGED <<iteration, wpc, cur>> /\ iteration = Iter[pos]
      BY <1>8 DEF Send, PlaceInv, workVars
  <2>2. \A p \in Plan : p < pos' => p < pos \/ p = pos
      BY <1>1, <2>1
  <2>3. \A p \in Plan : p < pos' => Iter[p] <= iteration
      BY <1>1, <2>1, <2>2 DEF IterInv
  <2> QED BY <1>1, <1>3, <1>4, <2>1, <2>3 DEF IterInv
<1>9. ASSUME NEW w \in WorkerID, Check(w) PROVE IterInv'
  <2>1. /\ UNCHANGED <<pos, iteration, cur>> /\ wpc[w] = "check"
        /\ \A v \in WorkerID : v # w => wpc'[v] = wpc[v]
        /\ wpc'[w] \in {"timer", "exec"} => ~RunCtxDone
      BY <1>2, <1>9 DEF Check, Goto, feederVars
  <2>2. ASSUME wpc'[w] \in {"timer", "exec"}, NEW p \in Plan, Iter[p] < Iter[cur[w]]
        PROVE  p \in Over
    <3>1. cur[w] \in Plan /\ cur[w] < pos
        BY <2>1 DEF PlaceInv, Busy, OrderInv, OrderClauses
    <3>2. Iter[cur[w]] <= iteration
        BY <3>1 DEF IterInv
    <3>3. Iter[p] < iteration
        BY <1>1, <2>2, <3>1, <3>2
    <3> QED BY <2>1, <2>2, <3>3 DEF IterInv
  <2> QED BY <1>1, <1>3, <1>4, <2>1, <2>2 DEF IterInv
<1>10. ASSUME NEW w \in WorkerID,
              \/ Take(w) \/ Exit(w) \/ TimerEnds(w) \/ ExecReturns(w) \/ ExecFails(w)
              \/ Cancel(w) \/ Finish(w) \/ Panic(w) \/ Recover(w) \/ Drain(w)
       PROVE  IterInv'
  <2>1. UNCHANGED <<pos, iteration>>
      BY <1>10 DEF Take, Exit, TimerEnds, ExecReturns, ExecFails, Cancel, Finish, Panic, Recover,
             Drain, feederVars
  <2>2. \A v \in WorkerID : wpc'[v] \in {"timer", "exec"} =>
                                wpc[v] \in {"timer", "exec"} /\ cur'[v] = cur[v]
      BY <1>2, <1>10 DEF Take, Exit, TimerEnds, ExecReturns, ExecFails, Cancel, Finish, Panic,
             Recover, Drain, Goto, workVars
  <2> QED BY <1>5, <2>1, <2>2
<1> QED BY <1>6, <1>7, <1>8, <1>9, <1>10 DEF QuietStep, Next, ReaderStep, WorkerStep, Ended

\* The head of a queue leaves what is queued.
LEMMA PopCount ==
    ASSUME Types, SortedInv, OrderInv, NEW w \in WorkerID, queue[w] # << >>,
           queue' = [queue EXCEPT ![w] = Tail(@)]
    PROVE  Cardinality(AllQueued') = Cardinality(AllQueued) - 1
<1> DEFINE h == Head(queue[w])
<1>1. /\ h \in Queued(w) /\ Queued(w)' = Queued(w) \ {h}
      /\ \A v \in WorkerID : v # w => Queued(v)' = Queued(v)
    BY PopSets
<1> HIDE DEF h
<1>2. \A v \in WorkerID : v # w => h \notin Queued(v)
    BY <1>1 DEF OrderInv, OrderClauses
<1>3. AllQueued' = AllQueued \ {h} /\ h \in AllQueued
  <2>1. WorkerID' = WorkerID
      BY DEF WorkerID
  <2> QED BY <1>1, <1>2, <2>1 DEF AllQueued
<1>4. IsFiniteSet(AllQueued)
    BY OutstandingFinite
<1> QED BY <1>3, <1>4, FS_RemoveElement

LEMMA CountStep == Inv /\ [Next]_vars => CountInv'
<1> SUFFICES ASSUME Inv, [Next]_vars PROVE CountInv'
    OBVIOUS
<1> USE DEF Inv
<1> DEFINE sending == IF ctl = "send" THEN 1 ELSE 0
<1>1. /\ Plan' = Plan /\ Work' = Work /\ WorkerID' = WorkerID /\ setup' = setup /\ lines' = lines
      /\ pos \in Nat /\ pos # 0
      /\ DOMAIN lines = 1..Len(lines) /\ Len(lines) \in Nat /\ pos <= Len(lines) + 1
    BY Fixed, PlanFacts DEF Types
<1>2. /\ cur \in [WorkerID -> Nat]
      /\ wpc \in [WorkerID -> {"idle", "check", "timer", "exec", "cancel", "finish",
                               "recover", "drain", "done"}]
    BY PlanFacts DEF Types
<1>3. /\ Cardinality(AllQueued) \in Nat /\ Cardinality(AtWork) \in Nat
      /\ IsFiniteSet(AllQueued) /\ IsFiniteSet(AtWork)
    BY OutstandingFinite
<1>4. pending = Cardinality(AllQueued) + Cardinality(AtWork) + sending
    BY DEF CountInv, PendingIsOutstanding, AllQueued, AtWork
<1>5. SUFFICES ASSUME pending' # Cardinality(AllQueued') + Cardinality(AtWork') + sending'
               PROVE  FALSE
  <2>1. skipped' = Cardinality(SkippedBelow(pos)')
    <3>1. \A n : SkippedBelow(n)' = {i \in 1..(n' - 1) : IsOp(lines[i]) /\ SkipsWrite(i)}
        BY <1>1 DEF SkippedBelow, SkipsWrite
    <3>2. CASE UNCHANGED <<pos, skipped>>
        BY <1>1, <3>2 DEF CountInv, SkippedBelow, SkipsWrite
    <3>3. SkippedBelow(pos)' = {i \in 1..(pos' - 1) : IsOp(lines[i]) /\ SkipsWrite(i)}
        BY <1>1 DEF SkippedBelow, SkipsWrite
    <3>4. ASSUME pos' = pos + 1
          PROVE  /\ IsOp(lines[pos]) /\ SkipsWrite(pos) =>
                       SkippedBelow(pos)' = SkippedBelow(pos) \cup {pos}
                 /\ ~(IsOp(lines[pos]) /\ SkipsWrite(pos)) =>
                       SkippedBelow(pos)' = SkippedBelow(pos)
      <4>1. \A i : i \in 1..(pos' - 1) <=> i \in 1..(pos - 1) \/ i = pos
          BY <1>1, <3>4
      <4> QED BY <3>3, <4>1 DEF SkippedBelow
    <3>5. IsFiniteSet(SkippedBelow(pos)) /\ pos \notin SkippedBelow(pos)
      <4>1. IsFiniteSet(1..(pos - 1)) /\ pos \notin 1..(pos - 1)
          BY <1>1, FS_Interval
      <4>2. SkippedBelow(pos) \in SUBSET (1..(pos - 1))
          BY DEF SkippedBelow
      <4> QED BY <4>1, <4>2, FS_Subset
    <3>6. CASE ReadOther
      <4>1. CASE IsOp(lines[pos])
        <5>1. skipped' = skipped + 1 /\ SkippedBelow(pos)' = SkippedBelow(pos) \cup {pos}
            BY <3>4, <3>6, <4>1 DEF ReadOther
        <5>2. Cardinality(SkippedBelow(pos) \cup {pos}) = Cardinality(SkippedBelow(pos)) + 1
            BY <3>5, FS_AddElement
        <5> QED BY <5>1, <5>2 DEF CountInv
      <4>2. CASE ~IsOp(lines[pos])
          BY <3>4, <3>6, <4>2 DEF ReadOther, CountInv
      <4> QED BY <4>1, <4>2
    <3>7. CASE Send
      <4>1. pos' = pos + 1 /\ UNCHANGED skipped /\ ~SkipsWrite(pos)
          BY <3>7 DEF Send, PlaceInv, Plan
      <4> QED BY <3>4, <4>1 DEF CountInv
    <3>8. ReadOther \/ Send \/ UNCHANGED <<pos, skipped>>
        BY DEF Next, ReaderStep, WorkerStep, vars, feederVars, Refuse, Start, StreamCancelled,
               ReadFails, ReadEnd, ReadOp, PassBarrier, SendCancelled, Join, Take, Exit, Check,
               TimerEnds, ExecReturns, ExecFails, Cancel, Finish, Panic, Recover, Drain,
               MonitorPanics, Stop, Ended
    <3> QED BY <3>2, <3>6, <3>7, <3>8
  <2> QED BY <2>1 DEF CountInv, PendingIsOutstanding, AllQueued, AtWork
<1>6. CASE UNCHANGED <<queue, cur>>
  <2>1. AllQueued' = AllQueued /\ AtWork' = AtWork
      BY <1>1, <1>6 DEF AllQueued, AtWork, Queued
  <2>2. \/ pending' = pending /\ sending' = sending
        \/ pending' = pending + 1 /\ ctl # "send" /\ ctl' = "send"
        \/ pending' = pending - 1 /\ ctl = "send" /\ ctl' # "send"
    <3>1. CASE QuietStep
        BY <3>1 DEF QuietStep, Refuse, Start, StreamCancelled, ReadFails, ReadEnd, ReadOther,
               ReadOp, PassBarrier, SendCancelled, Join, MonitorPanics, Stop, EndStream, vars,
               feederVars
    <3>2. CASE Send
      <4>1. AllQueued' = AllQueued \cup {pos} /\ pos \notin AllQueued
        <5>1. Work[pos] \in WorkerID
            BY <3>2, SendSets
        <5>2. \A v \in WorkerID :
                  Queued(v)' = IF v = Work[pos] THEN Queued(v) \cup {pos} ELSE Queued(v)
            BY <3>2, SendSets
        <5>3. \A v \in WorkerID : pos \notin Queued(v)
            BY <1>1 DEF OrderInv, OrderClauses
        <5> QED BY <1>1, <5>1, <5>2, <5>3 DEF AllQueued
      <4> QED BY <2>1, <4>1
    <3>3. ASSUME NEW w \in WorkerID, Take(w) \/ Drain(w) PROVE FALSE
      <4>1. Cardinality(AllQueued') = Cardinality(AllQueued) - 1
          BY <3>3, PopCount DEF Take, Drain
      <4> QED BY <1>3, <2>1, <4>1
    <3>4. ASSUME NEW w \in WorkerID, Finish(w) \/ Panic(w) PROVE FALSE
      <4>1. cur[w] # 0 /\ cur'[w] = 0
          BY <1>2, <3>4 DEF Finish, Panic, PlaceInv, Busy
      <4> QED BY <1>6, <4>1
    <3>5. ASSUME NEW w \in WorkerID,
                 \/ Exit(w) \/ Check(w) \/ TimerEnds(w) \/ ExecReturns(w) \/ ExecFails(w)
                 \/ Cancel(w) \/ Recover(w)
          PROVE  pending' = pending /\ sending' = sending
        BY <3>5 DEF Exit, Check, TimerEnds, ExecReturns, ExecFails, Cancel, Recover, feederVars
    <3> QED BY <3>1, <3>2, <3>3, <3>4, <3>5 DEF QuietStep, Next, ReaderStep, WorkerStep, Ended
  <2> QED BY <1>3, <1>4, <1>5, <2>1, <2>2
<1>7. CASE Send
  <2>1. Work[pos] \in WorkerID
      BY <1>7, SendSets
  <2>2. \A v \in WorkerID :
            Queued(v)' = IF v = Work[pos] THEN Queued(v) \cup {pos} ELSE Queued(v)
      BY <1>7, SendSets
  <2>3. \A v \in WorkerID : pos \notin Queued(v)
      BY <1>1 DEF OrderInv, OrderClauses
  <2>4. AllQueued' = AllQueued \cup {pos} /\ pos \notin AllQueued
      BY <1>1, <2>1, <2>2, <2>3 DEF AllQueued
  <2>5. Cardinality(AllQueued') = Cardinality(AllQueued) + 1
      BY <1>3, <2>4, FS_AddElement
  <2>6. AtWork' = AtWork /\ pending' = pending /\ sending = 1 /\ sending' = 0
      BY <1>1, <1>7 DEF Send, AtWork, workVars
  <2> QED BY <1>3, <1>4, <1>5, <2>5, <2>6
<1>8. ASSUME NEW w \in WorkerID, Take(w) PROVE FALSE
  <2>1. Cardinality(AllQueued') = Cardinality(AllQueued) - 1
      BY <1>8, PopCount DEF Take
  <2>2. cur[w] = 0 /\ cur'[w] # 0 /\ \A v \in WorkerID : v # w => cur'[v] = cur[v]
    <3>1. /\ cur' = [cur EXCEPT ![w] = Head(queue[w])] /\ queue[w] # << >>
          /\ queue[w] \in Seq(DOMAIN lines) /\ wpc[w] = "idle"
        BY <1>8 DEF Take, Types
    <3>2. Head(queue[w]) \in DOMAIN lines
        BY <3>1
    <3>3. Head(queue[w]) # 0
        BY <1>1, <3>2
    <3>4. cur[w] = 0
        BY <3>1 DEF PlaceInv, Busy
    <3> QED BY <1>2, <3>1, <3>3, <3>4
  <2>3. AtWork' = AtWork \cup {w} /\ w \notin AtWork
      BY <1>1, <2>2 DEF AtWork
  <2>4. Cardinality(AtWork') = Cardinality(AtWork) + 1
      BY <1>3, <2>3, FS_AddElement
  <2>5. pending' = pending /\ sending' = sending
      BY <1>8 DEF Take, feederVars
  <2> QED BY <1>3, <1>4, <1>5, <2>1, <2>4, <2>5
<1>9. ASSUME NEW w \in WorkerID, Drain(w) PROVE FALSE
  <2>1. Cardinality(AllQueued') = Cardinality(AllQueued) - 1
      BY <1>9, PopCount DEF Drain
  <2>2. AtWork' = AtWork /\ pending' = pending - 1 /\ sending' = sending
      BY <1>1, <1>9 DEF Drain, feederVars, workVars, AtWork
  <2> QED BY <1>3, <1>4, <1>5, <2>1, <2>2
<1>10. ASSUME NEW w \in WorkerID, Finish(w) \/ Panic(w) PROVE FALSE
  <2>1. cur[w] # 0 /\ cur'[w] = 0 /\ \A v \in WorkerID : v # w => cur'[v] = cur[v]
      BY <1>2, <1>10 DEF Finish, Panic, PlaceInv, Busy
  <2>2. AtWork' = AtWork \ {w} /\ w \in AtWork
      BY <1>1, <2>1 DEF AtWork
  <2>3. Cardinality(AtWork') = Cardinality(AtWork) - 1
      BY <1>3, <2>2, FS_RemoveElement
  <2>4. UNCHANGED queue /\ pending' = pending - 1 /\ sending' = sending
      BY <1>10 DEF Finish, Panic, feederVars
  <2>5. AllQueued' = AllQueued
      BY <1>1, <2>4 DEF AllQueued, Queued
  <2> QED BY <1>3, <1>4, <1>5, <2>3, <2>4, <2>5
<1>11. \/ UNCHANGED <<queue, cur>> \/ Send
       \/ \E w \in WorkerID : Take(w) \/ Drain(w) \/ Finish(w) \/ Panic(w)
  <2>1. CASE QuietStep
      BY <2>1, QuietFacts
  <2>2. ASSUME NEW w \in WorkerID,
               \/ Exit(w) \/ Check(w) \/ TimerEnds(w) \/ ExecReturns(w) \/ ExecFails(w)
               \/ Cancel(w) \/ Recover(w)
        PROVE  UNCHANGED <<queue, cur>>
      BY <2>2 DEF Exit, Check, TimerEnds, ExecReturns, ExecFails, Cancel, Recover
  <2> QED BY <2>1, <2>2 DEF QuietStep, Next, ReaderStep, WorkerStep, Ended
<1> QED BY <1>6, <1>7, <1>8, <1>9, <1>10, <1>11

-----------------------------------------------------------------------------
(* The end of the replay.                                                  *)

\* What a worker has sent is as many operations as its stream has entries.
LEMMA SortedIsInjective ==
    ASSUME NEW S, NEW s \in Seq(S), \A x \in S : x \in Nat,
           \A k, l \in 1..Len(s) : k < l => s[k] < s[l]
    PROVE  \A k, l \in DOMAIN s : s[k] = s[l] => k = l
<1>1. /\ DOMAIN s = 1..Len(s) /\ Len(s) \in Nat
      /\ \A k \in DOMAIN s : s[k] \in S
    OBVIOUS
<1> SUFFICES ASSUME NEW k \in DOMAIN s, NEW l \in DOMAIN s, s[k] = s[l] PROVE k = l
    OBVIOUS
<1>2. k \in Nat /\ l \in Nat /\ s[k] \in Nat /\ s[l] \in Nat
    BY <1>1
<1>3. CASE k < l
    BY <1>1, <1>2, <1>3
<1>4. CASE l < k
    BY <1>1, <1>2, <1>4
<1> QED BY <1>2, <1>3, <1>4

\* replayed counts the operations that were sent, each once.
LEMMA ReplayedIsRan ==
    ASSUME Types, SortedInv, OrderInv
    PROVE  IsFiniteSet(Ran) /\ Ran \subseteq Plan /\ Replayed = Cardinality(Ran)
<1> DEFINE P == UNION {{<<w, i>> : i \in DOMAIN sent[w]} : w \in WorkerID}
           f == [x \in P |-> sent[x[1]][x[2]]]
<1>1. \A x \in P : /\ x[1] \in WorkerID /\ x[2] \in DOMAIN sent[x[1]]
                   /\ x = <<x[1], x[2]>>
    OBVIOUS
<1>2. \A w \in WorkerID : \A i \in DOMAIN sent[w] : <<w, i>> \in P
    OBVIOUS
<1>3. Ran \subseteq Plan /\ IsFiniteSet(Plan) /\ IsFiniteSet(Ran)
  <2>1. Ran \subseteq Plan /\ IsFiniteSet(Plan)
      BY PlanFacts DEF Ran, OrderInv, OrderClauses, Types
  <2> QED BY <2>1, FS_Subset
<1>4. \A x \in P : f[x] \in Sent(x[1]) /\ f[x] \in Ran
    BY <1>1 DEF Sent, Ran
<1>5. \A y \in Ran : \E x \in P : f[x] = y
  <2> SUFFICES ASSUME NEW y \in Ran PROVE \E x \in P : f[x] = y
      OBVIOUS
  <2>1. PICK w \in WorkerID : y \in Sent(w)
      BY DEF Ran
  <2>2. PICK i \in DOMAIN sent[w] : y = sent[w][i]
      BY <2>1 DEF Sent
  <2>3. <<w, i>> \in P /\ f[<<w, i>>] = y
      BY <1>2, <2>2
  <2> QED BY <2>3
<1>6. \A w \in WorkerID : \A k, l \in DOMAIN sent[w] : sent[w][k] = sent[w][l] => k = l
  <2> SUFFICES ASSUME NEW w \in WorkerID
               PROVE  \A k, l \in DOMAIN sent[w] : sent[w][k] = sent[w][l] => k = l
      OBVIOUS
  <2>1. sent[w] \in Seq(DOMAIN lines) /\ \A x \in DOMAIN lines : x \in Nat
      BY PlanFacts DEF Types
  <2>2. \A k, l \in 1..Len(sent[w]) : k < l => sent[w][k] < sent[w][l]
      BY DEF SortedInv
  <2> QED BY <2>1, <2>2, SortedIsInjective
<1>7. ASSUME NEW x \in P, NEW y \in P, f[x] = f[y] PROVE x = y
  <2>1. x[1] = y[1]
    <3>1. \A w \in WorkerID : \A q \in Sent(w) : Work[q] = w
        BY DEF OrderInv, OrderClauses
    <3>2. /\ x[1] \in WorkerID /\ f[x] \in Sent(x[1])
          /\ y[1] \in WorkerID /\ f[y] \in Sent(y[1])
        BY <1>1, <1>4
    <3> HIDE DEF f, P
    <3> QED BY <1>7, <3>1, <3>2
  <2>2. sent[x[1]][x[2]] = sent[x[1]][y[2]]
      BY <1>7, <2>1
  <2>3. x[2] = y[2]
      BY <1>1, <1>6, <2>1, <2>2
  <2> QED BY <1>1, <2>1, <2>3
<1>8. f \in Injection(P, Ran) /\ f \in Surjection(P, Ran)
  <2>1. f \in [P -> Ran]
      BY <1>4
  <2> HIDE DEF P, f
  <2> QED BY <1>5, <1>7, <2>1 DEF Injection, IsInjective, Surjection
<1> HIDE DEF P, f
<1>9. Cardinality(P) = Cardinality(Ran)
    BY <1>3, <1>8, FS_Injection
<1> QED BY <1>3, <1>9 DEF Replayed, P

\* An increasing sequence lists its elements by rank.
LEMMA RankInSorted ==
    ASSUME NEW s \in Seq(Nat), \A k, l \in 1..Len(s) : k < l => s[k] < s[l],
           NEW n \in 1..Len(s)
    PROVE  Cardinality({i \in Elements(s) : i <= s[n]}) = n
<1> DEFINE T == {i \in Elements(s) : i <= s[n]}
           f == [j \in 1..n |-> s[j]]
<1>1. /\ DOMAIN s = 1..Len(s) /\ Len(s) \in Nat /\ n \in Nat /\ n <= Len(s) /\ 1 <= n
      /\ \A k \in 1..Len(s) : s[k] \in Nat
    OBVIOUS
<1>2. \A k, l \in DOMAIN s : s[k] = s[l] => k = l
  <2>1. \A x \in Nat : x \in Nat
      OBVIOUS
  <2> QED BY <2>1, SortedIsInjective
<1>3. \A j \in 1..n : j \in 1..Len(s) /\ j \in Nat
    BY <1>1
<1>4. \A j \in 1..n : s[j] \in T
  <2> SUFFICES ASSUME NEW j \in 1..n PROVE s[j] \in Elements(s) /\ s[j] <= s[n]
      OBVIOUS
  <2>1. j = n \/ j < n
      BY <1>1
  <2>2. s[j] <= s[n]
      BY <1>1, <1>3, <2>1
  <2> QED BY <1>1, <1>3, <2>2 DEF Elements
<1>5. \A i \in T : \E j \in 1..n : s[j] = i
  <2> SUFFICES ASSUME NEW i \in T PROVE \E j \in 1..n : s[j] = i
      OBVIOUS
  <2>1. PICK k \in DOMAIN s : s[k] = i
      BY DEF Elements
  <2>2. ~(n < k)
      BY <1>1, <2>1
  <2>3. k \in 1..n
      BY <1>1, <2>1, <2>2
  <2> QED BY <2>1, <2>3
<1>6. f \in [1..n -> T] /\ \A j \in 1..n : f[j] = s[j]
    BY <1>4
<1>7. ASSUME NEW k \in 1..n, NEW l \in 1..n, f[k] = f[l] PROVE k = l
  <2>1. k \in DOMAIN s /\ l \in DOMAIN s /\ s[k] = s[l]
      BY <1>1, <1>3, <1>6, <1>7
  <2> QED BY <1>2, <2>1
<1> HIDE DEF T, f
<1>8. f \in Injection(1..n, T) /\ f \in Surjection(1..n, T)
    BY <1>5, <1>6, <1>7 DEF Injection, IsInjective, Surjection
<1>9. f \in Bijection(1..n, T)
    BY <1>8 DEF Bijection
<1>10. IsFiniteSet(1..n) /\ Cardinality(1..n) = n
  <2>1. 1 \in Int /\ n \in Int
      BY <1>1
  <2>2. IsFiniteSet(1..n) /\ Cardinality(1..n) = IF 1 > n THEN 0 ELSE n - 1 + 1
      BY <2>1, FS_Interval
  <2> QED BY <1>1, <2>2
<1>11. Cardinality(T) = Cardinality(1..n)
  <2>1. ExistsBijection(1..n, T)
      BY <1>9 DEF ExistsBijection
  <2> QED BY <1>10, <2>1, FS_Bijection
<1> QED BY <1>10, <1>11 DEF T

\* An increasing sequence has as many elements as entries.
LEMMA LengthOfSorted ==
    ASSUME NEW s \in Seq(Nat), \A k, l \in 1..Len(s) : k < l => s[k] < s[l]
    PROVE  Cardinality(Elements(s)) = Len(s)
<1>1. DOMAIN s = 1..Len(s) /\ Len(s) \in Nat /\ \A k \in 1..Len(s) : s[k] \in Nat
    OBVIOUS
<1>2. CASE Len(s) = 0
  <2>1. Elements(s) = {}
      BY <1>1, <1>2 DEF Elements
  <2> QED BY <1>2, <2>1, FS_EmptySet
<1>3. CASE Len(s) # 0
  <2>1. Len(s) \in 1..Len(s)
      BY <1>1, <1>3
  <2>2. Cardinality({i \in Elements(s) : i <= s[Len(s)]}) = Len(s)
      BY <2>1, RankInSorted
  <2>3. \A k \in DOMAIN s : s[k] <= s[Len(s)]
    <3> SUFFICES ASSUME NEW k \in DOMAIN s PROVE s[k] <= s[Len(s)]
        OBVIOUS
    <3>1. k = Len(s) \/ k < Len(s)
        BY <1>1
    <3> QED BY <1>1, <2>1, <3>1
  <2>4. {i \in Elements(s) : i <= s[Len(s)]} = Elements(s)
      BY <2>3 DEF Elements
  <2> QED BY <2>2, <2>4
<1> QED BY <1>2, <1>3

\* A worker that has sent all its operations has sent its recorded stream.
LEMMA StreamWasSent ==
    ASSUME Types, SortedInv, NEW w \in WorkerID, Sent(w) = OpsOf(lines, w, Len(lines))
    PROVE  [k \in DOMAIN sent[w] |-> lines[sent[w][k]]] = StreamOf(lines, w)
<1> DEFINE s == sent[w]
           own == OpsOf(lines, w, Len(lines))
           At(k) == CHOOSE i \in own : Cardinality(OpsOf(lines, w, i)) = k
<1>1. s \in Seq(DOMAIN lines) /\ DOMAIN lines \subseteq Nat /\ DOMAIN lines = 1..Len(lines)
      /\ Len(lines) \in Nat
    BY PlanFacts DEF Types
<1>2. s \in Seq(Nat) /\ DOMAIN s = 1..Len(s) /\ Len(s) \in Nat /\ \A k \in DOMAIN s : s[k] \in Nat
    BY <1>1
<1>3. \A k, l \in 1..Len(s) : k < l => s[k] < s[l]
    BY DEF SortedInv
<1>4. Elements(s) = own
    BY DEF Elements, Sent
<1> HIDE DEF s
<1>5. ASSUME NEW k \in DOMAIN s
      PROVE  s[k] \in own /\ Cardinality(OpsOf(lines, w, s[k])) = k
  <2>1. s[k] \in own
      BY <1>4 DEF Elements
  <2>2. OpsOf(lines, w, s[k]) = {i \in Elements(s) : i <= s[k]}
    <3>1. s[k] \in 1..Len(lines) /\ s[k] \in Nat
        BY <1>2, <2>1 DEF OpsOf
    <3>2. \A i : i \in 1..s[k] <=> i \in 1..Len(lines) /\ i <= s[k]
        BY <1>1, <3>1
    <3> QED BY <1>4, <3>2 DEF OpsOf
  <2>3. k \in 1..Len(s)
      BY <1>2
  <2>4. Cardinality({i \in Elements(s) : i <= s[k]}) = k
      BY <1>2, <1>3, <2>3, RankInSorted
  <2> QED BY <2>1, <2>2, <2>4
<1>6. ASSUME NEW k \in DOMAIN s PROVE At(k) = s[k]
  <2>1. \E i \in own : Cardinality(OpsOf(lines, w, i)) = k
      BY <1>5
  <2>2. At(k) \in own /\ Cardinality(OpsOf(lines, w, At(k))) = k
      BY <2>1
  <2>3. PICK j \in DOMAIN s : s[j] = At(k)
      BY <1>4, <2>2 DEF Elements
  <2>4. Cardinality(OpsOf(lines, w, s[j])) = j
      BY <1>5
  <2>5. j = k
      BY <2>2, <2>3, <2>4
  <2> QED BY <2>3, <2>5
<1>7. Cardinality(own) = Len(s)
    BY <1>2, <1>3, <1>4, LengthOfSorted
<1>8. StreamOf(lines, w) = [k \in 1..Cardinality(own) |-> lines[At(k)]]
    BY DEF StreamOf
<1> HIDE DEF own, At
<1>9. StreamOf(lines, w) = [k \in DOMAIN s |-> lines[s[k]]]
    BY <1>2, <1>6, <1>7, <1>8
<1> QED BY <1>9 DEF s

\* When the replay ends without an error, everything was sent.
LEMMA CompleteJoin ==
    ASSUME Inv, Join, EndStatus = "complete"
    PROVE  Ran = Plan /\ lost = {} /\ HashMatch # "different"
<1> USE DEF Inv
<1>1. /\ ctl = "join" /\ \A w \in WorkerID : wpc[w] = "done"
      /\ ~panicErr /\ ~execErr /\ streamErr = "none"
      /\ ~(stopped /\ Replayed + skipped < OpCount(lines))
    BY DEF Join, EndStatus
<1>2. /\ pos = Len(lines) + 1 /\ Len(lines) \in Nat /\ DOMAIN lines = 1..Len(lines)
      /\ \A p \in Plan : p < pos /\ Work[p] \in WorkerID
      /\ Plan \subseteq 1..Len(lines) /\ IsFiniteSet(Plan)
  <2>1. /\ Len(lines) \in Nat /\ DOMAIN lines = 1..Len(lines) /\ Plan \subseteq 1..Len(lines)
        /\ IsFiniteSet(Plan) /\ \A p \in Plan : Work[p] \in WorkerID
      BY PlanFacts DEF Types
  <2>2. pos = Len(lines) + 1
      BY <1>1 DEF CauseInv
  <2> QED BY <2>1, <2>2
<1>3. lost = {}
    BY <1>1, <1>2 DEF CauseInv, OrderInv
<1>4. /\ Ran \subseteq Plan /\ IsFiniteSet(Ran) /\ Replayed = Cardinality(Ran)
      /\ Cardinality(Ran) \in Nat /\ Cardinality(Plan) \in Nat
    BY <1>2, ReplayedIsRan, FS_CardinalityType
<1> DEFINE Skips == {i \in 1..Len(lines) : IsOp(lines[i]) /\ SkipsWrite(i)}
           All == {i \in 1..Len(lines) : IsOp(lines[i])}
<1>5. skipped = Cardinality(Skips) /\ IsFiniteSet(Skips) /\ Cardinality(Skips) \in Nat
  <2>1. SkippedBelow(pos) = Skips
    <3>1. pos - 1 = Len(lines)
        BY <1>2
    <3> QED BY <3>1 DEF SkippedBelow
  <2>2. IsFiniteSet(1..Len(lines))
      BY <1>2, FS_Interval
  <2>3. IsFiniteSet(Skips)
      BY <2>2, FS_Subset
  <2> QED BY <2>1, <2>3, FS_CardinalityType DEF CountInv
<1>6. All = Plan \cup Skips /\ Plan \cap Skips = {}
    BY <1>2 DEF Plan
<1>7. Ran = Plan
  <2>1. CASE stopped
    <3>1. OpCount(lines) = Cardinality(Plan) + Cardinality(Skips)
      <4>1. OpCount(lines) = Cardinality(All)
          BY DEF OpCount
      <4> HIDE DEF All, Skips
      <4>2. Cardinality(All) =
                Cardinality(Plan) + Cardinality(Skips) - Cardinality(Plan \cap Skips)
          BY <1>2, <1>5, <1>6, FS_Union
      <4>3. Cardinality(Plan \cap Skips) = 0
          BY <1>6, FS_EmptySet
      <4> QED BY <1>4, <1>5, <4>1, <4>2, <4>3
    <3>2. ~(Cardinality(Ran) + Cardinality(Skips) < Cardinality(Plan) + Cardinality(Skips))
        BY <1>1, <1>4, <1>5, <2>1, <3>1
    <3>3. Cardinality(Plan) <= Cardinality(Ran)
      <4> HIDE DEF Skips
      <4> QED BY <1>4, <1>5, <3>2
    <3>4. Cardinality(Ran) <= Cardinality(Plan)
        BY <1>2, <1>4, FS_Subset
    <3>5. Cardinality(Ran) = Cardinality(Plan)
        BY <1>4, <3>3, <3>4
    <3> QED BY <1>2, <1>4, <3>5, FS_Subset
  <2>2. CASE ~stopped
    <3>1. ~RunCtxDone
        BY <1>1, <2>2 DEF CauseInv, RunCtxDone
    <3>2. \A w \in WorkerID : cur[w] = 0 /\ Queued(w) = {}
      <4>1. \A w \in WorkerID : queue[w] = << >> /\ cur[w] = 0
          BY <1>1 DEF PlaceInv, Busy
      <4> QED BY <4>1 DEF Queued
    <3>3. ASSUME NEW p \in Plan PROVE p \in Ran
      <4>1. p \in Past(Work[p]) \/ p = cur[Work[p]] \/ p \in Queued(Work[p])
          BY <1>2, <3>1, <3>3 DEF SeenInv
      <4>2. p # 0
          BY <1>2, <3>3
      <4> QED BY <1>2, <1>3, <3>2, <4>1, <4>2 DEF Past, Ran
    <3> QED BY <1>4, <3>3
  <2> QED BY <2>1, <2>2
<1>8. HashMatch # "different"
  <2>1. CASE skipped > 0
      BY <2>1 DEF HashMatch
  <2>2. CASE ~(skipped > 0)
    <3>1. Skips = {}
      <4> HIDE DEF Skips
      <4>1. Cardinality(Skips) = 0
          BY <1>5, <2>2
      <4> QED BY <1>5, <4>1, FS_EmptySet
    <3>2. ASSUME NEW w \in WorkerID
          PROVE  [k \in DOMAIN sent[w] |-> lines[sent[w][k]]] = StreamOf(lines, w)
      <4>1. OpsOf(lines, w, Len(lines)) = {p \in Plan : Work[p] = w}
          BY <1>2, <1>6, <3>1 DEF OpsOf, Work
      <4>2. Sent(w) = {p \in Plan : Work[p] = w}
          BY <1>2, <1>7 DEF Ran, OrderInv, OrderClauses
      <4> QED BY <4>1, <4>2, StreamWasSent
    <3> QED BY <3>2 DEF HashMatch
  <2> QED BY <2>1, <2>2
<1> QED BY <1>3, <1>7, <1>8

LEMMA StatusStep == Inv /\ [Next]_vars => StatusInv'
<1> SUFFICES ASSUME Inv, [Next]_vars PROVE StatusInv'
    OBVIOUS
<1> USE DEF Inv
<1>1. CASE Join
  <2>1. /\ report'.status = EndStatus /\ report'.match = HashMatch /\ ctl' = "ended"
        /\ UNCHANGED <<sent, lost, execErr, panicErr, streamErr, stopped>>
      BY <1>1 DEF Join, errVars
  <2>2. Ran' = Ran /\ Plan' = Plan
      BY <2>1, Fixed DEF Ran, Sent, WorkerID
  <2>3. CompleteMeansReplayed'
      BY <1>1, <2>1, <2>2, CompleteJoin DEF CompleteMeansReplayed
  <2>4. EndStatus = "failed" => execErr \/ panicErr \/ streamErr = "error"
      BY DEF EndStatus, Types, CauseInv, RunCtxDone
  <2>5. EndStatus = "cancelled" => stopped /\ lost = {}
    <3>1. EndStatus = "cancelled" => stopped /\ ~panicErr /\ ~execErr
        BY DEF EndStatus
    <3>2. ~panicErr /\ ~execErr => lost = {}
      <4>1. \A p \in lost : Work[p] \in WorkerID
          BY PlanFacts DEF Types, OrderInv
      <4> QED BY <1>1, <4>1 DEF CauseInv, Join
    <3> QED BY <3>1, <3>2
  <2> QED BY <2>1, <2>3, <2>4, <2>5 DEF StatusInv, StatusTrue, StatusTellsWhy
<1>2. CASE ctl = "ended"
  <2>1. UNCHANGED vars
    <3>1. \A w \in WorkerID : wpc[w] \in {"idle", "done"}
        BY <1>2 DEF PlaceInv
    <3> QED BY <1>2, <3>1 DEF Next, ReaderStep, WorkerStep, Refuse, Start, StreamCancelled,
               ReadFails, ReadEnd, ReadOther, ReadOp, PassBarrier, Send, SendCancelled, Join,
               Take, Exit, Check, TimerEnds, ExecReturns, ExecFails, Cancel, Finish, Panic,
               Recover, Drain, MonitorPanics, Stop, Ended, Launched, Closed
  <2>2. UNCHANGED <<report, ctl, execErr, panicErr, streamErr, stopped, lost, sent>>
      BY <2>1 DEF vars, feederVars, errVars
  <2>3. Ran' = Ran /\ Plan' = Plan
      BY <2>2, Fixed DEF Ran, Sent, WorkerID
  <2> QED BY <2>2, <2>3 DEF StatusInv, StatusTrue, StatusTellsWhy, CompleteMeansReplayed
<1>3. CASE ctl # "ended" /\ ~Join
  <2>1. report'.status \in {"none", "running"}
    <3>1. report.status \in {"none", "running"}
        BY <1>3 DEF StatusInv
    <3>2. CASE Start
      <4>1. report'.status = "running"
          BY <3>2 DEF Start, Types
      <4> QED BY <4>1
    <3>3. CASE UNCHANGED report
        BY <3>1, <3>3
    <3> QED BY <1>3, <3>2, <3>3 DEF Next, ReaderStep, WorkerStep, vars, Refuse, StreamCancelled,
               ReadFails, ReadEnd, ReadOther, ReadOp, PassBarrier, Send, SendCancelled, Take,
               Exit, Check, TimerEnds, ExecReturns, ExecFails, Cancel, Finish, Panic, Recover,
               Drain, MonitorPanics, Stop, Ended
  <2> QED BY <2>1 DEF StatusInv, StatusTrue, StatusTellsWhy, CompleteMeansReplayed
<1> QED BY <1>1, <1>2, <1>3

LEMMA InitInv == Init => Inv
<1> SUFFICES ASSUME Init PROVE Inv
    OBVIOUS
<1>1. /\ setup \in Setups /\ Len(lines) \in Nat /\ DOMAIN lines = 1..Len(lines)
      /\ \A p \in Plan : p \in Nat /\ ~(p < 1)
  <2>1. setup \in Setups
      BY DEF Init
  <2> QED BY <2>1, PlanFacts
<1>2. /\ \A w \in WorkerID : /\ wpc[w] = "idle" /\ cur[w] = 0
                             /\ queue[w] = << >> /\ sent[w] = << >>
      /\ lost = {}
    BY DEF Init
<1>3. \A w \in WorkerID : Sent(w) = {} /\ Queued(w) = {}
    BY <1>2 DEF Sent, Queued
<1>4. Types
  <2>1. QueueSize \in Nat /\ Len(<< >>) = 0 /\ << >> \in Seq(DOMAIN lines)
      BY ReplayAssumption
  <2>2. pos \in 1..Len(lines) + 1
      BY <1>1 DEF Init
  <2>3. queue \in [WorkerID -> Seq(DOMAIN lines)] /\ sent \in [WorkerID -> Seq(DOMAIN lines)]
      BY <2>1 DEF Init
  <2>4. \A w \in WorkerID : Len(queue[w]) <= QueueSize
      BY <1>2, <2>1
  <2>5. /\ cur \in [WorkerID -> {0} \cup DOMAIN lines]
        /\ wpc \in [WorkerID -> {"idle", "check", "timer", "exec", "cancel", "finish",
                                 "recover", "drain", "done"}]
      BY DEF Init
  <2>6. report \in [status : {"none", "running", "complete", "cancelled", "failed"},
                    match : {"uncompared", "equal", "different"}]
      BY DEF Init
  <2> QED BY <1>1, <1>2, <2>2, <2>3, <2>4, <2>5, <2>6 DEF Init, Types
<1>5. PlaceInv
    BY <1>2 DEF Init, PlaceInv, Launched, Busy
<1>6. SortedInv
    BY <1>2 DEF SortedInv
<1>7. OrderInv
    BY <1>2, <1>3 DEF OrderInv, OrderClauses
<1>8. SeenInv
    BY <1>1, <1>2 DEF Init, SeenInv
<1>9. CauseInv
    BY <1>2 DEF Init, CauseInv
<1>10. TurnInv
    BY <1>2, <1>3 DEF TurnInv
<1>11. IterInv
  <2>1. \A p \in Plan : ~(Iter[p] < 0)
      BY <1>1, PlanFacts
  <2> QED BY <1>1, <1>2, <2>1 DEF Init, IterInv
<1>12. CountInv
  <2>1. UNION {Queued(w) : w \in WorkerID} = {} /\ {w \in WorkerID : cur[w] # 0} = {}
      BY <1>2, <1>3
  <2>2. SkippedBelow(pos) = {}
      BY DEF Init, SkippedBelow
  <2>3. Cardinality({}) = 0
      BY FS_EmptySet
  <2>4. pending = 0 /\ skipped = 0 /\ (IF ctl = "send" THEN 1 ELSE 0) = 0
      BY DEF Init
  <2>5. PendingIsOutstanding
      BY <2>1, <2>3, <2>4 DEF PendingIsOutstanding
  <2> QED BY <2>2, <2>3, <2>4, <2>5 DEF CountInv
<1>13. StatusInv
    BY DEF Init, StatusInv, StatusTrue, StatusTellsWhy, CompleteMeansReplayed
<1> QED BY <1>4, <1>5, <1>6, <1>7, <1>8, <1>9, <1>10, <1>11, <1>12, <1>13 DEF Inv

\* The invariant holds of every behaviour, fair or not.
THEOREM Invariant == Spec => []Inv
<1>1. Init => Inv
    BY InitInv
<1>2. Inv /\ [Next]_vars => Inv'
    BY TypesStep, PlaceStep, SortedStep, OrderStep, SeenStep, CauseStep, TurnStep, IterStep,
       CountStep, StatusStep DEF Inv
<1> QED BY <1>1, <1>2, PTL DEF Spec

-----------------------------------------------------------------------------
(* The theorems.                                                           *)

\* The wait group counts what is outstanding exactly, and so never goes below
\* zero, whatever fails (pending.Add and pending.Done in runWorkloadReplay).
THEOREM BarrierTheorem == Spec => []BarrierSound
<1>1. Inv => BarrierSound
  <2> SUFFICES ASSUME Inv PROVE BarrierSound
      OBVIOUS
  <2>1. Cardinality(AllQueued) \in Nat /\ Cardinality(AtWork) \in Nat
      BY OutstandingFinite DEF Inv
  <2>2. /\ PendingIsOutstanding
        /\ pending = Cardinality(AllQueued) + Cardinality(AtWork)
                     + (IF ctl = "send" THEN 1 ELSE 0)
      BY DEF Inv, CountInv, PendingIsOutstanding, AllQueued, AtWork
  <2>3. pending \in Nat
      BY <2>1, <2>2
  <2> QED BY <2>2, <2>3 DEF Inv, BarrierSound, TypeOK
<1> QED BY <1>1, Invariant, PTL

\* While an operation is sent, the iterations before its own are over: no
\* worker runs ahead of pending.Wait.
THEOREM IterationTheorem == Spec => []OneIterationAtATime
<1>1. Inv => OneIterationAtATime
  <2> SUFFICES ASSUME Inv, NEW w \in WorkerID, wpc[w] = "exec", NEW p \in Plan,
                      OpIteration(lines[p]) < OpIteration(lines[cur[w]])
               PROVE  p \in Ran \cup lost
      BY DEF OneIterationAtATime
  <2>1. cur[w] \in Plan
      BY DEF Inv, PlaceInv, Busy, OrderInv, OrderClauses
  <2>2. Iter[p] < Iter[cur[w]]
      BY <2>1 DEF Iter
  <2> QED BY <2>2 DEF Inv, IterInv, Over
<1> QED BY <1>1, Invariant, PTL

\* What a worker has sent is a prefix of its recorded operations, in order,
\* after any error, panic or stop.
THEOREM PrefixTheorem == Spec => []WorkerSendsPrefix
<1>1. Inv => WorkerSendsPrefix
  <2> SUFFICES ASSUME Inv, NEW w \in WorkerID
               PROVE  /\ \A p \in Plan :
                             lines[p].worker = w /\ (\E q \in Sent(w) : p <= q) => p \in Sent(w)
                      /\ Sent(w) \subseteq {p \in Plan : lines[p].worker = w}
                      /\ \A k, l \in DOMAIN sent[w] : k < l => sent[w][k] < sent[w][l]
      BY DEF WorkerSendsPrefix
  <2>1. \A p \in Plan : Work[p] = lines[p].worker
      BY DEF Work
  <2>2. DOMAIN sent[w] = 1..Len(sent[w])
      BY DEF Inv, Types
  <2>3. \A p \in Plan : lines[p].worker = w /\ (\E q \in Sent(w) : p <= q) => p \in Sent(w)
      BY <2>1 DEF Inv, TurnInv
  <2>4. Sent(w) \subseteq {p \in Plan : lines[p].worker = w}
      BY <2>1 DEF Inv, OrderInv, OrderClauses
  <2>5. \A k, l \in DOMAIN sent[w] : k < l => sent[w][k] < sent[w][l]
      BY <2>2 DEF Inv, SortedInv
  <2> QED BY <2>3, <2>4, <2>5
<1> QED BY <1>1, Invariant, PTL

\* A replay called complete sent every operation of the recording and has its
\* hash; a failed or cancelled one says why it ended (the end of
\* runWorkloadReplay).
THEOREM StatusTheorem == Spec => []StatusTrue
<1>1. Inv => StatusTrue
    BY DEF Inv, StatusInv
<1> QED BY <1>1, Invariant, PTL

-----------------------------------------------------------------------------
(* The refinement.                                                         *)

plan == [p \in Plan |-> [worker |-> lines[p].worker, iter |-> OpIteration(lines[p])]]

\* An operation being sent is due in the sense of the contract.
LEMMA DueWhenSent ==
    ASSUME Inv, NEW w \in WorkerID, wpc[w] = "exec"
    PROVE  cur[w] \in DOMAIN plan /\ Contract!Due(cur[w])
<1>1. /\ cur[w] \in Plan /\ Work[cur[w]] = w
      /\ \A p \in Past(w) : p < cur[w]
    BY DEF Inv, PlaceInv, Busy, OrderInv, OrderClauses
<1>2. report.status = "running"
    BY DEF Inv, PlaceInv, Launched, Types
<1>3. \A p \in Plan : p \in Nat /\ Work[p] = lines[p].worker /\ Iter[p] = OpIteration(lines[p])
    BY PlanFacts DEF Inv, Types, Work, Iter
<1>4. cur[w] \notin Ran \cup lost
  <2>1. ~(cur[w] < cur[w])
      BY <1>1, <1>3
  <2>2. cur[w] \notin Past(w)
      BY <1>1, <2>1
  <2>3. \A v \in WorkerID : v # w => cur[w] \notin Sent(v)
      BY <1>1 DEF Inv, OrderInv, OrderClauses
  <2> QED BY <1>1, <2>2, <2>3 DEF Past, Ran
<1>5. \A p \in Plan : Work[p] = w /\ p < cur[w] => p \in Ran
    BY DEF Inv, TurnInv, Ran
<1>6. \A p \in Plan : Iter[p] < Iter[cur[w]] => p \in Ran \cup lost
    BY DEF Inv, IterInv, Over
<1> QED BY <1>1, <1>2, <1>3, <1>4, <1>5, <1>6 DEF plan, Contract!Due

LEMMA ContractInit == Init => Contract!CInit
<1> SUFFICES ASSUME Init PROVE Contract!CInit
    OBVIOUS
<1>1. \A w \in WorkerID : Sent(w) = {}
    BY DEF Init, Sent
<1>2. report.status = "none" /\ lost = {}
    BY DEF Init
<1> QED BY <1>1, <1>2 DEF Contract!CInit, Ran

LEMMA ContractStep == Inv /\ [Next]_vars => [Contract!CNext]_(Contract!cvars)
<1> SUFFICES ASSUME Inv, [Next]_vars PROVE Contract!CNext \/ UNCHANGED Contract!cvars
    OBVIOUS
<1>1. Plan' = Plan /\ lines' = lines /\ plan' = plan /\ WorkerID' = WorkerID
    BY Fixed DEF plan
<1>2. DOMAIN plan = Plan
    BY DEF plan
<1>3. ASSUME UNCHANGED <<sent, lost, report>> PROVE UNCHANGED Contract!cvars
    BY <1>1, <1>3 DEF Contract!cvars, plan, Ran, Sent
<1>4. CASE Start
  <2>1. /\ UNCHANGED <<sent, lost>> /\ report'.status = "running" /\ report.status = "none"
      BY <1>4 DEF Start, Inv, Types, PlaceInv
  <2>2. Ran' = Ran
      BY <1>1, <2>1 DEF Ran, Sent
  <2>3. Contract!Start
      BY <1>1, <2>1, <2>2 DEF Contract!Start, plan
  <2> QED BY <2>3 DEF Contract!CNext
<1>5. CASE Join
  <2>1. /\ UNCHANGED <<sent, lost>> /\ report'.status = EndStatus /\ report.status = "running"
      BY <1>5 DEF Join, Inv, PlaceInv, Launched
  <2>2. Ran' = Ran
      BY <1>1, <2>1 DEF Ran, Sent
  <2>3. EndStatus = "complete" => Ran = Plan
      BY <1>5, CompleteJoin
  <2>4. EndStatus \in {"complete", "cancelled", "failed"}
      BY DEF EndStatus
  <2>5. Contract!Finish(EndStatus)
      BY <1>1, <1>2, <2>1, <2>2, <2>3 DEF Contract!Finish, plan
  <2> QED BY <2>4, <2>5 DEF Contract!CNext
<1>6. ASSUME NEW w \in WorkerID, ExecReturns(w) PROVE Contract!CNext
  <2>1. cur[w] \in DOMAIN plan /\ Contract!Due(cur[w])
      BY <1>6, DueWhenSent DEF ExecReturns
  <2>2. \A v \in WorkerID : Sent(v)' = IF v = w THEN Sent(v) \cup {cur[w]} ELSE Sent(v)
      BY <1>6, ExecSets DEF Inv
  <2>3. Ran' = Ran \cup {cur[w]} /\ UNCHANGED <<lost, report>>
      BY <1>1, <1>6, <2>2 DEF Ran, ExecReturns
  <2>4. Contract!Run(cur[w])
      BY <1>1, <2>1, <2>3 DEF Contract!Run, plan
  <2> QED BY <2>1, <2>4 DEF Contract!CNext, plan
<1>7. ASSUME NEW w \in WorkerID, ExecFails(w) \/ Panic(w) PROVE Contract!CNext
  <2>1. cur[w] \in DOMAIN plan /\ Contract!Due(cur[w])
      BY <1>7, DueWhenSent DEF ExecFails, Panic
  <2>2. UNCHANGED <<sent, report>> /\ lost' = lost \cup {cur[w]}
      BY <1>7 DEF ExecFails, Panic
  <2>3. Ran' = Ran
      BY <1>1, <2>2 DEF Ran, Sent
  <2>4. Contract!Lose(cur[w])
      BY <1>1, <2>1, <2>2, <2>3 DEF Contract!Lose, plan
  <2> QED BY <2>1, <2>4 DEF Contract!CNext, plan
<1>8. CASE \/ Refuse \/ StreamCancelled \/ ReadFails \/ ReadEnd \/ ReadOther \/ ReadOp
           \/ PassBarrier \/ Send \/ SendCancelled \/ MonitorPanics \/ Stop \/ UNCHANGED vars
    BY <1>3, <1>8 DEF Refuse, StreamCancelled, ReadFails, ReadEnd, ReadOther, ReadOp,
           PassBarrier, Send, SendCancelled, MonitorPanics, Stop, vars
<1>9. ASSUME NEW w \in WorkerID,
             \/ Take(w) \/ Exit(w) \/ Check(w) \/ TimerEnds(w) \/ Cancel(w) \/ Finish(w)
             \/ Recover(w) \/ Drain(w)
      PROVE  UNCHANGED Contract!cvars
    BY <1>3, <1>9 DEF Take, Exit, Check, TimerEnds, Cancel, Finish, Recover, Drain
<1> QED BY <1>4, <1>5, <1>6, <1>7, <1>8, <1>9 DEF Next, ReaderStep, WorkerStep, Ended

\* The replay keeps what the documentation promises of it (ReplayContract):
\* every operation that is sent was due, and "complete" is said of all of them.
THEOREM Refinement == Spec => KeepsContract
<1>1. Init => Contract!CInit
    BY ContractInit
<1>2. Inv /\ [Next]_vars => [Contract!CNext]_(Contract!cvars)
    BY ContractStep
<1> QED BY <1>1, <1>2, Invariant, PTL DEF Spec, KeepsContract, Contract!CSpec
=============================================================================
