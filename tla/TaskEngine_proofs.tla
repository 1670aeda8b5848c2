-------------------------- MODULE TaskEngine_proofs --------------------------
(* Proofs about the background task engine, for every set of tasks, every    *)
(* maxConcurrency and with or without a timeout.                             *)
EXTENDS TaskEngine, TLAPS, FiniteSetTheorems, SequenceTheorems

-----------------------------------------------------------------------------
(* Lemmas about the operators on the queue.                                  *)

Injective(q) == \A i, j \in DOMAIN q : q[i] = q[j] => i = j

LEMMA SliceProperties ==
  ASSUME NEW S, NEW q \in Seq(S), NEW m \in Nat, NEW n \in Nat,
         1 <= m, m <= n + 1, n <= Len(q)
  PROVE  /\ SubSeq(q, m, n) \in Seq(S)
         /\ Len(SubSeq(q, m, n)) = n - m + 1
         /\ \A i \in 1 .. n - m + 1 : SubSeq(q, m, n)[i] = q[m + i - 1]
<1>1. \A i \in m .. n : q[i] \in S
  BY LenProperties
<1>2. m \in Int /\ n \in Int
  OBVIOUS
<1>3. /\ SubSeq(q, m, n) \in Seq(S)
      /\ Len(SubSeq(q, m, n)) = IF m <= n THEN n - m + 1 ELSE 0
      /\ \A i \in 1 .. n - m + 1 : SubSeq(q, m, n)[i] = q[m + i - 1]
  BY <1>1, <1>2, SubSeqProperties
<1> QED BY <1>3

LEMMA WithProperties ==
  ASSUME NEW S, NEW q \in Seq(S), NEW t \in S, Injective(q)
  PROVE  /\ With(q, t) \in Seq(S)
         /\ ToSet(With(q, t)) = ToSet(q) \cup {t}
         /\ Injective(With(q, t))
         /\ With(q, t) # <<>>
         /\ t \notin ToSet(q) => Len(With(q, t)) = Len(q) + 1
<1>1. CASE t \in ToSet(q)
  BY <1>1 DEF With, ToSet
<1>2. CASE t \notin ToSet(q)
  <2> DEFINE r == Append(q, t)
  <2>1. /\ r \in Seq(S)
        /\ Len(r) = Len(q) + 1
        /\ DOMAIN r = 1 .. Len(r)
        /\ DOMAIN q = 1 .. Len(q)
        /\ \A i \in 1 .. Len(q) : r[i] = q[i]
        /\ r[Len(q) + 1] = t
    BY AppendProperties, LenProperties
  <2>2. With(q, t) = r
    BY <1>2 DEF With
  <2> HIDE DEF r
  <2>3. ToSet(r) = ToSet(q) \cup {t}
    <3>1. \A x \in ToSet(r) : x \in ToSet(q) \cup {t}
      BY <2>1 DEF ToSet
    <3>2. \A x \in ToSet(q) : x \in ToSet(r)
      BY <2>1 DEF ToSet
    <3>3. t \in ToSet(r)
      BY <2>1, LenProperties DEF ToSet
    <3> QED BY <3>1, <3>2, <3>3
  <2>4. Injective(r)
    BY <2>1, <1>2 DEF Injective, ToSet
  <2> QED BY <2>1, <2>2, <2>3, <2>4
<1> QED BY <1>1, <1>2

LEMMA WithoutProperties ==
  ASSUME NEW S, NEW q \in Seq(S), NEW t \in S, Injective(q)
  PROVE  /\ Without(q, t) \in Seq(S)
         /\ ToSet(Without(q, t)) = ToSet(q) \ {t}
         /\ Injective(Without(q, t))
         /\ Without(q, t) # <<>> => q # <<>>
<1>1. CASE t \notin ToSet(q)
  BY <1>1 DEF Without, ToSet
<1>2. CASE t \in ToSet(q)
  <2> DEFINE k == CHOOSE i \in DOMAIN q : q[i] = t
             a == SubSeq(q, 1, k - 1)
             b == SubSeq(q, k + 1, Len(q))
             r == a \o b
  <2>1. k \in 1 .. Len(q) /\ q[k] = t /\ Len(q) \in Nat
    BY <1>2, LenProperties DEF ToSet
  <2> HIDE DEF k
  <2>2. Without(q, t) = r
    BY <1>2 DEF Without, RemoveAt, k
  <2>3. /\ a \in Seq(S) /\ Len(a) = k - 1
        /\ \A i \in 1 .. k - 1 : a[i] = q[i]
    BY <2>1, SliceProperties
  <2>4. /\ b \in Seq(S) /\ Len(b) = Len(q) - k
        /\ \A i \in 1 .. Len(q) - k : b[i] = q[k + i]
    BY <2>1, SliceProperties
  <2> HIDE DEF a, b
  <2>5. /\ r \in Seq(S)
        /\ Len(r) = Len(a) + Len(b)
        /\ \A i \in 1 .. Len(a) + Len(b) :
             r[i] = IF i <= Len(a) THEN a[i] ELSE b[i - Len(a)]
    BY <2>3, <2>4, ConcatProperties
  <2> HIDE DEF r
  <2>6. /\ Len(r) = Len(q) - 1
        /\ DOMAIN r = 1 .. Len(r)
        /\ \A i \in 1 .. Len(r) : r[i] = IF i < k THEN q[i] ELSE q[i + 1]
    BY <2>1, <2>3, <2>4, <2>5, LenProperties
  <2>7. ToSet(r) = ToSet(q) \ {t}
    <3>1. ASSUME NEW x \in ToSet(r) PROVE x \in ToSet(q) \ {t}
      <4>1. PICK i \in 1 .. Len(r) : r[i] = x
        BY <2>6 DEF ToSet
      <4>2. PICK j \in 1 .. Len(q) : q[j] = x /\ j # k
        BY <4>1, <2>1, <2>6
      <4> QED BY <4>2, <2>1, LenProperties DEF ToSet, Injective
    <3>2. ASSUME NEW x \in ToSet(q) \ {t} PROVE x \in ToSet(r)
      <4>1. PICK i \in 1 .. Len(q) : q[i] = x /\ i # k
        BY <2>1 DEF ToSet
      <4>2. CASE i < k
        BY <4>1, <4>2, <2>1, <2>6 DEF ToSet
      <4>3. CASE i > k
        <5>1. i - 1 \in 1 .. Len(r) /\ r[i - 1] = x
          BY <4>1, <4>3, <2>1, <2>6
        <5> QED BY <5>1, <2>6 DEF ToSet
      <4> QED BY <4>1, <4>2, <4>3, <2>1
    <3> QED BY <3>1, <3>2
  <2>8. Injective(r)
    BY <2>1, <2>6, LenProperties DEF Injective
  <2>9. q # <<>>
    BY <2>1
  <2> QED BY <2>2, <2>5, <2>7, <2>8, <2>9
<1> QED BY <1>1, <1>2

-----------------------------------------------------------------------------
(* The part of the inductive invariant that concerns the slots, as a         *)
(* predicate on a queue, executions, statuses and timers, so that it can be  *)
(* stated of the values with which _startQueuedTasks is entered.             *)
Consistent(q, ex, st, tm) ==
  /\ q \in Seq(Tasks) /\ Injective(q)
  /\ ex \in [Tasks -> Phase]
  /\ st \in [Tasks -> Status \cup NoRecord]
  /\ tm \in [Tasks -> BOOLEAN]
  /\ \A i \in DOMAIN q : st[q[i]] = "queued"
  /\ \A t \in Tasks :
       /\ st[t] = "queued" => ex[t] = IF t \in ToSet(q) THEN "none" ELSE "settling"
       /\ ex[t] = "running" <=> st[t] = "working"
       /\ ex[t] = "aborted" => st[t] \in Terminal \cup {"removed"}
       /\ tm[t] /\ ex[t] # "settling" => ex[t] = "running"
       /\ st[t] = "unsubmitted" => ex[t] = "none"
  /\ IsFiniteSet(ActiveIn(ex))
  /\ Cardinality(ActiveIn(ex)) <= MaxConcurrency

(* At most one task is started at a time: the queue is empty but for the     *)
(* task just added, or every slot but the one just freed is taken.           *)
LEMMA StartOne ==
  ASSUME NEW q, NEW ex, NEW st, NEW tm, Consistent(q, ex, st, tm),
         Len(q) <= 1 \/ Cardinality(ActiveIn(ex)) >= MaxConcurrency - 1
  PROVE  \/ /\ StartCount(q, ex) = 0
            /\ q = <<>> \/ Cardinality(ActiveIn(ex)) = MaxConcurrency
         \/ /\ StartCount(q, ex) = 1
            /\ Len(q) >= 1
            /\ Cardinality(ActiveIn(ex)) < MaxConcurrency
            /\ Len(q) = 1 \/ Cardinality(ActiveIn(ex)) = MaxConcurrency - 1
<1>1. Len(q) \in Nat /\ (q = <<>> <=> Len(q) = 0)
  BY EmptySeq DEF Consistent
<1> DEFINE n == Cardinality(ActiveIn(ex))
           k == Len(q)
<1>2. n \in Nat /\ n <= MaxConcurrency
  BY FS_CardinalityType DEF Consistent
<1>3. StartCount(q, ex) = IF MaxConcurrency - n <= 0 THEN 0
                          ELSE IF MaxConcurrency - n < k THEN MaxConcurrency - n ELSE k
  BY DEF StartCount
<1>4. k <= 1 \/ n >= MaxConcurrency - 1
  OBVIOUS
<1> HIDE DEF n, k
<1>5. k \in Nat /\ (q = <<>> <=> k = 0)
  BY <1>1 DEF k
<1>6. \/ StartCount(q, ex) = 0 /\ (k = 0 \/ n = MaxConcurrency)
      \/ /\ StartCount(q, ex) = 1 /\ k >= 1 /\ n < MaxConcurrency
         /\ k = 1 \/ n = MaxConcurrency - 1
  BY <1>2, <1>3, <1>4, <1>5, MaxConcurrencyAssumption
<1> QED
  BY <1>5, <1>6 DEF n, k

LEMMA StartKeepsConsistent ==
  ASSUME NEW STATE q, NEW STATE ex, NEW STATE st, NEW STATE tm,
         Consistent(q, ex, st, tm),
         Len(q) <= 1 \/ Cardinality(ActiveIn(ex)) >= MaxConcurrency - 1,
         StartQueuedTasks(q, ex, st, tm)
  PROVE  /\ Consistent(queue', execution', status', timer')
         /\ WorkConserving'
         /\ q # <<>> \/ ActiveIn(ex) # {} => ~Idle'
         /\ \A t \in Tasks : \/ status'[t] = st[t]
                             \/ st[t] = "queued" /\ status'[t] = "working"
<1>1. /\ q \in Seq(Tasks) /\ Len(q) \in Nat /\ DOMAIN q = 1 .. Len(q)
      /\ q = <<>> <=> Len(q) = 0
      /\ Cardinality(ActiveIn(ex)) \in Nat
      /\ \A i, j \in 1 .. Len(q) : q[i] = q[j] => i = j
  BY LenProperties, EmptySeq, FS_CardinalityType DEF Consistent, Injective
<1>2. CASE /\ StartCount(q, ex) = 0
           /\ q = <<>> \/ Cardinality(ActiveIn(ex)) = MaxConcurrency
  <2>1. Started(q, ex) = {}
    BY <1>2 DEF Started
  <2>2. queue' = q
    BY <1>1, <1>2, SubSeqFull DEF StartQueuedTasks
  <2>3. execution' = ex /\ status' = st /\ timer' = tm
    BY <2>1 DEF StartQueuedTasks, Consistent
  <2> QED BY <2>2, <2>3, <1>2 DEF WorkConserving, Idle, Active
<1>3. CASE /\ StartCount(q, ex) = 1
           /\ Len(q) >= 1
           /\ Cardinality(ActiveIn(ex)) < MaxConcurrency
           /\ Len(q) = 1 \/ Cardinality(ActiveIn(ex)) = MaxConcurrency - 1
  <2> DEFINE u == q[1]
  <2>1. u \in Tasks /\ u \in ToSet(q) /\ st[u] = "queued" /\ ex[u] = "none"
    BY <1>1, <1>3 DEF Consistent, ToSet
  <2>2. Started(q, ex) = {u}
    BY <1>3 DEF Started
  <2>3. /\ queue' \in Seq(Tasks)
        /\ Len(queue') = Len(q) - 1
        /\ DOMAIN queue' = 1 .. Len(queue')
        /\ \A i \in 1 .. Len(queue') : queue'[i] = q[i + 1]
    <3>1. queue' = SubSeq(q, 2, Len(q))
      BY <1>3 DEF StartQueuedTasks
    <3>2. /\ SubSeq(q, 2, Len(q)) \in Seq(Tasks)
          /\ Len(SubSeq(q, 2, Len(q))) = Len(q) - 2 + 1
          /\ \A i \in 1 .. Len(q) - 2 + 1 : SubSeq(q, 2, Len(q))[i] = q[2 + i - 1]
      BY <1>1, <1>3, SliceProperties
    <3> QED BY <3>1, <3>2, <1>1, <1>3, LenProperties
  <2>4. /\ execution' = [t \in Tasks |-> IF t = u THEN "running" ELSE ex[t]]
        /\ status' = [t \in Tasks |-> IF t = u THEN "working" ELSE st[t]]
        /\ timer' = [t \in Tasks |-> IF t = u THEN HasTimeout ELSE tm[t]]
    BY <2>2 DEF StartQueuedTasks
  <2>5. Injective(queue')
    BY <2>3, <1>1 DEF Injective
  <2>6. ToSet(queue') = ToSet(q) \ {u}
    <3>1. ASSUME NEW x \in ToSet(queue') PROVE x \in ToSet(q) \ {u}
      <4>1. PICK i \in 1 .. Len(queue') : queue'[i] = x
        BY <2>3 DEF ToSet
      <4>2. i + 1 \in 1 .. Len(q) /\ q[i + 1] = x /\ q[i + 1] # q[1]
        BY <4>1, <2>3, <1>1
      <4> QED BY <4>2, <1>1 DEF ToSet
    <3>2. ASSUME NEW x \in ToSet(q) \ {u} PROVE x \in ToSet(queue')
      <4>1. PICK i \in 1 .. Len(q) : q[i] = x /\ i # 1
        BY <1>1 DEF ToSet
      <4>2. i - 1 \in 1 .. Len(queue') /\ queue'[i - 1] = x
        BY <4>1, <2>3, <1>1
      <4> QED BY <4>2, <2>3 DEF ToSet
    <3> QED BY <3>1, <3>2
  <2>7. /\ ActiveIn(execution') = ActiveIn(ex) \cup {u}
        /\ u \notin ActiveIn(ex)
    BY <2>1, <2>4 DEF ActiveIn
  <2>8. /\ IsFiniteSet(ActiveIn(execution'))
        /\ Cardinality(ActiveIn(execution')) = Cardinality(ActiveIn(ex)) + 1
    BY <2>7, FS_AddElement DEF Consistent
  <2> HIDE DEF u
  <2>9. \A i \in DOMAIN queue' : status'[queue'[i]] = "queued"
    <3>1. \A i \in DOMAIN queue' : queue'[i] \in ToSet(q) \ {u}
      BY <2>6 DEF ToSet
    <3>2. \A x \in ToSet(q) : x \in Tasks /\ st[x] = "queued"
      BY <1>1 DEF ToSet, Consistent
    <3> QED BY <3>1, <3>2, <2>4
  <2>10. /\ execution' \in [Tasks -> Phase]
         /\ status' \in [Tasks -> Status \cup NoRecord]
         /\ timer' \in [Tasks -> BOOLEAN]
    BY <2>4, HasTimeoutAssumption DEF Consistent, Phase, Status
  <2>11. ASSUME NEW t \in Tasks
         PROVE  /\ status'[t] = "queued" =>
                     execution'[t] = IF t \in ToSet(queue') THEN "none" ELSE "settling"
                /\ execution'[t] = "running" <=> status'[t] = "working"
                /\ execution'[t] = "aborted" => status'[t] \in Terminal \cup {"removed"}
                /\ timer'[t] /\ execution'[t] # "settling" => execution'[t] = "running"
                /\ status'[t] = "unsubmitted" => execution'[t] = "none"
    BY <2>1, <2>4, <2>6 DEF Consistent, Terminal
  <2>12. Consistent(queue', execution', status', timer')
    BY <2>3, <2>5, <2>8, <2>9, <2>10, <2>11, <1>1, <1>3, MaxConcurrencyAssumption
       DEF Consistent
  <2>13. WorkConserving'
    BY <2>3, <2>8, <1>1, <1>3, MaxConcurrencyAssumption, EmptySeq DEF WorkConserving, Active
  <2>14. ~Idle'
    BY <2>7 DEF Idle, Active
  <2> QED BY <2>1, <2>4, <2>12, <2>13, <2>14
<1> QED BY <1>2, <1>3, StartOne

-----------------------------------------------------------------------------
(* The inductive invariant: the checked invariants, and of executions that   *)
(* an aborted one belongs to a finished task and a new task has none.        *)
IInv ==
  /\ TypeOK
  /\ Consistent(queue, execution, status, timer)
  /\ WorkConserving
  /\ NoLostWakeup

LEMMA InitEstablishes == Init => IInv
<1> SUFFICES ASSUME Init PROVE IInv
  OBVIOUS
<1>1. ActiveIn(execution) = {}
  BY DEF Init, ActiveIn
<1>2. IsFiniteSet(ActiveIn(execution)) /\ Cardinality(ActiveIn(execution)) = 0
  BY <1>1, FS_EmptySet
<1>3. /\ queue = <<>> /\ queue \in Seq(Tasks) /\ DOMAIN queue = {}
      /\ ToSet(queue) = {}
  BY EmptySeq DEF Init, ToSet
<1>4. TypeOK
  BY <1>3 DEF Init, TypeOK, NoRecord, Phase
<1>5. Consistent(queue, execution, status, timer)
  BY <1>2, <1>3, MaxConcurrencyAssumption
     DEF Init, Consistent, Injective, NoRecord, Phase
<1>6. WorkConserving /\ NoLostWakeup
  BY <1>3 DEF Init, WorkConserving, NoLostWakeup
<1> QED BY <1>4, <1>5, <1>6 DEF IInv

(* A task that has just become queued is added to the queue, or left to the  *)
(* cleanup of its previous execution.                                        *)
LEMMA ScheduleKeepsConsistent ==
  ASSUME NEW t \in Tasks, NEW st, Consistent(queue, execution, status, timer),
         WorkConserving,
         st = [status EXCEPT ![t] = "queued"],
         \/ status[t] = "unsubmitted"
         \/ status[t] = "input_required",
         ScheduleTask(t, st)
  PROVE  /\ Consistent(queue', execution', status', timer')
         /\ WorkConserving'
         /\ ~Idle'
         /\ \A u \in Tasks : \/ status'[u] = status[u]
                             \/ u = t /\ status'[u] \in {"queued", "working"}
                             \/ status[u] = "queued" /\ status'[u] = "working"
<1>1. /\ execution[t] \in {"none", "settling"}
      /\ t \notin ToSet(queue)
      /\ ~timer[t] \/ execution[t] = "settling"
  <2>1. \A x \in ToSet(queue) : status[x] = "queued"
    BY DEF ToSet, Consistent
  <2> QED BY <2>1 DEF Consistent, Phase, Terminal
<1>2. /\ st \in [Tasks -> Status \cup NoRecord]
      /\ st[t] = "queued"
      /\ \A u \in Tasks : u # t => st[u] = status[u]
  BY DEF Consistent, Status
<1>3. CASE execution[t] # "none"
  <2>1. status' = st /\ queue' = queue /\ execution' = execution /\ timer' = timer
    BY <1>3 DEF ScheduleTask
  <2>2. \A i \in DOMAIN queue : st[queue[i]] = "queued"
    BY <1>1, <1>2 DEF Consistent, ToSet
  <2>3. Consistent(queue, execution, st, timer)
    BY <1>1, <1>2, <1>3, <2>2 DEF Consistent
  <2>4. ~Idle'
    BY <1>3, <2>1 DEF Idle, Active, ActiveIn
  <2>5. WorkConserving'
    BY <2>1 DEF WorkConserving, Active, ActiveIn
  <2> QED BY <1>2, <2>1, <2>3, <2>4, <2>5
<1>4. CASE execution[t] = "none"
  <2> DEFINE q == With(queue, t)
  <2>1. StartQueuedTasks(q, execution, st, timer)
    BY <1>4 DEF ScheduleTask
  <2>2. /\ q \in Seq(Tasks) /\ ToSet(q) = ToSet(queue) \cup {t}
        /\ Injective(q) /\ q # <<>> /\ Len(q) = Len(queue) + 1
    BY <1>1, WithProperties DEF Consistent
  <2> HIDE DEF q
  <2>3. \A i \in DOMAIN q : st[q[i]] = "queued"
    <3>1. \A i \in DOMAIN q : q[i] \in ToSet(queue) \cup {t}
      BY <2>2 DEF ToSet
    <3>2. \A x \in ToSet(queue) : x \in Tasks /\ status[x] = "queued"
      BY LenProperties DEF ToSet, Consistent
    <3> QED BY <3>1, <3>2, <1>1, <1>2
  <2>4. Consistent(q, execution, st, timer)
    BY <1>1, <1>2, <1>4, <2>2, <2>3 DEF Consistent
  <2>5. Len(q) <= 1 \/ Cardinality(ActiveIn(execution)) >= MaxConcurrency - 1
    <3>1. Len(queue) \in Nat /\ (queue = <<>> => Len(queue) = 0)
      BY LenProperties DEF Consistent
    <3>2. CASE queue = <<>>
      BY <3>1, <3>2, <2>2
    <3>3. CASE queue # <<>>
      BY <3>3, MaxConcurrencyAssumption DEF WorkConserving, Active
    <3> QED BY <3>2, <3>3
  <2>6. /\ Consistent(queue', execution', status', timer')
        /\ WorkConserving'
        /\ ~Idle'
        /\ \A u \in Tasks : \/ status'[u] = st[u]
                            \/ st[u] = "queued" /\ status'[u] = "working"
    <3>1. q # <<>> \/ ActiveIn(execution) # {}
      BY <2>2
    <3>2. /\ Consistent(queue', execution', status', timer')
          /\ WorkConserving'
          /\ q # <<>> \/ ActiveIn(execution) # {} => ~Idle'
          /\ \A u \in Tasks : \/ status'[u] = st[u]
                              \/ st[u] = "queued" /\ status'[u] = "working"
      BY <2>1, <2>4, <2>5, StartKeepsConsistent, ZenonT(60)
    <3> QED BY <3>1, <3>2
  <2> QED BY <2>6, <1>2
<1> QED BY <1>3, <1>4

(* The cleanup after an execution: the slot is freed, the task is queued     *)
(* again if it was resumed meanwhile, and a waiting task takes the slot.     *)
LEMMA SettleKeepsConsistent ==
  ASSUME NEW t \in Tasks, Settle(t), WorkConserving,
         Consistent(queue, execution, status, timer)
  PROVE  /\ Consistent(queue', execution', status', timer')
         /\ WorkConserving'
         /\ \A u \in Tasks : \/ status'[u] = status[u]
                             \/ status[u] = "queued" /\ status'[u] = "working"
<1> DEFINE q == IF status[t] = "queued" THEN With(queue, t) ELSE queue
           ex == [execution EXCEPT ![t] = "none"]
           tm == [timer EXCEPT ![t] = FALSE]
<1>1. execution[t] = "settling" /\ StartQueuedTasks(q, ex, status, tm)
  BY DEF Settle
<1>2. /\ t \notin ToSet(queue)
      /\ status[t] # "working"
  BY <1>1, LenProperties DEF Consistent, ToSet
<1>3. /\ q \in Seq(Tasks) /\ Injective(q)
      /\ ToSet(q) = IF status[t] = "queued" THEN ToSet(queue) \cup {t} ELSE ToSet(queue)
      /\ Len(q) = IF status[t] = "queued" THEN Len(queue) + 1 ELSE Len(queue)
  <2>1. queue \in Seq(Tasks) /\ Injective(queue)
    BY DEF Consistent
  <2>2. CASE status[t] = "queued"
    BY <2>1, <2>2, <1>2, WithProperties
  <2>3. CASE status[t] # "queued"
    BY <2>1, <2>3
  <2> QED BY <2>2, <2>3
<1>4. /\ t \in ActiveIn(execution)
      /\ ActiveIn(ex) = ActiveIn(execution) \ {t}
  BY <1>1 DEF ActiveIn, Consistent
<1>5. /\ IsFiniteSet(ActiveIn(ex))
      /\ Cardinality(ActiveIn(ex)) = Cardinality(ActiveIn(execution)) - 1
      /\ Cardinality(ActiveIn(ex)) \in Nat /\ Cardinality(ActiveIn(execution)) \in Nat
  <2>1. IsFiniteSet(ActiveIn(execution))
    BY DEF Consistent
  <2> HIDE DEF ex
  <2>2. /\ IsFiniteSet(ActiveIn(execution) \ {t})
        /\ Cardinality(ActiveIn(execution) \ {t}) = Cardinality(ActiveIn(execution)) - 1
    BY <2>1, <1>4, FS_RemoveElement
  <2> QED BY <2>1, <2>2, <1>4, FS_CardinalityType
<1>6. Len(q) <= 1 \/ Cardinality(ActiveIn(ex)) >= MaxConcurrency - 1
  <2>1. Len(queue) \in Nat /\ (queue = <<>> => Len(queue) = 0)
    BY LenProperties DEF Consistent
  <2> HIDE DEF q
  <2>2. CASE queue = <<>>
    BY <2>1, <2>2, <1>3
  <2>3. CASE queue # <<>>
    BY <2>3, <1>5, MaxConcurrencyAssumption DEF WorkConserving, Active
  <2> QED BY <2>2, <2>3
<1>7. Consistent(q, ex, status, tm)
  <2> HIDE DEF q
  <2>1. \A i \in DOMAIN q : status[q[i]] = "queued"
    <3>1. \A i \in DOMAIN q : q[i] \in ToSet(q)
      BY DEF ToSet
    <3>2. \A x \in ToSet(queue) : status[x] = "queued"
      BY DEF ToSet, Consistent
    <3> QED BY <3>1, <3>2, <1>3
  <2>2. ASSUME NEW u \in Tasks
        PROVE  /\ status[u] = "queued" =>
                    ex[u] = IF u \in ToSet(q) THEN "none" ELSE "settling"
               /\ ex[u] = "running" <=> status[u] = "working"
               /\ ex[u] = "aborted" => status[u] \in Terminal \cup {"removed"}
               /\ tm[u] /\ ex[u] # "settling" => ex[u] = "running"
               /\ status[u] = "unsubmitted" => ex[u] = "none"
    BY <1>1, <1>2, <1>3 DEF Consistent, Terminal
  <2>3. Cardinality(ActiveIn(ex)) <= MaxConcurrency
    BY <1>5, MaxConcurrencyAssumption DEF Consistent
  <2>4. ex \in [Tasks -> Phase] /\ tm \in [Tasks -> BOOLEAN]
    BY DEF Consistent, Phase
  <2> QED BY <1>3, <1>5, <2>1, <2>2, <2>3, <2>4 DEF Consistent
<1> HIDE DEF q, ex, tm
<1>8. /\ Consistent(queue', execution', status', timer')
      /\ WorkConserving'
      /\ q # <<>> \/ ActiveIn(ex) # {} => ~Idle'
      /\ \A u \in Tasks : \/ status'[u] = status[u]
                          \/ status[u] = "queued" /\ status'[u] = "working"
  BY <1>1, <1>6, <1>7, StartKeepsConsistent, Zenon
<1> QED BY <1>8

(* Every step preserves the inductive invariant. *)
LEMMA NextKeepsIInv == IInv /\ [Next]_vars => IInv'
<1> SUFFICES ASSUME IInv, [Next]_vars PROVE IInv'
  OBVIOUS
<1> USE DEF IInv
<1>1. ASSUME NEW t \in Tasks, Submit(t) PROVE IInv'
  <2>1. /\ Consistent(queue', execution', status', timer')
        /\ WorkConserving' /\ ~Idle'
        /\ \A u \in Tasks : \/ status'[u] = status[u]
                            \/ u = t /\ status'[u] \in {"queued", "working"}
                            \/ status[u] = "queued" /\ status'[u] = "working"
    <3>1. ScheduleTask(t, [status EXCEPT ![t] = "queued"]) /\ status[t] = "unsubmitted"
      BY <1>1 DEF Submit
    <3> QED BY <3>1, ScheduleKeepsConsistent
  <2>2. TypeOK'
    BY <1>1, <2>1 DEF Submit, TypeOK, Consistent, Terminal, NoRecord
  <2> QED BY <2>1, <2>2 DEF NoLostWakeup
<1>2. ASSUME NEW t \in Tasks, ToolReturns(t) PROVE IInv'
  <2>1. PICK outcome \in Terminal \cup {"input_required"},
             unanswered \in SUBSET Interrupts :
               ExecutionReturns(t, outcome, unanswered)
    BY <1>2 DEF ToolReturns
  <2>2. ActiveIn(execution') = ActiveIn(execution)
    BY <2>1 DEF ExecutionReturns, Executing, ActiveIn, Consistent
  <2>3. TypeOK'
    BY <2>1 DEF ExecutionReturns, TypeOK, Consistent, Terminal, NoRecord, Status, Phase
  <2>4. status[t] # "queued" /\ status[t] # "unsubmitted" /\ execution[t] # "none"
    BY <2>1 DEF ExecutionReturns, Executing, Consistent
  <2>5. \A i \in DOMAIN queue : queue[i] # t
    BY <2>4 DEF Consistent
  <2>6. Consistent(queue', execution', status', timer')
    <3>1. \A i \in DOMAIN queue' : status'[queue'[i]] = "queued"
      BY <2>1, <2>5, LenProperties DEF ExecutionReturns, Consistent
    <3>2. ASSUME NEW u \in Tasks
          PROVE  /\ status'[u] = "queued" =>
                      execution'[u] = IF u \in ToSet(queue') THEN "none" ELSE "settling"
                 /\ execution'[u] = "running" <=> status'[u] = "working"
                 /\ execution'[u] = "aborted" => status'[u] \in Terminal \cup {"removed"}
                 /\ timer'[u] /\ execution'[u] # "settling" => execution'[u] = "running"
                 /\ status'[u] = "unsubmitted" => execution'[u] = "none"
      BY <2>1, <2>4 DEF ExecutionReturns, Executing, Consistent, Terminal
    <3> QED BY <2>1, <2>2, <2>3, <3>1, <3>2 DEF ExecutionReturns, Consistent, TypeOK
  <2>7. WorkConserving' /\ NoLostWakeup'
    BY <2>1, <2>2 DEF ExecutionReturns, WorkConserving, NoLostWakeup, Idle, Active
  <2> QED BY <2>3, <2>6, <2>7
<1>3. ASSUME NEW t \in Tasks, Settle(t) PROVE IInv'
  <2>1. /\ Consistent(queue', execution', status', timer')
        /\ WorkConserving'
        /\ \A u \in Tasks : \/ status'[u] = status[u]
                            \/ status[u] = "queued" /\ status'[u] = "working"
    BY <1>3, SettleKeepsConsistent
  <2>2. /\ waiter' = [w \in Waiters |-> IF waiter[w] = "waiting" THEN "woken"
                                                              ELSE waiter[w]]
        /\ state' = state
    BY <1>3 DEF Settle, WakeIdleWaiters
  <2>3. TypeOK'
    BY <2>1, <2>2 DEF TypeOK, Consistent, Terminal, NoRecord
  <2>4. NoLostWakeup'
    BY <2>2 DEF NoLostWakeup
  <2> QED BY <2>1, <2>3, <2>4
<1>4. ASSUME NEW t \in Tasks, Cancel(t) PROVE IInv'
  <2>1. /\ queue' \in Seq(Tasks) /\ Injective(queue')
        /\ ToSet(queue') = ToSet(queue) \ {t}
        /\ queue' # <<>> => queue # <<>>
    <3>1. queue \in Seq(Tasks) /\ Injective(queue)
      BY DEF Consistent
    <3>2. queue' = Without(queue, t)
      BY <1>4 DEF Cancel
    <3>3. /\ Without(queue, t) \in Seq(Tasks)
          /\ ToSet(Without(queue, t)) = ToSet(queue) \ {t}
          /\ Injective(Without(queue, t))
          /\ Without(queue, t) # <<>> => queue # <<>>
      BY <3>1, WithoutProperties, Zenon
    <3> QED BY <3>2, <3>3, Zenon
  <2>2. TypeOK'
    BY <1>4, <2>1
       DEF Cancel, WakeIdleWaiters, TypeOK, Terminal, NoRecord, Status, Phase, Executing
  <2>3. ActiveIn(execution') = ActiveIn(execution)
    BY <1>4 DEF Cancel, Executing, ActiveIn, Consistent
  <2>4. \A i \in DOMAIN queue' : status'[queue'[i]] = "queued"
    <3>1. \A i \in DOMAIN queue' : queue'[i] \in ToSet(queue) \ {t}
      BY <2>1 DEF ToSet
    <3>2. \A x \in ToSet(queue) : x \in Tasks /\ status[x] = "queued"
      BY LenProperties DEF ToSet, Consistent
    <3> QED BY <1>4, <3>1, <3>2 DEF Cancel, Consistent
  <2>5. ASSUME NEW u \in Tasks
        PROVE  /\ status'[u] = "queued" =>
                    execution'[u] = IF u \in ToSet(queue') THEN "none" ELSE "settling"
               /\ execution'[u] = "running" <=> status'[u] = "working"
               /\ execution'[u] = "aborted" => status'[u] \in Terminal \cup {"removed"}
               /\ timer'[u] /\ execution'[u] # "settling" => execution'[u] = "running"
               /\ status'[u] = "unsubmitted" => execution'[u] = "none"
    BY <1>4, <2>1 DEF Cancel, Executing, Consistent, Terminal, Status
  <2>6. Consistent(queue', execution', status', timer')
    BY <2>1, <2>2, <2>3, <2>4, <2>5 DEF Consistent, TypeOK
  <2>7. WorkConserving' /\ NoLostWakeup'
    BY <1>4, <2>1, <2>3 DEF Cancel, WakeIdleWaiters, WorkConserving, NoLostWakeup, Active
  <2> QED BY <2>2, <2>6, <2>7
<1>5. ASSUME NEW t \in Tasks, TimeoutTask(t) PROVE IInv'
  <2>1. /\ status[t] = "working"
        /\ status' = [status EXCEPT ![t] = "failed"]
        /\ state' = [state EXCEPT ![t] = NoState]
        /\ execution' = [execution EXCEPT ![t] = "aborted"]
        /\ timer' = [timer EXCEPT ![t] = FALSE]
        /\ queue' = queue /\ waiter' = waiter
    BY <1>5 DEF TimeoutTask, Executing, Consistent
  <2>2. TypeOK'
    BY <2>1 DEF TypeOK, Terminal, NoRecord, Status, Phase
  <2>3. ActiveIn(execution') = ActiveIn(execution)
    BY <2>1 DEF ActiveIn, Consistent
  <2>4. \A i \in DOMAIN queue' : status'[queue'[i]] = "queued"
    BY <2>1, LenProperties DEF Consistent
  <2>5. ASSUME NEW u \in Tasks
        PROVE  /\ status'[u] = "queued" =>
                    execution'[u] = IF u \in ToSet(queue') THEN "none" ELSE "settling"
               /\ execution'[u] = "running" <=> status'[u] = "working"
               /\ execution'[u] = "aborted" => status'[u] \in Terminal \cup {"removed"}
               /\ timer'[u] /\ execution'[u] # "settling" => execution'[u] = "running"
               /\ status'[u] = "unsubmitted" => execution'[u] = "none"
    BY <2>1 DEF Consistent, Terminal
  <2>6. Consistent(queue', execution', status', timer')
    BY <2>1, <2>2, <2>3, <2>4, <2>5 DEF Consistent, TypeOK
  <2>7. WorkConserving' /\ NoLostWakeup'
    BY <2>1, <2>3 DEF WorkConserving, NoLostWakeup, Idle, Active
  <2> QED BY <2>2, <2>6, <2>7
<1>6. ASSUME NEW t \in Tasks, NEW answered \in SUBSET Interrupts, Resume(t, answered)
      PROVE  IInv'
  <2>1. /\ status[t] = "input_required" /\ waiter' = waiter
        /\ state' = [state EXCEPT ![t] = state[t] \ answered]
        /\ state[t] \ answered \in SUBSET Interrupts
    BY <1>6 DEF Resume, TypeOK
  <2>2. CASE state[t] \ answered = {}
    <3>1. ScheduleTask(t, [status EXCEPT ![t] = "queued"])
      BY <1>6, <2>2 DEF Resume
    <3>2. /\ Consistent(queue', execution', status', timer')
          /\ WorkConserving' /\ ~Idle'
          /\ \A u \in Tasks : \/ status'[u] = status[u]
                              \/ u = t /\ status'[u] \in {"queued", "working"}
                              \/ status[u] = "queued" /\ status'[u] = "working"
      BY <2>1, <3>1, ScheduleKeepsConsistent
    <3>3. TypeOK'
      <4>1. state' \in [Tasks -> (SUBSET Interrupts) \cup {NoState}]
        BY <2>1 DEF TypeOK
      <4>2. ASSUME NEW u \in Tasks
            PROVE  /\ status'[u] = "input_required" => state'[u] \in SUBSET Interrupts
                   /\ status'[u] \in Terminal \cup NoRecord => state'[u] = NoState
        <5>1. CASE u = t
          BY <2>1, <3>2, <5>1 DEF TypeOK, Terminal, NoRecord
        <5>2. CASE u # t
          BY <2>1, <3>2, <5>2 DEF TypeOK, Terminal, NoRecord
        <5> QED BY <5>1, <5>2
      <4> QED BY <2>1, <3>2, <4>1, <4>2 DEF TypeOK, Consistent
    <3> QED BY <3>2, <3>3 DEF NoLostWakeup
  <2>3. CASE state[t] \ answered # {}
    <3>1. UNCHANGED <<status, queue, execution, timer>>
      BY <1>6, <2>3 DEF Resume
    <3>2. TypeOK'
      BY <2>1, <3>1 DEF TypeOK, Terminal, NoRecord
    <3> QED BY <2>1, <3>1, <3>2 DEF WorkConserving, NoLostWakeup, Idle, Active
  <2> QED BY <2>2, <2>3
<1>7. ASSUME NEW t \in Tasks, RemoveRecord(t) PROVE IInv'
  <2>1. /\ status[t] \in Terminal
        /\ status' = [status EXCEPT ![t] = "removed"]
        /\ UNCHANGED <<state, queue, execution, timer, waiter>>
    BY <1>7 DEF RemoveRecord
  <2>2. TypeOK'
    BY <2>1 DEF TypeOK, Terminal, NoRecord, Status
  <2>3. \A i \in DOMAIN queue' : status'[queue'[i]] = "queued"
    BY <2>1, LenProperties DEF Consistent, Terminal
  <2>4. ASSUME NEW u \in Tasks
        PROVE  /\ status'[u] = "queued" =>
                    execution'[u] = IF u \in ToSet(queue') THEN "none" ELSE "settling"
               /\ execution'[u] = "running" <=> status'[u] = "working"
               /\ execution'[u] = "aborted" => status'[u] \in Terminal \cup {"removed"}
               /\ timer'[u] /\ execution'[u] # "settling" => execution'[u] = "running"
               /\ status'[u] = "unsubmitted" => execution'[u] = "none"
    BY <2>1 DEF Consistent, Terminal
  <2>5. Consistent(queue', execution', status', timer')
    BY <2>1, <2>2, <2>3, <2>4 DEF Consistent, TypeOK
  <2>6. WorkConserving' /\ NoLostWakeup'
    BY <2>1 DEF WorkConserving, NoLostWakeup, Idle, Active
  <2> QED BY <2>2, <2>5, <2>6
<1>8. ASSUME NEW w \in Waiters, CheckIdle(w) \/ AbortWait(w) \/ WaitAgain(w)
      PROVE  IInv'
  <2>1. UNCHANGED <<status, state, queue, execution, timer>>
    BY <1>8 DEF CheckIdle, AbortWait, WaitAgain
  <2>2. TypeOK'
    BY <1>8, <2>1 DEF TypeOK, CheckIdle, AbortWait, WaitAgain
  <2>3. NoLostWakeup'
    BY <1>8, <2>1 DEF TypeOK, NoLostWakeup, Idle, Active, CheckIdle, AbortWait, WaitAgain
  <2> QED BY <2>1, <2>2, <2>3 DEF WorkConserving, Active
<1>9. CASE UNCHANGED vars
  BY <1>9 DEF vars, TypeOK, WorkConserving, NoLostWakeup, Idle, Active
<1> QED
  BY <1>1, <1>2, <1>3, <1>4, <1>5, <1>6, <1>7, <1>8, <1>9 DEF Next

-----------------------------------------------------------------------------
(* The inductive invariant holds in every reachable state. *)
LEMMA SpecKeepsIInv == Spec => []IInv
<1> QED BY InitEstablishes, NextKeepsIInv, PTL DEF Spec

(* The engine's collections always hold what their declarations say, and a   *)
(* record has interrupt state exactly when its status calls for it.          *)
THEOREM TypeCorrect == Spec => []TypeOK
<1>1. IInv => TypeOK
  BY DEF IInv
<1> QED BY <1>1, SpecKeepsIInv, PTL

(* PhysicalBound: whatever callers, tools and timers do, no more tools run    *)
(* than maxConcurrency allows.                                               *)
THEOREM SlotsCorrect == Spec => []PhysicalBound
<1>1. IInv => PhysicalBound
  BY DEF IInv, Consistent, PhysicalBound, Active
<1> QED BY <1>1, SpecKeepsIInv, PTL

(* WorkConserving: no slot is free while a task waits, although a slot is    *)
(* filled only by the two paths that start tasks.                            *)
THEOREM NoSlotStaysFree == Spec => []WorkConserving
<1>1. IInv => WorkConserving
  BY DEF IInv
<1> QED BY <1>1, SpecKeepsIInv, PTL

(* No queued task is forgotten or queued twice by the two paths that start   *)
(* tasks.                                                                    *)
THEOREM QueueCorrect == Spec => []NoStrandedTask
<1>1. IInv => NoStrandedTask
  BY DEF IInv, Consistent, Injective, NoStrandedTask
<1> QED BY <1>1, SpecKeepsIInv, PTL

(* A tool that runs on after its task was finished has been aborted, and no  *)
(* timer outlives the work it guards.                                        *)
THEOREM AbortCorrect == Spec => []DisownedToolsAreAborted
<1>1. IInv => DisownedToolsAreAborted
  BY DEF IInv, Consistent, DisownedToolsAreAborted
<1> QED BY <1>1, SpecKeepsIInv, PTL

(* waitForIdle never waits on an idle engine. *)
THEOREM WakeupCorrect == Spec => []NoLostWakeup
<1>1. IInv => NoLostWakeup
  BY DEF IInv
<1> QED BY <1>1, SpecKeepsIInv, PTL

(* A result that arrives after the task was cancelled, timed out or removed  *)
(* changes nothing: terminal statuses are final.                             *)
THEOREM TerminalCorrect == Spec => TerminalIsFinal
<1> DEFINE Final == \A t \in Tasks :
              /\ status[t] \in Terminal => status'[t] \in {status[t], "removed"}
              /\ status[t] = "removed" => status'[t] = "removed"
<1>1. IInv /\ [Next]_vars => [Final]_vars
  <2> SUFFICES ASSUME IInv, Next PROVE Final
    OBVIOUS
  <2> USE DEF IInv
  <2>1. ASSUME NEW t \in Tasks, Submit(t) PROVE Final
    <3>1. ScheduleTask(t, [status EXCEPT ![t] = "queued"]) /\ status[t] = "unsubmitted"
      BY <2>1 DEF Submit
    <3>2. \A u \in Tasks : \/ status'[u] = status[u]
                           \/ u = t /\ status'[u] \in {"queued", "working"}
                           \/ status[u] = "queued" /\ status'[u] = "working"
      BY <3>1, ScheduleKeepsConsistent
    <3> QED BY <3>1, <3>2 DEF Terminal
  <2>2. ASSUME NEW t \in Tasks, ToolReturns(t) PROVE Final
    BY <2>2 DEF ToolReturns, ExecutionReturns, TypeOK, Terminal
  <2>3. ASSUME NEW t \in Tasks, Settle(t) PROVE Final
    <3>1. \A u \in Tasks : \/ status'[u] = status[u]
                           \/ status[u] = "queued" /\ status'[u] = "working"
      BY <2>3, SettleKeepsConsistent
    <3> QED BY <3>1 DEF Terminal
  <2>4. ASSUME NEW t \in Tasks, Cancel(t) PROVE Final
    BY <2>4 DEF Cancel, TypeOK, Terminal, Status
  <2>5. ASSUME NEW t \in Tasks, TimeoutTask(t) PROVE Final
    BY <2>5 DEF TimeoutTask, TypeOK, Terminal
  <2>6. ASSUME NEW t \in Tasks, NEW answered \in SUBSET Interrupts, Resume(t, answered)
        PROVE  Final
    <3>1. status[t] = "input_required"
      BY <2>6 DEF Resume
    <3>2. CASE ScheduleTask(t, [status EXCEPT ![t] = "queued"])
      <4>1. \A u \in Tasks : \/ status'[u] = status[u]
                             \/ u = t /\ status'[u] \in {"queued", "working"}
                             \/ status[u] = "queued" /\ status'[u] = "working"
        BY <3>1, <3>2, ScheduleKeepsConsistent
      <4> QED BY <3>1, <4>1 DEF Terminal
    <3>3. CASE UNCHANGED status
      BY <3>3
    <3> QED BY <2>6, <3>2, <3>3 DEF Resume
  <2>7. ASSUME NEW t \in Tasks, RemoveRecord(t) PROVE Final
    BY <2>7 DEF RemoveRecord, TypeOK, Terminal
  <2>8. ASSUME NEW w \in Waiters, CheckIdle(w) \/ AbortWait(w) \/ WaitAgain(w)
        PROVE  Final
    BY <2>8 DEF CheckIdle, AbortWait, WaitAgain
  <2> QED
    BY <2>1, <2>2, <2>3, <2>4, <2>5, <2>6, <2>7, <2>8 DEF Next
<1> QED BY <1>1, SpecKeepsIInv, PTL DEF Spec, TerminalIsFinal
=============================================================================
