--------------------------- MODULE TaskPool_proofs ---------------------------
(* The background task engine implements the pool of slots, for every set of *)
(* tasks and every maxConcurrency.                                           *)
EXTENDS TaskEngine_proofs

(* The instance counts slots as the engine does.                             *)
LEMMA PoolCardinality == \A S : Pool!Cardinality(S) = Cardinality(S)
<1> QED BY DEF Pool!Cardinality, Cardinality

(* What _startQueuedTasks does, seen from the pool: nothing, because no task *)
(* waits or all slots are taken, or it gives one slot to one waiting task.   *)
LEMMA StartIsPoolStep ==
  ASSUME NEW STATE q, NEW STATE ex, NEW STATE st, NEW STATE tm,
         Consistent(q, ex, st, tm),
         Len(q) <= 1 \/ Cardinality(ActiveIn(ex)) >= MaxConcurrency - 1,
         StartQueuedTasks(q, ex, st, tm)
  PROVE  \/ /\ status' = st /\ Active' = ActiveIn(ex)
            /\ q = <<>> \/ Cardinality(ActiveIn(ex)) = MaxConcurrency
         \/ /\ Cardinality(ActiveIn(ex)) < MaxConcurrency
            /\ \E u \in Tasks :
                 /\ u \in ToSet(q) /\ st[u] = "queued" /\ ex[u] = "none"
                 /\ Len(q) = 1 => ToSet(q) = {u}
                 /\ status' = [st EXCEPT ![u] = "working"]
                 /\ Active' = ActiveIn(ex) \cup {u}
<1>1. /\ Len(q) \in Nat /\ DOMAIN q = 1 .. Len(q)
      /\ \A i \in 1 .. Len(q) : q[i] \in Tasks
  BY LenProperties DEF Consistent
<1>2. CASE /\ StartCount(q, ex) = 0
           /\ q = <<>> \/ Cardinality(ActiveIn(ex)) = MaxConcurrency
  <2>1. Started(q, ex) = {}
    BY <1>2 DEF Started
  <2>2. status' = st /\ execution' = ex
    BY <2>1 DEF StartQueuedTasks, Consistent
  <2> QED BY <1>2, <2>2 DEF Active, ActiveIn
<1>3. CASE /\ StartCount(q, ex) = 1
           /\ Len(q) >= 1
           /\ Cardinality(ActiveIn(ex)) < MaxConcurrency
  <2> DEFINE u == q[1]
  <2>1. u \in Tasks /\ u \in ToSet(q) /\ st[u] = "queued" /\ ex[u] = "none"
    BY <1>1, <1>3 DEF Consistent, ToSet
  <2>2. Len(q) = 1 => ToSet(q) = {u}
    BY <1>1 DEF ToSet
  <2>3. Started(q, ex) = {u}
    BY <1>3 DEF Started
  <2> HIDE DEF u
  <2>4. status' = [st EXCEPT ![u] = "working"]
    BY <2>1, <2>3 DEF StartQueuedTasks, Consistent
  <2>5. Active' = ActiveIn(ex) \cup {u}
    BY <2>1, <2>3 DEF StartQueuedTasks, Consistent, Active, ActiveIn
  <2> QED BY <1>3, <2>1, <2>2, <2>4, <2>5
<1> QED BY <1>2, <1>3, StartOne

(* A task that becomes queued enters the pool, or waits for a good reason.   *)
LEMMA ScheduleIsPoolStep ==
  ASSUME IInv, NEW t \in Tasks,
         status[t] \in {"unsubmitted", "input_required"},
         ScheduleTask(t, [status EXCEPT ![t] = "queued"])
  PROVE  Pool!Enter(t) \/ Pool!Queue(t)
<1> DEFINE st == [status EXCEPT ![t] = "queued"]
           q == With(queue, t)
<1> USE DEF IInv
<1>1. /\ t \notin ToSet(queue) /\ st[t] = "queued"
      /\ st \in [Tasks -> Status \cup NoRecord]
      /\ \A u \in Tasks : u # t => st[u] = status[u]
  <2>1. \A x \in ToSet(queue) : status[x] = "queued"
    BY DEF ToSet, Consistent
  <2> QED BY <2>1 DEF Consistent, Status
<1>2. CASE execution[t] # "none"
  <2>1. status' = st /\ execution' = execution
    BY <1>2 DEF ScheduleTask
  <2>2. t \in Active /\ Active' = Active
    BY <1>2, <2>1 DEF Active, ActiveIn
  <2> QED BY <2>1, <2>2 DEF Pool!Queue
<1>3. CASE execution[t] = "none"
  <2>1. StartQueuedTasks(q, execution, st, timer)
    BY <1>3 DEF ScheduleTask
  <2>2. /\ q \in Seq(Tasks) /\ ToSet(q) = ToSet(queue) \cup {t}
        /\ Injective(q) /\ q # <<>> /\ Len(q) = Len(queue) + 1
        /\ Len(queue) \in Nat /\ (queue = <<>> <=> Len(queue) = 0)
    BY <1>1, WithProperties, LenProperties, EmptySeq DEF Consistent
  <2> HIDE DEF q
  <2>3. Consistent(q, execution, st, timer)
    <3>1. \A i \in DOMAIN q : q[i] \in ToSet(queue) \cup {t}
      BY <2>2 DEF ToSet
    <3>2. \A x \in ToSet(queue) : x \in Tasks /\ status[x] = "queued"
      BY LenProperties DEF ToSet, Consistent
    <3>3. \A i \in DOMAIN q : st[q[i]] = "queued"
      BY <3>1, <3>2, <1>1
    <3>4. ~timer[t]
      BY <1>3 DEF Consistent
    <3> QED BY <3>3, <3>4, <1>1, <1>3, <2>2 DEF Consistent
  <2>4. Len(q) <= 1 \/ Cardinality(ActiveIn(execution)) >= MaxConcurrency - 1
    BY <2>2, MaxConcurrencyAssumption DEF WorkConserving, Active
  <2>5. t \notin Active
    BY <1>3 DEF Active, ActiveIn
  <2> HIDE DEF st
  <2>6. \/ /\ status' = st /\ Active' = ActiveIn(execution)
           /\ q = <<>> \/ Cardinality(ActiveIn(execution)) = MaxConcurrency
        \/ /\ Cardinality(ActiveIn(execution)) < MaxConcurrency
           /\ \E u \in Tasks :
                /\ u \in ToSet(q) /\ st[u] = "queued" /\ execution[u] = "none"
                /\ Len(q) = 1 => ToSet(q) = {u}
                /\ status' = [st EXCEPT ![u] = "working"]
                /\ Active' = ActiveIn(execution) \cup {u}
    BY <2>1, <2>3, <2>4, StartIsPoolStep, Zenon
  <2>7. CASE /\ status' = st /\ Active' = Active
             /\ Cardinality(Active) = MaxConcurrency
    BY <2>7, PoolCardinality, MaxConcurrencyAssumption DEF Pool!Queue, st
  <2>8. CASE /\ Cardinality(Active) < MaxConcurrency
             /\ \E u \in Tasks :
                  /\ Len(q) = 1 => ToSet(q) = {u}
                  /\ status' = [st EXCEPT ![u] = "working"]
                  /\ Active' = Active \cup {u}
    <3>1. queue = <<>>
      BY <2>8, MaxConcurrencyAssumption DEF WorkConserving, Active
    <3>2. Len(q) = 1 /\ t \in ToSet(q)
      BY <3>1, <2>2
    <3>3. /\ status' = [st EXCEPT ![t] = "working"]
          /\ Active' = Active \cup {t}
      BY <3>2, <2>8
    <3>4. [st EXCEPT ![t] = "working"] = [status EXCEPT ![t] = "working"]
      BY DEF st, Consistent
    <3> QED BY <2>5, <2>8, <3>3, <3>4, PoolCardinality DEF Pool!Enter
  <2> QED BY <2>2, <2>6, <2>7, <2>8 DEF Active
<1> QED BY <1>2, <1>3

(* The cleanup after an execution gives its slot up, or hands it over.       *)
LEMMA SettleIsPoolStep ==
  ASSUME IInv, NEW t \in Tasks, Settle(t)
  PROVE  Pool!Release(t) \/ \E u \in Tasks : Pool!HandOver(t, u)
<1> DEFINE q == IF status[t] = "queued" THEN With(queue, t) ELSE queue
           ex == [execution EXCEPT ![t] = "none"]
           tm == [timer EXCEPT ![t] = FALSE]
<1> USE DEF IInv
<1>1. execution[t] = "settling" /\ StartQueuedTasks(q, ex, status, tm)
  BY DEF Settle
<1>2. /\ t \notin ToSet(queue) /\ status[t] # "working"
      /\ t \in Active /\ ActiveIn(ex) = Active \ {t}
  BY <1>1, LenProperties DEF Consistent, ToSet, Active, ActiveIn
<1>3. /\ q \in Seq(Tasks) /\ Injective(q)
      /\ ToSet(q) = IF status[t] = "queued" THEN ToSet(queue) \cup {t} ELSE ToSet(queue)
      /\ Len(q) = IF status[t] = "queued" THEN Len(queue) + 1 ELSE Len(queue)
  <2>1. queue \in Seq(Tasks) /\ Injective(queue)
    BY DEF Consistent
  <2>2. CASE status[t] = "queued"
    BY <2>1, <2>2, <1>2, WithProperties
  <2>3. CASE status[t] # "queued"
    BY <2>1, <2>3
  <2> QED BY <2>2, <2>3
<1>4. /\ IsFiniteSet(ActiveIn(ex))
      /\ Cardinality(ActiveIn(ex)) = Cardinality(Active) - 1
      /\ Cardinality(ActiveIn(ex)) \in Nat /\ Cardinality(Active) \in Nat
      /\ Cardinality(Active) <= MaxConcurrency
  <2>1. IsFiniteSet(Active) /\ Cardinality(Active) <= MaxConcurrency
    BY DEF Consistent, Active
  <2> HIDE DEF ex
  <2>2. /\ IsFiniteSet(Active \ {t})
        /\ Cardinality(Active \ {t}) = Cardinality(Active) - 1
    BY <2>1, <1>2, FS_RemoveElement
  <2> QED BY <2>1, <2>2, <1>2, FS_CardinalityType
<1> HIDE DEF q
<1>5. Len(queue) \in Nat /\ (queue = <<>> <=> Len(queue) = 0) /\ (q = <<>> => Len(q) = 0)
  BY <1>3, LenProperties, EmptySeq DEF Consistent
<1>6. Len(q) <= 1 \/ Cardinality(ActiveIn(ex)) >= MaxConcurrency - 1
  BY <1>3, <1>4, <1>5, MaxConcurrencyAssumption DEF WorkConserving
<1>7. Consistent(q, ex, status, tm)
  <2>1. \A i \in DOMAIN q : status[q[i]] = "queued"
    <3>1. \A i \in DOMAIN q : q[i] \in ToSet(q)
      BY DEF ToSet
    <3>2. \A x \in ToSet(queue) : status[x] = "queued"
      BY DEF ToSet, Consistent
    <3> QED BY <3>1, <3>2, <1>3
  <2>2. ASSUME NEW u \in Tasks
        PROVE  /\ status[u] = "queued" =>
                    ex[u] = IF u \in ToSet(q) THEN "none" ELSE "settling"
               /\ ex[u] = "running" <=> status[u] = "working"
               /\ ex[u] = "aborted" => status[u] \in Terminal \cup {"removed"}
               /\ tm[u] /\ ex[u] # "settling" => ex[u] = "running"
               /\ status[u] = "unsubmitted" => ex[u] = "none"
    BY <1>1, <1>2, <1>3 DEF Consistent, Terminal
  <2>3. ex \in [Tasks -> Phase] /\ tm \in [Tasks -> BOOLEAN]
    BY DEF Consistent, Phase
  <2> QED BY <1>3, <1>4, <2>1, <2>2, <2>3, MaxConcurrencyAssumption DEF Consistent
<1> HIDE DEF ex, tm
<1>8. \/ /\ status' = status /\ Active' = ActiveIn(ex)
         /\ q = <<>> \/ Cardinality(ActiveIn(ex)) = MaxConcurrency
      \/ /\ Cardinality(ActiveIn(ex)) < MaxConcurrency
         /\ \E u \in Tasks :
              /\ u \in ToSet(q) /\ status[u] = "queued" /\ ex[u] = "none"
              /\ Len(q) = 1 => ToSet(q) = {u}
              /\ status' = [status EXCEPT ![u] = "working"]
              /\ Active' = ActiveIn(ex) \cup {u}
  BY <1>1, <1>6, <1>7, StartIsPoolStep, Zenon
<1>9. CASE status' = status /\ Active' = ActiveIn(ex) /\ q = <<>>
  <2>1. status[t] # "queued" /\ queue = <<>>
    BY <1>3, <1>5, <1>9
  <2>2. \A u \in Tasks : status[u] = "queued" => u \in Active /\ u # t
    <3>1. ToSet(queue) = {}
      BY <2>1, EmptySeq DEF ToSet
    <3> QED BY <2>1, <3>1 DEF Consistent, Active, ActiveIn
  <2>3. Pool!Startable(t) = {}
    BY <2>2 DEF Pool!Startable
  <2> QED BY <1>2, <1>9, <2>3 DEF Pool!Release
<1>10. CASE \E u \in Tasks :
              /\ status[u] = "queued" /\ ex[u] = "none"
              /\ status' = [status EXCEPT ![u] = "working"]
              /\ Active' = ActiveIn(ex) \cup {u}
  <2>1. PICK u \in Tasks :
              /\ status[u] = "queued" /\ ex[u] = "none"
              /\ status' = [status EXCEPT ![u] = "working"]
              /\ Active' = ActiveIn(ex) \cup {u}
    BY <1>10
  <2>2. u \notin Active \ {t}
    BY <2>1, <1>2 DEF ActiveIn
  <2>3. u \in Pool!Startable(t)
    BY <2>1, <2>2 DEF Pool!Startable
  <2>4. Pool!HandOver(t, u)
    BY <1>2, <2>1, <2>3 DEF Pool!HandOver
  <2> QED BY <2>4
<1>11. Cardinality(ActiveIn(ex)) # MaxConcurrency
  BY <1>4, MaxConcurrencyAssumption
<1> QED BY <1>8, <1>9, <1>10, <1>11

(* Every step of the engine is a step of the pool, or none.                  *)
LEMMA NextIsPoolStep == IInv /\ [Next]_vars => [Pool!Next]_Pool!vars
<1> SUFFICES ASSUME IInv, [Next]_vars PROVE Pool!Next \/ UNCHANGED Pool!vars
  OBVIOUS
<1> USE DEF IInv
<1> DEFINE Same == status' = status /\ Active' = Active
<1>1. ASSUME NEW t \in Tasks, Submit(t) PROVE Pool!Next
  <2>1. Pool!Enter(t) \/ Pool!Queue(t)
    BY <1>1, ScheduleIsPoolStep DEF Submit
  <2> QED BY <2>1 DEF Pool!Next
<1>2. ASSUME NEW t \in Tasks, ToolReturns(t) PROVE Pool!Next \/ Same
  <2>1. PICK outcome \in Terminal \cup {"input_required"},
             unanswered \in SUBSET Interrupts :
               ExecutionReturns(t, outcome, unanswered)
    BY <1>2 DEF ToolReturns
  <2>2. Active' = Active
    BY <2>1 DEF ExecutionReturns, Executing, ActiveIn, Active, Consistent
  <2>3. CASE status[t] = "working"
    <3>1. status' = [status EXCEPT ![t] = outcome]
      BY <2>1, <2>3 DEF ExecutionReturns
    <3>2. Pool!Stop(t, outcome)
      BY <2>2, <2>3, <3>1 DEF Pool!Stop, Pool!Terminal, Terminal
    <3> QED BY <3>2 DEF Pool!Next, Pool!Terminal, Terminal
  <2>4. CASE status[t] # "working"
    BY <2>1, <2>2, <2>4 DEF ExecutionReturns
  <2> QED BY <2>3, <2>4
<1>3. ASSUME NEW t \in Tasks, Settle(t) PROVE Pool!Next
  BY <1>3, SettleIsPoolStep DEF Pool!Next
<1>4. ASSUME NEW t \in Tasks, Cancel(t) PROVE Pool!Next
  <2>1. /\ status[t] \in Status \ Terminal
        /\ status' = [status EXCEPT ![t] = "cancelled"]
    BY <1>4 DEF Cancel
  <2>2. Active' = Active
    BY <1>4 DEF Cancel, Executing, ActiveIn, Active, Consistent
  <2>3. CASE status[t] = "working"
    <3>1. Pool!Stop(t, "cancelled")
      BY <2>1, <2>2, <2>3 DEF Pool!Stop, Pool!Terminal
    <3> QED BY <3>1 DEF Pool!Next, Pool!Terminal
  <2>4. CASE status[t] # "working"
    <3>1. Pool!Withdraw(t)
      BY <2>1, <2>2, <2>4 DEF Pool!Withdraw, Status
    <3> QED BY <3>1 DEF Pool!Next
  <2> QED BY <2>3, <2>4
<1>5. ASSUME NEW t \in Tasks, TimeoutTask(t) PROVE Pool!Next
  <2>1. /\ status[t] = "working"
        /\ status' = [status EXCEPT ![t] = "failed"]
        /\ execution' = [execution EXCEPT ![t] = "aborted"]
    BY <1>5 DEF TimeoutTask, Executing, Consistent
  <2>2. Active' = Active
    BY <2>1 DEF ActiveIn, Active, Consistent
  <2>3. Pool!Stop(t, "failed")
    BY <2>1, <2>2 DEF Pool!Stop, Pool!Terminal
  <2> QED BY <2>3 DEF Pool!Next, Pool!Terminal
<1>6. ASSUME NEW t \in Tasks, NEW answered \in SUBSET Interrupts, Resume(t, answered)
      PROVE  Pool!Next \/ Same
  <2>1. CASE state[t] \ answered = {}
    <3>1. Pool!Enter(t) \/ Pool!Queue(t)
      BY <1>6, <2>1, ScheduleIsPoolStep DEF Resume
    <3> QED BY <3>1 DEF Pool!Next
  <2>2. CASE state[t] \ answered # {}
    BY <1>6, <2>2 DEF Resume, Active, ActiveIn
  <2> QED BY <2>1, <2>2
<1>7. ASSUME NEW t \in Tasks, RemoveRecord(t) PROVE Pool!Next
  <2>1. Pool!Remove(t)
    BY <1>7 DEF RemoveRecord, Pool!Remove, Pool!Terminal, Terminal, Active, ActiveIn
  <2> QED BY <2>1 DEF Pool!Next
<1>8. ASSUME NEW w \in Waiters, CheckIdle(w) \/ AbortWait(w) \/ WaitAgain(w)
      PROVE  Same
  BY <1>8 DEF CheckIdle, AbortWait, WaitAgain, Active, ActiveIn
<1>9. CASE UNCHANGED vars
  BY <1>9 DEF vars, Active, ActiveIn, Pool!vars
<1>10. Same => UNCHANGED Pool!vars
  BY DEF Pool!vars
<1> DEFINE Goal == Pool!Next \/ UNCHANGED Pool!vars
<1>11. CASE Next
  <2> HIDE DEF Same
  <2> SUFFICES Goal
    OBVIOUS
  <2>1. Pool!Next \/ Same => Goal
    BY <1>10
  <2> HIDE DEF Goal
  <2> QED
    BY <1>1, <1>2, <1>3, <1>4, <1>5, <1>6, <1>7, <1>8, <1>11, <2>1 DEF Next
<1> QED BY <1>9, <1>10, <1>11

(* The engine implements the pool of slots: in particular it starts and      *)
(* stops one task at a time, never gives a slot away that a running tool     *)
(* still holds, and leaves none free beside a task that could use it.        *)
THEOREM PoolImplemented == Spec => ImplementsPool
<1>1. Init => Pool!Init
  BY DEF Init, Pool!Init, Active, ActiveIn
<1> QED
  BY <1>1, NextIsPoolStep, SpecKeepsIInv, PTL DEF Spec, ImplementsPool, Pool!Spec
=============================================================================
