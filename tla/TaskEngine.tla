----------------------------- MODULE TaskEngine -----------------------------
(***************************************************************************)
(* The in-process background task engine of the TypeScript SDK             *)
(* (background-tasks/in-process/engine.ts).                                *)
(*                                                                         *)
(* The engine admits tool calls as tasks, runs at most MaxConcurrency of   *)
(* them at once in the order of its queue, lets a task stop for input and  *)
(* resume, and lets callers cancel a task, remove a finished one and wait  *)
(* for the engine to be idle.  The code is single threaded, but a task's   *)
(* execution, its timer, the microtask that runs after an execution, and   *)
(* the callers interleave at every await, and each action below is what    *)
(* runs between two of those points.                                       *)
(*                                                                         *)
(* A cancelled or timed-out task is finished at once while its tool may    *)
(* still be running: the execution keeps its slot until the tool returns,  *)
(* so a task (status) and its execution are separate pieces of state.      *)
(***************************************************************************)
EXTENDS Integers, FiniteSets, SequencesExt

CONSTANTS
  Tasks,            (* identifiers of the tasks ever submitted (UUIDs)       *)
  Interrupts,       (* interrupts a tool may raise                           *)
  Waiters,          (* callers of waitForIdle                                *)
  MaxConcurrency,   (* options.maxConcurrency                                *)
  HasTimeout        (* whether options.timeout is finite                     *)

(* The constructor rejects any other maxConcurrency. *)
ASSUME MaxConcurrencyAssumption == MaxConcurrency \in Nat \ {0}
ASSUME HasTimeoutAssumption == HasTimeout \in BOOLEAN

(* A record without interrupt state: no set of interrupts.                   *)
NoState == {"no state"}
ASSUME InterruptsAssumption == "no state" \notin Interrupts

VARIABLES
  status,      (* _tasks: the status of each record                          *)
  state,       (* _tasks: the record's unanswered interrupts, or NoState     *)
  queue,       (* _queue: a Set, which JavaScript keeps in insertion order   *)
  execution,   (* _activeExecutions: where each task's execution is          *)
  timer,       (* whether the execution's timeout is armed                   *)
  waiter       (* where each call of waitForIdle is                          *)

vars == <<status, state, queue, execution, timer, waiter>>

-----------------------------------------------------------------------------
Terminal == {"completed", "failed", "cancelled"}

Status == {"queued", "working", "input_required"} \cup Terminal

(* No record: before the task is submitted, and after it is removed.  A task *)
(* identifier is never used twice.                                           *)
NoRecord == {"unsubmitted", "removed"}

(* "aborted": the tool is still running, its cancelSignal has fired.         *)
(* "settling": the outcome is applied, the finally callback has yet to run.  *)
Phase == {"none", "running", "aborted", "settling"}

ActiveIn(ex) == {t \in Tasks : ex[t] # "none"}

Active == ActiveIn(execution)

Executing(t) == execution[t] \in {"running", "aborted"}

Idle == queue = <<>> /\ Active = {}

(* Mutant of With: the last task queued is the first to start.               *)
WithInFront(q, t) == IF t \in ToSet(q) THEN q ELSE <<t>> \o q

(* Set.prototype.add and Set.prototype.delete on the queue.                  *)
With(q, t) == IF t \in ToSet(q) THEN q ELSE Append(q, t)

Without(q, t) ==
  IF t \in ToSet(q)
  THEN RemoveAt(q, CHOOSE i \in DOMAIN q : q[i] = t)
  ELSE q

-----------------------------------------------------------------------------
(* Mutant of StartCount: a tool that was told to stop no longer counts.      *)
StartCountOfRunning(q, ex) ==
  LET free == MaxConcurrency - Cardinality({t \in Tasks : ex[t] = "running"})
  IN  IF free <= 0 THEN 0 ELSE IF free < Len(q) THEN free ELSE Len(q)

(* How many tasks the loop of _startQueuedTasks takes from queue q when the  *)
(* executions are ex.                                                        *)
StartCount(q, ex) ==
  LET free == MaxConcurrency - Cardinality(ActiveIn(ex))
  IN  IF free <= 0 THEN 0 ELSE IF free < Len(q) THEN free ELSE Len(q)

Started(q, ex) == {q[i] : i \in 1 .. StartCount(q, ex)}

(* _startQueuedTasks, entered with queue q, executions ex, statuses st and   *)
(* timers tm: every task it starts is marked working and its timer armed     *)
(* before its tool is called.                                                *)
StartQueuedTasks(q, ex, st, tm) ==
  LET started == Started(q, ex) IN
  /\ queue' = SubSeq(q, StartCount(q, ex) + 1, Len(q))
  /\ execution' = [t \in Tasks |-> IF t \in started THEN "running" ELSE ex[t]]
  /\ status' = [t \in Tasks |-> IF t \in started THEN "working" ELSE st[t]]
  /\ timer' = [t \in Tasks |-> IF t \in started THEN HasTimeout ELSE tm[t]]

(* Mutant of ScheduleTask: it does not ask whether an execution is active.   *)
ScheduleTaskAtOnce(t, st) ==
  StartQueuedTasks(With(queue, t), execution, st, timer)

(* _scheduleTask, entered with statuses st: a task whose previous execution  *)
(* has not been cleaned up is left to that cleanup.                          *)
ScheduleTask(t, st) ==
  IF execution[t] # "none"
  THEN /\ status' = st
       /\ UNCHANGED <<queue, execution, timer>>
  ELSE StartQueuedTasks(With(queue, t), execution, st, timer)

(* _wakeIdleWaiters: the waiters are resolved; each runs its next check      *)
(* later, in a microtask of its own.                                         *)
WakeIdleWaiters ==
  waiter' = [w \in Waiters |-> IF waiter[w] = "waiting" THEN "woken"
                                                        ELSE waiter[w]]

-----------------------------------------------------------------------------
Init ==
  /\ status = [t \in Tasks |-> "unsubmitted"]
  /\ state = [t \in Tasks |-> NoState]
  /\ queue = <<>>
  /\ execution = [t \in Tasks |-> "none"]
  /\ timer = [t \in Tasks |-> FALSE]
  /\ waiter = [w \in Waiters |-> "idle"]

Submit(t) ==
  /\ status[t] = "unsubmitted"
  /\ ScheduleTask(t, [status EXCEPT ![t] = "queued"])
  /\ UNCHANGED <<state, waiter>>

(* Mutant of ExecutionReturns: the outcome applies to any record.            *)
ExecutionReturnsUnchecked(t, outcome, unanswered) ==
  /\ Executing(t)
  /\ status' = [status EXCEPT ![t] = outcome]
  /\ state' = [state EXCEPT ![t] =
                 IF outcome = "input_required" THEN unanswered ELSE NoState]
  /\ execution' = [execution EXCEPT ![t] = "settling"]
  /\ UNCHANGED <<queue, timer, waiter>>

(* options.execute settles and _finishOutcome applies its outcome, unless    *)
(* the task has left "working" meanwhile (cancelled, timed out, removed).    *)
ExecutionReturns(t, outcome, unanswered) ==
  /\ Executing(t)
  /\ IF status[t] = "working"
     THEN /\ status' = [status EXCEPT ![t] = outcome]
          /\ state' = [state EXCEPT ![t] =
                         IF outcome = "input_required" THEN unanswered
                                                       ELSE NoState]
     ELSE UNCHANGED <<status, state>>
  /\ execution' = [execution EXCEPT ![t] = "settling"]
  /\ UNCHANGED <<queue, timer, waiter>>

(* Mutants of Settle: the freed slot is not offered to the queue; those who  *)
(* wait for the engine to be idle are not woken.                             *)
SettleWithoutStart(t) ==
  /\ execution[t] = "settling"
  /\ execution' = [execution EXCEPT ![t] = "none"]
  /\ timer' = [timer EXCEPT ![t] = FALSE]
  /\ queue' = IF status[t] = "queued" THEN With(queue, t) ELSE queue
  /\ WakeIdleWaiters
  /\ UNCHANGED <<status, state>>

SettleWithoutWakeup(t) ==
  /\ execution[t] = "settling"
  /\ StartQueuedTasks(IF status[t] = "queued" THEN With(queue, t) ELSE queue,
                      [execution EXCEPT ![t] = "none"],
                      status,
                      [timer EXCEPT ![t] = FALSE])
  /\ UNCHANGED <<state, waiter>>

(* The finally callback of _startQueuedTasks: it frees the slot, and queues  *)
(* a task that was resumed before the slot was free.                         *)
Settle(t) ==
  /\ execution[t] = "settling"
  /\ StartQueuedTasks(IF status[t] = "queued" THEN With(queue, t) ELSE queue,
                      [execution EXCEPT ![t] = "none"],
                      status,
                      [timer EXCEPT ![t] = FALSE])
  /\ WakeIdleWaiters
  /\ UNCHANGED state

(* Mutants of Cancel: the slot is given up although the tool still runs; the *)
(* tool is not told to stop.                                                 *)
CancelFreeingSlot(t) ==
  /\ status[t] \in Status \ Terminal
  /\ status' = [status EXCEPT ![t] = "cancelled"]
  /\ state' = [state EXCEPT ![t] = NoState]
  /\ queue' = Without(queue, t)
  /\ timer' = [timer EXCEPT ![t] = FALSE]
  /\ execution' = [execution EXCEPT ![t] = "none"]
  /\ WakeIdleWaiters

CancelWithoutAbort(t) ==
  /\ status[t] \in Status \ Terminal
  /\ status' = [status EXCEPT ![t] = "cancelled"]
  /\ state' = [state EXCEPT ![t] = NoState]
  /\ queue' = Without(queue, t)
  /\ timer' = [timer EXCEPT ![t] = FALSE]
  /\ WakeIdleWaiters
  /\ UNCHANGED execution

(* cancel of a task that has not finished (a finished one is left alone).    *)
Cancel(t) ==
  /\ status[t] \in Status \ Terminal
  /\ status' = [status EXCEPT ![t] = "cancelled"]
  /\ state' = [state EXCEPT ![t] = NoState]
  /\ queue' = Without(queue, t)
  /\ timer' = [timer EXCEPT ![t] = FALSE]
  /\ execution' = [execution EXCEPT ![t] = IF Executing(t) THEN "aborted" ELSE @]
  /\ WakeIdleWaiters

(* Mutant of TimeoutTask: the interrupts answered earlier stay behind.       *)
TimeoutTaskKeepingState(t) ==
  /\ timer[t] /\ Executing(t) /\ status[t] = "working"
  /\ timer' = [timer EXCEPT ![t] = FALSE]
  /\ status' = [status EXCEPT ![t] = "failed"]
  /\ execution' = [execution EXCEPT ![t] = "aborted"]
  /\ UNCHANGED <<state, queue, waiter>>

(* The timer is a macrotask: it cannot run between an execution's return and *)
(* the microtask that clears it, so it fires only while the tool runs.       *)
TimeoutTask(t) ==
  /\ timer[t]
  /\ Executing(t)
  /\ timer' = [timer EXCEPT ![t] = FALSE]
  /\ IF status[t] = "working"
     THEN /\ status' = [status EXCEPT ![t] = "failed"]
          /\ state' = [state EXCEPT ![t] = NoState]
          /\ execution' = [execution EXCEPT ![t] = "aborted"]
     ELSE UNCHANGED <<status, state, execution>>
  /\ UNCHANGED <<queue, waiter>>

(* resume with responses to some of the task's interrupts: the task waits    *)
(* for the rest of them, or is queued once none is left.                     *)
Resume(t, answered) ==
  LET unanswered == state[t] \ answered IN
  /\ status[t] = "input_required"
  /\ state[t] # NoState
  /\ answered # {} /\ answered \subseteq state[t]
  /\ state' = [state EXCEPT ![t] = unanswered]
  /\ IF unanswered = {}
     THEN ScheduleTask(t, [status EXCEPT ![t] = "queued"])
     ELSE UNCHANGED <<status, queue, execution, timer>>
  /\ UNCHANGED waiter

RemoveRecord(t) ==
  /\ status[t] \in Terminal
  /\ status' = [status EXCEPT ![t] = "removed"]
  /\ UNCHANGED <<state, queue, execution, timer, waiter>>

(* A call of waitForIdle, or its next turn after it was woken.  One whose    *)
(* cancelSignal fired between the two turns is rejected.                     *)
CheckIdle(w) ==
  /\ waiter[w] \in {"idle", "woken"}
  /\ \/ Idle /\ waiter' = [waiter EXCEPT ![w] = "resolved"]
     \/ ~Idle /\ \E next \in {"waiting", "rejected"} :
                   waiter' = [waiter EXCEPT ![w] = next]
  /\ UNCHANGED <<status, state, queue, execution, timer>>

(* The wait's cancelSignal fires. *)
AbortWait(w) ==
  /\ waiter[w] = "waiting"
  /\ waiter' = [waiter EXCEPT ![w] = "rejected"]
  /\ UNCHANGED <<status, state, queue, execution, timer>>

(* The caller of waitForIdle has its answer and may call again. *)
WaitAgain(w) ==
  /\ waiter[w] \in {"resolved", "rejected"}
  /\ waiter' = [waiter EXCEPT ![w] = "idle"]
  /\ UNCHANGED <<status, state, queue, execution, timer>>

(* A tool returns: with a result, an error, an abort, or interrupts. *)
ToolReturns(t) ==
  \/ \E outcome \in Terminal : ExecutionReturns(t, outcome, {})
  \/ \E unanswered \in (SUBSET Interrupts) \ {{}} :
       ExecutionReturns(t, "input_required", unanswered)

Next ==
  \/ \E t \in Tasks : Submit(t)
  \/ \E t \in Tasks : ToolReturns(t)
  \/ \E t \in Tasks : Settle(t)
  \/ \E t \in Tasks : Cancel(t)
  \/ \E t \in Tasks : TimeoutTask(t)
  \/ \E t \in Tasks, answered \in SUBSET Interrupts : Resume(t, answered)
  \/ \E t \in Tasks : RemoveRecord(t)
  \/ \E w \in Waiters : CheckIdle(w)
  \/ \E w \in Waiters : AbortWait(w)
  \/ \E w \in Waiters : WaitAgain(w)

Spec == Init /\ [][Next]_vars

(* Microtasks always run.  A tool is assumed to return; the engine gives it  *)
(* no other way out than its cancelSignal.  Callers promise nothing.         *)
Fairness ==
  /\ \A t \in Tasks : WF_vars(ToolReturns(t)) /\ WF_vars(Settle(t))
  /\ \A w \in Waiters : WF_vars(CheckIdle(w))

FairSpec == Spec /\ Fairness

-----------------------------------------------------------------------------
(***************************************************************************)
(* Properties                                                              *)
(***************************************************************************)

(* The engine's collections hold what their declarations say, and a record  *)
(* carries interrupt state exactly as its type documents it: always while    *)
(* input is required, never once the task is finished.                       *)
TypeOK ==
  /\ status \in [Tasks -> Status \cup NoRecord]
  /\ state \in [Tasks -> (SUBSET Interrupts) \cup {NoState}]
  /\ queue \in Seq(Tasks)
  /\ execution \in [Tasks -> Phase]
  /\ timer \in [Tasks -> BOOLEAN]
  /\ waiter \in [Waiters -> {"idle", "waiting", "woken", "resolved", "rejected"}]
  /\ \A t \in Tasks :
       /\ status[t] = "input_required" => state[t] \in SUBSET Interrupts
       /\ status[t] \in Terminal \cup NoRecord => state[t] = NoState

(* "Maximum number of physically executing background tasks": cancelling,    *)
(* timing out or resuming a task never lets one more tool run.               *)
PhysicalBound == Cardinality(Active) <= MaxConcurrency

(* A task waits only when every slot is taken: no interleaving of submit,    *)
(* cancel, resume and cleanup leaves a slot free beside a waiting task.      *)
WorkConserving == queue # <<>> => Cardinality(Active) = MaxConcurrency

(* A queued task is known to exactly one of the two places that can start    *)
(* it, the queue or the cleanup of its own previous execution, and only      *)
(* queued tasks are in the queue, once each.                                 *)
NoStrandedTask ==
  /\ \A t \in Tasks :
       status[t] = "queued" =>
         execution[t] = IF t \in ToSet(queue) THEN "none" ELSE "settling"
  /\ \A i \in DOMAIN queue : status[queue[i]] = "queued"
  /\ \A i, j \in DOMAIN queue : queue[i] = queue[j] => i = j

(* A tool that still runs either owns its task, which is working, or its     *)
(* task is finished and it has been told to stop; and a timer that can still *)
(* fire belongs to a working task, so _timeoutTask never meets a record that *)
(* was removed.                                                              *)
DisownedToolsAreAborted ==
  \A t \in Tasks :
    /\ execution[t] = "running" <=> status[t] = "working"
    /\ execution[t] = "aborted" => status[t] \in Terminal \cup {"removed"}
    /\ timer[t] /\ execution[t] # "settling" => execution[t] = "running"

(* Nobody waits for an engine that is already idle. *)
NoLostWakeup == (\E w \in Waiters : waiter[w] = "waiting") => ~Idle

(* A finished task stays as it finished until it is removed, and a removed   *)
(* one never returns: a tool that ends after its task was cancelled or timed *)
(* out changes nothing, nor does its timer.                                  *)
TerminalIsFinal ==
  [][\A t \in Tasks :
       /\ status[t] \in Terminal => status'[t] \in {status[t], "removed"}
       /\ status[t] = "removed" => status'[t] = "removed"]_vars

(* The engine implements the pool of slots that its manager relies on: each  *)
(* step moves at most one task along the documented statuses, an execution   *)
(* keeps its slot until its tool has returned, and a slot that is given up   *)
(* goes to a task that waits, if there is one.                               *)
Pool == INSTANCE TaskPool WITH occupied <- Active

ImplementsPool == Pool!Spec

(* A queued task is eventually started (or cancelled), however often other   *)
(* tasks stop for input and are resumed: the queue is first in, first out.   *)
QueuedEventuallyStarts ==
  \A t \in Tasks : status[t] = "queued" ~> status[t] # "queued"
=============================================================================
