--------------------------- MODULE BackgroundTasks ---------------------------
(***************************************************************************)
(* Tools that run in the background of an agent: the plugin                *)
(* (background-tasks/background-tasks.ts), the manager it submits to       *)
(* (in-process/manager.ts) and the continuations by which results reach    *)
(* the history (agent/continuation.ts), around the passes of an agent      *)
(* (agent/agent.ts).  The engine is what TaskPool promises of it.          *)
(*                                                                         *)
(* The plugin decides on a mirror of the tasks.  The engine tells it of    *)
(* every change in a microtask, and whatever it awaits continues in one    *)
(* too: `micro` is the queue of these, served first in, first out.  An     *)
(* engine step may come at any moment in between.                          *)
(*                                                                         *)
(* A result is taken into a continuation at one moment, appended at a      *)
(* later one, and only then forgotten by the manager and the mirror.  The  *)
(* mirror is part of every snapshot of the session; a process that dies is *)
(* restored from the latest.  Of a request's limits only that one may be   *)
(* reached is kept.  Foreground tools and the resumption of a batch of     *)
(* tools are in AgentLoop.                                                 *)
(***************************************************************************)
EXTENDS Integers, FiniteSets, Sequences

CONSTANTS
  Tasks,               (* the background tasks that may be dispatched        *)
  MaxConcurrency,      (* the slots of the engine                            *)
  Asking,              (* those whose tool may raise an interrupt            *)
  WaitForCompletion,   (* the plugin's option of this name                   *)
  MaxMicro             (* bound: engine steps wait while micro is this long  *)

ASSUME BackgroundAssumption ==
  /\ MaxConcurrency \in Nat \ {0} /\ MaxMicro \in Nat
  /\ Asking \subseteq Tasks /\ WaitForCompletion \in BOOLEAN
  /\ "none" \notin Tasks

VARIABLES
  status, occupied,    (* the engine: see TaskPool                           *)
  micro,               (* the queue of microtasks                            *)
  mirror,              (* _tasks of the plugin, and its copy in the appState *)
  pc,                  (* where the agent is                                 *)
  result,              (* the stop reason of the pass                        *)
  cancel,              (* who aborted the agent's signal: "no" one, "agent", *)
                       (* by agent.cancel, or the "caller", by options'      *)
  limit,               (* whether a limit of the request is reached          *)
  resume,              (* AfterInvocationEvent.resume                        *)
  taken,               (* the results in the event's continuation            *)
  asked,               (* the answered tasks still to be resumed             *)
  raised,              (* the agent's interrupts, by task                    *)
  responses,           (* its resumeResponses, by task                       *)
  acked,               (* history: the tasks whose dispatch it shows         *)
  delivered,           (* history: how often it shows each result            *)
  saved                (* the latest snapshot                                *)

engine == <<status, occupied>>
pass == <<pc, result, cancel, limit, resume>>
interrupts == <<raised, responses>>
history == <<acked, delivered>>
vars == <<engine, micro, mirror, pass, taken, asked, interrupts, history, saved>>

Engine == INSTANCE TaskPool

-----------------------------------------------------------------------------
(* What the plugin tells apart in a status.                                  *)
View(s) == CASE s \in {"queued", "working"} -> "active"
             [] s \in Engine!Terminal       -> "done"
             [] OTHER                       -> s

Seen(v) == {t \in Tasks : mirror[t] = v}
Live(t) == status[t] \notin {"unsubmitted", "removed"}

Update(t) == [task |-> t, view |-> View(status'[t])]
Agent == [task |-> "none", view |-> "agent"]
Turn == micro # <<>> /\ Head(micro) = Agent

(* _notifyTaskUpdated, and the code that awaits.                             *)
Notify(t) == micro' = Append(micro, Update(t))
Await == micro' = Append(micro, Agent)
NotifyAndAwait(t) == micro' = Append(Append(micro, Update(t)), Agent)

Snapshot == [mirror |-> mirror, raised |-> raised,
             acked |-> acked, delivered |-> delivered]

Init ==
  /\ Engine!Init
  /\ micro = <<>>
  /\ mirror = [t \in Tasks |-> "absent"]
  /\ pc = "idle" /\ result = "none" /\ cancel = "no" /\ limit = FALSE /\ resume = FALSE
  /\ taken = {} /\ asked = {} /\ raised = {} /\ responses = {}
  /\ acked = {} /\ delivered = [t \in Tasks |-> 0]
  /\ saved = Snapshot

-----------------------------------------------------------------------------
(* The engine and its tools.                                                 *)

Room == Len(micro) < MaxMicro

Submit(t) == Engine!Enter(t) \/ Engine!Queue(t)

(* A tool returns; a failure, a timeout and a success are all one here.      *)
Settle(t) ==
  /\ Room
  /\ \E s \in {"completed"} \cup (IF t \in Asking THEN {"input_required"} ELSE {}) :
       Engine!Stop(t, s)
  /\ Notify(t)
  /\ UNCHANGED <<mirror, pass, taken, asked, interrupts, history, saved>>

(* The slot of a task that stopped is given up.                              *)
GiveUp(t) ==
  /\ Engine!Release(t) \/ \E u \in Tasks : Engine!HandOver(t, u)
  /\ UNCHANGED <<micro, mirror, pass, taken, asked, interrupts, history, saved>>

(* Mutant of Wakes: only a task that ended wakes who waits for it.           *)
WakesAtEnd(t, view) == pc = "waiting" /\ view = "done"

(* _notifyTaskWaiters: the plugin waits for every task it sees active.       *)
Wakes(t, view) ==
  pc = "waiting" /\ mirror[t] = "active" /\ view \in {"done", "input_required"}

(* onTaskUpdated.                                                            *)
OnTaskUpdated ==
  /\ micro # <<>> /\ Head(micro) # Agent
  /\ LET t == Head(micro).task
         view == Head(micro).view
     IN  /\ mirror' = [mirror EXCEPT ![t] = view]
         /\ IF Wakes(t, view)
            THEN pc' = "woken" /\ micro' = Append(Tail(micro), Agent)
            ELSE micro' = Tail(micro) /\ UNCHANGED pc
  /\ UNCHANGED <<engine, result, cancel, limit, resume, taken, asked, interrupts,
                 history, saved>>

-----------------------------------------------------------------------------
(* A pass of the agent.                                                      *)

(* A new request, with its own limits and the caller's own signal.           *)
Request ==
  pc' = "start" /\ cancel' = "no" /\ limit' = FALSE

Invoke ==
  /\ pc = "idle" /\ raised = {}
  /\ Request
  /\ UNCHANGED <<engine, micro, mirror, result, resume, taken, asked, interrupts,
                 history, saved>>

Respond(ts) ==
  /\ pc = "idle" /\ ts # {} /\ ts \subseteq raised
  /\ responses' = ts
  /\ Request
  /\ UNCHANGED <<engine, micro, mirror, result, resume, taken, asked, raised,
                 history, saved>>

(* Ends a pass, abandoning what its continuation holds.                      *)
EndPass(reason) ==
  /\ pc' = "finished" /\ result' = reason /\ taken' = {}

(* A BeforeInvocation hook cancels the pass.  It is the last, and its stop   *)
(* reason is endTurn.                                                        *)
Deny ==
  /\ pc = "start"
  /\ EndPass("denied")
  /\ UNCHANGED <<engine, micro, mirror, cancel, limit, resume, asked, interrupts,
                 history, saved>>

(* The pass begins: with a continuation, that is appended in its first cycle.*)
Begin ==
  /\ pc = "start"
  /\ pc' = IF taken # {} THEN "carry" ELSE "top"
  /\ UNCHANGED <<engine, micro, mirror, result, cancel, limit, resume, taken, asked,
                 interrupts, history, saved>>

(* The top of a cycle.                                                       *)
Top ==
  /\ pc = "top" /\ cancel = "no" /\ ~limit
  /\ pc' = "gate"
  /\ UNCHANGED <<engine, micro, mirror, result, cancel, limit, resume, taken, asked,
                 interrupts, history, saved>>

LimitReached ==
  /\ pc \in {"carry", "top"} /\ cancel = "no" /\ limit
  /\ EndPass("limit")
  /\ UNCHANGED <<engine, micro, mirror, cancel, limit, resume, asked, interrupts,
                 history, saved>>

(* _beforeModelCall: with responses, the waiting tasks are listed first.     *)
BeforeModelCall ==
  /\ pc = "gate" /\ cancel = "no"
  /\ IF responses = {}
     THEN pc' = "reading" /\ UNCHANGED <<micro, asked, interrupts>>
     ELSE /\ asked' = {t \in responses : status[t] = "input_required"}
          /\ IF \A t \in raised : status[t] = "input_required"
             THEN raised' = {} /\ responses' = {}
             ELSE UNCHANGED interrupts
          /\ pc' = "answering" /\ Await
  /\ UNCHANGED <<engine, mirror, result, cancel, limit, resume, taken, history, saved>>

(* Mutant of Answer: the plugin goes on without awaiting the manager.        *)
AnswerWithoutAwait(t) ==
  /\ pc = "answering" /\ Turn /\ t \in asked
  /\ Submit(t)
  /\ asked' = asked \ {t}
  /\ micro' = <<Agent>> \o Append(Tail(micro), Update(t))
  /\ UNCHANGED <<mirror, pass, taken, interrupts, history, saved>>

(* manager.resume of one of them, awaited.  Each has one interrupt.          *)
Answer(t) ==
  /\ pc = "answering" /\ Turn /\ t \in asked
  /\ Submit(t)
  /\ asked' = asked \ {t}
  /\ micro' = Append(Append(Tail(micro), Update(t)), Agent)
  /\ UNCHANGED <<mirror, pass, taken, interrupts, history, saved>>

Answered ==
  /\ pc = "answering" /\ Turn /\ asked = {}
  /\ pc' = "reading"
  /\ micro' = Tail(micro)
  /\ UNCHANGED <<engine, mirror, result, cancel, limit, resume, taken, asked, interrupts,
                 history, saved>>

(* Then the mirror is read: tasks that wait for input interrupt the agent,   *)
(* otherwise the finished ones are taken into a continuation.                *)
AskOrTake ==
  /\ pc = "reading"
  /\ IF Seen("input_required") # {}
     THEN /\ raised' = raised \cup Seen("input_required")
          /\ EndPass("interrupt")
     ELSE /\ taken' = Seen("done")
          /\ pc' = "append"
          /\ UNCHANGED <<raised, result>>
  /\ UNCHANGED <<engine, micro, mirror, cancel, limit, resume, asked, responses, history, saved>>

(* _appendContinuationMessages, after which markAppended is awaited.  At     *)
(* "carry" the continuation is the one of the last AfterInvocationEvent.     *)
AppendResults ==
  /\ pc = "append" \/ (pc = "carry" /\ cancel = "no" /\ ~limit)
  /\ delivered' = [t \in Tasks |-> IF t \in taken THEN delivered[t] + 1 ELSE delivered[t]]
  /\ pc' = IF pc = "append" THEN "appended" ELSE "carried"
  /\ Await
  /\ UNCHANGED <<engine, mirror, result, cancel, limit, resume, taken, asked, interrupts,
                 acked, saved>>

(* Mutant of Forget: recovered tasks are removed from the manager too; it    *)
(* does not know them and throws.                                            *)
ForgetAll ==
  IF \A t \in taken : Live(t)
  THEN /\ status' = [t \in Tasks |-> IF t \in taken THEN "removed" ELSE status[t]]
       /\ mirror' = [t \in Tasks |-> IF t \in taken THEN "absent" ELSE mirror[t]]
  ELSE UNCHANGED <<status, mirror>>

(* onAppended: remove() of the manager for those it has, then the mirror.    *)
Forget ==
  /\ status' = [t \in Tasks |-> IF t \in taken /\ Live(t) THEN "removed" ELSE status[t]]
  /\ mirror' = [t \in Tasks |-> IF t \in taken THEN "absent" ELSE mirror[t]]

Appended ==
  /\ pc \in {"appended", "carried"} /\ Turn
  /\ Forget
  /\ taken' = {}
  /\ pc' = IF pc = "appended" THEN "model" ELSE "gate"
  /\ micro' = Tail(micro)
  /\ UNCHANGED <<occupied, result, cancel, limit, resume, asked, interrupts, history, saved>>

(* The model ends its turn.                                                  *)
Reply ==
  /\ pc = "model" /\ cancel = "no"
  /\ EndPass("endTurn")
  /\ UNCHANGED <<engine, micro, mirror, cancel, limit, resume, asked, interrupts, history, saved>>

(* It calls a tool that runs in the background: submitToolCall.  A batch is  *)
(* one call.                                                                 *)
Dispatch(t) ==
  /\ pc = "model" /\ cancel = "no" /\ status[t] = "unsubmitted"
  /\ Submit(t)
  /\ NotifyAndAwait(t)
  /\ pc' = "tools"
  /\ UNCHANGED <<mirror, result, cancel, limit, resume, taken, asked, interrupts, history, saved>>

(* It calls the tool that cancels a task; the tool awaits the manager.       *)
CancelTask(t) ==
  /\ pc = "model" /\ cancel = "no"
  /\ mirror[t] \in {"active", "input_required"}
  /\ IF status[t] \in Engine!Terminal
     THEN Await /\ UNCHANGED engine
     ELSE /\ Engine!Stop(t, "cancelled") \/ Engine!Withdraw(t)
          /\ NotifyAndAwait(t)
  /\ pc' = "tools"
  /\ UNCHANGED <<mirror, result, cancel, limit, resume, taken, asked, interrupts, history, saved>>

(* The results of the batch of tools are appended.  A hook may end the turn  *)
(* then, or a cancellation that was to wait for the tools.                   *)
Acknowledge ==
  /\ pc = "tools" /\ Turn
  /\ acked' = acked \cup {t \in Tasks : Live(t)}
  /\ \/ pc' = "top" /\ UNCHANGED <<result, taken>>
     \/ \E reason \in {"endTurn", "cancelled"} : EndPass(reason)
  /\ micro' = Tail(micro)
  /\ UNCHANGED <<engine, mirror, cancel, limit, resume, asked, interrupts, delivered,
                 saved>>

(* The agent's own cancellation is seen at the top of a cycle and in the     *)
(* model call.                                                               *)
Cancelled ==
  /\ pc \in {"carry", "top", "gate", "model"} /\ cancel # "no"
  /\ EndPass("cancelled")
  /\ UNCHANGED <<engine, micro, mirror, cancel, limit, resume, asked, interrupts, history, saved>>

(* The consumer stops, or a hook throws; before a pass has begun there are   *)
(* no AfterInvocation hooks then.                                            *)
Break ==
  /\ \/ pc \in {"carry", "append", "model"} /\ EndPass("broken")
     \/ pc = "start" /\ pc' = "idle" /\ result' = "broken" /\ taken' = {}
  /\ UNCHANGED <<engine, micro, mirror, cancel, limit, resume, asked, interrupts, history, saved>>

-----------------------------------------------------------------------------
(* _afterInvocation.                                                         *)

MustWait ==
  /\ WaitForCompletion /\ cancel = "no"
  /\ Seen("input_required") = {} /\ Seen("active") # {}

(* Mutant of Decide: a task that waits for input starts no further pass.     *)
DecideWithoutAsking ==
  resume' = FALSE /\ taken' = Seen("done")

(* A task that waits for input asks for another pass, whose gate raises its  *)
(* interrupt; otherwise the finished ones are taken.                         *)
Decide ==
  IF Seen("input_required") # {}
  THEN resume' = TRUE /\ taken' = {}
  ELSE resume' = FALSE /\ taken' = Seen("done")

(* The result of a pass that was not interrupted deactivates the interrupts. *)
AfterInvocation ==
  /\ pc = "finished"
  /\ pc' = IF result = "interrupt" \/ (raised # {} /\ result \in {"broken", "denied"})
           THEN "ending" ELSE "settling"
  /\ IF result \in {"broken", "denied", "interrupt"}
     THEN UNCHANGED interrupts
     ELSE raised' = {} /\ responses' = {}
  /\ resume' = FALSE
  /\ UNCHANGED <<engine, micro, mirror, result, cancel, limit, taken, asked, history, saved>>

(* The loop around _awaitNextSettlement.  A task that has settled already,   *)
(* though the mirror does not show it yet, is not waited for.                *)
Settling ==
  /\ pc = "settling"
  /\ IF ~MustWait
     THEN Decide /\ pc' = "ending" /\ UNCHANGED micro
     ELSE /\ IF \A t \in Seen("active") : View(status[t]) = "active"
             THEN pc' = "waiting" /\ UNCHANGED micro
             ELSE pc' = "woken" /\ Await
          /\ UNCHANGED <<resume, taken>>
  /\ UNCHANGED <<engine, mirror, result, cancel, limit, asked, interrupts, history, saved>>

Woken ==
  /\ pc = "woken" /\ Turn
  /\ pc' = "settling"
  /\ micro' = Tail(micro)
  /\ UNCHANGED <<engine, mirror, result, cancel, limit, resume, taken, asked, interrupts,
                 history, saved>>

(* The event has been yielded: another pass, or the end of the invocation.   *)
(* A hook's resume is ignored once a limit is reached (_shouldResume).       *)
LastPass == result \in {"broken", "denied"}
Another == (resume /\ ~limit) \/ (result = "endTurn" /\ taken # {})

(* The caller's signal, once aborted, aborts every further pass.             *)
NextPass ==
  /\ pc = "ending" /\ ~LastPass /\ Another
  /\ pc' = "start" /\ resume' = FALSE
  /\ cancel' = IF cancel = "caller" THEN "caller" ELSE "no"
  /\ taken' = IF result = "endTurn" THEN taken ELSE {}
  /\ UNCHANGED <<engine, micro, mirror, result, limit, asked, interrupts, history, saved>>

Return ==
  /\ pc = "ending" /\ (LastPass \/ ~Another)
  /\ pc' = "idle" /\ resume' = FALSE /\ taken' = {}
  /\ UNCHANGED <<engine, micro, mirror, result, cancel, limit, asked, interrupts,
                 history, saved>>

-----------------------------------------------------------------------------
(* The environment.                                                          *)

(* Mutant of WakeOnCancel: the wait does not listen to the signal.           *)
SleepOn == UNCHANGED <<pc, micro>>

WakeOnCancel ==
  IF pc = "waiting" THEN pc' = "woken" /\ Await ELSE UNCHANGED <<pc, micro>>

(* agent.cancel(), or the caller's cancelSignal.                             *)
Cancel(who) ==
  /\ pc # "idle" /\ cancel \notin {who, "caller"}
  /\ cancel' = who
  /\ WakeOnCancel
  /\ UNCHANGED <<engine, mirror, result, limit, resume, taken, asked, interrupts,
                 history, saved>>

(* A turn, a model call or another call of the same request uses it up.      *)
UseUp ==
  /\ pc # "idle" /\ ~limit
  /\ limit' = TRUE
  /\ UNCHANGED <<engine, micro, mirror, pc, result, cancel, resume, taken, asked,
                 interrupts, history, saved>>

(* The session saves: a message was added, or the invocation ended.          *)
Save ==
  /\ pc \in {"top", "gate", "model", "finished", "ending"}
  /\ saved # Snapshot
  /\ saved' = Snapshot
  /\ UNCHANGED <<engine, micro, mirror, pass, taken, asked, interrupts, history>>

(* Mutant of Recover: unfinished tasks are not kept.                         *)
RecoverFinished(stored) ==
  [t \in Tasks |-> IF stored[t] = "done" THEN "done" ELSE "absent"]

(* Mutant of Recover: tasks are kept as they are stored.                     *)
RecoverAsStored(stored) == stored

(* recoverTask: what had not finished has failed.                            *)
Recover(stored) == [t \in Tasks |-> IF stored[t] = "absent" THEN "absent" ELSE "done"]

(* The process dies; a new one restores the latest snapshot.  _loadAppState  *)
(* drops the interrupts of the tasks it recovers.                            *)
Restart ==
  /\ status' = [t \in Tasks |-> IF status[t] = "unsubmitted" THEN status[t] ELSE "removed"]
  /\ occupied' = {}
  /\ micro' = <<>>
  /\ mirror' = Recover(saved.mirror)
  /\ raised' = {t \in saved.raised : saved.mirror[t] \in {"absent", "done"}}
  /\ acked' = saved.acked /\ delivered' = saved.delivered
  /\ pc' = "idle" /\ result' = "none" /\ cancel' = "no" /\ limit' = FALSE
  /\ resume' = FALSE /\ taken' = {} /\ asked' = {} /\ responses' = {}
  /\ UNCHANGED saved

-----------------------------------------------------------------------------
AgentStep ==
  \/ Begin \/ Top \/ LimitReached
  \/ BeforeModelCall \/ (\E t \in Tasks : Answer(t)) \/ Answered \/ AskOrTake
  \/ AppendResults \/ Appended \/ Reply \/ Acknowledge \/ Cancelled
  \/ AfterInvocation \/ Settling \/ Woken \/ NextPass \/ Return

Next ==
  \/ AgentStep \/ OnTaskUpdated
  \/ \E t \in Tasks : Settle(t) \/ GiveUp(t) \/ Dispatch(t) \/ CancelTask(t)
  \/ Invoke \/ \E ts \in SUBSET Tasks : Respond(ts)
  \/ Deny \/ Break \/ (\E who \in {"agent", "caller"} : Cancel(who)) \/ UseUp
  \/ Save \/ Restart

(* Microtasks are served and the agent goes on.  Tools return, and give up   *)
(* their slots, only under ToolFairness.                                     *)
Spec == Init /\ [][Next]_vars /\ WF_vars(AgentStep) /\ WF_vars(OnTaskUpdated)

ToolFairness == \A t \in Tasks : WF_vars(Settle(t)) /\ WF_vars(GiveUp(t))

-----------------------------------------------------------------------------
(***************************************************************************)
(* Properties                                                              *)
(***************************************************************************)

Views == {"absent", "active", "input_required", "done"}

TypeOK ==
  /\ status \in [Tasks -> Engine!Terminal \cup
                 {"unsubmitted", "queued", "working", "input_required", "removed"}]
  /\ occupied \subseteq Tasks /\ Cardinality(occupied) <= MaxConcurrency
  /\ \A i \in DOMAIN micro :
       micro[i] = Agent \/ micro[i] \in [task : Tasks, view : Views \ {"absent"}]
  /\ mirror \in [Tasks -> Views]
  /\ pc \in {"idle", "start", "top", "gate", "answering", "reading", "append", "appended", "carry",
             "carried", "model", "tools", "finished", "settling", "waiting",
             "woken", "ending"}
  /\ result \in {"none", "endTurn", "interrupt", "cancelled", "limit", "denied", "broken"}
  /\ cancel \in {"no", "agent", "caller"} /\ limit \in BOOLEAN /\ resume \in BOOLEAN
  /\ taken \subseteq Tasks /\ asked \subseteq Tasks
  /\ raised \subseteq Tasks /\ responses \subseteq Tasks
  /\ acked \subseteq Tasks /\ delivered \in [Tasks -> 0 .. 2]

(* A result is in the history at most once, whatever continuations were      *)
(* abandoned, whoever stopped reading, and from whichever snapshot the       *)
(* session was restored.                                                     *)
DeliveredOnce == \A t \in Tasks : delivered[t] <= 1

(* "The final result will be delivered automatically": a task whose dispatch *)
(* the model was told of has its result in the history or is still known to  *)
(* the plugin, in this process and in every snapshot.                        *)
NothingForgotten ==
  /\ \A t \in acked : delivered[t] > 0 \/ mirror[t] # "absent"
  /\ \A t \in saved.acked : saved.delivered[t] > 0 \/ saved.mirror[t] # "absent"

(* The plugin waits only for tasks that its manager knows: wait() never      *)
(* throws, after a restart either.                                           *)
WaitsForKnownTasks ==
  \A t \in Seen("active") \cup Seen("input_required") : Live(t)

(* Nobody is asked again for what has been answered: the tasks for which the *)
(* agent is interrupted do wait for input.                                   *)
AskedWhileWaiting ==
  pc \in {"finished", "ending"} /\ result = "interrupt" =>
    \A t \in raised : status[t] = "input_required"

(* An invocation that ends its turn, uncancelled, owes nothing: every task   *)
(* has ended and its result is in the history.  It may owe something only if *)
(* a hook denied the last pass, or if a limit is reached and a task waits    *)
(* for input, about which no further pass can ask.                           *)
NothingOwedAtEnd ==
  WaitForCompletion /\ pc = "idle" /\ result = "endTurn" /\ cancel = "no" =>
    \/ \A t \in Tasks : mirror[t] = "absent" /\ status[t] \in {"unsubmitted", "removed"}
    \/ limit /\ Seen("input_required") # {}

(* A cancelled pass ends without waiting for the tools that still run.  With *)
(* agent.cancel() another pass may follow, which is not cancelled; with the  *)
(* caller's signal the invocation ends, unless a task waits for input.       *)
CancelEndsWaiting ==
  cancel # "no" ~> \/ pc = "idle" \/ cancel = "no"
                   \/ pc = "ending" /\ Seen("input_required") # {}

(* If tools return, no wait lasts for ever, even if they only ask for input. *)
WaitEnds == ToolFairness => (pc = "waiting" ~> pc # "waiting")
=============================================================================
