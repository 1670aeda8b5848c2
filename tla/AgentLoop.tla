------------------------------ MODULE AgentLoop ------------------------------
(***************************************************************************)
(* The loop of an agent (agent/agent.ts) with its tool executors           *)
(* (tools/executors), its interrupt state (interrupt.ts) and the snapshots *)
(* of a session (session/session-manager.ts).                              *)
(*                                                                         *)
(* An invocation is a generator.  Every event it yields first goes through *)
(* the hooks, which may raise an interrupt or throw, and then to a         *)
(* consumer, which may stop reading.  Either of the last two closes the    *)
(* loop's own generator at that yield (Break); what is still yielded while *)
(* it unwinds is drained.  Anybody may cancel, and the process may crash   *)
(* and be restored from the latest snapshot.                               *)
(*                                                                         *)
(* The history is kept as its last message and whether it is well formed.  *)
(* Of the assistant's messages that ask for tools only the latest, the     *)
(* batch, matters: the state of its calls is `call`.  Structured output,   *)
(* checkpoints, retries, middleware and continuations are left out; the    *)
(* last are in BackgroundTasks.                                            *)
(***************************************************************************)
EXTENDS Integers, FiniteSets

CONSTANTS
  Uses,          (* the tool uses a batch may consist of                     *)
  HookGated,     (* uses for which a BeforeToolCall hook raises an interrupt *)
  ToolGated,     (* uses whose tool raises one itself                        *)
  BatchGated,    (* a BeforeTools hook raises one: "never", when a batch is  *)
                 (* "first" begun, or at "any" beginning or resumption of it *)
  Executors,     (* the executors an agent may have been made with           *)
  BreakAt,       (* where a consumer may stop, or a hook throw               *)
  SaveOn,        (* saveLatestOn: "message" or "invocation"                  *)
  Resumes        (* whether an AfterInvocation hook may ask for another pass *)

ASSUME AgentLoopAssumption ==
  /\ HookGated \subseteq Uses /\ ToolGated \subseteq Uses
  /\ BatchGated \in {"never", "first", "any"} /\ Executors \subseteq {"concurrent", "sequential"} /\ Resumes \in BOOLEAN
  /\ SaveOn \in {"message", "invocation"} /\ {"batch", "old"} \cap Uses = {}

VARIABLES
  executor,    (* the tool executor, fixed when the agent is made            *)
  pc,          (* where the invocation is                                    *)
  reader,      (* "gone" once the consumer stopped or a hook threw           *)
  cancel,      (* "after" the current tools (deferred), or "now" (aborted)   *)
  last,        (* the last message of the history                            *)
  sound,       (* no tool use in the history lacks its results               *)
  call,        (* the calls of the batch                                     *)
  ran,         (* history: how often each tool of the batch ended            *)
  appended,    (* history: how often the batch was appended                  *)
  clean,       (* history: no break or crash since the batch was asked for   *)
  pending,     (* _interruptState.pendingToolExecution                       *)
  raised,      (* _interruptState.interrupts                                 *)
  answered,    (* those of them that have a response                         *)
  activated,   (* _interruptState.activated                                  *)
  saved        (* the latest snapshot                                        *)

loopVars == <<pc, reader, cancel>>
history == <<last, sound>>
batch == <<call, ran, clean, executor>>
interrupts == <<pending, raised, answered, activated>>
vars == <<loopVars, history, batch, appended, interrupts, saved>>

-----------------------------------------------------------------------------
NoPending == [uses |-> {}, done |-> {}]

(* "old": an interrupt that belongs to an earlier batch.                     *)
Ids == Uses \cup {"batch", "old"}

(* "refused": answered without being run.  "lost": its generator was closed. *)
CallState == {"none", "todo", "running", "done", "refused", "raised", "lost"}

Requested == {u \in Uses : call[u] # "none"}
InState(s) == {u \in Uses : call[u] = s}
Ended == InState("done") \cup InState("refused")
Aborted == cancel = "now"

OpenUserTurn == last \in {"user", "results"}

Snapshot ==
  [last |-> last, sound |-> sound, appended |-> appended, pending |-> pending,
   raised |-> raised, answered |-> answered, activated |-> activated]

(* _appendMessage, and the MessageAdded hook of the session manager.         *)
Appending(kind) ==
  /\ last' = kind
  /\ sound' = (sound /\ (last = "tool use" <=> kind = "results"))
SaveMessage == saved' = IF SaveOn = "message" THEN Snapshot' ELSE saved

(* InterruptState.deactivate.                                                *)
Deactivate ==
  /\ activated' = FALSE /\ pending' = NoPending
  /\ raised' = {} /\ answered' = {}

-----------------------------------------------------------------------------
Init ==
  /\ executor \in Executors
  /\ pc = "idle" /\ reader = "reading" /\ cancel = "no"
  /\ last = "none" /\ sound = TRUE
  /\ call = [u \in Uses |-> "none"] /\ ran = [u \in Uses |-> 0]
  /\ appended = 0 /\ clean = TRUE
  /\ pending = NoPending /\ raised = {} /\ answered = {} /\ activated = FALSE
  /\ saved = Snapshot

(* Entering _streamInvocation: the lock is taken, the cancel state reset.    *)
Enter(at) ==
  /\ pc' = at /\ reader' = "reading" /\ cancel' = "no"

(* An invocation with a message.                                             *)
Invoke ==
  /\ pc = "idle"
  /\ Enter("start")
  /\ UNCHANGED <<history, batch, appended, interrupts, saved>>

(* Mutant of Respond: a response to an interrupt nobody raised is kept.      *)
RespondToAnything(ids) ==
  /\ pc = "idle" /\ activated
  /\ ids # {}
  /\ answered' = answered \cup ids
  /\ Enter("resume")
  /\ UNCHANGED <<history, batch, appended, pending, raised, activated, saved>>

(* An invocation with responses to some of the interrupts.                   *)
Respond(ids) ==
  /\ pc = "idle" /\ activated
  /\ ids # {} /\ ids \subseteq raised
  /\ answered' = answered \cup ids
  /\ Enter("resume")
  /\ UNCHANGED <<history, batch, appended, pending, raised, activated, saved>>

(* A BeforeInvocation hook cancels the invocation.                           *)
Deny ==
  /\ pc \in {"start", "resume"}
  /\ Appending("assistant")
  /\ pc' = "finished"
  /\ UNCHANGED <<reader, cancel, batch, appended, interrupts>>
  /\ SaveMessage

(* While interrupted only responses are accepted.                            *)
Reject ==
  /\ pc = "start" /\ activated
  /\ pc' = "failed"
  /\ UNCHANGED <<reader, cancel, history, batch, appended, interrupts, saved>>

-----------------------------------------------------------------------------
(* The top of a cycle.                                                       *)

AtTop == (pc = "start" /\ ~activated) \/ pc \in {"resume", "top"}

Input ==
  /\ pc = "start" /\ ~activated /\ ~Aborted
  /\ Appending("user")
  /\ pc' = "model"
  /\ UNCHANGED <<reader, cancel, batch, appended, interrupts>>
  /\ SaveMessage

(* getPendingExecution: resume the batch, with the results already there.    *)
Top ==
  /\ pc \in {"resume", "top"} /\ ~Aborted
  /\ IF activated /\ pending # NoPending
     THEN /\ pc' = "before"
          /\ call' = [u \in Uses |-> IF u \in pending.done THEN "done"
                                     ELSE IF u \in pending.uses THEN "todo"
                                                                ELSE "none"]
     ELSE pc' = "model" /\ UNCHANGED call
  /\ UNCHANGED <<reader, cancel, history, ran, clean, executor, appended, interrupts, saved>>

(* One of the request's limits is reached.                                   *)
LimitReached ==
  /\ AtTop /\ ~Aborted
  /\ pc' = "finished"
  /\ UNCHANGED <<reader, cancel, history, batch, appended, interrupts, saved>>

(* Mutant of Cancelled: it does not look at the top of a cycle.              *)
CancelledInModelOnly ==
  /\ pc = "model" /\ Aborted
  /\ IF OpenUserTurn
     THEN Appending("assistant") /\ pc' = "reply"
     ELSE UNCHANGED history /\ pc' = "finished"
  /\ UNCHANGED <<reader, cancel, batch, appended, interrupts>>
  /\ SaveMessage

(* CancelledError, at the top of a cycle or in a model call.                 *)
Cancelled ==
  /\ AtTop \/ pc = "model"
  /\ Aborted
  /\ IF OpenUserTurn
     THEN Appending("assistant") /\ pc' = "reply"
     ELSE UNCHANGED history /\ pc' = "finished"
  /\ UNCHANGED <<reader, cancel, batch, appended, interrupts>>
  /\ SaveMessage

(* The model, or a hook in its place, ends the turn.                         *)
ModelReplies ==
  /\ pc = "model"
  /\ Appending("assistant")
  /\ pc' = "reply"
  /\ UNCHANGED <<reader, cancel, batch, appended, interrupts>>
  /\ SaveMessage

ModelFails ==
  /\ pc = "model"
  /\ pc' = "failed"
  /\ UNCHANGED <<reader, cancel, history, batch, appended, interrupts, saved>>

(* Mutant of ModelCallsTools: the message is appended before the tools run.  *)
AppendedBeforeTools(uses) ==
  /\ pc = "model" /\ ~Aborted
  /\ call' = [u \in Uses |-> IF u \in uses THEN "todo" ELSE "none"]
  /\ ran' = [u \in Uses |-> 0] /\ appended' = 0
  /\ clean' = (reader = "reading")
  /\ raised' = {} /\ answered' = {}
  /\ Appending("tool use") /\ pc' = "before"
  /\ UNCHANGED <<reader, cancel, executor, pending, activated>>
  /\ SaveMessage

(* The model asks for tools.  If the invocation is aborted they are refused, *)
(* and the batch is appended at once.                                        *)
ModelCallsTools(uses) ==
  /\ pc = "model"
  /\ call' = [u \in Uses |-> IF u \notin uses THEN "none"
                             ELSE IF Aborted THEN "refused" ELSE "todo"]
  /\ ran' = [u \in Uses |-> 0] /\ appended' = 0
  /\ clean' = (reader = "reading")
  /\ raised' = IF raised = {} THEN {} ELSE {"old"}
  /\ answered' = {}
  /\ IF Aborted
     THEN Appending("tool use") /\ pc' = "append"
     ELSE UNCHANGED history /\ pc' = "before"
  /\ UNCHANGED <<reader, cancel, executor, pending, activated>>
  /\ SaveMessage

-----------------------------------------------------------------------------
(* executeTools and the executors.                                           *)

(* Mutant of BatchGate: the batch is not stored before the error goes on.    *)
BatchGateNotStored ==
  /\ pc = "before" /\ BatchGated # "never" /\ "batch" \notin raised
  /\ raised' = raised \cup {"batch"}
  /\ IF reader = "reading"
     THEN activated' = TRUE /\ pc' = "interrupted"
     ELSE UNCHANGED <<pc, activated>>
  /\ UNCHANGED <<reader, cancel, history, batch, appended, pending, answered, saved>>

(* The BeforeTools hook raises its interrupt.  While the stream is drained   *)
(* the error is logged and the loop goes on.                                 *)
BatchGate ==
  /\ pc = "before" /\ BatchGated # "never" /\ "batch" \notin raised
  /\ raised' = raised \cup {"batch"}
  /\ IF reader = "reading"
     THEN /\ pending' = [uses |-> Requested, done |-> {}]
          /\ activated' = TRUE
          /\ pc' = "interrupted"
     ELSE UNCHANGED <<pc, pending, activated>>
  /\ UNCHANGED <<reader, cancel, history, batch, appended, answered, saved>>

(* The gate is asked again on a resume without an answer to it.              *)
BatchGateAgain ==
  /\ pc = "before" /\ reader = "reading"
  /\ "batch" \in raised \ answered
  /\ pending' = [uses |-> Requested, done |-> {}]
  /\ activated' = TRUE
  /\ pc' = "interrupted"
  /\ UNCHANGED <<reader, cancel, history, batch, appended, raised, answered, saved>>

(* The tools are refused by a hook or by a cancellation, or launched.        *)
Launch ==
  /\ pc = "before"
  /\ BatchGated = "first" => "batch" \in (IF reader = "reading" THEN answered ELSE raised)
  /\ \/ /\ call' = [u \in Uses |-> IF u \in Requested THEN "refused" ELSE "none"]
        /\ pc' = "skipped"
     \/ /\ ~Aborted
        /\ pc' = "tools"
        /\ UNCHANGED call
  /\ UNCHANGED <<reader, cancel, history, ran, clean, executor, appended, interrupts, saved>>

(* Whether the executor still takes steps.  The sequential one stops at the  *)
(* first interrupt.                                                          *)
MayStart(u) ==
  /\ pc = "tools" /\ call[u] = "todo"
  /\ executor = "sequential" => InState("running") \cup InState("raised") = {}

(* Mutant of Start: an unanswered gate does not stop the call.               *)
StartWithoutGate(u) ==
  /\ MayStart(u)
  /\ IF u \in HookGated \ answered
     THEN /\ raised' = raised \cup {u}
          /\ call' = [call EXCEPT ![u] = "running"]
     ELSE \E s \in {"running", "refused"} :
            call' = [call EXCEPT ![u] = s] /\ UNCHANGED raised
  /\ UNCHANGED <<loopVars, history, ran, clean, executor, appended, pending, answered,
                 activated, saved>>

(* The BeforeToolCall hook of u: it may raise an interrupt (in vain while    *)
(* the stream is drained), cancel the call, or let it run.                   *)
Start(u) ==
  /\ MayStart(u)
  /\ IF executor = "sequential" /\ Aborted
     THEN call' = [call EXCEPT ![u] = "refused"] /\ UNCHANGED raised
     ELSE IF u \in HookGated \ answered
     THEN /\ raised' = raised \cup {u}
          /\ call' = [call EXCEPT ![u] =
                        IF reader = "reading" THEN "raised" ELSE "running"]
     ELSE \E s \in {"running", "refused"} :
            call' = [call EXCEPT ![u] = s] /\ UNCHANGED raised
  /\ UNCHANGED <<loopVars, history, ran, clean, executor, appended, pending, answered,
                 activated, saved>>

(* The tool of u ends, with a result or an interrupt.                        *)
Return(u) ==
  /\ pc = "tools" /\ call[u] = "running"
  /\ IF u \in ToolGated \ answered
     THEN /\ raised' = raised \cup {u}
          /\ call' = [call EXCEPT ![u] = "raised"]
          /\ UNCHANGED ran
     ELSE /\ call' = [call EXCEPT ![u] = "done"]
          /\ ran' = [ran EXCEPT ![u] = IF clean /\ @ < 2 THEN @ + 1 ELSE @]
          /\ UNCHANGED raised
  /\ UNCHANGED <<loopVars, history, clean, executor, appended, pending, answered,
                 activated, saved>>

(* Mutant of Interrupted: the results there are are not kept.                *)
InterruptedKeepingNothing ==
  /\ pending' = [uses |-> Requested, done |-> {}]
  /\ pc' = "raised"

(* _storePendingToolExecution: all results there are are kept.               *)
Interrupted ==
  /\ pending' = [uses |-> Requested, done |-> Ended]
  /\ pc' = "raised"

(* The concurrent executor lets the siblings of an interrupted call finish.  *)
ExecutorDone ==
  /\ pc = "tools"
  /\ InState("running") = {}
  /\ InState("todo") = {} \/ (executor = "sequential" /\ InState("raised") # {})

BatchEnds ==
  /\ ExecutorDone
  /\ IF InState("raised") # {}
     THEN Interrupted
     ELSE pc' = "after" /\ UNCHANGED pending
  /\ UNCHANGED <<reader, cancel, history, batch, appended, raised, answered,
                 activated, saved>>

(* The consumer stopped while the tools ran: those that run are waited for,  *)
(* their results dropped.                                                    *)
ReturnInVain(u) ==
  /\ pc = "closing" /\ call[u] = "running"
  /\ call' = [call EXCEPT ![u] = "lost"]
  /\ UNCHANGED <<loopVars, history, ran, clean, executor, appended, interrupts, saved>>

(* Mutant of Closed: the batch is appended with what there is.               *)
ClosedAppending ==
  /\ pc = "closing" /\ InState("running") = {}
  /\ pc' = "after"
  /\ UNCHANGED <<reader, cancel, history, batch, appended, interrupts, saved>>

(* executeTools has no result then, and the loop goes on with a new cycle,   *)
(* drained to its end.                                                       *)
Closed ==
  /\ pc = "closing" /\ InState("running") = {}
  /\ pc' = "top"
  /\ UNCHANGED <<reader, cancel, history, batch, appended, interrupts, saved>>

-----------------------------------------------------------------------------
(* After the AfterTools event.                                               *)

(* The InterruptError reaches _stream, which activates the interrupt state.  *)
Activate ==
  /\ pc = "raised"
  /\ activated' = TRUE
  /\ pc' = "interrupted"
  /\ UNCHANGED <<reader, cancel, history, batch, appended, pending, raised,
                 answered, saved>>

InterruptResult ==
  /\ pc = "interrupted"
  /\ pc' = "finished"
  /\ UNCHANGED <<reader, cancel, history, batch, appended, interrupts, saved>>

(* Tools skipped by a cancellation stay pending.                             *)
KeepPending ==
  /\ pc = "skipped" /\ Aborted /\ pending # NoPending
  /\ pc' = "top"
  /\ UNCHANGED <<reader, cancel, history, batch, appended, interrupts, saved>>

(* The deferred append: the assistant's message, then the results.           *)
AppendUse ==
  /\ pc \in {"after", "skipped"}
  /\ pc = "skipped" => ~(Aborted /\ pending # NoPending)
  /\ Appending("tool use")
  /\ pc' = "append"
  /\ UNCHANGED <<reader, cancel, batch, appended, interrupts>>
  /\ SaveMessage

AppendResults ==
  /\ pc = "append"
  /\ Appending("results")
  /\ appended' = IF appended < 2 THEN appended + 1 ELSE appended
  /\ pc' = "result"
  /\ UNCHANGED <<reader, cancel, batch, interrupts>>
  /\ SaveMessage

(* Mutant of ClearPending: the interrupt state is left as it was.            *)
KeepInterrupts == UNCHANGED interrupts

(* clearPendingToolExecution, and deactivate if activated.                   *)
ClearPending ==
  IF activated
  THEN Deactivate
  ELSE pending' = NoPending /\ UNCHANGED <<raised, answered, activated>>

(* Then the turn ends (a hook, or a cancellation), or the next cycle starts. *)
NextCycle ==
  /\ pc = "result"
  /\ ClearPending
  /\ \/ Appending("assistant") /\ pc' = "reply"
     \/ cancel = "no" /\ UNCHANGED history /\ pc' = "top"
  /\ UNCHANGED <<reader, cancel, batch, appended>>
  /\ SaveMessage

-----------------------------------------------------------------------------
(* The end of a pass.                                                        *)

(* _streamWithMiddleware: a result other than an interrupt ends the          *)
(* interrupted state, unless tools are still pending.                        *)
Reply ==
  /\ pc = "reply"
  /\ pc' = "finished"
  /\ IF activated /\ pending = NoPending THEN Deactivate ELSE UNCHANGED interrupts
  /\ UNCHANGED <<reader, cancel, history, batch, appended, saved>>

(* The AfterInvocation hooks, one of which saves the session.                *)
Finish ==
  /\ pc \in {"finished", "failed"}
  /\ saved' = Snapshot
  /\ \/ Enter("idle")
     \/ /\ pc = "finished" /\ Resumes /\ reader = "reading"
        /\ Enter("start")
  /\ UNCHANGED <<history, batch, appended, interrupts>>

(* What is recorded of the batch's runs stops here.                          *)
NotClean == clean' = FALSE /\ ran' = [u \in Uses |-> 0]

(* The consumer stops, or a hook throws: the generator is closed where it    *)
(* is.  A close in the middle of the tools waits for them; elsewhere the     *)
(* invocation ends, and an aborted one closes an open user turn.             *)
Break ==
  /\ reader = "reading" /\ pc \in BreakAt
  /\ reader' = "gone"
  /\ NotClean
  /\ IF pc = "tools"
     THEN pc' = "closing" /\ UNCHANGED history
     ELSE /\ pc' = "failed"
          /\ IF Aborted /\ OpenUserTurn
             THEN Appending("assistant")
             ELSE UNCHANGED history
  /\ UNCHANGED <<cancel, call, executor, appended, interrupts>>
  /\ SaveMessage

Cancel(kind) ==
  /\ pc # "idle" /\ cancel # "now" /\ cancel # kind
  /\ cancel' = kind
  /\ UNCHANGED <<pc, reader, history, batch, appended, interrupts, saved>>

(* The process dies; a new one restores the latest snapshot.                 *)
Crash ==
  /\ Enter("idle")
  /\ call' = [u \in Uses |-> "none"]
  /\ last' = saved.last /\ sound' = saved.sound /\ appended' = saved.appended
  /\ pending' = saved.pending /\ activated' = saved.activated
  /\ raised' = saved.raised /\ answered' = saved.answered
  /\ NotClean
  /\ UNCHANGED <<executor, saved>>

-----------------------------------------------------------------------------
Step ==
  \/ Reject \/ Input \/ Top \/ LimitReached \/ Cancelled
  \/ ModelReplies \/ ModelFails
  \/ \E uses \in (SUBSET Uses) \ {{}} : ModelCallsTools(uses)
  \/ BatchGate \/ BatchGateAgain \/ Launch
  \/ \E u \in Uses : Start(u) \/ Return(u) \/ ReturnInVain(u)
  \/ BatchEnds \/ Closed
  \/ Activate \/ InterruptResult \/ KeepPending
  \/ AppendUse \/ AppendResults \/ NextCycle
  \/ Reply \/ Finish

Next ==
  \/ Step
  \/ Invoke \/ Deny
  \/ \E ids \in SUBSET Ids : Respond(ids)
  \/ \E kind \in {"after", "now"} : Cancel(kind)
  \/ Break \/ Crash

Spec == Init /\ [][Next]_vars

(* The model answers, tools return, and a consumer that does not stop reads  *)
(* on, as invoke does.  Callers promise nothing.                             *)
FairSpec == Spec /\ WF_vars(Step)

-----------------------------------------------------------------------------
(***************************************************************************)
(* Properties                                                              *)
(***************************************************************************)

TypeOK ==
  /\ pc \in {"idle", "start", "resume", "top", "model", "before", "tools", "closing",
             "after", "skipped", "raised", "interrupted", "append", "result",
             "reply", "finished", "failed"}
  /\ executor \in Executors
  /\ reader \in {"reading", "gone"} /\ cancel \in {"no", "after", "now"}
  /\ last \in {"none", "user", "assistant", "tool use", "results"}
  /\ sound \in BOOLEAN /\ clean \in BOOLEAN /\ activated \in BOOLEAN
  /\ call \in [Uses -> CallState]
  /\ ran \in [Uses -> 0 .. 2] /\ appended \in 0 .. 2
  /\ pending \in [uses : SUBSET Uses, done : SUBSET Uses]
  /\ raised \subseteq Ids /\ answered \subseteq raised
  /\ pending.done \subseteq pending.uses

(* "This keeps agent.messages in a valid, reinvokable state at all times":   *)
(* a tool use is followed by its results in every history that an idle agent *)
(* has or a session restores, whoever stopped, cancelled or crashed before.  *)
PairedHistory ==
  /\ sound
  /\ last = "tool use" => pc = "append"
  /\ saved.sound /\ saved.last # "tool use"

(* Every result of the batch in the history is the outcome of its tool or    *)
(* says that it was refused; the placeholders of calls that were interrupted *)
(* or closed never get there, and no call of the batch is left out.          *)
ResultsAreReal ==
  pc \in {"append", "result"} => Requested = Ended /\ Requested # {}

(* The batch is appended once, though it may be resumed many times.          *)
AppendedOnce == appended <= 1

(* An interrupted agent can be resumed: a batch is pending, an interrupt is  *)
(* recorded to respond to, and the result that reports it has an unanswered  *)
(* one of that batch to show.                                                *)
InterruptedCanResume ==
  /\ activated => pending # NoPending /\ raised \cap (pending.uses \cup {"batch"}) # {}
  /\ pc = "interrupted" =>
       (raised \ answered) \cap (pending.uses \cup {"batch"}) # {}

(* A tool whose result is kept is not run again when the batch is resumed,   *)
(* unless a consumer stopped or the process crashed in between.              *)
RunOnce == clean => \A u \in Uses : ran[u] <= 1

(* "agent execution halts": a tool for which a hook raised an interrupt runs *)
(* only once there is a response.                                            *)
GatedToolsWait ==
  \A u \in HookGated : call[u] = "running" => u \in answered

(* The same as long as the consumer keeps reading.                           *)
GatedToolsWaitWhileRead == reader = "reading" => GatedToolsWait

(* A cancelled pass ends, even if the model would ask for tools for ever.    *)
CancelEnds == cancel = "now" ~> (pc \in {"finished", "failed"} \/ cancel = "no")
=============================================================================
