------------------------------- MODULE Graph -------------------------------
(***************************************************************************)
(* The Graph orchestrator (multiagent/graph.ts, with queue.ts, nodes.ts    *)
(* and multiagent.ts).                                                     *)
(*                                                                         *)
(* A main loop schedules the nodes that are ready, at most MaxConcurrency  *)
(* at once, and drains a queue that the running nodes fill.  A node sends  *)
(* an event and waits for the main loop to acknowledge it, which it does   *)
(* after the hooks have run and the consumer of the stream has taken the   *)
(* event; a node's result is pushed without waiting.  A run ends when      *)
(* nothing is scheduled or running, and may end interrupted: the state is  *)
(* kept and the next invocation resumes it.                                *)
(*                                                                         *)
(* Node code, hooks and the consumer act between any two steps of the main *)
(* loop, which the actions below separate at its awaits.                   *)
(***************************************************************************)
EXTENDS Integers, Bags, SequencesExt

CONSTANTS
  Nodes,
  Edges,            (* set of triples: source, target, and a number that     *)
                    (* tells parallel edges apart                            *)
  Conditional,      (* edges with a handler, which may answer either way     *)
  Sources,          (* nodes an invocation begins with, in order             *)
  MaxConcurrency,   (* config.maxConcurrency; |Nodes| or more for Infinity   *)
  MaxSteps,         (* config.maxSteps                                       *)
  Outcomes,         (* how each node's handler may end                       *)
  Gates,            (* what the hooks before each node may decide            *)
  TimesOut,         (* nodes that may exceed their nodeTimeout               *)
  CanAbort,         (* whether a graph timeout or cancelSignal may fire      *)
  CanBreak          (* whether a hook may throw or the consumer stop reading *)

ResultStatus == {"COMPLETED", "FAILED", "CANCELLED", "INTERRUPTED"}
Status == ResultStatus \cup {"PENDING", "EXECUTING"}

(* What the constructor lets through: parallel edges and repeated sources    *)
(* too, which it does not reject as it does duplicate nodes.                 *)
ASSUME TopologyAssumption ==
  /\ IsFiniteSet(Nodes) /\ IsFiniteSet(Edges)
  /\ Edges \subseteq Nodes \X Nodes \X Nat /\ Conditional \subseteq Edges
  /\ Sources \in Seq(Nodes) \ {<<>>} /\ TimesOut \subseteq Nodes
ASSUME LimitsAssumption ==
  /\ MaxConcurrency \in Nat \ {0} /\ MaxSteps \in Nat \ {0}
  /\ CanAbort \in BOOLEAN /\ CanBreak \in BOOLEAN
ASSUME BehaviourAssumption ==
  /\ Outcomes \in [Nodes -> SUBSET ResultStatus]
  /\ Gates \in [Nodes -> SUBSET {"pass", "interrupt", "cancel"}]

VARIABLES
  pc,           (* where the main loop of _stream is                         *)
  targets,      (* targets: nodes to schedule, in order                      *)
  streams,      (* streams: nodes whose execution has not delivered a result *)
  queue,        (* queue: entries not shifted yet                            *)
  handling,     (* the event shifted and not acknowledged yet, or Nothing    *)
  interrupted,  (* interrupted                                               *)
  aborted,      (* the graph's timeout or the caller's cancelSignal fired    *)
  status,       (* state.nodes: the status of each node                      *)
  results,      (* state.results, as a bag of <<node, status>>               *)
  steps,        (* state.steps                                               *)
  phase,        (* where each node's _streamNode is                          *)
  outcome,      (* how the last invocation ended, "none" during one          *)
  runs,         (* history: executions of each node in this invocation       *)
  startedOver   (* history: an invocation on the kept state found no node to *)
                (* resume and began with the sources again                   *)

loop == <<pc, targets, streams, interrupted, outcome>>
state == <<status, results, steps>>
history == <<runs, startedOver>>
vars == <<loop, queue, handling, aborted, state, phase, history>>

Nothing == [type |-> "nothing"]

Event(n) == [type |-> "event", node |-> n]
Result(n, end) == [type |-> "result", node |-> n, status |-> end]
Failure(n) == [type |-> "error", node |-> n]

(* "updating", "reported", "closing" and "failing": a node that waits for    *)
(* the acknowledgement of, respectively, an event of its handler, its        *)
(* NodeResultEvent, and the AfterNodeCallEvent after a result or an error.   *)
(* "answering" and "erring": it was acknowledged and is about to deliver its *)
(* result or its error.                                                      *)
Phase == {"none", "running", "updating", "reported", "answering", "closing",
          "failing", "erring"}

-----------------------------------------------------------------------------
Incoming(n) == {e \in Edges : e[2] = n}

(* Mutant of Satisfied: one satisfied edge is enough.                        *)
SatisfiedByAny(n, open) ==
  \E e \in Incoming(n) :
    status[e[1]] = "COMPLETED" /\ (e \in Conditional => e \in open)

(* _allDependenciesSatisfied, when the conditions that hold are those of the *)
(* edges in open.                                                            *)
Satisfied(n, open) ==
  \A e \in Incoming(n) :
    status[e[1]] = "COMPLETED" /\ (e \in Conditional => e \in open)

(* Mutants of FindReady: nodes already running or queued are not left out;   *)
(* nodes that become ready while another runs or waits are.                   *)
FindReadyAgain(n, open) ==
  IF status[n] # "COMPLETED" THEN {}
  ELSE {e \in Edges : e[1] = n /\ Satisfied(e[2], open)}

FindReadyAfterOthers(n, open) ==
  IF status[n] # "COMPLETED" THEN {}
  ELSE {e \in Edges : /\ e[1] = n
                      /\ streams \ {n} = {} /\ targets = <<>>
                      /\ Satisfied(e[2], open)}

(* _findReady, after node n delivered its result and left streams: the edges *)
(* whose targets it returns, a target once for each of the edges to it.      *)
FindReady(n, open) ==
  IF status[n] # "COMPLETED" THEN {}
  ELSE {e \in Edges : /\ e[1] = n
                      /\ e[2] \notin streams \ {n}
                      /\ e[2] \notin ToSet(targets)
                      /\ Satisfied(e[2], open)}

TargetsOf(found) == [i \in DOMAIN found |-> found[i][2]]

(* _findResumeTargets, or the sources if it finds none: the lists the        *)
(* invocation may begin with.                                                *)
ReadyToResume(open) ==
  {n \in Nodes : status[n] # "COMPLETED" /\ (Incoming(n) = {} \/ Satisfied(n, open))}

SomeCompleted == \E n \in Nodes : status[n] = "COMPLETED"

FindResumeTargets(open) ==
  IF SomeCompleted /\ ReadyToResume(open) # {}
  THEN SetToSeqs(ReadyToResume(open)) ELSE {Sources}

(* dropStaleInterruptedResult: one interrupted result of n, if n is          *)
(* interrupted.                                                              *)
DropStale(n) ==
  IF status[n] = "INTERRUPTED"
  THEN results (-) SetToBag({<<n, "INTERRUPTED">>})
  ELSE results

(* MultiAgentResult._resolveStatus *)
ResolveStatus ==
  LET some(s) == \E n \in Nodes : BagIn(<<n, s>>, results)
  IN  CASE some("FAILED") -> "FAILED"
        [] ~some("FAILED") /\ some("INTERRUPTED") -> "INTERRUPTED"
        [] ~some("FAILED") /\ ~some("INTERRUPTED") /\ some("CANCELLED") -> "CANCELLED"
        [] OTHER -> "COMPLETED"

(* Mutant of Unwind: the queue is not disposed.                              *)
UnwindKeepingQueue ==
  /\ pc' = "settling"
  /\ outcome' = "thrown"
  /\ UNCHANGED <<queue, phase>>

(* The finally block, entered by a throw or by the consumer's return:        *)
(* queue.dispose acknowledges what is still queued, and a node that is       *)
(* acknowledged has nothing left that waits.  The event being handled has    *)
(* been shifted, and is not acknowledged.                                    *)
Unwind ==
  /\ pc' = "settling"
  /\ outcome' = "thrown"
  /\ queue' = <<>>
  /\ phase' = [n \in Nodes |->
                 CASE handling # Nothing /\ handling.node = n -> phase[n]
                   [] phase[n] = "updating" -> "running"
                   [] phase[n] = "running" -> "running"
                   [] OTHER -> "none"]

-----------------------------------------------------------------------------
Init ==
  /\ pc = "idle" /\ outcome = "none"
  /\ targets = <<>> /\ streams = {} /\ queue = <<>> /\ handling = Nothing
  /\ interrupted = FALSE /\ aborted = FALSE
  /\ status = [n \in Nodes |-> "PENDING"]
  /\ results = EmptyBag
  /\ steps = 0
  /\ phase = [n \in Nodes |-> "none"]
  /\ runs = [n \in Nodes |-> 0] /\ startedOver = FALSE

(* The locals of a new invocation. *)
Begin(first) ==
  /\ pc' = "top" /\ outcome' = "none"
  /\ targets' = first
  /\ streams' = {} /\ queue' = <<>> /\ handling' = Nothing
  /\ interrupted' = FALSE /\ aborted' = FALSE
  /\ phase' = [n \in Nodes |-> "none"]
  /\ runs' = [n \in Nodes |-> 0]

(* An invocation with nothing to resume. *)
Invoke ==
  /\ pc = "idle" /\ outcome # "INTERRUPTED"
  /\ Begin(Sources)
  /\ status' = [n \in Nodes |-> "PENDING"]
  /\ results' = EmptyBag
  /\ steps' = 0
  /\ startedOver' = FALSE

(* An invocation with plain input after a run that was interrupted. *)
InvokeAgain ==
  /\ pc = "idle" /\ outcome = "INTERRUPTED"
  /\ \E open \in SUBSET Conditional :
       /\ \E first \in FindResumeTargets(open) : Begin(first)
       /\ startedOver' = (startedOver \/ (SomeCompleted /\ ReadyToResume(open) = {}))
  /\ UNCHANGED state

(* An invocation with responses to interrupts of some of the nodes.  One     *)
(* that matches no interrupt throws, and the kept state is gone.             *)
Resume ==
  /\ pc = "idle" /\ outcome = "INTERRUPTED"
  /\ \E answered \in (SUBSET {n \in Nodes : status[n] = "INTERRUPTED"}) \ {{}} :
       \E first \in SetToSeqs(answered) : Begin(first)
  /\ UNCHANGED <<state, startedOver>>

ResumeRejected ==
  /\ pc = "idle" /\ outcome = "INTERRUPTED"
  /\ outcome' = "thrown"
  /\ UNCHANGED <<pc, targets, streams, interrupted, queue, handling, aborted,
                 state, phase, history>>

-----------------------------------------------------------------------------
(* The main loop *)

Finish ==
  /\ pc = "top" /\ targets = <<>> /\ streams = {}
  /\ pc' = "idle"
  /\ outcome' = ResolveStatus
  /\ UNCHANGED <<targets, streams, interrupted, queue, handling, aborted,
                 state, phase, history>>

CheckAbort ==
  /\ pc = "top" /\ (targets # <<>> \/ streams # {})
  /\ IF aborted
     THEN Unwind
     ELSE pc' = "schedule" /\ UNCHANGED <<outcome, queue, phase>>
  /\ UNCHANGED <<targets, streams, interrupted, handling, aborted, state, history>>

(* Mutant of MaySchedule: one node too many.                                 *)
MayScheduleOneMore ==
  /\ ~interrupted /\ targets # <<>>
  /\ Cardinality(streams) <= MaxConcurrency

MaySchedule ==
  /\ ~interrupted /\ targets # <<>>
  /\ Cardinality(streams) < MaxConcurrency

(* Mutant of StepsLeft: one step too many.                                   *)
StepsLeftAtLimit == steps <= MaxSteps

(* _checkSteps *)
StepsLeft == steps < MaxSteps

StepsExceeded ==
  /\ pc = "schedule" /\ MaySchedule /\ ~StepsLeft
  /\ Unwind
  /\ UNCHANGED <<targets, streams, interrupted, handling, aborted, state, history>>

(* Takes the next target.  A hook may gate it (_runBeforeNodeCall), and its  *)
(* result is then queued without an execution; otherwise it starts running.  *)
Start(n) ==
  /\ streams' = streams \cup {n}
  /\ phase' = [phase EXCEPT ![n] = "running"]
  /\ status' = [status EXCEPT ![n] = "EXECUTING"]
  /\ results' = DropStale(n)
  /\ runs' = [runs EXCEPT ![n] = @ + 1]
  /\ UNCHANGED queue

Gate(n, decision) ==
  LET gated == IF decision = "interrupt" THEN "INTERRUPTED" ELSE "CANCELLED" IN
  /\ decision \in Gates[n] \ {"pass"}
  /\ status' = [status EXCEPT ![n] = gated]
  /\ results' = IF decision = "cancel" THEN DropStale(n) ELSE results
  /\ queue' = Append(queue, Result(n, gated))
  /\ UNCHANGED <<streams, phase, runs>>

(* A node that parallel edges or repeated sources made a target twice, and   *)
(* that is still executing when its turn comes again, loses its place in     *)
(* streams: the entry is overwritten, or removed with the result of the gate *)
(* although the execution goes on.  The model does not follow it further.    *)
Schedule ==
  /\ pc = "schedule" /\ MaySchedule /\ StepsLeft
  /\ pc' = IF Head(targets) \in streams THEN "overwritten" ELSE pc
  /\ targets' = Tail(targets)
  /\ steps' = steps + 1
  /\ \/ "pass" \in Gates[Head(targets)] /\ Start(Head(targets))
     \/ \E decision \in {"interrupt", "cancel"} : Gate(Head(targets), decision)
  /\ UNCHANGED <<interrupted, outcome, handling, aborted, startedOver>>

(* queue.wait: the main loop sleeps until an entry is queued.                *)
Wait ==
  /\ pc = "schedule" /\ ~MaySchedule /\ queue # <<>>
  /\ pc' = "drain"
  /\ UNCHANGED <<targets, streams, interrupted, outcome, queue, handling,
                 aborted, state, phase, history>>

Handling(type) ==
  /\ pc = "drain" /\ handling = Nothing
  /\ queue # <<>> /\ Head(queue).type = type

(* An event is shifted; its hooks run and the consumer takes it.             *)
HandleEvent ==
  /\ Handling("event")
  /\ handling' = Head(queue)
  /\ queue' = Tail(queue)
  /\ UNCHANGED <<loop, aborted, state, phase, history>>

(* The event is acknowledged, which lets its node go on.  The code between   *)
(* two acknowledgements (a hook call, a turn of the consumer) outlasts the   *)
(* few microtasks after which the first node delivers, so it has by then.    *)
Acknowledge ==
  LET n == handling.node IN
  /\ pc = "drain" /\ handling # Nothing
  /\ \A m \in Nodes : phase[m] \notin {"answering", "erring"}
  /\ handling' = Nothing
  /\ phase' = [phase EXCEPT ![n] = CASE @ = "updating" -> "running"
                                     [] @ = "reported" -> "answering"
                                     [] @ = "failing"  -> "erring"
                                     [] OTHER -> "none"]
  /\ UNCHANGED <<loop, queue, aborted, state, history>>

(* Mutant of WithResult: an interrupted run takes no more results.           *)
WithResultUnlessInterrupted(n, result) ==
  IF interrupted THEN results ELSE results (+) SetToBag({<<n, result>>})

(* state.results.push *)
WithResult(n, result) == results (+) SetToBag({<<n, result>>})

(* A result is recorded; unless the run is interrupted, the nodes it made    *)
(* ready become targets, after a hand-off event that may be the last.        *)
HandleResult ==
  LET n == Head(queue).node
      result == Head(queue).status IN
  /\ Handling("result")
  /\ streams' = streams \ {n}
  /\ results' = WithResult(n, result)
  /\ interrupted' = (interrupted \/ result = "INTERRUPTED")
  /\ IF interrupted'
     THEN UNCHANGED <<targets, pc, outcome, phase>> /\ queue' = Tail(queue)
     ELSE \E open \in SUBSET Conditional :
            LET ready == FindReady(n, open) IN
            \/ /\ \E new \in SetToSeqs(ready) : targets' = targets \o TargetsOf(new)
               /\ queue' = Tail(queue)
               /\ UNCHANGED <<pc, outcome, phase>>
            \/ CanBreak /\ ready # {} /\ Unwind /\ UNCHANGED targets
  /\ UNCHANGED <<handling, aborted, status, steps, history>>

HandleError ==
  /\ Handling("error")
  /\ streams' = streams \ {Head(queue).node}
  /\ Unwind
  /\ UNCHANGED <<targets, interrupted, handling, aborted, state, history>>

Drained ==
  /\ pc = "drain" /\ handling = Nothing /\ queue = <<>>
  /\ pc' = "top"
  /\ UNCHANGED <<targets, streams, interrupted, outcome, queue, handling,
                 aborted, state, phase, history>>

(* Promise.allSettled(streams) in the finally block. *)
Settled ==
  /\ pc = "settling" /\ \A n \in streams : phase[n] = "none"
  /\ pc' = "idle"
  /\ UNCHANGED <<targets, streams, interrupted, outcome, queue, handling,
                 aborted, state, phase, history>>

-----------------------------------------------------------------------------
(* The nodes and the environment *)

(* The handler yields an event.  A disposed queue takes none and does not    *)
(* make it wait.                                                             *)
Emit(n) ==
  /\ pc # "settling"
  /\ phase[n] = "running"
  /\ phase' = [phase EXCEPT ![n] = "updating"]
  /\ queue' = Append(queue, Event(n))
  /\ UNCHANGED <<loop, handling, aborted, state, history>>

(* The handler ends (Node.stream): an error is a CANCELLED result if the     *)
(* node was told to stop, and FAILED otherwise.                              *)
EndHandler(n) ==
  /\ phase[n] = "running"
  /\ \E end \in Outcomes[n] \cup (IF aborted \/ n \in TimesOut
                                  THEN {"CANCELLED"} ELSE {}) :
       status' = [status EXCEPT ![n] = end]
  /\ IF pc = "settling"
     THEN phase' = [phase EXCEPT ![n] = "none"] /\ UNCHANGED queue
     ELSE /\ phase' = [phase EXCEPT ![n] = "reported"]
          /\ queue' = Append(queue, Event(n))
  /\ UNCHANGED <<loop, handling, aborted, results, steps, history>>

(* An acknowledged node delivers its result, or learns that it exceeded its  *)
(* nodeTimeout and, in the end, delivers that error.  It did exceed it if it *)
(* was told to stop and not by the graph.                                    *)
Deliver(n) ==
  /\ \/ /\ phase[n] = "answering"
        /\ status[n] = "CANCELLED" /\ n \in TimesOut => aborted
        /\ phase' = [phase EXCEPT ![n] = "closing"]
        /\ queue' = queue \o <<Result(n, status[n]), Event(n)>>
     \/ /\ phase[n] = "answering" /\ n \in TimesOut
        /\ phase' = [phase EXCEPT ![n] = "failing"]
        /\ queue' = Append(queue, Event(n))
     \/ /\ phase[n] = "erring"
        /\ phase' = [phase EXCEPT ![n] = "none"]
        /\ queue' = Append(queue, Failure(n))
  /\ UNCHANGED <<loop, handling, aborted, state, history>>

Abort ==
  /\ CanAbort /\ pc # "idle" /\ ~aborted
  /\ aborted' = TRUE
  /\ UNCHANGED <<loop, queue, handling, state, phase, history>>

(* A hook throws, or the consumer stops reading, while an event of a node is *)
(* handled or the events before a node's execution are.                      *)
Break ==
  /\ CanBreak
  /\ \/ pc = "drain" /\ handling # Nothing
     \/ pc = "schedule" /\ MaySchedule
  /\ Unwind
  /\ UNCHANGED <<targets, streams, interrupted, handling, aborted, state, history>>

MainLoop ==
  \/ Finish \/ CheckAbort \/ StepsExceeded \/ Schedule \/ Wait
  \/ HandleEvent \/ Acknowledge \/ HandleResult \/ HandleError \/ Drained
  \/ Settled

Next ==
  \/ Invoke \/ InvokeAgain \/ Resume \/ ResumeRejected
  \/ MainLoop
  \/ \E n \in Nodes : Emit(n) \/ EndHandler(n) \/ Deliver(n)
  \/ Abort
  \/ Break

Spec == Init /\ [][Next]_vars

(* The main loop goes on when it can, and a node's handler ends, however     *)
(* many events it yields first.                                              *)
Fairness ==
  /\ WF_vars(MainLoop)
  /\ \A n \in Nodes : SF_vars(EndHandler(n)) /\ WF_vars(Deliver(n))

FairSpec == Spec /\ Fairness

-----------------------------------------------------------------------------
(***************************************************************************)
(* Properties                                                              *)
(***************************************************************************)

Events == [type : {"event"}, node : Nodes]
Entries == Events \cup [type : {"error"}, node : Nodes]
                  \cup [type : {"result"}, node : Nodes, status : ResultStatus]

TypeOK ==
  /\ pc \in {"idle", "top", "schedule", "drain", "settling", "overwritten"}
  /\ targets \in Seq(Nodes)
  /\ streams \subseteq Nodes
  /\ queue \in Seq(Entries)
  /\ handling \in Events \cup {Nothing}
  /\ interrupted \in BOOLEAN /\ aborted \in BOOLEAN
  /\ status \in [Nodes -> Status]
  /\ IsABag(results) /\ BagToSet(results) \subseteq Nodes \X ResultStatus
  /\ steps \in 0 .. MaxSteps
  /\ runs \in [Nodes -> 0 .. MaxSteps] /\ startedOver \in BOOLEAN
  /\ phase \in [Nodes -> Phase]
  /\ outcome \in ResultStatus \cup {"none", "thrown"}

(* No parallel edges, and no source twice: what the properties below are     *)
(* claimed of.  Otherwise a node may run twice at once.                      *)
SimpleGraph ==
  /\ \A e, f \in Edges : e[1] = f[1] /\ e[2] = f[2] => e = f
  /\ IsInjective(Sources)

(* A node the graph believes to be executing is, and the other way round:    *)
(* no execution escapes streams, so maxConcurrency bounds the executions and *)
(* an invocation that has ended left none behind, whichever way it ended.    *)
NoOrphanedExecution ==
  /\ pc # "overwritten"
  /\ \A n \in Nodes : phase[n] \in {"running", "updating", "reported", "answering"} =>
                        n \in streams /\ pc # "idle"
  /\ Cardinality({n \in Nodes : phase[n] \in {"running", "updating"}})
       <= MaxConcurrency

(* When a run ends, every node that was tried is in its results, with the    *)
(* status it has.                                                            *)
ResultsComplete ==
  pc = "idle" /\ outcome \in ResultStatus =>
    \A n \in Nodes : status[n] # "PENDING" => BagIn(<<n, status[n]>>, results)

(* "A node runs only when all incoming edges are satisfied": at the moment   *)
(* it starts, and not merely when it was queued.  (Of an invocation that     *)
(* started over on a finished state it is not claimed: see the README.)      *)
DependenciesFirst ==
  [][~startedOver =>
       \A n \in Nodes :
         status'[n] = "EXECUTING" /\ status[n] # "EXECUTING" =>
           \A e \in Incoming(n) : status[e[1]] = "COMPLETED"]_vars

(* "Executes join node exactly once when all parents complete concurrently", *)
(* in a graph without cycles: no interleaving of the deliveries of two       *)
(* parents, one already completed when the other's result is handled, makes  *)
(* their successor ready twice.                                              *)
ExecutedOnce == ~startedOver => \A n \in Nodes : runs[n] <= 1

(* An invocation ends, if every node does. *)
InvocationEnds == pc # "idle" ~> pc = "idle"

(* So it does unless it was interrupted with targets left, or a hook or the  *)
(* consumer stopped it in the middle of an event: whatever fails, times out, *)
(* is cancelled or exceeds the limit of steps ends it.                       *)
EndsUnlessStopped ==
  pc # "idle" ~> \/ pc = "idle"
                 \/ interrupted /\ targets # <<>>
                 \/ pc = "settling" /\ handling # Nothing

(* "Downstream nodes execute once all their dependencies complete": when a   *)
(* run has completed, no node is left out.                                   *)
DownstreamRuns ==
  pc = "idle" /\ outcome = "COMPLETED" =>
    \A n \in Nodes : Incoming(n) # {} /\ Satisfied(n, {}) => status[n] # "PENDING"

(* So it is in the invocation in which the last of its dependencies ran, be  *)
(* it a resumed one.                                                         *)
FreshDownstreamRuns ==
  pc = "idle" /\ outcome = "COMPLETED" =>
    \A n \in Nodes :
      Satisfied(n, {}) /\ (\E e \in Incoming(n) : runs[e[1]] > 0) =>
        status[n] # "PENDING"

(* An invocation that ends interrupted has a node to resume: a fresh result  *)
(* replaces the stale interrupted one.                                       *)
InterruptedCanResume ==
  pc = "idle" /\ outcome = "INTERRUPTED" =>
    \E n \in Nodes : status[n] = "INTERRUPTED"
=============================================================================
