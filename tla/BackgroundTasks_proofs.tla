------------------------ MODULE BackgroundTasks_proofs ------------------------
(*****************************************************************************)
(* Proofs about BackgroundTasks, for any number of tasks and slots and any   *)
(* bound of the microtask queue: what becomes of a result between the tool   *)
(* that returns it and the history.                                          *)
(*****************************************************************************)
EXTENDS BackgroundTasks, FiniteSetTheorems, SequenceTheorems, TLAPS

-------------------------------------------------------------------------------
(* Types.                                                                    *)

Statuses == Engine!Terminal \cup
            {"unsubmitted", "queued", "working", "input_required", "removed"}
Told == [task : Tasks, view : {"active", "input_required", "done"}]
Message == Told \cup {Agent}

Ended(t) == status[t] \in Engine!Terminal \cup {"removed"}

Types ==
  /\ status \in [Tasks -> Statuses] /\ mirror \in [Tasks -> Views]
  /\ delivered \in [Tasks -> Nat] /\ taken \subseteq Tasks
  /\ saved.mirror \in [Tasks -> Views] /\ saved.delivered \in [Tasks -> Nat]

-------------------------------------------------------------------------------
(* The queue of microtasks.  After the update that a task has ended there is *)
(* no other of it.                                                           *)

Updates(q) == {q[i] : i \in 1 .. Len(q)} \ {Agent}

LastDone(q) ==
  \A i, j \in 1 .. Len(q) : i < j /\ q[i].view = "done" => q[j].task # q[i].task

QueueOK(q) == q \in Seq(Message) /\ LastDone(q)

(* Taking the first microtask leaves no update of a task that it reports     *)
(* ended.                                                                    *)
LEMMA TailQueue ==
  ASSUME NEW q, QueueOK(q), q # <<>>
  PROVE  /\ QueueOK(Tail(q)) /\ Updates(Tail(q)) \subseteq Updates(q)
         /\ Head(q) # Agent =>
              /\ Head(q) \in Updates(q) /\ Head(q) \in Told
              /\ Head(q).view = "done" =>
                   \A m \in Updates(Tail(q)) : m.task # Head(q).task
<1>1. /\ Tail(q) \in Seq(Message) /\ Len(Tail(q)) = Len(q) - 1
      /\ \A i \in 1 .. Len(Tail(q)) : Tail(q)[i] = q[i + 1]
      /\ Head(q) \in Message
  BY HeadTailProperties DEF QueueOK
<1>2. Len(q) \in Nat \ {0} /\ Head(q) = q[1]
  BY EmptySeq, LenProperties DEF QueueOK
<1>3. LastDone(Tail(q))
  BY <1>1, <1>2 DEF LastDone, QueueOK
<1>4. Updates(Tail(q)) \subseteq Updates(q)
  BY <1>1, <1>2 DEF Updates
<1>5. ASSUME Head(q) # Agent PROVE Head(q) \in Updates(q) /\ Head(q) \in Told
  BY <1>1, <1>2, <1>5 DEF Updates, Message
<1>6. ASSUME Head(q).view = "done", NEW m \in Updates(Tail(q))
      PROVE  m.task # Head(q).task
  <2>1. PICK i \in 1 .. Len(Tail(q)) : m = q[i + 1]
    BY <1>1, <1>6 DEF Updates
  <2>2. i + 1 \in 1 .. Len(q) /\ 1 < i + 1 /\ 1 \in 1 .. Len(q)
    BY <1>1, <1>2
  <2> QED BY <1>2, <1>6, <2>1, <2>2 DEF QueueOK, LastDone
<1> QED BY <1>1, <1>3, <1>4, <1>5, <1>6 DEF QueueOK

(* A microtask may be added if its task has not been reported ended.         *)
LEMMA AppendQueue ==
  ASSUME NEW q, QueueOK(q), NEW m \in Message,
         \A u \in Updates(q) : u.view = "done" => u.task # m.task
  PROVE  /\ QueueOK(Append(q, m))
         /\ Updates(Append(q, m)) = Updates(q) \cup ({m} \ {Agent})
<1> DEFINE r == Append(q, m)
<1>1. /\ r \in Seq(Message) /\ Len(r) = Len(q) + 1
      /\ \A i \in 1 .. Len(q) : r[i] = q[i]
      /\ r[Len(q) + 1] = m
  BY AppendProperties DEF QueueOK
<1>2. Len(q) \in Nat
  BY LenProperties DEF QueueOK
<1>3. LastDone(r)
  <2> SUFFICES ASSUME NEW i \in 1 .. Len(r), NEW j \in 1 .. Len(r), i < j,
                      r[i].view = "done"
               PROVE  r[j].task # r[i].task
    BY DEF LastDone
  <2>1. CASE j \in 1 .. Len(q)
    BY <1>1, <1>2, <2>1 DEF QueueOK, LastDone
  <2>2. CASE j = Len(q) + 1
    <3>1. i \in 1 .. Len(q) /\ r[i] = q[i] /\ r[j] = m
      BY <1>1, <1>2, <2>2
    <3>2. q[i] # Agent
      BY <3>1 DEF Agent
    <3> QED BY <3>1, <3>2 DEF Updates
  <2> QED BY <1>1, <1>2, <2>1, <2>2
<1>4. Updates(r) = Updates(q) \cup ({m} \ {Agent})
  BY <1>1, <1>2 DEF Updates
<1> QED BY <1>1, <1>3, <1>4 DEF QueueOK

LEMMA AgentIsNoTask ==
  ASSUME BackgroundAssumption, NEW q, QueueOK(q)
  PROVE  /\ Agent \in Message /\ Updates(q) \subseteq Told
         /\ \A u \in Updates(q) : u.task # Agent.task
<1>1. Updates(q) \subseteq Told
  BY ElementOfSeq DEF QueueOK, Updates, Message
<1> QED BY <1>1 DEF Agent, Told, Message, BackgroundAssumption

(* The steps of a pass before its first call of the model.                   *)
Entering == Begin \/ Top \/ LimitReached \/ Deny
Cancels == \E who \in {"agent", "caller"} : Cancel(who)

LEMMA EnteringFacts ==
  ASSUME Entering
  PROVE  /\ UNCHANGED <<engine, micro, mirror, cancel, limit, resume, asked, interrupts,
                        history, saved>>
         /\ taken' \in {taken, {}}
         /\ pc \in {"start", "top", "carry"}
         /\ pc' \in {"top", "carry", "gate", "finished"}
         /\ pc' = "carry" => taken # {}
         /\ IF pc' = "finished" THEN result' \in {"limit", "denied"} ELSE result' = result
BY DEF Entering, Begin, Top, LimitReached, Deny, EndPass

(* What a step that tells nothing new does to the queue.                     *)
Quiet == QueueOK(micro') /\ Updates(micro') \subseteq Updates(micro)

LEMMA QuietQueue ==
  ASSUME BackgroundAssumption, QueueOK(micro),
         \/ UNCHANGED micro
         \/ Await
         \/ micro # <<>> /\ micro' \in {Tail(micro), Append(Tail(micro), Agent)}
  PROVE  Quiet
<1>1. CASE UNCHANGED micro
  BY <1>1 DEF Quiet
<1>2. CASE Await
  BY <1>2, AgentIsNoTask, AppendQueue DEF Await, Quiet
<1>3. CASE micro # <<>> /\ micro' = Tail(micro)
  BY <1>3, TailQueue DEF Quiet
<1>4. CASE micro # <<>> /\ micro' = Append(Tail(micro), Agent)
  <2>1. QueueOK(Tail(micro)) /\ Updates(Tail(micro)) \subseteq Updates(micro)
    BY <1>4, TailQueue
  <2> QED BY <1>4, <2>1, AgentIsNoTask, AppendQueue DEF Quiet
<1> QED BY <1>1, <1>2, <1>3, <1>4

(* What a step that tells of t does to it.                                   *)
Telling(t) ==
  QueueOK(micro') /\ Updates(micro') \subseteq Updates(micro) \cup {Update(t)}

LEMMA TellingQueue ==
  ASSUME BackgroundAssumption, QueueOK(micro), NEW t \in Tasks, Update(t) \in Told,
         \A u \in Updates(micro) : u.view = "done" => u.task # t,
         \/ Notify(t)
         \/ NotifyAndAwait(t)
         \/ micro # <<>> /\ micro' = Append(Append(Tail(micro), Update(t)), Agent)
  PROVE  Telling(t)
<1>1. ASSUME NEW q, QueueOK(q), Updates(q) \subseteq Updates(micro)
      PROVE  /\ QueueOK(Append(q, Update(t)))
             /\ Updates(Append(q, Update(t))) \subseteq Updates(micro) \cup {Update(t)}
  BY <1>1, AppendQueue DEF Message, Update
<1>2. ASSUME NEW q, QueueOK(q), Updates(q) \subseteq Updates(micro)
      PROVE  /\ QueueOK(Append(Append(q, Update(t)), Agent))
             /\ Updates(Append(Append(q, Update(t)), Agent)) \subseteq
                  Updates(micro) \cup {Update(t)}
  <2>1. /\ QueueOK(Append(q, Update(t)))
        /\ Updates(Append(q, Update(t))) \subseteq Updates(micro) \cup {Update(t)}
    BY <1>1, <1>2
  <2> QED BY <2>1, AgentIsNoTask, AppendQueue
<1>3. CASE Notify(t)
  BY <1>1, <1>3 DEF Notify, Telling
<1>4. CASE NotifyAndAwait(t)
  BY <1>2, <1>4 DEF NotifyAndAwait, Telling
<1>5. CASE micro # <<>> /\ micro' = Append(Append(Tail(micro), Update(t)), Agent)
  BY <1>2, <1>5, TailQueue DEF Telling
<1> QED BY <1>3, <1>4, <1>5

-------------------------------------------------------------------------------
(* From the tool to the history.                                             *)

(* An update that is still queued is of a task that the manager has and      *)
(* whose result nobody has seen.                                             *)
UpdatesOK ==
  \A m \in Updates(micro) :
    /\ Live(m.task) /\ mirror[m.task] # "done" /\ delivered[m.task] = 0
    /\ m.view = "done" => Ended(m.task)

(* The mirror is behind the engine, never ahead of it.                       *)
MirrorOK ==
  \A t \in Tasks :
    /\ mirror[t] # "absent" => status[t] # "unsubmitted"
    /\ mirror[t] = "done" => Ended(t)
    /\ mirror[t] \in {"active", "input_required"} => Live(t)

(* What is in the history is forgotten, or is about to be.                   *)
Forgetting == {"appended", "carried"}

DeliveredOK ==
  /\ taken \subseteq Seen("done")
  /\ pc \in Forgetting => \A t \in taken : delivered[t] = 1
  /\ \A t \in Tasks :
       /\ delivered[t] \in {0, 1}
       /\ delivered[t] = 1 =>
            /\ Ended(t)
            /\ mirror[t] = "absent" \/ (t \in taken /\ pc \in Forgetting)

SavedOK ==
  \A t \in Tasks :
    /\ saved.delivered[t] \in {0, 1}
    /\ saved.delivered[t] = 1 => saved.mirror[t] = "absent" /\ Ended(t)
    /\ saved.mirror[t] # "absent" => status[t] # "unsubmitted"

Delivery ==
  Types /\ QueueOK(micro) /\ UpdatesOK /\ MirrorOK /\ DeliveredOK /\ SavedOK

LEMMA DeliveryInit == ASSUME BackgroundAssumption, Init PROVE Delivery
<1>1. Types /\ MirrorOK /\ DeliveredOK /\ SavedOK
  BY DEF Init, Engine!Init, Types, Statuses, Views, Snapshot, MirrorOK, DeliveredOK,
         SavedOK, Seen
<1>2. micro = <<>> /\ Len(micro) = 0 /\ micro \in Seq(Message)
  BY EmptySeq DEF Init
<1>3. QueueOK(micro) /\ UpdatesOK
  BY <1>2 DEF QueueOK, LastDone, UpdatesOK, Updates
<1> QED BY <1>1, <1>3 DEF Delivery

(* Steps of the agent that neither deliver nor forget.                       *)
Bystander ==
  /\ UNCHANGED <<status, mirror, delivered, saved>> /\ Quiet
  /\ taken' \subseteq Seen("done")
  /\ \/ UNCHANGED <<pc, taken>>
     \/ pc \notin Forgetting /\ pc' \notin Forgetting

LEMMA BystanderStep == ASSUME Delivery, Bystander PROVE Delivery'
<1>1. Types' /\ MirrorOK' /\ SavedOK'
  BY DEF Delivery, Bystander, Types, MirrorOK, SavedOK, Ended, Live, Seen
<1>2. QueueOK(micro') /\ UpdatesOK'
  BY DEF Delivery, Bystander, Quiet, UpdatesOK, Ended, Live
<1>3. DeliveredOK'
  BY DEF Delivery, Bystander, Types, DeliveredOK, Ended, Seen
<1> QED BY <1>1, <1>2, <1>3 DEF Delivery

(* Steps of the engine that tell of a task that has not ended.               *)
Progress(t) ==
  /\ status[t] \notin Engine!Terminal \cup {"removed"}
  /\ \E s \in Statuses \ {"unsubmitted", "removed"} : status' = [status EXCEPT ![t] = s]
  /\ UNCHANGED <<mirror, delivered, taken, saved>>
  /\ (pc \notin Forgetting /\ pc' \notin Forgetting) \/ UNCHANGED pc

LEMMA ViewOfStatus ==
  ASSUME NEW s \in Statuses \ {"unsubmitted", "removed"}
  PROVE  /\ View(s) \in {"active", "input_required", "done"}
         /\ View(s) = "done" <=> s \in Engine!Terminal
  BY DEF View, Statuses, Engine!Terminal

LEMMA ProgressStep ==
  ASSUME BackgroundAssumption, Delivery, NEW t \in Tasks, Progress(t),
         \/ Notify(t)
         \/ NotifyAndAwait(t)
         \/ micro # <<>> /\ micro' = Append(Append(Tail(micro), Update(t)), Agent)
  PROVE  Delivery'
<1>1. PICK s \in Statuses \ {"unsubmitted", "removed"} : status' = [status EXCEPT ![t] = s]
  BY DEF Progress
<1>2. /\ status'[t] = s /\ status' \in [Tasks -> Statuses]
      /\ \A u \in Tasks \ {t} : status'[u] = status[u]
  BY <1>1 DEF Delivery, Types
<1>3. Update(t) = [task |-> t, view |-> View(s)] /\ Update(t) \in Told
  BY <1>2, ViewOfStatus DEF Update, Told
<1>4. ~Ended(t) /\ mirror[t] # "done" /\ delivered[t] = 0
  BY DEF Delivery, Progress, Ended, MirrorOK, DeliveredOK
<1>5. \A u \in Updates(micro) : u.view = "done" => u.task # t
  BY <1>4 DEF Delivery, UpdatesOK
<1>6. Telling(t)
  BY <1>3, <1>5, TellingQueue DEF Delivery
<1>7. Types' /\ MirrorOK' /\ DeliveredOK' /\ SavedOK'
  BY <1>2, <1>4
     DEF Delivery, Progress, Types, MirrorOK, DeliveredOK, SavedOK, Ended, Live, Seen
<1>8. UpdatesOK'
  <2> SUFFICES ASSUME NEW m \in Updates(micro')
               PROVE  /\ Live(m.task)' /\ mirror'[m.task] # "done"
                      /\ delivered'[m.task] = 0
                      /\ m.view = "done" => Ended(m.task)'
    BY DEF UpdatesOK
  <2>1. CASE m = Update(t)
    BY <1>2, <1>3, <1>4, <2>1, ViewOfStatus DEF Progress, Live, Ended
  <2>2. CASE m \in Updates(micro)
    <3>1. m.task \in Tasks
      BY <2>2, AgentIsNoTask DEF Delivery, Told
    <3>2. CASE m.task = t
      BY <1>2, <1>4, <1>5, <2>2, <3>2 DEF Progress, Live
    <3>3. CASE m.task # t
      BY <1>2, <2>2, <3>1, <3>3 DEF Delivery, UpdatesOK, Progress, Live, Ended
    <3> QED BY <3>2, <3>3
  <2> QED BY <1>6, <2>1, <2>2 DEF Telling
<1> QED BY <1>6, <1>7, <1>8 DEF Delivery, Telling

LEMMA BystandersStep ==
  ASSUME BackgroundAssumption, Delivery,
         \/ Invoke \/ (\E ts \in SUBSET Tasks : Respond(ts))
         \/ BeforeModelCall \/ Answered \/ AskOrTake \/ Reply \/ Acknowledge
         \/ Cancelled \/ Break \/ Entering \/ UseUp \/ AfterInvocation \/ Settling
         \/ Woken \/ NextPass \/ Return \/ Cancels \/ UNCHANGED vars
  PROVE  Delivery'
<1> DEFINE Q == \/ UNCHANGED micro
                \/ Await
                \/ micro # <<>> /\ micro' \in {Tail(micro), Append(Tail(micro), Agent)}
           R == /\ UNCHANGED <<status, mirror, delivered, saved>>
                /\ taken' \subseteq Seen("done")
                /\ \/ UNCHANGED <<pc, taken>>
                   \/ pc \notin Forgetting /\ pc' \notin Forgetting
<1> USE DEF engine, pass, history, Forgetting
<1>1. taken \subseteq Seen("done")
  BY DEF Delivery, DeliveredOK
<1>2. ASSUME Invoke PROVE Q /\ R
  BY <1>1, <1>2 DEF Invoke, Request
<1>3. ASSUME NEW ts \in SUBSET Tasks, Respond(ts) PROVE Q /\ R
  BY <1>1, <1>3 DEF Respond, Request
<1>4. ASSUME BeforeModelCall PROVE Q /\ R
  BY <1>1, <1>4 DEF BeforeModelCall
<1>5. ASSUME Answered PROVE Q /\ R
  BY <1>1, <1>5 DEF Answered, Turn
<1>6. ASSUME AskOrTake PROVE Q /\ R
  BY <1>1, <1>6 DEF AskOrTake, EndPass, Seen
<1>7. ASSUME Reply PROVE Q /\ R
  BY <1>1, <1>7 DEF Reply, EndPass
<1>8. ASSUME Acknowledge PROVE Q /\ R
  BY <1>1, <1>8 DEF Acknowledge, Turn, EndPass
<1>9. ASSUME Cancelled PROVE Q /\ R
  BY <1>1, <1>9 DEF Cancelled, EndPass
<1>10. ASSUME Break \/ Entering \/ UseUp PROVE Q /\ R
  BY EnteringFacts, <1>1, <1>10 DEF Break, UseUp, EndPass
<1>11. ASSUME AfterInvocation PROVE Q /\ R
  BY <1>1, <1>11 DEF AfterInvocation
<1>12. ASSUME Settling PROVE Q /\ R
  BY <1>1, <1>12 DEF Settling, Decide
<1>13. ASSUME Woken PROVE Q /\ R
  BY <1>1, <1>13 DEF Woken, Turn
<1>14. ASSUME NextPass PROVE Q /\ R
  BY <1>1, <1>14 DEF NextPass
<1>15. ASSUME Return PROVE Q /\ R
  BY <1>1, <1>15 DEF Return
<1>16. ASSUME Cancels PROVE Q /\ R
  BY <1>1, <1>16 DEF Cancels, Cancel, WakeOnCancel
<1>17. ASSUME UNCHANGED vars PROVE Q /\ R
  BY <1>1, <1>17 DEF vars
<1>18. Q /\ R
  BY <1>2, <1>3, <1>4, <1>5, <1>6, <1>7, <1>8, <1>9, <1>10, <1>11,
     <1>12, <1>13, <1>14, <1>15, <1>16, <1>17
<1>19. Bystander
  BY <1>18, QuietQueue DEF Delivery, Bystander
<1> QED BY <1>19, BystanderStep

(* The engine's steps, and those of the agent that call it.                  *)
LEMMA EngineStep ==
  ASSUME BackgroundAssumption, Delivery, NEW t \in Tasks,
         Settle(t) \/ Answer(t) \/ Dispatch(t) \/ CancelTask(t)
  PROVE  Delivery'
<1> USE DEF engine, pass, history, Forgetting, Statuses
<1>1. CASE Settle(t)
  BY <1>1, ProgressStep DEF Settle, Engine!Stop, Engine!Terminal, Progress
<1>2. CASE Answer(t)
  BY <1>2, ProgressStep
     DEF Answer, Turn, Submit, Engine!Enter, Engine!Queue, Engine!Terminal, Progress
<1>3. CASE Dispatch(t)
  BY <1>3, ProgressStep
     DEF Dispatch, Submit, Engine!Enter, Engine!Queue, Engine!Terminal, Progress
<1>4. CASE CancelTask(t) /\ status[t] \in Engine!Terminal
  <2>1. Quiet
    BY <1>4, QuietQueue DEF CancelTask, Delivery
  <2>2. Bystander
    BY <1>4, <2>1 DEF CancelTask, Bystander, Delivery, DeliveredOK
  <2> QED BY <2>2, BystanderStep
<1>5. CASE CancelTask(t) /\ status[t] \notin Engine!Terminal
  BY <1>5, ProgressStep
     DEF CancelTask, Engine!Stop, Engine!Withdraw, Engine!Terminal, Progress
<1> QED BY <1>1, <1>2, <1>3, <1>4, <1>5

LEMMA GiveUpStep ==
  ASSUME Delivery, NEW t \in Tasks, GiveUp(t) PROVE Delivery'
<1> USE DEF engine, pass, history
<1>1. UNCHANGED <<micro, mirror, pc, taken, delivered, saved>>
  BY DEF GiveUp
<1>2. \/ UNCHANGED status
      \/ \E u \in Tasks : status[u] = "queued" /\ status' = [status EXCEPT ![u] = "working"]
  BY DEF GiveUp, Engine!Release, Engine!HandOver, Engine!Startable
<1>3. /\ status' \in [Tasks -> Statuses]
      /\ \A u \in Tasks : /\ Ended(u)' <=> Ended(u)
                          /\ Live(u)' <=> Live(u)
                          /\ status'[u] = "unsubmitted" <=> status[u] = "unsubmitted"
  BY <1>2 DEF Delivery, Types, Statuses, Ended, Live, Engine!Terminal
<1>4. Types' /\ QueueOK(micro)' /\ MirrorOK' /\ DeliveredOK' /\ SavedOK'
  BY <1>1, <1>3
     DEF Delivery, Types, QueueOK, LastDone, MirrorOK, DeliveredOK, SavedOK, Seen
<1>5. \A m \in Updates(micro) : m.task \in Tasks
  BY ElementOfSeq DEF Delivery, QueueOK, Updates, Message, Told
<1>6. UpdatesOK'
  BY <1>1, <1>3, <1>5 DEF Delivery, UpdatesOK, Updates
<1> QED BY <1>4, <1>6 DEF Delivery

(* The mirror learns of an update.                                           *)
LEMMA MirrorStep ==
  ASSUME BackgroundAssumption, Delivery, OnTaskUpdated PROVE Delivery'
<1> DEFINE h == Head(micro)
<1> USE DEF engine, pass, history
<1>1. micro # <<>> /\ h # Agent
  BY DEF OnTaskUpdated
<1>2. h \in Updates(micro) /\ h \in Told /\ h.task \in Tasks
  BY <1>1, TailQueue DEF Delivery, Told
<1>3. /\ UNCHANGED <<status, taken, delivered, saved>>
      /\ mirror' = [mirror EXCEPT ![h.task] = h.view]
      /\ pc' \in {pc, "woken"} /\ (pc' # pc => pc = "waiting")
      /\ micro' \in {Tail(micro), Append(Tail(micro), Agent)}
  BY DEF OnTaskUpdated, Wakes
<1>4. Quiet
  BY <1>1, <1>3, QuietQueue DEF Delivery
<1>5. /\ mirror' \in [Tasks -> Views] /\ mirror'[h.task] = h.view
      /\ \A t \in Tasks \ {h.task} : mirror'[t] = mirror[t]
  BY <1>2, <1>3 DEF Delivery, Types, Told, Views
<1>6. /\ Live(h.task) /\ mirror[h.task] # "done" /\ delivered[h.task] = 0
      /\ h.view = "done" => Ended(h.task)
      /\ h.view \in {"active", "input_required", "done"}
  BY <1>2 DEF Delivery, UpdatesOK, Told
<1>7. Types' /\ MirrorOK' /\ SavedOK'
  BY <1>3, <1>5, <1>6 DEF Delivery, Types, MirrorOK, SavedOK, Ended, Live
<1>8. DeliveredOK'
  BY <1>3, <1>5, <1>6 DEF Delivery, DeliveredOK, Types, Ended, Seen, Forgetting
<1>9. h.view = "done" => \A m \in Updates(micro') : m.task # h.task
  <2>1. ASSUME h.view = "done"
        PROVE  \A m \in Updates(Tail(micro)) : m.task # h.task
    BY <1>1, <2>1, TailQueue DEF Delivery
  <2>2. Updates(Append(Tail(micro), Agent)) \subseteq Updates(Tail(micro))
    BY <1>1, TailQueue, AgentIsNoTask, AppendQueue DEF Delivery
  <2> QED BY <1>3, <2>1, <2>2
<1>10. UpdatesOK'
  <2> SUFFICES ASSUME NEW m \in Updates(micro')
               PROVE  /\ Live(m.task)' /\ mirror'[m.task] # "done"
                      /\ delivered'[m.task] = 0
                      /\ m.view = "done" => Ended(m.task)'
    BY DEF UpdatesOK
  <2>1. m \in Updates(micro) /\ m.task \in Tasks
    BY <1>4, AgentIsNoTask DEF Quiet, Delivery, Told
  <2> QED BY <1>3, <1>5, <1>9, <2>1 DEF Delivery, UpdatesOK, Live, Ended
<1> QED BY <1>4, <1>7, <1>8, <1>10 DEF Delivery, Quiet

(* The results taken are appended; no result is taken that was before.       *)
LEMMA AppendResultsStep ==
  ASSUME BackgroundAssumption, Delivery, AppendResults PROVE Delivery'
<1> USE DEF engine, pass, history
<1>1. Quiet
  BY QuietQueue DEF Delivery, AppendResults
<1>2. /\ UNCHANGED <<status, mirror, taken, saved>>
      /\ pc \notin Forgetting /\ pc' \in Forgetting
      /\ delivered' = [t \in Tasks |-> IF t \in taken THEN delivered[t] + 1
                                                      ELSE delivered[t]]
  BY DEF AppendResults, Forgetting
<1>3. \A t \in taken : t \in Tasks /\ mirror[t] = "done" /\ delivered[t] = 0 /\ Ended(t)
  BY <1>2 DEF Delivery, Types, DeliveredOK, MirrorOK, Seen
<1>4. /\ delivered' \in [Tasks -> Nat]
      /\ \A t \in Tasks : delivered'[t] = IF t \in taken THEN 1 ELSE delivered[t]
  BY <1>2, <1>3 DEF Delivery, Types
<1>5. Types' /\ MirrorOK' /\ SavedOK'
  BY <1>2, <1>4 DEF Delivery, Types, MirrorOK, SavedOK, Ended, Live
<1>6. DeliveredOK'
  BY <1>2, <1>3, <1>4 DEF Delivery, DeliveredOK, Types, Ended, Seen
<1>7. UpdatesOK'
  <2> SUFFICES ASSUME NEW m \in Updates(micro')
               PROVE  /\ Live(m.task)' /\ mirror'[m.task] # "done"
                      /\ delivered'[m.task] = 0
                      /\ m.view = "done" => Ended(m.task)'
    BY DEF UpdatesOK
  <2>1. m \in Updates(micro) /\ m.task \in Tasks
    BY <1>1, AgentIsNoTask DEF Quiet, Delivery, Told
  <2>2. m.task \notin taken
    BY <2>1, <1>3 DEF Delivery, UpdatesOK
  <2> QED BY <1>2, <1>4, <2>1, <2>2 DEF Delivery, UpdatesOK, Live, Ended
<1> QED BY <1>1, <1>5, <1>6, <1>7 DEF Delivery, Quiet

(* They are forgotten.                                                       *)
LEMMA AppendedStep ==
  ASSUME BackgroundAssumption, Delivery, Appended PROVE Delivery'
<1> USE DEF engine, pass, history
<1>1. Quiet
  BY QuietQueue DEF Delivery, Appended, Turn
<1>2. /\ UNCHANGED <<delivered, saved>> /\ taken' = {}
      /\ pc \in Forgetting /\ pc' \notin Forgetting
      /\ \A t \in Tasks :
           /\ status'[t] = IF t \in taken /\ Live(t) THEN "removed" ELSE status[t]
           /\ mirror'[t] = IF t \in taken THEN "absent" ELSE mirror[t]
      /\ status' \in [Tasks -> Statuses] /\ mirror' \in [Tasks -> Views]
  BY DEF Appended, Forget, Forgetting, Delivery, Types, Statuses, Views
<1>3. \A t \in taken : mirror[t] = "done" /\ delivered[t] = 1 /\ Ended(t)
  BY <1>2 DEF Delivery, Types, DeliveredOK, MirrorOK, Seen
<1>4. \A t \in Tasks : Ended(t) => Ended(t)'
  BY <1>2 DEF Ended
<1>5. Types' /\ MirrorOK' /\ SavedOK'
  BY <1>2, <1>3, <1>4 DEF Delivery, Types, MirrorOK, SavedOK, Live
<1>6. DeliveredOK'
  BY <1>2, <1>3, <1>4 DEF Delivery, DeliveredOK, Types, Seen
<1>7. UpdatesOK'
  <2> SUFFICES ASSUME NEW m \in Updates(micro')
               PROVE  /\ Live(m.task)' /\ mirror'[m.task] # "done"
                      /\ delivered'[m.task] = 0
                      /\ m.view = "done" => Ended(m.task)'
    BY DEF UpdatesOK
  <2>1. m \in Updates(micro) /\ m.task \in Tasks
    BY <1>1, AgentIsNoTask DEF Quiet, Delivery, Told
  <2>2. m.task \notin taken
    BY <2>1, <1>3 DEF Delivery, UpdatesOK
  <2> QED BY <1>2, <2>1, <2>2 DEF Delivery, UpdatesOK, Live, Ended
<1> QED BY <1>1, <1>5, <1>6, <1>7 DEF Delivery, Quiet

(* Snapshots are not taken between the two.                                  *)
LEMMA SaveStep ==
  ASSUME BackgroundAssumption, Delivery, Save PROVE Delivery'
<1> USE DEF engine, pass, history
<1>1. /\ UNCHANGED <<status, occupied, micro, mirror, pc, taken, delivered>>
      /\ pc \notin Forgetting
      /\ saved'.mirror = mirror /\ saved'.delivered = delivered
  BY DEF Save, Snapshot, Forgetting
<1>2. Types' /\ QueueOK(micro)' /\ MirrorOK' /\ DeliveredOK'
  BY <1>1
     DEF Delivery, Types, QueueOK, LastDone, MirrorOK, DeliveredOK, Ended, Live, Seen
<1>3. SavedOK'
  BY <1>1 DEF Delivery, Types, MirrorOK, DeliveredOK, SavedOK, Ended
<1>4. UpdatesOK'
  BY <1>1 DEF Delivery, UpdatesOK, Updates, Live, Ended
<1> QED BY <1>2, <1>3, <1>4 DEF Delivery

(* What a snapshot owes is owed again, what it delivered is not.             *)
LEMMA RestartStep ==
  ASSUME BackgroundAssumption, Delivery, Restart PROVE Delivery'
<1> USE DEF Forgetting
<1>1. /\ taken' = {} /\ pc' = "idle" /\ UNCHANGED saved
      /\ delivered' = saved.delivered
      /\ \A t \in Tasks :
           /\ status'[t] = IF status[t] = "unsubmitted" THEN "unsubmitted" ELSE "removed"
           /\ mirror'[t] = IF saved.mirror[t] = "absent" THEN "absent" ELSE "done"
      /\ status' \in [Tasks -> Statuses] /\ mirror' \in [Tasks -> Views]
  BY DEF Restart, Recover, Statuses, Views
<1>2. \A t \in Tasks : Ended(t) => Ended(t)'
  BY <1>1 DEF Ended, Engine!Terminal
<1>3. Types' /\ MirrorOK' /\ DeliveredOK' /\ SavedOK'
  BY <1>1, <1>2
     DEF Delivery, Types, MirrorOK, DeliveredOK, SavedOK, Ended, Live, Seen
<1>4. micro' = <<>> /\ Len(micro') = 0 /\ micro' \in Seq(Message)
  BY EmptySeq DEF Restart
<1>5. QueueOK(micro)' /\ UpdatesOK'
  BY <1>4 DEF QueueOK, LastDone, UpdatesOK, Updates
<1> QED BY <1>3, <1>5 DEF Delivery

LEMMA DeliveryStep ==
  ASSUME BackgroundAssumption, Delivery, [Next]_vars PROVE Delivery'
BY BystandersStep, EngineStep, GiveUpStep, MirrorStep, AppendResultsStep, AppendedStep,
   SaveStep, RestartStep DEF Next, AgentStep, Entering, Cancels

LEMMA DeliveryInvariant ==
  ASSUME BackgroundAssumption PROVE Spec => []Delivery
BY DeliveryInit, DeliveryStep, PTL DEF Spec

(* A result is in the history at most once, whatever continuations were      *)
(* abandoned, and from whichever snapshot the session was restored.          *)
THEOREM ResultsDeliveredOnce ==
  ASSUME BackgroundAssumption PROVE Spec => []DeliveredOnce
<1>1. Delivery => DeliveredOnce
  BY DEF Delivery, DeliveredOK, DeliveredOnce
<1> QED BY <1>1, DeliveryInvariant, PTL

(* The plugin's wait() never names a task that the manager does not know.    *)
THEOREM PluginWaitsForKnownTasks ==
  ASSUME BackgroundAssumption PROVE Spec => []WaitsForKnownTasks
<1>1. Delivery => WaitsForKnownTasks
  BY DEF Delivery, MirrorOK, WaitsForKnownTasks, Seen
<1> QED BY <1>1, DeliveryInvariant, PTL

-------------------------------------------------------------------------------
(* Nothing is forgotten.  The one continuation that an agent awaits comes    *)
(* after the updates of the call it awaits, so that a task the manager has   *)
(* is in the mirror before the model is told that it was dispatched.         *)

OneAgent(q) == \A i, j \in 1 .. Len(q) : q[i] = Agent /\ q[j] = Agent => i = j
NoAgent(q) == \A i \in 1 .. Len(q) : q[i] # Agent
Ahead(q) ==
  {t \in Tasks : \E i, j \in 1 .. Len(q) :
                   i < j /\ q[i] # Agent /\ q[i].task = t /\ q[j] = Agent}

LEMMA TailPositions ==
  ASSUME NEW q \in Seq(Message), q # <<>>
  PROVE  /\ OneAgent(q) => OneAgent(Tail(q))
         /\ NoAgent(q) => NoAgent(Tail(q))
         /\ Head(q) = Agent /\ OneAgent(q) => NoAgent(Tail(q)) /\ Ahead(q) = {}
         /\ Head(q) # Agent => Ahead(q) \subseteq Ahead(Tail(q)) \cup {Head(q).task}
<1>1. /\ Len(Tail(q)) = Len(q) - 1
      /\ \A i \in 1 .. Len(Tail(q)) : Tail(q)[i] = q[i + 1]
  BY HeadTailProperties
<1>2. Len(q) \in Nat \ {0} /\ Head(q) = q[1]
  BY EmptySeq, LenProperties
<1>3. OneAgent(q) => OneAgent(Tail(q))
  BY <1>1, <1>2 DEF OneAgent
<1>4. NoAgent(q) => NoAgent(Tail(q))
  BY <1>1, <1>2 DEF NoAgent
<1>5. ASSUME Head(q) = Agent, OneAgent(q) PROVE NoAgent(Tail(q)) /\ Ahead(q) = {}
  <2>1. \A j \in 1 .. Len(q) : q[j] = Agent => j = 1
    BY <1>2, <1>5 DEF OneAgent
  <2> QED BY <1>1, <1>2, <2>1 DEF NoAgent, Ahead
<1>6. ASSUME Head(q) # Agent, NEW t \in Ahead(q), t # Head(q).task
      PROVE  t \in Ahead(Tail(q))
  <2>1. PICK i, j \in 1 .. Len(q) :
               t \in Tasks /\ i < j /\ q[i] # Agent /\ q[i].task = t /\ q[j] = Agent
    BY DEF Ahead
  <2>2. i # 1
    BY <1>2, <1>6, <2>1
  <2>3. /\ i - 1 \in 1 .. Len(Tail(q)) /\ j - 1 \in 1 .. Len(Tail(q)) /\ i - 1 < j - 1
        /\ Tail(q)[i - 1] = q[i] /\ Tail(q)[j - 1] = q[j]
    BY <1>1, <1>2, <2>1, <2>2
  <2> QED BY <2>1, <2>3 DEF Ahead
<1> QED BY <1>3, <1>4, <1>5, <1>6

LEMMA AppendPositions ==
  ASSUME NEW q \in Seq(Message), NEW m \in Message
  PROVE  /\ Ahead(q) \subseteq Ahead(Append(q, m))
         /\ m # Agent => /\ OneAgent(q) => OneAgent(Append(q, m))
                         /\ NoAgent(q) => NoAgent(Append(q, m))
         /\ m = Agent /\ NoAgent(q) => OneAgent(Append(q, m))
         /\ m = Agent => \A i \in 1 .. Len(q) :
              q[i] # Agent /\ q[i].task \in Tasks => q[i].task \in Ahead(Append(q, m))
<1> DEFINE r == Append(q, m)
<1>1. /\ r \in Seq(Message) /\ Len(r) = Len(q) + 1 /\ Len(q) \in Nat
      /\ \A i \in 1 .. Len(q) : i \in 1 .. Len(r) /\ r[i] = q[i]
      /\ Len(r) \in 1 .. Len(r) /\ r[Len(r)] = m
      /\ \A i \in 1 .. Len(r) : i \in 1 .. Len(q) \/ i = Len(r)
  BY AppendProperties, LenProperties
<1> HIDE DEF r
<1>2. Ahead(q) \subseteq Ahead(r)
  BY <1>1 DEF Ahead
<1>3. m # Agent /\ OneAgent(q) => OneAgent(r)
  BY <1>1 DEF OneAgent
<1>4. m # Agent /\ NoAgent(q) => NoAgent(r)
  BY <1>1 DEF NoAgent
<1>5. m = Agent /\ NoAgent(q) => OneAgent(r)
  BY <1>1 DEF NoAgent, OneAgent
<1>6. ASSUME m = Agent, NEW i \in 1 .. Len(q), q[i] # Agent, q[i].task \in Tasks
      PROVE  q[i].task \in Ahead(r)
  <2>1. i < Len(r) /\ i \in 1 .. Len(r) /\ r[i] = q[i] /\ r[Len(r)] = Agent
    BY <1>1, <1>6
  <2> QED BY <1>1, <1>6, <2>1 DEF Ahead
<1> QED BY <1>2, <1>3, <1>4, <1>5, <1>6 DEF r

Awaiting == {"answering", "appended", "carried", "tools", "woken"}

TurnOK == OneAgent(micro) /\ (pc \notin Awaiting => NoAgent(micro))

Known(t) == mirror[t] # "absent" \/ (pc = "tools" /\ t \in Ahead(micro))

KnownOK == \A t \in Tasks : Live(t) => Known(t)

Remembered ==
  /\ acked \subseteq Tasks /\ saved.acked \subseteq Tasks
  /\ NothingForgotten

(* Who is answered has been submitted.                                       *)
AskedOK == \A t \in Tasks : t \in asked => status[t] # "unsubmitted"

Memory == TurnOK /\ KnownOK /\ Remembered /\ AskedOK

LEMMA MemoryInit == ASSUME Init PROVE Memory
<1>1. KnownOK /\ Remembered /\ AskedOK
  BY DEF AskedOK, Init, Engine!Init, KnownOK, Live, Remembered, NothingForgotten, Snapshot
<1>2. micro = <<>> /\ Len(micro) = 0
  BY EmptySeq DEF Init
<1>3. TurnOK
  BY <1>2 DEF TurnOK, OneAgent, NoAgent
<1> QED BY <1>1, <1>3 DEF Memory

(* What a step needs that leaves the history and the mirror as they are.     *)
Recalling ==
  /\ UNCHANGED <<mirror, acked, saved>>
  /\ \A t \in Tasks : delivered'[t] >= delivered[t]

LEMMA RecallingStep ==
  ASSUME Types, Types', Remembered, Recalling PROVE Remembered'
  BY DEF Types, Remembered, NothingForgotten, Recalling

(* The agent goes on without awaiting.                                       *)
LEMMA GoingOnStep ==
  ASSUME Memory, UNCHANGED <<status, micro, mirror>>,
         UNCHANGED pc \/ (pc \notin Awaiting /\ pc' \notin Awaiting)
  PROVE  TurnOK' /\ KnownOK'
<1>1. OneAgent(micro') /\ (pc' \notin Awaiting => NoAgent(micro'))
  BY DEF Memory, TurnOK
<1>2. \A t \in Tasks : Live(t)' => Known(t)'
  BY DEF Memory, KnownOK, Known, Live, Awaiting
<1> QED BY <1>1, <1>2 DEF TurnOK, KnownOK

(* It awaits.                                                                *)
LEMMA AwaitingStep ==
  ASSUME Memory, micro \in Seq(Message), UNCHANGED <<status, mirror>>, Await,
         pc \notin Awaiting, pc' \in Awaiting
  PROVE  TurnOK' /\ KnownOK'
<1>1. OneAgent(micro')
  BY AppendPositions DEF Memory, TurnOK, Await, Message
<1>2. \A t \in Tasks : Live(t)' => Known(t)'
  BY DEF Memory, KnownOK, Known, Live, Awaiting
<1> QED BY <1>1, <1>2 DEF TurnOK, KnownOK

(* Its turn has come: the mirror shows all that the manager has.             *)
LEMMA TurnStep ==
  ASSUME Memory, micro \in Seq(Message), Turn,
         \A t \in Tasks : Live(t)' => Live(t) /\ mirror'[t] = mirror[t],
         micro' = Tail(micro), pc' \notin Awaiting
  PROVE  /\ TurnOK' /\ KnownOK'
         /\ \A t \in Tasks : Live(t) => mirror[t] # "absent"
<1>1. NoAgent(Tail(micro)) /\ Ahead(micro) = {} /\ OneAgent(Tail(micro))
  BY TailPositions DEF Memory, TurnOK, Turn
<1>2. \A t \in Tasks : Live(t) => mirror[t] # "absent"
  BY <1>1 DEF Memory, KnownOK, Known
<1> QED BY <1>1, <1>2 DEF TurnOK, KnownOK, Known

LEMMA UpdateType ==
  ASSUME BackgroundAssumption, NEW t \in Tasks, Types', Live(t)'
  PROVE  Update(t) \in Message /\ Update(t) # Agent /\ Update(t).task = t
<1>1. status'[t] \in Statuses \ {"unsubmitted", "removed"}
  BY DEF Types, Live
<1>2. Update(t) \in Told /\ Update(t).task = t
  BY <1>1, ViewOfStatus DEF Update, Told
<1> QED BY <1>2, AgentIsNoTask DEF Message, Agent, BackgroundAssumption

(* The engine tells of a task, and the agent awaits what it asked for.       *)
LEMMA CallStep ==
  ASSUME BackgroundAssumption, Memory, Types', NEW t \in Tasks, Live(t)',
         \A u \in Tasks \ {t} : Live(u)' => Live(u), UNCHANGED mirror,
         NEW q \in Seq(Message), NoAgent(q),
         micro' = Append(Append(q, Update(t)), Agent), pc \notin {"tools"},
         pc' = "tools" \/ (pc' \in Awaiting /\ Live(t))
  PROVE  TurnOK' /\ KnownOK'
<1> DEFINE r == Append(q, Update(t))
<1>1. Update(t) \in Message /\ Update(t) # Agent /\ Update(t).task = t
  BY UpdateType
<1>2. r \in Seq(Message) /\ NoAgent(r) /\ Len(r) \in 1 .. Len(r) /\ r[Len(r)] = Update(t)
  BY <1>1, AppendProperties, AppendPositions, LenProperties
<1> HIDE DEF r
<1>3. OneAgent(micro') /\ t \in Ahead(micro')
  BY <1>1, <1>2, AppendPositions DEF r, Message
<1>4. \A u \in Tasks : Live(u) => mirror[u] # "absent"
  BY DEF Memory, KnownOK, Known
<1>5. TurnOK'
  BY <1>3 DEF TurnOK, Awaiting
<1>6. KnownOK'
  BY <1>3, <1>4 DEF KnownOK, Known
<1> QED BY <1>5, <1>6

LEMMA EngineMemory ==
  ASSUME BackgroundAssumption, Delivery, Types', Memory, NEW t \in Tasks,
         Settle(t) \/ Answer(t) \/ Dispatch(t) \/ CancelTask(t) \/ GiveUp(t)
  PROVE  TurnOK' /\ KnownOK'
<1> USE DEF engine, pass, history, Engine!Terminal
<1>1. micro \in Seq(Message)
  BY DEF Delivery, QueueOK
<1>2. CASE Settle(t)
  <2>1. \A u \in Tasks : Live(u)' <=> Live(u)
    BY <1>2 DEF Settle, Engine!Stop, Live, Delivery, Types
  <2>2. Live(t)' /\ UNCHANGED <<mirror, pc>> /\ micro' = Append(micro, Update(t))
    BY <1>2, <2>1 DEF Settle, Engine!Stop, Notify, Live
  <2>3. /\ OneAgent(micro) => OneAgent(micro')
        /\ NoAgent(micro) => NoAgent(micro')
        /\ Ahead(micro) \subseteq Ahead(micro')
    BY <1>1, <2>2, UpdateType, AppendPositions
  <2> QED BY <2>1, <2>2, <2>3 DEF Memory, TurnOK, KnownOK, Known
<1>3. CASE GiveUp(t)
  <2>1. UNCHANGED <<micro, mirror, pc>>
    BY <1>3 DEF GiveUp
  <2>2. \A u \in Tasks : Live(u)' <=> Live(u)
    BY <1>3 DEF GiveUp, Engine!Release, Engine!HandOver, Engine!Startable, Live,
                Delivery, Types
  <2> QED BY <2>1, <2>2 DEF Memory, TurnOK, OneAgent, NoAgent, KnownOK, Known, Ahead
<1>4. CASE Dispatch(t)
  <2>1. Live(t)' /\ \A u \in Tasks \ {t} : Live(u)' => Live(u)
    BY <1>4 DEF Dispatch, Submit, Engine!Enter, Engine!Queue, Live, Delivery, Types
  <2>2. /\ UNCHANGED mirror /\ pc = "model" /\ pc' = "tools"
        /\ micro' = Append(Append(micro, Update(t)), Agent)
    BY <1>4 DEF Dispatch, NotifyAndAwait
  <2>3. NoAgent(micro)
    BY <2>2 DEF Memory, TurnOK, Awaiting
  <2> QED BY <1>1, <2>1, <2>2, <2>3, CallStep
<1>5. CASE CancelTask(t) /\ status[t] \in Engine!Terminal
  BY <1>1, <1>5, AwaitingStep DEF CancelTask, Awaiting
<1>6. CASE CancelTask(t) /\ status[t] \notin Engine!Terminal
  <2>1. Live(t)' /\ \A u \in Tasks \ {t} : Live(u)' => Live(u)
    BY <1>6 DEF CancelTask, Engine!Stop, Engine!Withdraw, Live, Delivery, Types
  <2>2. /\ UNCHANGED mirror /\ pc = "model" /\ pc' = "tools"
        /\ micro' = Append(Append(micro, Update(t)), Agent)
    BY <1>6 DEF CancelTask, NotifyAndAwait
  <2>3. NoAgent(micro)
    BY <2>2 DEF Memory, TurnOK, Awaiting
  <2> QED BY <1>1, <2>1, <2>2, <2>3, CallStep
<1>7. CASE Answer(t)
  <2>1. /\ status[t] \in {"unsubmitted", "input_required"}
        /\ Live(t)' /\ \A u \in Tasks \ {t} : Live(u)' => Live(u)
    BY <1>7 DEF Answer, Submit, Engine!Enter, Engine!Queue, Live, Delivery, Types
  <2>2. /\ UNCHANGED <<mirror, pc>> /\ pc = "answering" /\ Turn /\ t \in asked
        /\ micro' = Append(Append(Tail(micro), Update(t)), Agent)
    BY <1>7 DEF Answer
  <2>3. Tail(micro) \in Seq(Message) /\ NoAgent(Tail(micro))
    BY <1>1, <2>2, HeadTailProperties, TailPositions DEF Turn, Memory, TurnOK
  <2>4. Live(t)
    BY <2>1, <2>2 DEF Memory, AskedOK, Live
  <2> QED BY <2>1, <2>2, <2>3, <2>4, CallStep DEF Awaiting
<1> QED BY <1>2, <1>3, <1>4, <1>5, <1>6, <1>7

LEMMA AskedStep ==
  ASSUME Types, AskedOK, [Next]_vars PROVE AskedOK'
<1> USE DEF engine, pass, history, Engine!Terminal, Types, AskedOK
<1>1. ASSUME UNCHANGED <<asked, status>> PROVE AskedOK'
  BY <1>1
<1>2. CASE BeforeModelCall
  BY <1>2 DEF BeforeModelCall
<1>3. ASSUME NEW t \in Tasks, Answer(t) PROVE AskedOK'
  BY <1>3 DEF Answer, Submit, Engine!Enter, Engine!Queue
<1>4. ASSUME NEW t \in Tasks, Settle(t) PROVE AskedOK'
  BY <1>4 DEF Settle, Engine!Stop
<1>5. ASSUME NEW t \in Tasks, GiveUp(t) PROVE AskedOK'
  BY <1>5 DEF GiveUp, Engine!Release, Engine!HandOver, Engine!Startable
<1>6. ASSUME NEW t \in Tasks, Dispatch(t) PROVE AskedOK'
  BY <1>6 DEF Dispatch, Submit, Engine!Enter, Engine!Queue
<1>7. ASSUME NEW t \in Tasks, CancelTask(t) PROVE AskedOK'
  BY <1>7 DEF CancelTask, Engine!Stop, Engine!Withdraw
<1>8. CASE Appended
  BY <1>8 DEF Appended, Forget
<1>9. CASE Restart
  BY <1>9 DEF Restart
<1>10. CASE \/ Answered \/ AskOrTake \/ AppendResults \/ Reply \/ Acknowledge
            \/ Cancelled \/ AfterInvocation \/ Settling \/ Woken \/ NextPass
            \/ Return \/ OnTaskUpdated \/ Invoke
            \/ (\E ts \in SUBSET Tasks : Respond(ts))
            \/ Break \/ Entering \/ UseUp \/ Cancels \/ Save \/ UNCHANGED vars
  BY EnteringFacts, <1>1, <1>10
     DEF Answered, AskOrTake, AppendResults, Reply, Acknowledge, Cancelled,
         AfterInvocation, Settling, Woken, NextPass, Return, OnTaskUpdated, Invoke,
         Respond, Break, UseUp, Cancels, Cancel, Save, vars
<1> QED BY <1>2, <1>3, <1>4, <1>5, <1>6, <1>7, <1>8, <1>9, <1>10
        DEF Next, AgentStep, Entering, Cancels

(* The agent's steps.                                                        *)
AgentMoves ==
  \/ Invoke \/ (\E ts \in SUBSET Tasks : Respond(ts)) \/ AskOrTake \/ Reply
  \/ Cancelled \/ Break \/ Entering \/ UseUp \/ AfterInvocation \/ NextPass \/ Return
  \/ Save \/ BeforeModelCall \/ Settling \/ Cancels \/ AppendResults
  \/ Answered \/ Woken \/ Acknowledge \/ Appended
  \/ UNCHANGED vars

LEMMA AgentMemory ==
  ASSUME Delivery, Memory
  PROVE  /\ AgentMoves => TurnOK' /\ KnownOK'
         /\ Acknowledge => \A t \in Tasks : Live(t) => mirror[t] # "absent"
<1>1. micro \in Seq(Message)
  BY DEF Delivery, QueueOK
<1>2. ASSUME \/ Invoke \/ (\E ts \in SUBSET Tasks : Respond(ts)) \/ AskOrTake \/ Reply
             \/ Cancelled \/ Break \/ Entering \/ UseUp \/ AfterInvocation \/ NextPass
             \/ Return \/ Save
             \/ UNCHANGED vars
      PROVE  TurnOK' /\ KnownOK'
  <2>1. /\ UNCHANGED <<status, micro, mirror>>
        /\ UNCHANGED pc \/ (pc \notin Awaiting /\ pc' \notin Awaiting)
    BY EnteringFacts, <1>2
       DEF Invoke, Respond, Request, AskOrTake, Reply, Cancelled, Break, UseUp,
           AfterInvocation, NextPass, Return, Save, EndPass, vars, engine, pass,
           Awaiting
  <2> QED BY <2>1, GoingOnStep
<1>3. ASSUME BeforeModelCall \/ Settling \/ Cancels \/ AppendResults
      PROVE  TurnOK' /\ KnownOK'
  <2>1. \/ /\ UNCHANGED <<status, micro, mirror>>
           /\ UNCHANGED pc \/ (pc \notin Awaiting /\ pc' \notin Awaiting)
        \/ /\ UNCHANGED <<status, mirror>> /\ Await
           /\ pc \notin Awaiting /\ pc' \in Awaiting
    BY <1>3 DEF BeforeModelCall, Settling, Cancels, Cancel, WakeOnCancel, AppendResults,
                engine, Awaiting
  <2> QED BY <1>1, <2>1, GoingOnStep, AwaitingStep
<1>4. ASSUME Answered \/ Woken \/ Acknowledge
      PROVE  /\ TurnOK' /\ KnownOK'
             /\ \A t \in Tasks : Live(t) => mirror[t] # "absent"
  <2>1. /\ Turn /\ UNCHANGED <<status, mirror>>
        /\ micro' = Tail(micro) /\ pc' \notin Awaiting
    BY <1>4 DEF Answered, Woken, Acknowledge, EndPass, engine, Awaiting
  <2>2. \A t \in Tasks : Live(t)' => Live(t) /\ mirror'[t] = mirror[t]
    BY <2>1 DEF Live
  <2> QED BY <1>1, <2>1, <2>2, TurnStep
<1>5. ASSUME Appended PROVE TurnOK' /\ KnownOK'
  <2>1. Turn /\ micro' = Tail(micro) /\ pc' \notin Awaiting
    BY <1>5 DEF Appended, Awaiting
  <2>2. \A t \in Tasks : Live(t)' => Live(t) /\ mirror'[t] = mirror[t]
    BY <1>5 DEF Appended, Forget, Live
  <2> QED BY <1>1, <2>1, <2>2, TurnStep
<1> QED BY <1>2, <1>3, <1>4, <1>5 DEF AgentMoves

LEMMA MirrorMemory ==
  ASSUME Delivery, Memory, OnTaskUpdated PROVE TurnOK' /\ KnownOK' /\ Remembered'
<1> DEFINE h == Head(micro)
<1> USE DEF engine, pass, history, Awaiting
<1>1. micro \in Seq(Message) /\ micro # <<>> /\ h # Agent /\ h \in Told
  BY TailQueue DEF OnTaskUpdated, Delivery, QueueOK
<1>2. /\ UNCHANGED <<status, acked, delivered, saved>>
      /\ \A t \in Tasks : mirror'[t] = IF t = h.task THEN h.view ELSE mirror[t]
      /\ h.view # "absent"
      /\ \/ pc' = pc /\ micro' = Tail(micro)
         \/ pc = "waiting" /\ pc' = "woken" /\ micro' = Append(Tail(micro), Agent)
  BY <1>1 DEF OnTaskUpdated, Wakes, Told, Delivery, Types
<1>3. /\ Tail(micro) \in Seq(Message)
      /\ OneAgent(micro) => OneAgent(Tail(micro))
      /\ NoAgent(micro) => NoAgent(Tail(micro))
      /\ Ahead(micro) \subseteq Ahead(Tail(micro)) \cup {h.task}
  BY <1>1, HeadTailProperties, TailPositions
<1>4. NoAgent(Tail(micro)) => OneAgent(Append(Tail(micro), Agent))
  BY <1>3, AppendPositions DEF Message
<1>5. TurnOK'
  BY <1>2, <1>3, <1>4 DEF Memory, TurnOK
<1>6. KnownOK'
  BY <1>2, <1>3 DEF Memory, KnownOK, Known, Live
<1>7. Remembered'
  BY <1>2 DEF Memory, Remembered, NothingForgotten
<1> QED BY <1>5, <1>6, <1>7

LEMMA RestartMemory ==
  ASSUME Memory, Restart PROVE TurnOK' /\ KnownOK' /\ Remembered'
<1>1. micro' = <<>> /\ Len(micro') = 0
  BY EmptySeq DEF Restart
<1>2. TurnOK'
  BY <1>1 DEF TurnOK, OneAgent, NoAgent
<1>3. KnownOK'
  BY DEF Restart, KnownOK, Live
<1>4. Remembered'
  BY DEF Restart, Recover, Memory, Remembered, NothingForgotten
<1> QED BY <1>2, <1>3, <1>4

(* What is remembered.                                                       *)
LEMMA RememberedStep ==
  ASSUME Delivery, Delivery', Memory, [Next]_vars PROVE Remembered'
<1> USE DEF engine, pass, history
<1>1. Types /\ Types' /\ Remembered
  BY DEF Delivery, Memory
<1>2. CASE \/ Invoke \/ (\E ts \in SUBSET Tasks : Respond(ts)) \/ AskOrTake \/ Reply
           \/ Cancelled \/ Break \/ Entering \/ UseUp \/ AfterInvocation \/ NextPass
           \/ Return \/ BeforeModelCall \/ Settling \/ Cancels \/ Answered \/ Woken
           \/ UNCHANGED vars
           \/ (\E t \in Tasks : Settle(t) \/ Answer(t) \/ Dispatch(t) \/ CancelTask(t)
                                \/ GiveUp(t))
  <2>1. UNCHANGED <<mirror, acked, delivered, saved>>
    BY EnteringFacts, <1>2
       DEF Invoke, Respond, Request, AskOrTake, Reply, Cancelled, Break, UseUp,
           AfterInvocation, NextPass, Return, BeforeModelCall, Settling, Cancels,
           Cancel, Answered, Woken, vars, Settle, Answer, Dispatch, CancelTask, GiveUp
  <2> QED BY <1>1, <2>1 DEF Remembered, NothingForgotten
<1>3. CASE AppendResults
  <2>1. Recalling
    BY <1>1, <1>3 DEF AppendResults, Recalling, Types
  <2> QED BY <1>1, <2>1, RecallingStep
<1>4. CASE Acknowledge
  <2>1. \A t \in Tasks : Live(t) => mirror[t] # "absent"
    BY <1>4, AgentMemory
  <2> QED BY <1>1, <1>4, <2>1 DEF Acknowledge, Remembered, NothingForgotten
<1>5. CASE Appended
  <2>1. \A t \in taken : delivered[t] > 0
    BY <1>5 DEF Appended, Delivery, DeliveredOK, Forgetting
  <2> QED BY <1>1, <1>5, <2>1 DEF Appended, Forget, Remembered, NothingForgotten
<1>6. CASE Save
  BY <1>1, <1>6 DEF Save, Snapshot, Remembered, NothingForgotten
<1>7. CASE OnTaskUpdated
  BY <1>7, MirrorMemory
<1>8. CASE Restart
  BY <1>8, RestartMemory
<1> QED BY <1>2, <1>3, <1>4, <1>5, <1>6, <1>7, <1>8
        DEF Next, AgentStep, Entering, Cancels

LEMMA MemoryStep ==
  ASSUME BackgroundAssumption, Delivery, Delivery', Memory, [Next]_vars PROVE Memory'
<1>1. AskedOK'
  BY AskedStep DEF Delivery, Memory
<1>2. TurnOK' /\ KnownOK'
  <2>1. Types'
    BY DEF Delivery
  <2>2. CASE \E t \in Tasks : Settle(t) \/ Answer(t) \/ Dispatch(t) \/ CancelTask(t)
                              \/ GiveUp(t)
    BY <2>1, <2>2, EngineMemory
  <2>3. CASE OnTaskUpdated
    BY <2>3, MirrorMemory
  <2>4. CASE Restart
    BY <2>4, RestartMemory
  <2>5. CASE AgentMoves
    BY <2>5, AgentMemory
  <2> QED BY <2>2, <2>3, <2>4, <2>5 DEF Next, AgentStep, AgentMoves, Entering, Cancels
<1> QED BY <1>1, <1>2, RememberedStep DEF Memory

(* A task whose dispatch the model was told of has its result in the history *)
(* or is still known to the plugin, in this process and in every snapshot.   *)
THEOREM NoResultForgotten ==
  ASSUME BackgroundAssumption PROVE Spec => []NothingForgotten
<1>1. Delivery /\ Delivery' /\ Memory /\ [Next]_vars => Memory'
  BY MemoryStep
<1>2. Memory => NothingForgotten
  BY DEF Memory, Remembered
<1> QED BY <1>1, <1>2, MemoryInit, DeliveryInvariant, PTL DEF Spec

LEMMA MemoryInvariant ==
  ASSUME BackgroundAssumption PROVE Spec => [](Delivery /\ Memory)
<1>1. Delivery /\ Delivery' /\ Memory /\ [Next]_vars => Memory'
  BY MemoryStep
<1> QED BY <1>1, MemoryInit, DeliveryInvariant, PTL DEF Spec

-------------------------------------------------------------------------------
(* Nobody is asked again.  Where the plugin, or an update it is yet to see,  *)
(* shows that a task waits for input, the task does wait and nothing else is *)
(* queued about it - or an update follows that the plugin sees before the    *)
(* agent goes on.                                                            *)

LastOf(q, i) == \A j \in 1 .. Len(q) : i < j => q[j].task # q[i].task
Followed(q, i) ==
  \E j, k \in 1 .. Len(q) : i < j /\ j < k /\ q[j].task = q[i].task /\ q[k] = Agent

UpdatesAsk(q, st) ==
  \A i \in 1 .. Len(q) : q[i].view = "input_required" =>
    \/ st[q[i].task] = "input_required" /\ LastOf(q, i)
    \/ Followed(q, i)

MirrorAsks(q, st, m) ==
  \A t \in Tasks : m[t] = "input_required" =>
    \/ st[t] = "input_required" /\ \A j \in 1 .. Len(q) : q[j].task # t
    \/ t \in Ahead(q)

Waits(q, st, m) == UpdatesAsk(q, st) /\ MirrorAsks(q, st, m)

LEMMA AskingMessage ==
  ASSUME BackgroundAssumption, NEW q \in Seq(Message), NEW i \in 1 .. Len(q)
  PROVE  /\ q[i] # Agent => q[i] \in Told /\ q[i].task \in Tasks /\ q[i].task # Agent.task
         /\ q[i].view = "input_required" => q[i] # Agent
<1>1. q[i] \in Message BY ElementOfSeq
<1> QED BY <1>1 DEF Message, Told, Agent, BackgroundAssumption

(* The status of other tasks changes, or a task is forgotten.                *)
LEMMA WaitsKept ==
  ASSUME BackgroundAssumption, NEW q \in Seq(Message), NEW st, NEW m, NEW st2, NEW m2,
         Waits(q, st, m),
         \A t \in Tasks : /\ st[t] = "input_required" => st2[t] = "input_required"
                          /\ m2[t] = "input_required" => m[t] = "input_required"
  PROVE  Waits(q, st2, m2)
<1>1. UpdatesAsk(q, st2) BY AskingMessage DEF Waits, UpdatesAsk
<1>2. MirrorAsks(q, st2, m2) BY DEF Waits, MirrorAsks
<1> QED BY <1>1, <1>2 DEF Waits

(* The agent awaits.                                                         *)
LEMMA WaitsAwait ==
  ASSUME BackgroundAssumption, NEW q \in Seq(Message), NEW st, NEW m, Waits(q, st, m)
  PROVE  Waits(Append(q, Agent), st, m)
<1> DEFINE r == Append(q, Agent)
<1>1. /\ Len(r) = Len(q) + 1 /\ Len(q) \in Nat
      /\ \A i \in 1 .. Len(q) : i \in 1 .. Len(r) /\ r[i] = q[i]
      /\ r[Len(r)] = Agent
      /\ \A i \in 1 .. Len(r) : i \in 1 .. Len(q) \/ i = Len(r)
  BY AppendProperties, LenProperties DEF Message
<1>2. Ahead(q) \subseteq Ahead(r) BY AppendPositions DEF Message
<1> HIDE DEF r
<1>3. ASSUME NEW i \in 1 .. Len(r), r[i].view = "input_required"
      PROVE  \/ st[r[i].task] = "input_required" /\ LastOf(r, i)
             \/ Followed(r, i)
  <2>1. i \in 1 .. Len(q) /\ r[i] = q[i] BY <1>1, <1>3 DEF Agent
  <2>2. CASE st[q[i].task] = "input_required" /\ LastOf(q, i)
    <3>1. q[i].task # Agent.task BY <1>3, <2>1, AskingMessage
    <3> QED BY <1>1, <2>1, <2>2, <3>1 DEF LastOf
  <2>3. CASE Followed(q, i) BY <1>1, <2>1, <2>3 DEF Followed
  <2> QED BY <1>3, <2>1, <2>2, <2>3 DEF Waits, UpdatesAsk
<1>4. ASSUME NEW t \in Tasks, m[t] = "input_required"
      PROVE  \/ st[t] = "input_required" /\ \A j \in 1 .. Len(r) : r[j].task # t
             \/ t \in Ahead(r)
  <2>1. Agent.task # t BY DEF Agent, BackgroundAssumption
  <2> QED BY <1>1, <1>2, <1>4, <2>1 DEF Waits, MirrorAsks
<1> QED BY <1>3, <1>4 DEF Waits, UpdatesAsk, MirrorAsks, r

(* The agent's turn has come.                                                *)
LEMMA WaitsTurn ==
  ASSUME BackgroundAssumption, NEW q \in Seq(Message), NEW st, NEW m, Waits(q, st, m),
         q # <<>>, Head(q) = Agent, OneAgent(q)
  PROVE  Tail(q) \in Seq(Message) /\ Waits(Tail(q), st, m)
<1> DEFINE r == Tail(q)
<1>1. /\ r \in Seq(Message) /\ Len(r) = Len(q) - 1 /\ Len(q) \in Nat \ {0}
      /\ \A i \in 1 .. Len(r) : i + 1 \in 1 .. Len(q) /\ r[i] = q[i + 1]
      /\ q[1] = Agent /\ 1 \in 1 .. Len(q)
  BY HeadTailProperties, EmptySeq, LenProperties
<1>2. Ahead(q) = {} BY TailPositions
<1> HIDE DEF r
<1>3. ASSUME NEW i \in 1 .. Len(r), r[i].view = "input_required"
      PROVE  st[r[i].task] = "input_required" /\ LastOf(r, i)
  <2>1. i + 1 \in 1 .. Len(q) /\ r[i] = q[i + 1] BY <1>1
  <2>2. ~Followed(q, i + 1) BY <1>1, <2>1 DEF Followed, OneAgent
  <2>3. st[q[i + 1].task] = "input_required" /\ LastOf(q, i + 1)
    BY <1>3, <2>1, <2>2 DEF Waits, UpdatesAsk
  <2>4. ASSUME NEW j \in 1 .. Len(r), i < j PROVE r[j].task # r[i].task
    <3>1. j + 1 \in 1 .. Len(q) /\ r[j] = q[j + 1] /\ i + 1 < j + 1 BY <1>1, <2>4
    <3> QED BY <2>1, <2>3, <3>1 DEF LastOf
  <2> QED BY <2>1, <2>3, <2>4 DEF LastOf
<1>4. ASSUME NEW t \in Tasks, m[t] = "input_required"
      PROVE  st[t] = "input_required" /\ \A j \in 1 .. Len(r) : r[j].task # t
  BY <1>1, <1>2, <1>4 DEF Waits, MirrorAsks
<1> QED BY <1>1, <1>3, <1>4 DEF Waits, UpdatesAsk, MirrorAsks, r

(* The plugin sees an update.                                                *)
LEMMA WaitsUpdate ==
  ASSUME BackgroundAssumption, NEW q \in Seq(Message), NEW st, NEW m \in [Tasks -> Views],
         NEW m2, Waits(q, st, m), q # <<>>, Head(q) # Agent,
         m2 = [m EXCEPT ![Head(q).task] = Head(q).view]
  PROVE  Tail(q) \in Seq(Message) /\ Waits(Tail(q), st, m2)
<1> DEFINE r == Tail(q)
           h == Head(q)
<1>1. /\ r \in Seq(Message) /\ Len(r) = Len(q) - 1 /\ Len(q) \in Nat \ {0}
      /\ \A i \in 1 .. Len(r) : i + 1 \in 1 .. Len(q) /\ r[i] = q[i + 1]
      /\ \A i \in 1 .. Len(q) : i = 1 \/ (i - 1 \in 1 .. Len(r) /\ r[i - 1] = q[i])
      /\ q[1] = h /\ 1 \in 1 .. Len(q)
  BY HeadTailProperties, EmptySeq, LenProperties
<1>2. h.task \in Tasks BY <1>1, AskingMessage
<1>3. Ahead(q) \subseteq Ahead(r) \cup {h.task} BY TailPositions
<1> HIDE DEF r, h
<1>4. ASSUME NEW i \in 1 .. Len(r), r[i].view = "input_required"
      PROVE  \/ st[r[i].task] = "input_required" /\ LastOf(r, i)
             \/ Followed(r, i)
  <2>1. i + 1 \in 1 .. Len(q) /\ r[i] = q[i + 1] BY <1>1
  <2>2. CASE st[q[i + 1].task] = "input_required" /\ LastOf(q, i + 1)
    BY <1>1, <2>1, <2>2 DEF LastOf
  <2>3. CASE Followed(q, i + 1)
    <3>1. PICK j, k \in 1 .. Len(q) :
            i + 1 < j /\ j < k /\ q[j].task = q[i + 1].task /\ q[k] = Agent
      BY <2>3 DEF Followed
    <3>2. /\ j - 1 \in 1 .. Len(r) /\ k - 1 \in 1 .. Len(r)
          /\ r[j - 1] = q[j] /\ r[k - 1] = q[k] /\ i < j - 1 /\ j - 1 < k - 1
      BY <1>1, <3>1
    <3> QED BY <2>1, <3>1, <3>2 DEF Followed
  <2> QED BY <1>4, <2>1, <2>2, <2>3 DEF Waits, UpdatesAsk
<1>5. ASSUME NEW t \in Tasks, m2[t] = "input_required"
      PROVE  \/ st[t] = "input_required" /\ \A j \in 1 .. Len(r) : r[j].task # t
             \/ t \in Ahead(r)
  <2>1. CASE t = h.task
    <3>1. q[1].view = "input_required" /\ q[1].task = t
      BY <1>1, <1>5, <2>1 DEF h
    <3>2. CASE st[t] = "input_required" /\ LastOf(q, 1)
      BY <1>1, <3>1, <3>2 DEF LastOf
    <3>3. CASE Followed(q, 1)
      <4>1. PICK j, k \in 1 .. Len(q) : 1 < j /\ j < k /\ q[j].task = t /\ q[k] = Agent
        BY <3>1, <3>3 DEF Followed
      <4>2. /\ j - 1 \in 1 .. Len(r) /\ k - 1 \in 1 .. Len(r)
            /\ r[j - 1] = q[j] /\ r[k - 1] = q[k] /\ j - 1 < k - 1
        BY <1>1, <4>1
      <4>3. q[j] # Agent BY <4>1 DEF Agent, BackgroundAssumption
      <4> QED BY <4>1, <4>2, <4>3 DEF Ahead
    <3> QED BY <1>1, <3>1, <3>2, <3>3 DEF Waits, UpdatesAsk
  <2>2. CASE t # h.task
    <3>1. m[t] = "input_required" BY <1>5, <2>2 DEF h
    <3> QED BY <1>1, <1>3, <2>2, <3>1 DEF Waits, MirrorAsks
  <2> QED BY <2>1, <2>2
<1> QED BY <1>1, <1>4, <1>5 DEF Waits, UpdatesAsk, MirrorAsks, r

(* A tool returns.                                                           *)
LEMMA WaitsSettle ==
  ASSUME BackgroundAssumption, NEW q \in Seq(Message), NEW st, NEW m, Waits(q, st, m),
         NEW u \in Told, NEW st2, st[u.task] # "input_required",
         u.view = "input_required" => st2[u.task] = "input_required",
         \A t \in Tasks \ {u.task} : st2[t] = st[t]
  PROVE  Waits(Append(q, u), st2, m)
<1> DEFINE r == Append(q, u)
<1>1. /\ Len(r) = Len(q) + 1 /\ Len(q) \in Nat
      /\ \A i \in 1 .. Len(q) : i \in 1 .. Len(r) /\ r[i] = q[i]
      /\ r[Len(r)] = u
      /\ \A i \in 1 .. Len(r) : i \in 1 .. Len(q) \/ i = Len(r)
  BY AppendProperties, LenProperties DEF Message
<1>2. Ahead(q) \subseteq Ahead(r) /\ u.task \in Tasks
  BY AppendPositions DEF Message, Told
<1> HIDE DEF r
<1>3. ASSUME NEW i \in 1 .. Len(r), r[i].view = "input_required"
      PROVE  \/ st2[r[i].task] = "input_required" /\ LastOf(r, i)
             \/ Followed(r, i)
  <2>1. CASE i = Len(r)
    BY <1>1, <1>3, <2>1 DEF LastOf
  <2>2. CASE i \in 1 .. Len(q)
    <3>1. r[i] = q[i] /\ q[i].task \in Tasks BY <1>1, <1>3, <2>2, AskingMessage
    <3>2. CASE st[q[i].task] = "input_required" /\ LastOf(q, i)
      BY <1>1, <2>2, <3>1, <3>2 DEF LastOf
    <3>3. CASE Followed(q, i) BY <1>1, <2>2, <3>1, <3>3 DEF Followed
    <3> QED BY <1>3, <2>2, <3>1, <3>2, <3>3 DEF Waits, UpdatesAsk
  <2> QED BY <1>1, <2>1, <2>2
<1>4. ASSUME NEW t \in Tasks, m[t] = "input_required"
      PROVE  \/ st2[t] = "input_required" /\ \A j \in 1 .. Len(r) : r[j].task # t
             \/ t \in Ahead(r)
  BY <1>1, <1>2, <1>4 DEF Waits, MirrorAsks
<1> QED BY <1>3, <1>4 DEF Waits, UpdatesAsk, MirrorAsks, r

(* The engine does what the agent asks for, and the agent awaits it.         *)
LEMMA WaitsCall ==
  ASSUME BackgroundAssumption, NEW q \in Seq(Message), NEW st, NEW m, Waits(q, st, m),
         NEW u \in Told, NEW st2, u.view # "input_required",
         \A t \in Tasks \ {u.task} : st2[t] = st[t]
  PROVE  Waits(Append(Append(q, u), Agent), st2, m)
<1> DEFINE p == Append(q, u)
           r == Append(p, Agent)
<1>1. /\ p \in Seq(Message) /\ Len(p) = Len(q) + 1 /\ Len(q) \in Nat
      /\ \A i \in 1 .. Len(q) : p[i] = q[i]
      /\ p[Len(q) + 1] = u
  BY AppendProperties, LenProperties DEF Message
<1>2. /\ Len(r) = Len(q) + 2
      /\ \A i \in 1 .. Len(p) : r[i] = p[i]
      /\ r[Len(q) + 2] = Agent
  BY <1>1, AppendProperties DEF Message
<1>3. /\ \A i \in 1 .. Len(q) : i \in 1 .. Len(r) /\ r[i] = q[i]
      /\ Len(q) + 1 \in 1 .. Len(r) /\ r[Len(q) + 1] = u
      /\ Len(q) + 2 \in 1 .. Len(r)
      /\ \A i \in 1 .. Len(r) : i \in 1 .. Len(q) \/ i = Len(q) + 1 \/ i = Len(q) + 2
  BY <1>1, <1>2
<1>4. u.task \in Tasks /\ u # Agent /\ u.task # Agent.task
  BY DEF Told, Agent, BackgroundAssumption
<1>5. u.task \in Ahead(r) BY <1>1, <1>2, <1>3, <1>4 DEF Ahead
<1>6. Ahead(q) \subseteq Ahead(r)
  BY <1>3 DEF Ahead
<1> HIDE DEF p, r
<1>7. ASSUME NEW i \in 1 .. Len(r), r[i].view = "input_required"
      PROVE  \/ st2[r[i].task] = "input_required" /\ LastOf(r, i)
             \/ Followed(r, i)
  <2>1. i \in 1 .. Len(q) /\ r[i] = q[i] BY <1>2, <1>3, <1>7 DEF Agent
  <2>2. q[i].task \in Tasks /\ q[i].task # Agent.task BY <1>7, <2>1, AskingMessage
  <2>3. CASE q[i].task = u.task BY <1>1, <1>2, <1>3, <2>1, <2>3 DEF Followed
  <2>4. CASE q[i].task # u.task
    <3>1. CASE st[q[i].task] = "input_required" /\ LastOf(q, i)
      BY <1>2, <1>3, <2>1, <2>2, <2>4, <3>1 DEF LastOf
    <3>2. CASE Followed(q, i) BY <1>3, <2>1, <3>2 DEF Followed
    <3> QED BY <1>7, <2>1, <3>1, <3>2 DEF Waits, UpdatesAsk
  <2> QED BY <2>3, <2>4
<1>8. ASSUME NEW t \in Tasks, m[t] = "input_required"
      PROVE  \/ st2[t] = "input_required" /\ \A j \in 1 .. Len(r) : r[j].task # t
             \/ t \in Ahead(r)
  <2>1. Agent.task # t BY DEF Agent, BackgroundAssumption
  <2> QED BY <1>2, <1>3, <1>5, <1>6, <1>8, <2>1 DEF Waits, MirrorAsks
<1> QED BY <1>7, <1>8 DEF Waits, UpdatesAsk, MirrorAsks, r, p

(* The agent's interrupts are of tasks that the plugin sees waiting, and are *)
(* dropped before the agent goes on.                                         *)
RaisedOK ==
  /\ raised \subseteq Seen("input_required")
  /\ \A t \in saved.raised : saved.mirror[t] = "input_required"
  /\ raised # {} =>
       /\ taken = {}
       /\ pc \in {"idle", "start", "top", "gate", "finished", "ending"}
       /\ pc \in {"start", "top", "gate"} => responses # {}
       /\ pc = "finished" => result \in {"interrupt", "cancelled", "limit", "denied"}
       /\ pc = "ending" => result \in {"interrupt", "denied"} /\ ~resume

WaitsOK == Waits(micro, status, mirror)

Asks == WaitsOK /\ RaisedOK

LEMMA AsksInit == ASSUME Init PROVE Asks
<1>1. micro = <<>> /\ Len(micro) = 0 /\ mirror = [t \in Tasks |-> "absent"]
  BY EmptySeq DEF Init
<1>2. WaitsOK BY <1>1 DEF WaitsOK, Waits, UpdatesAsk, MirrorAsks
<1>3. RaisedOK BY DEF Init, RaisedOK, Snapshot
<1> QED BY <1>2, <1>3 DEF Asks

(* While the agent is interrupted nothing is queued about what it asks for.  *)
LEMMA RaisedWait ==
  ASSUME Memory, Asks, NEW t \in raised, t \in Tasks
  PROVE  /\ status[t] = "input_required"
         /\ \A j \in 1 .. Len(micro) : micro[j].task # t
<1>1. pc \notin Awaiting BY DEF Asks, RaisedOK, Awaiting
<1>2. Ahead(micro) = {} BY <1>1 DEF Memory, TurnOK, NoAgent, Ahead
<1>3. mirror[t] = "input_required" BY DEF Asks, RaisedOK, Seen
<1> QED BY <1>2, <1>3 DEF Asks, WaitsOK, Waits, MirrorAsks

LEMMA WaitsStep ==
  ASSUME BackgroundAssumption, Delivery, Delivery', Memory, Asks, [Next]_vars
  PROVE  WaitsOK'
<1> USE DEF engine, pass, history, WaitsOK
<1>1. micro \in Seq(Message) /\ Waits(micro, status, mirror)
      /\ mirror \in [Tasks -> Views] /\ status \in [Tasks -> Statuses]
  BY DEF Delivery, QueueOK, Types, Asks
<1>2. ASSUME UNCHANGED <<status, micro, mirror>> PROVE WaitsOK'
  BY <1>1, <1>2
<1>3. ASSUME UNCHANGED <<status, mirror>>, Await PROVE WaitsOK'
  BY <1>1, <1>3, WaitsAwait DEF Await
<1>4. ASSUME Turn
      PROVE  Tail(micro) \in Seq(Message) /\ Waits(Tail(micro), status, mirror)
  BY <1>1, <1>4, WaitsTurn DEF Turn, Memory, TurnOK
<1>5. ASSUME NEW t \in Tasks, NEW s \in {"queued", "working", "cancelled"},
             NEW q \in Seq(Message), Waits(q, status, mirror), mirror' = mirror,
             status' = [status EXCEPT ![t] = s],
             micro' = Append(Append(q, Update(t)), Agent)
      PROVE  WaitsOK'
  <2>1. status'[t] = s /\ \A x \in Tasks \ {t} : status'[x] = status[x]
    BY <1>1, <1>5
  <2>2. View(s) \in {"active", "done"}
    BY DEF View, Engine!Terminal
  <2>3. Update(t) \in Told /\ Update(t).task = t /\ Update(t).view # "input_required"
    BY <2>1, <2>2 DEF Update, Told
  <2>4. Waits(Append(Append(q, Update(t)), Agent), status', mirror)
    <3> HIDE DEF WaitsOK
    <3> QED BY <1>5, <2>1, <2>3, WaitsCall
  <2> QED BY <1>5, <2>4
<1>6. CASE \/ Invoke \/ (\E ts \in SUBSET Tasks : Respond(ts)) \/ AskOrTake \/ Reply
           \/ Cancelled \/ Break \/ Entering \/ UseUp \/ AfterInvocation \/ NextPass
           \/ Return \/ Save
           \/ UNCHANGED vars
  BY EnteringFacts, <1>2, <1>6
     DEF Invoke, Respond, Request, AskOrTake, Reply, Cancelled, Break, UseUp,
         AfterInvocation, NextPass, Return, Save, vars
<1>7. CASE BeforeModelCall \/ Settling \/ Cancels \/ AppendResults
  BY <1>2, <1>3, <1>7
     DEF BeforeModelCall, Settling, Cancels, Cancel, WakeOnCancel, AppendResults
<1>8. CASE Answered \/ Woken \/ Acknowledge
  BY <1>4, <1>8 DEF Answered, Woken, Acknowledge
<1>9. CASE Appended
  <2>1. Waits(Tail(micro), status, mirror) /\ Tail(micro) \in Seq(Message)
    BY <1>4, <1>9 DEF Appended
  <2>2. \A t \in taken : mirror[t] = "done" /\ status[t] # "input_required"
    BY DEF Delivery, DeliveredOK, MirrorOK, Ended, Seen, Engine!Terminal
  <2>3. \A t \in Tasks : /\ status[t] = "input_required" => status'[t] = "input_required"
                         /\ mirror'[t] = "input_required" => mirror[t] = "input_required"
    BY <1>9, <2>2 DEF Appended, Forget
  <2>4. Waits(Tail(micro), status', mirror') BY <2>1, <2>3, WaitsKept
  <2> QED BY <1>9, <2>4 DEF Appended
<1>10. ASSUME NEW t \in Tasks, Settle(t) PROVE WaitsOK'
  <2>1. PICK s \in {"completed", "input_required"} :
          status[t] = "working" /\ status' = [status EXCEPT ![t] = s]
    BY <1>10 DEF Settle, Engine!Stop
  <2>2. status'[t] = s /\ \A x \in Tasks \ {t} : status'[x] = status[x]
    BY <1>1, <2>1
  <2>3. View(s) = IF s = "completed" THEN "done" ELSE "input_required"
    BY DEF View, Engine!Terminal
  <2>4. /\ Update(t) \in Told /\ Update(t).task = t
        /\ Update(t).view = "input_required" => status'[t] = "input_required"
    BY <2>2, <2>3 DEF Update, Told
  <2>5. Waits(Append(micro, Update(t)), status', mirror)
    BY <1>1, <2>1, <2>2, <2>4, WaitsSettle
  <2> QED BY <1>10, <2>5 DEF Settle, Notify
<1>11. ASSUME NEW t \in Tasks, GiveUp(t) PROVE WaitsOK'
  <2>1. /\ UNCHANGED <<micro, mirror>>
        /\ \A x \in Tasks : status[x] = "input_required" => status'[x] = "input_required"
    BY <1>1, <1>11 DEF GiveUp, Engine!Release, Engine!HandOver, Engine!Startable
  <2>2. Waits(micro, status', mirror) BY <1>1, <2>1, WaitsKept
  <2> QED BY <2>1, <2>2
<1>12. ASSUME NEW t \in Tasks, Answer(t) PROVE WaitsOK'
  BY <1>4, <1>5, <1>12 DEF Answer, Submit, Engine!Enter, Engine!Queue
<1>13. ASSUME NEW t \in Tasks, Dispatch(t) PROVE WaitsOK'
  BY <1>1, <1>5, <1>13 DEF Dispatch, NotifyAndAwait, Submit, Engine!Enter, Engine!Queue
<1>14. ASSUME NEW t \in Tasks, CancelTask(t) PROVE WaitsOK'
  <2>1. CASE status[t] \in Engine!Terminal
    BY <1>3, <1>14, <2>1 DEF CancelTask
  <2>2. CASE status[t] \notin Engine!Terminal
    BY <1>1, <1>5, <1>14, <2>2
       DEF CancelTask, NotifyAndAwait, Engine!Stop, Engine!Withdraw
  <2> QED BY <2>1, <2>2
<1>15. CASE OnTaskUpdated
  <2>1. /\ micro # <<>> /\ Head(micro) # Agent /\ status' = status
        /\ mirror' = [mirror EXCEPT ![Head(micro).task] = Head(micro).view]
        /\ micro' = Tail(micro) \/ micro' = Append(Tail(micro), Agent)
    BY <1>15 DEF OnTaskUpdated
  <2>2. Tail(micro) \in Seq(Message) /\ Waits(Tail(micro), status, mirror')
    BY <1>1, <2>1, WaitsUpdate
  <2> QED BY <2>1, <2>2, WaitsAwait
<1>16. CASE Restart
  <2>1. micro' = <<>> /\ Len(micro') = 0 /\ \A t \in Tasks : mirror'[t] # "input_required"
    BY <1>16, EmptySeq DEF Restart, Recover
  <2> QED BY <2>1 DEF Waits, UpdatesAsk, MirrorAsks
<1> QED BY <1>6, <1>7, <1>8, <1>9, <1>10, <1>11, <1>12, <1>13, <1>14, <1>15, <1>16
        DEF Next, AgentStep, Entering, Cancels

LEMMA RaisedStep ==
  ASSUME BackgroundAssumption, Delivery, Memory, Asks, [Next]_vars
  PROVE  RaisedOK'
<1> USE DEF engine, pass, history
<1>1. RaisedOK /\ mirror \in [Tasks -> Views]
  BY DEF Asks, Delivery, Types
<1>2. ASSUME NEW t \in raised
      PROVE  /\ t \in Tasks /\ mirror[t] = "input_required" /\ status[t] = "input_required"
             /\ \A j \in 1 .. Len(micro) : micro[j].task # t
  BY <1>1, <1>2, RaisedWait DEF RaisedOK, Seen
(* Where nobody is interrupted and nobody becomes so.                        *)
<1>3. ASSUME raised = {}, raised' = {}, UNCHANGED saved PROVE RaisedOK'
  BY <1>1, <1>3 DEF RaisedOK
(* Where nothing is raised or dropped, nothing seen or saved.                *)
<1>4. ASSUME UNCHANGED <<raised, mirror, saved>>,
             \/ UNCHANGED <<pc, responses, result, resume, taken>>
             \/ raised = {}
      PROVE  RaisedOK'
  BY <1>1, <1>4 DEF RaisedOK, Seen
<1>5. CASE \/ Answered \/ AppendResults \/ Reply \/ Acknowledge \/ Settling \/ Woken
           \/ Invoke
  <2>1. UNCHANGED <<raised, mirror, saved>> /\ raised = {}
    BY <1>1, <1>5
       DEF Answered, AppendResults, Reply, Acknowledge, Settling, Woken, Invoke,
           RaisedOK, interrupts
  <2> QED BY <1>4, <2>1
<1>6. ASSUME NEW t \in Tasks, Settle(t) \/ GiveUp(t) \/ Answer(t) PROVE RaisedOK'
  BY <1>4, <1>6 DEF Settle, GiveUp, Answer, interrupts
<1>7. ASSUME NEW t \in Tasks, Dispatch(t) \/ CancelTask(t) PROVE RaisedOK'
  BY <1>1, <1>4, <1>7 DEF Dispatch, CancelTask, interrupts, RaisedOK
<1>8. CASE Cancels
  <2>1. UNCHANGED <<raised, responses, mirror, saved, result, resume, taken>>
        /\ (pc' = pc \/ pc = "waiting")
    BY <1>8 DEF Cancels, Cancel, WakeOnCancel, interrupts
  <2> QED BY <1>1, <1>4, <2>1 DEF RaisedOK
<1>9. ASSUME NEW ts \in SUBSET Tasks, Respond(ts) PROVE RaisedOK'
  BY <1>1, <1>9 DEF Respond, Request, RaisedOK, Seen
<1>10. CASE BeforeModelCall
  <2>1. CASE responses = {}
    BY <1>1, <1>4, <1>10, <2>1 DEF BeforeModelCall, RaisedOK, interrupts
  <2>2. CASE responses # {}
    <3>1. \A t \in raised : status[t] = "input_required" BY <1>2
    <3> QED BY <1>1, <1>10, <2>2, <3>1 DEF BeforeModelCall, RaisedOK
  <2> QED BY <2>1, <2>2
<1>11. CASE AskOrTake
  <2>1. raised = {} BY <1>1, <1>11 DEF AskOrTake, RaisedOK
  <2> QED BY <1>1, <1>11, <2>1 DEF AskOrTake, EndPass, RaisedOK, Seen
<1>12. CASE Appended
  <2>1. raised = {} /\ raised' = {} /\ UNCHANGED saved
    BY <1>1, <1>12 DEF Appended, interrupts, RaisedOK
  <2> QED BY <1>3, <2>1
<1>13. CASE Cancelled
  BY <1>1, <1>13 DEF Cancelled, EndPass, interrupts, RaisedOK, Seen
<1>14. CASE AfterInvocation
  BY <1>1, <1>14 DEF AfterInvocation, interrupts, RaisedOK, Seen
<1>15. CASE NextPass
  BY <1>1, <1>14, <1>15 DEF NextPass, LastPass, Another, interrupts, RaisedOK, Seen
<1>16. CASE Return
  BY <1>1, <1>16 DEF Return, interrupts, RaisedOK, Seen
<1>17. CASE Save
  <2>1. UNCHANGED <<raised, responses, mirror, pc, result, resume, taken>>
        /\ saved'.raised = raised /\ saved'.mirror = mirror
    BY <1>17 DEF Save, Snapshot, interrupts
  <2> QED BY <1>1, <2>1 DEF RaisedOK, Seen
<1>18. CASE OnTaskUpdated
  <2>1. /\ UNCHANGED <<raised, responses, saved, result, resume, taken>>
        /\ mirror' = [mirror EXCEPT ![Head(micro).task] = Head(micro).view]
        /\ micro # <<>> /\ (pc' = pc \/ pc = "waiting")
    BY <1>18 DEF OnTaskUpdated, Wakes, interrupts
  <2>2. Head(micro) = micro[1] /\ 1 \in 1 .. Len(micro)
    BY <2>1, HeadTailProperties, EmptySeq, LenProperties DEF Delivery, QueueOK
  <2>3. ASSUME NEW t \in raised PROVE t \in Tasks /\ mirror'[t] = "input_required"
    <3>1. t # Head(micro).task BY <1>2, <2>2, <2>3
    <3> QED BY <1>1, <1>2, <2>1, <3>1
  <2> QED BY <1>1, <2>1, <2>3 DEF RaisedOK, Seen
<1>19. CASE Restart
  BY <1>1, <1>19 DEF Restart, RaisedOK, Seen
<1>20. CASE UNCHANGED vars \/ UseUp
  BY <1>4, <1>20 DEF vars, UseUp, interrupts
<1>21. CASE Break
  BY <1>1, <1>21 DEF Break, EndPass, interrupts, RaisedOK, Seen
<1>22. CASE Entering
  BY <1>1, <1>22, EnteringFacts DEF interrupts, RaisedOK, Seen
<1> QED BY <1>5, <1>6, <1>7, <1>8, <1>9, <1>10, <1>11, <1>12, <1>13, <1>14, <1>15, <1>16,
           <1>17, <1>18, <1>19, <1>20, <1>21, <1>22 DEF Next, AgentStep, Entering, Cancels

LEMMA AsksInvariant ==
  ASSUME BackgroundAssumption PROVE Spec => [](Delivery /\ Memory /\ Asks)
<1>1. Delivery /\ Delivery' /\ Memory /\ Asks /\ [Next]_vars => Asks'
  BY WaitsStep, RaisedStep DEF Asks
<1> QED BY <1>1, AsksInit, MemoryInvariant, PTL DEF Spec

(* The tasks for which the agent is interrupted do wait for input: nobody is *)
(* asked again for what has been answered or has ended meanwhile.            *)
THEOREM OnlyTheWaitingAsk ==
  ASSUME BackgroundAssumption PROVE Spec => []AskedWhileWaiting
<1>1. Memory /\ Asks => AskedWhileWaiting
  BY RaisedWait DEF Asks, RaisedOK, Seen, AskedWhileWaiting
<1> QED BY <1>1, AsksInvariant, PTL

-------------------------------------------------------------------------------
(* Nothing is owed.  An invocation that is not cancelled waits until the     *)
(* mirror shows no task active, carries what it shows done into another      *)
(* pass, and asks for another one while it shows a task waiting for input,   *)
(* which is refused only at a limit.                                         *)

Ending == pc = "idle" \/ (pc = "ending" /\ ~resume /\ taken = {})

PaidOK ==
  /\ pc = "ending" /\ resume => Seen("input_required") # {}
  /\ WaitForCompletion /\ cancel = "no" /\ result = "endTurn" /\ Ending =>
       \/ \A t \in Tasks : mirror[t] = "absent"
       \/ limit /\ Seen("input_required") # {}

LEMMA PaidStep ==
  ASSUME BackgroundAssumption, Delivery, Memory, Asks, PaidOK, [Next]_vars
  PROVE  PaidOK'
<1> USE DEF engine, pass, history
<1>1. mirror \in [Tasks -> Views] BY DEF Delivery, Types
<1>2. ASSUME pc' \notin {"idle", "ending"} PROVE PaidOK'
  BY <1>2 DEF PaidOK, Ending
<1>3. ASSUME UNCHANGED <<mirror, cancel, result, pc, resume, taken>>, limit => limit'
      PROVE  PaidOK'
  BY <1>3 DEF PaidOK, Ending, Seen
<1>4. CASE \/ Invoke \/ (\E ts \in SUBSET Tasks : Respond(ts)) \/ BeforeModelCall
           \/ Answered \/ AskOrTake \/ AppendResults \/ Appended \/ Reply \/ Acknowledge
           \/ Cancelled \/ Entering \/ Woken \/ NextPass
           \/ (\E t \in Tasks : Answer(t) \/ Dispatch(t) \/ CancelTask(t))
  BY <1>2, <1>4, EnteringFacts
     DEF Invoke, Respond, Request, BeforeModelCall, Answered, AskOrTake, AppendResults,
         Appended, Reply, Acknowledge, Cancelled, Woken, NextPass, EndPass, Answer,
         Dispatch, CancelTask
<1>5. CASE Save \/ UseUp \/ UNCHANGED vars \/ (\E t \in Tasks : Settle(t) \/ GiveUp(t))
  BY <1>3, <1>5 DEF Save, UseUp, vars, Settle, GiveUp
<1>6. CASE AfterInvocation
  BY <1>6 DEF AfterInvocation, PaidOK, Ending
<1>7. CASE Settling
  <2>1. CASE MustWait BY <1>2, <1>7, <2>1 DEF Settling
  <2>2. CASE ~MustWait
    <3>1. pc' = "ending" /\ Decide /\ UNCHANGED <<mirror, cancel>>
      BY <1>7, <2>2 DEF Settling
    <3>2. ASSUME WaitForCompletion, cancel = "no", ~resume', taken' = {}, NEW t \in Tasks
          PROVE  mirror[t] = "absent"
      <4>1. Seen("input_required") = {} /\ Seen("done") = {}
        BY <3>1, <3>2 DEF Decide
      <4>2. Seen("active") = {} BY <2>2, <3>2, <4>1 DEF MustWait
      <4> QED BY <1>1, <4>1, <4>2 DEF Seen, Views
    <3>3. resume' => Seen("input_required")' # {}
      BY <3>1 DEF Decide, Seen
    <3> QED BY <3>1, <3>2, <3>3 DEF PaidOK, Ending
  <2> QED BY <2>1, <2>2
<1>8. CASE Return
  <2>1. /\ pc = "ending" /\ pc' = "idle" /\ UNCHANGED <<mirror, result, cancel, limit>>
        /\ result = "endTurn" => (limit \/ ~resume) /\ taken = {}
    BY <1>8 DEF Return, LastPass, Another
  <2>2. resume => Seen("input_required") # {}
    BY <2>1 DEF PaidOK
  <2> QED BY <2>1, <2>2 DEF PaidOK, Ending, Seen
<1>9. CASE Cancels
  <2>1. cancel' # "no" /\ UNCHANGED <<mirror, resume>> /\ (pc' = pc \/ pc' = "woken")
    BY <1>9 DEF Cancels, Cancel, WakeOnCancel
  <2> QED BY <2>1 DEF PaidOK, Seen
<1>10. CASE OnTaskUpdated
  <2>1. /\ UNCHANGED <<cancel, limit, result, resume, taken>>
        /\ micro # <<>> /\ Head(micro) # Agent
        /\ mirror' = [mirror EXCEPT ![Head(micro).task] = Head(micro).view]
        /\ pc' = pc \/ pc' = "woken"
    BY <1>10 DEF OnTaskUpdated
  <2>2. Head(micro) \in Updates(micro) /\ Head(micro).task \in Tasks
    BY <2>1, TailQueue DEF Delivery, Told
  <2>3. Live(Head(micro).task) BY <2>2 DEF Delivery, UpdatesOK
  <2>4. mirror[Head(micro).task] # "absent" \/ pc = "tools"
    BY <2>2, <2>3 DEF Memory, KnownOK, Known
  <2>5. ASSUME pc \in {"idle", "ending"}, NEW t \in Tasks, mirror[t] = "input_required"
        PROVE  mirror'[t] = "input_required"
    <3>1. Ahead(micro) = {}
      BY <2>5 DEF Memory, TurnOK, NoAgent, Awaiting, Ahead
    <3>2. \A j \in 1 .. Len(micro) : micro[j].task # t
      BY <2>5, <3>1 DEF Asks, WaitsOK, Waits, MirrorAsks
    <3>3. Head(micro) = micro[1] /\ 1 \in 1 .. Len(micro)
      BY <2>1, HeadTailProperties, EmptySeq, LenProperties DEF Delivery, QueueOK
    <3> QED BY <1>1, <2>1, <2>5, <3>2, <3>3
  <2>6. pc \in {"idle", "ending"} /\ Seen("input_required") # {} =>
          Seen("input_required")' # {}
    BY <2>5 DEF Seen
  <2> QED BY <2>1, <2>2, <2>4, <2>6 DEF PaidOK, Ending
<1>11. CASE Restart
  BY <1>11 DEF Restart, PaidOK
<1>12. CASE Break
  BY <1>2, <1>12 DEF Break, EndPass, PaidOK
<1> QED BY <1>4, <1>5, <1>6, <1>7, <1>8, <1>9, <1>10, <1>11, <1>12
        DEF Next, AgentStep, Entering, Cancels

(* An invocation that ends its turn, uncancelled, owes nothing: every task   *)
(* has ended and its result is in the history.  The exceptions are those of  *)
(* the code: the pass that a BeforeInvocation hook denied (its result is     *)
(* "denied" here), and a limit that is reached while a task waits for input. *)
THEOREM NothingIsOwed ==
  ASSUME BackgroundAssumption PROVE Spec => []NothingOwedAtEnd
<1>1. Init => PaidOK
  BY DEF Init, PaidOK
<1>2. Delivery /\ Memory /\ Asks /\ PaidOK /\ [Next]_vars => PaidOK'
  BY PaidStep
<1>3. Delivery /\ Memory /\ PaidOK => NothingOwedAtEnd
  <2> SUFFICES ASSUME Delivery, Memory, PaidOK, WaitForCompletion, pc = "idle",
                      result = "endTurn", cancel = "no",
                      ~(limit /\ Seen("input_required") # {}), NEW t \in Tasks
               PROVE  mirror[t] = "absent" /\ status[t] \in {"unsubmitted", "removed"}
    BY DEF NothingOwedAtEnd
  <2>1. mirror[t] = "absent" BY DEF PaidOK, Ending
  <2>2. ~Live(t) BY <2>1 DEF Memory, KnownOK, Known
  <2> QED BY <2>1, <2>2 DEF Live
<1> QED BY <1>1, <1>2, <1>3, AsksInvariant, PTL DEF Spec

-------------------------------------------------------------------------------
(* The types of the rest of the state.                                       *)

Rest ==
  /\ IsFiniteSet(occupied) /\ occupied \subseteq Tasks
  /\ Cardinality(occupied) <= MaxConcurrency
  /\ pc \in {"idle", "start", "top", "gate", "answering", "reading", "append",
             "appended", "carry", "carried", "model", "tools", "finished", "settling",
             "waiting", "woken", "ending"}
  /\ result \in {"none", "endTurn", "interrupt", "cancelled", "limit", "denied", "broken"}
  /\ cancel \in {"no", "agent", "caller"} /\ limit \in BOOLEAN /\ resume \in BOOLEAN
  /\ asked \subseteq Tasks /\ responses \subseteq Tasks

LEMMA RestInit == ASSUME BackgroundAssumption, Init PROVE Rest
<1>1. occupied = {} /\ IsFiniteSet(occupied) /\ Cardinality(occupied) = 0
  BY FS_EmptySet DEF Init, Engine!Init
<1>2. Cardinality(occupied) <= MaxConcurrency
  BY <1>1 DEF BackgroundAssumption
<1>3. occupied \subseteq Tasks /\ asked \subseteq Tasks /\ responses \subseteq Tasks
  BY <1>1 DEF Init
<1> QED BY <1>1, <1>2, <1>3 DEF Init, Rest

LEMMA EngineCardinality == \A S : Engine!Cardinality(S) = Cardinality(S)
BY DEF Engine!Cardinality, Cardinality

(* A slot is taken only if there is one, and handed over one for one.        *)
LEMMA OccupiedStep ==
  ASSUME BackgroundAssumption, Rest,
         \/ UNCHANGED occupied
         \/ occupied' = {}
         \/ \E t \in Tasks : \/ Submit(t) \/ Engine!Release(t)
                             \/ \E u \in Tasks : Engine!HandOver(t, u)
  PROVE  /\ IsFiniteSet(occupied') /\ occupied' \subseteq Tasks
         /\ Cardinality(occupied') <= MaxConcurrency
<1>1. /\ IsFiniteSet(occupied) /\ occupied \subseteq Tasks /\ Cardinality(occupied) \in Nat
      /\ Cardinality(occupied) <= MaxConcurrency /\ MaxConcurrency \in Nat \ {0}
  BY FS_CardinalityType DEF Rest, BackgroundAssumption
<1>2. CASE UNCHANGED occupied BY <1>1, <1>2
<1>3. CASE occupied' = {} BY <1>1, <1>3, FS_EmptySet
<1>4. ASSUME NEW t \in Tasks, Engine!Enter(t)
      PROVE  /\ IsFiniteSet(occupied') /\ occupied' \subseteq Tasks
             /\ Cardinality(occupied') <= MaxConcurrency
  <2>1. occupied' = occupied \cup {t} /\ Cardinality(occupied) < MaxConcurrency /\ t \notin occupied
    BY <1>4, EngineCardinality DEF Engine!Enter
  <2>2. IsFiniteSet(occupied') /\ Cardinality(occupied') = Cardinality(occupied) + 1
    BY <1>1, <2>1, FS_AddElement
  <2> QED BY <1>1, <2>1, <2>2
<1>5. ASSUME NEW t \in Tasks, t \in occupied
      PROVE  /\ IsFiniteSet(occupied \ {t}) /\ occupied \ {t} \subseteq Tasks
             /\ Cardinality(occupied \ {t}) = Cardinality(occupied) - 1
  BY <1>1, <1>5, FS_RemoveElement
<1>6. ASSUME NEW t \in Tasks, Engine!Release(t)
      PROVE  /\ IsFiniteSet(occupied') /\ occupied' \subseteq Tasks
             /\ Cardinality(occupied') <= MaxConcurrency
  <2>1. t \in occupied /\ occupied' = occupied \ {t} BY <1>6 DEF Engine!Release
  <2> QED BY <1>1, <1>5, <2>1
<1>7. ASSUME NEW t \in Tasks, NEW u \in Tasks, Engine!HandOver(t, u)
      PROVE  /\ IsFiniteSet(occupied') /\ occupied' \subseteq Tasks
             /\ Cardinality(occupied') <= MaxConcurrency
  <2>1. t \in occupied /\ u \notin occupied \ {t} /\ occupied' = (occupied \ {t}) \cup {u}
    BY <1>7 DEF Engine!HandOver, Engine!Startable
  <2>2. IsFiniteSet(occupied') /\ Cardinality(occupied') = Cardinality(occupied \ {t}) + 1
    BY <1>5, <2>1, FS_AddElement
  <2> QED BY <1>1, <1>5, <2>1, <2>2
<1>8. ASSUME NEW t \in Tasks, Engine!Queue(t) PROVE UNCHANGED occupied
  BY <1>8 DEF Engine!Queue
<1> QED BY <1>2, <1>3, <1>4, <1>6, <1>7, <1>8 DEF Submit

LEMMA RestStep ==
  ASSUME BackgroundAssumption, Delivery, Asks, Rest, [Next]_vars
  PROVE  Rest'
<1> USE DEF engine, pass, history, interrupts
<1>1. raised \subseteq Tasks BY DEF Asks, RaisedOK, Seen
<1>2. ASSUME UNCHANGED occupied PROVE
        /\ IsFiniteSet(occupied') /\ occupied' \subseteq Tasks
        /\ Cardinality(occupied') <= MaxConcurrency
  BY <1>2, OccupiedStep
<1>3. CASE \/ Invoke \/ (\E ts \in SUBSET Tasks : Respond(ts)) \/ BeforeModelCall
           \/ Answered \/ AskOrTake \/ AppendResults \/ Appended \/ Reply \/ Acknowledge
  <2>1. CASE Invoke \/ \E ts \in SUBSET Tasks : Respond(ts)
    BY <1>1, <1>2, <2>1 DEF Invoke, Respond, Request, Rest
  <2>2. CASE BeforeModelCall
    BY <1>1, <1>2, <2>2 DEF BeforeModelCall, Rest
  <2>3. CASE Answered \/ AskOrTake \/ Reply
    BY <1>1, <1>2, <2>3 DEF Answered, AskOrTake, Reply, EndPass, Rest
  <2>4. CASE AppendResults \/ Appended \/ Acknowledge
    BY <1>1, <1>2, <2>4 DEF AppendResults, Appended, Acknowledge, EndPass, Rest
  <2> QED BY <1>3, <2>1, <2>2, <2>3, <2>4
<1>4. CASE \/ Cancelled \/ Break \/ Entering \/ UseUp \/ Woken \/ NextPass
           \/ AfterInvocation \/ Settling \/ Return \/ Cancels \/ Save \/ UNCHANGED vars \/ OnTaskUpdated
  <2>1. CASE Cancelled \/ Break \/ Entering
    BY EnteringFacts, <1>1, <1>2, <2>1 DEF Cancelled, Break, EndPass, Rest
  <2>7. CASE UseUp \/ Woken \/ NextPass
    BY <1>1, <1>2, <2>7 DEF UseUp, Woken, NextPass, Rest
  <2>2. CASE AfterInvocation \/ Return
    BY <1>1, <1>2, <2>2 DEF AfterInvocation, Return, Rest
  <2>3. CASE Settling
    BY <1>1, <1>2, <2>3 DEF Settling, Decide, Rest
  <2>4. CASE Cancels
    BY <1>1, <1>2, <2>4 DEF Cancels, Cancel, WakeOnCancel, Rest
  <2>5. CASE Save \/ UNCHANGED vars
    BY <1>1, <1>2, <2>5 DEF Save, vars, Rest
  <2>6. CASE OnTaskUpdated
    BY <1>1, <1>2, <2>6 DEF OnTaskUpdated, Rest
  <2> QED BY <1>4, <2>1, <2>2, <2>3, <2>4, <2>5, <2>6, <2>7
<1>5. ASSUME NEW t \in Tasks, Settle(t) \/ CancelTask(t) PROVE Rest'
  BY <1>2, <1>5 DEF Settle, CancelTask, Engine!Stop, Engine!Withdraw, Rest
<1>6. ASSUME NEW t \in Tasks, GiveUp(t) \/ Answer(t) \/ Dispatch(t) PROVE Rest'
  <2>1. /\ IsFiniteSet(occupied') /\ occupied' \subseteq Tasks
        /\ Cardinality(occupied') <= MaxConcurrency
    BY <1>6, OccupiedStep DEF GiveUp, Answer, Dispatch
  <2> QED BY <1>6, <2>1 DEF GiveUp, Answer, Dispatch, Rest
<1>7. CASE Restart
  <2>1. occupied' = {} BY <1>7 DEF Restart
  <2> QED BY <1>7, <2>1, OccupiedStep DEF Restart, Rest
<1> QED BY <1>3, <1>4, <1>5, <1>6, <1>7 DEF Next, AgentStep, Entering, Cancels

(* The state has its types: in particular no more than MaxConcurrency slots  *)
(* are taken, and what is queued tells the plugin of tasks only.             *)
THEOREM TypeCorrect ==
  ASSUME BackgroundAssumption PROVE Spec => []TypeOK
<1>1. Delivery /\ Asks /\ Rest /\ [Next]_vars => Rest'
  BY RestStep
<1>2. Delivery /\ Memory /\ Asks /\ Rest => TypeOK
  <2> SUFFICES ASSUME Delivery, Memory, Asks, Rest PROVE TypeOK
    OBVIOUS
  <2>1. \A i \in DOMAIN micro :
          micro[i] = Agent \/ micro[i] \in [task : Tasks, view : Views \ {"absent"}]
    <3>1. DOMAIN micro = 1 .. Len(micro) BY LenProperties DEF Delivery, QueueOK
    <3>2. Views \ {"absent"} = {"active", "input_required", "done"} BY DEF Views
    <3> QED BY <3>1, <3>2, ElementOfSeq DEF Delivery, QueueOK, Message, Told
  <2>2. delivered \in [Tasks -> 0 .. 2]
    BY DEF Delivery, Types, DeliveredOK
  <2>3. raised \subseteq Tasks BY DEF Asks, RaisedOK, Seen
  <2> QED BY <2>1, <2>2, <2>3
          DEF TypeOK, Delivery, Types, Statuses, Memory, Remembered, Rest
<1> QED BY <1>1, <1>2, RestInit, AsksInvariant, PTL DEF Spec

-------------------------------------------------------------------------------
(* Somebody wakes the agent.  What the plugin does not see of a task is the  *)
(* last that the queue says of it; a task that is active has a slot or waits *)
(* for one that is taken; and an agent that awaits has its turn queued.      *)

Informs(q, v, t) ==
  \E i \in 1 .. Len(q) : q[i].task = t /\ q[i].view = v /\ LastOf(q, i)

Informed(q, st, m) ==
  \A t \in Tasks : st[t] \notin {"unsubmitted", "removed"} =>
    \/ m[t] = View(st[t]) /\ \A i \in 1 .. Len(q) : q[i].task # t
    \/ Informs(q, View(st[t]), t)

Slotted(st, taking) ==
  /\ \A t \in Tasks : st[t] = "working" => t \in taking
  /\ \A t \in Tasks : st[t] = "queued" /\ t \notin taking =>
                        Cardinality(taking) = MaxConcurrency

Wakeful ==
  /\ pc = "waiting" => cancel = "no" /\ Seen("active") # {}
  /\ pc \in Awaiting => \E i \in 1 .. Len(micro) : micro[i] = Agent

Woke == Informed(micro, status, mirror) /\ Slotted(status, occupied) /\ Wakeful

(* Whoever awaits its turn gets it.  The plugin waits only while it sees a   *)
(* task active, and of each of these an update is queued that wakes it, or   *)
(* the task is active and a slot is taken, so that a tool runs or has yet to *)
(* give up its slot.                                                         *)
SomeoneWakes ==
  /\ pc \in Awaiting => \E i \in 1 .. Len(micro) : micro[i] = Agent
  /\ pc = "waiting" =>
       /\ Seen("active") # {}
       /\ \A t \in Seen("active") :
            \/ \E i \in 1 .. Len(micro) :
                 micro[i].task = t /\ micro[i].view \in {"done", "input_required"}
            \/ status[t] \in {"queued", "working"} /\ occupied # {}

LEMMA WokeInit == ASSUME BackgroundAssumption, Init PROVE Woke
<1>1. micro = <<>> /\ Len(micro) = 0
  BY EmptySeq DEF Init
<1>2. \A t \in Tasks : status[t] = "unsubmitted"
  BY DEF Init, Engine!Init
<1> QED BY <1>1, <1>2 DEF Init, Woke, Informed, Slotted, Wakeful, Awaiting

(* The queue and the statuses after each kind of step.                       *)
LEMMA InformedKept ==
  ASSUME NEW q, NEW st, NEW m, NEW st2, NEW m2, Informed(q, st, m),
         \A t \in Tasks : st2[t] \notin {"unsubmitted", "removed"} =>
           /\ st[t] \notin {"unsubmitted", "removed"}
           /\ View(st2[t]) = View(st[t]) /\ m2[t] = m[t]
  PROVE  Informed(q, st2, m2)
BY DEF Informed

LEMMA InformedAwait ==
  ASSUME BackgroundAssumption, NEW q \in Seq(Message), NEW st, NEW m, Informed(q, st, m)
  PROVE  Informed(Append(q, Agent), st, m)
<1> DEFINE r == Append(q, Agent)
<1>1. /\ \A i \in 1 .. Len(q) : i \in 1 .. Len(r) /\ r[i] = q[i]
      /\ \A i \in 1 .. Len(r) : i \in 1 .. Len(q) \/ r[i] = Agent
  <2>1. Len(r) = Len(q) + 1 /\ Len(q) \in Nat /\ r[Len(q) + 1] = Agent
        /\ \A i \in 1 .. Len(q) : r[i] = q[i]
    BY AppendProperties, LenProperties DEF Message
  <2> QED BY <2>1
<1> HIDE DEF r
<1>2. \A t \in Tasks : Agent.task # t
  BY DEF Agent, BackgroundAssumption
<1>3. ASSUME NEW t \in Tasks, \A i \in 1 .. Len(q) : q[i].task # t
      PROVE  \A i \in 1 .. Len(r) : r[i].task # t
  BY <1>1, <1>2, <1>3
<1>4. ASSUME NEW t \in Tasks, NEW v, Informs(q, v, t) PROVE Informs(r, v, t)
  <2>1. PICK i \in 1 .. Len(q) : q[i].task = t /\ q[i].view = v /\ LastOf(q, i)
    BY <1>4 DEF Informs
  <2>2. LastOf(r, i)
    BY <1>1, <1>2, <2>1 DEF LastOf
  <2> QED BY <1>1, <2>1, <2>2 DEF Informs
<1> QED BY <1>3, <1>4 DEF Informed, r

(* The first microtask is the agent's turn, or what the plugin sees.         *)
LEMMA InformedTail ==
  ASSUME BackgroundAssumption, NEW q \in Seq(Message), q # <<>>,
         NEW st, NEW m \in [Tasks -> Views], NEW m2, Informed(q, st, m),
         m2 = IF Head(q) = Agent THEN m ELSE [m EXCEPT ![Head(q).task] = Head(q).view]
  PROVE  Informed(Tail(q), st, m2)
<1> DEFINE r == Tail(q)
<1>1. /\ Len(q) \in Nat /\ Len(r) \in Nat /\ q[1] = Head(q) /\ 1 \in 1 .. Len(q)
      /\ \A i \in 1 .. Len(r) : i + 1 \in 1 .. Len(q) /\ r[i] = q[i + 1]
      /\ \A i \in 1 .. Len(q) : i = 1 \/ (i - 1 \in 1 .. Len(r) /\ r[i - 1] = q[i])
  BY HeadTailProperties, EmptySeq, LenProperties
<1>2. Head(q) # Agent => Head(q).task \in Tasks
  BY <1>1, AskingMessage
<1>3. \A t \in Tasks : Agent.task # t
  BY DEF Agent, BackgroundAssumption
<1>4. ASSUME NEW t \in Tasks, Head(q).task # t PROVE m2[t] = m[t]
  BY <1>2, <1>4
<1>5. ASSUME NEW t \in Tasks, Head(q).task = t PROVE m2[t] = Head(q).view
  BY <1>3, <1>5
<1> HIDE DEF r
<1>6. ASSUME NEW t \in Tasks, NEW v, NEW i \in 1 .. Len(q), i # 1,
             q[i].task = t, q[i].view = v, LastOf(q, i)
      PROVE  Informs(r, v, t)
  <2>1. i - 1 \in 1 .. Len(r) /\ r[i - 1] = q[i]
    BY <1>1, <1>6
  <2>2. ASSUME NEW j \in 1 .. Len(r), i - 1 < j PROVE r[j].task # t
    <3>1. j + 1 \in 1 .. Len(q) /\ r[j] = q[j + 1] /\ i < j + 1
      BY <1>1, <2>2
    <3> QED BY <1>6, <3>1 DEF LastOf
  <2> QED BY <1>6, <2>1, <2>2 DEF Informs, LastOf
<1>7. ASSUME NEW t \in Tasks, LastOf(q, 1), q[1].task = t
      PROVE  \A i \in 1 .. Len(r) : r[i].task # t
  BY <1>1, <1>7 DEF LastOf
<1>8. ASSUME NEW t \in Tasks, st[t] \notin {"unsubmitted", "removed"}
      PROVE  \/ m2[t] = View(st[t]) /\ \A i \in 1 .. Len(r) : r[i].task # t
             \/ Informs(r, View(st[t]), t)
  <2>1. CASE m[t] = View(st[t]) /\ \A i \in 1 .. Len(q) : q[i].task # t
    <3>1. m2[t] = m[t]
      BY <1>1, <1>4, <2>1
    <3>2. \A i \in 1 .. Len(r) : r[i].task # t
      BY <1>1, <2>1
    <3> QED BY <2>1, <3>1, <3>2
  <2>2. CASE Informs(q, View(st[t]), t)
    <3>1. PICK i \in 1 .. Len(q) : q[i].task = t /\ q[i].view = View(st[t]) /\ LastOf(q, i)
      BY <2>2 DEF Informs
    <3>2. CASE i = 1
      BY <1>1, <1>5, <1>7, <3>1, <3>2
    <3> QED BY <1>6, <3>1, <3>2
  <2> QED BY <1>8, <2>1, <2>2 DEF Informed
<1> QED BY <1>8 DEF Informed, r

(* The engine tells what has become of t.                                    *)
LEMMA InformedTold ==
  ASSUME NEW q \in Seq(Message), NEW st, NEW m, NEW st2, Informed(q, st, m),
         NEW t \in Tasks, NEW u \in Message, u.task = t, u.view = View(st2[t]),
         \A s \in Tasks \ {t} : st2[s] = st[s]
  PROVE  Informed(Append(q, u), st2, m)
<1> DEFINE r == Append(q, u)
<1>1. /\ \A i \in 1 .. Len(q) : i \in 1 .. Len(r) /\ r[i] = q[i]
      /\ \A i \in 1 .. Len(r) : i \in 1 .. Len(q) \/ r[i] = u
      /\ Len(r) \in 1 .. Len(r) /\ r[Len(r)] = u /\ \A i \in 1 .. Len(r) : ~(Len(r) < i)
  <2>1. Len(r) = Len(q) + 1 /\ Len(q) \in Nat /\ r[Len(q) + 1] = u
        /\ \A i \in 1 .. Len(q) : r[i] = q[i]
    BY AppendProperties, LenProperties
  <2> QED BY <2>1
<1> HIDE DEF r
<1>2. Informs(r, View(st2[t]), t)
  BY <1>1 DEF Informs, LastOf
<1>3. ASSUME NEW s \in Tasks \ {t}, st2[s] \notin {"unsubmitted", "removed"}
      PROVE  \/ m[s] = View(st2[s]) /\ \A i \in 1 .. Len(r) : r[i].task # s
             \/ Informs(r, View(st2[s]), s)
  <2>1. CASE m[s] = View(st[s]) /\ \A i \in 1 .. Len(q) : q[i].task # s
    BY <1>1, <1>3, <2>1
  <2>2. CASE Informs(q, View(st[s]), s)
    <3>1. PICK i \in 1 .. Len(q) : q[i].task = s /\ q[i].view = View(st[s]) /\ LastOf(q, i)
      BY <2>2 DEF Informs
    <3>2. LastOf(r, i)
      BY <1>1, <1>3, <3>1 DEF LastOf
    <3> QED BY <1>1, <1>3, <3>1, <3>2 DEF Informs
  <2> QED BY <1>3, <2>1, <2>2 DEF Informed
<1> QED BY <1>2, <1>3 DEF Informed, r

LEMMA InformedStep ==
  ASSUME BackgroundAssumption, Delivery, Delivery', Memory, [Next]_vars,
         Informed(micro, status, mirror)
  PROVE  Informed(micro', status', mirror')
<1> USE DEF engine, pass, history
<1>1. /\ micro \in Seq(Message) /\ Agent \in Message
      /\ mirror \in [Tasks -> Views] /\ status \in [Tasks -> Statuses]
  BY DEF Delivery, QueueOK, Types, Message
<1> DEFINE Kept == Informed(micro', status', mirror')
<1>2. ASSUME UNCHANGED <<status, micro, mirror>> PROVE Kept
  BY <1>2
<1>3. ASSUME UNCHANGED <<status, mirror>>, Await PROVE Kept
  BY <1>1, <1>3, InformedAwait DEF Await
<1>4. ASSUME Turn PROVE Tail(micro) \in Seq(Message) /\ Informed(Tail(micro), status, mirror)
  BY <1>1, <1>4, InformedTail, HeadTailProperties DEF Turn
<1>5. ASSUME NEW t \in Tasks, NEW s \in Statuses \ {"unsubmitted", "removed"},
             NEW q \in Seq(Message), Informed(q, status, mirror), mirror' = mirror,
             status' = [status EXCEPT ![t] = s],
             micro' \in {Append(q, Update(t)), Append(Append(q, Update(t)), Agent)}
      PROVE  Kept
  <2>1. status'[t] = s /\ \A x \in Tasks \ {t} : status'[x] = status[x]
    BY <1>1, <1>5
  <2>2. Update(t) \in Message /\ Update(t).task = t /\ Update(t).view = View(status'[t])
    BY <2>1, ViewOfStatus DEF Update, Told, Message
  <2>3. Informed(Append(q, Update(t)), status', mirror)
    <3> DEFINE u == Update(t)
    <3>1. u \in Message /\ u.task = t /\ u.view = View(status'[t])
      BY <2>2
    <3>2. Informed(q, status, mirror)
      BY <1>5
    <3> HIDE DEF Kept, u
    <3>3. Informed(Append(q, u), status', mirror)
      BY <2>1, <3>1, <3>2, InformedTold
    <3> QED BY <3>3 DEF u
  <2>4. Append(q, Update(t)) \in Seq(Message)
    BY <1>5, <2>2, AppendProperties
  <2>5. Informed(Append(Append(q, Update(t)), Agent), status', mirror)
    BY <2>3, <2>4, InformedAwait
  <2> QED BY <1>5, <2>3, <2>5
<1>6. CASE \/ Invoke \/ (\E ts \in SUBSET Tasks : Respond(ts)) \/ AskOrTake \/ Reply
           \/ Cancelled \/ Break \/ Entering \/ UseUp \/ AfterInvocation \/ NextPass
           \/ Return \/ Save
           \/ UNCHANGED vars
  <2>1. UNCHANGED <<status, micro, mirror>>
    BY EnteringFacts, <1>6
       DEF Invoke, Respond, Request, AskOrTake, Reply, Cancelled, Break, UseUp,
           AfterInvocation, NextPass, Return, Save, vars
  <2> QED BY <1>2, <2>1
<1>7. CASE BeforeModelCall \/ Settling \/ Cancels \/ AppendResults
  <2>1. UNCHANGED <<status, mirror>> /\ (UNCHANGED micro \/ Await)
    BY <1>7 DEF BeforeModelCall, Settling, Cancels, Cancel, WakeOnCancel, AppendResults
  <2> QED BY <1>2, <1>3, <2>1
<1>8. CASE Answered \/ Woken \/ Acknowledge
  BY <1>4, <1>8 DEF Answered, Woken, Acknowledge
<1>9. CASE Appended
  <2>1. Informed(Tail(micro), status, mirror) /\ micro' = Tail(micro)
    BY <1>4, <1>9 DEF Appended
  <2>2. \A t \in Tasks : status'[t] \notin {"unsubmitted", "removed"} =>
          /\ status'[t] = status[t] /\ mirror'[t] = mirror[t]
    BY <1>1, <1>9 DEF Appended, Forget, Live
  <2> QED BY <2>1, <2>2, InformedKept
<1>10. ASSUME NEW t \in Tasks, Settle(t) PROVE Kept
  <2>1. PICK s \in {"completed", "input_required"} : status' = [status EXCEPT ![t] = s]
    BY <1>10 DEF Settle, Engine!Stop
  <2>2. s \in Statuses \ {"unsubmitted", "removed"}
    BY DEF Statuses, Engine!Terminal
  <2>3. mirror' = mirror /\ micro' = Append(micro, Update(t))
    BY <1>10 DEF Settle, Notify
  <2> QED BY <1>1, <1>5, <2>1, <2>2, <2>3
<1>11. ASSUME NEW t \in Tasks, GiveUp(t) PROVE Kept
  <2>1. /\ UNCHANGED <<micro, mirror>>
        /\ \/ UNCHANGED status
           \/ \E u \in Tasks : status[u] = "queued" /\ status' = [status EXCEPT ![u] = "working"]
    BY <1>11 DEF GiveUp, Engine!Release, Engine!HandOver, Engine!Startable
  <2>2. View("queued") = View("working")
    BY DEF View, Engine!Terminal
  <2>3. \A x \in Tasks : status'[x] \notin {"unsubmitted", "removed"} =>
          /\ status[x] \notin {"unsubmitted", "removed"}
          /\ View(status'[x]) = View(status[x])
    BY <1>1, <2>1, <2>2
  <2> QED BY <2>1, <2>3, InformedKept
<1>12. ASSUME NEW t \in Tasks, Answer(t) \/ Dispatch(t) PROVE Kept
  <2>1. PICK s \in {"queued", "working"} : status' = [status EXCEPT ![t] = s]
    BY <1>12 DEF Answer, Dispatch, Submit, Engine!Enter, Engine!Queue
  <2>2. s \in Statuses \ {"unsubmitted", "removed"}
    BY DEF Statuses
  <2>3. CASE Answer(t)
    BY <1>4, <1>5, <2>1, <2>2, <2>3 DEF Answer
  <2>4. CASE Dispatch(t)
    BY <1>1, <1>5, <2>1, <2>2, <2>4 DEF Dispatch, NotifyAndAwait
  <2> QED BY <1>12, <2>3, <2>4
<1>13. ASSUME NEW t \in Tasks, CancelTask(t) PROVE Kept
  <2>1. CASE status[t] \in Engine!Terminal
    BY <1>3, <1>13, <2>1 DEF CancelTask
  <2>2. CASE status[t] \notin Engine!Terminal
    <3>1. /\ status' = [status EXCEPT ![t] = "cancelled"] /\ mirror' = mirror
          /\ micro' = Append(Append(micro, Update(t)), Agent)
      BY <1>13, <2>2 DEF CancelTask, Engine!Stop, Engine!Withdraw, NotifyAndAwait
    <3>2. "cancelled" \in Statuses \ {"unsubmitted", "removed"}
      BY DEF Statuses, Engine!Terminal
    <3> QED BY <1>1, <1>5, <3>1, <3>2
  <2> QED BY <2>1, <2>2
<1>14. CASE OnTaskUpdated
  <2>1. /\ micro # <<>> /\ Head(micro) # Agent /\ UNCHANGED status
        /\ mirror' = [mirror EXCEPT ![Head(micro).task] = Head(micro).view]
        /\ micro' \in {Tail(micro), Append(Tail(micro), Agent)}
    BY <1>14 DEF OnTaskUpdated
  <2>2. Tail(micro) \in Seq(Message)
    BY <1>1, <2>1, HeadTailProperties
  <2>3. Informed(Tail(micro), status, mirror')
    BY <1>1, <2>1, InformedTail
  <2>4. Informed(Append(Tail(micro), Agent), status, mirror')
    BY <2>2, <2>3, InformedAwait
  <2> QED BY <2>1, <2>3, <2>4
<1>15. CASE Restart
  BY <1>1, <1>15 DEF Restart, Informed
<1> QED BY <1>6, <1>7, <1>8, <1>9, <1>10, <1>11, <1>12, <1>13, <1>14, <1>15
        DEF Next, AgentStep, Entering, Cancels

(* No slot stays free beside a task that waits for one.                      *)
LEMMA SlottedStep ==
  ASSUME BackgroundAssumption, Delivery, Rest, Rest', [Next]_vars,
         Slotted(status, occupied)
  PROVE  Slotted(status', occupied')
<1> USE DEF engine, pass, history
<1>1. /\ status \in [Tasks -> Statuses] /\ IsFiniteSet(occupied) /\ occupied \subseteq Tasks
      /\ Cardinality(occupied) \in Nat /\ Cardinality(occupied) <= MaxConcurrency
      /\ MaxConcurrency \in Nat \ {0}
  BY FS_CardinalityType DEF Delivery, Types, Rest, BackgroundAssumption
<1>2. ASSUME UNCHANGED occupied,
             \A x \in Tasks : status'[x] \in {"queued", "working"} => status'[x] = status[x]
      PROVE  Slotted(status', occupied')
  BY <1>2 DEF Slotted
<1>3. ASSUME NEW t \in Tasks, Submit(t) PROVE Slotted(status', occupied')
  <2>1. CASE Engine!Enter(t)
    <3>1. /\ status'[t] = "working" /\ occupied' = occupied \cup {t}
          /\ \A x \in Tasks \ {t} : status'[x] = status[x]
          /\ Cardinality(occupied) < MaxConcurrency
      BY <1>1, <2>1, EngineCardinality DEF Engine!Enter
    <3> QED BY <1>1, <3>1 DEF Slotted
  <2>2. CASE Engine!Queue(t)
    <3>1. /\ status'[t] = "queued" /\ occupied' = occupied
          /\ \A x \in Tasks \ {t} : status'[x] = status[x]
          /\ t \in occupied \/ Cardinality(occupied) >= MaxConcurrency
      BY <1>1, <2>2, EngineCardinality DEF Engine!Queue
    <3>2. t \in occupied \/ Cardinality(occupied) = MaxConcurrency
      BY <1>1, <3>1
    <3> QED BY <1>1, <3>1, <3>2 DEF Slotted
  <2> QED BY <1>3, <2>1, <2>2 DEF Submit
<1>4. ASSUME NEW t \in Tasks, Engine!Release(t) PROVE Slotted(status', occupied')
  BY <1>1, <1>4 DEF Engine!Release, Engine!Startable, Slotted
<1>5. ASSUME NEW t \in Tasks, NEW u \in Tasks, Engine!HandOver(t, u)
      PROVE  Slotted(status', occupied')
  <2>1. /\ t \in occupied /\ status[t] # "working" /\ u \notin occupied \ {t}
        /\ occupied' = (occupied \ {t}) \cup {u} /\ status[u] = "queued"
        /\ status'[u] = "working" /\ \A x \in Tasks \ {u} : status'[x] = status[x]
    BY <1>1, <1>5 DEF Engine!HandOver, Engine!Startable
  <2>2. /\ IsFiniteSet(occupied \ {t})
        /\ Cardinality(occupied \ {t}) = Cardinality(occupied) - 1
    BY <1>1, <2>1, FS_RemoveElement
  <2>3. Cardinality(occupied') = Cardinality(occupied)
    <3>1. Cardinality(occupied') = Cardinality(occupied \ {t}) + 1
      BY <2>1, <2>2, FS_AddElement
    <3> QED BY <1>1, <2>2, <3>1
  <2>4. ASSUME NEW x \in Tasks, status'[x] = "queued", x \notin occupied'
        PROVE  Cardinality(occupied') = MaxConcurrency
    <3>1. x # u /\ status[x] = "queued"
      BY <2>1, <2>4
    <3>2. CASE x \notin occupied
      BY <2>3, <3>1, <3>2 DEF Slotted
    <3>3. CASE x \in occupied
      <4>1. x = t /\ t # u
        BY <2>1, <2>4, <3>1, <3>3
      <4>2. Cardinality(occupied) = MaxConcurrency
        BY <2>1, <4>1 DEF Slotted
      <4> QED BY <2>3, <4>2
    <3> QED BY <3>2, <3>3
  <2> QED BY <2>1, <2>4 DEF Slotted
<1>6. ASSUME NEW t \in Tasks, Settle(t) \/ CancelTask(t) PROVE Slotted(status', occupied')
  BY <1>1, <1>2, <1>6
     DEF Settle, CancelTask, Engine!Stop, Engine!Withdraw, Engine!Terminal
<1>7. ASSUME NEW t \in Tasks, GiveUp(t) \/ Answer(t) \/ Dispatch(t)
      PROVE  Slotted(status', occupied')
  BY <1>3, <1>4, <1>5, <1>7 DEF GiveUp, Answer, Dispatch
<1>8. CASE Appended
  BY <1>1, <1>2, <1>8 DEF Appended, Forget
<1>9. CASE Restart
  BY <1>1, <1>9 DEF Restart, Slotted
<1>10. CASE \/ Invoke \/ (\E ts \in SUBSET Tasks : Respond(ts)) \/ AskOrTake \/ Reply
            \/ Cancelled \/ Break \/ Entering \/ UseUp \/ AfterInvocation \/ NextPass
            \/ Return \/ Save
            \/ BeforeModelCall \/ Settling \/ Cancels \/ AppendResults
            \/ Answered \/ Woken \/ Acknowledge \/ OnTaskUpdated \/ UNCHANGED vars
  <2>1. UNCHANGED <<status, occupied>>
    BY EnteringFacts, <1>10
       DEF Invoke, Respond, Request, AskOrTake, Reply, Cancelled, Break, UseUp,
           AfterInvocation, NextPass, Return, Save, BeforeModelCall, Settling, Cancels,
           Cancel, AppendResults, Answered, Woken, Acknowledge, OnTaskUpdated, vars
  <2> QED BY <1>2, <2>1
<1> QED BY <1>6, <1>7, <1>8, <1>9, <1>10 DEF Next, AgentStep, Entering, Cancels

LEMMA WakefulStep ==
  ASSUME BackgroundAssumption, Delivery, Wakeful, [Next]_vars
  PROVE  Wakeful'
<1> USE DEF engine, pass, history
<1>1. micro \in Seq(Message) /\ mirror \in [Tasks -> Views]
  BY DEF Delivery, QueueOK, Types
<1> DEFINE HasTurn(q) == \E i \in 1 .. Len(q) : q[i] = Agent
<1>2. ASSUME NEW q \in Seq(Message), NEW m \in Message
      PROVE  /\ Append(q, m) \in Seq(Message)
             /\ HasTurn(q) => HasTurn(Append(q, m))
             /\ HasTurn(Append(q, Agent))
  <2>1. /\ Append(q, m) \in Seq(Message) /\ Len(Append(q, m)) = Len(q) + 1 /\ Len(q) \in Nat
        /\ \A i \in 1 .. Len(q) : Append(q, m)[i] = q[i]
    BY AppendProperties, LenProperties
  <2>2. Len(Append(q, Agent)) = Len(q) + 1 /\ Append(q, Agent)[Len(q) + 1] = Agent
    BY AppendProperties DEF Message
  <2> QED BY <2>1, <2>2
<1>3. ASSUME micro # <<>>, Head(micro) # Agent, HasTurn(micro)
      PROVE  HasTurn(Tail(micro))
  <2>1. PICK i \in 1 .. Len(micro) : micro[i] = Agent
    BY <1>3
  <2>2. /\ Len(Tail(micro)) = Len(micro) - 1 /\ Head(micro) = micro[1] /\ Len(micro) \in Nat
        /\ \A j \in 1 .. Len(Tail(micro)) : Tail(micro)[j] = micro[j + 1]
    BY <1>1, <1>3, HeadTailProperties, LenProperties
  <2>3. i # 1
    BY <1>3, <2>1, <2>2
  <2>4. i - 1 \in 1 .. Len(Tail(micro)) /\ Tail(micro)[i - 1] = Agent
    BY <2>1, <2>2, <2>3
  <2> QED BY <2>4
<1>4. ASSUME pc' # "waiting", pc' \notin Awaiting PROVE Wakeful'
  BY <1>4 DEF Wakeful
<1>5. ASSUME pc' # "waiting", HasTurn(micro') PROVE Wakeful'
  BY <1>5 DEF Wakeful
<1>6. ASSUME UNCHANGED <<pc, mirror, cancel, micro>> PROVE Wakeful'
  BY <1>6 DEF Wakeful, Seen
<1>7. CASE \/ Invoke \/ (\E ts \in SUBSET Tasks : Respond(ts)) \/ AskOrTake \/ Reply
           \/ Cancelled \/ Break \/ Entering \/ AfterInvocation \/ NextPass \/ Return
           \/ Restart \/ Answered \/ Woken \/ Acknowledge \/ Appended
  BY EnteringFacts, <1>4, <1>7
     DEF Invoke, Respond, Request, AskOrTake, Reply, Cancelled, Break, EndPass,
         AfterInvocation, NextPass, Return, Restart, Answered, Woken, Acknowledge,
         Appended, Awaiting
<1>8. CASE Save \/ UseUp \/ UNCHANGED vars \/ \E t \in Tasks : GiveUp(t)
  BY <1>6, <1>8 DEF Save, UseUp, GiveUp, vars
<1>9. CASE BeforeModelCall \/ AppendResults
  <2>1. pc' # "waiting" /\ (pc' \in Awaiting => micro' = Append(micro, Agent))
    BY <1>9 DEF BeforeModelCall, AppendResults, Await, Awaiting
  <2> QED BY <1>1, <1>2, <1>4, <1>5, <2>1 DEF Message
<1>10. CASE Settling
  <2>1. CASE pc' = "waiting"
    BY <1>10, <2>1 DEF Settling, MustWait, Wakeful, Awaiting, Seen
  <2>2. CASE pc' # "waiting"
    <3>1. pc' \in Awaiting => micro' = Append(micro, Agent)
      BY <1>10, <2>2 DEF Settling, Await, Awaiting
    <3> QED BY <1>1, <1>2, <1>4, <1>5, <2>2, <3>1 DEF Message
  <2> QED BY <2>1, <2>2
<1>11. CASE Cancels
  <2>1. CASE pc = "waiting"
    <3>1. pc' = "woken" /\ micro' = Append(micro, Agent)
      BY <1>11, <2>1 DEF Cancels, Cancel, WakeOnCancel, Await
    <3> QED BY <1>1, <1>2, <1>5, <3>1 DEF Message
  <2>2. CASE pc # "waiting"
    BY <1>11, <2>2 DEF Cancels, Cancel, WakeOnCancel, Wakeful
  <2> QED BY <2>1, <2>2
<1>12. ASSUME NEW t \in Tasks, Settle(t) PROVE Wakeful'
  <2>1. /\ UNCHANGED <<pc, mirror, cancel>> /\ micro' = Append(micro, Update(t))
        /\ status'[t] \in Statuses \ {"unsubmitted", "removed"}
    BY <1>12 DEF Settle, Notify, Engine!Stop, Engine!Terminal, Statuses, Delivery, Types
  <2>2. Update(t) \in Message
    BY <2>1, ViewOfStatus DEF Update, Told, Message
  <2>3. HasTurn(micro) => HasTurn(micro')
    BY <1>1, <1>2, <2>1, <2>2
  <2> QED BY <2>1, <2>3 DEF Wakeful, Seen
<1>13. ASSUME NEW t \in Tasks, Answer(t) \/ Dispatch(t) \/ CancelTask(t) PROVE Wakeful'
  <2>1. pc' # "waiting"
    BY <1>13 DEF Answer, Dispatch, CancelTask
  <2>2. PICK q : micro' = Append(q, Agent) /\ (q = micro \/ q = Append(micro, Update(t))
                                               \/ (micro # <<>> /\ q = Append(Tail(micro), Update(t))))
    BY <1>13 DEF Answer, Turn, Dispatch, CancelTask, Await, NotifyAndAwait
  <2>3. q = micro \/ status'[t] \in Statuses \ {"unsubmitted", "removed"}
    BY <1>13, <2>2
       DEF Answer, Dispatch, CancelTask, Await, Submit, Engine!Enter, Engine!Queue,
           Engine!Stop, Engine!Withdraw, Engine!Terminal, Statuses, Delivery, Types
  <2>4. q \in Seq(Message)
    <3>1. q = micro \/ Update(t) \in Message
      BY <2>3, ViewOfStatus DEF Update, Told, Message
    <3>2. micro # <<>> => Tail(micro) \in Seq(Message)
      BY <1>1, HeadTailProperties
    <3> QED BY <1>1, <1>2, <2>2, <3>1, <3>2
  <2> QED BY <1>2, <1>5, <2>1, <2>2, <2>4 DEF Message
<1>14. CASE OnTaskUpdated
  <2>1. /\ micro # <<>> /\ Head(micro) # Agent /\ UNCHANGED cancel
        /\ mirror' = [mirror EXCEPT ![Head(micro).task] = Head(micro).view]
        /\ Tail(micro) \in Seq(Message)
    BY <1>1, <1>14, HeadTailProperties DEF OnTaskUpdated
  <2>2. CASE Wakes(Head(micro).task, Head(micro).view)
    <3>1. pc' = "woken" /\ micro' = Append(Tail(micro), Agent)
      BY <1>14, <2>2 DEF OnTaskUpdated
    <3> QED BY <1>2, <1>5, <2>1, <3>1 DEF Message
  <2>3. CASE ~Wakes(Head(micro).task, Head(micro).view)
    <3>1. pc' = pc /\ micro' = Tail(micro)
      BY <1>14, <2>3 DEF OnTaskUpdated
    <3>2. pc' \in Awaiting => HasTurn(micro')
      BY <1>3, <2>1, <3>1 DEF Wakeful
    <3>3. ASSUME pc' = "waiting" PROVE cancel' = "no" /\ Seen("active")' # {}
      <4>1. pc = "waiting" /\ cancel = "no"
        BY <3>1, <3>3 DEF Wakeful
      <4>2. PICK t \in Tasks : mirror[t] = "active"
        BY <4>1 DEF Wakeful, Seen
      <4>3. Head(micro).view \in {"active", "input_required", "done"}
        BY <2>1, TailQueue DEF Delivery, Told
      <4>4. mirror'[t] = "active"
        BY <1>1, <2>1, <2>3, <4>1, <4>2, <4>3 DEF Wakes
      <4> QED BY <2>1, <4>1, <4>4 DEF Seen
    <3> QED BY <3>2, <3>3 DEF Wakeful
  <2> QED BY <2>2, <2>3
<1> QED BY <1>7, <1>8, <1>9, <1>10, <1>11, <1>12, <1>13, <1>14
        DEF Next, AgentStep, Entering, Cancels

(* Neither of the agent's waits is for nothing: the safety half of           *)
(* CancelEndsWaiting and WaitEnds.                                           *)
THEOREM NobodySleepsForever ==
  ASSUME BackgroundAssumption PROVE Spec => []SomeoneWakes
<1>1. Delivery /\ Delivery' /\ Memory /\ Asks /\ Rest /\ Rest' /\ Woke /\ [Next]_vars => Woke'
  BY InformedStep, SlottedStep, WakefulStep DEF Woke
<1>2. Delivery /\ Asks /\ Rest /\ [Next]_vars => Rest'
  BY RestStep
<1>3. Delivery /\ Rest /\ Woke => SomeoneWakes
  <2> SUFFICES ASSUME Delivery, Rest, Woke, pc = "waiting", NEW t \in Seen("active")
               PROVE  \/ \E i \in 1 .. Len(micro) :
                           micro[i].task = t /\ micro[i].view \in {"done", "input_required"}
                      \/ status[t] \in {"queued", "working"} /\ occupied # {}
    BY DEF Woke, Wakeful, SomeoneWakes
  <2>1. t \in Tasks /\ status[t] \in Statuses \ {"unsubmitted", "removed"}
    BY DEF Delivery, MirrorOK, Types, Live, Seen
  <2>2. CASE status[t] \in {"queued", "working"}
    <3>1. Cardinality({}) = 0 /\ MaxConcurrency # 0
      BY FS_EmptySet DEF BackgroundAssumption
    <3>2. occupied # {}
      BY <2>1, <2>2, <3>1 DEF Woke, Slotted
    <3> QED BY <2>2, <3>2
  <2>3. CASE status[t] \notin {"queued", "working"}
    <3>1. View(status[t]) \in {"done", "input_required"}
      BY <2>1, <2>3 DEF View, Statuses, Engine!Terminal
    <3>2. mirror[t] # View(status[t])
      BY <3>1 DEF Seen
    <3>3. Informs(micro, View(status[t]), t)
      BY <2>1, <3>2 DEF Woke, Informed
    <3> QED BY <3>1, <3>3 DEF Informs
  <2> QED BY <2>2, <2>3
<1> QED BY <1>1, <1>2, <1>3, WokeInit, RestInit, AsksInvariant, PTL DEF Spec

=============================================================================
