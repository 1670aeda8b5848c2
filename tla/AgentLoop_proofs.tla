--------------------------- MODULE AgentLoop_proofs ---------------------------
(*****************************************************************************)
(* Proofs about AgentLoop, for every set of tool uses, every gate and every  *)
(* executor.                                                                 *)
(*****************************************************************************)
EXTENDS AgentLoop, TLAPS

Messages == {"none", "user", "assistant", "tool use", "results"}

-------------------------------------------------------------------------------
(* Types, by groups of variables.  Crash restores the snapshot, which has a  *)
(* type of its own.                                                          *)

PlaceOK ==
  /\ pc \in {"idle", "start", "resume", "top", "model", "before", "tools", "closing",
             "after", "skipped", "raised", "interrupted", "append", "result",
             "reply", "finished", "failed"}
  /\ executor \in Executors
  /\ reader \in {"reading", "gone"} /\ cancel \in {"no", "after", "now"}
HistoryOK ==
  last \in Messages /\ sound \in BOOLEAN /\ appended \in 0 .. 2
BatchOK ==
  clean \in BOOLEAN /\ call \in [Uses -> CallState] /\ ran \in [Uses -> 0 .. 2]
PendingOK(p) ==
  p \in [uses : SUBSET Uses, done : SUBSET Uses] /\ p.done \subseteq p.uses
InterruptOK ==
  /\ activated \in BOOLEAN /\ PendingOK(pending)
  /\ raised \subseteq Ids /\ answered \subseteq raised

SnapshotOK(s) ==
  /\ s.last \in Messages /\ s.sound \in BOOLEAN /\ s.appended \in 0 .. 2
  /\ s.activated \in BOOLEAN /\ PendingOK(s.pending)
  /\ s.raised \subseteq Ids /\ s.answered \subseteq s.raised

TypeInv == PlaceOK /\ HistoryOK /\ BatchOK /\ InterruptOK /\ SnapshotOK(saved)

LEMMA TypeParts == TypeOK <=> PlaceOK /\ HistoryOK /\ BatchOK /\ InterruptOK
  BY DEF TypeOK, PlaceOK, HistoryOK, BatchOK, InterruptOK, PendingOK, Messages

LEMMA SnapshotType == HistoryOK /\ InterruptOK => SnapshotOK(Snapshot)
  BY DEF HistoryOK, InterruptOK, SnapshotOK, Snapshot

LEMMA NoRuns == [u \in Uses |-> 0] \in [Uses -> 0 .. 2]
<1>1. \A u \in Uses : 0 \in 0 .. 2
  OBVIOUS
<1> QED BY <1>1, Zenon

LEMMA TypeInit == ASSUME Init PROVE TypeInv
<1>1. PlaceOK /\ HistoryOK /\ BatchOK
  BY DEF Init, PlaceOK, HistoryOK, BatchOK, CallState, Messages
<1>2. InterruptOK
  BY DEF Init, InterruptOK, PendingOK, NoPending, Ids
<1> QED BY <1>1, <1>2, SnapshotType DEF Init, TypeInv

(* The session is only ever saved as it is after the step.                   *)
LEMMA SavedFrame ==
  ASSUME [Next]_vars
  PROVE  \/ UNCHANGED saved
         \/ Input
         \/ Cancelled
         \/ ModelReplies
         \/ \E uses \in (SUBSET Uses) \ {{}} : ModelCallsTools(uses)
         \/ AppendUse
         \/ AppendResults
         \/ NextCycle
         \/ Deny
         \/ Break
         \/ Finish
  BY DEF Next, Step, vars, loopVars, history, batch, interrupts, Reject, Top,
       LimitReached, ModelFails, BatchGate, BatchGateAgain, Launch, Start,
       Return, ReturnInVain, BatchEnds, Closed, Activate, InterruptResult,
       KeepPending, Reply, Invoke, Respond, Cancel, Crash

LEMMA SavedStep == ASSUME [Next]_vars PROVE saved' \in {saved, Snapshot'}
<1>1. CASE Input
  BY <1>1 DEF Input, SaveMessage
<1>2. CASE Cancelled
  BY <1>2 DEF Cancelled, SaveMessage
<1>3. CASE ModelReplies
  BY <1>3 DEF ModelReplies, SaveMessage
<1>4. ASSUME NEW uses \in (SUBSET Uses) \ {{}}, ModelCallsTools(uses)
      PROVE  saved' = saved \/ saved' = Snapshot'
  BY <1>4 DEF ModelCallsTools, SaveMessage
<1>5. CASE AppendUse
  BY <1>5 DEF AppendUse, SaveMessage
<1>6. CASE AppendResults
  BY <1>6 DEF AppendResults, SaveMessage
<1>7. CASE NextCycle
  BY <1>7 DEF NextCycle, SaveMessage
<1>8. CASE Deny
  BY <1>8 DEF Deny, SaveMessage
<1>9. CASE Break
  BY <1>9 DEF Break, SaveMessage
<1>10. CASE Finish
  BY <1>10 DEF Finish, Snapshot, history, interrupts
<1> QED BY SavedFrame, <1>1, <1>2, <1>3, <1>4, <1>5, <1>6, <1>7, <1>8, <1>9,
     <1>10

LEMMA PlaceStep ==
  ASSUME PlaceOK, [Next]_vars
  PROVE  PlaceOK'
<1>1. CASE Reject
  BY <1>1 DEF Reject, loopVars, history, batch, interrupts, PlaceOK
<1>2. CASE Input
  BY <1>2 DEF Input, Aborted, Appending, SaveMessage, Snapshot, loopVars,
       history, batch, interrupts, PlaceOK
<1>3. CASE Top
  BY <1>3 DEF Top, Aborted, NoPending, loopVars, history, batch, interrupts,
       PlaceOK
<1>4. CASE LimitReached
  BY <1>4 DEF LimitReached, AtTop, Aborted, loopVars, history, batch,
       interrupts, PlaceOK
<1>5. CASE Cancelled
  BY <1>5 DEF Cancelled, AtTop, Aborted, OpenUserTurn, Appending, SaveMessage,
       Snapshot, loopVars, history, batch, interrupts, PlaceOK
<1>6. CASE ModelReplies
  BY <1>6 DEF ModelReplies, Appending, SaveMessage, Snapshot, loopVars,
       history, batch, interrupts, PlaceOK
<1>7. CASE ModelFails
  BY <1>7 DEF ModelFails, loopVars, history, batch, interrupts, PlaceOK
<1>8. ASSUME NEW uses \in (SUBSET Uses) \ {{}}, ModelCallsTools(uses)
      PROVE  PlaceOK'
  BY <1>8 DEF ModelCallsTools, Aborted, Appending, SaveMessage, Snapshot,
       loopVars, history, batch, interrupts, PlaceOK
<1>9. CASE BatchGate
  BY <1>9 DEF BatchGate, Requested, loopVars, history, batch, interrupts,
       PlaceOK
<1>10. CASE BatchGateAgain
  BY <1>10 DEF BatchGateAgain, Requested, loopVars, history, batch,
       interrupts, PlaceOK
<1>11. CASE Launch
  BY <1>11 DEF Launch, Requested, Aborted, loopVars, history, batch,
       interrupts, PlaceOK
<1>12. ASSUME NEW u \in Uses, Start(u) PROVE PlaceOK'
  BY <1>12 DEF Start, MayStart, InState, Aborted, loopVars, history, batch,
       interrupts, PlaceOK
<1>13. ASSUME NEW u \in Uses, Return(u) PROVE PlaceOK'
  BY <1>13 DEF Return, loopVars, history, batch, interrupts, PlaceOK
<1>14. ASSUME NEW u \in Uses, ReturnInVain(u) PROVE PlaceOK'
  BY <1>14 DEF ReturnInVain, loopVars, history, batch, interrupts, PlaceOK
<1>15. CASE BatchEnds
  BY <1>15 DEF BatchEnds, ExecutorDone, Interrupted, InState, Requested,
       Ended, loopVars, history, batch, interrupts, PlaceOK
<1>16. CASE Closed
  BY <1>16 DEF Closed, InState, loopVars, history, batch, interrupts, PlaceOK
<1>17. CASE Activate
  BY <1>17 DEF Activate, loopVars, history, batch, interrupts, PlaceOK
<1>18. CASE InterruptResult
  BY <1>18 DEF InterruptResult, loopVars, history, batch, interrupts, PlaceOK
<1>19. CASE KeepPending
  BY <1>19 DEF KeepPending, Aborted, NoPending, loopVars, history, batch,
       interrupts, PlaceOK
<1>20. CASE AppendUse
  BY <1>20 DEF AppendUse, Aborted, NoPending, Appending, SaveMessage,
       Snapshot, loopVars, history, batch, interrupts, PlaceOK
<1>21. CASE AppendResults
  BY <1>21 DEF AppendResults, Appending, SaveMessage, Snapshot, loopVars,
       history, batch, interrupts, PlaceOK
<1>22. CASE NextCycle
  BY <1>22 DEF NextCycle, ClearPending, Deactivate, NoPending, Appending,
       SaveMessage, Snapshot, loopVars, history, batch, interrupts, PlaceOK
<1>23. CASE Reply
  BY <1>23 DEF Reply, Deactivate, NoPending, loopVars, history, batch,
       interrupts, PlaceOK
<1>24. CASE Finish
  BY <1>24 DEF Finish, Enter, Snapshot, loopVars, history, batch, interrupts,
       PlaceOK
<1>25. CASE Invoke
  BY <1>25 DEF Invoke, Enter, loopVars, history, batch, interrupts, PlaceOK
<1>26. CASE Deny
  BY <1>26 DEF Deny, Appending, SaveMessage, Snapshot, loopVars, history,
       batch, interrupts, PlaceOK
<1>27. ASSUME NEW ids \in SUBSET Ids, Respond(ids) PROVE PlaceOK'
  BY <1>27 DEF Respond, Enter, loopVars, history, batch, interrupts, PlaceOK
<1>28. ASSUME NEW kind \in {"after", "now"}, Cancel(kind) PROVE PlaceOK'
  BY <1>28 DEF Cancel, loopVars, history, batch, interrupts, PlaceOK
<1>29. CASE Break
  BY <1>29 DEF Break, NotClean, Aborted, OpenUserTurn, Appending, SaveMessage,
       Snapshot, loopVars, history, batch, interrupts, PlaceOK
<1>30. CASE Crash
  BY <1>30 DEF Crash, Enter, NotClean, loopVars, history, batch, interrupts,
       PlaceOK
<1>31. CASE UNCHANGED vars
  BY <1>31 DEF vars, loopVars, history, batch, interrupts, PlaceOK
<1> QED BY <1>1, <1>2, <1>3, <1>4, <1>5, <1>6, <1>7, <1>8, <1>9, <1>10, <1>11,
     <1>12, <1>13, <1>14, <1>15, <1>16, <1>17, <1>18, <1>19, <1>20, <1>21,
     <1>22, <1>23, <1>24, <1>25, <1>26, <1>27, <1>28, <1>29, <1>30, <1>31 DEF
     Next, Step

LEMMA HistoryFrame ==
  ASSUME [Next]_vars
  PROVE  \/ UNCHANGED <<last, sound, appended>>
         \/ Input
         \/ Cancelled
         \/ ModelReplies
         \/ \E uses \in (SUBSET Uses) \ {{}} : ModelCallsTools(uses)
         \/ AppendUse
         \/ AppendResults
         \/ NextCycle
         \/ Deny
         \/ Break
         \/ Crash
  BY DEF Next, Step, vars, loopVars, history, batch, interrupts, Reject, Top,
       LimitReached, ModelFails, BatchGate, BatchGateAgain, Launch, Start,
       Return, ReturnInVain, BatchEnds, Closed, Activate, InterruptResult,
       KeepPending, Reply, Finish, Invoke, Respond, Cancel

LEMMA HistoryStep ==
  ASSUME HistoryOK, SnapshotOK(saved), [Next]_vars
  PROVE  HistoryOK'
<1>1. CASE UNCHANGED <<last, sound, appended>>
  BY <1>1 DEF HistoryOK, SnapshotOK, Messages
<1>2. CASE Input
  BY <1>2 DEF Input, Aborted, Appending, SaveMessage, interrupts, history,
       batch, loopVars, HistoryOK, SnapshotOK, Messages
<1>3. CASE Cancelled
  BY <1>3 DEF Cancelled, AtTop, Aborted, OpenUserTurn, Appending, SaveMessage,
       interrupts, history, batch, loopVars, HistoryOK, SnapshotOK, Messages
<1>4. CASE ModelReplies
  BY <1>4 DEF ModelReplies, Appending, SaveMessage, interrupts, history,
       batch, loopVars, HistoryOK, SnapshotOK, Messages
<1>5. ASSUME NEW uses \in (SUBSET Uses) \ {{}}, ModelCallsTools(uses)
      PROVE  HistoryOK'
<2>1. last' \in Messages /\ sound' \in BOOLEAN
  BY <1>5 DEF ModelCallsTools, Appending, HistoryOK, Messages, history
<2>2. appended' = 0
  BY <1>5 DEF ModelCallsTools
<2> QED BY <2>1, <2>2 DEF HistoryOK
<1>6. CASE AppendUse
  BY <1>6 DEF AppendUse, Aborted, NoPending, Appending, SaveMessage,
       interrupts, history, batch, loopVars, HistoryOK, SnapshotOK, Messages
<1>7. CASE AppendResults
<2>1. last' \in Messages /\ sound' \in BOOLEAN
  BY <1>7 DEF AppendResults, Appending, HistoryOK, Messages
<2>2. appended' \in 0 .. 2
  BY <1>7 DEF AppendResults, HistoryOK
<2> QED BY <2>1, <2>2 DEF HistoryOK
<1>8. CASE NextCycle
  BY <1>8 DEF NextCycle, ClearPending, Deactivate, NoPending, Appending,
       SaveMessage, interrupts, history, batch, loopVars, HistoryOK,
       SnapshotOK, Messages
<1>9. CASE Deny
  BY <1>9 DEF Deny, Appending, SaveMessage, interrupts, history, batch,
       loopVars, HistoryOK, SnapshotOK, Messages
<1>10. CASE Break
  BY <1>10 DEF Break, NotClean, Aborted, OpenUserTurn, Appending, SaveMessage,
       interrupts, history, batch, loopVars, HistoryOK, SnapshotOK, Messages
<1>11. CASE Crash
  BY <1>11 DEF Crash, Enter, NotClean, interrupts, history, batch, loopVars,
       HistoryOK, SnapshotOK, Messages
<1> QED BY HistoryFrame, <1>1, <1>2, <1>3, <1>4, <1>5, <1>6, <1>7, <1>8, <1>9,
     <1>10, <1>11

LEMMA BatchFrame ==
  ASSUME [Next]_vars
  PROVE  \/ UNCHANGED <<clean, call, ran>>
         \/ Top
         \/ \E uses \in (SUBSET Uses) \ {{}} : ModelCallsTools(uses)
         \/ Launch
         \/ \E u \in Uses : Start(u)
         \/ \E u \in Uses : Return(u)
         \/ \E u \in Uses : ReturnInVain(u)
         \/ Break
         \/ Crash
  BY DEF Next, Step, vars, loopVars, history, batch, interrupts, Reject,
       Input, LimitReached, Cancelled, ModelReplies, ModelFails, BatchGate,
       BatchGateAgain, BatchEnds, Closed, Activate, InterruptResult,
       KeepPending, AppendUse, AppendResults, NextCycle, Reply, Finish,
       Invoke, Deny, Respond, Cancel

LEMMA BatchStep ==
  ASSUME BatchOK, [Next]_vars
  PROVE  BatchOK'
<1>1. CASE UNCHANGED <<clean, call, ran>>
  BY <1>1 DEF BatchOK, CallState
<1>2. CASE Top
  BY <1>2 DEF Top, Aborted, NoPending, interrupts, history, batch, loopVars,
       BatchOK, CallState
<1>3. ASSUME NEW uses \in (SUBSET Uses) \ {{}}, ModelCallsTools(uses)
      PROVE  BatchOK'
<2>1. call' \in [Uses -> CallState]
  BY <1>3 DEF ModelCallsTools, CallState
<2>2. ran' \in [Uses -> 0 .. 2]
  BY <1>3, NoRuns DEF ModelCallsTools
<2>3. clean' \in BOOLEAN
  BY <1>3 DEF ModelCallsTools
<2> QED BY <2>1, <2>2, <2>3 DEF BatchOK
<1>4. CASE Launch
  BY <1>4 DEF Launch, Requested, Aborted, interrupts, history, batch,
       loopVars, BatchOK, CallState
<1>5. ASSUME NEW u \in Uses, Start(u) PROVE BatchOK'
  BY <1>5 DEF Start, MayStart, InState, Aborted, interrupts, history, batch,
       loopVars, BatchOK, CallState
<1>6. ASSUME NEW u \in Uses, Return(u) PROVE BatchOK'
  BY <1>6 DEF Return, interrupts, history, batch, loopVars, BatchOK, CallState
<1>7. ASSUME NEW u \in Uses, ReturnInVain(u) PROVE BatchOK'
  BY <1>7 DEF ReturnInVain, interrupts, history, batch, loopVars, BatchOK,
       CallState
<1>8. CASE Break
<2>1. ran' \in [Uses -> 0 .. 2] /\ clean' \in BOOLEAN
  BY <1>8, NoRuns DEF Break, NotClean
<2>2. UNCHANGED call
  BY <1>8 DEF Break
<2> QED BY <2>1, <2>2 DEF BatchOK
<1>9. CASE Crash
<2>1. ran' \in [Uses -> 0 .. 2] /\ clean' \in BOOLEAN
  BY <1>9, NoRuns DEF Crash, NotClean
<2>2. call' \in [Uses -> CallState]
  BY <1>9 DEF Crash, CallState
<2> QED BY <2>1, <2>2 DEF BatchOK
<1> QED BY BatchFrame, <1>1, <1>2, <1>3, <1>4, <1>5, <1>6, <1>7, <1>8, <1>9

LEMMA InterruptFrame ==
  ASSUME [Next]_vars
  PROVE  \/ UNCHANGED interrupts
         \/ \E ids \in SUBSET Ids : Respond(ids)
         \/ \E uses \in (SUBSET Uses) \ {{}} : ModelCallsTools(uses)
         \/ BatchGate
         \/ BatchGateAgain
         \/ \E u \in Uses : Start(u)
         \/ \E u \in Uses : Return(u)
         \/ BatchEnds
         \/ Activate
         \/ NextCycle
         \/ Reply
         \/ Crash
  BY DEF Next, Step, vars, loopVars, history, batch, interrupts, Reject,
       Input, Top, LimitReached, Cancelled, ModelReplies, ModelFails, Launch,
       ReturnInVain, Closed, InterruptResult, KeepPending, AppendUse,
       AppendResults, Finish, Invoke, Deny, Cancel, Break

LEMMA InterruptStep ==
  ASSUME InterruptOK, SnapshotOK(saved), [Next]_vars
  PROVE  InterruptOK'
<1>1. CASE UNCHANGED interrupts
  BY <1>1 DEF InterruptOK, PendingOK, interrupts
<1>2. ASSUME NEW ids \in SUBSET Ids, Respond(ids) PROVE InterruptOK'
  BY <1>2 DEF Respond, Enter, interrupts, history, batch, loopVars,
       InterruptOK, PendingOK, SnapshotOK, Ids
<1>3. ASSUME NEW uses \in (SUBSET Uses) \ {{}}, ModelCallsTools(uses)
      PROVE  InterruptOK'
  BY <1>3 DEF ModelCallsTools, Aborted, Appending, SaveMessage, interrupts,
       history, batch, loopVars, InterruptOK, PendingOK, SnapshotOK, Ids
<1>4. CASE BatchGate
<2>1. raised' \subseteq Ids /\ answered' \subseteq raised' /\ activated' \in BOOLEAN
  BY <1>4 DEF BatchGate, InterruptOK, Ids
<2>2. PendingOK(pending')
  BY <1>4 DEF BatchGate, InterruptOK, PendingOK, Requested
<2> QED BY <2>1, <2>2 DEF InterruptOK, PendingOK
<1>5. CASE BatchGateAgain
  BY <1>5 DEF BatchGateAgain, Requested, interrupts, history, batch, loopVars,
       InterruptOK, PendingOK, SnapshotOK, Ids
<1>6. ASSUME NEW u \in Uses, Start(u) PROVE InterruptOK'
  BY <1>6 DEF Start, MayStart, InState, Aborted, interrupts, history, batch,
       loopVars, InterruptOK, PendingOK, SnapshotOK, Ids
<1>7. ASSUME NEW u \in Uses, Return(u) PROVE InterruptOK'
  BY <1>7 DEF Return, interrupts, history, batch, loopVars, InterruptOK,
       PendingOK, SnapshotOK, Ids
<1>8. CASE BatchEnds
  BY <1>8 DEF BatchEnds, ExecutorDone, Interrupted, InState, Requested, Ended,
       interrupts, history, batch, loopVars, InterruptOK, PendingOK,
       SnapshotOK, Ids
<1>9. CASE Activate
  BY <1>9 DEF Activate, interrupts, history, batch, loopVars, InterruptOK,
       PendingOK, SnapshotOK, Ids
<1>10. CASE NextCycle
<2>1. CASE Deactivate
  BY <2>1 DEF Deactivate, InterruptOK, PendingOK, NoPending, Ids
<2>2. CASE pending' = NoPending /\ UNCHANGED <<raised, answered, activated>>
  BY <2>2 DEF InterruptOK, PendingOK, NoPending, Ids
<2> QED BY <1>10, <2>1, <2>2 DEF NextCycle, ClearPending
<1>11. CASE Reply
  BY <1>11 DEF Reply, Deactivate, NoPending, interrupts, history, batch,
       loopVars, InterruptOK, PendingOK, SnapshotOK, Ids
<1>12. CASE Crash
  BY <1>12 DEF Crash, Enter, NotClean, interrupts, history, batch, loopVars,
       InterruptOK, PendingOK, SnapshotOK, Ids
<1> QED BY InterruptFrame, <1>1, <1>2, <1>3, <1>4, <1>5, <1>6, <1>7, <1>8,
     <1>9, <1>10, <1>11, <1>12

LEMMA TypeStep == ASSUME TypeInv, [Next]_vars PROVE TypeInv'
<1>1. PlaceOK' /\ BatchOK'
  BY PlaceStep, BatchStep DEF TypeInv
<1>2. HistoryOK' /\ InterruptOK'
  BY HistoryStep, InterruptStep DEF TypeInv
<1>3. SnapshotOK(Snapshot)'
  <2>1. HistoryOK' /\ InterruptOK' => SnapshotOK(Snapshot)'
    BY SnapshotType, PTL
  <2> QED BY <1>2, <2>1
<1>4. SnapshotOK(saved')
  BY <1>3, SavedStep DEF TypeInv, SnapshotOK
<1> QED BY <1>1, <1>2, <1>4 DEF TypeInv

LEMMA TypeInvariant == Spec => []TypeInv
  BY TypeInit, TypeStep, PTL DEF Spec

(* Every variable keeps its type; only recorded interrupts have responses,   *)
(* and only requested calls have kept results.                               *)
THEOREM TypeCorrect == Spec => []TypeOK
  BY TypeInvariant, TypeParts, PTL DEF TypeInv

-------------------------------------------------------------------------------
(* The history.  While it ends with a tool use, its results are on their way *)
(* and the consumer cannot stop; nothing is saved in between.                *)

Paired ==
  /\ sound /\ (last = "tool use" <=> pc = "append")
  /\ saved.sound /\ saved.last # "tool use"

LEMMA PairedFrame ==
  ASSUME [Next]_vars
  PROVE  \/ /\ UNCHANGED <<last, sound, saved>>
            /\ pc' = "append" <=> pc = "append"
         \/ Input
         \/ Cancelled
         \/ ModelReplies
         \/ \E uses \in (SUBSET Uses) \ {{}} : ModelCallsTools(uses)
         \/ AppendUse
         \/ AppendResults
         \/ NextCycle
         \/ Finish
         \/ Deny
         \/ Break
         \/ Crash
  BY DEF Next, Step, vars, loopVars, history, batch, interrupts, Reject, Top,
       LimitReached, ModelFails, BatchGate, BatchGateAgain, Launch, Start,
       Return, ReturnInVain, BatchEnds, Closed, Activate, InterruptResult,
       KeepPending, Reply, Invoke, Respond, Cancel, Enter, AtTop,
       ExecutorDone, Interrupted

LEMMA PairedStep ==
  ASSUME SaveOn = "invocation", "append" \notin BreakAt, Paired, [Next]_vars
  PROVE  Paired'
<1>1. CASE /\ UNCHANGED <<last, sound, saved>>
           /\ pc' = "append" <=> pc = "append"
  BY <1>1 DEF Paired
<1>2. CASE Input
  BY <1>2 DEF Input, Aborted, Appending, SaveMessage, interrupts, history,
       batch, loopVars, Paired
<1>3. CASE Cancelled
  BY <1>3 DEF Cancelled, AtTop, Aborted, OpenUserTurn, Appending, SaveMessage,
       interrupts, history, batch, loopVars, Paired
<1>4. CASE ModelReplies
  BY <1>4 DEF ModelReplies, Appending, SaveMessage, interrupts, history,
       batch, loopVars, Paired
<1>5. ASSUME NEW uses \in (SUBSET Uses) \ {{}}, ModelCallsTools(uses)
      PROVE  Paired'
  BY <1>5 DEF ModelCallsTools, Aborted, Appending, SaveMessage, interrupts,
       history, batch, loopVars, Paired
<1>6. CASE AppendUse
  BY <1>6 DEF AppendUse, Aborted, NoPending, Appending, SaveMessage,
       interrupts, history, batch, loopVars, Paired
<1>7. CASE AppendResults
  BY <1>7 DEF AppendResults, Appending, SaveMessage, interrupts, history,
       batch, loopVars, Paired
<1>8. CASE NextCycle
  BY <1>8 DEF NextCycle, ClearPending, Deactivate, NoPending, Appending,
       SaveMessage, interrupts, history, batch, loopVars, Paired
<1>9. CASE Finish
  BY <1>9 DEF Finish, Enter, Snapshot, interrupts, history, batch, loopVars,
       Paired
<1>10. CASE Deny
  BY <1>10 DEF Deny, Appending, SaveMessage, interrupts, history, batch,
       loopVars, Paired
<1>11. CASE Break
  BY <1>11 DEF Break, NotClean, Aborted, OpenUserTurn, Appending, SaveMessage,
       interrupts, history, batch, loopVars, Paired
<1>12. CASE Crash
  BY <1>12 DEF Crash, Enter, NotClean, interrupts, history, batch, loopVars,
       Paired
<1> QED BY PairedFrame, <1>1, <1>2, <1>3, <1>4, <1>5, <1>6, <1>7, <1>8, <1>9,
     <1>10, <1>11, <1>12

(* Every history that an idle agent has or that a session restores pairs     *)
(* tool uses with results, if no consumer stops between the two messages     *)
(* and only whole invocations are saved.                                     *)
THEOREM HistoryStaysPaired ==
  ASSUME SaveOn = "invocation", "append" \notin BreakAt
  PROVE  Spec => []PairedHistory
<1>1. Init => Paired
  BY DEF Init, Paired, Snapshot
<1>2. Paired /\ [Next]_vars => Paired'
  BY PairedStep
<1>3. Paired => PairedHistory
  BY DEF Paired, PairedHistory
<1> QED BY <1>1, <1>2, <1>3, PTL DEF Spec

-------------------------------------------------------------------------------
(* A batch is pending no longer once it is appended, but for the moment the  *)
(* results are yielded.                                                      *)

Unappended == {"before", "tools", "closing", "after", "skipped", "raised",
               "interrupted", "append"}

Once ==
  /\ appended \in 0 .. 1 /\ saved.appended \in 0 .. 1
  /\ appended = 1 => pending = NoPending \/ pc = "result"
  /\ pc \in Unappended => appended = 0
  /\ saved.appended = 1 => saved.pending = NoPending

LEMMA OnceFrame ==
  ASSUME SaveOn = "invocation", [Next]_vars
  PROVE  \/ /\ UNCHANGED <<appended, pending, saved>>
            /\ pc' \in Unappended => pc \in Unappended
            /\ pc = "result" => pc' = "result"
         \/ Top
         \/ \E uses \in (SUBSET Uses) \ {{}} : ModelCallsTools(uses)
         \/ BatchGate
         \/ BatchGateAgain
         \/ BatchEnds
         \/ AppendResults
         \/ NextCycle
         \/ Reply
         \/ Finish
         \/ Break
         \/ Crash
  BY DEF Next, Step, vars, loopVars, history, batch, interrupts, Reject,
       Input, LimitReached, Cancelled, ModelReplies, ModelFails, Launch,
       Start, Return, ReturnInVain, Closed, Activate, InterruptResult,
       KeepPending, AppendUse, Invoke, Deny, Respond, Cancel, Enter, AtTop,
       SaveMessage, Unappended

LEMMA OnceStep ==
  ASSUME SaveOn = "invocation", {"append", "result"} \cap BreakAt = {}, Once, [Next]_vars
  PROVE  Once'
<1>1. CASE /\ UNCHANGED <<appended, pending, saved>>
           /\ pc' \in Unappended => pc \in Unappended
           /\ pc = "result" => pc' = "result"
  BY <1>1 DEF Once, Unappended
<1>2. CASE Top
  BY <1>2 DEF Top, interrupts, history, batch, loopVars, Once, Unappended
<1>3. ASSUME NEW uses \in (SUBSET Uses) \ {{}}, ModelCallsTools(uses)
      PROVE  Once'
<2>1. appended' = 0 /\ pending' = pending /\ saved' = saved
  BY <1>3 DEF ModelCallsTools, SaveMessage
<2> QED BY <2>1 DEF Once
<1>4. CASE BatchGate
  BY <1>4 DEF BatchGate, interrupts, history, batch, loopVars, Once,
       Unappended
<1>5. CASE BatchGateAgain
  BY <1>5 DEF BatchGateAgain, interrupts, history, batch, loopVars, Once,
       Unappended
<1>6. CASE BatchEnds
  BY <1>6 DEF BatchEnds, ExecutorDone, Interrupted, interrupts, history,
       batch, loopVars, Once, Unappended
<1>7. CASE AppendResults
  BY <1>7 DEF AppendResults, SaveMessage, interrupts, history, batch,
       loopVars, Once, Unappended
<1>8. CASE NextCycle
  BY <1>8 DEF NextCycle, ClearPending, Deactivate, NoPending, SaveMessage,
       interrupts, history, batch, loopVars, Once, Unappended
<1>9. CASE Reply
  BY <1>9 DEF Reply, Deactivate, NoPending, interrupts, history, batch,
       loopVars, Once, Unappended
<1>10. CASE Finish
  BY <1>10 DEF Finish, Enter, Snapshot, interrupts, history, batch, loopVars,
       Once, Unappended
<1>11. CASE Break
  BY <1>11 DEF Break, NotClean, SaveMessage, interrupts, history, batch,
       loopVars, Once, Unappended
<1>12. CASE Crash
  BY <1>12 DEF Crash, Enter, NotClean, interrupts, history, batch, loopVars,
       Once, Unappended
<1> QED BY OnceFrame, <1>1, <1>2, <1>3, <1>4, <1>5, <1>6, <1>7, <1>8, <1>9,
     <1>10, <1>11, <1>12

(* However often a batch is interrupted, cancelled and resumed, and however  *)
(* often the process crashes, its messages are appended once, if no          *)
(* consumer stops while they are and only whole invocations are saved.       *)
THEOREM BatchAppendedOnce ==
  ASSUME SaveOn = "invocation", {"append", "result"} \cap BreakAt = {}
  PROVE  Spec => []AppendedOnce
<1>1. Init => Once
  BY DEF Init, Once, Unappended, Snapshot, NoPending
<1>2. Once /\ [Next]_vars => Once'
  BY OnceStep
<1>3. Once => AppendedOnce
  BY DEF Once, AppendedOnce
<1> QED BY <1>1, <1>2, <1>3, PTL DEF Spec

-------------------------------------------------------------------------------
(* Gates.  Tools run only while the executor does, and a reader who is gone  *)
(* stays away until the next invocation.                                     *)

Gated ==
  /\ \A u \in Uses : call[u] = "running" => pc \in {"tools", "closing"}
  /\ pc = "closing" => reader = "gone"
  /\ reader = "reading" =>
       \A u \in Uses : u \in HookGated /\ call[u] = "running" => u \in answered

LEMMA GatedFrame ==
  ASSUME [Next]_vars
  PROVE  \/ /\ UNCHANGED <<call, reader, answered>>
            /\ pc \in {"tools", "closing"} => pc' = pc
            /\ pc' = "closing" => pc = "closing"
         \/ Top
         \/ \E uses \in (SUBSET Uses) \ {{}} : ModelCallsTools(uses)
         \/ Launch
         \/ \E u \in Uses : Start(u)
         \/ \E u \in Uses : Return(u)
         \/ \E u \in Uses : ReturnInVain(u)
         \/ BatchEnds
         \/ Closed
         \/ NextCycle
         \/ Reply
         \/ Finish
         \/ Invoke
         \/ \E ids \in SUBSET Ids : Respond(ids)
         \/ Break
         \/ Crash
  BY DEF Next, Step, vars, loopVars, history, batch, interrupts, Reject,
       Input, LimitReached, Cancelled, ModelReplies, ModelFails, BatchGate,
       BatchGateAgain, Activate, InterruptResult, KeepPending, AppendUse,
       AppendResults, Deny, Cancel, Enter, AtTop, SaveMessage

LEMMA GatedStep ==
  ASSUME BatchOK, Gated, [Next]_vars
  PROVE  Gated'
<1>1. CASE /\ UNCHANGED <<call, reader, answered>>
           /\ pc \in {"tools", "closing"} => pc' = pc
           /\ pc' = "closing" => pc = "closing"
  BY <1>1 DEF Gated, BatchOK
<1>2. CASE Top
  BY <1>2 DEF Top, interrupts, history, batch, loopVars, Gated, BatchOK
<1>3. ASSUME NEW uses \in (SUBSET Uses) \ {{}}, ModelCallsTools(uses)
      PROVE  Gated'
  BY <1>3 DEF ModelCallsTools, Aborted, interrupts, history, batch, loopVars,
       Gated, BatchOK
<1>4. CASE Launch
  BY <1>4 DEF Launch, interrupts, history, batch, loopVars, Gated, BatchOK
<1>5. ASSUME NEW u \in Uses, Start(u) PROVE Gated'
  BY <1>5 DEF Start, MayStart, interrupts, history, batch, loopVars, Gated,
       BatchOK
<1>6. ASSUME NEW u \in Uses, Return(u) PROVE Gated'
  BY <1>6 DEF Return, interrupts, history, batch, loopVars, Gated, BatchOK
<1>7. ASSUME NEW u \in Uses, ReturnInVain(u) PROVE Gated'
  BY <1>7 DEF ReturnInVain, interrupts, history, batch, loopVars, Gated,
       BatchOK
<1>8. CASE BatchEnds
  BY <1>8 DEF BatchEnds, ExecutorDone, InState, Interrupted, interrupts,
       history, batch, loopVars, Gated, BatchOK
<1>9. CASE Closed
  BY <1>9 DEF Closed, InState, interrupts, history, batch, loopVars, Gated,
       BatchOK
<1>10. CASE NextCycle
  BY <1>10 DEF NextCycle, ClearPending, Deactivate, interrupts, history,
       batch, loopVars, Gated, BatchOK
<1>11. CASE Reply
  BY <1>11 DEF Reply, Deactivate, NoPending, interrupts, history, batch,
       loopVars, Gated, BatchOK
<1>12. CASE Finish
  BY <1>12 DEF Finish, Enter, interrupts, history, batch, loopVars, Gated,
       BatchOK
<1>13. CASE Invoke
  BY <1>13 DEF Invoke, Enter, interrupts, history, batch, loopVars, Gated,
       BatchOK
<1>14. ASSUME NEW ids \in SUBSET Ids, Respond(ids) PROVE Gated'
  BY <1>14 DEF Respond, Enter, interrupts, history, batch, loopVars, Gated,
       BatchOK
<1>15. CASE Break
  BY <1>15 DEF Break, NotClean, interrupts, history, batch, loopVars, Gated,
       BatchOK
<1>16. CASE Crash
  BY <1>16 DEF Crash, Enter, NotClean, interrupts, history, batch, loopVars,
       Gated, BatchOK
<1> QED BY GatedFrame, <1>1, <1>2, <1>3, <1>4, <1>5, <1>6, <1>7, <1>8, <1>9,
     <1>10, <1>11, <1>12, <1>13, <1>14, <1>15, <1>16

(* While the consumer reads, a tool for which a hook raised an interrupt     *)
(* runs only once the interrupt has a response.                              *)
THEOREM GatesHold ==
  ASSUME AgentLoopAssumption
  PROVE  Spec => []GatedToolsWaitWhileRead
<1>1. Init => Gated
  BY DEF Init, Gated
<1>2. TypeInv /\ Gated /\ [Next]_vars => Gated'
  BY GatedStep DEF TypeInv
<1>3. Gated => GatedToolsWaitWhileRead
  BY AgentLoopAssumption
     DEF Gated, GatedToolsWaitWhileRead, GatedToolsWait, AgentLoopAssumption
<1> QED BY <1>1, <1>2, <1>3, TypeInvariant, PTL DEF Spec

-------------------------------------------------------------------------------
(* Results.  A batch that is worked on is not empty, and once the executors  *)
(* are done with it each of its calls has a result.                          *)

Real ==
  /\ pc \in {"before", "tools", "after", "skipped", "append", "result"} =>
       \E u \in Uses : call[u] # "none"
  /\ pc \in {"before", "tools"} => \A u \in Uses : call[u] # "lost"
  /\ pc \in {"after", "skipped", "append", "result"} =>
       \A u \in Uses : call[u] \in {"none", "done", "refused"}

LEMMA RealFrame ==
  ASSUME [Next]_vars
  PROVE  \/ /\ UNCHANGED call
            /\ pc' \in {"before", "tools"} => pc \in {"before", "tools"}
            /\ pc' \in {"after", "skipped", "append", "result"} =>
                 pc \in {"after", "skipped", "append", "result"}
         \/ Top
         \/ \E uses \in (SUBSET Uses) \ {{}} : ModelCallsTools(uses)
         \/ Launch
         \/ \E u \in Uses : Start(u)
         \/ \E u \in Uses : Return(u)
         \/ \E u \in Uses : ReturnInVain(u)
         \/ BatchEnds
         \/ Break
         \/ Crash
  BY DEF Next, Step, vars, loopVars, history, batch, interrupts, Reject,
       Input, LimitReached, Cancelled, ModelReplies, ModelFails, BatchGate,
       BatchGateAgain, Closed, Activate, InterruptResult, KeepPending,
       AppendUse, AppendResults, NextCycle, Reply, Finish, Invoke, Deny,
       Respond, Cancel, Enter, AtTop

LEMMA RealStep ==
  ASSUME BatchOK, PendingOK(pending), Real, [Next]_vars
  PROVE  Real'
<1>1. CASE /\ UNCHANGED call
           /\ pc' \in {"before", "tools"} => pc \in {"before", "tools"}
           /\ pc' \in {"after", "skipped", "append", "result"} =>
                pc \in {"after", "skipped", "append", "result"}
  BY <1>1 DEF Real, BatchOK, CallState
<1>2. CASE Top
<2>1. pending # NoPending => \E u \in Uses : u \in pending.uses
  BY DEF PendingOK, NoPending
<2> QED BY <1>2, <2>1 DEF Top, Real
<1>3. ASSUME NEW uses \in (SUBSET Uses) \ {{}}, ModelCallsTools(uses)
      PROVE  Real'
  BY <1>3 DEF ModelCallsTools, Aborted, interrupts, history, batch, loopVars,
       Real, BatchOK, CallState
<1>4. CASE Launch
  BY <1>4 DEF Launch, Requested, interrupts, history, batch, loopVars, Real,
       BatchOK, CallState
<1>5. ASSUME NEW u \in Uses, Start(u) PROVE Real'
  BY <1>5 DEF Start, MayStart, interrupts, history, batch, loopVars, Real,
       BatchOK, CallState
<1>6. ASSUME NEW u \in Uses, Return(u) PROVE Real'
  BY <1>6 DEF Return, interrupts, history, batch, loopVars, Real, BatchOK,
       CallState
<1>7. ASSUME NEW u \in Uses, ReturnInVain(u) PROVE Real'
  BY <1>7 DEF ReturnInVain, interrupts, history, batch, loopVars, Real,
       BatchOK, CallState
<1>8. CASE BatchEnds
  BY <1>8 DEF BatchEnds, ExecutorDone, InState, Interrupted, interrupts,
       history, batch, loopVars, Real, BatchOK, CallState
<1>9. CASE Break
  BY <1>9 DEF Break, NotClean, interrupts, history, batch, loopVars, Real,
       BatchOK, CallState
<1>10. CASE Crash
  BY <1>10 DEF Crash, Enter, NotClean, interrupts, history, batch, loopVars,
       Real, BatchOK, CallState
<1> QED BY RealFrame, <1>1, <1>2, <1>3, <1>4, <1>5, <1>6, <1>7, <1>8, <1>9,
     <1>10

(* What is appended for a batch is the outcome or the refusal of each call.  *)
THEOREM AppendedResultsAreReal == Spec => []ResultsAreReal
<1>1. Init => Real
  BY DEF Init, Real
<1>2. TypeInv /\ Real /\ [Next]_vars => Real'
  BY RealStep DEF TypeInv, InterruptOK
<1>3. Real => ResultsAreReal
  BY DEF Real, ResultsAreReal, Requested, Ended, InState
<1> QED BY <1>1, <1>2, <1>3, TypeInvariant, PTL DEF Spec

-------------------------------------------------------------------------------
(* Interrupts.  An activated agent has a batch to resume and an interrupt    *)
(* to respond to; so has every snapshot of one.                              *)

CanRespond(some, p) == some \cap (p.uses \cup {"batch"}) # {}

Resumable ==
  /\ activated => pending # NoPending /\ CanRespond(raised, pending)
  /\ pc \in {"raised", "interrupted"} =>
       pending # NoPending /\ CanRespond(raised \ answered, pending)
  /\ pc \in {"before", "tools"} =>
       \A u \in Uses : call[u] = "raised" => u \in raised \ answered
  /\ pc = "model" => ~activated

SnapshotResumable(s) ==
  s.activated => s.pending # NoPending /\ CanRespond(s.raised, s.pending)

LEMMA ResumableSnapshot == Resumable => SnapshotResumable(Snapshot)
  BY DEF Resumable, SnapshotResumable, Snapshot

LEMMA ResumableFrame ==
  ASSUME [Next]_vars
  PROVE  \/ /\ UNCHANGED <<call, interrupts>>
            /\ pc' \in {"raised", "interrupted", "before", "tools", "model"} => pc' = pc
         \/ Input
         \/ Top
         \/ \E uses \in (SUBSET Uses) \ {{}} : ModelCallsTools(uses)
         \/ BatchGate
         \/ BatchGateAgain
         \/ Launch
         \/ \E u \in Uses : Start(u)
         \/ \E u \in Uses : Return(u)
         \/ \E u \in Uses : ReturnInVain(u)
         \/ BatchEnds
         \/ Activate
         \/ NextCycle
         \/ Reply
         \/ \E ids \in SUBSET Ids : Respond(ids)
         \/ Break
         \/ Crash
  BY DEF Next, Step, vars, loopVars, history, batch, interrupts, Reject,
       LimitReached, Cancelled, ModelReplies, ModelFails, Closed,
       InterruptResult, KeepPending, AppendUse, AppendResults, Finish, Invoke,
       Deny, Cancel, Enter, AtTop

LEMMA ResumableStep ==
  ASSUME AgentLoopAssumption, BatchOK, InterruptOK, Real, SnapshotResumable(saved), Resumable, [Next]_vars
  PROVE  Resumable'
<1>1. CASE /\ UNCHANGED <<call, interrupts>>
           /\ pc' \in {"raised", "interrupted", "before", "tools", "model"} => pc' = pc
  BY <1>1 DEF Resumable, interrupts
<1>2. CASE Input
  BY <1>2 DEF Input, interrupts, batch, Resumable
<1>3. CASE Top
  BY <1>3 DEF Top, Resumable, interrupts
<1>4. ASSUME NEW uses \in (SUBSET Uses) \ {{}}, ModelCallsTools(uses)
      PROVE  Resumable'
  BY <1>4 DEF ModelCallsTools, Aborted, interrupts, history, batch, loopVars,
       Resumable, CanRespond, BatchOK, CallState, InterruptOK, PendingOK
<1>5. CASE BatchGate
<2>1. CASE reader = "reading"
  <3>1. \E u \in Uses : u \in Requested
    BY <1>5 DEF BatchGate, Real, Requested
  <3>2. pending'.uses = Requested /\ pending' # NoPending /\ "batch" \in raised' \ answered'
    BY <1>5, <2>1, <3>1 DEF BatchGate, NoPending, InterruptOK
  <3> QED BY <1>5, <2>1, <3>2 DEF BatchGate, Resumable, CanRespond
<2>2. CASE reader # "reading"
  <3>1. UNCHANGED <<pc, call, pending, answered, activated>> /\ pc = "before"
    BY <1>5, <2>2 DEF BatchGate, batch
  <3>2. raised' = raised \cup {"batch"}
    BY <1>5 DEF BatchGate
  <3> QED BY <3>1, <3>2 DEF Resumable, CanRespond
<2> QED BY <2>1, <2>2
<1>6. CASE BatchGateAgain
<2>1. \E u \in Uses : u \in Requested
  BY <1>6 DEF BatchGateAgain, Real, Requested
<2>2. pending'.uses = Requested /\ pending' # NoPending /\ "batch" \in raised' \ answered'
  BY <1>6, <2>1 DEF BatchGateAgain, NoPending, InterruptOK
<2> QED BY <1>6, <2>2 DEF BatchGateAgain, Resumable, CanRespond
<1>7. CASE Launch
<2>1. UNCHANGED interrupts /\ pc = "before"
  BY <1>7 DEF Launch, interrupts
<2>2. CASE pc' = "skipped"
  BY <1>7, <2>1, <2>2 DEF Resumable, interrupts
<2>3. CASE pc' = "tools" /\ UNCHANGED call
  BY <1>7, <2>1, <2>3 DEF Resumable, interrupts
<2> QED BY <1>7, <2>2, <2>3 DEF Launch
<1>8. ASSUME NEW u \in Uses, Start(u) PROVE Resumable'
  BY <1>8 DEF Start, MayStart, interrupts, history, batch, loopVars,
       Resumable, CanRespond, BatchOK, CallState, InterruptOK, PendingOK
<1>9. ASSUME NEW u \in Uses, Return(u) PROVE Resumable'
  BY <1>9 DEF Return, interrupts, history, batch, loopVars, Resumable,
       CanRespond, BatchOK, CallState, InterruptOK, PendingOK
<1>10. ASSUME NEW u \in Uses, ReturnInVain(u) PROVE Resumable'
  BY <1>10 DEF ReturnInVain, interrupts, history, batch, loopVars, Resumable,
       CanRespond, BatchOK, CallState, InterruptOK, PendingOK
<1>11. CASE BatchEnds
<2>1. CASE InState("raised") # {}
  <3>1. PICK u \in Uses : call[u] = "raised"
    BY <2>1 DEF InState
  <3>2. u \in raised \ answered /\ u \in Requested
    BY <1>11, <3>1 DEF BatchEnds, ExecutorDone, Resumable, Requested
  <3>3. pending'.uses = Requested /\ pending' # NoPending /\ pc' = "raised"
    BY <1>11, <2>1, <3>2 DEF BatchEnds, Interrupted, NoPending
  <3> QED BY <1>11, <3>2, <3>3 DEF BatchEnds, Resumable, CanRespond
<2>2. CASE InState("raised") = {}
  BY <1>11, <2>2 DEF BatchEnds, Resumable
<2> QED BY <2>1, <2>2
<1>12. CASE Activate
  BY <1>12 DEF Activate, Resumable, CanRespond
<1>13. CASE NextCycle
  BY <1>13 DEF NextCycle, ClearPending, Deactivate, Resumable
<1>14. CASE Reply
  BY <1>14 DEF Reply, Deactivate, Resumable, interrupts
<1>15. ASSUME NEW ids \in SUBSET Ids, Respond(ids) PROVE Resumable'
  BY <1>15 DEF Respond, Enter, Resumable
<1>16. CASE Break
  BY <1>16 DEF Break, interrupts, Resumable
<1>17. CASE Crash
  BY <1>17 DEF Crash, Enter, SnapshotResumable, Resumable
<1> QED BY ResumableFrame, <1>1, <1>2, <1>3, <1>4, <1>5, <1>6, <1>7, <1>8,
     <1>9, <1>10, <1>11, <1>12, <1>13, <1>14, <1>15, <1>16, <1>17

(* An interrupted agent can always be resumed, also one that was restored:   *)
(* a batch is pending, and an interrupt of it has no response yet.           *)
THEOREM InterruptedAgentsResume ==
  ASSUME AgentLoopAssumption
  PROVE  Spec => []InterruptedCanResume
<1> DEFINE IInv == Resumable /\ SnapshotResumable(saved) /\ Real
<1>1. Init => IInv
  BY DEF Init, Resumable, SnapshotResumable, Snapshot, Real
<1>2. TypeInv /\ IInv /\ [Next]_vars => IInv'
  <2> SUFFICES ASSUME TypeInv, IInv, [Next]_vars PROVE IInv'
    OBVIOUS
  <2>1. Real'
    BY RealStep DEF TypeInv, InterruptOK
  <2>2. Resumable'
    BY AgentLoopAssumption, ResumableStep DEF TypeInv
  <2>3. Resumable' => SnapshotResumable(Snapshot)'
    BY ResumableSnapshot, PTL
  <2>4. SnapshotResumable(saved)'
    BY <2>2, <2>3, SavedStep DEF SnapshotResumable
  <2> QED BY <2>1, <2>2, <2>4
<1>3. IInv => InterruptedCanResume
  BY DEF Resumable, CanRespond, InterruptedCanResume
<1> QED BY <1>1, <1>2, <1>3, TypeInvariant, PTL DEF Spec

-------------------------------------------------------------------------------
(* Tools run once.  A tool that ran is done where the batch is worked on,    *)
(* kept where it is pending, and its batch has passed the gate.              *)

RanOnce ==
  /\ clean => reader = "reading"
  /\ clean /\ BatchGated = "first" /\ pc = "tools" => "batch" \in answered
  /\ BatchGated = "never" => "batch" \notin raised
  /\ \A u \in Uses : ran[u] # 0 =>
       /\ ran[u] = 1
       /\ pc \in {"before", "tools", "after"} => call[u] = "done"
       /\ pending = NoPending \/ u \in pending.done \/
          pc \in {"tools", "after", "append", "result"}
       /\ BatchGated = "first" =>
            \/ "batch" \in answered
            \/ pending = NoPending /\ pc \notin {"before", "tools", "after"}

SnapshotUngated(s) == BatchGated = "never" => "batch" \notin s.raised

LEMMA UngatedSnapshot == RanOnce => SnapshotUngated(Snapshot)
  BY DEF RanOnce, SnapshotUngated, Snapshot

LEMMA RanFrame ==
  ASSUME [Next]_vars
  PROVE  \/ /\ UNCHANGED <<reader, clean, call, ran, pending, raised, answered>>
            /\ pc' \in {"before", "tools", "after"} => pc' = pc
            /\ pc \in {"tools", "after", "append", "result"} => pc' = pc
         \/ Top
         \/ \E uses \in (SUBSET Uses) \ {{}} : ModelCallsTools(uses)
         \/ BatchGate
         \/ BatchGateAgain
         \/ Launch
         \/ \E u \in Uses : Start(u)
         \/ \E u \in Uses : Return(u)
         \/ \E u \in Uses : ReturnInVain(u)
         \/ BatchEnds
         \/ KeepPending
         \/ AppendUse
         \/ AppendResults
         \/ NextCycle
         \/ Reply
         \/ Finish
         \/ Invoke
         \/ \E ids \in SUBSET Ids : Respond(ids)
         \/ Break
         \/ Crash
  BY DEF Next, Step, vars, loopVars, history, batch, interrupts, Reject,
       Input, LimitReached, Cancelled, ModelReplies, ModelFails, Closed,
       Activate, InterruptResult, Deny, Cancel, Enter, AtTop

LEMMA RanStep ==
  ASSUME AgentLoopAssumption, BatchGated # "any", BatchOK, InterruptOK, SnapshotUngated(saved), RanOnce, [Next]_vars
  PROVE  RanOnce'
<1>1. CASE /\ UNCHANGED <<reader, clean, call, ran, pending, raised, answered>>
           /\ pc' \in {"before", "tools", "after"} => pc' = pc
           /\ pc \in {"tools", "after", "append", "result"} => pc' = pc
  BY <1>1 DEF RanOnce
<1>2. CASE Top
  BY <1>2, AgentLoopAssumption DEF Top, interrupts, history, batch, loopVars,
       RanOnce, BatchOK, InterruptOK, SnapshotUngated, AgentLoopAssumption
<1>3. ASSUME NEW uses \in (SUBSET Uses) \ {{}}, ModelCallsTools(uses)
      PROVE  RanOnce'
  BY <1>3, AgentLoopAssumption DEF ModelCallsTools, Aborted, interrupts,
       history, batch, loopVars, RanOnce, BatchOK, InterruptOK,
       SnapshotUngated, AgentLoopAssumption
<1>4. CASE BatchGate
  BY <1>4, AgentLoopAssumption DEF BatchGate, Requested, interrupts, history,
       batch, loopVars, RanOnce, BatchOK, InterruptOK, SnapshotUngated,
       AgentLoopAssumption
<1>5. CASE BatchGateAgain
  BY <1>5, AgentLoopAssumption DEF BatchGateAgain, Requested, interrupts,
       history, batch, loopVars, RanOnce, BatchOK, InterruptOK,
       SnapshotUngated, AgentLoopAssumption
<1>6. CASE Launch
<2>1. UNCHANGED <<reader, clean, ran, pending, raised, answered>> /\ pc = "before"
  BY <1>6 DEF Launch, interrupts
<2>2. CASE pc' = "skipped"
  BY <1>6, <2>1, <2>2 DEF RanOnce
<2>3. CASE pc' = "tools" /\ UNCHANGED call
  BY <1>6, <2>1, <2>3 DEF Launch, RanOnce
<2> QED BY <1>6, <2>2, <2>3 DEF Launch
<1>7. ASSUME NEW u \in Uses, Start(u) PROVE RanOnce'
  BY <1>7, AgentLoopAssumption DEF Start, MayStart, interrupts, history,
       batch, loopVars, RanOnce, BatchOK, InterruptOK, SnapshotUngated,
       AgentLoopAssumption
<1>8. ASSUME NEW u \in Uses, Return(u) PROVE RanOnce'
  BY <1>8, AgentLoopAssumption DEF Return, interrupts, history, batch,
       loopVars, RanOnce, BatchOK, InterruptOK, SnapshotUngated,
       AgentLoopAssumption
<1>9. ASSUME NEW u \in Uses, ReturnInVain(u) PROVE RanOnce'
  BY <1>9, AgentLoopAssumption DEF ReturnInVain, interrupts, history, batch,
       loopVars, RanOnce, BatchOK, InterruptOK, SnapshotUngated,
       AgentLoopAssumption
<1>10. CASE BatchEnds
  BY <1>10, AgentLoopAssumption DEF BatchEnds, ExecutorDone, InState,
       Interrupted, Ended, interrupts, history, batch, loopVars, RanOnce,
       BatchOK, InterruptOK, SnapshotUngated, AgentLoopAssumption
<1>11. CASE KeepPending
  BY <1>11, AgentLoopAssumption DEF KeepPending, interrupts, history, batch,
       loopVars, RanOnce, BatchOK, InterruptOK, SnapshotUngated,
       AgentLoopAssumption
<1>12. CASE AppendUse
  BY <1>12, AgentLoopAssumption DEF AppendUse, NoPending, interrupts, history,
       batch, loopVars, RanOnce, BatchOK, InterruptOK, SnapshotUngated,
       AgentLoopAssumption
<1>13. CASE AppendResults
  BY <1>13, AgentLoopAssumption DEF AppendResults, SaveMessage, interrupts,
       history, batch, loopVars, RanOnce, BatchOK, InterruptOK,
       SnapshotUngated, AgentLoopAssumption
<1>14. CASE NextCycle
  BY <1>14, AgentLoopAssumption DEF NextCycle, ClearPending, Deactivate,
       interrupts, history, batch, loopVars, RanOnce, BatchOK, InterruptOK,
       SnapshotUngated, AgentLoopAssumption
<1>15. CASE Reply
  BY <1>15, AgentLoopAssumption DEF Reply, Deactivate, interrupts, history,
       batch, loopVars, RanOnce, BatchOK, InterruptOK, SnapshotUngated,
       AgentLoopAssumption
<1>16. CASE Finish
  BY <1>16, AgentLoopAssumption DEF Finish, Enter, interrupts, history, batch,
       loopVars, RanOnce, BatchOK, InterruptOK, SnapshotUngated,
       AgentLoopAssumption
<1>17. CASE Invoke
  BY <1>17, AgentLoopAssumption DEF Invoke, Enter, interrupts, history, batch,
       loopVars, RanOnce, BatchOK, InterruptOK, SnapshotUngated,
       AgentLoopAssumption
<1>18. ASSUME NEW ids \in SUBSET Ids, Respond(ids) PROVE RanOnce'
  BY <1>18, AgentLoopAssumption DEF Respond, Enter, interrupts, history,
       batch, loopVars, RanOnce, BatchOK, InterruptOK, SnapshotUngated,
       AgentLoopAssumption
<1>19. CASE Break
  BY <1>19, AgentLoopAssumption DEF Break, NotClean, interrupts, history,
       batch, loopVars, RanOnce, BatchOK, InterruptOK, SnapshotUngated,
       AgentLoopAssumption
<1>20. CASE Crash
  BY <1>20, AgentLoopAssumption DEF Crash, Enter, NotClean, interrupts,
       history, batch, loopVars, RanOnce, BatchOK, InterruptOK,
       SnapshotUngated, AgentLoopAssumption
<1> QED BY RanFrame, <1>1, <1>2, <1>3, <1>4, <1>5, <1>6, <1>7, <1>8, <1>9,
     <1>10, <1>11, <1>12, <1>13, <1>14, <1>15, <1>16, <1>17, <1>18, <1>19,
     <1>20

(* A tool whose result is kept is not run again, however often its batch is  *)
(* interrupted, cancelled and resumed; a BeforeTools hook that interrupts a  *)
(* resumption is the exception.                                              *)
THEOREM ToolsRunOnce ==
  ASSUME AgentLoopAssumption, BatchGated # "any"
  PROVE  Spec => []RunOnce
<1> DEFINE IInv == RanOnce /\ SnapshotUngated(saved)
<1>1. Init => IInv
  BY DEF Init, RanOnce, SnapshotUngated, Snapshot
<1>2. TypeInv /\ IInv /\ [Next]_vars => IInv'
  <2> SUFFICES ASSUME TypeInv, IInv, [Next]_vars PROVE IInv'
    OBVIOUS
  <2>1. RanOnce'
    BY AgentLoopAssumption, RanStep DEF TypeInv
  <2>2. RanOnce' => SnapshotUngated(Snapshot)'
    BY UngatedSnapshot, PTL
  <2>3. SnapshotUngated(saved)'
    BY <2>1, <2>2, SavedStep DEF SnapshotUngated
  <2> QED BY <2>1, <2>3
<1>3. TypeInv /\ IInv => RunOnce
  BY DEF TypeInv, BatchOK, RanOnce, RunOnce
<1> QED BY <1>1, <1>2, <1>3, TypeInvariant, PTL DEF Spec

===============================================================================
