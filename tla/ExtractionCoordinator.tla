----------------------- MODULE ExtractionCoordinator -----------------------
(***************************************************************************)
(* Background saving of conversation messages to memory stores             *)
(* (memory/extraction/coordinator.ts).                                     *)
(*                                                                         *)
(* One buffer is shared by all stores.  Each store has a high-water mark,  *)
(* a chain of saves that run one after another, and a failure streak that  *)
(* makes it back off.  A save reads the buffer when its turn comes, moves  *)
(* the mark before it writes, and moves it back if the write fails; every  *)
(* save trims from the buffer what the marks say nobody needs any more.    *)
(* Saves of different stores interleave freely at the awaited write.       *)
(*                                                                         *)
(* A message is its sequence number: the buffer is ordered by it, so a set *)
(* of numbers stands for the array.                                        *)
(***************************************************************************)
EXTENDS Integers, FiniteSets, Sequences

CONSTANTS
  Stores,                     (* stores with extraction configured           *)
  Kinds,                      (* kinds of content a message may have         *)
  Exclude,                    (* config.filter of each store: kinds dropped  *)
  Failing,                    (* stores whose writes may fail                *)
  SaveFailuresBeforeBackoff,
  BackoffProbeInterval,
  MaxMessages,                (* bound: messages recorded                    *)
  MaxQueued                   (* bound: saves queued behind a running one    *)

ASSUME ExcludeAssumption == Exclude \in [Stores -> SUBSET Kinds]
ASSUME FailingAssumption == Failing \subseteq Stores
ASSUME BackoffAssumption ==
  /\ SaveFailuresBeforeBackoff \in Nat \ {0}
  /\ BackoffProbeInterval \in Nat \ {0}
ASSUME BoundsAssumption == MaxMessages \in Nat /\ MaxQueued \in Nat
ASSUME StoresAssumption == IsFiniteSet(Stores) /\ Stores # {}

VARIABLES
  log,        (* history: the kind of every message recorded; _nextSeq is its length *)
  pending,    (* _pending: sequence numbers buffered                         *)
  marks,      (* _marks                                                      *)
  queued,     (* _chains: saves of the store whose turn has not come         *)
  batch,      (* the messages the store's running save is writing, {} if none *)
  before,     (* the mark the running save found, -1 if none                 *)
  failures,   (* _consecutiveFailures, which only matters up to the limit    *)
  probes,     (* _backoffCounters, which only matters modulo the interval    *)
  saved,      (* history: what each store has acknowledged                   *)
  robbed,     (* history: the stores a failed write of which found its       *)
              (* messages trimmed by a sibling                               *)
  flush       (* the call of flush, if one is waiting                        *)

chains == <<queued, batch, before>>
backoff == <<failures, probes>>
vars == <<log, pending, marks, chains, backoff, saved, robbed, flush>>

-----------------------------------------------------------------------------
NextSeq == Len(log)
Recorded == 0 .. NextSeq - 1

(* _filterMessages: the messages of a batch the store wants.                 *)
Filtered(s, messages) == {m \in messages : log[m + 1] \notin Exclude[s]}

Fresh(s) == {m \in pending : m > marks[s]}

(* Mutant of Highest: the number the next message will get.                  *)
AfterHighest(messages) == 1 + CHOOSE m \in messages : \A n \in messages : n <= m

Highest(messages) == CHOOSE m \in messages : \A n \in messages : n <= m

(* _trim, entered with marks mk: what is above the lowest mark stays.        *)
Trim(mk) == pending' = {m \in pending : \E s \in Stores : m > mk[s]}

Saving(s) == batch[s] # {}

BackedOff(s) == failures[s] >= SaveFailuresBeforeBackoff

(* The saves of a store that a promise taken from _chains now waits for.     *)
Links(s) == queued[s] + (IF Saving(s) THEN 1 ELSE 0)

(* flush remembers how many of those are left, whether a save was added to   *)
(* any chain since, and which messages had been recorded when it was called. *)
NoFlush == [waiting |-> FALSE, ahead |-> [s \in Stores |-> 0],
            moved |-> FALSE, due |-> 0]

FlushSeesEnqueue == flush' = [flush EXCEPT !.moved = flush.waiting]

FlushSeesLinkDone(s) ==
  flush' = [flush EXCEPT !.ahead[s] = IF @ > 0 THEN @ - 1 ELSE 0]

-----------------------------------------------------------------------------
Init ==
  /\ log = <<>>
  /\ pending = {}
  /\ marks = [s \in Stores |-> -1]
  /\ queued = [s \in Stores |-> 0]
  /\ batch = [s \in Stores |-> {}]
  /\ before = [s \in Stores |-> -1]
  /\ failures = [s \in Stores |-> 0]
  /\ probes = [s \in Stores |-> 0]
  /\ saved = [s \in Stores |-> {}]
  /\ robbed = {}
  /\ flush = NoFlush

(* record, from the agent's MessageAddedEvent hook.                          *)
Record(kind) ==
  /\ NextSeq < MaxMessages
  /\ log' = Append(log, kind)
  /\ pending' = pending \cup {NextSeq}
  /\ UNCHANGED <<marks, chains, backoff, saved, robbed, flush>>

(* Mutant of Process: a backed-off store is not tried again.                 *)
ProcessWithoutProbe(s) ==
  /\ queued[s] < MaxQueued /\ ~BackedOff(s)
  /\ queued' = [queued EXCEPT ![s] = @ + 1]
  /\ FlushSeesEnqueue
  /\ UNCHANGED <<log, pending, marks, batch, before, backoff, saved, robbed>>

(* process, from a trigger of the store: a backed-off store lets only every  *)
(* BackoffProbeInterval-th request through (_shouldAttempt).                 *)
Process(s) ==
  LET count == (probes[s] + 1) % BackoffProbeInterval IN
  /\ queued[s] < MaxQueued
  /\ probes' = [probes EXCEPT ![s] = IF BackedOff(s) THEN count ELSE @]
  /\ IF BackedOff(s) /\ count # 0
     THEN UNCHANGED <<queued, flush>>
     ELSE /\ queued' = [queued EXCEPT ![s] = @ + 1]
          /\ FlushSeesEnqueue
  /\ UNCHANGED <<log, pending, marks, batch, before, failures, saved, robbed>>

(* The turn of a queued save has come (_extract up to its await).  It ends   *)
(* at once if there is nothing new, or nothing the store wants.              *)
NothingFresh(s) ==
  /\ Fresh(s) = {}
  /\ FlushSeesLinkDone(s)
  /\ UNCHANGED <<pending, marks, batch, before>>

NothingWanted(s) ==
  LET advanced == [marks EXCEPT ![s] = Highest(Fresh(s))] IN
  /\ Fresh(s) # {} /\ Filtered(s, Fresh(s)) = {}
  /\ marks' = advanced
  /\ Trim(advanced)
  /\ FlushSeesLinkDone(s)
  /\ UNCHANGED <<batch, before>>

(* Mutant of BeginWrite: the mark does not move.                             *)
BeginWriteBelowMark(s) ==
  /\ Filtered(s, Fresh(s)) # {}
  /\ batch' = [batch EXCEPT ![s] = Filtered(s, Fresh(s))]
  /\ before' = [before EXCEPT ![s] = marks[s]]
  /\ UNCHANGED <<marks, pending, flush>>

BeginWrite(s) ==
  /\ Filtered(s, Fresh(s)) # {}
  /\ marks' = [marks EXCEPT ![s] = Highest(Fresh(s))]
  /\ batch' = [batch EXCEPT ![s] = Filtered(s, Fresh(s))]
  /\ before' = [before EXCEPT ![s] = marks[s]]
  /\ UNCHANGED <<pending, flush>>

Extract(s) ==
  /\ queued[s] > 0 /\ ~Saving(s)
  /\ queued' = [queued EXCEPT ![s] = @ - 1]
  /\ NothingFresh(s) \/ NothingWanted(s) \/ BeginWrite(s)
  /\ UNCHANGED <<log, backoff, saved, robbed>>

WriteSucceeds(s) ==
  /\ Saving(s)
  /\ saved' = [saved EXCEPT ![s] = @ \cup batch[s]]
  /\ failures' = [failures EXCEPT ![s] = 0]
  /\ probes' = [probes EXCEPT ![s] = 0]
  /\ Trim(marks)
  /\ batch' = [batch EXCEPT ![s] = {}]
  /\ before' = [before EXCEPT ![s] = -1]
  /\ FlushSeesLinkDone(s)
  /\ UNCHANGED <<log, marks, queued, robbed>>

(* Mutant of WriteFails: the mark stays where the save had moved it.         *)
WriteFailsForGood(s) ==
  /\ Saving(s) /\ s \in Failing
  /\ failures' = [failures EXCEPT ![s] = IF BackedOff(s) THEN @ ELSE @ + 1]
  /\ Trim(marks)
  /\ batch' = [batch EXCEPT ![s] = {}]
  /\ before' = [before EXCEPT ![s] = -1]
  /\ FlushSeesLinkDone(s)
  /\ UNCHANGED <<log, marks, queued, probes, saved, robbed>>

(* The write rejects: _onSaveFailed puts the mark back, then _trim runs.     *)
WriteFails(s) ==
  LET restored == [marks EXCEPT ![s] = before[s]] IN
  /\ Saving(s) /\ s \in Failing
  /\ failures' = [failures EXCEPT ![s] =
                    IF BackedOff(s) THEN @ ELSE @ + 1]
  /\ marks' = restored
  /\ Trim(restored)
  /\ batch' = [batch EXCEPT ![s] = {}]
  /\ before' = [before EXCEPT ![s] = -1]
  /\ robbed' = IF batch[s] \subseteq pending THEN robbed ELSE robbed \cup {s}
  /\ FlushSeesLinkDone(s)
  /\ UNCHANGED <<log, queued, probes, saved>>

(* Mutant of Flush: it takes the promises before it queues its own saves.    *)
FlushOfOthers ==
  /\ ~flush.waiting
  /\ \A s \in Stores : queued[s] < MaxQueued
  /\ queued' = [s \in Stores |-> queued[s] + 1]
  /\ flush' = [waiting |-> TRUE, ahead |-> [s \in Stores |-> Links(s)],
               moved |-> FALSE, due |-> NextSeq]
  /\ UNCHANGED <<log, pending, marks, batch, before, backoff, saved, robbed>>

(* flush queues a save for every store, past the backoff, and takes the      *)
(* promises then in _chains.                                                 *)
Flush ==
  /\ ~flush.waiting
  /\ \A s \in Stores : queued[s] < MaxQueued
  /\ queued' = [s \in Stores |-> queued[s] + 1]
  /\ flush' = [waiting |-> TRUE, ahead |-> [s \in Stores |-> Links(s) + 1],
               moved |-> FALSE, due |-> NextSeq]
  /\ UNCHANGED <<log, pending, marks, batch, before, backoff, saved, robbed>>

(* All the promises flush took are settled: it returns, unless a save was    *)
(* added meanwhile.                                                          *)
FlushSettles ==
  /\ flush.waiting /\ \A s \in Stores : flush.ahead[s] = 0
  /\ flush' = IF flush.moved
              THEN [flush EXCEPT !.ahead = [s \in Stores |-> Links(s)],
                                 !.moved = FALSE]
              ELSE NoFlush
  /\ UNCHANGED <<log, pending, marks, chains, backoff, saved, robbed>>

Next ==
  \/ \E kind \in Kinds : Record(kind)
  \/ \E s \in Stores : Process(s) \/ Extract(s)
  \/ \E s \in Stores : WriteSucceeds(s) \/ WriteFails(s)
  \/ Flush
  \/ FlushSettles

Spec == Init /\ [][Next]_vars

(* Microtasks run, a store answers every write, and the triggers keep        *)
(* firing, as they do while the agent is being invoked.                      *)
Fairness ==
  /\ \A s \in Stores :
       /\ WF_vars(Extract(s))
       /\ WF_vars(WriteSucceeds(s) \/ WriteFails(s))
       /\ WF_vars(Process(s))
  /\ WF_vars(FlushSettles)

FairSpec == Spec /\ Fairness

-----------------------------------------------------------------------------
(***************************************************************************)
(* Properties                                                              *)
(***************************************************************************)

TypeOK ==
  /\ log \in Seq(Kinds) /\ NextSeq <= MaxMessages
  /\ pending \subseteq Recorded
  /\ marks \in [Stores -> Recorded \cup {-1}]
  /\ queued \in [Stores -> 0 .. MaxQueued]
  /\ batch \in [Stores -> SUBSET Recorded]
  /\ before \in [Stores -> Recorded \cup {-1}]
  /\ failures \in [Stores -> 0 .. SaveFailuresBeforeBackoff]
  /\ probes \in [Stores -> 0 .. BackoffProbeInterval - 1]
  /\ saved \in [Stores -> SUBSET Recorded]
  /\ robbed \subseteq Failing
  /\ flush \in [waiting : BOOLEAN, ahead : [Stores -> 0 .. MaxQueued + 1],
                moved : BOOLEAN, due : 0 .. MaxMessages]

(* "The same message is never saved twice to the same store", and saves do   *)
(* not "run out of order": what a store is being given comes after all it    *)
(* has acknowledged, whatever failed, was retried or was trimmed in between. *)
SavedInOrder ==
  \A s \in Stores : \A m \in saved[s], n \in batch[s] : m < n

(* A message the store wants is acknowledged, on its way, or still to come:  *)
(* buffered above the mark, so that the next save picks it up.               *)
Kept(s) ==
  \A m \in Filtered(s, Recorded) : m \in saved[s] \cup batch[s] \cup Fresh(s)

(* "Our copy means we never lose one before it's saved": whatever fails, is  *)
(* retried or backs off, a store misses a message only if one of its writes  *)
(* failed after a sibling's save had trimmed what it was writing.            *)
FailedSaveIsRetried == \A s \in Stores \ robbed : Kept(s)

(* The same without the exception; it does not hold.                         *)
NoMessageLost ==
  \A s \in Stores : \A m \in Filtered(s, Recorded) :
    m \in pending \cup saved[s] \cup batch[s]

(* flush "makes sure nothing in the buffer is lost": when it returns, every  *)
(* store whose last write did not fail has all that had been recorded when   *)
(* flush was called, unless it was robbed.                                   *)
FlushCovers ==
  [][flush.waiting /\ ~flush'.waiting =>
       \A s \in Stores : failures[s] = 0 /\ s \notin robbed =>
         \A m \in Filtered(s, 0 .. flush.due - 1) : m \in saved[s]]_vars

(* "A transient outage recovers on its own and the messages buffered during  *)
(* it are saved once the store comes back": the probes of a backed-off store *)
(* go on.                                                                    *)
OutageRecovers ==
  <>[][\A s \in Stores : ~WriteFails(s)]_vars =>
    \A m \in 0 .. MaxMessages - 1 :
      m \in Recorded ~>
        \A s \in Stores \ robbed : m \in Filtered(s, Recorded) => m \in saved[s]
=============================================================================
