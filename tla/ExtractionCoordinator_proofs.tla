-------------------- MODULE ExtractionCoordinator_proofs --------------------
(* Proofs about the extraction coordinator, for every set of stores, every   *)
(* filter and every choice of stores that may fail.                          *)
EXTENDS ExtractionCoordinator, TLAPS

-----------------------------------------------------------------------------
(* Types.                                                                    *)

LEMMA InitTyped == Init => TypeOK
<1> SUFFICES ASSUME Init PROVE TypeOK
  OBVIOUS
<1>1. NextSeq = 0 /\ Recorded = {}
  BY DEF Init, NextSeq, Recorded
<1>2. NoFlush \in [waiting : BOOLEAN, ahead : [Stores -> 0 .. MaxQueued + 1],
                   moved : BOOLEAN, due : 0 .. MaxMessages]
  BY BoundsAssumption DEF NoFlush
<1> QED BY <1>1, <1>2, BoundsAssumption, BackoffAssumption DEF Init, TypeOK

(* What flush remembers stays well typed when a save of a store is settled.  *)
LEMMA LinkDoneTyped ==
  ASSUME TypeOK, NEW s \in Stores, FlushSeesLinkDone(s)
  PROVE  flush' \in [waiting : BOOLEAN, ahead : [Stores -> 0 .. MaxQueued + 1],
                     moved : BOOLEAN, due : 0 .. MaxMessages]
<1> DEFINE less == IF flush.ahead[s] > 0 THEN flush.ahead[s] - 1 ELSE 0
<1>1. flush.ahead \in [Stores -> 0 .. MaxQueued + 1]
  BY DEF TypeOK
<1>2. less \in 0 .. MaxQueued + 1
  BY <1>1, BoundsAssumption
<1>3. flush' = [flush EXCEPT !.ahead = [flush.ahead EXCEPT ![s] = less]]
  BY DEF FlushSeesLinkDone, TypeOK
<1>4. [flush.ahead EXCEPT ![s] = less] \in [Stores -> 0 .. MaxQueued + 1]
  BY <1>1, <1>2
<1> HIDE DEF less
<1> QED BY <1>3, <1>4 DEF TypeOK

(* The buffer always ends with the message recorded last, if it holds any: a *)
(* trim removes only from the front.                                         *)
UpwardClosed == \A m \in pending, n \in Recorded : m < n => n \in pending

LEMMA HighestOfFresh ==
  ASSUME TypeOK, UpwardClosed, NEW s \in Stores, Fresh(s) # {}
  PROVE  /\ Highest(Fresh(s)) = NextSeq - 1
         /\ NextSeq - 1 \in Recorded
         /\ marks[s] < NextSeq - 1
<1>1. NextSeq \in Nat
  BY DEF TypeOK, NextSeq
<1>2. PICK m \in pending : m > marks[s]
  BY DEF Fresh
<1>3. /\ pending \subseteq Recorded
      /\ marks[s] \in Recorded \cup {-1}
  BY DEF TypeOK
<1>4. /\ NextSeq - 1 \in Recorded
      /\ NextSeq - 1 \in pending
      /\ marks[s] < NextSeq - 1
  BY <1>1, <1>2, <1>3 DEF UpwardClosed, Recorded
<1>5. NextSeq - 1 \in Fresh(s)
  BY <1>4 DEF Fresh
<1>6. \A n \in Fresh(s) : n \in Int /\ n <= NextSeq - 1
  BY <1>1, <1>3 DEF Fresh, Recorded
<1>7. \E n \in Fresh(s) : \A k \in Fresh(s) : k <= n
  BY <1>5, <1>6
<1>8. /\ Highest(Fresh(s)) \in Fresh(s)
      /\ \A k \in Fresh(s) : k <= Highest(Fresh(s))
  BY <1>7 DEF Highest
<1>9. Highest(Fresh(s)) = NextSeq - 1
  BY <1>1, <1>5, <1>6, <1>8
<1> QED BY <1>4, <1>9

(* The same for a trim: what it leaves is buffered, whole from the lowest    *)
(* mark up, and no store loses a message above its mark.                     *)
LEMMA TrimKeeps ==
  ASSUME TypeOK, UpwardClosed, NEW mk \in [Stores -> Recorded \cup {-1}], Trim(mk)
  PROVE  /\ pending' \subseteq pending
         /\ \A m \in pending', n \in Recorded : m < n => n \in pending'
         /\ \A s \in Stores, m \in pending : m > mk[s] => m \in pending'
<1>1. NextSeq \in Nat /\ pending \subseteq Recorded
  BY DEF TypeOK, NextSeq
<1>2. \A s \in Stores : mk[s] \in Int
  BY <1>1 DEF Recorded
<1>3. ASSUME NEW m \in pending', NEW n \in Recorded, m < n
      PROVE  n \in pending'
  <2>1. PICK s \in Stores : m > mk[s]
    BY DEF Trim
  <2>2. n \in pending
    BY <1>3 DEF Trim, UpwardClosed
  <2>3. n > mk[s]
    BY <1>1, <1>2, <1>3, <2>1 DEF Trim, Recorded
  <2> QED BY <2>2, <2>3 DEF Trim
<1> QED BY <1>3 DEF Trim

-----------------------------------------------------------------------------
(* The inductive invariant.                                                  *)

(* What a store is done with: up to the mark, or up to where a running save  *)
(* found it.                                                                 *)
Low(s) == IF Saving(s) THEN before[s] ELSE marks[s]

(* A store has acknowledged nothing above Low, and a running save writes     *)
(* only what lies between there and the mark.                                *)
Ordered(s) ==
  /\ \A m \in saved[s] : m <= Low(s)
  /\ \A n \in batch[s] : before[s] < n /\ n <= marks[s]

IInv == TypeOK /\ UpwardClosed /\ \A s \in Stores : Ordered(s)

LEMMA InitInvariant == Init => IInv
<1> SUFFICES ASSUME Init PROVE IInv
  OBVIOUS
<1>1. TypeOK
  BY InitTyped
<1>2. UpwardClosed /\ \A s \in Stores : Ordered(s)
  BY DEF Init, UpwardClosed, Ordered
<1> QED BY <1>1, <1>2 DEF IInv

(* record.                                                                   *)
LEMMA RecordPreserves ==
  ASSUME IInv, NEW kind \in Kinds, Record(kind)
  PROVE  IInv'
<1>1. NextSeq \in Nat /\ log \in Seq(Kinds) /\ TypeOK
  BY DEF IInv, TypeOK, NextSeq
<1>2. /\ log' \in Seq(Kinds)
      /\ NextSeq' = NextSeq + 1
      /\ Recorded' = Recorded \cup {NextSeq}
      /\ NextSeq' <= MaxMessages
  BY <1>1, BoundsAssumption DEF Record, NextSeq, Recorded
<1>3. TypeOK'
  BY <1>1, <1>2 DEF TypeOK, Record, chains, backoff
<1>4. UpwardClosed'
  BY <1>1, <1>2 DEF IInv, TypeOK, UpwardClosed, Record, Recorded
<1>5. \A s \in Stores : Ordered(s)'
  BY DEF IInv, Ordered, Low, Saving, Record, chains
<1> QED BY <1>3, <1>4, <1>5 DEF IInv

(* What leaves the buffer, the marks and the saves alone.                    *)
LEMMA QuietPreserves ==
  ASSUME IInv, TypeOK',
         UNCHANGED <<log, pending, marks, batch, before, saved>>
  PROVE  IInv'
<1>1. UpwardClosed'
  BY DEF IInv, UpwardClosed, Recorded, NextSeq
<1>2. \A s \in Stores : Ordered(s)'
  BY DEF IInv, Ordered, Low, Saving
<1> QED BY <1>1, <1>2 DEF IInv

(* process.                                                                  *)
LEMMA ProcessPreserves ==
  ASSUME IInv, NEW s \in Stores, Process(s)
  PROVE  IInv'
<1> DEFINE count == (probes[s] + 1) % BackoffProbeInterval
<1>1. TypeOK
  BY DEF IInv
<1>2. count \in 0 .. BackoffProbeInterval - 1
  BY <1>1, BackoffAssumption DEF TypeOK
<1>3. probes' \in [Stores -> 0 .. BackoffProbeInterval - 1]
  BY <1>1, <1>2 DEF TypeOK, Process
<1>4. /\ queued' \in [Stores -> 0 .. MaxQueued]
      /\ flush' \in [waiting : BOOLEAN, ahead : [Stores -> 0 .. MaxQueued + 1],
                     moved : BOOLEAN, due : 0 .. MaxMessages]
  <2>1. CASE UNCHANGED <<queued, flush>>
    BY <1>1, <2>1 DEF TypeOK
  <2>2. CASE queued' = [queued EXCEPT ![s] = @ + 1] /\ FlushSeesEnqueue
    <3>1. queued' \in [Stores -> 0 .. MaxQueued]
      BY <1>1, <2>2, BoundsAssumption DEF TypeOK, Process
    <3>2. flush.waiting \in BOOLEAN /\ flush' = [flush EXCEPT !.moved = flush.waiting]
      BY <1>1, <2>2 DEF TypeOK, FlushSeesEnqueue
    <3> QED BY <1>1, <3>1, <3>2 DEF TypeOK
  <2> QED BY <2>1, <2>2 DEF Process
<1>5. TypeOK'
  BY <1>1, <1>3, <1>4 DEF TypeOK, Process, Recorded, NextSeq
<1> QED BY <1>5, QuietPreserves DEF Process

(* The turn of a queued save.                                                *)
LEMMA ExtractPreserves ==
  ASSUME IInv, NEW s \in Stores, Extract(s)
  PROVE  IInv'
<1>1. TypeOK /\ UpwardClosed /\ (\A r \in Stores : Ordered(r)) /\ NextSeq \in Nat
  BY DEF IInv, TypeOK, NextSeq
<1>2. /\ queued' \in [Stores -> 0 .. MaxQueued]
      /\ UNCHANGED <<log, failures, probes, saved, robbed>>
      /\ Recorded' = Recorded /\ NextSeq' = NextSeq
      /\ batch[s] = {}
  BY <1>1, BoundsAssumption
     DEF TypeOK, Extract, backoff, Recorded, NextSeq, Saving
<1>3. CASE NothingFresh(s)
  <2>1. TypeOK'
    BY <1>1, <1>2, <1>3, LinkDoneTyped DEF TypeOK, NothingFresh
  <2> QED BY <1>2, <1>3, <2>1, QuietPreserves DEF NothingFresh
<1>4. CASE NothingWanted(s)
  <2> DEFINE advanced == [marks EXCEPT ![s] = NextSeq - 1]
  <2>1. /\ marks' = advanced
        /\ Trim(advanced)
        /\ advanced \in [Stores -> Recorded \cup {-1}]
        /\ marks[s] < NextSeq - 1
    BY <1>1, <1>4, HighestOfFresh DEF NothingWanted, TypeOK
  <2> HIDE DEF advanced
  <2>2. /\ pending' \subseteq Recorded
        /\ UpwardClosed'
    BY <1>1, <1>2, <2>1, TrimKeeps DEF TypeOK, UpwardClosed
  <2>3. TypeOK'
    BY <1>1, <1>2, <1>4, <2>1, <2>2, LinkDoneTyped DEF TypeOK, NothingWanted
  <2>4. ASSUME NEW r \in Stores PROVE Ordered(r)'
    <3>1. marks'[r] >= marks[r] /\ marks[r] \in Int /\ marks'[r] \in Int
      BY <1>1, <2>1 DEF TypeOK, Recorded, advanced
    <3>2. \A m \in saved[r] : m \in Int
      BY <1>1 DEF TypeOK, Recorded
    <3>3. \A m \in batch[r] : m \in Int
      BY <1>1 DEF TypeOK, Recorded
    <3> QED BY <1>1, <1>2, <1>4, <3>1, <3>2, <3>3
            DEF Ordered, Low, Saving, NothingWanted
  <2> QED BY <2>2, <2>3, <2>4 DEF IInv
<1>5. CASE BeginWrite(s)
  <2>1. Fresh(s) # {} /\ Filtered(s, Fresh(s)) \subseteq Fresh(s)
    BY <1>5 DEF BeginWrite, Filtered
  <2>2. /\ marks' = [marks EXCEPT ![s] = NextSeq - 1]
        /\ NextSeq - 1 \in Recorded
    BY <1>1, <1>5, <2>1, HighestOfFresh DEF BeginWrite
  <2>3. Fresh(s) \subseteq Recorded
    BY <1>1 DEF Fresh, TypeOK
  <2>4. TypeOK'
    BY <1>1, <1>2, <1>5, <2>1, <2>2, <2>3 DEF TypeOK, BeginWrite
  <2>5. UpwardClosed'
    BY <1>1, <1>2, <1>5 DEF UpwardClosed, BeginWrite
  <2>6. ASSUME NEW r \in Stores PROVE Ordered(r)'
    <3>1. CASE r = s
      <4>1. /\ before'[s] = marks[s]
            /\ batch'[s] = Filtered(s, Fresh(s))
            /\ batch'[s] # {}
            /\ marks'[s] = NextSeq - 1
            /\ saved' = saved
        BY <1>1, <1>2, <1>5, <2>2 DEF BeginWrite, TypeOK
      <4>2. \A m \in saved[s] : m <= marks[s]
        BY <1>1, <1>2 DEF Ordered, Low, Saving
      <4>3. \A n \in batch'[s] : marks[s] < n /\ n <= NextSeq - 1
        BY <1>1, <2>1, <2>3, <4>1 DEF Fresh, Recorded, TypeOK
      <4> QED BY <3>1, <4>1, <4>2, <4>3 DEF Ordered, Low, Saving
    <3>2. CASE r # s
      BY <1>1, <1>2, <1>5, <2>2, <3>2 DEF Ordered, Low, Saving, BeginWrite, TypeOK
    <3> QED BY <3>1, <3>2
  <2> QED BY <2>4, <2>5, <2>6 DEF IInv
<1> QED BY <1>3, <1>4, <1>5 DEF Extract

(* The write is acknowledged.                                                *)
LEMMA WriteSucceedsPreserves ==
  ASSUME IInv, NEW s \in Stores, WriteSucceeds(s)
  PROVE  IInv'
<1>1. TypeOK /\ UpwardClosed /\ (\A r \in Stores : Ordered(r)) /\ NextSeq \in Nat
  BY DEF IInv, TypeOK, NextSeq
<1>2. /\ Recorded' = Recorded /\ NextSeq' = NextSeq
      /\ marks \in [Stores -> Recorded \cup {-1}]
      /\ Trim(marks)
  BY <1>1 DEF WriteSucceeds, Recorded, NextSeq, TypeOK
<1>3. pending' \subseteq Recorded /\ UpwardClosed'
  BY <1>1, <1>2, TrimKeeps DEF TypeOK, UpwardClosed
<1>4. TypeOK'
  <2>1. /\ failures' \in [Stores -> 0 .. SaveFailuresBeforeBackoff]
        /\ probes' \in [Stores -> 0 .. BackoffProbeInterval - 1]
    BY <1>1, BackoffAssumption DEF WriteSucceeds, TypeOK
  <2>2. /\ batch' \in [Stores -> SUBSET Recorded]
        /\ saved' \in [Stores -> SUBSET Recorded]
    BY <1>1 DEF WriteSucceeds, TypeOK
  <2> QED BY <1>1, <1>2, <1>3, <2>1, <2>2, LinkDoneTyped DEF WriteSucceeds, TypeOK
<1>5. ASSUME NEW r \in Stores PROVE Ordered(r)'
  <2>1. CASE r = s
    <3>1. /\ saved'[s] = saved[s] \cup batch[s]
          /\ batch'[s] = {}
          /\ marks' = marks
      BY <1>1 DEF WriteSucceeds, TypeOK
    <3>2. PICK n \in batch[s] : before[s] < n /\ n <= marks[s]
      BY <1>1 DEF WriteSucceeds, Saving, Ordered
    <3>3. \A m \in saved[s] : m <= before[s] /\ m \in Int
      BY <1>1 DEF WriteSucceeds, Ordered, Low, TypeOK, Recorded
    <3>4. before[s] \in Int /\ marks[s] \in Int /\ n \in Int
      BY <1>1 DEF TypeOK, Recorded
    <3>5. \A m \in saved'[s] : m <= marks[s]
      BY <1>1, <3>1, <3>2, <3>3, <3>4 DEF Ordered
    <3> QED BY <2>1, <3>1, <3>5 DEF Ordered, Low, Saving
  <2>2. CASE r # s
    BY <1>1, <2>2 DEF WriteSucceeds, Ordered, Low, Saving, TypeOK
  <2> QED BY <2>1, <2>2
<1> QED BY <1>3, <1>4, <1>5 DEF IInv

(* The write rejects.                                                        *)
LEMMA WriteFailsPreserves ==
  ASSUME IInv, NEW s \in Stores, WriteFails(s)
  PROVE  IInv'
<1> DEFINE restored == [marks EXCEPT ![s] = before[s]]
<1>1. TypeOK /\ UpwardClosed /\ (\A r \in Stores : Ordered(r)) /\ NextSeq \in Nat
  BY DEF IInv, TypeOK, NextSeq
<1>2. /\ Recorded' = Recorded /\ NextSeq' = NextSeq
      /\ restored \in [Stores -> Recorded \cup {-1}]
      /\ marks' = restored
      /\ Trim(restored)
  BY <1>1 DEF WriteFails, Recorded, NextSeq, TypeOK
<1>3. pending' \subseteq Recorded /\ UpwardClosed'
  BY <1>1, <1>2, TrimKeeps DEF TypeOK, UpwardClosed
<1>4. TypeOK'
  <2>1. failures' \in [Stores -> 0 .. SaveFailuresBeforeBackoff]
    BY <1>1, BackoffAssumption DEF WriteFails, TypeOK, BackedOff
  <2>2. batch' \in [Stores -> SUBSET Recorded]
    BY <1>1 DEF WriteFails, TypeOK
  <2> QED BY <1>1, <1>2, <1>3, <2>1, <2>2, LinkDoneTyped DEF WriteFails, TypeOK
<1>5. ASSUME NEW r \in Stores PROVE Ordered(r)'
  BY <1>1 DEF WriteFails, Ordered, Low, Saving, TypeOK
<1> QED BY <1>3, <1>4, <1>5 DEF IInv

(* flush, and each time its promises are settled.                            *)
LEMMA FlushPreserves ==
  ASSUME IInv, Flush \/ FlushSettles
  PROVE  IInv'
<1>1. TypeOK /\ NextSeq \in 0 .. MaxMessages
  BY BoundsAssumption DEF IInv, TypeOK, NextSeq
<1>2. \A s \in Stores : Links(s) \in 0 .. MaxQueued + 1
  BY <1>1, BoundsAssumption DEF TypeOK, Links
<1>3. CASE Flush
  <2>1. \A s \in Stores : Links(s) + 1 \in 0 .. MaxQueued + 1
    <3> SUFFICES ASSUME NEW s \in Stores PROVE Links(s) + 1 \in 0 .. MaxQueued + 1
      OBVIOUS
    <3>1. queued[s] \in Nat /\ queued[s] < MaxQueued
      BY <1>1, <1>3, BoundsAssumption DEF TypeOK, Flush
    <3>2. Links(s) = queued[s] \/ Links(s) = queued[s] + 1
      BY <3>1 DEF Links
    <3> QED BY <3>1, <3>2, BoundsAssumption
  <2>2. queued' \in [Stores -> 0 .. MaxQueued]
    BY <1>1, <1>3, BoundsAssumption DEF TypeOK, Flush
  <2>3. TypeOK'
    BY <1>1, <1>3, <2>1, <2>2 DEF TypeOK, Flush, backoff, Recorded, NextSeq
  <2> QED BY <1>3, <2>3, QuietPreserves DEF Flush
<1>4. CASE FlushSettles
  <2> DEFINE links == [s \in Stores |-> Links(s)]
             Flushes == [waiting : BOOLEAN, ahead : [Stores -> 0 .. MaxQueued + 1],
                         moved : BOOLEAN, due : 0 .. MaxMessages]
  <2>1. links \in [Stores -> 0 .. MaxQueued + 1]
    BY <1>2
  <2>2. NoFlush \in Flushes
    BY BoundsAssumption DEF NoFlush
  <2>3. flush \in Flushes
    BY <1>1 DEF TypeOK
  <2>4. flush' = [flush EXCEPT !.ahead = links, !.moved = FALSE] \/ flush' = NoFlush
    BY <1>4 DEF FlushSettles
  <2> HIDE DEF links
  <2>5. flush' \in Flushes
    BY <2>1, <2>2, <2>3, <2>4
  <2>6. TypeOK'
    BY <1>1, <1>4, <2>5
       DEF TypeOK, FlushSettles, chains, backoff, Recorded, NextSeq
  <2> QED BY <1>4, <2>6, QuietPreserves DEF FlushSettles, chains
<1> QED BY <1>3, <1>4

LEMMA StepInvariant == IInv /\ [Next]_vars => IInv'
<1> SUFFICES ASSUME IInv, [Next]_vars PROVE IInv'
  OBVIOUS
<1>1. CASE UNCHANGED vars
  <2>1. TypeOK'
    BY <1>1 DEF IInv, TypeOK, vars, chains, backoff, Recorded, NextSeq
  <2> QED BY <1>1, <2>1, QuietPreserves DEF vars, chains
<1>2. CASE \E kind \in Kinds : Record(kind)
  BY <1>2, RecordPreserves
<1>3. CASE \E s \in Stores : Process(s) \/ Extract(s)
  BY <1>3, ProcessPreserves, ExtractPreserves
<1>4. CASE \E s \in Stores : WriteSucceeds(s) \/ WriteFails(s)
  BY <1>4, WriteSucceedsPreserves, WriteFailsPreserves
<1>5. CASE Flush \/ FlushSettles
  BY <1>5, FlushPreserves
<1> QED BY <1>1, <1>2, <1>3, <1>4, <1>5 DEF Next

LEMMA Invariance == Spec => []IInv
BY InitInvariant, StepInvariant, PTL DEF Spec

-----------------------------------------------------------------------------
(* Theorems.                                                                 *)

(* The state the coordinator keeps always has its types: no mark lies beyond *)
(* what was recorded, no streak or probe counter beyond its limit.           *)
THEOREM TypeCorrect == Spec => []TypeOK
<1>1. IInv => TypeOK
  BY DEF IInv
<1> QED BY <1>1, Invariance, PTL

(* No store is given a message it has acknowledged, or one that comes before *)
(* such a message, whatever failed or was trimmed in between: a save starts  *)
(* at the mark, and nothing above the mark has been acknowledged.            *)
THEOREM OrderCorrect == Spec => []SavedInOrder
<1>1. IInv => SavedInOrder
  <2> SUFFICES ASSUME IInv, NEW s \in Stores, NEW m \in saved[s], NEW n \in batch[s]
               PROVE  m < n
    BY DEF SavedInOrder
  <2>1. m <= before[s] /\ before[s] < n
    BY DEF IInv, Ordered, Low, Saving
  <2>2. m \in Int /\ n \in Int /\ before[s] \in Int
    BY DEF IInv, TypeOK, Recorded, NextSeq
  <2> QED BY <2>1, <2>2
<1> QED BY <1>1, Invariance, PTL

-----------------------------------------------------------------------------
(* Nothing a store wants is skipped.                                         *)

(* A step takes nothing away from a store that has missed nothing, unless it *)
(* robs it: the restored mark brings back only what a sibling's trim has     *)
(* left.                                                                     *)
LEMMA StepKeeps ==
  ASSUME IInv, Next, NEW s \in Stores, Kept(s), s \notin robbed'
  PROVE  Kept(s)'
<1>1. TypeOK /\ UpwardClosed /\ Ordered(s) /\ NextSeq \in Nat
  BY DEF IInv, TypeOK, NextSeq
<1>a. /\ marks[s] \in Int /\ marks[s] < NextSeq
      /\ before[s] \in Int
      /\ \A m \in pending \cup batch[s] : m \in Int
  <2>1. \A m \in Recorded \cup {-1} : m \in Int /\ m < NextSeq
    BY <1>1 DEF Recorded
  <2>2. /\ marks[s] \in Recorded \cup {-1}
        /\ before[s] \in Recorded \cup {-1}
        /\ pending \cup batch[s] \subseteq Recorded
    BY <1>1 DEF TypeOK
  <2> QED BY <2>1, <2>2
<1>2. CASE \E kind \in Kinds : Record(kind)
  <2>1. PICK kind \in Kinds : Record(kind)
    BY <1>2
  <2>2. /\ NextSeq' = NextSeq + 1
        /\ Recorded' = Recorded \cup {NextSeq}
        /\ \A m \in Recorded : log'[m + 1] = log[m + 1]
    BY <1>1, <2>1 DEF Record, NextSeq, Recorded, TypeOK
  <2>3. NextSeq > marks[s]
    BY <1>a, <1>1
  <2>4. UNCHANGED <<marks, batch, saved>> /\ pending' = pending \cup {NextSeq}
    BY <2>1 DEF Record, chains
  <2> QED BY <2>2, <2>3, <2>4 DEF Kept, Filtered, Fresh
<1>3. CASE UNCHANGED <<log, pending, marks, batch, saved>>
  BY <1>3 DEF Kept, Filtered, Fresh, Recorded, NextSeq
<1>4. ASSUME NEW r \in Stores, Extract(r) PROVE Kept(s)'
  <2>1. UNCHANGED <<log, saved>> /\ batch[r] = {}
    BY <1>4 DEF Extract, Saving
  <2>2. CASE NothingFresh(r)
    BY <1>3, <2>1, <2>2 DEF NothingFresh
  <2>3. CASE NothingWanted(r)
    <3> DEFINE advanced == [marks EXCEPT ![r] = NextSeq - 1]
    <3>1. /\ advanced \in [Stores -> Recorded \cup {-1}]
          /\ marks' = advanced
          /\ Trim(advanced)
          /\ UNCHANGED batch
      BY <1>1, <2>3, HighestOfFresh DEF NothingWanted, TypeOK
    <3> HIDE DEF advanced
    <3>2. \A q \in Stores, m \in pending : m > advanced[q] => m \in pending'
      BY <1>1, <3>1, TrimKeeps
    <3>3. CASE r = s
      <4>1. Filtered(s, Fresh(s)) = {}
        BY <2>3, <3>3 DEF NothingWanted
      <4>2. \A m \in Filtered(s, Recorded) : m \in saved[s] \cup batch[s]
        BY <4>1 DEF Kept, Filtered
      <4> QED BY <2>1, <3>1, <4>2 DEF Kept, Filtered, Recorded, NextSeq
    <3>4. CASE r # s
      <4>1. advanced[s] = marks[s]
        BY <3>4, <1>1 DEF advanced, TypeOK
      <4> QED BY <2>1, <3>1, <3>2, <4>1 DEF Kept, Filtered, Fresh, Recorded, NextSeq
    <3> QED BY <3>3, <3>4
  <2>4. CASE BeginWrite(r)
    <3>1. UNCHANGED pending
      BY <2>4 DEF BeginWrite
    <3>2. CASE r = s
      <4>1. batch'[s] = Filtered(s, Fresh(s))
        BY <1>1, <2>4, <3>2 DEF BeginWrite, TypeOK
      <4>2. \A m \in Filtered(s, Recorded) : m \in saved[s] \cup batch'[s]
        BY <2>1, <3>2, <4>1 DEF Kept, Filtered
      <4> QED BY <2>1, <4>2 DEF Kept, Filtered, Recorded, NextSeq
    <3>3. CASE r # s
      <4>1. marks'[s] = marks[s] /\ batch'[s] = batch[s]
        BY <1>1, <2>4, <3>3 DEF BeginWrite, TypeOK
      <4> QED BY <2>1, <3>1, <4>1 DEF Kept, Filtered, Fresh, Recorded, NextSeq
    <3> QED BY <3>2, <3>3
  <2> QED BY <1>4, <2>2, <2>3, <2>4 DEF Extract
<1>5. ASSUME NEW r \in Stores, WriteSucceeds(r) PROVE Kept(s)'
  <2>1. /\ marks \in [Stores -> Recorded \cup {-1}]
        /\ Trim(marks)
        /\ UNCHANGED <<log, marks>>
    BY <1>1, <1>5 DEF WriteSucceeds, TypeOK
  <2>2. \A q \in Stores, m \in pending : m > marks[q] => m \in pending'
    BY <1>1, <2>1, TrimKeeps
  <2>3. saved'[s] \cup batch'[s] = saved[s] \cup batch[s]
    BY <1>1, <1>5 DEF WriteSucceeds, TypeOK
  <2> QED BY <2>1, <2>2, <2>3 DEF Kept, Filtered, Fresh, Recorded, NextSeq
<1>6. ASSUME NEW r \in Stores, WriteFails(r) PROVE Kept(s)'
  <2> DEFINE restored == [marks EXCEPT ![r] = before[r]]
  <2>1. /\ restored \in [Stores -> Recorded \cup {-1}]
        /\ Trim(restored)
        /\ marks' = restored
        /\ UNCHANGED <<log, saved>>
    BY <1>1, <1>6 DEF WriteFails, TypeOK
  <2>2. \A q \in Stores, m \in pending : m > restored[q] => m \in pending'
    BY <1>1, <2>1, TrimKeeps
  <2>3. CASE r = s
    <3>1. restored[s] = before[s] /\ before[s] < marks[s]
      <4>1. PICK n \in batch[s] : before[s] < n /\ n <= marks[s]
        BY <1>1, <1>6, <2>3 DEF WriteFails, Saving, Ordered
      <4>2. before[s] < marks[s]
        BY <1>a, <4>1
      <4>3. restored[s] = before[s]
        BY <1>1, <2>3 DEF TypeOK
      <4> QED BY <4>2, <4>3
    <3>2. \A m \in batch[s] \cup Fresh(s) : m \in pending /\ m > before[s]
      <4>1. \A m \in batch[s] : m \in pending /\ m > before[s]
        <5>1. batch[s] \subseteq pending
          BY <1>6, <2>3 DEF WriteFails
        <5>2. \A m \in batch[s] : before[s] < m
          BY <1>1 DEF Ordered
        <5> QED BY <1>a, <5>1, <5>2
      <4>2. \A m \in Fresh(s) : m \in pending /\ m > before[s]
        BY <1>a, <3>1 DEF Fresh
      <4> QED BY <4>1, <4>2
    <3> QED BY <2>1, <2>2, <3>1, <3>2 DEF Kept, Filtered, Fresh, Recorded, NextSeq
  <2>4. CASE r # s
    <3>1. restored[s] = marks[s] /\ batch'[s] = batch[s]
      BY <1>1, <1>6, <2>4 DEF WriteFails, TypeOK
    <3> QED BY <2>1, <2>2, <3>1 DEF Kept, Filtered, Fresh, Recorded, NextSeq
  <2> QED BY <2>3, <2>4
<1>7. ASSUME NEW r \in Stores, Process(r) PROVE Kept(s)'
  BY <1>3, <1>7 DEF Process
<1>8. CASE Flush \/ FlushSettles
  BY <1>3, <1>8 DEF Flush, FlushSettles, chains
<1> QED BY <1>2, <1>4, <1>5, <1>6, <1>7, <1>8 DEF Next

(* At the start nothing has been recorded.                                   *)
LEMMA InitKeeps == Init => \A s \in Stores : Kept(s)
BY DEF Init, Kept, Filtered, Recorded, NextSeq

LEMMA StutterKeeps ==
  ASSUME UNCHANGED vars, NEW s \in Stores, Kept(s)
  PROVE  Kept(s)'
BY DEF vars, chains, Kept, Filtered, Fresh, Recorded, NextSeq

(* A store that has been robbed stays so.                                    *)
LEMMA RobbedGrows == Next => robbed \subseteq robbed'
BY DEF Next, Record, Process, Extract, WriteSucceeds, WriteFails, Flush, FlushSettles

(* A store misses a message only if one of its writes failed after a sibling *)
(* had trimmed it: all other failures, retries and trims lose nothing.       *)
THEOREM RetryCorrect == Spec => []FailedSaveIsRetried
<1>1. Init => FailedSaveIsRetried
  BY InitKeeps DEF FailedSaveIsRetried
<1>2. IInv /\ FailedSaveIsRetried /\ [Next]_vars => FailedSaveIsRetried'
  <2> SUFFICES ASSUME IInv, FailedSaveIsRetried, [Next]_vars,
                      NEW s \in Stores, s \notin robbed'
               PROVE  Kept(s)'
    BY DEF FailedSaveIsRetried
  <2>1. CASE Next
    <3>1. Kept(s)
      BY <2>1, RobbedGrows DEF FailedSaveIsRetried
    <3> QED BY <2>1, <3>1, StepKeeps
  <2>2. CASE UNCHANGED vars
    <3>1. Kept(s)
      BY <2>2 DEF FailedSaveIsRetried, vars
    <3> QED BY <2>2, <3>1, StutterKeeps
  <2> QED BY <2>1, <2>2
<1> QED BY <1>1, <1>2, Invariance, PTL DEF Spec

(* A store whose writes succeed misses nothing, however its siblings fail    *)
(* and trim the buffer they share.                                           *)
THEOREM HealthyCorrect == Spec => [](\A s \in Stores \ Failing : Kept(s))
<1>1. TypeOK /\ FailedSaveIsRetried => \A s \in Stores \ Failing : Kept(s)
  BY DEF TypeOK, FailedSaveIsRetried
<1> QED BY <1>1, TypeCorrect, RetryCorrect, PTL

(* With one store nothing trims what it is writing.                          *)
WritesBuffered == \A s \in Stores : batch[s] \subseteq pending

(* A store alone in the buffer is never robbed, so it misses nothing however *)
(* often its writes fail.                                                    *)
THEOREM AloneCorrect ==
  ASSUME \A r, s \in Stores : r = s
  PROVE  Spec => [](\A s \in Stores : Kept(s))
<1> DEFINE AInv == WritesBuffered /\ robbed = {}
<1>1. Init => AInv
  BY DEF Init, WritesBuffered
<1>2. IInv /\ AInv /\ [Next]_vars => AInv'
  <2> SUFFICES ASSUME IInv, AInv, [Next]_vars PROVE AInv'
    OBVIOUS
  <2>1. robbed' = {}
    BY DEF WritesBuffered, Next, Record, Process, Extract, WriteSucceeds, WriteFails,
           Flush, FlushSettles, vars
  <2>2. ASSUME NEW s \in Stores PROVE (batch[s] \subseteq pending)'
    <3>1. batch[s] \subseteq pending /\ batch \in [Stores -> SUBSET Recorded]
      BY DEF WritesBuffered, IInv, TypeOK
    <3>2. CASE UNCHANGED batch /\ pending \subseteq pending'
      BY <3>1, <3>2
    <3>3. ASSUME NEW r \in Stores, Extract(r) PROVE (batch[s] \subseteq pending)'
      <4>1. r = s /\ batch[s] = {}
        BY <3>3 DEF Extract, Saving
      <4>2. CASE BeginWrite(r)
        BY <3>1, <4>1, <4>2 DEF BeginWrite, Filtered, Fresh
      <4>3. CASE NothingFresh(r) \/ NothingWanted(r)
        BY <4>1, <4>3 DEF NothingFresh, NothingWanted
      <4> QED BY <3>3, <4>2, <4>3 DEF Extract
    <3>4. ASSUME NEW r \in Stores, WriteSucceeds(r) \/ WriteFails(r)
          PROVE  (batch[s] \subseteq pending)'
      <4>1. batch'[s] = {}
        BY <3>1, <3>4 DEF WriteSucceeds, WriteFails
      <4> QED BY <4>1
    <3>5. CASE UNCHANGED vars
      BY <3>2, <3>5 DEF vars, chains
    <3>6. CASE \E kind \in Kinds : Record(kind)
      BY <3>2, <3>6 DEF Record, chains
    <3>7. CASE Flush \/ FlushSettles
      BY <3>2, <3>7 DEF Flush, FlushSettles, chains
    <3>8. ASSUME NEW r \in Stores, Process(r) PROVE (batch[s] \subseteq pending)'
      BY <3>2, <3>8 DEF Process
    <3> QED BY <3>3, <3>4, <3>5, <3>6, <3>7, <3>8 DEF Next
  <2> QED BY <2>1, <2>2 DEF WritesBuffered
<1>3. AInv /\ FailedSaveIsRetried => \A s \in Stores : Kept(s)
  BY DEF FailedSaveIsRetried
<1> QED BY <1>1, <1>2, <1>3, Invariance, RetryCorrect, PTL DEF Spec

-----------------------------------------------------------------------------
(* What flush waits for.                                                     *)

(* The store has, or is being given, all that was recorded before the flush. *)
Covered(s) == \A m \in Filtered(s, 0 .. flush.due - 1) : m \in saved[s] \cup batch[s]

(* The promises flush still waits for are saves of the store that are queued *)
(* or running, all of them as long as no save was added.  The last one takes *)
(* its turn after the flush was called: from then on the store is covered,   *)
(* unless that save fails, after which the next one to succeed covers it.    *)
FlushInv ==
  flush.waiting =>
    /\ flush.due <= NextSeq
    /\ \A s \in Stores :
         /\ flush.ahead[s] <= Links(s)
         /\ ~flush.moved => flush.ahead[s] = Links(s)
         /\ flush.ahead[s] = 0 /\ failures[s] = 0 /\ s \notin robbed => Covered(s)
         /\ flush.ahead[s] <= 1 /\ Saving(s) /\ s \notin robbed => Covered(s)

Bases == TypeOK /\ FailedSaveIsRetried /\ FlushInv

(* What a settled save does to the promises.                                 *)
LEMMA LinkDone ==
  ASSUME TypeOK, NEW s \in Stores, FlushSeesLinkDone(s)
  PROVE  /\ flush'.waiting = flush.waiting
         /\ flush'.moved = flush.moved
         /\ flush'.due = flush.due
         /\ flush'.ahead[s] = IF flush.ahead[s] > 0 THEN flush.ahead[s] - 1 ELSE 0
         /\ \A r \in Stores : r # s => flush'.ahead[r] = flush.ahead[r]
BY DEF FlushSeesLinkDone, TypeOK

LEMMA EnqueueSeen ==
  ASSUME TypeOK, FlushSeesEnqueue
  PROVE  /\ flush'.waiting = flush.waiting /\ flush'.moved = flush.waiting
         /\ flush'.due = flush.due /\ flush'.ahead = flush.ahead
BY DEF FlushSeesEnqueue, TypeOK

LEMMA LinksAreNatural ==
  ASSUME TypeOK, NEW s \in Stores
  PROVE  /\ flush.ahead[s] \in Nat /\ Links(s) \in Nat /\ queued[s] \in Nat
         /\ Links(s) = queued[s] + (IF Saving(s) THEN 1 ELSE 0)
         /\ flush.due \in Nat /\ NextSeq \in Nat /\ failures[s] \in Nat
BY BoundsAssumption, BackoffAssumption DEF TypeOK, Links, NextSeq

(* A save that took its turn has left nothing out.                           *)
LEMMA KeptIsCovered ==
  ASSUME TypeOK, NEW s \in Stores, Kept(s), flush.due <= NextSeq,
         Filtered(s, Fresh(s)) = {}
  PROVE  Covered(s)
<1>1. 0 .. flush.due - 1 \subseteq Recorded
  BY LinksAreNatural DEF Recorded
<1>2. ASSUME NEW m \in Filtered(s, 0 .. flush.due - 1) PROVE m \in saved[s] \cup batch[s]
  <2>1. m \in Filtered(s, Recorded) /\ m \notin Fresh(s)
    BY <1>1, <1>2 DEF Filtered
  <2> QED BY <2>1 DEF Kept
<1> QED BY <1>2 DEF Covered

LEMMA RecordKeepsFlush ==
  ASSUME Bases, NEW kind \in Kinds, Record(kind)
  PROVE  FlushInv'
<1>1. NextSeq' = NextSeq + 1 /\ \A m \in Recorded : log'[m + 1] = log[m + 1]
  BY DEF Record, NextSeq, Recorded, Bases, TypeOK
<1>2. UNCHANGED <<queued, batch, failures, saved, robbed, flush>>
  BY DEF Record, chains, backoff
<1>3. ASSUME flush.waiting, NEW s \in Stores, Covered(s) PROVE Covered(s)'
  <2>1. 0 .. flush.due - 1 \subseteq Recorded
    BY <1>3, LinksAreNatural DEF Bases, FlushInv, Recorded
  <2> QED BY <1>1, <1>2, <1>3, <2>1 DEF Covered, Filtered
<1>4. \A s \in Stores : Links(s)' = Links(s) /\ Saving(s)' = Saving(s)
  BY <1>2 DEF Links, Saving
<1>5. flush.waiting => flush'.due <= NextSeq'
  BY <1>1, <1>2, LinksAreNatural, StoresAssumption DEF Bases, FlushInv
<1> QED BY <1>2, <1>3, <1>4, <1>5 DEF Bases, FlushInv

LEMMA ProcessKeepsFlush ==
  ASSUME Bases, NEW s \in Stores, Process(s)
  PROVE  FlushInv'
<1>1. UNCHANGED <<log, batch, failures, saved, robbed>>
  BY DEF Process
<1>2. \A r \in Stores : Saving(r)' = Saving(r)
  BY <1>1 DEF Saving
<1>3. CASE UNCHANGED <<queued, flush>>
  BY <1>1, <1>3 DEF Bases, FlushInv, Covered, Filtered, Links, Saving, NextSeq
<1>4. CASE queued' = [queued EXCEPT ![s] = @ + 1] /\ FlushSeesEnqueue
  <2>1. /\ flush'.waiting = flush.waiting /\ flush'.moved = flush.waiting
        /\ flush'.due = flush.due /\ flush'.ahead = flush.ahead
    BY <1>4, EnqueueSeen DEF Bases
  <2>2. ASSUME NEW r \in Stores
        PROVE  /\ queued[r] \in Nat /\ queued'[r] \in {queued[r], queued[r] + 1}
               /\ Links(r) = queued[r] + (IF Saving(r) THEN 1 ELSE 0)
               /\ Links(r)' = queued'[r] + (IF Saving(r) THEN 1 ELSE 0)
    <3>1. queued \in [Stores -> 0 .. MaxQueued]
      BY DEF Bases, TypeOK
    <3>2. queued[r] \in Nat
      BY <3>1, BoundsAssumption
    <3>3. queued'[r] \in {queued[r], queued[r] + 1}
      BY <1>4, <3>1
    <3> QED BY <1>2, <3>2, <3>3 DEF Links
  <2>3. ASSUME NEW r \in Stores PROVE Links(r) <= Links(r)'
    <3>1. queued'[r] >= queued[r]
      BY <2>2
    <3> QED BY <2>2, <3>1
  <2>4. \A r \in Stores : Links(r)' \in Nat
    BY <2>2
  <2>5. \A r \in Stores : Covered(r)' <=> Covered(r)
    BY <1>1, <2>1 DEF Covered, Filtered
  <2>6. \A r \in Stores : flush.waiting => flush'.ahead[r] <= Links(r)'
    BY <2>1, <2>3, <2>4, LinksAreNatural DEF Bases, FlushInv
  <2>7. NextSeq' = NextSeq
    BY <1>1 DEF NextSeq
  <2> QED BY <1>1, <1>2, <2>1, <2>5, <2>6, <2>7 DEF Bases, FlushInv
<1> QED BY <1>3, <1>4 DEF Process

(* A save that ends in its turn, or is settled by its store: what is to show *)
(* of that store.                                                            *)
LEMMA SettledSave ==
  ASSUME Bases, NEW s \in Stores, FlushSeesLinkDone(s),
         UNCHANGED log, robbed \subseteq robbed',
         Links(s) > 0, Links(s)' = Links(s) - 1, ~Saving(s)',
         flush.waiting /\ flush.ahead[s] <= 1 /\ failures'[s] = 0 /\ s \notin robbed' =>
           Covered(s)',
         \A r \in Stores : r # s =>
           UNCHANGED <<queued[r], batch[r], failures[r], saved[r]>>
  PROVE  FlushInv'
<1>1. /\ flush'.waiting = flush.waiting
      /\ flush'.moved = flush.moved
      /\ flush'.due = flush.due
      /\ flush'.ahead[s] = IF flush.ahead[s] > 0 THEN flush.ahead[s] - 1 ELSE 0
      /\ \A r \in Stores : r # s => flush'.ahead[r] = flush.ahead[r]
  BY LinkDone DEF Bases
<1>2. SUFFICES ASSUME flush.waiting PROVE FlushInv'
  BY <1>1 DEF FlushInv
<1>3. flush.due <= NextSeq /\ NextSeq' = NextSeq
  BY <1>2 DEF Bases, FlushInv, NextSeq
<1>4. /\ flush'.ahead[s] <= Links(s)'
      /\ ~flush'.moved => flush'.ahead[s] = Links(s)'
      /\ flush'.ahead[s] = 0 /\ failures'[s] = 0 /\ s \notin robbed' => Covered(s)'
  <2>1. /\ flush.ahead[s] <= Links(s)
        /\ ~flush.moved => flush.ahead[s] = Links(s)
        /\ flush.ahead[s] \in Nat /\ Links(s) \in Nat
    BY <1>2, LinksAreNatural DEF Bases, FlushInv
  <2>2. flush'.ahead[s] = 0 => flush.ahead[s] <= 1
    BY <1>1, <2>1
  <2> QED BY <1>1, <1>2, <2>1, <2>2
<1>5. ASSUME NEW r \in Stores, r # s
      PROVE  /\ flush'.ahead[r] <= Links(r)'
             /\ ~flush'.moved => flush'.ahead[r] = Links(r)'
             /\ flush'.ahead[r] = 0 /\ failures'[r] = 0 /\ r \notin robbed' => Covered(r)'
             /\ flush'.ahead[r] <= 1 /\ Saving(r)' /\ r \notin robbed' => Covered(r)'
  <2>1. Links(r)' = Links(r) /\ Saving(r)' = Saving(r)
    BY <1>5 DEF Links, Saving
  <2>2. Covered(r)' <=> Covered(r)
    BY <1>1, <1>5 DEF Covered, Filtered
  <2> QED BY <1>1, <1>2, <1>5, <2>1, <2>2 DEF Bases, FlushInv
<1> QED BY <1>1, <1>3, <1>4, <1>5 DEF FlushInv

LEMMA ExtractKeepsFlush ==
  ASSUME Bases, NEW s \in Stores, Extract(s)
  PROVE  FlushInv'
<1>1. /\ UNCHANGED <<log, failures, saved, robbed>>
      /\ batch[s] = {} /\ queued[s] > 0
      /\ queued'[s] = queued[s] - 1
      /\ \A r \in Stores : r # s => queued'[r] = queued[r]
  BY DEF Extract, Saving, backoff, Bases, TypeOK
<1>2. ~Saving(s) /\ Links(s) = queued[s] /\ queued[s] \in Nat
  BY <1>1, LinksAreNatural DEF Saving, Bases
<1>3. s \notin robbed => Kept(s)
  BY DEF Bases, FailedSaveIsRetried
<1>4. CASE NothingFresh(s) \/ NothingWanted(s)
  <2>1. FlushSeesLinkDone(s) /\ batch' = batch /\ Filtered(s, Fresh(s)) = {}
    BY <1>4 DEF NothingFresh, NothingWanted, Filtered
  <2>2. ~Saving(s)' /\ Links(s)' = Links(s) - 1
    BY <1>1, <1>2, <2>1 DEF Saving, Links
  <2>3. ASSUME flush.waiting, s \notin robbed' PROVE Covered(s)'
    <3>1. Covered(s)
      BY <1>1, <1>3, <2>1, <2>3, KeptIsCovered DEF Bases, FlushInv
    <3>2. flush'.due = flush.due
      BY <2>1, LinkDone DEF Bases
    <3> QED BY <1>1, <2>1, <3>1, <3>2 DEF Covered, Filtered
  <2> QED BY <1>1, <1>2, <2>1, <2>2, <2>3, SettledSave
<1>5. CASE BeginWrite(s)
  <2>1. /\ flush' = flush
        /\ batch'[s] = Filtered(s, Fresh(s)) /\ batch'[s] # {}
        /\ \A r \in Stores : r # s => batch'[r] = batch[r]
    BY <1>5 DEF BeginWrite, Bases, TypeOK
  <2>2. Links(s)' = Links(s)
    BY <1>1, <1>2, <2>1 DEF Links, Saving
  <2>3. ASSUME flush.waiting, s \notin robbed' PROVE Covered(s)'
    <3>1. 0 .. flush.due - 1 \subseteq Recorded
      BY <2>3, LinksAreNatural DEF Bases, FlushInv, Recorded
    <3>2. ASSUME NEW m \in Filtered(s, 0 .. flush.due - 1)
          PROVE  m \in saved[s] \cup batch'[s]
      <4>1. m \in Filtered(s, Recorded)
        BY <3>1, <3>2 DEF Filtered
      <4>2. m \in saved[s] \cup batch[s] \cup Fresh(s)
        BY <1>1, <1>3, <2>3, <4>1 DEF Kept
      <4> QED BY <1>1, <2>1, <3>2, <4>2 DEF Filtered
    <3> QED BY <1>1, <2>1, <3>2 DEF Covered, Filtered
  <2>4. ASSUME NEW r \in Stores, r # s
        PROVE  Links(r)' = Links(r) /\ Saving(r)' = Saving(r) /\ (Covered(r)' <=> Covered(r))
    BY <1>1, <2>1, <2>4 DEF Links, Saving, Covered, Filtered
  <2>5. NextSeq' = NextSeq
    BY <1>1 DEF NextSeq
  <2> QED BY <1>1, <2>1, <2>2, <2>3, <2>4, <2>5 DEF Bases, FlushInv
<1> QED BY <1>4, <1>5 DEF Extract

LEMMA WriteSucceedsKeepsFlush ==
  ASSUME Bases, NEW s \in Stores, WriteSucceeds(s)
  PROVE  FlushInv'
<1>1. /\ UNCHANGED <<log, queued, robbed>> /\ FlushSeesLinkDone(s) /\ Saving(s)
      /\ saved'[s] = saved[s] \cup batch[s] /\ batch'[s] = {}
      /\ \A r \in Stores : r # s => UNCHANGED <<batch[r], failures[r], saved[r]>>
  BY DEF WriteSucceeds, Bases, TypeOK
<1>2. Links(s) > 0 /\ Links(s)' = Links(s) - 1 /\ ~Saving(s)'
  BY <1>1, LinksAreNatural DEF Bases, Links, Saving
<1>3. ASSUME flush.waiting, flush.ahead[s] <= 1, s \notin robbed' PROVE Covered(s)'
  <2>1. Covered(s)
    BY <1>1, <1>3 DEF Bases, FlushInv
  <2>2. flush'.due = flush.due
    BY <1>1, LinkDone DEF Bases
  <2> QED BY <1>1, <2>1, <2>2 DEF Covered, Filtered
<1> QED BY <1>1, <1>2, <1>3, SettledSave

LEMMA WriteFailsKeepsFlush ==
  ASSUME Bases, NEW s \in Stores, WriteFails(s)
  PROVE  FlushInv'
<1>1. /\ UNCHANGED <<log, queued, saved>> /\ FlushSeesLinkDone(s) /\ Saving(s)
      /\ batch'[s] = {} /\ robbed \subseteq robbed'
      /\ \A r \in Stores : r # s => UNCHANGED <<batch[r], failures[r]>>
  BY DEF WriteFails, Bases, TypeOK
<1>2. Links(s) > 0 /\ Links(s)' = Links(s) - 1 /\ ~Saving(s)'
  BY <1>1, LinksAreNatural DEF Bases, Links, Saving
<1>3. failures'[s] # 0
  BY BackoffAssumption DEF WriteFails, BackedOff, Bases, TypeOK
<1> QED BY <1>1, <1>2, <1>3, SettledSave

LEMMA FlushStepKeepsFlush ==
  ASSUME Bases, Flush \/ FlushSettles
  PROVE  FlushInv'
<1>1. UNCHANGED <<log, batch, failures, saved, robbed>>
  BY DEF Flush, FlushSettles, chains, backoff
<1>2. NextSeq' = NextSeq /\ \A r \in Stores : Saving(r)' = Saving(r)
  BY <1>1 DEF NextSeq, Saving
<1>3. CASE Flush
  <2>1. /\ \A s \in Stores : queued'[s] = queued[s] + 1 /\ flush'.ahead[s] = Links(s) + 1
        /\ flush'.due = NextSeq
    BY <1>3 DEF Flush
  <2>2. ASSUME NEW s \in Stores
        PROVE  /\ flush'.ahead[s] = Links(s)' /\ Links(s)' \in Nat
               /\ flush'.ahead[s] # 0 /\ (Saving(s) => flush'.ahead[s] >= 2)
    BY <1>1, <1>2, <2>1, LinksAreNatural DEF Bases, Links
  <2>3. flush'.due <= NextSeq'
    BY <1>2, <2>1, LinksAreNatural, StoresAssumption DEF Bases
  <2>4. \A s \in Stores : flush'.ahead[s] <= Links(s)'
    BY <2>2
  <2>5. \A s \in Stores : Saving(s)' => ~(flush'.ahead[s] <= 1)
    BY <1>2, <2>2
  <2> QED BY <2>2, <2>3, <2>4, <2>5 DEF FlushInv
<1>4. CASE FlushSettles /\ flush.moved
  <2>1. /\ flush.waiting /\ queued' = queued
        /\ \A s \in Stores : flush.ahead[s] = 0 /\ flush'.ahead[s] = Links(s)
        /\ flush'.due = flush.due
    BY <1>4 DEF FlushSettles, chains, Bases, TypeOK
  <2>2. \A s \in Stores : Links(s)' = Links(s) /\ Links(s) \in Nat
    BY <1>2, <2>1, LinksAreNatural DEF Links, Bases
  <2>3. \A s \in Stores : Covered(s)' <=> Covered(s)
    BY <1>1, <2>1 DEF Covered, Filtered
  <2>4. \A s \in Stores : Saving(s) => Links(s) # 0
    BY LinksAreNatural DEF Bases
  <2> QED BY <1>1, <1>2, <2>1, <2>2, <2>3, <2>4 DEF Bases, FlushInv
<1>5. CASE FlushSettles /\ ~flush.moved
  BY <1>5 DEF FlushSettles, NoFlush, FlushInv
<1> QED BY <1>3, <1>4, <1>5

LEMMA FlushInvKept == Bases /\ [Next]_vars => FlushInv'
<1> SUFFICES ASSUME Bases, [Next]_vars PROVE FlushInv'
  OBVIOUS
<1>1. CASE UNCHANGED vars
  BY <1>1 DEF vars, chains, backoff, Bases, FlushInv, Covered, Filtered, Links, Saving, NextSeq
<1>2. CASE \E kind \in Kinds : Record(kind)
  BY <1>2, RecordKeepsFlush
<1>3. CASE \E s \in Stores : Process(s) \/ Extract(s)
  BY <1>3, ProcessKeepsFlush, ExtractKeepsFlush
<1>4. CASE \E s \in Stores : WriteSucceeds(s) \/ WriteFails(s)
  BY <1>4, WriteSucceedsKeepsFlush, WriteFailsKeepsFlush
<1>5. CASE Flush \/ FlushSettles
  BY <1>5, FlushStepKeepsFlush
<1> QED BY <1>1, <1>2, <1>3, <1>4, <1>5 DEF Next

(* FlushCovers: when flush returns, each store whose last write did not fail *)
(* and that was not robbed has everything recorded before the call, whatever *)
(* other saves, retries and trims came in between.                           *)
THEOREM FlushCorrect == Spec => FlushCovers
<1> DEFINE Covers == flush.waiting /\ ~flush'.waiting =>
                       \A s \in Stores : failures[s] = 0 /\ s \notin robbed =>
                         \A m \in Filtered(s, 0 .. flush.due - 1) : m \in saved[s]
<1>1. Init => FlushInv
  BY DEF Init, NoFlush, FlushInv
<1>2. Bases /\ [Next]_vars => [Covers]_vars
  <2> SUFFICES ASSUME Bases, Next, flush.waiting, ~flush'.waiting,
                      NEW s \in Stores, failures[s] = 0, s \notin robbed,
                      NEW m \in Filtered(s, 0 .. flush.due - 1)
               PROVE  m \in saved[s]
    BY DEF vars
  <2>1. FlushSettles /\ ~flush.moved
    <3>1. ASSUME NEW r \in Stores, Process(r) \/ Extract(r) \/ WriteSucceeds(r) \/ WriteFails(r)
          PROVE  FALSE
      <4>1. UNCHANGED flush \/ FlushSeesEnqueue \/ FlushSeesLinkDone(r)
        BY <3>1 DEF Process, Extract, NothingFresh, NothingWanted, BeginWrite,
                    WriteSucceeds, WriteFails
      <4> QED BY <4>1, EnqueueSeen, LinkDone DEF Bases
    <3>2. ~Flush /\ ~\E kind \in Kinds : Record(kind)
      BY DEF Flush, Record
    <3>3. FlushSettles
      BY <3>1, <3>2 DEF Next
    <3> QED BY <3>3 DEF FlushSettles, Bases, TypeOK
  <2>2. flush.ahead[s] = 0 /\ flush.ahead[s] = Links(s)
    BY <2>1 DEF FlushSettles, Bases, FlushInv
  <2>3. Covered(s)
    BY <2>2 DEF Bases, FlushInv
  <2>4. batch[s] = {}
    BY <2>2, LinksAreNatural DEF Bases, Saving
  <2> QED BY <2>3, <2>4 DEF Covered
<1>3. Spec => []Bases
  <2>1. TypeOK /\ FailedSaveIsRetried /\ FlushInv <=> Bases
    BY DEF Bases
  <2> QED BY <1>1, <2>1, FlushInvKept, TypeCorrect, RetryCorrect, PTL DEF Spec
<1> QED BY <1>2, <1>3, PTL DEF Spec, FlushCovers
=============================================================================
