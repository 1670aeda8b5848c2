----------------------------- MODULE Graph_proofs -----------------------------
(* Proofs about the graph orchestrator, for every limit and whatever nodes,   *)
(* hooks and the consumer do: its types for every finite graph, the rest for  *)
(* those without parallel edges and repeated sources (SimpleGraph).           *)
EXTENDS Graph, TLAPS, FiniteSetTheorems, SequenceTheorems

-----------------------------------------------------------------------------
(* Lemmas about sequences without repetitions.                                *)

Distinct(s) == \A i, j \in DOMAIN s : s[i] = s[j] => i = j

LEMMA EmptyDistinct == Distinct(<<>>) /\ ToSet(<<>>) = {}
BY DEF Distinct, ToSet

LEMMA ListProperties ==
  ASSUME NEW S, IsFiniteSet(S), NEW s \in SetToSeqs(S)
  PROVE  s \in Seq(S) /\ Distinct(s) /\ ToSet(s) \subseteq S
<1>2. Cardinality(S) \in Nat
  BY FS_CardinalityType
<1>3. s \in [1 .. Cardinality(S) -> S]
  BY DEF SetToSeqs
<1>4. s \in Seq(S)
  BY <1>2, <1>3, SeqDef
<1>5. \A i, j \in 1 .. Cardinality(S) : i # j => s[i] # s[j]
  BY DEF SetToSeqs
<1> QED BY <1>3, <1>4, <1>5 DEF Distinct, ToSet

LEMMA TailProperties ==
  ASSUME NEW s \in Seq(Nodes), s # <<>>, Distinct(s)
  PROVE  /\ Head(s) \in Nodes /\ Tail(s) \in Seq(Nodes)
         /\ Distinct(Tail(s))
         /\ Head(s) \in ToSet(s)
         /\ ToSet(Tail(s)) = ToSet(s) \ {Head(s)}
<1>1. /\ Head(s) \in Nodes /\ Tail(s) \in Seq(Nodes)
      /\ Len(Tail(s)) = Len(s) - 1
      /\ \A i \in 1 .. Len(Tail(s)) : Tail(s)[i] = s[i + 1]
  BY HeadTailProperties
<1>2. Len(s) \in Nat \ {0} /\ DOMAIN s = 1 .. Len(s) /\ Head(s) = s[1]
  BY EmptySeq, LenProperties
<1>3. DOMAIN Tail(s) = 1 .. Len(s) - 1
  BY <1>1, LenProperties
<1>4. Distinct(Tail(s))
  BY <1>1, <1>2, <1>3 DEF Distinct
<1>5. ASSUME NEW x \in ToSet(Tail(s)) PROVE x \in ToSet(s) /\ x # Head(s)
  <2>1. PICK i \in 1 .. Len(s) - 1 : Tail(s)[i] = x
    BY <1>3 DEF ToSet
  <2>2. x = s[i + 1] /\ i + 1 \in 1 .. Len(s) /\ i + 1 # 1
    BY <2>1, <1>1, <1>2
  <2> QED BY <2>2, <1>2 DEF ToSet, Distinct
<1>6. ASSUME NEW x \in ToSet(s), x # Head(s) PROVE x \in ToSet(Tail(s))
  <2>1. PICK i \in 1 .. Len(s) : s[i] = x /\ i # 1
    BY <1>2, <1>6 DEF ToSet
  <2>2. i - 1 \in 1 .. Len(s) - 1 /\ Tail(s)[i - 1] = x
    BY <2>1, <1>1, <1>2
  <2> QED BY <2>2, <1>3 DEF ToSet
<1>7. Head(s) \in ToSet(s)
  BY <1>2 DEF ToSet
<1> QED BY <1>1, <1>4, <1>5, <1>6, <1>7

LEMMA ConcatElements ==
  ASSUME NEW s \in Seq(Nodes), NEW t \in Seq(Nodes)
  PROVE  s \o t \in Seq(Nodes) /\ ToSet(s \o t) = ToSet(s) \cup ToSet(t)
<1> DEFINE r == s \o t
<1>1. /\ r \in Seq(Nodes) /\ Len(r) = Len(s) + Len(t)
      /\ \A i \in 1 .. Len(s) + Len(t) :
           r[i] = IF i <= Len(s) THEN s[i] ELSE t[i - Len(s)]
  BY ConcatProperties
<1>2. /\ Len(s) \in Nat /\ DOMAIN s = 1 .. Len(s)
      /\ Len(t) \in Nat /\ DOMAIN t = 1 .. Len(t)
      /\ DOMAIN r = 1 .. Len(s) + Len(t)
  BY <1>1, LenProperties
<1> HIDE DEF r
<1>3. ASSUME NEW x \in ToSet(r) PROVE x \in ToSet(s) \cup ToSet(t)
  <2>1. PICK i \in 1 .. Len(s) + Len(t) : r[i] = x
    BY <1>2 DEF ToSet
  <2>2. CASE i <= Len(s)
    BY <2>1, <2>2, <1>1, <1>2 DEF ToSet
  <2>3. CASE i > Len(s)
    <3>1. i - Len(s) \in DOMAIN t /\ t[i - Len(s)] = x
      BY <2>1, <2>3, <1>1, <1>2
    <3> QED BY <3>1 DEF ToSet
  <2> QED BY <2>2, <2>3, <1>2
<1>4. ASSUME NEW x \in ToSet(s) PROVE x \in ToSet(r)
  <2>1. PICK i \in 1 .. Len(s) : s[i] = x
    BY <1>2 DEF ToSet
  <2>2. i \in DOMAIN r /\ r[i] = x
    BY <2>1, <1>1, <1>2
  <2> QED BY <2>2 DEF ToSet
<1>5. ASSUME NEW x \in ToSet(t) PROVE x \in ToSet(r)
  <2>1. PICK i \in 1 .. Len(t) : t[i] = x
    BY <1>2 DEF ToSet
  <2>2. i + Len(s) \in DOMAIN r /\ r[i + Len(s)] = x
    BY <2>1, <1>1, <1>2
  <2> QED BY <2>2 DEF ToSet
<1> QED BY <1>1, <1>3, <1>4, <1>5 DEF r

LEMMA ConcatDistinct ==
  ASSUME NEW s \in Seq(Nodes), NEW t \in Seq(Nodes), Distinct(s), Distinct(t),
         ToSet(s) \cap ToSet(t) = {}
  PROVE  Distinct(s \o t)
<1> DEFINE r == s \o t
<1>1. /\ r \in Seq(Nodes) /\ Len(r) = Len(s) + Len(t)
      /\ \A i \in 1 .. Len(s) + Len(t) :
           r[i] = IF i <= Len(s) THEN s[i] ELSE t[i - Len(s)]
  BY ConcatProperties
<1>2. /\ Len(s) \in Nat /\ DOMAIN s = 1 .. Len(s)
      /\ Len(t) \in Nat /\ DOMAIN t = 1 .. Len(t)
      /\ DOMAIN r = 1 .. Len(s) + Len(t)
  BY <1>1, LenProperties
<1> HIDE DEF r
<1>3. ASSUME NEW i \in DOMAIN r, NEW j \in DOMAIN r, r[i] = r[j] PROVE i = j
  <2>1. CASE i <= Len(s) /\ j <= Len(s)
    BY <2>1, <1>1, <1>2, <1>3 DEF Distinct
  <2>2. CASE i > Len(s) /\ j > Len(s)
    <3>1. i - Len(s) \in DOMAIN t /\ j - Len(s) \in DOMAIN t
      BY <2>2, <1>2
    <3>2. t[i - Len(s)] = t[j - Len(s)]
      BY <2>2, <1>1, <1>2, <1>3
    <3>3. i - Len(s) = j - Len(s)
      BY <3>1, <3>2 DEF Distinct
    <3> QED BY <3>3, <1>2
  <2>3. CASE i <= Len(s) /\ j > Len(s)
    <3>1. r[i] \in ToSet(s)
      BY <2>3, <1>1, <1>2 DEF ToSet
    <3>2. j - Len(s) \in DOMAIN t /\ r[j] = t[j - Len(s)]
      BY <2>3, <1>1, <1>2
    <3>3. r[j] \in ToSet(t)
      BY <3>2 DEF ToSet
    <3> QED BY <3>1, <3>3, <1>3
  <2>4. CASE i > Len(s) /\ j <= Len(s)
    <3>1. r[j] \in ToSet(s)
      BY <2>4, <1>1, <1>2 DEF ToSet
    <3>2. i - Len(s) \in DOMAIN t /\ r[i] = t[i - Len(s)]
      BY <2>4, <1>1, <1>2
    <3>3. r[i] \in ToSet(t)
      BY <3>2 DEF ToSet
    <3> QED BY <3>1, <3>3, <1>3
  <2> QED BY <2>1, <2>2, <2>3, <2>4, <1>2
<1>4. Distinct(r)
  BY <1>3 DEF Distinct
<1> QED BY <1>4 DEF r

-----------------------------------------------------------------------------
(* Lemmas about the queue: where it has the results and errors of a node.     *)

Ends(q, n) == {i \in DOMAIN q : q[i].type # "event" /\ q[i].node = n}

LEMMA EntryProperties ==
  ASSUME NEW n \in Nodes, NEW s \in ResultStatus
  PROVE  /\ Event(n) \in Entries /\ Event(n) \in Events
         /\ Event(n).type = "event" /\ Event(n).node = n
         /\ Result(n, s) \in Entries
         /\ Result(n, s).type = "result" /\ Result(n, s).node = n
         /\ Result(n, s).status = s
         /\ Failure(n) \in Entries
         /\ Failure(n).type = "error" /\ Failure(n).node = n
         /\ Event(n) # Nothing
BY DEF Entries, Events, Event, Result, Failure, Nothing

LEMMA EntryTypes ==
  ASSUME NEW x \in Entries
  PROVE  /\ x.node \in Nodes /\ x.type \in {"event", "result", "error"}
         /\ x.type = "event" => x = Event(x.node)
         /\ x.type = "result" => x.status \in ResultStatus
BY DEF Entries, Events, Event

LEMMA EndsOfEmpty ==
  ASSUME NEW n
  PROVE  <<>> \in Seq(Entries) /\ Ends(<<>>, n) = {}
BY DEF Ends

LEMMA AppendEnds ==
  ASSUME NEW q \in Seq(Entries), NEW x \in Entries
  PROVE  /\ Append(q, x) \in Seq(Entries)
         /\ Len(q) \in Nat /\ DOMAIN q = 1 .. Len(q)
         /\ DOMAIN Append(q, x) = 1 .. Len(q) + 1
         /\ \A i \in DOMAIN q : Append(q, x)[i] = q[i]
         /\ Append(q, x)[Len(q) + 1] = x
         /\ \A n \in Nodes :
              Ends(Append(q, x), n) =
                Ends(q, n) \cup (IF x.type # "event" /\ x.node = n
                                 THEN {Len(q) + 1} ELSE {})
<1>1. /\ Append(q, x) \in Seq(Entries)
      /\ Len(q) \in Nat /\ DOMAIN q = 1 .. Len(q)
      /\ DOMAIN Append(q, x) = 1 .. Len(q) + 1
      /\ \A i \in DOMAIN q : Append(q, x)[i] = q[i]
      /\ Append(q, x)[Len(q) + 1] = x
  BY LenProperties, AppendProperties
<1> DEFINE r == Append(q, x)
<1> HIDE DEF r
<1>2. /\ DOMAIN r = 1 .. Len(q) + 1 /\ r[Len(q) + 1] = x
      /\ \A i \in DOMAIN q : r[i] = q[i]
  BY <1>1 DEF r
<1>3. \A n \in Nodes :
        Ends(r, n) = Ends(q, n) \cup (IF x.type # "event" /\ x.node = n
                                      THEN {Len(q) + 1} ELSE {})
  BY <1>1, <1>2 DEF Ends
<1> QED BY <1>1, <1>3 DEF r

LEMMA OthersKeepEnds ==
  ASSUME NEW q \in Seq(Entries), NEW x \in Entries, NEW m \in Nodes,
         x.type = "event" \/ x.node # m
  PROVE  Append(q, x) \in Seq(Entries) /\ Ends(Append(q, x), m) = Ends(q, m)
<1>1. Ends(Append(q, x), m) = Ends(q, m) \cup (IF x.type # "event" /\ x.node = m
                                              THEN {Len(q) + 1} ELSE {})
  BY AppendEnds
<1> QED BY <1>1, AppendEnds

LEMMA PairAppended ==
  ASSUME NEW q \in Seq(Entries), NEW x \in Entries, NEW y \in Entries
  PROVE  q \o <<x, y>> = Append(Append(q, x), y)
<1>1. <<x, y>> \in Seq(Entries) /\ Len(<<x, y>>) = 2
  OBVIOUS
<1>2. /\ q \o <<x, y>> \in Seq(Entries) /\ Len(q \o <<x, y>>) = Len(q) + 2
      /\ \A i \in 1 .. Len(q) + 2 :
           (q \o <<x, y>>)[i] = IF i <= Len(q) THEN q[i] ELSE <<x, y>>[i - Len(q)]
  BY <1>1, ConcatProperties
<1> DEFINE a == Append(q, x)
           b == Append(a, y)
<1>3. /\ a \in Seq(Entries) /\ Len(q) \in Nat
      /\ Len(a) = Len(q) + 1
      /\ \A i \in 1 .. Len(q) : a[i] = q[i]
      /\ a[Len(q) + 1] = x
  BY AppendProperties, LenProperties
<1> HIDE DEF a
<1>4. /\ b \in Seq(Entries) /\ Len(b) = Len(q) + 2
      /\ \A i \in 1 .. Len(q) + 1 : b[i] = a[i]
      /\ b[Len(q) + 2] = y
  BY <1>3, AppendProperties, LenProperties
<1> HIDE DEF b
<1>5. ASSUME NEW i \in 1 .. Len(q) + 2 PROVE (q \o <<x, y>>)[i] = b[i]
  <2>1. CASE i <= Len(q)
    BY <2>1, <1>2, <1>3, <1>4
  <2>2. CASE i = Len(q) + 1
    BY <2>2, <1>2, <1>3, <1>4
  <2>3. CASE i = Len(q) + 2
    BY <2>3, <1>2, <1>3, <1>4
  <2> QED BY <2>1, <2>2, <2>3, <1>3
<1>6. q \o <<x, y>> = b
  BY <1>2, <1>4, <1>5, SeqEqual
<1> QED BY <1>6 DEF a, b

LEMMA TailEnds ==
  ASSUME NEW q \in Seq(Entries), q # <<>>
  PROVE  /\ Head(q) \in Entries /\ Head(q) = q[1] /\ 1 \in DOMAIN q
         /\ Tail(q) \in Seq(Entries)
         /\ DOMAIN q \subseteq Nat
         /\ \A i \in DOMAIN Tail(q) : i + 1 \in DOMAIN q /\ Tail(q)[i] = q[i + 1]
         /\ \A i \in DOMAIN q : i # 1 => i - 1 \in DOMAIN Tail(q) /\ Tail(q)[i - 1] = q[i]
         /\ \A n \in Nodes : \A i \in Ends(Tail(q), n) : i + 1 \in Ends(q, n)
         /\ \A n \in Nodes : \A i \in Ends(q, n) :
              i = 1 \/ i - 1 \in Ends(Tail(q), n)
<1>1. /\ Head(q) \in Entries /\ Tail(q) \in Seq(Entries)
      /\ Len(Tail(q)) = Len(q) - 1
      /\ \A i \in 1 .. Len(Tail(q)) : Tail(q)[i] = q[i + 1]
  BY HeadTailProperties
<1>2. Len(q) \in Nat \ {0} /\ DOMAIN q = 1 .. Len(q) /\ Head(q) = q[1]
  BY EmptySeq, LenProperties
<1>3. DOMAIN Tail(q) = 1 .. Len(q) - 1
  BY <1>1, LenProperties
<1> DEFINE r == Tail(q)
<1> HIDE DEF r
<1>4. /\ DOMAIN r = 1 .. Len(q) - 1
      /\ \A i \in 1 .. Len(q) - 1 : r[i] = q[i + 1]
  BY <1>1, <1>3 DEF r
<1>5. \A i \in DOMAIN q : i # 1 => i - 1 \in DOMAIN r /\ r[i - 1] = q[i]
  BY <1>2, <1>4
<1>6. \A n \in Nodes : \A i \in Ends(r, n) : i + 1 \in Ends(q, n)
  BY <1>2, <1>4 DEF Ends
<1>7. \A n \in Nodes : \A i \in Ends(q, n) : i = 1 \/ i - 1 \in Ends(r, n)
  BY <1>5 DEF Ends
<1>8. \A i \in DOMAIN r : i + 1 \in DOMAIN q /\ r[i] = q[i + 1]
  BY <1>2, <1>4
<1>9. 1 \in DOMAIN q /\ DOMAIN q \subseteq Nat
  BY <1>2
<1> QED BY <1>1, <1>2, <1>5, <1>6, <1>7, <1>8, <1>9 DEF r

-----------------------------------------------------------------------------
(* Lemmas about the bag of results.                                           *)

LEMMA RecordResult ==
  ASSUME NEW B, IsABag(B), NEW x
  PROVE  LET C == B (+) SetToBag({x})
         IN  IsABag(C) /\ BagToSet(C) = BagToSet(B) \cup {x}
<1> DEFINE C == B (+) SetToBag({x})
<1>1. DOMAIN SetToBag({x}) = {x} /\ SetToBag({x})[x] = 1
  BY DEF SetToBag
<1> DEFINE D == SetToBag({x})
<1> HIDE DEF D
<1>2. C = [y \in DOMAIN B \cup DOMAIN D |->
             (IF y \in DOMAIN B THEN B[y] ELSE 0) + (IF y \in DOMAIN D THEN D[y] ELSE 0)]
  BY DEF (+), D
<1>3. \A y \in DOMAIN B : B[y] \in Nat /\ B[y] > 0
  BY DEF IsABag
<1>4. DOMAIN D = {x} /\ D[x] = 1
  BY <1>1 DEF D
<1> HIDE DEF C
<1>5. DOMAIN C = DOMAIN B \cup {x}
  BY <1>2, <1>4
<1>6. \A y \in DOMAIN C : C[y] \in Nat /\ C[y] > 0
  BY <1>2, <1>3, <1>4
<1>7. C = [y \in DOMAIN C |-> C[y]]
  BY <1>2
<1>8. IsABag(C)
  BY <1>6, <1>7 DEF IsABag
<1> QED BY <1>5, <1>8 DEF C, BagToSet

LEMMA DropResult ==
  ASSUME IsABag(results), NEW n \in Nodes
  PROVE  /\ IsABag(DropStale(n))
         /\ BagToSet(DropStale(n)) \subseteq BagToSet(results)
         /\ \A m \in Nodes : \A s : m # n /\ BagIn(<<m, s>>, results)
                                      => BagIn(<<m, s>>, DropStale(n))
<1> DEFINE x == <<n, "INTERRUPTED">>
           D == SetToBag({x})
           C == results (-) D
<1>1. DOMAIN D = {x} /\ D[x] = 1
  BY DEF SetToBag
<1> HIDE DEF D
<1> DEFINE L == [y \in DOMAIN results |->
                   IF y \in DOMAIN D THEN results[y] - D[y] ELSE results[y]]
           K == {y \in DOMAIN L : L[y] > 0}
<1>2. C = [y \in K |-> L[y]]
  BY DEF (-)
<1>3. \A y \in DOMAIN results : results[y] \in Nat /\ results[y] > 0
  BY DEF IsABag
<1>4. /\ DOMAIN L = DOMAIN results
      /\ \A y \in DOMAIN results : y # x => L[y] = results[y]
      /\ \A y \in DOMAIN results : y = x => L[y] = results[y] - 1
  BY <1>1
<1> HIDE DEF L
<1>5. \A y \in DOMAIN results : L[y] \in Int
  BY <1>3, <1>4
<1>6. \A y \in K : L[y] \in Nat /\ L[y] > 0
  BY <1>4, <1>5
<1>7. \A y \in DOMAIN results : y # x => y \in K
  BY <1>3, <1>4
<1>8. K \subseteq DOMAIN results
  BY <1>4
<1> HIDE DEF K, C
<1>9. IsABag(C) /\ DOMAIN C = K
  BY <1>2, <1>6 DEF IsABag
<1>10. DropStale(n) = IF status[n] = "INTERRUPTED" THEN C ELSE results
  BY DEF DropStale, C, D
<1>11. \A m \in Nodes : \A s : m # n => <<m, s>> # x
  OBVIOUS
<1> QED BY <1>7, <1>8, <1>9, <1>10, <1>11 DEF BagToSet, BagIn

LEMMA EmptyBagProperties == IsABag(EmptyBag) /\ BagToSet(EmptyBag) = {}
BY DEF IsABag, BagToSet, EmptyBag, SetToBag

-----------------------------------------------------------------------------
(* A node whose execution has not delivered is in streams and has nothing in  *)
(* the queue but events; what waits to be scheduled is not running, and while *)
(* the loop schedules it has nothing to deliver either.                       *)
Active == {"running", "updating", "reported", "answering", "failing", "erring"}

Tracked ==
  /\ \A n \in Nodes : phase[n] \in Active => n \in streams /\ Ends(queue, n) = {}
  /\ Cardinality(streams) <= MaxConcurrency
  /\ pc = "idle" => \A n \in Nodes : phase[n] \notin Active
  /\ pc # "overwritten" /\ Distinct(targets)
  /\ pc \in {"top", "schedule", "drain"} => ToSet(targets) \cap streams = {}
  /\ pc \in {"top", "schedule"} => \A n \in ToSet(targets) : Ends(queue, n) = {}

(* The type invariant.  A node that has ended has the status of a result, it  *)
(* has not been executed more often than there were steps, and an invocation  *)
(* under way has no outcome yet.                                              *)

Types ==
  /\ TypeOK
  /\ \A n \in Nodes : phase[n] \in {"reported", "answering"} => status[n] \in ResultStatus
  /\ \A n \in Nodes : runs[n] <= steps
  /\ pc \in {"top", "schedule", "drain"} => outcome = "none"
  /\ pc = "settling" => outcome = "thrown"

LEMMA UnwindProperties ==
  ASSUME TypeOK, Unwind
  PROVE  /\ pc' = "settling" /\ outcome' = "thrown" /\ queue' = <<>>
         /\ phase' \in [Nodes -> Phase]
         /\ \A n \in Nodes :
              \/ phase'[n] = "none"
              \/ phase'[n] = "running" /\ phase[n] \in {"running", "updating"}
              \/ phase'[n] = phase[n] /\ handling # Nothing /\ handling.node = n
<1>1. phase \in [Nodes -> Phase]
  BY DEF TypeOK
<1>2. \A n \in Nodes :
        LET p == CASE handling # Nothing /\ handling.node = n -> phase[n]
                   [] phase[n] = "updating" -> "running"
                   [] phase[n] = "running" -> "running"
                   [] OTHER -> "none"
        IN  \/ p = "none"
            \/ p = "running" /\ phase[n] \in {"running", "updating"}
            \/ p = phase[n] /\ handling # Nothing /\ handling.node = n
  OBVIOUS
<1> QED BY <1>1, <1>2 DEF Unwind, Phase

(* An invocation begins with a list of nodes, that names none twice unless    *)
(* the sources do.                                                            *)
IsFirst(list) == list \in Seq(Nodes) /\ (SimpleGraph => Distinct(list))

LEMMA SourcesAreFirst == IsFirst(Sources)
BY TopologyAssumption DEF IsFirst, SimpleGraph, IsInjective, Distinct

LEMMA SourcesAreNodes == ToSet(Sources) \subseteq Nodes
BY TopologyAssumption, LenProperties DEF ToSet

LEMMA OrdersAreFirst ==
  ASSUME NEW S \in SUBSET Nodes, NEW list \in SetToSeqs(S)
  PROVE  IsFirst(list) /\ ToSet(list) \subseteq S
<1>1. IsFiniteSet(S)
  BY FS_Subset, TopologyAssumption
<1>2. list \in Seq(S) /\ Distinct(list) /\ ToSet(list) \subseteq S
  BY <1>1, ListProperties
<1> QED BY <1>2 DEF IsFirst

LEMMA ResumeTargetsAreFirst ==
  ASSUME NEW open, NEW list \in FindResumeTargets(open)
  PROVE  IsFirst(list)
<1>1. ReadyToResume(open) \in SUBSET Nodes
  BY DEF ReadyToResume
<1> QED BY <1>1, SourcesAreFirst, OrdersAreFirst DEF FindResumeTargets

LEMMA FirstTargets ==
  ASSUME Invoke \/ InvokeAgain \/ Resume
  PROVE  \E list : IsFirst(list) /\ Begin(list)
<1>1. CASE Invoke
  BY <1>1, SourcesAreFirst DEF Invoke
<1>2. CASE InvokeAgain
  BY <1>2, ResumeTargetsAreFirst DEF InvokeAgain
<1>3. CASE Resume
  <2>1. PICK answered \in SUBSET Nodes : \E list \in SetToSeqs(answered) : Begin(list)
    BY <1>3 DEF Resume
  <2> QED BY <2>1, OrdersAreFirst
<1> QED BY <1>1, <1>2, <1>3

LEMMA EndsAreEntries ==
  ASSUME NEW n \in Nodes, NEW s \in {"INTERRUPTED", "CANCELLED"}
  PROVE  Result(n, s) \in Entries /\ s \in Status
BY EntryProperties DEF Status, ResultStatus

LEMMA TypesInitially == Init => Types
<1> SUFFICES ASSUME Init PROVE Types
  OBVIOUS
<1>1. /\ <<>> \in Seq(Nodes) /\ <<>> \in Seq(Entries)
      /\ IsABag(EmptyBag) /\ BagToSet(EmptyBag) = {}
      /\ 0 \in 0 .. MaxSteps
  BY EmptyBagProperties, LimitsAssumption
<1>2. TypeOK
  BY <1>1 DEF Init, TypeOK, Status, Phase
<1> QED BY <1>2 DEF Init, Types

LEMMA InvocationKeepsTypes ==
  ASSUME Types, Invoke \/ InvokeAgain \/ Resume \/ ResumeRejected
  PROVE  Types'
<1> USE DEF Types
<1>1. /\ <<>> \in Seq(Entries) /\ 0 \in 0 .. MaxSteps
      /\ IsABag(EmptyBag) /\ BagToSet(EmptyBag) = {}
  BY EmptyBagProperties, LimitsAssumption
<1>2. ASSUME NEW list, IsFirst(list), Begin(list), startedOver' \in BOOLEAN,
             UNCHANGED state \/ (status' = [n \in Nodes |-> "PENDING"]
                                 /\ results' = EmptyBag /\ steps' = 0)
      PROVE  Types'
  <2>1. /\ status' \in [Nodes -> Status] /\ steps' \in 0 .. MaxSteps
        /\ IsABag(results') /\ BagToSet(results') \subseteq Nodes \X ResultStatus
    BY <1>1, <1>2 DEF TypeOK, state, Status
  <2>2. /\ pc' = "top" /\ outcome' = "none" /\ targets' \in Seq(Nodes)
        /\ streams' = {} /\ queue' = <<>> /\ handling' = Nothing
        /\ interrupted' = FALSE /\ aborted' = FALSE
        /\ phase' = [n \in Nodes |-> "none"]
        /\ runs' = [n \in Nodes |-> 0]
    BY <1>2 DEF Begin, IsFirst
  <2>3. TypeOK'
    BY <1>1, <1>2, <2>1, <2>2 DEF TypeOK, Phase
  <2>4. \A n \in Nodes : runs'[n] <= steps'
    BY <2>1, <2>2, LimitsAssumption
  <2> QED BY <2>2, <2>3, <2>4
<1>3. CASE Invoke \/ InvokeAgain \/ Resume
  <2>1. PICK list : IsFirst(list) /\ Begin(list)
    BY <1>3, FirstTargets
  <2>2. startedOver' \in BOOLEAN
    BY <1>3 DEF Invoke, InvokeAgain, Resume, TypeOK
  <2> QED BY <1>2, <1>3, <2>1, <2>2 DEF Invoke, InvokeAgain, Resume
<1>4. CASE ResumeRejected
  BY <1>4 DEF ResumeRejected, TypeOK, state, history
<1> QED BY <1>3, <1>4

LEMMA StoppingKeepsTypes ==
  ASSUME Types, Unwind, targets' \in Seq(Nodes), streams' \in SUBSET Nodes,
         interrupted' \in BOOLEAN,
         IsABag(results'), BagToSet(results') \subseteq Nodes \X ResultStatus,
         UNCHANGED <<handling, aborted, status, steps, history>>
  PROVE  Types'
<1>1. <<>> \in Seq(Entries)
  OBVIOUS
<1>2. TypeOK'
  BY <1>1, UnwindProperties DEF Types, TypeOK, history
<1> QED BY <1>2, UnwindProperties DEF Types, history

LEMMA ScheduleKeepsTypes ==
  ASSUME Types, Schedule
  PROVE  Types'
<1> USE DEF Types
<1> DEFINE n == Head(targets)
<1>1. n \in Nodes /\ Tail(targets) \in Seq(Nodes)
  BY HeadTailProperties DEF Schedule, MaySchedule, TypeOK
<1> HIDE DEF n
<1>2. steps \in Nat /\ steps + 1 \in 0 .. MaxSteps
  BY LimitsAssumption DEF Schedule, StepsLeft, TypeOK
<1>3. IsABag(DropStale(n)) /\ BagToSet(DropStale(n)) \subseteq Nodes \X ResultStatus
  BY <1>1, DropResult DEF TypeOK
<1>4. CASE Start(n)
  <2>1. /\ phase' \in [Nodes -> Phase] /\ status' \in [Nodes -> Status]
        /\ streams' \in SUBSET Nodes
    BY <1>1, <1>4 DEF Start, TypeOK, Phase, Status
  <2>2. /\ runs' \in [Nodes -> 0 .. MaxSteps]
        /\ \A m \in Nodes : runs'[m] <= steps + 1
    BY <1>1, <1>2, <1>4, LimitsAssumption DEF Start, TypeOK
  <2>3. TypeOK'
    BY <2>1, <2>2, <1>1, <1>2, <1>3, <1>4 DEF Schedule, Start, TypeOK, n
  <2>4. \A m \in Nodes : phase'[m] \in {"reported", "answering"} =>
          phase[m] = phase'[m] /\ status'[m] = status[m]
    BY <1>1, <1>4 DEF Start, TypeOK
  <2> QED BY <2>2, <2>3, <2>4 DEF Schedule
<1>5. ASSUME NEW decision \in {"interrupt", "cancel"}, Gate(n, decision)
      PROVE  Types'
  <2> DEFINE gated == IF decision = "interrupt" THEN "INTERRUPTED" ELSE "CANCELLED"
  <2>1. Result(n, gated) \in Entries /\ gated \in Status
    BY <1>1, EndsAreEntries
  <2>2. queue' \in Seq(Entries) /\ status' \in [Nodes -> Status]
    BY <1>1, <1>5, <2>1, AppendEnds DEF Gate, TypeOK
  <2>3. IsABag(results') /\ BagToSet(results') \subseteq Nodes \X ResultStatus
    BY <1>3, <1>5 DEF Gate, TypeOK
  <2>4. TypeOK'
    BY <2>2, <2>3, <1>1, <1>2, <1>5 DEF Schedule, Gate, TypeOK
  <2>5. \A m \in Nodes : runs'[m] <= steps'
    BY <1>2, <1>5 DEF Schedule, Gate, TypeOK
  <2>6. \A m \in Nodes : phase[m] \in {"reported", "answering"} => status'[m] \in ResultStatus
    BY <1>1, <1>5 DEF Gate, TypeOK, ResultStatus
  <2> QED BY <2>4, <2>5, <2>6, <1>5 DEF Schedule, Gate
<1> QED BY <1>4, <1>5 DEF Schedule, n

(* The targets of the edges that _findReady returns.                          *)
ReadyNodes(n, open) == {e[2] : e \in FindReady(n, open)}

LEMMA ReadyEdges ==
  ASSUME NEW n, NEW open
  PROVE  /\ IsFiniteSet(FindReady(n, open))
         /\ FindReady(n, open) \subseteq Edges
         /\ \A e \in FindReady(n, open) : e[1] = n /\ e[2] \in Nodes
<1>1. FindReady(n, open) \subseteq Edges /\ \A e \in FindReady(n, open) : e[1] = n
  BY DEF FindReady
<1> QED BY <1>1, FS_Subset, TopologyAssumption

LEMMA TargetsAreNodes ==
  ASSUME NEW n, NEW open, NEW new \in SetToSeqs(FindReady(n, open))
  PROVE  /\ TargetsOf(new) \in Seq(Nodes)
         /\ DOMAIN TargetsOf(new) = DOMAIN new
         /\ new \in Seq(FindReady(n, open))
         /\ \A i \in DOMAIN new : new[i] \in FindReady(n, open) /\ TargetsOf(new)[i] = new[i][2]
<1>1. new \in Seq(FindReady(n, open))
  BY ReadyEdges, ListProperties
<1>2. /\ Len(new) \in Nat /\ DOMAIN new = 1 .. Len(new)
      /\ \A i \in 1 .. Len(new) : new[i] \in FindReady(n, open)
  BY <1>1, LenProperties, ElementOfSeq
<1>3. TargetsOf(new) \in [1 .. Len(new) -> Nodes]
  BY <1>2, ReadyEdges DEF TargetsOf
<1>4. TargetsOf(new) \in Seq(Nodes)
  BY <1>2, <1>3, SeqDef
<1> QED BY <1>1, <1>2, <1>4 DEF TargetsOf

LEMMA HandlingResultKeepsTypes ==
  ASSUME Types, HandleResult
  PROVE  Types'
<1> USE DEF Types
<1> DEFINE n == Head(queue).node
           result == Head(queue).status
<1>1. /\ Head(queue) \in Entries /\ Head(queue).type = "result"
      /\ Tail(queue) \in Seq(Entries)
  BY TailEnds DEF HandleResult, Handling, TypeOK
<1>2. n \in Nodes /\ result \in ResultStatus
  BY <1>1, EntryTypes
<1> HIDE DEF n, result
<1>3. /\ streams' = streams \ {n} /\ results' = WithResult(n, result)
      /\ interrupted' \in BOOLEAN
  BY DEF HandleResult, n, result, TypeOK
<1>4. IsABag(results') /\ BagToSet(results') \subseteq Nodes \X ResultStatus
  <2>1. IsABag(results) /\ BagToSet(results) \subseteq Nodes \X ResultStatus
    BY DEF TypeOK
  <2>2. /\ IsABag(WithResult(n, result))
        /\ BagToSet(WithResult(n, result)) = BagToSet(results) \cup {<<n, result>>}
    BY <2>1, RecordResult DEF WithResult
  <2> QED BY <2>1, <2>2, <1>2, <1>3
<1>5. /\ UNCHANGED <<handling, aborted, status, steps, history>>
      /\ streams' \in SUBSET Nodes
  BY <1>3 DEF HandleResult, TypeOK
<1>6. ASSUME targets' \in Seq(Nodes), queue' = Tail(queue), UNCHANGED <<pc, outcome, phase>>
      PROVE  Types'
  <2>1. TypeOK'
    BY <1>1, <1>3, <1>4, <1>5, <1>6 DEF TypeOK, history
  <2> QED BY <2>1, <1>5, <1>6 DEF history
<1>7. CASE interrupted'
  BY <1>6, <1>7 DEF HandleResult, TypeOK
<1>8. CASE ~interrupted'
  <2>1. PICK open \in SUBSET Conditional :
          \/ /\ \E new \in SetToSeqs(FindReady(n, open)) : targets' = targets \o TargetsOf(new)
             /\ queue' = Tail(queue)
             /\ UNCHANGED <<pc, outcome, phase>>
          \/ Unwind /\ UNCHANGED targets
    BY <1>8 DEF HandleResult, n
  <2>2. \A new \in SetToSeqs(FindReady(n, open)) : targets \o TargetsOf(new) \in Seq(Nodes)
    BY TargetsAreNodes, ConcatProperties DEF TypeOK
  <2>4. CASE Unwind /\ UNCHANGED targets
    BY <2>4, <1>3, <1>4, <1>5, StoppingKeepsTypes DEF TypeOK
  <2> QED BY <2>1, <2>2, <2>4, <1>6
<1> QED BY <1>7, <1>8

LEMMA NodeKeepsTypes ==
  ASSUME Types, NEW n \in Nodes, Emit(n) \/ EndHandler(n) \/ Deliver(n)
  PROVE  Types'
<1> USE DEF Types
<1>1. Event(n) \in Entries /\ Failure(n) \in Entries
  BY EntryProperties DEF ResultStatus
<1>2. queue \in Seq(Entries) /\ phase \in [Nodes -> Phase]
  BY DEF TypeOK
<1>3. Append(queue, Event(n)) \in Seq(Entries) /\ Append(queue, Failure(n)) \in Seq(Entries)
  BY <1>1, <1>2, AppendEnds
<1>4. CASE Emit(n)
  <2>1. TypeOK'
    BY <1>2, <1>3, <1>4 DEF Emit, TypeOK, Phase, loop, state, history
  <2> QED BY <2>1, <1>4 DEF Emit, loop, state, history
<1>5. CASE EndHandler(n)
  <2>1. status' \in [Nodes -> Status]
    <3>1. PICK end \in Outcomes[n] \cup {"CANCELLED"} : status' = [status EXCEPT ![n] = end]
      BY <1>5 DEF EndHandler
    <3>2. end \in Status
      BY BehaviourAssumption DEF Status, ResultStatus
    <3> QED BY <3>1, <3>2 DEF TypeOK
  <2>2. phase' \in [Nodes -> Phase] /\ queue' \in Seq(Entries)
    BY <1>2, <1>3, <1>5 DEF EndHandler, Phase
  <2>3. TypeOK'
    BY <1>5, <2>1, <2>2 DEF EndHandler, TypeOK, loop, history
  <2>4. \A m \in Nodes : phase'[m] \in {"reported", "answering"} => status'[m] \in ResultStatus
    <3>1. PICK end \in ResultStatus : status' = [status EXCEPT ![n] = end]
      BY <1>5, BehaviourAssumption DEF EndHandler, ResultStatus
    <3>2. \A m \in Nodes : m # n => phase'[m] = phase[m] /\ status'[m] = status[m]
      BY <1>2, <1>5, <3>1 DEF EndHandler, TypeOK
    <3>3. status'[n] \in ResultStatus
      BY <3>1 DEF TypeOK
    <3> QED BY <3>2, <3>3
  <2> QED BY <2>3, <2>4, <1>5 DEF EndHandler, loop, history
<1>6. CASE Deliver(n)
  <2>1. UNCHANGED <<loop, handling, aborted, state, history>>
    BY <1>6 DEF Deliver
  <2>2. phase' \in [Nodes -> Phase]
    BY <1>2, <1>6 DEF Deliver, Phase
  <2>3. queue' \in Seq(Entries)
    <3>1. CASE /\ phase[n] = "answering"
               /\ queue' = queue \o <<Result(n, status[n]), Event(n)>>
      <4>1. Result(n, status[n]) \in Entries
        BY <3>1, EntryProperties
      <4> QED BY <3>1, <4>1, <1>1, <1>2, AppendEnds, PairAppended
    <3> QED BY <3>1, <1>3, <1>6 DEF Deliver
  <2>4. \A m \in Nodes : phase'[m] \in {"reported", "answering"} => phase[m] = phase'[m]
    BY <1>2, <1>6 DEF Deliver
  <2>5. TypeOK'
    BY <2>1, <2>2, <2>3 DEF TypeOK, loop, state, history
  <2> QED BY <2>1, <2>4, <2>5 DEF loop, state, history
<1> QED BY <1>4, <1>5, <1>6

LEMMA TypesKept ==
  ASSUME Types, [Next]_vars
  PROVE  Types'
<1> USE DEF Types
<1>1. CASE CheckAbort
  <2>1. CASE aborted
    BY <2>1, <1>1, StoppingKeepsTypes DEF CheckAbort, TypeOK, state
  <2>2. CASE ~aborted
    <3>1. TypeOK'
      BY <1>1, <2>2 DEF CheckAbort, TypeOK, state, history
    <3> QED BY <3>1, <1>1, <2>2 DEF CheckAbort, state, history
  <2> QED BY <2>1, <2>2
<1>2. CASE StepsExceeded \/ Break
  BY <1>2, StoppingKeepsTypes DEF StepsExceeded, Break, TypeOK, state
<1>3. CASE HandleError
  BY <1>3, StoppingKeepsTypes DEF HandleError, TypeOK, state
<1>4. CASE Finish
  <2>1. ResolveStatus \in ResultStatus
    BY DEF ResolveStatus, ResultStatus
  <2>2. TypeOK'
    BY <1>4, <2>1 DEF Finish, TypeOK, state, history
  <2> QED BY <1>4, <2>2 DEF Finish, state, history
<1>5. CASE HandleEvent
  <2>1. /\ Head(queue) \in Entries /\ Head(queue).type = "event"
        /\ Tail(queue) \in Seq(Entries)
    BY <1>5, TailEnds DEF HandleEvent, Handling, TypeOK
  <2>2. handling' \in Events
    BY <1>5, <2>1 DEF HandleEvent, Entries, Events
  <2>3. TypeOK'
    BY <1>5, <2>1, <2>2 DEF HandleEvent, TypeOK, loop, state, history
  <2> QED BY <1>5, <2>3 DEF HandleEvent, loop, state, history
<1>6. CASE Acknowledge
  <2> DEFINE n == handling.node
  <2>1. n \in Nodes /\ phase \in [Nodes -> Phase]
    BY <1>6 DEF Acknowledge, TypeOK, Events
  <2> HIDE DEF n
  <2>2. /\ UNCHANGED <<loop, queue, aborted, state, history>> /\ handling' = Nothing
        /\ phase' = [phase EXCEPT ![n] = CASE @ = "updating" -> "running"
                                           [] @ = "reported" -> "answering"
                                           [] @ = "failing"  -> "erring"
                                           [] OTHER -> "none"]
    BY <1>6 DEF Acknowledge, n
  <2>3. phase' \in [Nodes -> Phase]
    BY <2>1, <2>2 DEF Phase
  <2>4. \A m \in Nodes : phase'[m] \in {"reported", "answering"} =>
                          phase[m] \in {"reported", "answering"}
    BY <2>1, <2>2
  <2>5. TypeOK'
    BY <2>2, <2>3 DEF TypeOK, loop, state, history
  <2> QED BY <2>2, <2>4, <2>5 DEF loop, state, history
<1>7. CASE Wait \/ Drained \/ Settled
  <2>1. TypeOK'
    BY <1>7 DEF Wait, Drained, Settled, TypeOK, state, history
  <2> QED BY <1>7, <2>1 DEF Wait, Drained, Settled, state, history
<1>8. CASE Abort
  <2>1. TypeOK'
    BY <1>8 DEF Abort, TypeOK, loop, state, history
  <2> QED BY <1>8, <2>1 DEF Abort, loop, state, history
<1>9. CASE UNCHANGED vars
  <2>1. TypeOK'
    BY <1>9 DEF vars, TypeOK, loop, state, history
  <2> QED BY <1>9, <2>1 DEF vars, loop, state, history
<1>10. Schedule => Types'
  BY ScheduleKeepsTypes
<1>11. HandleResult => Types'
  BY HandlingResultKeepsTypes
<1>12. (\E n \in Nodes : Emit(n) \/ EndHandler(n) \/ Deliver(n)) => Types'
  BY NodeKeepsTypes
<1> QED BY <1>1, <1>2, <1>3, <1>4, <1>5, <1>6, <1>7, <1>8, <1>9, <1>10, <1>11, <1>12,
           InvocationKeepsTypes DEF Next, MainLoop

-----------------------------------------------------------------------------
(* Executions are tracked.                                                    *)

LEMMA StreamsAreFinite ==
  ASSUME TypeOK
  PROVE  IsFiniteSet(streams) /\ Cardinality(streams) \in Nat
BY FS_Subset, FS_CardinalityType, TopologyAssumption DEF TypeOK

LEMMA SmallerStreams ==
  ASSUME Types, Tracked, NEW T \in SUBSET streams
  PROVE  Cardinality(T) <= MaxConcurrency
<1>1. IsFiniteSet(T) /\ Cardinality(T) \in Nat /\ Cardinality(T) <= Cardinality(streams)
  BY StreamsAreFinite, FS_Subset, FS_CardinalityType DEF Types
<1> QED BY <1>1, StreamsAreFinite, LimitsAssumption DEF Types, Tracked

LEMMA TrackedInitially == Init => Tracked
BY EmptyDistinct, FS_EmptySet, LimitsAssumption DEF Init, Tracked, Active

LEMMA InvocationKeepsTracked ==
  ASSUME SimpleGraph, Tracked, Invoke \/ InvokeAgain \/ Resume \/ ResumeRejected
  PROVE  Tracked'
<1>1. CASE Invoke \/ InvokeAgain \/ Resume
  <2>1. PICK list : Distinct(list) /\ Begin(list)
    BY <1>1, FirstTargets DEF IsFirst
  <2>2. /\ targets' = list /\ streams' = {} /\ queue' = <<>>
        /\ pc' = "top" /\ phase' = [n \in Nodes |-> "none"]
    BY <2>1 DEF Begin
  <2>3. \A n : Ends(<<>>, n) = {}
    BY EndsOfEmpty
  <2> QED BY <2>1, <2>2, <2>3, FS_EmptySet, LimitsAssumption DEF Tracked, Active
<1>2. CASE ResumeRejected
  BY <1>2 DEF ResumeRejected, Tracked, state, history
<1> QED BY <1>1, <1>2

LEMMA StoppingKeepsTracked ==
  ASSUME Types, Tracked, Unwind, Distinct(targets'), streams' \subseteq streams,
         \A n \in streams \ streams' : phase[n] \notin Active
  PROVE  Tracked'
<1>1. pc' = "settling" /\ queue' = <<>>
  BY UnwindProperties DEF Types
<1>2. \A n \in Nodes : phase'[n] \in Active => phase[n] \in Active
  BY UnwindProperties DEF Types, Active
<1>3. \A n \in Nodes : phase'[n] \in Active => n \in streams'
  BY <1>2 DEF Tracked
<1>4. Cardinality(streams') <= MaxConcurrency
  BY SmallerStreams
<1>5. \A n : Ends(<<>>, n) = {}
  BY EndsOfEmpty
<1> QED BY <1>1, <1>3, <1>4, <1>5 DEF Tracked

(* The next target is not executing.                                          *)
LEMMA NextTarget ==
  ASSUME Types, Tracked, Schedule
  PROVE  /\ pc = "schedule" /\ pc' = "schedule" /\ targets' = Tail(targets)
         /\ Head(targets) \in Nodes /\ Head(targets) \in ToSet(targets)
         /\ Head(targets) \notin streams
         /\ Ends(queue, Head(targets)) = {}
         /\ Distinct(targets') /\ ToSet(targets') = ToSet(targets) \ {Head(targets)}
<1>1. pc = "schedule" /\ targets # <<>> /\ targets' = Tail(targets)
  BY DEF Schedule, MaySchedule
<1>2. /\ Head(targets) \in Nodes /\ Head(targets) \in ToSet(targets)
      /\ Distinct(targets') /\ ToSet(targets') = ToSet(targets) \ {Head(targets)}
  BY <1>1, TailProperties DEF Types, TypeOK, Tracked
<1>3. Head(targets) \notin streams /\ Ends(queue, Head(targets)) = {}
  BY <1>1, <1>2 DEF Tracked
<1> QED BY <1>1, <1>2, <1>3 DEF Schedule

LEMMA ScheduleKeepsTracked ==
  ASSUME Types, Tracked, Schedule
  PROVE  Tracked'
<1> DEFINE n == Head(targets)
<1>1. pc = "schedule" /\ pc' = "schedule"
  BY NextTarget
<1>2. /\ n \in Nodes
      /\ Distinct(targets') /\ ToSet(targets') = ToSet(targets) \ {n}
  BY NextTarget
<1>3. n \notin streams /\ Ends(queue, n) = {} /\ phase[n] \notin Active
  BY NextTarget DEF Tracked
<1> HIDE DEF n
<1>4. CASE Start(n)
  <2>1. /\ streams' = streams \cup {n} /\ queue' = queue
        /\ \A m \in Nodes : m # n => phase'[m] = phase[m]
    BY <1>2, <1>4 DEF Start, Types, TypeOK
  <2>2. Cardinality(streams') = Cardinality(streams) + 1
    BY <1>3, <2>1, StreamsAreFinite, FS_AddElement DEF Types
  <2>3. Cardinality(streams') <= MaxConcurrency
    BY <2>2, StreamsAreFinite, LimitsAssumption DEF Schedule, MaySchedule, Types
  <2> QED BY <1>1, <1>2, <1>3, <2>1, <2>3 DEF Tracked
<1>5. ASSUME NEW decision \in {"interrupt", "cancel"}, Gate(n, decision)
      PROVE  Tracked'
  <2> DEFINE gated == IF decision = "interrupt" THEN "INTERRUPTED" ELSE "CANCELLED"
  <2>1. Result(n, gated) \in Entries /\ Result(n, gated).node = n
    BY <1>2, EntryProperties DEF ResultStatus
  <2>2. \A m \in Nodes : m # n => Ends(queue', m) = Ends(queue, m)
    BY <1>2, <1>5, <2>1, OthersKeepEnds DEF Gate, Types, TypeOK
  <2>3. streams' = streams /\ phase' = phase
    BY <1>5 DEF Gate
  <2>4. ToSet(targets) \subseteq Nodes
    BY LenProperties DEF Types, TypeOK, ToSet
  <2> QED BY <1>1, <1>2, <1>3, <2>2, <2>3, <2>4 DEF Tracked
<1> QED BY <1>4, <1>5 DEF Schedule, n

(* Edges from one node to the same target are one edge.                       *)
LEMMA NewTargets ==
  ASSUME SimpleGraph, Types, Tracked, NEW n \in Nodes, NEW open,
         NEW new \in SetToSeqs(FindReady(n, open))
  PROVE  /\ Distinct(targets \o TargetsOf(new))
         /\ ToSet(targets \o TargetsOf(new)) \subseteq ToSet(targets) \cup ReadyNodes(n, open)
         /\ ReadyNodes(n, open) \cap (streams \ {n}) = {}
         /\ ReadyNodes(n, open) \subseteq Nodes
<1> DEFINE found == TargetsOf(new)
<1>1. ReadyNodes(n, open) \subseteq Nodes
  BY ReadyEdges DEF ReadyNodes
<1>2. /\ ReadyNodes(n, open) \cap ToSet(targets) = {}
      /\ ReadyNodes(n, open) \cap (streams \ {n}) = {}
  BY DEF ReadyNodes, FindReady
<1>3. /\ found \in Seq(Nodes) /\ DOMAIN found = DOMAIN new
      /\ \A i \in DOMAIN new : new[i] \in FindReady(n, open) /\ found[i] = new[i][2]
  BY TargetsAreNodes
<1>4. Distinct(new)
  BY ReadyEdges, ListProperties
<1> HIDE DEF found
<1>5. Distinct(found)
  <2>1. ASSUME NEW i \in DOMAIN new, NEW j \in DOMAIN new, found[i] = found[j] PROVE i = j
    <3>1. /\ new[i] \in Edges /\ new[j] \in Edges
          /\ new[i][1] = new[j][1] /\ new[i][2] = new[j][2]
      BY <1>3, <2>1, ReadyEdges
    <3>2. new[i] = new[j]
      BY <3>1 DEF SimpleGraph
    <3> QED BY <1>4, <3>2 DEF Distinct
  <2> QED BY <1>3, <2>1 DEF Distinct
<1>6. ToSet(found) \subseteq ReadyNodes(n, open)
  BY <1>3 DEF ToSet, ReadyNodes
<1> QED BY <1>1, <1>2, <1>3, <1>5, <1>6, ConcatDistinct, ConcatElements DEF Types, TypeOK, Tracked, found

(* What the head of the queue says of its node when it is not an event.       *)
LEMMA Arrival ==
  ASSUME Types, Tracked, queue # <<>>, Head(queue).type # "event"
  PROVE  /\ Head(queue).node \in Nodes
         /\ 1 \in Ends(queue, Head(queue).node)
         /\ phase[Head(queue).node] \notin Active
<1>1. Head(queue) \in Entries /\ Head(queue) = queue[1] /\ 1 \in DOMAIN queue
  BY TailEnds DEF Types, TypeOK
<1>2. Head(queue).node \in Nodes /\ 1 \in Ends(queue, Head(queue).node)
  BY <1>1, EntryTypes DEF Ends
<1> QED BY <1>2 DEF Tracked

LEMMA HandlingResultKeepsTracked ==
  ASSUME SimpleGraph, Types, Tracked, HandleResult
  PROVE  Tracked'
<1> DEFINE n == Head(queue).node
<1>1. n \in Nodes /\ phase[n] \notin Active
  BY Arrival DEF HandleResult, Handling
<1> HIDE DEF n
<1>2. streams' = streams \ {n} /\ pc = "drain"
  BY DEF HandleResult, Handling, n
<1>3. ASSUME Distinct(targets'), queue' = Tail(queue), UNCHANGED <<pc, phase>>,
             ToSet(targets') \cap streams' = {}
      PROVE  Tracked'
  <2>1. \A m \in Nodes : Ends(queue, m) = {} => Ends(queue', m) = {}
    BY <1>3, TailEnds DEF HandleResult, Handling, Types, TypeOK
  <2>2. Cardinality(streams') <= MaxConcurrency
    BY <1>2, SmallerStreams
  <2> QED BY <1>1, <1>2, <1>3, <2>1, <2>2 DEF Tracked
<1>4. CASE interrupted'
  BY <1>2, <1>3, <1>4 DEF HandleResult, Tracked
<1>5. CASE ~interrupted'
  <2>1. PICK open \in SUBSET Conditional :
          \/ /\ \E new \in SetToSeqs(FindReady(n, open)) : targets' = targets \o TargetsOf(new)
             /\ queue' = Tail(queue)
             /\ UNCHANGED <<pc, outcome, phase>>
          \/ Unwind /\ UNCHANGED targets
    BY <1>5 DEF HandleResult, n
  <2>2. CASE Unwind /\ UNCHANGED targets
    BY <1>1, <1>2, <2>2, StoppingKeepsTracked DEF Tracked
  <2>3. CASE /\ \E new \in SetToSeqs(FindReady(n, open)) : targets' = targets \o TargetsOf(new)
             /\ queue' = Tail(queue)
             /\ UNCHANGED <<pc, outcome, phase>>
    <3>1. PICK new \in SetToSeqs(FindReady(n, open)) : targets' = targets \o TargetsOf(new)
      BY <2>3
    <3>2. /\ Distinct(targets')
          /\ ToSet(targets') \subseteq ToSet(targets) \cup ReadyNodes(n, open)
          /\ ReadyNodes(n, open) \cap (streams \ {n}) = {}
      BY <1>1, <3>1, NewTargets
    <3>3. ToSet(targets') \cap streams' = {}
      BY <1>2, <3>2 DEF Tracked
    <3> QED BY <1>3, <2>3, <3>2, <3>3
  <2> QED BY <2>1, <2>2, <2>3
<1> QED BY <1>4, <1>5

(* What a step of a node does: it may append an event, and when the node has  *)
(* ended, its result or its error.                                            *)
LEMMA NodeStep ==
  ASSUME Types, Tracked, NEW n \in Nodes, Emit(n) \/ EndHandler(n) \/ Deliver(n)
  PROVE  /\ UNCHANGED <<pc, targets, streams, outcome, handling, results, runs, startedOver>>
         /\ phase[n] \in Active /\ n \in streams /\ Ends(queue, n) = {} /\ pc # "idle"
         /\ \A m \in Nodes : m # n =>
              phase'[m] = phase[m] /\ status'[m] = status[m] /\ Ends(queue', m) = Ends(queue, m)
         /\ \A i \in DOMAIN queue : i \in DOMAIN queue' /\ queue'[i] = queue[i]
         /\ phase'[n] \in Active => Ends(queue', n) = {}
         /\ \A i \in Ends(queue', n) :
              /\ \A j \in DOMAIN queue : j < i
              /\ queue'[i].type = "result" =>
                   /\ queue'[i].status = status[n] /\ phase[n] = "answering"
                   /\ status' = status
<1> DEFINE result == Result(n, status[n])
           withEvent == Append(queue, Event(n))
           withResult == Append(queue, result)
<1>1. UNCHANGED <<pc, targets, streams, outcome, handling, results, runs, startedOver>>
  BY DEF Emit, EndHandler, Deliver, loop, state, history
<1>2. phase[n] \in Active /\ n \in streams /\ Ends(queue, n) = {} /\ pc # "idle"
  BY DEF Emit, EndHandler, Deliver, Active, Tracked
<1>3. \A m \in Nodes : m # n => phase'[m] = phase[m] /\ status'[m] = status[m]
  BY DEF Emit, EndHandler, Deliver, Types, TypeOK, state
<1>4. /\ queue \in Seq(Entries)
      /\ Event(n) \in Entries /\ Event(n).type = "event"
      /\ Failure(n) \in Entries /\ Failure(n).node = n /\ Failure(n).type = "error"
      /\ Nodes # {}
  BY EntryProperties DEF Types, TypeOK, ResultStatus
<1>5. /\ withEvent \in Seq(Entries)
      /\ \A m \in Nodes : Ends(withEvent, m) = Ends(queue, m)
      /\ \A i \in DOMAIN queue : i \in DOMAIN withEvent /\ withEvent[i] = queue[i]
  BY <1>4, OthersKeepEnds, AppendEnds
<1>6. CASE Emit(n) \/ EndHandler(n)
  <2>1. queue' \in {queue, withEvent}
    BY <1>6 DEF Emit, EndHandler
  <2> HIDE DEF withEvent
  <2>2. /\ \A m \in Nodes : Ends(queue', m) = Ends(queue, m)
        /\ \A i \in DOMAIN queue : i \in DOMAIN queue' /\ queue'[i] = queue[i]
    BY <1>5, <2>1
  <2> QED BY <1>1, <1>2, <1>3, <2>2
<1>7. CASE Deliver(n) /\ phase[n] = "answering" /\ queue' = queue \o <<result, Event(n)>>
           /\ phase' = [phase EXCEPT ![n] = "closing"]
  <2>1. /\ result \in Entries /\ result.node = n /\ result.type = "result"
        /\ result.status = status[n]
    BY <1>7, EntryProperties DEF Types
  <2> HIDE DEF result
  <2>2. queue' = Append(withResult, Event(n))
    BY <1>4, <1>7, <2>1, PairAppended
  <2>3. /\ withResult \in Seq(Entries) /\ Len(queue) \in Nat
        /\ DOMAIN queue = 1 .. Len(queue) /\ DOMAIN withResult = 1 .. Len(queue) + 1
        /\ \A i \in DOMAIN queue : withResult[i] = queue[i]
        /\ withResult[Len(queue) + 1] = result
        /\ Ends(withResult, n) = Ends(queue, n) \cup
             (IF result.type # "event" /\ result.node = n THEN {Len(queue) + 1} ELSE {})
    BY <1>4, <2>1, AppendEnds
  <2>4. \A m \in Nodes : m # n => Ends(withResult, m) = Ends(queue, m)
    BY <1>4, <2>1, OthersKeepEnds
  <2> HIDE DEF withResult
  <2>5. /\ \A m \in Nodes : Ends(queue', m) = Ends(withResult, m)
        /\ \A i \in DOMAIN withResult : i \in DOMAIN queue' /\ queue'[i] = withResult[i]
    BY <1>4, <2>2, <2>3, OthersKeepEnds, AppendEnds
  <2>6. Ends(queue', n) = {Len(queue) + 1}
    BY <1>2, <2>1, <2>3, <2>5
  <2>7. \A i \in DOMAIN queue : i \in DOMAIN queue' /\ queue'[i] = queue[i]
    BY <2>3, <2>5
  <2>8. queue'[Len(queue) + 1] = result
    BY <2>3, <2>5
  <2>9. phase'[n] \notin Active
    BY <1>7 DEF Types, TypeOK, Active
  <2>10. status' = status
    BY <1>7 DEF Deliver, state
  <2>11. \A j \in DOMAIN queue : j < Len(queue) + 1
    BY <2>3
  <2>12. \A m \in Nodes : m # n => Ends(queue', m) = Ends(queue, m)
    BY <2>4, <2>5
  <2> QED BY <1>1, <1>2, <1>3, <1>7, <2>1, <2>6, <2>7, <2>8, <2>9, <2>10, <2>11, <2>12
<1>8. CASE queue' = withEvent
  <2> HIDE DEF withEvent
  <2>2. /\ \A m \in Nodes : Ends(queue', m) = Ends(queue, m)
        /\ \A i \in DOMAIN queue : i \in DOMAIN queue' /\ queue'[i] = queue[i]
    BY <1>5, <1>8
  <2> QED BY <1>1, <1>2, <1>3, <2>2
<1>9. CASE queue' = Append(queue, Failure(n)) /\ phase' = [phase EXCEPT ![n] = "none"]
  <2> DEFINE failed == Append(queue, Failure(n))
  <2>1. /\ Len(queue) \in Nat
        /\ DOMAIN queue = 1 .. Len(queue) /\ DOMAIN failed = 1 .. Len(queue) + 1
        /\ \A i \in DOMAIN queue : failed[i] = queue[i]
        /\ failed[Len(queue) + 1] = Failure(n)
        /\ Ends(failed, n) = Ends(queue, n) \cup
             (IF Failure(n).type # "event" /\ Failure(n).node = n THEN {Len(queue) + 1} ELSE {})
    BY <1>4, AppendEnds
  <2>2. \A m \in Nodes : m # n => Ends(failed, m) = Ends(queue, m)
    BY <1>4, OthersKeepEnds
  <2>3. queue' = failed
    BY <1>9
  <2> HIDE DEF failed
  <2>4. Ends(queue', n) = {Len(queue) + 1} /\ queue'[Len(queue) + 1].type # "result"
    BY <1>2, <1>4, <2>1, <2>3
  <2>5. \A i \in DOMAIN queue : i \in DOMAIN queue' /\ queue'[i] = queue[i]
    BY <2>1, <2>3
  <2>6. phase'[n] \notin Active
    BY <1>9 DEF Types, TypeOK, Active
  <2>7. \A j \in DOMAIN queue : j < Len(queue) + 1
    BY <2>1
  <2> QED BY <1>1, <1>2, <1>3, <2>2, <2>3, <2>4, <2>5, <2>6, <2>7
<1> QED BY <1>6, <1>7, <1>8, <1>9 DEF Deliver

LEMMA NodeKeepsTracked ==
  ASSUME Types, Tracked, NEW n \in Nodes, Emit(n) \/ EndHandler(n) \/ Deliver(n)
  PROVE  Tracked'
<1>1. ToSet(targets) \subseteq Nodes
  BY LenProperties DEF Types, TypeOK, ToSet
<1> QED BY <1>1, NodeStep DEF Tracked

LEMMA TrackedKept ==
  ASSUME SimpleGraph, Types, Tracked, [Next]_vars
  PROVE  Tracked'
<1>1. CASE CheckAbort
  <2>1. CASE aborted
    BY <2>1, <1>1, StoppingKeepsTracked DEF CheckAbort, Tracked
  <2>2. CASE ~aborted
    BY <1>1, <2>2 DEF CheckAbort, Tracked
  <2> QED BY <2>1, <2>2
<1>2. CASE StepsExceeded \/ Break
  BY <1>2, StoppingKeepsTracked DEF StepsExceeded, Break, Tracked
<1>3. CASE HandleError
  BY <1>3, Arrival, StoppingKeepsTracked DEF HandleError, Handling, Tracked
<1>4. CASE Finish
  BY <1>4 DEF Finish, Tracked
<1>5. CASE HandleEvent
  <2>1. \A n \in Nodes : Ends(queue, n) = {} => Ends(queue', n) = {}
    BY <1>5, TailEnds DEF HandleEvent, Handling, Types, TypeOK
  <2> QED BY <1>5, <2>1 DEF HandleEvent, Handling, Tracked, loop
<1>6. CASE Acknowledge
  <2>1. \A n \in Nodes : phase'[n] \in Active => phase[n] \in Active
    <3> DEFINE n == handling.node
    <3>1. phase' = [phase EXCEPT ![n] = CASE @ = "updating" -> "running"
                                         [] @ = "reported" -> "answering"
                                         [] @ = "failing"  -> "erring"
                                         [] OTHER -> "none"]
      BY <1>6 DEF Acknowledge
    <3> HIDE DEF n
    <3> QED BY <3>1 DEF Active, Types, TypeOK
  <2> QED BY <1>6, <2>1 DEF Acknowledge, Tracked, loop
<1>7. CASE Wait \/ Settled
  BY <1>7 DEF Wait, Settled, Tracked, Active
<1>8. CASE Drained
  BY <1>8, EndsOfEmpty DEF Drained, Tracked
<1>9. CASE Abort \/ UNCHANGED vars
  BY <1>9 DEF Abort, vars, loop, Tracked
<1>10. Schedule => Tracked'
  BY ScheduleKeepsTracked
<1>11. HandleResult => Tracked'
  BY HandlingResultKeepsTracked
<1>12. (\E n \in Nodes : Emit(n) \/ EndHandler(n) \/ Deliver(n)) => Tracked'
  BY NodeKeepsTracked
<1> QED BY <1>1, <1>2, <1>3, <1>4, <1>5, <1>6, <1>7, <1>8, <1>9, <1>10, <1>11, <1>12,
           InvocationKeepsTracked DEF Next, MainLoop

LEMMA InvariantOfTracking == ASSUME SimpleGraph PROVE Spec => [](Types /\ Tracked)
<1>1. Init => Types /\ Tracked
  BY TypesInitially, TrackedInitially
<1>2. Types /\ Tracked /\ [Next]_vars => (Types /\ Tracked)'
  BY TypesKept, TrackedKept
<1> QED BY <1>1, <1>2, PTL DEF Spec

(* The state has its types, in every run of every finite graph, parallel      *)
(* edges and repeated sources included.                                       *)
THEOREM TypeCorrect == Spec => []TypeOK
<1>1. Init => Types
  BY TypesInitially
<1>2. Types /\ [Next]_vars => Types'
  BY TypesKept
<1>3. Types => TypeOK
  BY DEF Types
<1> QED BY <1>1, <1>2, <1>3, PTL DEF Spec

(* NoOrphanedExecution: what runs is in streams, so that an invocation that   *)
(* has ended left nothing running and maxConcurrency bounds the executions.   *)
(* With parallel edges or a repeated source it is not so: a node is scheduled *)
(* twice, and the entry of its second execution replaces that of the first.   *)
THEOREM ExecutionsAreTracked == ASSUME SimpleGraph PROVE Spec => []NoOrphanedExecution
<1>1. ASSUME Types, Tracked PROVE NoOrphanedExecution
  <2>1. \A n \in Nodes : phase[n] \in {"running", "updating", "reported", "answering"} =>
                          n \in streams /\ pc # "idle"
    BY <1>1 DEF Tracked, Active
  <2>2. {n \in Nodes : phase[n] \in {"running", "updating"}} \in SUBSET streams
    BY <2>1
  <2>3. pc # "overwritten"
    BY <1>1 DEF Tracked
  <2> QED BY <1>1, <2>1, <2>2, <2>3, SmallerStreams DEF NoOrphanedExecution
<1> QED BY <1>1, InvariantOfTracking, PTL

-----------------------------------------------------------------------------
(* Results are complete.  A node that was tried is in the results with its    *)
(* status, or still in streams, or its result is in the queue.                *)

Reported ==
  /\ \A n \in Nodes : \A i \in Ends(queue, n) :
       queue[i].type = "result" => queue[i].status = status[n]
  /\ outcome # "thrown" => \A n \in Nodes :
       \/ status[n] = "PENDING" \/ BagIn(<<n, status[n]>>, results)
       \/ n \in streams
       \/ pc # "idle" /\ Ends(queue, n) # {}
  /\ pc = "top" => \A n \in Nodes : Ends(queue, n) # {} => n \in streams
  /\ pc = "idle" /\ outcome # "thrown" => streams = {}

LEMMA ReportedInitially == Init => Reported
BY EndsOfEmpty DEF Init, Reported

LEMMA InvocationKeepsReported ==
  ASSUME Reported, Invoke \/ InvokeAgain \/ Resume \/ ResumeRejected
  PROVE  Reported'
<1>1. CASE Invoke \/ InvokeAgain \/ Resume
  <2>1. streams' = {} /\ queue' = <<>> /\ pc' = "top"
    BY <1>1, FirstTargets DEF Begin
  <2>2. \A n : Ends(<<>>, n) = {}
    BY EndsOfEmpty
  <2>3. \/ outcome = "INTERRUPTED" /\ pc = "idle" /\ UNCHANGED state
        \/ status' = [n \in Nodes |-> "PENDING"]
    BY <1>1 DEF Invoke, InvokeAgain, Resume
  <2>4. \A n \in Nodes : status'[n] = "PENDING" \/ BagIn(<<n, status'[n]>>, results')
    BY <2>3 DEF Reported, state
  <2> QED BY <2>1, <2>2, <2>4 DEF Reported
<1>2. CASE ResumeRejected
  BY <1>2 DEF ResumeRejected, Reported, state, history
<1> QED BY <1>1, <1>2

LEMMA StoppingKeepsReported ==
  ASSUME Types, Unwind
  PROVE  Reported'
BY UnwindProperties, EndsOfEmpty DEF Types, Reported

LEMMA ScheduleKeepsReported ==
  ASSUME Types, Tracked, Reported, Schedule
  PROVE  Reported'
<1> DEFINE n == Head(targets)
<1>1. pc = "schedule" /\ UNCHANGED <<pc, outcome>>
  BY NextTarget DEF Schedule
<1>2. n \in Nodes /\ Ends(queue, n) = {}
  BY NextTarget
<1> HIDE DEF n
<1>3. \A m \in Nodes : \A s : m # n /\ BagIn(<<m, s>>, results)
                                => BagIn(<<m, s>>, DropStale(n))
  BY <1>2, DropResult DEF Types, TypeOK
<1>4. CASE Start(n)
  <2>1. /\ streams' = streams \cup {n} /\ queue' = queue
        /\ results' = DropStale(n)
        /\ \A m \in Nodes : m # n => status'[m] = status[m]
    BY <1>2, <1>4 DEF Start, Types, TypeOK
  <2> QED BY <1>1, <1>2, <1>3, <2>1 DEF Reported
<1>5. ASSUME NEW decision \in {"interrupt", "cancel"}, Gate(n, decision)
      PROVE  Reported'
  <2> DEFINE gated == IF decision = "interrupt" THEN "INTERRUPTED" ELSE "CANCELLED"
             result == Result(n, gated)
  <2>1. /\ result \in Entries /\ result.node = n
        /\ result.type = "result" /\ result.status = gated
    BY <1>2, EntryProperties DEF ResultStatus
  <2>2. /\ queue' = Append(queue, result) /\ streams' = streams
        /\ results' \in {results, DropStale(n)}
        /\ status' = [status EXCEPT ![n] = gated]
    BY <1>5 DEF Gate
  <2> HIDE DEF result, gated
  <2>3. /\ \A i \in DOMAIN queue : queue'[i] = queue[i]
        /\ queue'[Len(queue) + 1] = result
        /\ Ends(queue', n) = {Len(queue) + 1}
    BY <1>2, <2>1, <2>2, AppendEnds DEF Types, TypeOK
  <2>4. \A m \in Nodes : m # n => Ends(queue', m) = Ends(queue, m)
    BY <2>1, <2>2, OthersKeepEnds DEF Types, TypeOK
  <2>5. status'[n] = gated /\ \A m \in Nodes : m # n => status'[m] = status[m]
    BY <1>2, <2>2 DEF Types, TypeOK
  <2>6. \A m \in Nodes : Ends(queue, m) \subseteq DOMAIN queue
    BY DEF Ends
  <2>7. \A m \in Nodes : \A i \in Ends(queue', m) :
          queue'[i].type = "result" => queue'[i].status = status'[m]
    BY <2>1, <2>3, <2>4, <2>5, <2>6 DEF Reported
  <2>8. \A m \in Nodes : m # n /\ BagIn(<<m, status[m]>>, results)
                           => BagIn(<<m, status'[m]>>, results')
    BY <1>3, <2>2, <2>5
  <2> QED BY <1>1, <1>2, <2>2, <2>3, <2>4, <2>5, <2>7, <2>8 DEF Reported
<1> QED BY <1>4, <1>5 DEF Schedule, n

LEMMA HandlingResultKeepsReported ==
  ASSUME Types, Tracked, Reported, HandleResult
  PROVE  Reported'
<1> DEFINE n == Head(queue).node
           result == Head(queue).status
<1>1. /\ n \in Nodes /\ 1 \in Ends(queue, n)
      /\ Head(queue) = queue[1] /\ queue[1].type = "result"
  BY Arrival, TailEnds DEF HandleResult, Handling, Types, TypeOK
<1>2. result = status[n]
  BY <1>1 DEF Reported
<1>3. \A m \in Nodes : 1 \in Ends(queue, m) => m = n
  BY <1>1 DEF Ends
<1> HIDE DEF n, result
<1>4. /\ pc = "drain" /\ status' = status /\ streams' = streams \ {n}
      /\ results' = WithResult(n, result)
  BY DEF HandleResult, Handling, n, result
<1>5. BagToSet(results') = BagToSet(results) \cup {<<n, result>>}
  BY <1>4, RecordResult DEF WithResult, Types, TypeOK
<1>6. Unwind \/ (queue' = Tail(queue) /\ UNCHANGED <<pc, outcome>>)
  BY DEF HandleResult
<1>7. CASE queue' = Tail(queue) /\ UNCHANGED <<pc, outcome>>
  <2>1. /\ \A m \in Nodes : \A i \in Ends(queue', m) : i + 1 \in Ends(queue, m)
        /\ \A m \in Nodes : \A i \in Ends(queue, m) : i = 1 \/ i - 1 \in Ends(queue', m)
        /\ \A i \in DOMAIN queue' : queue'[i] = queue[i + 1]
    BY <1>7, TailEnds DEF HandleResult, Handling, Types, TypeOK
  <2>2. \A m \in Nodes : Ends(queue', m) \subseteq DOMAIN queue'
    BY DEF Ends
  <2>3. \A m \in Nodes : m # n /\ Ends(queue, m) # {} => Ends(queue', m) # {}
    BY <1>3, <2>1
  <2>4. \A m \in Nodes : \A i \in Ends(queue', m) :
          queue'[i].type = "result" => queue'[i].status = status'[m]
    BY <1>4, <2>1, <2>2 DEF Reported
  <2> QED BY <1>1, <1>2, <1>4, <1>5, <1>7, <2>3, <2>4 DEF Reported, BagIn
<1> QED BY <1>6, <1>7, StoppingKeepsReported

LEMMA NodeKeepsReported ==
  ASSUME Types, Tracked, Reported, NEW n \in Nodes, Emit(n) \/ EndHandler(n) \/ Deliver(n)
  PROVE  Reported'
<1>1. \A m \in Nodes : Ends(queue, m) \subseteq DOMAIN queue
  BY DEF Ends
<1>2. \A m \in Nodes : \A i \in Ends(queue', m) :
        queue'[i].type = "result" => queue'[i].status = status'[m]
  BY <1>1, NodeStep DEF Reported
<1> QED BY <1>2, NodeStep DEF Reported

LEMMA ReportedKept ==
  ASSUME Types, Tracked, Reported, [Next]_vars
  PROVE  Reported'
<1>1. CASE CheckAbort
  <2>1. CASE ~aborted
    BY <1>1, <2>1 DEF CheckAbort, Reported, state
  <2> QED BY <1>1, <2>1, StoppingKeepsReported DEF CheckAbort
<1>2. CASE StepsExceeded \/ Break \/ HandleError
  BY <1>2, StoppingKeepsReported DEF StepsExceeded, Break, HandleError
<1>3. CASE Finish
  <2>1. /\ pc = "top" /\ pc' = "idle" /\ streams = {} /\ outcome # "thrown"
        /\ UNCHANGED <<streams, queue, status, results>>
    BY <1>3 DEF Finish, Types, state
  <2>2. \A n \in Nodes : Ends(queue, n) = {}
    BY <2>1 DEF Reported
  <2>3. \A n \in Nodes : status[n] = "PENDING" \/ BagIn(<<n, status[n]>>, results)
    BY <2>1, <2>2 DEF Reported
  <2> QED BY <2>1, <2>2, <2>3 DEF Reported
<1>4. CASE HandleEvent
  <2>1. /\ \A m \in Nodes : \A i \in Ends(queue', m) : i + 1 \in Ends(queue, m)
        /\ \A m \in Nodes : \A i \in Ends(queue, m) : i = 1 \/ i - 1 \in Ends(queue', m)
        /\ \A i \in DOMAIN queue' : queue'[i] = queue[i + 1]
        /\ Head(queue) = queue[1]
    BY <1>4, TailEnds DEF HandleEvent, Handling, Types, TypeOK
  <2>2. \A m \in Nodes : 1 \notin Ends(queue, m)
    BY <1>4, <2>1 DEF HandleEvent, Handling, Ends
  <2>3. \A m \in Nodes : Ends(queue', m) \subseteq DOMAIN queue'
    BY DEF Ends
  <2>4. \A m \in Nodes : Ends(queue, m) # {} => Ends(queue', m) # {}
    BY <2>1, <2>2
  <2>5. \A m \in Nodes : \A i \in Ends(queue', m) :
          queue'[i].type = "result" => queue'[i].status = status[m]
    BY <2>1, <2>3 DEF Reported
  <2> QED BY <1>4, <2>4, <2>5 DEF HandleEvent, Handling, Reported, loop, state
<1>5. CASE Acknowledge \/ Wait \/ Abort \/ UNCHANGED vars
  BY <1>5 DEF Acknowledge, Wait, Abort, vars, loop, Reported, state
<1>6. CASE Drained
  BY <1>6, EndsOfEmpty DEF Drained, Reported, state
<1>7. CASE Settled
  BY <1>7 DEF Settled, Reported, state, Types
<1>8. Schedule => Reported'
  BY ScheduleKeepsReported
<1>9. HandleResult => Reported'
  BY HandlingResultKeepsReported
<1>10. (\E n \in Nodes : Emit(n) \/ EndHandler(n) \/ Deliver(n)) => Reported'
  BY NodeKeepsReported
<1> QED BY <1>1, <1>2, <1>3, <1>4, <1>5, <1>6, <1>7, <1>8, <1>9, <1>10,
           InvocationKeepsReported DEF Next, MainLoop

(* ResultsComplete: when a run ends, every node that was tried is in its      *)
(* results, with the status it has.                                           *)
THEOREM ResultsAreComplete == ASSUME SimpleGraph PROVE Spec => []ResultsComplete
<1>1. Init => Reported
  BY ReportedInitially
<1>2. Types /\ Tracked /\ Reported /\ [Next]_vars => Reported'
  BY ReportedKept
<1>3. Reported => ResultsComplete
  <2>1. "thrown" \notin ResultStatus
    BY DEF ResultStatus
  <2> QED BY <2>1 DEF Reported, ResultsComplete
<1> QED BY <1>1, <1>2, <1>3, InvariantOfTracking, PTL DEF Spec

-----------------------------------------------------------------------------
(* A node that executes has that status and has been counted, and the event   *)
(* of one that ended is in the queue or being handled.                        *)

Handled ==
  /\ \A n \in Nodes : phase[n] \in {"running", "updating"} => status[n] = "EXECUTING"
  /\ \A n \in Nodes : phase[n] \in Active => runs[n] > 0
  /\ \A n \in Nodes : runs[n] > 0 => status[n] # "PENDING"
  /\ \A n \in Nodes : phase[n] = "reported" =>
       handling = Event(n) \/ \E i \in DOMAIN queue : queue[i] = Event(n)

LEMMA InvocationKeepsHandled ==
  ASSUME Handled, Invoke \/ InvokeAgain \/ Resume \/ ResumeRejected
  PROVE  Handled'
<1>1. CASE ResumeRejected
  BY <1>1 DEF ResumeRejected, Handled, state, history
<1>2. ASSUME NEW S, Begin(S) PROVE Handled'
  BY <1>2 DEF Begin, Handled, Active
<1> QED BY <1>1, <1>2 DEF Invoke, InvokeAgain, Resume

LEMMA StoppingKeepsHandled ==
  ASSUME Types, Handled, Unwind, UNCHANGED <<handling, status, runs>>
  PROVE  Handled'
<1>1. \A n \in Nodes : handling # Nothing /\ handling.node = n => handling = Event(n)
  BY DEF Types, TypeOK, Events, Event
<1>2. \A n \in Nodes :
        \/ phase'[n] = "none"
        \/ phase'[n] = "running" /\ phase[n] \in {"running", "updating"}
        \/ phase'[n] = phase[n] /\ handling = Event(n)
  BY <1>1, UnwindProperties DEF Types
<1> QED BY <1>2 DEF Handled, Active

LEMMA ScheduleKeepsHandled ==
  ASSUME Types, Tracked, Handled, Schedule
  PROVE  Handled'
<1> DEFINE n == Head(targets)
<1>1. n \in Nodes /\ n \notin streams
  BY NextTarget
<1>2. phase[n] \notin Active /\ handling' = handling
  BY <1>1 DEF Schedule, Tracked
<1> HIDE DEF n
<1>3. CASE Start(n)
  <2>1. /\ queue' = queue /\ phase'[n] = "running" /\ status'[n] = "EXECUTING"
        /\ runs'[n] = runs[n] + 1 /\ runs[n] \in Nat
        /\ \A m \in Nodes : m # n => /\ phase'[m] = phase[m] /\ status'[m] = status[m]
                                     /\ runs'[m] = runs[m]
    BY <1>1, <1>3, LimitsAssumption DEF Start, Types, TypeOK
  <2> QED BY <1>2, <2>1 DEF Handled
<1>4. ASSUME NEW decision \in {"interrupt", "cancel"}, Gate(n, decision)
      PROVE  Handled'
  <2> DEFINE gated == IF decision = "interrupt" THEN "INTERRUPTED" ELSE "CANCELLED"
             result == Result(n, gated)
  <2>1. result \in Entries
    BY <1>1, EndsAreEntries
  <2>2. queue' = Append(queue, result) /\ UNCHANGED <<phase, runs>>
    BY <1>4 DEF Gate
  <2> HIDE DEF result
  <2>3. \A i \in DOMAIN queue : i \in DOMAIN queue' /\ queue'[i] = queue[i]
    BY <2>1, <2>2, AppendEnds DEF Types, TypeOK
  <2>4. /\ status'[n] # "PENDING"
        /\ \A m \in Nodes : m # n => status'[m] = status[m]
    BY <1>1, <1>4 DEF Gate, Types, TypeOK
  <2> QED BY <1>2, <2>2, <2>3, <2>4 DEF Handled, Active
<1> QED BY <1>3, <1>4 DEF Schedule, n

(* What the end of a handler does.                                            *)
LEMMA HandlerEnds ==
  ASSUME Types, NEW n \in Nodes, EndHandler(n)
  PROVE  /\ phase[n] = "running" /\ status'[n] \in ResultStatus
         /\ phase'[n] \in {"none", "reported"}
         /\ pc # "settling" => phase'[n] = "reported"
         /\ phase'[n] = "reported" => queue' = Append(queue, Event(n))
<1>1. PICK end \in ResultStatus : status' = [status EXCEPT ![n] = end]
  BY BehaviourAssumption DEF EndHandler, ResultStatus
<1>2. status'[n] \in ResultStatus
  BY <1>1 DEF Types, TypeOK
<1> QED BY <1>2 DEF EndHandler, Types, TypeOK

LEMMA NodeKeepsHandled ==
  ASSUME Types, Tracked, Handled, NEW n \in Nodes, Emit(n) \/ EndHandler(n) \/ Deliver(n)
  PROVE  Handled'
<1>1. /\ UNCHANGED <<handling, runs>>
      /\ phase[n] \in Active
      /\ \A m \in Nodes : m # n => phase'[m] = phase[m] /\ status'[m] = status[m]
      /\ \A i \in DOMAIN queue : i \in DOMAIN queue' /\ queue'[i] = queue[i]
  BY NodeStep
<1>2. runs[n] > 0 /\ status[n] # "PENDING"
  BY <1>1 DEF Handled
<1>3. CASE Emit(n) \/ Deliver(n)
  <2>1. status' = status /\ phase'[n] # "reported"
    BY <1>3 DEF Emit, Deliver, state, Types, TypeOK
  <2>2. phase'[n] \in {"running", "updating"} => phase[n] = "running"
    BY <1>3 DEF Emit, Deliver, Types, TypeOK
  <2> QED BY <1>1, <1>2, <2>1, <2>2 DEF Handled
<1>4. CASE EndHandler(n)
  <2>1. /\ status'[n] \in ResultStatus /\ phase'[n] \in {"none", "reported"}
        /\ phase'[n] = "reported" => queue' = Append(queue, Event(n))
    BY <1>4, HandlerEnds
  <2>2. /\ Len(queue) + 1 \in DOMAIN Append(queue, Event(n))
        /\ Append(queue, Event(n))[Len(queue) + 1] = Event(n)
    BY EntryProperties, AppendEnds DEF Types, TypeOK, ResultStatus
  <2>3. phase'[n] = "reported" => \E i \in DOMAIN queue' : queue'[i] = Event(n)
    BY <2>1, <2>2
  <2>4. status'[n] # "PENDING"
    BY <2>1 DEF ResultStatus
  <2> QED BY <1>1, <1>2, <2>1, <2>3, <2>4 DEF Handled
<1> QED BY <1>3, <1>4

(* What is left of the queue when its first entry is taken.                   *)
LEMMA Shifted ==
  ASSUME Types, queue # <<>>, queue' = Tail(queue)
  PROVE  /\ Head(queue) = queue[1] /\ DOMAIN queue \subseteq Nat
         /\ DOMAIN queue' \subseteq Nat
         /\ \A n \in Nodes : \A i \in Ends(queue', n) :
              i + 1 \in Ends(queue, n) /\ queue'[i] = queue[i + 1]
         /\ \A i \in DOMAIN queue : i # 1 => i - 1 \in DOMAIN queue' /\ queue'[i - 1] = queue[i]
<1>1. queue \in Seq(Entries) /\ Tail(queue) \in Seq(Entries)
  BY TailEnds DEF Types, TypeOK
<1>2. DOMAIN Tail(queue) \subseteq Nat
  BY <1>1, LenProperties
<1>3. \A n \in Nodes : Ends(Tail(queue), n) \subseteq DOMAIN Tail(queue)
  BY DEF Ends
<1> QED BY <1>1, <1>2, <1>3, TailEnds

(* What an acknowledgement does.                                              *)
LEMMA Acknowledged ==
  ASSUME Types, Acknowledge
  PROVE  \E n \in Nodes :
           /\ handling = Event(n) /\ handling' = Nothing
           /\ UNCHANGED <<loop, queue, aborted, state, history>>
           /\ \A m \in Nodes : m # n => phase'[m] = phase[m] /\ handling # Event(m)
           /\ \/ phase'[n] = "running" /\ phase[n] = "updating"
              \/ phase'[n] = "answering" /\ phase[n] = "reported"
              \/ phase'[n] = "erring" /\ phase[n] = "failing"
              \/ phase'[n] = "none"
<1> DEFINE n == handling.node
<1>1. n \in Nodes /\ handling = Event(n)
  BY DEF Acknowledge, Types, TypeOK, Events, Event
<1>2. \A m \in Nodes : m # n => handling # Event(m)
  BY DEF Event
<1>3. /\ UNCHANGED <<loop, queue, aborted, state, history>> /\ handling' = Nothing
      /\ phase' = [phase EXCEPT ![n] = CASE @ = "updating" -> "running"
                                         [] @ = "reported" -> "answering"
                                         [] @ = "failing"  -> "erring"
                                         [] OTHER -> "none"]
  BY DEF Acknowledge
<1> HIDE DEF n
<1>4. /\ \A m \in Nodes : m # n => phase'[m] = phase[m]
      /\ \/ phase'[n] = "running" /\ phase[n] = "updating"
         \/ phase'[n] = "answering" /\ phase[n] = "reported"
         \/ phase'[n] = "erring" /\ phase[n] = "failing"
         \/ phase'[n] = "none"
  BY <1>1, <1>3 DEF Types, TypeOK
<1> QED BY <1>1, <1>2, <1>3, <1>4

LEMMA HandledKept ==
  ASSUME Types, Tracked, Handled, [Next]_vars
  PROVE  Handled'
<1>1. CASE CheckAbort
  <2>1. CASE ~aborted
    BY <1>1, <2>1 DEF CheckAbort, Handled, state, history
  <2> QED BY <1>1, <2>1, StoppingKeepsHandled DEF CheckAbort, state, history
<1>2. CASE StepsExceeded \/ Break \/ HandleError
  BY <1>2, StoppingKeepsHandled DEF StepsExceeded, Break, HandleError, state, history
<1>3. CASE Finish \/ Wait \/ Drained \/ Settled
  BY <1>3 DEF Finish, Wait, Drained, Settled, Handled, state, history
<1>4. CASE Abort \/ UNCHANGED vars
  BY <1>4 DEF Abort, vars, Handled, state, history
<1>5. CASE HandleEvent
  <2>1. /\ queue' = Tail(queue) /\ queue # <<>> /\ handling' = Head(queue)
        /\ handling = Nothing /\ UNCHANGED <<status, phase, runs>>
    BY <1>5 DEF HandleEvent, Handling, state, history
  <2>2. \A n \in Nodes : handling # Event(n)
    BY <2>1 DEF Nothing, Event
  <2>3. ASSUME NEW n \in Nodes, phase[n] = "reported"
        PROVE  handling' = Event(n) \/ \E i \in DOMAIN queue' : queue'[i] = Event(n)
    <3>1. PICK i \in DOMAIN queue : queue[i] = Event(n)
      BY <2>2, <2>3 DEF Handled
    <3> QED BY <2>1, <3>1, Shifted
  <2> QED BY <2>1, <2>3 DEF Handled
<1>6. CASE Acknowledge
  <2>1. \A m \in Nodes : phase'[m] \in Active => phase[m] \in Active
    BY <1>6, Acknowledged DEF Active
  <2>2. \A m \in Nodes : phase'[m] \in {"running", "updating"} =>
                          phase[m] \in {"running", "updating"}
    BY <1>6, Acknowledged
  <2>3. \A m \in Nodes : phase'[m] = "reported" =>
                          phase[m] = "reported" /\ handling # Event(m)
    BY <1>6, Acknowledged
  <2> QED BY <1>6, <2>1, <2>2, <2>3 DEF Acknowledge, Handled, state, history
<1>7. CASE HandleResult
  <2>1. CASE Unwind
    BY <1>7, <2>1, StoppingKeepsHandled DEF HandleResult, history
  <2>2. CASE queue' = Tail(queue) /\ UNCHANGED phase
    <3>1. /\ queue # <<>> /\ Head(queue).type = "result"
          /\ UNCHANGED <<handling, status, runs>>
      BY <1>7 DEF HandleResult, Handling, history
    <3>2. \A n \in Nodes : Head(queue) # Event(n)
      BY <3>1 DEF Event
    <3>3. ASSUME NEW n \in Nodes, NEW i \in DOMAIN queue, queue[i] = Event(n)
          PROVE  \E j \in DOMAIN queue' : queue'[j] = Event(n)
      BY <2>2, <3>1, <3>2, <3>3, Shifted
    <3> QED BY <2>2, <3>1, <3>3 DEF Handled
  <2> QED BY <1>7, <2>1, <2>2 DEF HandleResult
<1>8. Schedule => Handled'
  BY ScheduleKeepsHandled
<1>9. (\E n \in Nodes : Emit(n) \/ EndHandler(n) \/ Deliver(n)) => Handled'
  BY NodeKeepsHandled
<1> QED BY <1>1, <1>2, <1>3, <1>4, <1>5, <1>6, <1>7, <1>8, <1>9,
           InvocationKeepsHandled DEF Next, MainLoop

LEMMA InvariantOfResults ==
  ASSUME SimpleGraph PROVE Spec => [](Types /\ Tracked /\ Reported /\ Handled)
<1>1. Init => Reported /\ Handled
  <2>1. Init => Handled
    BY DEF Init, Handled, Active
  <2> QED BY <2>1, ReportedInitially
<1>2. Types /\ Tracked /\ Reported /\ Handled /\ [Next]_vars => (Reported /\ Handled)'
  BY ReportedKept, HandledKept
<1> QED BY <1>1, <1>2, InvariantOfTracking, PTL DEF Spec

-----------------------------------------------------------------------------
(* A run that has completed leaves no node out.  While it is not interrupted, *)
(* a node whose dependencies have completed, one of them in this invocation,  *)
(* was tried, waits, or has a dependency whose result was not handled yet:    *)
(* the last one handled is the one that makes it ready.  And a run that was   *)
(* interrupted keeps an interrupted result, so that it does not complete.     *)

Awaited(n) == \E e \in Incoming(n) : e[1] \in streams

Found ==
  \A n \in Nodes :
    Satisfied(n, {}) /\ (\E e \in Incoming(n) : runs[e[1]] > 0) =>
      status[n] # "PENDING" \/ n \in ToSet(targets) \/ Awaited(n)

Discovered ==
  /\ \A n \in streams : runs[n] > 0
  /\ interrupted => \E n \in Nodes : BagIn(<<n, "INTERRUPTED">>, results)
  /\ ~interrupted /\ outcome # "thrown" => Found
  /\ pc = "idle" /\ outcome = "COMPLETED" =>
       ~interrupted /\ streams = {} /\ targets = <<>>

(* An enumeration of a set leaves none of its elements out.                   *)
LEMMA ListsAreComplete ==
  ASSUME NEW S, IsFiniteSet(S), NEW s \in SetToSeqs(S)
  PROVE  ToSet(s) = S
<1> DEFINE D == 1 .. Cardinality(S)
<1>1. IsFiniteSet(S) /\ Cardinality(S) \in Nat
  BY FS_CardinalityType
<1>2. s \in [D -> S] /\ \A i, j \in D : i # j => s[i] # s[j]
  BY DEF SetToSeqs
<1>3. IsFiniteSet(D) /\ Cardinality(D) = Cardinality(S)
  BY <1>1, FS_Interval
<1>4. ASSUME NEW x \in S, x \notin ToSet(s) PROVE FALSE
  <2>1. s \in [D -> S \ {x}]
    BY <1>2, <1>4 DEF ToSet
  <2>2. /\ IsFiniteSet(S \ {x})
        /\ Cardinality(S \ {x}) = Cardinality(S) - 1
    BY <1>1, FS_RemoveElement
  <2>3. \E i, j \in D : i # j /\ s[i] = s[j]
    <3>1. Cardinality(S \ {x}) < Cardinality(D)
      BY <1>1, <1>3, <2>2
    <3> HIDE DEF D
    <3> QED BY <1>3, <2>1, <2>2, <3>1, FS_PigeonHole
  <2> QED BY <1>2, <2>3
<1>5. ToSet(s) \subseteq S
  BY ListProperties
<1> QED BY <1>4, <1>5

(* What the next targets are after a result of a run that goes on.            *)
LEMMA ReadyBecomeTargets ==
  ASSUME SimpleGraph, Types, Tracked, NEW n \in Nodes, NEW open,
         NEW new \in SetToSeqs(FindReady(n, open))
  PROVE  ReadyNodes(n, open) \subseteq ToSet(targets \o TargetsOf(new))
         /\ ToSet(targets) \subseteq ToSet(targets \o TargetsOf(new))
<1> DEFINE found == TargetsOf(new)
<1>1. /\ found \in Seq(Nodes) /\ DOMAIN found = DOMAIN new
      /\ \A i \in DOMAIN new : found[i] = new[i][2]
  BY TargetsAreNodes
<1>2. ToSet(new) = FindReady(n, open)
  BY ReadyEdges, ListsAreComplete
<1> HIDE DEF found
<1>3. ReadyNodes(n, open) \subseteq ToSet(found)
  BY <1>1, <1>2 DEF ToSet, ReadyNodes
<1>4. targets \in Seq(Nodes)
  BY DEF Types, TypeOK
<1>5. ToSet(targets \o found) = ToSet(targets) \cup ToSet(found)
  BY <1>1, <1>4, ConcatElements
<1> QED BY <1>3, <1>5 DEF found

LEMMA DiscoveredInitially == Init => Discovered
<1> SUFFICES ASSUME Init PROVE Discovered
  OBVIOUS
<1>1. \A n \in Nodes : \A e \in Incoming(n) : ~(runs[e[1]] > 0)
  BY TopologyAssumption DEF Init, Incoming
<1> QED BY <1>1 DEF Init, Discovered, Found

LEMMA InvocationKeepsDiscovered ==
  ASSUME Discovered, Invoke \/ InvokeAgain \/ Resume \/ ResumeRejected
  PROVE  Discovered'
<1>1. CASE ResumeRejected
  BY <1>1 DEF ResumeRejected, Discovered, state, history
<1>2. ASSUME NEW S, Begin(S) PROVE Discovered'
  <2>1. /\ streams' = {} /\ ~interrupted' /\ pc' = "top"
        /\ runs' = [n \in Nodes |-> 0]
    BY <1>2 DEF Begin
  <2>2. \A n \in Nodes : \A e \in Incoming(n) : ~(runs'[e[1]] > 0)
    BY <2>1, TopologyAssumption DEF Incoming
  <2>3. Found'
    BY <2>2 DEF Found, Incoming
  <2> QED BY <2>1, <2>3 DEF Discovered
<1> QED BY <1>1, <1>2 DEF Invoke, InvokeAgain, Resume

LEMMA StoppingKeepsDiscovered ==
  ASSUME Discovered, Unwind, streams' \subseteq streams, UNCHANGED runs,
         interrupted' => \E n \in Nodes : BagIn(<<n, "INTERRUPTED">>, results')
  PROVE  Discovered'
BY DEF Discovered, Unwind

(* A step that changes nothing Found speaks of.                               *)
LEMMA FoundUnchanged ==
  ASSUME Found, UNCHANGED <<status, runs, targets, streams>>
  PROVE  Found'
BY DEF Found, Satisfied, Awaited, Incoming

LEMMA ScheduleKeepsDiscovered ==
  ASSUME Types, Tracked, Discovered, Schedule
  PROVE  Discovered'
<1> DEFINE n == Head(targets)
<1>1. /\ pc = "schedule" /\ UNCHANGED <<pc, interrupted, outcome>>
      /\ ~interrupted /\ outcome = "none"
  BY NextTarget DEF Schedule, MaySchedule, Types
<1>2. n \in Nodes /\ ToSet(targets') = ToSet(targets) \ {n}
  BY NextTarget
<1> HIDE DEF n
<1>3. Found
  BY <1>1 DEF Discovered
<1>4. CASE Start(n)
  <2>1. /\ streams' = streams \cup {n}
        /\ status'[n] = "EXECUTING" /\ runs'[n] > 0
        /\ \A m \in Nodes : m # n => status'[m] = status[m] /\ runs'[m] = runs[m]
    BY <1>2, <1>4, LimitsAssumption DEF Start, Types, TypeOK
  <2>2. ASSUME NEW m \in Nodes, Satisfied(m, {})', NEW f \in Incoming(m), runs'[f[1]] > 0
        PROVE  status'[m] # "PENDING" \/ m \in ToSet(targets)' \/ Awaited(m)'
    <3>1. f[1] \in Nodes
      BY TopologyAssumption DEF Incoming
    <3>2. CASE m = n
      BY <2>1, <3>2
    <3>3. CASE m # n /\ \E e \in Incoming(m) : e[1] = n
      BY <2>1, <3>3 DEF Awaited, Incoming
    <3>4. CASE m # n /\ \A e \in Incoming(m) : e[1] # n
      <4>1. Satisfied(m, {}) /\ runs[f[1]] > 0
        BY <2>1, <2>2, <3>1, <3>4, TopologyAssumption DEF Satisfied, Incoming
      <4>2. status[m] # "PENDING" \/ m \in ToSet(targets) \/ Awaited(m)
        BY <1>3, <2>2, <4>1 DEF Found
      <4> QED BY <1>2, <2>1, <3>4, <4>2 DEF Awaited, Incoming
    <3> QED BY <3>2, <3>3, <3>4
  <2>3. Found'
    BY <2>2 DEF Found, Incoming
  <2>4. \A m \in streams' : runs'[m] > 0
    BY <2>1 DEF Discovered, Types, TypeOK
  <2> QED BY <1>1, <2>3, <2>4 DEF Discovered
<1>5. ASSUME NEW decision \in {"interrupt", "cancel"}, Gate(n, decision)
      PROVE  Discovered'
  <2>1. /\ status'[n] \notin {"PENDING", "COMPLETED"}
        /\ \A m \in Nodes : m # n => status'[m] = status[m]
        /\ UNCHANGED <<streams, runs>>
    BY <1>2, <1>5 DEF Gate, Types, TypeOK
  <2>2. ASSUME NEW m \in Nodes, Satisfied(m, {})', NEW f \in Incoming(m), runs'[f[1]] > 0
        PROVE  status'[m] # "PENDING" \/ m \in ToSet(targets)' \/ Awaited(m)'
    <3>1. CASE m = n
      BY <2>1, <3>1
    <3>2. CASE m # n
      <4>1. \A e \in Incoming(m) : e[1] \in Nodes /\ e[1] # n
        BY <2>1, <2>2, TopologyAssumption DEF Satisfied, Incoming
      <4>2. Satisfied(m, {}) /\ runs[f[1]] > 0
        BY <2>1, <2>2, <4>1 DEF Satisfied, Incoming
      <4>3. status[m] # "PENDING" \/ m \in ToSet(targets) \/ Awaited(m)
        BY <1>3, <2>2, <4>2 DEF Found
      <4> QED BY <1>2, <2>1, <3>2, <4>3 DEF Awaited, Incoming
    <3> QED BY <3>1, <3>2
  <2>3. Found'
    BY <2>2 DEF Found, Incoming
  <2> QED BY <1>1, <2>1, <2>3 DEF Discovered
<1> QED BY <1>4, <1>5 DEF Schedule, n

LEMMA HandlingResultKeepsDiscovered ==
  ASSUME SimpleGraph, Types, Tracked, Reported, Handled, Discovered, HandleResult
  PROVE  Discovered'
<1> DEFINE n == Head(queue).node
           result == Head(queue).status
<1>1. /\ n \in Nodes /\ 1 \in Ends(queue, n)
      /\ Head(queue) = queue[1] /\ queue[1].type = "result"
  BY Arrival, TailEnds DEF HandleResult, Handling, Types, TypeOK
<1>2. result = status[n]
  BY <1>1 DEF Reported
<1> HIDE DEF n, result
<1>3. /\ pc = "drain" /\ outcome = "none" /\ streams' = streams \ {n}
      /\ UNCHANGED <<status, runs>>
      /\ results' = WithResult(n, result)
      /\ interrupted' = (interrupted \/ result = "INTERRUPTED")
  BY DEF HandleResult, Handling, n, result, history, Types
<1>4. BagToSet(results') = BagToSet(results) \cup {<<n, result>>}
  BY <1>3, RecordResult DEF WithResult, Types, TypeOK
<1>5. interrupted' => \E m \in Nodes : BagIn(<<m, "INTERRUPTED">>, results')
  <2>1. CASE interrupted
    BY <1>4, <2>1 DEF Discovered, BagIn
  <2>2. CASE result = "INTERRUPTED"
    BY <1>1, <1>4, <2>2 DEF BagIn
  <2> QED BY <1>3, <2>1, <2>2
<1>6. CASE Unwind
  BY <1>3, <1>5, <1>6, StoppingKeepsDiscovered
<1>7. CASE interrupted' /\ ~Unwind
  BY <1>3, <1>5, <1>7 DEF HandleResult, Discovered
<1>8. CASE ~interrupted' /\ ~Unwind
  <2>1. PICK open \in SUBSET Conditional :
          \E new \in SetToSeqs(FindReady(n, open)) : targets' = targets \o TargetsOf(new)
    BY <1>8 DEF HandleResult, n
  <2>2. ReadyNodes(n, open) \subseteq ToSet(targets') /\ ToSet(targets) \subseteq ToSet(targets')
    BY <1>1, <2>1, ReadyBecomeTargets
  <2>3. UNCHANGED <<pc, outcome>>
    BY <1>8 DEF HandleResult
  <2>4. Found
    BY <1>3, <1>8 DEF Discovered
  <2>5. ASSUME NEW m \in Nodes, Satisfied(m, {})', NEW f \in Incoming(m), runs'[f[1]] > 0
        PROVE  status'[m] # "PENDING" \/ m \in ToSet(targets)' \/ Awaited(m)'
    <3>1. Satisfied(m, {}) /\ runs[f[1]] > 0
      BY <1>3, <2>5 DEF Satisfied, Incoming
    <3>2. CASE \E e \in Incoming(m) : e[1] = n
      <4>0. PICK e \in Edges : e[1] = n /\ e[2] = m /\ e \in Incoming(m)
        BY <3>2 DEF Incoming
      <4>1. status[n] = "COMPLETED" /\ Satisfied(m, open)
        BY <3>1, <4>0 DEF Satisfied, Incoming
      <4>2. m \in ReadyNodes(n, open) \/ m \in streams \/ m \in ToSet(targets)
        BY <4>0, <4>1 DEF ReadyNodes, FindReady
      <4>3. m \in streams => status[m] # "PENDING"
        BY DEF Discovered, Handled
      <4> QED BY <1>3, <2>2, <4>2, <4>3
    <3>3. CASE \A e \in Incoming(m) : e[1] # n
      <4>2. status[m] # "PENDING" \/ m \in ToSet(targets) \/ Awaited(m)
        BY <2>4, <2>5, <3>1 DEF Found
      <4> QED BY <1>3, <2>2, <3>3, <4>2 DEF Awaited, Incoming
    <3> QED BY <3>2, <3>3
  <2>6. Found'
    BY <2>5 DEF Found, Incoming
  <2> QED BY <1>3, <1>5, <2>3, <2>6 DEF Discovered
<1> QED BY <1>6, <1>7, <1>8

LEMMA NodeKeepsDiscovered ==
  ASSUME Types, Tracked, Handled, Discovered, NEW n \in Nodes,
         Emit(n) \/ EndHandler(n) \/ Deliver(n)
  PROVE  Discovered'
<1>1. /\ UNCHANGED <<pc, outcome, targets, streams, interrupted, results, runs>>
      /\ n \in streams /\ pc # "idle"
      /\ \A m \in Nodes : m # n => status'[m] = status[m]
  BY NodeStep DEF Emit, EndHandler, Deliver, loop, state
<1>2. status'[n] # "PENDING"
  <2>1. CASE EndHandler(n)
    BY <2>1, HandlerEnds DEF ResultStatus
  <2>2. CASE Emit(n) \/ Deliver(n)
    BY <1>1, <2>2 DEF Emit, Deliver, state, Discovered, Handled
  <2> QED BY <2>1, <2>2
<1>3. ASSUME Found, NEW m \in Nodes, Satisfied(m, {})',
             NEW f \in Incoming(m), runs'[f[1]] > 0
      PROVE  status'[m] # "PENDING" \/ m \in ToSet(targets)' \/ Awaited(m)'
  <2>1. CASE m = n
    BY <1>2, <2>1
  <2>2. CASE \E e \in Incoming(m) : e[1] = n
    BY <1>1, <2>2 DEF Awaited, Incoming
  <2>3. CASE m # n /\ \A e \in Incoming(m) : e[1] # n
    <3>1. Satisfied(m, {}) /\ runs[f[1]] > 0
      BY <1>1, <1>3, <2>3, TopologyAssumption DEF Satisfied, Incoming
    <3> QED BY <1>1, <1>3, <2>3, <3>1 DEF Found, Awaited, Incoming
  <2> QED BY <2>1, <2>2, <2>3
<1>4. Found => Found'
  BY <1>3 DEF Found, Incoming
<1> QED BY <1>1, <1>4 DEF Discovered

LEMMA DiscoveredKept ==
  ASSUME SimpleGraph, Types, Tracked, Reported, Handled, Discovered, [Next]_vars
  PROVE  Discovered'
<1>1. CASE CheckAbort
  <2>1. CASE ~aborted
    BY <1>1, <2>1, FoundUnchanged DEF CheckAbort, Discovered, state, history
  <2> QED BY <1>1, <2>1, StoppingKeepsDiscovered DEF CheckAbort, Discovered, state, history
<1>2. CASE StepsExceeded \/ Break
  <2>1. Unwind /\ UNCHANGED <<streams, interrupted, results, runs>>
    BY <1>2 DEF StepsExceeded, Break, state, history
  <2> QED BY <2>1, StoppingKeepsDiscovered DEF Discovered
<1>3. CASE HandleError
  BY <1>3, StoppingKeepsDiscovered DEF HandleError, Discovered, state, history
<1>4. CASE Finish
  <2>1. /\ streams = {} /\ targets = <<>> /\ outcome # "thrown"
        /\ outcome' = ResolveStatus /\ pc' = "idle"
        /\ UNCHANGED <<targets, streams, interrupted, status, results, runs>>
    BY <1>4 DEF Finish, Types, state, history
  <2>2. ~interrupted => Found'
    BY <2>1, FoundUnchanged DEF Discovered
  <2>3. outcome' = "COMPLETED" => ~interrupted
    BY <2>1 DEF ResolveStatus, Discovered
  <2> QED BY <2>1, <2>2, <2>3 DEF Discovered
<1>5. CASE HandleEvent \/ Acknowledge \/ Wait \/ Drained
  <2>1. /\ pc' # "idle"
        /\ UNCHANGED <<targets, streams, interrupted, outcome, status, results, runs>>
    BY <1>5 DEF HandleEvent, Handling, Acknowledge, Wait, Drained, loop, state, history
  <2>2. Found => Found'
    BY <2>1, FoundUnchanged
  <2> QED BY <2>1, <2>2 DEF Discovered
<1>6. CASE Settled
  BY <1>6, FoundUnchanged DEF Settled, Discovered, Types, state, history
<1>7. CASE Abort \/ UNCHANGED vars
  <2>1. UNCHANGED <<pc, targets, streams, interrupted, outcome, status, results, runs>>
    BY <1>7 DEF Abort, vars, loop, state, history
  <2>2. Found => Found'
    BY <2>1, FoundUnchanged
  <2> QED BY <2>1, <2>2 DEF Discovered
<1>8. Schedule => Discovered'
  BY ScheduleKeepsDiscovered
<1>9. HandleResult => Discovered'
  BY HandlingResultKeepsDiscovered
<1>10. (\E n \in Nodes : Emit(n) \/ EndHandler(n) \/ Deliver(n)) => Discovered'
  BY NodeKeepsDiscovered
<1> QED BY <1>1, <1>2, <1>3, <1>4, <1>5, <1>6, <1>7, <1>8, <1>9, <1>10,
           InvocationKeepsDiscovered DEF Next, MainLoop

(* FreshDownstreamRuns: in a run that has completed, no node was left out     *)
(* that depends on one the invocation executed, whatever the simple graph,    *)
(* the order in which results arrive, and the interrupts of earlier           *)
(* invocations.                                                               *)
THEOREM NoneIsLeftOut == ASSUME SimpleGraph PROVE Spec => []FreshDownstreamRuns
<1>1. Types /\ Tracked /\ Reported /\ Handled /\ Discovered /\ [Next]_vars => Discovered'
  BY DiscoveredKept
<1>2. Discovered => FreshDownstreamRuns
  <2>1. ASSUME Discovered, pc = "idle", outcome = "COMPLETED", NEW n \in Nodes,
               Satisfied(n, {}), \E e \in Incoming(n) : runs[e[1]] > 0
        PROVE  status[n] # "PENDING"
    <3>1. Found /\ streams = {} /\ targets = <<>>
      BY <2>1 DEF Discovered
    <3>2. n \notin ToSet(targets) /\ ~Awaited(n)
      BY <3>1, EmptyDistinct DEF Awaited
    <3> QED BY <2>1, <3>1, <3>2 DEF Found
  <2> QED BY <2>1 DEF FreshDownstreamRuns
<1> QED BY <1>1, <1>2, DiscoveredInitially, InvariantOfResults, PTL DEF Spec

-----------------------------------------------------------------------------
(* Somebody goes on.  While an invocation has not failed, the nodes that wait *)
(* for an acknowledgement are those with an event in the queue or being       *)
(* handled, and it is one event each; every other node in streams runs, is    *)
(* about to deliver, or has delivered an end that is still in the queue.      *)

Asking == {"updating", "reported", "failing", "closing"}

Sent(q, n) == {i \in DOMAIN q : q[i] = Event(n)}

Answerable ==
  \A n \in Nodes :
    /\ phase[n] \in Asking <=> handling = Event(n) \/ Sent(queue, n) # {}
    /\ \A i, j \in Sent(queue, n) : i = j
    /\ handling = Event(n) => Sent(queue, n) = {}
    /\ n \in streams /\ phase[n] \in {"none", "closing"} => Ends(queue, n) # {}
    /\ pc \in {"top", "schedule"} /\ phase[n] \in Asking => n \in streams

Going ==
  /\ outcome # "thrown" => Answerable
  /\ pc \in {"top", "schedule"} => handling = Nothing
  /\ pc = "schedule" => streams # {} \/ targets # <<>> \/ queue # <<>>
  /\ pc = "settling" => \A n \in streams :
       phase[n] \in {"none", "running"} \/ handling = Event(n)

(* When the main loop waits for the queue, a node will fill it, unless the    *)
(* run was interrupted with targets left; when it waits for the streams, they *)
(* end by themselves, unless one waits for the event that was being handled.  *)
SomeoneGoesOn ==
  /\ pc = "schedule" /\ ~MaySchedule /\ queue = <<>> =>
       \/ interrupted /\ targets # <<>>
       \/ \E n \in streams : phase[n] \in {"running", "answering", "erring"}
  /\ pc = "settling" /\ handling = Nothing =>
       \A n \in streams : phase[n] \in {"none", "running"}

LEMMA EventsDiffer ==
  ASSUME NEW m, NEW n, Event(m) = Event(n)
  PROVE  m = n
BY DEF Event

LEMMA SentOfEmpty == \A n : Sent(<<>>, n) = {}
BY DEF Sent

LEMMA AppendSent ==
  ASSUME NEW q \in Seq(Entries), NEW x \in Entries
  PROVE  /\ Append(q, x) \in Seq(Entries)
         /\ \A n \in Nodes : x # Event(n) => Sent(Append(q, x), n) = Sent(q, n)
         /\ \A n \in Nodes : x = Event(n) /\ Sent(q, n) = {} =>
              /\ Sent(Append(q, x), n) # {}
              /\ \A i, j \in Sent(Append(q, x), n) : i = j
         /\ \A n \in Nodes : Ends(q, n) \subseteq Ends(Append(q, x), n)
<1> DEFINE r == Append(q, x)
<1>1. /\ r \in Seq(Entries) /\ Len(q) \in Nat /\ DOMAIN q = 1 .. Len(q)
      /\ DOMAIN r = 1 .. Len(q) + 1
      /\ \A i \in DOMAIN q : r[i] = q[i]
      /\ r[Len(q) + 1] = x
  BY AppendEnds
<1> HIDE DEF r
<1>2. \A n : Sent(r, n) = Sent(q, n) \cup (IF x = Event(n) THEN {Len(q) + 1} ELSE {})
  BY <1>1 DEF Sent
<1>3. \A n \in Nodes : Ends(q, n) \subseteq Ends(r, n)
  BY <1>1 DEF Ends
<1> QED BY <1>1, <1>2, <1>3 DEF r

LEMMA TailSent ==
  ASSUME NEW q \in Seq(Entries), q # <<>>
  PROVE  /\ \A n \in Nodes : \A i, j \in Sent(Tail(q), n) :
              i + 1 \in Sent(q, n) /\ j + 1 \in Sent(q, n) /\ (i + 1 = j + 1 => i = j) /\ i + 1 # 1
         /\ \A n \in Nodes : Head(q) # Event(n) /\ Sent(q, n) # {} => Sent(Tail(q), n) # {}
         /\ \A n \in Nodes : Head(q) = Event(n) => 1 \in Sent(q, n)
         /\ \A n \in Nodes : (Head(q).type = "event" \/ Head(q).node # n) /\ Ends(q, n) # {}
                               => Ends(Tail(q), n) # {}
<1> DEFINE r == Tail(q)
<1>1. /\ Head(q) = q[1] /\ 1 \in DOMAIN q
      /\ \A i \in DOMAIN r : i + 1 \in DOMAIN q /\ r[i] = q[i + 1]
      /\ \A i \in DOMAIN q : i # 1 => i - 1 \in DOMAIN r /\ r[i - 1] = q[i]
      /\ \A n \in Nodes : \A i \in Ends(q, n) : i = 1 \/ i - 1 \in Ends(r, n)
      /\ r \in Seq(Entries)
  BY TailEnds
<1>2. DOMAIN r \subseteq Nat \ {0}
  BY <1>1, LenProperties
<1> HIDE DEF r
<1>3. \A n \in Nodes : \A i, j \in Sent(r, n) :
        i + 1 \in Sent(q, n) /\ j + 1 \in Sent(q, n) /\ (i + 1 = j + 1 => i = j) /\ i + 1 # 1
  BY <1>1, <1>2 DEF Sent
<1>4. ASSUME NEW n \in Nodes, Head(q) # Event(n), Sent(q, n) # {} PROVE Sent(r, n) # {}
  <2>1. PICK i \in Sent(q, n) : TRUE
    BY <1>4
  <2>2. i \in DOMAIN q /\ q[i] = Event(n)
    BY <2>1 DEF Sent
  <2>3. i # 1
    BY <1>1, <1>4, <2>2
  <2>4. i - 1 \in DOMAIN r /\ r[i - 1] = Event(n)
    BY <1>1, <2>2, <2>3
  <2>5. i - 1 \in Sent(r, n)
    BY <2>4 DEF Sent
  <2> QED BY <2>5
<1>5. ASSUME NEW n \in Nodes, Head(q).type = "event" \/ Head(q).node # n, Ends(q, n) # {}
      PROVE  Ends(r, n) # {}
  <2>1. PICK i \in Ends(q, n) : TRUE
    BY <1>5
  <2>2. q[i].node = n /\ q[i].type # "event"
    BY <2>1 DEF Ends
  <2>3. i # 1
    BY <1>1, <1>5, <2>2
  <2>4. i - 1 \in Ends(r, n)
    BY <1>1, <2>1, <2>3
  <2> QED BY <2>4
<1>6. \A n \in Nodes : Head(q) = Event(n) => 1 \in Sent(q, n)
  BY <1>1 DEF Sent
<1> QED BY <1>3, <1>4, <1>5, <1>6 DEF r

LEMMA GoingInitially == Init => Going
BY EndsOfEmpty, SentOfEmpty DEF Init, Going, Answerable, Asking, Nothing, Event

LEMMA InvocationKeepsGoing ==
  ASSUME Types, Going, Invoke \/ InvokeAgain \/ Resume \/ ResumeRejected
  PROVE  Going'
<1>1. CASE ResumeRejected
  BY <1>1 DEF ResumeRejected, Going, Types
<1>2. ASSUME NEW S, Begin(S) PROVE Going'
  <2>1. /\ phase' = [n \in Nodes |-> "none"] /\ streams' = {} /\ queue' = <<>>
        /\ handling' = Nothing /\ pc' = "top"
    BY <1>2 DEF Begin
  <2>2. \A n : Nothing # Event(n)
    BY DEF Nothing, Event
  <2>3. Answerable'
    BY <2>1, <2>2, SentOfEmpty DEF Answerable, Asking
  <2> QED BY <2>1, <2>3 DEF Going
<1> QED BY <1>1, <1>2 DEF Invoke, InvokeAgain, Resume

LEMMA StoppingKeepsGoing ==
  ASSUME Types, Unwind, UNCHANGED handling, streams' \subseteq Nodes
  PROVE  Going'
<1>1. \A n \in Nodes : handling # Nothing /\ handling.node = n => handling = Event(n)
  BY DEF Types, TypeOK, Events, Event
<1> QED BY <1>1, UnwindProperties DEF Types, Going

(* A step that changes none of what Answerable speaks of.                     *)
LEMMA AnswerableUnchanged ==
  ASSUME Answerable, UNCHANGED <<queue, handling, phase, streams>>,
         pc' \in {"top", "schedule"} => pc \in {"top", "schedule"}
  PROVE  Answerable'
BY DEF Answerable

LEMMA ScheduleKeepsGoing ==
  ASSUME Types, Tracked, Going, Schedule
  PROVE  Going'
<1> DEFINE n == Head(targets)
<1>1. /\ pc = "schedule" /\ pc' = "schedule" /\ outcome = "none" /\ outcome' = outcome
      /\ handling' = handling /\ handling = Nothing
  BY NextTarget DEF Schedule, Types, Going
<1>2. n \in Nodes /\ n \notin streams
  BY NextTarget
<1> HIDE DEF n
<1>3. Answerable
  BY <1>1 DEF Going
<1>4. phase[n] \notin Asking
  BY <1>1, <1>2, <1>3 DEF Answerable
<1>5. CASE Start(n)
  <2>1. /\ queue' = queue /\ streams' = streams \cup {n} /\ phase'[n] = "running"
        /\ \A m \in Nodes : m # n => phase'[m] = phase[m]
    BY <1>2, <1>5 DEF Start, Types, TypeOK
  <2>2. Answerable'
    BY <1>1, <1>3, <1>4, <2>1 DEF Answerable, Asking
  <2> QED BY <1>1, <2>1, <2>2 DEF Going
<1>6. ASSUME NEW decision \in {"interrupt", "cancel"}, Gate(n, decision)
      PROVE  Going'
  <2> DEFINE gated == IF decision = "interrupt" THEN "INTERRUPTED" ELSE "CANCELLED"
             result == Result(n, gated)
  <2>1. result \in Entries /\ \A m : result # Event(m)
    BY <1>2, EndsAreEntries DEF Result, Event
  <2>2. queue' = Append(queue, result) /\ UNCHANGED <<streams, phase>>
    BY <1>6 DEF Gate
  <2> HIDE DEF result
  <2>3. \A m \in Nodes : Sent(queue', m) = Sent(queue, m) /\ Ends(queue, m) \subseteq Ends(queue', m)
    BY <2>1, <2>2, AppendSent DEF Types, TypeOK
  <2>4. Answerable'
    <3>1. \A m \in Nodes : Ends(queue, m) # {} => Ends(queue', m) # {}
      BY <2>3
    <3> QED BY <1>1, <1>3, <2>2, <2>3, <3>1 DEF Answerable
  <2>5. queue' # <<>>
    BY <2>1, <2>2, AppendProperties, EmptySeq DEF Types, TypeOK
  <2> QED BY <1>1, <2>4, <2>5 DEF Going
<1> QED BY <1>5, <1>6 DEF Schedule, n

LEMMA HandlingEventKeepsGoing ==
  ASSUME Types, Going, HandleEvent
  PROVE  Going'
<1>1. /\ pc = "drain" /\ handling = Nothing /\ queue # <<>> /\ Head(queue).type = "event"
      /\ handling' = Head(queue) /\ queue' = Tail(queue) /\ outcome = "none"
      /\ UNCHANGED <<pc, outcome, streams, phase>>
  BY DEF HandleEvent, Handling, loop, Types
<1>2. queue \in Seq(Entries)
  BY DEF Types, TypeOK
<1>3. Answerable
  BY <1>1 DEF Going
<1>4. PICK k \in Nodes : Head(queue) = Event(k)
  BY <1>1, <1>2, TailEnds, EntryTypes
<1>5. ASSUME NEW n \in Nodes
      PROVE  /\ phase'[n] \in Asking <=> handling' = Event(n) \/ Sent(queue', n) # {}
             /\ \A i, j \in Sent(queue', n) : i = j
             /\ handling' = Event(n) => Sent(queue', n) = {}
             /\ n \in streams' /\ phase'[n] \in {"none", "closing"} => Ends(queue', n) # {}
  <2>1. /\ phase[n] \in Asking <=> Sent(queue, n) # {}
        /\ \A i, j \in Sent(queue, n) : i = j
        /\ n \in streams /\ phase[n] \in {"none", "closing"} => Ends(queue, n) # {}
    BY <1>1, <1>3 DEF Answerable, Nothing, Event
  <2>2. /\ \A i, j \in Sent(queue', n) :
             i + 1 \in Sent(queue, n) /\ j + 1 \in Sent(queue, n) /\ (i + 1 = j + 1 => i = j) /\ i + 1 # 1
        /\ Ends(queue, n) # {} => Ends(queue', n) # {}
    BY <1>1, <1>2, TailSent
  <2>3. CASE n = k
    <3>1. 1 \in Sent(queue, n)
      BY <1>1, <1>2, <1>4, <2>3, TailSent
    <3>2. Sent(queue', n) = {}
      BY <2>1, <2>2, <3>1
    <3> QED BY <1>1, <1>4, <2>1, <2>2, <2>3, <3>1, <3>2
  <2>4. CASE n # k
    <3>1. Head(queue) # Event(n)
      BY <1>4, <2>4, EventsDiffer
    <3>2. Sent(queue, n) # {} <=> Sent(queue', n) # {}
      BY <1>1, <1>2, <2>2, <3>1, TailSent
    <3> QED BY <1>1, <2>1, <2>2, <3>1, <3>2
  <2> QED BY <2>3, <2>4
<1>6. Answerable'
  BY <1>1, <1>5 DEF Answerable
<1> QED BY <1>1, <1>6 DEF Going

LEMMA HandlingResultKeepsGoing ==
  ASSUME Types, Tracked, Going, HandleResult
  PROVE  Going'
<1> DEFINE k == Head(queue).node
<1>1. /\ pc = "drain" /\ handling = Nothing /\ queue # <<>> /\ Head(queue).type = "result"
      /\ handling' = handling /\ streams' = streams \ {k} /\ outcome = "none"
      /\ Unwind \/ (queue' = Tail(queue) /\ UNCHANGED <<pc, outcome, phase>>)
  BY DEF HandleResult, Handling, Types
<1>2. queue \in Seq(Entries)
  BY DEF Types, TypeOK
<1> HIDE DEF k
<1>3. CASE Unwind
  BY <1>1, <1>3, StoppingKeepsGoing DEF Types, TypeOK
<1>4. CASE queue' = Tail(queue) /\ UNCHANGED <<pc, outcome, phase>>
  <2>1. Answerable /\ \A n : Head(queue) # Event(n)
    BY <1>1 DEF Going, Event
  <2>2. ASSUME NEW n \in Nodes
        PROVE  /\ phase'[n] \in Asking <=> Sent(queue', n) # {}
               /\ \A i, j \in Sent(queue', n) : i = j
               /\ n \in streams' /\ phase'[n] \in {"none", "closing"} => Ends(queue', n) # {}
    <3>1. /\ phase[n] \in Asking <=> Sent(queue, n) # {}
          /\ \A i, j \in Sent(queue, n) : i = j
          /\ n \in streams /\ phase[n] \in {"none", "closing"} => Ends(queue, n) # {}
      BY <1>1, <2>1 DEF Answerable, Nothing, Event
    <3>2. /\ \A i, j \in Sent(queue', n) :
               i + 1 \in Sent(queue, n) /\ j + 1 \in Sent(queue, n) /\ (i + 1 = j + 1 => i = j)
          /\ Sent(queue, n) # {} => Sent(queue', n) # {}
          /\ n # k /\ Ends(queue, n) # {} => Ends(queue', n) # {}
      BY <1>1, <1>2, <1>4, <2>1, TailSent DEF k
    <3> QED BY <1>1, <1>4, <3>1, <3>2
  <2>3. \A n \in Nodes : handling' # Event(n)
    BY <1>1 DEF Nothing, Event
  <2>4. Answerable'
    BY <1>1, <1>4, <2>2, <2>3 DEF Answerable
  <2> QED BY <1>1, <1>4, <2>4 DEF Going
<1> QED BY <1>1, <1>3, <1>4

LEMMA AcknowledgingKeepsGoing ==
  ASSUME Types, Going, Acknowledge
  PROVE  Going'
<1>1. PICK k \in Nodes :
        /\ handling = Event(k) /\ handling' = Nothing
        /\ UNCHANGED <<loop, queue, aborted, state, history>>
        /\ \A m \in Nodes : m # k => phase'[m] = phase[m] /\ handling # Event(m)
        /\ \/ phase'[k] = "running" /\ phase[k] = "updating"
           \/ phase'[k] = "answering" /\ phase[k] = "reported"
           \/ phase'[k] = "erring" /\ phase[k] = "failing"
           \/ phase'[k] = "none"
  BY Acknowledged
<1>2. /\ pc = "drain" /\ outcome = "none"
      /\ UNCHANGED <<pc, outcome, streams, targets, queue>>
  BY <1>1 DEF Acknowledge, Types, loop
<1>3. Answerable
  BY <1>2 DEF Going
<1>4. phase[k] \in Asking /\ Sent(queue, k) = {}
  BY <1>1, <1>3 DEF Answerable
<1>5. phase'[k] = "none" => phase[k] = "closing"
  <2>1. phase' = [phase EXCEPT ![handling.node] =
                    CASE @ = "updating" -> "running"
                      [] @ = "reported" -> "answering"
                      [] @ = "failing"  -> "erring"
                      [] OTHER -> "none"] /\ handling.node = k
    BY <1>1 DEF Acknowledge, Event
  <2> QED BY <1>4, <2>1 DEF Asking, Types, TypeOK
<1>6. \A n \in Nodes : handling' # Event(n)
  BY <1>1 DEF Nothing, Event
<1>7. ASSUME NEW n \in Nodes
      PROVE  /\ phase'[n] \in Asking <=> Sent(queue, n) # {}
             /\ \A i, j \in Sent(queue, n) : i = j
             /\ n \in streams /\ phase'[n] \in {"none", "closing"} => Ends(queue, n) # {}
  <2>1. CASE n = k
    BY <1>1, <1>3, <1>4, <1>5, <2>1 DEF Answerable, Asking
  <2>2. CASE n # k
    BY <1>1, <1>3, <2>2 DEF Answerable
  <2> QED BY <2>1, <2>2
<1>8. Answerable'
  BY <1>2, <1>6, <1>7 DEF Answerable
<1> QED BY <1>2, <1>8 DEF Going

(* A node that sends an event, after its result or alone, waits from then on. *)
LEMMA EventSent ==
  ASSUME Types, Tracked, Answerable, NEW n \in Nodes, n \in streams,
         phase[n] \notin Asking, phase'[n] \in Asking,
         \A m \in Nodes : m # n => phase'[m] = phase[m],
         UNCHANGED <<pc, streams, handling>>,
         NEW q \in Seq(Entries),
         \A m \in Nodes : Sent(q, m) = Sent(queue, m) /\ Ends(queue, m) \subseteq Ends(q, m),
         phase'[n] = "closing" => Ends(q, n) # {},
         queue' = Append(q, Event(n))
  PROVE  Answerable' /\ queue' # <<>>
<1>1. Event(n) \in Entries /\ \A m : Event(n) = Event(m) => n = m
  BY EntryProperties, EventsDiffer DEF ResultStatus
<1>2. /\ \A m \in Nodes : m # n => Sent(queue', m) = Sent(queue, m)
      /\ Sent(queue, n) = {} => /\ Sent(queue', n) # {}
                                /\ \A i, j \in Sent(queue', n) : i = j
      /\ \A m \in Nodes : Ends(q, m) \subseteq Ends(queue', m)
      /\ \A m \in Nodes : Ends(queue, m) # {} => Ends(queue', m) # {}
      /\ queue' # <<>>
  <2>1. /\ \A m \in Nodes : m # n => Sent(queue', m) = Sent(q, m)
        /\ Sent(q, n) = {} => /\ Sent(queue', n) # {}
                              /\ \A i, j \in Sent(queue', n) : i = j
        /\ \A m \in Nodes : Ends(q, m) \subseteq Ends(queue', m)
    BY <1>1, AppendSent
  <2>2. queue' # <<>>
    BY <1>1, AppendProperties, EmptySeq
  <2>3. ASSUME NEW m \in Nodes, Ends(queue, m) # {} PROVE Ends(queue', m) # {}
    BY <2>1, <2>3
  <2> QED BY <2>1, <2>2, <2>3
<1>3. Sent(queue, n) = {} /\ handling # Event(n)
  BY DEF Answerable
<1>4. ASSUME NEW m \in Nodes
      PROVE  /\ phase'[m] \in Asking <=> handling' = Event(m) \/ Sent(queue', m) # {}
             /\ \A i, j \in Sent(queue', m) : i = j
             /\ handling' = Event(m) => Sent(queue', m) = {}
             /\ m \in streams' /\ phase'[m] \in {"none", "closing"} => Ends(queue', m) # {}
             /\ pc' \in {"top", "schedule"} /\ phase'[m] \in Asking => m \in streams'
  <2>1. CASE m = n
    <3>1. phase'[n] # "none" /\ (phase'[n] = "closing" => Ends(queue', n) # {})
      BY <1>2 DEF Asking
    <3> QED BY <1>2, <1>3, <2>1, <3>1
  <2>2. CASE m # n
    BY <1>2, <2>2 DEF Answerable
  <2> QED BY <2>1, <2>2
<1> QED BY <1>2, <1>4 DEF Answerable

LEMMA NodeKeepsGoing ==
  ASSUME Types, Tracked, Going, NEW n \in Nodes, Emit(n) \/ EndHandler(n) \/ Deliver(n)
  PROVE  Going'
<1>1. /\ UNCHANGED <<pc, targets, streams, outcome, handling>>
      /\ phase[n] \in Active /\ n \in streams /\ pc # "idle"
      /\ \A m \in Nodes : m # n => phase'[m] = phase[m]
  BY NodeStep DEF Emit, EndHandler, Deliver, loop
<1>2. /\ queue \in Seq(Entries) /\ phase \in [Nodes -> Phase]
      /\ handling # Nothing => handling = Event(handling.node)
  BY DEF Types, TypeOK, Events, Event
<1>3. CASE pc = "settling"
  <2>1. phase[n] \in {"none", "running"} \/ handling = Event(n)
    BY <1>1, <1>3 DEF Going
  <2>2. phase'[n] = "none" \/ handling' = Event(n)
    <3>1. CASE EndHandler(n)
      BY <1>2, <1>3, <3>1 DEF EndHandler
    <3>2. CASE Deliver(n)
      BY <1>1, <2>1, <3>2 DEF Deliver
    <3> QED BY <1>3, <3>1, <3>2 DEF Emit
  <2>3. pc' = "settling" /\ outcome' = "thrown"
    BY <1>1, <1>3 DEF Types
  <2>4. \A m \in streams : phase[m] \in {"none", "running"} \/ handling = Event(m)
    BY <1>3 DEF Going
  <2>5. \A m \in streams' : phase'[m] \in {"none", "running"} \/ handling' = Event(m)
    <3> SUFFICES ASSUME NEW m \in streams
                 PROVE  phase'[m] \in {"none", "running"} \/ handling' = Event(m)
      BY <1>1
    <3>1. m \in Nodes
      BY DEF Types, TypeOK
    <3> QED BY <1>1, <2>2, <2>4, <3>1
  <2> QED BY <2>3, <2>5 DEF Going
<1>4. CASE pc # "settling"
  <2>1. outcome = "none" /\ Answerable
    BY <1>1, <1>4 DEF Types, TypeOK, Tracked, Going
  <2>2. Answerable' /\ queue' # <<>>
    <3>1. CASE Emit(n) \/ EndHandler(n) \/ (Deliver(n) /\ phase'[n] = "failing")
      <4>1. phase[n] \in {"running", "answering"} /\ phase'[n] \in {"updating", "reported", "failing"}
        BY <1>2, <1>4, <3>1 DEF Emit, EndHandler, Deliver
      <4>2. queue' = Append(queue, Event(n))
        BY <1>2, <1>4, <3>1 DEF Emit, EndHandler, Deliver
      <4> QED BY <1>1, <1>2, <2>1, <4>1, <4>2, EventSent DEF Asking
    <3>2. CASE Deliver(n) /\ phase'[n] = "closing"
      <4> DEFINE result == Result(n, status[n])
                 q == Append(queue, result)
      <4>1. phase[n] = "answering" /\ queue' = queue \o <<result, Event(n)>>
        BY <1>2, <3>2 DEF Deliver
      <4>2. /\ result \in Entries /\ result.type = "result" /\ result.node = n
            /\ Event(n) \in Entries
            /\ \A m : result # Event(m)
        BY <4>1, EntryProperties DEF Types, Result, Event
      <4> HIDE DEF result
      <4>3. queue' = Append(q, Event(n))
        BY <1>2, <4>1, <4>2, PairAppended
      <4>4. /\ q \in Seq(Entries)
            /\ \A m \in Nodes : Sent(q, m) = Sent(queue, m) /\ Ends(queue, m) \subseteq Ends(q, m)
        BY <1>2, <4>2, AppendSent
      <4>5. Ends(q, n) # {}
        <5>1. Ends(q, n) = Ends(queue, n) \cup {Len(queue) + 1}
          BY <1>2, <4>2, AppendEnds
        <5> HIDE DEF q
        <5> QED BY <5>1
      <4> HIDE DEF q
      <4> QED BY <1>1, <2>1, <3>2, <4>1, <4>3, <4>4, <4>5, EventSent DEF Asking
    <3>3. CASE Deliver(n) /\ phase'[n] = "none"
      <4> DEFINE failure == Failure(n)
      <4>1. phase[n] = "erring" /\ queue' = Append(queue, failure)
        BY <1>2, <3>3 DEF Deliver
      <4>2. /\ failure \in Entries /\ failure.type = "error" /\ failure.node = n
            /\ \A m : failure # Event(m)
        BY EntryProperties DEF ResultStatus, Failure, Event
      <4> HIDE DEF failure
      <4>3. /\ \A m \in Nodes : Sent(queue', m) = Sent(queue, m)
            /\ \A m \in Nodes : Ends(queue, m) \subseteq Ends(queue', m)
        BY <1>2, <4>1, <4>2, AppendSent
      <4>4. Ends(queue', n) # {}
        <5>1. Ends(queue', n) = Ends(queue, n) \cup {Len(queue) + 1}
          BY <1>2, <4>1, <4>2, AppendEnds
        <5> QED BY <5>1
      <4>5. \A m \in Nodes : Ends(queue, m) # {} => Ends(queue', m) # {}
        BY <4>3
      <4>6. queue' # <<>>
        BY <4>4, EndsOfEmpty
      <4> QED BY <1>1, <2>1, <3>3, <4>1, <4>3, <4>4, <4>5, <4>6 DEF Answerable, Asking
    <3> QED BY <1>2, <3>1, <3>2, <3>3 DEF Deliver
  <2> QED BY <1>1, <1>4, <2>1, <2>2 DEF Going
<1> QED BY <1>3, <1>4

LEMMA GoingKept ==
  ASSUME Types, Tracked, Going, [Next]_vars
  PROVE  Going'
<1>1. CASE CheckAbort
  <2>1. CASE ~aborted
    <3>1. Answerable => Answerable'
      BY <1>1, <2>1, AnswerableUnchanged DEF CheckAbort
    <3> QED BY <1>1, <2>1, <3>1 DEF CheckAbort, Going
  <2>2. CASE aborted
    BY <1>1, <2>2, StoppingKeepsGoing DEF CheckAbort, Types, TypeOK
  <2> QED BY <2>1, <2>2
<1>2. CASE StepsExceeded \/ Break \/ HandleError
  <2>1. Unwind /\ handling' = handling /\ streams' \subseteq streams
    BY <1>2 DEF StepsExceeded, Break, HandleError
  <2> QED BY <2>1, StoppingKeepsGoing DEF Types, TypeOK
<1>3. CASE Finish \/ Wait
  <2>1. /\ pc \in {"top", "schedule"} /\ pc' \in {"idle", "drain"} /\ outcome # "thrown"
        /\ UNCHANGED <<queue, handling, phase, streams>>
    BY <1>3 DEF Finish, Wait, Types
  <2>2. Answerable'
    BY <2>1, AnswerableUnchanged DEF Going
  <2> QED BY <2>1, <2>2 DEF Going
<1>4. CASE Drained
  <2>1. /\ pc = "drain" /\ pc' = "top" /\ handling = Nothing /\ queue = <<>> /\ outcome = "none"
        /\ UNCHANGED <<outcome, targets, queue, handling, phase, streams>>
    BY <1>4 DEF Drained, Types
  <2>2. Answerable
    BY <2>1 DEF Going
  <2>3. \A n \in Nodes : phase[n] \notin Asking
    BY <2>1, <2>2, SentOfEmpty DEF Answerable, Nothing, Event
  <2>4. Answerable'
    BY <2>1, <2>2, <2>3 DEF Answerable
  <2> QED BY <2>1, <2>4 DEF Going
<1>5. CASE Settled
  BY <1>5 DEF Settled, Going, Types
<1>6. CASE Abort \/ UNCHANGED vars
  <2>1. UNCHANGED <<loop, queue, handling, phase>>
    BY <1>6 DEF Abort, vars
  <2>2. UNCHANGED <<pc, targets, streams, outcome, queue, handling, phase>>
    BY <2>1 DEF loop
  <2>3. Answerable => Answerable'
    BY <2>2, AnswerableUnchanged
  <2> QED BY <2>2, <2>3 DEF Going
<1>7. Schedule => Going'
  BY ScheduleKeepsGoing
<1>8. HandleEvent => Going'
  BY HandlingEventKeepsGoing
<1>9. HandleResult => Going'
  BY HandlingResultKeepsGoing
<1>10. Acknowledge => Going'
  BY AcknowledgingKeepsGoing
<1>11. (\E n \in Nodes : Emit(n) \/ EndHandler(n) \/ Deliver(n)) => Going'
  BY NodeKeepsGoing
<1> QED BY <1>1, <1>2, <1>3, <1>4, <1>5, <1>6, <1>7, <1>8, <1>9, <1>10, <1>11,
           InvocationKeepsGoing DEF Next, MainLoop

(* The main loop never sleeps with nobody to wake it, nor does the finally    *)
(* block wait for a node that waits for it, but for the two cases that the    *)
(* runs Graph_interrupted and Graph_abandoned show: what EndsUnlessStopped    *)
(* needs besides fairness, for every simple graph.                            *)
THEOREM NobodyWaitsForNobody == ASSUME SimpleGraph PROVE Spec => []SomeoneGoesOn
<1>1. Types /\ Tracked /\ Going /\ [Next]_vars => Going'
  BY GoingKept
<1>2. ASSUME Types, Tracked, Going PROVE SomeoneGoesOn
  <2>1. ASSUME pc = "schedule", ~MaySchedule, queue = <<>>
        PROVE  \/ interrupted /\ targets # <<>>
               \/ \E n \in streams : phase[n] \in {"running", "answering", "erring"}
    <3>1. Answerable /\ handling = Nothing /\ (streams # {} \/ targets # <<>>)
      BY <1>2, <2>1 DEF Going, Types
    <3>2. CASE streams = {}
      <4>1. Cardinality(streams) < MaxConcurrency
        BY <3>2, FS_EmptySet, LimitsAssumption
      <4> QED BY <2>1, <3>1, <3>2, <4>1 DEF MaySchedule
    <3>3. CASE streams # {}
      <4>1. PICK n \in streams : n \in Nodes
        BY <1>2, <3>3 DEF Types, TypeOK
      <4>2. Ends(queue, n) = {} /\ Sent(queue, n) = {}
        BY <2>1, EndsOfEmpty, SentOfEmpty
      <4>3. phase[n] \notin Asking /\ phase[n] # "none"
        BY <3>1, <4>1, <4>2 DEF Answerable, Nothing, Event
      <4>4. phase[n] \in Phase
        BY <1>2, <4>1 DEF Types, TypeOK
      <4> QED BY <4>1, <4>3, <4>4 DEF Phase, Asking
    <3> QED BY <3>2, <3>3
  <2>2. ASSUME pc = "settling", handling = Nothing, NEW n \in streams
        PROVE  phase[n] \in {"none", "running"}
    BY <1>2, <2>2 DEF Going, Nothing, Event
  <2> QED BY <2>1, <2>2 DEF SomeoneGoesOn
<1> QED BY <1>1, <1>2, GoingInitially, InvariantOfTracking, PTL DEF Spec

-----------------------------------------------------------------------------
(* Nodes run in the order of the edges, once.  While an invocation neither    *)
(* failed nor started over: what was tried or waits has its dependencies      *)
(* completed; nothing that follows a node was tried before the node has       *)
(* answered; and when the result of a node meets a successor that was tried,  *)
(* the successor is still in streams, with its own result behind in the queue.*)

Tried(n) == runs[n] > 0 \/ status[n] = "COMPLETED"

Early(e) ==
  phase[e[1]] = "reported" =>
    /\ status[e[2]] = "PENDING"
    /\ pc \in {"top", "schedule"} => e[2] \notin ToSet(targets)

Answered(e) ==
  phase[e[1]] = "answering" /\ Tried(e[2]) =>
    e[2] \in streams /\ phase[e[2]] \in {"running", "updating", "reported"}

Late(e) ==
  status[e[1]] = "COMPLETED" /\ Tried(e[2]) =>
    \A i \in Ends(queue, e[1]) : queue[i].type = "result" =>
      e[2] \in streams /\ \A j \in Ends(queue, e[2]) : i < j

InOrder ==
  /\ \A n \in Nodes : runs[n] <= 1
  /\ \A n \in ToSet(targets) : ~Tried(n)
  /\ \A n \in Nodes : status[n] # "PENDING" \/ n \in ToSet(targets) =>
       \A e \in Incoming(n) : status[e[1]] = "COMPLETED"
  /\ \A e \in Edges : Early(e) /\ Answered(e) /\ Late(e)

(* The state before every step of such an invocation.                         *)
Before == Types /\ Tracked /\ Reported /\ Handled /\ InOrder

SourcesAreRoots == \A n \in ToSet(Sources) : Incoming(n) = {}

LEMMA Ordering ==
  ASSUME Before
  PROVE  /\ \A n \in Nodes : runs[n] \in Nat /\ status[n] \in Status
         /\ ToSet(targets) \subseteq Nodes
         /\ \A e \in Edges : e[1] \in Nodes /\ e[2] \in Nodes /\ e \in Incoming(e[2])
         /\ \A n \in Nodes : Ends(queue, n) \subseteq DOMAIN queue
         /\ \A n \in Nodes : phase[n] \in Active => Tried(n)
         /\ \A n \in Nodes : Tried(n) => status[n] # "PENDING"
<1>1. /\ \A n \in Nodes : runs[n] \in Nat /\ status[n] \in Status
      /\ ToSet(targets) \subseteq Nodes
  BY LenProperties, LimitsAssumption DEF Before, Types, TypeOK, ToSet
<1>2. \A e \in Edges : e[1] \in Nodes /\ e[2] \in Nodes /\ e \in Incoming(e[2])
  BY TopologyAssumption DEF Incoming
<1>3. /\ \A n \in Nodes : phase[n] \in Active => Tried(n)
      /\ \A n \in Nodes : Tried(n) => status[n] # "PENDING"
  BY DEF Before, Handled, Tried
<1>4. \A n \in Nodes : Ends(queue, n) \subseteq DOMAIN queue
  BY DEF Ends
<1> QED BY <1>1, <1>2, <1>3, <1>4

(* Steps that leave the nodes, the results and the targets alone.             *)
LEMMA InOrderUnchanged ==
  ASSUME InOrder, UNCHANGED <<targets, streams, queue, phase, status, runs>>,
         \/ pc' \notin {"top", "schedule"} \/ pc \in {"top", "schedule"}
         \/ \A n \in Nodes : phase[n] # "reported"
  PROVE  InOrder'
<1>1. \A n \in Nodes : Tried(n)' <=> Tried(n)
  BY DEF Tried
<1>2. \A e \in Edges : e[1] \in Nodes /\ e[2] \in Nodes
  BY TopologyAssumption
<1>3. ASSUME NEW n \in ToSet(targets)' PROVE ~Tried(n)'
  BY <1>3 DEF InOrder, Tried
<1>4. ASSUME NEW e \in Edges PROVE Early(e)' /\ Answered(e)' /\ Late(e)'
  <2>1. Early(e) /\ Answered(e) /\ Late(e)
    BY DEF InOrder
  <2> QED BY <1>1, <1>2, <2>1 DEF Early, Answered, Late
<1> QED BY <1>3, <1>4 DEF InOrder, Incoming

(* An invocation begins in order: with what the interrupted one left, or anew.*)
LEMMA InvocationInOrder ==
  ASSUME SourcesAreRoots, Types, ~startedOver /\ outcome # "thrown" => InOrder,
         Invoke \/ InvokeAgain \/ Resume \/ ResumeRejected,
         ~startedOver', outcome' # "thrown"
  PROVE  InOrder'
<1>1. ASSUME NEW list, Begin(list), ToSet(list) \subseteq Nodes,
             \A n \in ToSet(list) : status'[n] # "COMPLETED" /\ \A e \in Incoming(n) : status'[e[1]] = "COMPLETED",
             \A n \in Nodes : status'[n] # "PENDING" =>
               \A e \in Incoming(n) : status'[e[1]] = "COMPLETED"
      PROVE  InOrder'
  <2>0. ToSet(targets') = ToSet(list)
    BY <1>1 DEF Begin
  <2>1. /\ streams' = {} /\ queue' = <<>>
        /\ phase' = [n \in Nodes |-> "none"] /\ runs' = [n \in Nodes |-> 0]
    BY <1>1 DEF Begin
  <2>2. \A n : Ends(<<>>, n) = {}
    BY EndsOfEmpty
  <2>4. \A n \in ToSet(targets') : ~Tried(n)'
    BY <1>1, <2>0, <2>1 DEF Tried
  <2>5. \A e \in Edges : e[1] \in Nodes
    BY TopologyAssumption
  <2>6. \A e \in Edges : Early(e)' /\ Answered(e)' /\ Late(e)'
    BY <2>1, <2>2, <2>5 DEF Early, Answered, Late
  <2>7. \A n \in Nodes : status'[n] # "PENDING" \/ n \in ToSet(targets') =>
          \A e \in Incoming(n) : status'[e[1]] = "COMPLETED"
    BY <1>1, <2>0
  <2> QED BY <2>1, <2>4, <2>6, <2>7 DEF InOrder, Incoming
<1>2. CASE Invoke
  <2>1. Begin(Sources) /\ status' = [n \in Nodes |-> "PENDING"]
    BY <1>2 DEF Invoke
  <2> QED BY <1>1, <2>1, SourcesAreNodes DEF SourcesAreRoots
<1>3. CASE InvokeAgain \/ Resume
  <2>1. status' = status /\ InOrder
    BY <1>3 DEF InvokeAgain, Resume, state
  <2>2. \A n \in Nodes : status'[n] # "PENDING" =>
          \A e \in Incoming(n) : status'[e[1]] = "COMPLETED"
    BY <2>1 DEF InOrder
  <2>3. CASE InvokeAgain
    <3>1. PICK open \in SUBSET Conditional :
            /\ \E first \in FindResumeTargets(open) : Begin(first)
            /\ startedOver' = (startedOver \/ (SomeCompleted /\ ReadyToResume(open) = {}))
      BY <2>3 DEF InvokeAgain
    <3>2. PICK first \in FindResumeTargets(open) : Begin(first)
      BY <3>1
    <3>3. ~SomeCompleted \/ ReadyToResume(open) # {}
      BY <3>1
    <3>4. CASE SomeCompleted
      <4>1. ReadyToResume(open) \in SUBSET Nodes /\ first \in SetToSeqs(ReadyToResume(open))
        BY <3>2, <3>3, <3>4 DEF FindResumeTargets, ReadyToResume
      <4>2. ToSet(first) \subseteq ReadyToResume(open)
        BY <4>1, OrdersAreFirst
      <4>3. \A n \in ReadyToResume(open) :
              status[n] # "COMPLETED" /\ \A e \in Incoming(n) : status[e[1]] = "COMPLETED"
        BY DEF ReadyToResume, Satisfied
      <4>4. ToSet(first) \subseteq Nodes
        BY <4>1, <4>2
      <4>5. \A n \in ToSet(first) :
              status'[n] # "COMPLETED" /\ \A e \in Incoming(n) : status'[e[1]] = "COMPLETED"
        BY <2>1, <4>2, <4>3
      <4> QED BY <1>1, <2>2, <3>2, <4>4, <4>5
    <3>5. CASE ~SomeCompleted
      <4>1. first = Sources
        BY <3>2, <3>5 DEF FindResumeTargets
      <4>2. \A n \in ToSet(Sources) : status[n] # "COMPLETED" /\ Incoming(n) = {}
        BY <3>5, SourcesAreNodes DEF SomeCompleted, SourcesAreRoots
      <4> QED BY <1>1, <2>1, <2>2, <3>2, <4>1, <4>2, SourcesAreNodes
    <3> QED BY <3>4, <3>5
  <2>4. CASE Resume
    <3>1. PICK answered \in SUBSET {n \in Nodes : status[n] = "INTERRUPTED"} :
            \E list \in SetToSeqs(answered) : Begin(list)
      BY <2>4 DEF Resume
    <3>2. PICK list \in SetToSeqs(answered) : Begin(list)
      BY <3>1
    <3>3. answered \in SUBSET Nodes
      OBVIOUS
    <3>4. ToSet(list) \subseteq answered
      BY <3>2, <3>3, OrdersAreFirst
    <3>5. \A n \in answered : n \in Nodes /\ status[n] # "COMPLETED" /\ status[n] # "PENDING"
      OBVIOUS
    <3> QED BY <1>1, <2>1, <2>2, <3>2, <3>4, <3>5
  <2> QED BY <1>3, <2>3, <2>4
<1>4. CASE ResumeRejected
  BY <1>4 DEF ResumeRejected
<1> QED BY <1>2, <1>3, <1>4

LEMMA ScheduleInOrder ==
  ASSUME Before, Schedule
  PROVE  InOrder'
<1> DEFINE n == Head(targets)
<1>1. /\ n \in Nodes /\ n \in ToSet(targets)
      /\ ToSet(targets') = ToSet(targets) \ {n}
      /\ pc = "schedule" /\ pc' = pc
  BY NextTarget DEF Before
<1>2. n \notin streams /\ phase[n] \notin Active /\ Ends(queue, n) = {}
  BY NextTarget DEF Before, Tracked
<1> HIDE DEF n
<1>3. ~Tried(n) /\ \A e \in Incoming(n) : status[e[1]] = "COMPLETED"
  BY <1>1 DEF Before, InOrder
<1>4. /\ runs[n] = 0 /\ status[n] # "COMPLETED"
      /\ \A m \in Nodes : runs[m] \in Nat
  BY <1>1, <1>3, Ordering DEF Tried
<1>5. ASSUME \A m \in Nodes : m # n => status'[m] = status[m]
      PROVE  /\ \A m \in Nodes : \A e \in Incoming(m) :
                  status[e[1]] = "COMPLETED" => status'[e[1]] = "COMPLETED"
             /\ \A m \in Nodes : status'[m] # "PENDING" \/ m \in ToSet(targets') =>
                  \A e \in Incoming(m) : status'[e[1]] = "COMPLETED"
  <2>1. \A m \in Nodes : \A e \in Incoming(m) :
          status[e[1]] = "COMPLETED" => status'[e[1]] = "COMPLETED"
    BY <1>4, <1>5, TopologyAssumption DEF Incoming
  <2>2. \A m \in Nodes : status'[m] # "PENDING" \/ m \in ToSet(targets') =>
          m = n \/ status[m] # "PENDING" \/ m \in ToSet(targets)
    BY <1>1, <1>5
  <2>3. \A m \in Nodes : status[m] # "PENDING" \/ m \in ToSet(targets) =>
          \A e \in Incoming(m) : status[e[1]] = "COMPLETED"
    BY DEF Before, InOrder
  <2> QED BY <1>1, <1>3, <2>1, <2>2, <2>3
<1>6. \A e \in Edges :
        /\ e[1] \in Nodes /\ e[2] \in Nodes
        /\ phase[e[1]] = "reported" => status[e[2]] = "PENDING" /\ e[2] # n
        /\ Early(e) /\ Answered(e) /\ Late(e)
  BY <1>1, Ordering DEF Before, InOrder, Early
<1>7. CASE Start(n)
  <2>1. /\ queue' = queue /\ streams' = streams \cup {n}
        /\ phase'[n] = "running" /\ status'[n] = "EXECUTING" /\ runs'[n] = 1
        /\ \A m \in Nodes : m # n => /\ phase'[m] = phase[m] /\ status'[m] = status[m]
                                     /\ runs'[m] = runs[m]
    BY <1>1, <1>4, <1>7 DEF Start, Before, Types, TypeOK
  <2>2. \A m \in Nodes : m # n => (Tried(m)' <=> Tried(m))
    BY <2>1 DEF Tried
  <2>3. ASSUME NEW e \in Edges PROVE Early(e)' /\ Answered(e)' /\ Late(e)'
    <3>1. Early(e)'
      BY <1>1, <1>6, <2>1 DEF Early
    <3>2. Answered(e)'
      BY <1>6, <2>1, <2>2 DEF Answered
    <3>3. Late(e)'
      BY <1>2, <1>6, <2>1, <2>2 DEF Late
    <3> QED BY <3>1, <3>2, <3>3
  <2>4. \A m \in Nodes : runs'[m] <= 1
    BY <2>1 DEF Before, InOrder
  <2>5. \A m \in ToSet(targets)' : m \in Nodes /\ m # n /\ ~Tried(m)
    BY <1>1, Ordering DEF Before, InOrder
  <2>6. \A m \in ToSet(targets)' : ~Tried(m)'
    BY <2>2, <2>5
  <2> QED BY <1>5, <2>1, <2>3, <2>4, <2>6 DEF InOrder, Incoming
<1>8. ASSUME NEW decision \in {"interrupt", "cancel"}, Gate(n, decision)
      PROVE  InOrder'
  <2> DEFINE gated == IF decision = "interrupt" THEN "INTERRUPTED" ELSE "CANCELLED"
             result == Result(n, gated)
  <2>1. result \in Entries /\ result.node = n
    BY <1>1, EndsAreEntries DEF Result
  <2>2. queue' = Append(queue, result) /\ UNCHANGED <<streams, phase, runs>>
    BY <1>8 DEF Gate
  <2> HIDE DEF result
  <2>3. /\ \A i \in DOMAIN queue : queue'[i] = queue[i]
        /\ \A m \in Nodes : m # n => Ends(queue', m) = Ends(queue, m)
    BY <2>1, <2>2, AppendEnds, OthersKeepEnds DEF Before, Types, TypeOK
  <2>4. /\ status'[n] # "COMPLETED"
        /\ \A m \in Nodes : m # n => status'[m] = status[m]
    BY <1>1, <1>8 DEF Gate, Before, Types, TypeOK
  <2>5. \A m \in Nodes : Tried(m)' <=> m # n /\ Tried(m)
    BY <1>4, <2>2, <2>4 DEF Tried
  <2>6. ASSUME NEW e \in Edges PROVE Early(e)' /\ Answered(e)' /\ Late(e)'
    <3>1. Early(e)'
      BY <1>1, <1>6, <2>2, <2>4 DEF Early
    <3>2. Answered(e)'
      BY <1>6, <2>2, <2>5 DEF Answered
    <3>3. Late(e)'
      BY <1>6, <2>2, <2>3, <2>4, <2>5, Ordering DEF Late
    <3> QED BY <3>1, <3>2, <3>3
  <2>7. \A m \in ToSet(targets)' : m \in Nodes /\ m # n /\ ~Tried(m)
    BY <1>1, Ordering DEF Before, InOrder
  <2>8. \A m \in ToSet(targets)' : ~Tried(m)'
    BY <2>5, <2>7
  <2>9. \A m \in Nodes : runs'[m] <= 1
    BY <2>2 DEF Before, InOrder
  <2> QED BY <1>5, <2>4, <2>6, <2>8, <2>9 DEF InOrder, Incoming
<1> QED BY <1>7, <1>8 DEF Schedule, n

(* A node that is ready when a result is handled was not tried.               *)
LEMMA ReadyIsFresh ==
  ASSUME Before, HandleResult, NEW open, NEW m \in ReadyNodes(Head(queue).node, open)
  PROVE  m \in Nodes /\ ~Tried(m) /\ \A e \in Incoming(m) : status[e[1]] = "COMPLETED"
<1> DEFINE n == Head(queue).node
<1>1. /\ n \in Nodes /\ 1 \in Ends(queue, n) /\ queue[1].type = "result"
  BY Arrival, TailEnds DEF HandleResult, Handling, Before, Types, TypeOK
<1> HIDE DEF n
<1>2. PICK f \in FindReady(n, open) : m = f[2]
  BY DEF ReadyNodes, n
<1>3. /\ status[n] = "COMPLETED" /\ f \in Edges /\ f[1] = n
      /\ m \notin streams \ {n} /\ Satisfied(m, open)
  BY <1>2 DEF FindReady
<1>4. m \in Nodes
  BY <1>2, ReadyEdges
<1>5. ASSUME Tried(m) PROVE FALSE
  <2>1. Late(f)
    BY <1>3 DEF Before, InOrder
  <2>2. m \in streams /\ \A j \in Ends(queue, m) : 1 < j
    BY <1>1, <1>2, <1>3, <1>5, <2>1 DEF Late
  <2>3. m = n
    BY <1>3, <2>2
  <2> QED BY <1>1, <2>2, <2>3
<1> QED BY <1>3, <1>4, <1>5 DEF Satisfied

LEMMA HandlingResultInOrder ==
  ASSUME SimpleGraph, Before, HandleResult, outcome' # "thrown"
  PROVE  InOrder'
<1> DEFINE n == Head(queue).node
<1>1. /\ n \in Nodes /\ phase[n] \notin Active /\ 1 \in Ends(queue, n)
  BY Arrival DEF HandleResult, Handling, Before
<1>2. /\ pc = "drain" /\ queue # <<>> /\ queue' = Tail(queue)
      /\ UNCHANGED <<pc, phase, status, runs>> /\ streams' = streams \ {n}
  BY DEF HandleResult, Handling, Unwind, history
<1> HIDE DEF n
<1>3. ASSUME NEW m \in ToSet(targets)'
      PROVE  \/ m \in ToSet(targets)
             \/ \E open \in SUBSET Conditional : m \in ReadyNodes(Head(queue).node, open)
  <2>1. CASE targets' = targets
    BY <1>3, <2>1
  <2>2. CASE targets' # targets
    <3>1. PICK open \in SUBSET Conditional :
            \E new \in SetToSeqs(FindReady(n, open)) : targets' = targets \o TargetsOf(new)
      BY <2>2, UnwindProperties DEF HandleResult, n
    <3>2. PICK new \in SetToSeqs(FindReady(n, open)) : targets' = targets \o TargetsOf(new)
      BY <3>1
    <3>3. ToSet(targets') \subseteq ToSet(targets) \cup ReadyNodes(n, open)
      BY <1>1, <3>2, NewTargets DEF Before
    <3> QED BY <1>3, <3>3 DEF n
  <2> QED BY <2>1, <2>2
<1>4. ASSUME NEW m \in ToSet(targets)'
      PROVE  ~Tried(m) /\ \A e \in Incoming(m) : status[e[1]] = "COMPLETED"
  BY <1>3, ReadyIsFresh, Ordering DEF Before, InOrder
<1>5. \A m : Tried(m)' <=> Tried(m)
  BY <1>2 DEF Tried
<1>6. ASSUME NEW e \in Edges PROVE Early(e)' /\ Answered(e)' /\ Late(e)'
  <2>1. Early(e) /\ Answered(e) /\ Late(e) /\ e[1] \in Nodes /\ e[2] \in Nodes
    BY Ordering DEF Before, InOrder
  <2>2. Early(e)'
    BY <1>2, <2>1 DEF Early
  <2>3. Answered(e)'
    BY <1>1, <1>2, <1>5, <2>1 DEF Answered, Active
  <2>4. ASSUME status'[e[1]] = "COMPLETED", Tried(e[2])',
               NEW i \in Ends(queue, e[1])', queue'[i].type = "result"
        PROVE  e[2] \in streams' /\ \A j \in Ends(queue, e[2])' : i < j
    <3>1. i + 1 \in Ends(queue, e[1]) /\ queue[i + 1].type = "result"
      BY <1>2, <2>1, <2>4, Shifted DEF Before
    <3>2. e[2] \in streams /\ \A j \in Ends(queue, e[2]) : i + 1 < j
      BY <1>2, <1>5, <2>1, <2>4, <3>1 DEF Late
    <3>3. i \in Nat
      BY <1>2, <2>4, Shifted DEF Before, Ends
    <3>4. e[2] # n
      BY <1>1, <3>2, <3>3
    <3>5. ASSUME NEW j \in Ends(queue, e[2])' PROVE i < j
      <4>1. j \in Nat /\ j + 1 \in Ends(queue, e[2])
        BY <1>2, <2>1, <3>5, Shifted DEF Before, Ends
      <4> QED BY <3>2, <3>3, <4>1
    <3> QED BY <1>2, <3>2, <3>4, <3>5
  <2> QED BY <2>2, <2>3, <2>4 DEF Late
<1>7. \A m \in ToSet(targets)' : ~Tried(m)'
  BY <1>4, <1>5
<1>8. \A m \in Nodes : status'[m] # "PENDING" \/ m \in ToSet(targets)' =>
        \A e \in Incoming(m) : status'[e[1]] = "COMPLETED"
  BY <1>2, <1>4 DEF Before, InOrder
<1> QED BY <1>2, <1>6, <1>7, <1>8 DEF Before, InOrder, Incoming

LEMMA HandlingEventInOrder ==
  ASSUME Before, HandleEvent
  PROVE  InOrder'
<1>1. /\ pc = "drain" /\ queue # <<>> /\ queue' = Tail(queue)
      /\ UNCHANGED <<pc, targets, streams, phase, status, runs>>
  BY DEF HandleEvent, Handling, loop, state, history
<1>2. \A m : Tried(m)' <=> Tried(m)
  BY <1>1 DEF Tried
<1>3. ASSUME NEW e \in Edges PROVE Early(e)' /\ Answered(e)' /\ Late(e)'
  <2>1. Early(e) /\ Answered(e) /\ Late(e) /\ e[1] \in Nodes /\ e[2] \in Nodes
    BY Ordering DEF Before, InOrder
  <2>2. Early(e)' /\ Answered(e)'
    BY <1>1, <1>2, <2>1 DEF Early, Answered
  <2>3. ASSUME status'[e[1]] = "COMPLETED", Tried(e[2])',
               NEW i \in Ends(queue, e[1])', queue'[i].type = "result"
        PROVE  e[2] \in streams' /\ \A j \in Ends(queue, e[2])' : i < j
    <3>1. i \in Nat /\ i + 1 \in Ends(queue, e[1]) /\ queue[i + 1].type = "result"
      BY <1>1, <2>1, <2>3, Shifted DEF Before, Ends
    <3>2. e[2] \in streams /\ \A j \in Ends(queue, e[2]) : i + 1 < j
      BY <1>1, <1>2, <2>1, <2>3, <3>1 DEF Late
    <3>3. ASSUME NEW j \in Ends(queue, e[2])' PROVE i < j
      <4>1. j \in Nat /\ j + 1 \in Ends(queue, e[2])
        BY <1>1, <2>1, <3>3, Shifted DEF Before, Ends
      <4> QED BY <3>1, <3>2, <4>1
    <3> QED BY <1>1, <3>2, <3>3
  <2> QED BY <2>2, <2>3 DEF Late
<1>4. \A m \in ToSet(targets)' : ~Tried(m)'
  BY <1>1, <1>2 DEF Before, InOrder
<1> QED BY <1>1, <1>3, <1>4 DEF Before, InOrder, Incoming

LEMMA AcknowledgingInOrder ==
  ASSUME Before, Acknowledge
  PROVE  InOrder'
<1>1. PICK n \in Nodes :
        /\ handling = Event(n) /\ handling' = Nothing
        /\ UNCHANGED <<loop, queue, aborted, state, history>>
        /\ \A m \in Nodes : m # n => phase'[m] = phase[m] /\ handling # Event(m)
        /\ \/ phase'[n] = "running" /\ phase[n] = "updating"
           \/ phase'[n] = "answering" /\ phase[n] = "reported"
           \/ phase'[n] = "erring" /\ phase[n] = "failing"
           \/ phase'[n] = "none"
  BY Acknowledged DEF Before
<1>2. \A m \in Nodes : phase[m] # "answering"
  BY DEF Acknowledge
<1>3. /\ pc' = pc /\ UNCHANGED <<targets, streams, queue, status, runs>>
      /\ \A m : Tried(m)' <=> Tried(m)
  BY <1>1 DEF loop, state, history, Tried
<1>4. ASSUME NEW e \in Edges PROVE Early(e)' /\ Answered(e)' /\ Late(e)'
  <2>1. /\ Early(e) /\ Answered(e) /\ Late(e) /\ e[1] \in Nodes /\ e[2] \in Nodes
        /\ Tried(e[2]) => status[e[2]] # "PENDING"
    BY Ordering DEF Before, InOrder
  <2>2. Early(e)' /\ Late(e)'
    BY <1>1, <1>3, <2>1 DEF Early, Late
  <2>3. Answered(e)'
    <3>1. ASSUME phase'[e[1]] = "answering" PROVE ~Tried(e[2])
      <4>1. phase[e[1]] = "reported"
        BY <1>1, <1>2, <2>1, <3>1
      <4> QED BY <2>1, <4>1 DEF Early
    <3> QED BY <1>3, <2>1, <3>1 DEF Answered
  <2> QED BY <2>2, <2>3
<1>5. \A m \in ToSet(targets)' : ~Tried(m)'
  BY <1>3 DEF Before, InOrder
<1> QED BY <1>3, <1>4, <1>5 DEF Before, InOrder, Incoming

LEMMA NodeInOrder ==
  ASSUME Before, NEW n \in Nodes, Emit(n) \/ EndHandler(n) \/ Deliver(n),
         outcome # "thrown"
  PROVE  InOrder'
<1>1. /\ UNCHANGED <<pc, targets, streams, runs>>
      /\ phase[n] \in Active /\ n \in streams /\ Ends(queue, n) = {} /\ pc # "idle"
      /\ \A m \in Nodes : m # n =>
           phase'[m] = phase[m] /\ status'[m] = status[m] /\ Ends(queue', m) = Ends(queue, m)
      /\ \A i \in DOMAIN queue : i \in DOMAIN queue' /\ queue'[i] = queue[i]
      /\ phase'[n] \in Active => Ends(queue', n) = {}
      /\ \A i \in Ends(queue', n) :
           /\ \A j \in DOMAIN queue : j < i
           /\ queue'[i].type = "result" =>
                /\ queue'[i].status = status[n] /\ phase[n] = "answering"
                /\ status' = status
  BY NodeStep DEF Before
<1>2. runs[n] > 0 /\ Tried(n)
  BY <1>1 DEF Before, Handled, Tried
<1>3. \A m \in Nodes : Tried(m)' <=> Tried(m)
  BY <1>1, <1>2 DEF Tried
<1>4. \A m \in ToSet(targets) : m \in Nodes /\ m # n /\ ~Tried(m)
  BY <1>2, Ordering DEF Before, InOrder
<1>5. /\ \A m \in ToSet(targets)' : ~Tried(m)'
      /\ \A m \in Nodes : runs'[m] <= 1
  BY <1>1, <1>3, <1>4 DEF Before, InOrder
<1>6. \A e \in Edges :
        /\ Early(e) /\ Answered(e) /\ Late(e) /\ e[1] \in Nodes /\ e[2] \in Nodes
        /\ Ends(queue, e[1]) \subseteq DOMAIN queue
  BY Ordering DEF Before, InOrder
<1>7. CASE Emit(n)
  <2>1. /\ phase'[n] = "updating" /\ phase[n] = "running" /\ status' = status
    BY <1>7 DEF Emit, Before, Types, TypeOK, state
  <2>2. ASSUME NEW e \in Edges PROVE Early(e)' /\ Answered(e)' /\ Late(e)'
    <3>1. \A m \in Nodes : Ends(queue', m) = Ends(queue, m)
      BY <1>1, <2>1 DEF Active
    <3> QED BY <1>1, <1>3, <1>6, <2>1, <3>1 DEF Early, Answered, Late
  <2> QED BY <1>1, <1>5, <2>1, <2>2 DEF Before, InOrder, Incoming
<1>8. CASE EndHandler(n)
  <2>1. /\ phase[n] = "running" /\ phase'[n] = "reported" /\ status[n] = "EXECUTING"
        /\ Ends(queue', n) = {}
    <3>1. pc # "settling"
      BY DEF Before, Types
    <3> QED BY <1>1, <1>8, <3>1, HandlerEnds DEF Before, Handled, Active
  <2>2. \A m \in Nodes : status[m] # "PENDING" \/ m \in ToSet(targets) =>
          \A e \in Incoming(m) : e[1] # n /\ status'[e[1]] = "COMPLETED"
    BY <1>1, <2>1, TopologyAssumption DEF Before, InOrder, Incoming
  <2>3. \A m \in Nodes : status'[m] # "PENDING" \/ m \in ToSet(targets)' =>
          \A e \in Incoming(m) : status'[e[1]] = "COMPLETED"
    BY <1>1, <2>1, <2>2
  <2>4. ASSUME NEW e \in Edges PROVE Early(e)' /\ Answered(e)' /\ Late(e)'
    <3>1. Early(e)'
      <4>1. CASE e[1] = n
        <5>1. status[e[2]] = "PENDING" /\ e[2] \notin ToSet(targets)
          BY <1>6, <2>2, <4>1 DEF Incoming
        <5> QED BY <1>1, <1>6, <2>1, <5>1 DEF Early
      <4>2. CASE e[1] # n
        BY <1>1, <1>6, <2>1, <4>2 DEF Early
      <4> QED BY <4>1, <4>2
    <3>2. Answered(e)'
      BY <1>1, <1>3, <1>6, <2>1 DEF Answered
    <3>3. Late(e)'
      BY <1>1, <1>3, <1>6, <2>1 DEF Late
    <3> QED BY <3>1, <3>2, <3>3
  <2> QED BY <1>5, <2>3, <2>4 DEF InOrder, Incoming
<1>9. CASE Deliver(n)
  <2>1. /\ status' = status /\ phase[n] \in {"answering", "erring"}
        /\ phase'[n] \in {"closing", "failing", "none"}
    BY <1>9 DEF Deliver, Before, Types, TypeOK, state
  <2>2. ASSUME NEW e \in Edges PROVE Early(e)' /\ Answered(e)' /\ Late(e)'
    <3>1. Early(e)'
      BY <1>1, <1>6, <2>1 DEF Early
    <3>2. Answered(e)'
      BY <1>1, <1>2, <1>3, <1>6, <2>1 DEF Answered
    <3>3. ASSUME status[e[1]] = "COMPLETED", Tried(e[2]),
                 NEW i \in Ends(queue', e[1]), queue'[i].type = "result"
          PROVE  e[2] \in streams /\ \A j \in Ends(queue', e[2]) : i < j
      <4>1. CASE e[1] = n
        <5>1. e[2] \in streams /\ phase[e[2]] \in {"running", "updating", "reported"}
          BY <1>1, <1>6, <3>3, <4>1 DEF Answered
        <5>2. e[2] # n /\ Ends(queue, e[2]) = {}
          BY <1>6, <2>1, <5>1 DEF Before, Tracked, Active
        <5> QED BY <1>1, <1>6, <5>1, <5>2
      <4>2. CASE e[1] # n
        <5>1. i \in Ends(queue, e[1]) /\ i \in DOMAIN queue /\ queue[i].type = "result"
          BY <1>1, <1>6, <3>3, <4>2
        <5>2. e[2] \in streams /\ \A j \in Ends(queue, e[2]) : i < j
          BY <1>6, <3>3, <5>1 DEF Late
        <5> QED BY <1>1, <1>6, <5>1, <5>2
      <4> QED BY <4>1, <4>2
    <3>4. Late(e)'
      BY <1>1, <1>3, <1>6, <2>1, <3>3 DEF Late
    <3> QED BY <3>1, <3>2, <3>4
  <2> QED BY <1>1, <1>5, <2>1, <2>2 DEF Before, InOrder, Incoming
<1> QED BY <1>7, <1>8, <1>9

LEMMA OrderKept ==
  ASSUME SimpleGraph, SourcesAreRoots, Types, Tracked, Reported, Handled,
         ~startedOver /\ outcome # "thrown" => InOrder,
         [Next]_vars, ~startedOver', outcome' # "thrown"
  PROVE  InOrder'
<1>1. CASE Invoke \/ InvokeAgain \/ Resume \/ ResumeRejected
  BY <1>1, InvocationInOrder
<1>2. CASE ~(Invoke \/ InvokeAgain \/ Resume \/ ResumeRejected)
  <2>1. ~Unwind
    BY DEF Unwind
  <2>2. startedOver' = startedOver /\ outcome # "thrown"
    <3>1. CASE MainLoop
      BY <2>1, <3>1 DEF MainLoop, Finish, CheckAbort, StepsExceeded, Schedule, Wait,
                        HandleEvent, Acknowledge, HandleResult, HandleError, Drained,
                        Settled, loop, history, Types
    <3>2. CASE \E n \in Nodes : Emit(n) \/ EndHandler(n) \/ Deliver(n)
      BY <3>2, NodeStep
    <3>3. CASE Abort \/ Break \/ UNCHANGED vars
      BY <2>1, <3>3 DEF Abort, Break, vars, loop, history
    <3> QED BY <1>2, <3>1, <3>2, <3>3 DEF Next
  <2>3. Before
    BY <2>2 DEF Before
  <2>4. CASE CheckAbort \/ Wait
    BY <2>1, <2>3, <2>4, InOrderUnchanged DEF CheckAbort, Wait, Before, state, history
  <2>5. CASE Finish
    BY <2>3, <2>5, InOrderUnchanged DEF Finish, Before, state, history
  <2>6. CASE Drained
    <3>1. \A n \in Nodes : phase[n] # "reported"
      <4>1. queue = <<>> /\ \A n \in Nodes : handling # Event(n)
        BY <2>6 DEF Drained, Nothing, Event
      <4> QED BY <4>1 DEF Handled
    <3> QED BY <2>3, <2>6, <3>1, InOrderUnchanged DEF Drained, Before, state, history
  <2>7. CASE Settled
    BY <2>2, <2>7 DEF Settled, Types
  <2>8. CASE Abort \/ UNCHANGED vars
    BY <2>3, <2>8, InOrderUnchanged DEF Abort, vars, Before, loop, state, history
  <2>9. ~StepsExceeded /\ ~Break /\ ~HandleError
    BY <2>1 DEF StepsExceeded, Break, HandleError
  <2>10. Schedule => InOrder'
    BY <2>3, ScheduleInOrder
  <2>11. HandleEvent => InOrder'
    BY <2>3, HandlingEventInOrder
  <2>12. HandleResult => InOrder'
    BY <2>3, HandlingResultInOrder
  <2>13. Acknowledge => InOrder'
    BY <2>3, AcknowledgingInOrder
  <2>14. (\E n \in Nodes : Emit(n) \/ EndHandler(n) \/ Deliver(n)) => InOrder'
    BY <2>2, <2>3, NodeInOrder
  <2> QED BY <1>2, <2>4, <2>5, <2>6, <2>7, <2>8, <2>9, <2>10, <2>11, <2>12, <2>13, <2>14
          DEF Next, MainLoop
<1> QED BY <1>1, <1>2

(* The order holds while no invocation failed, and what it says of the number *)
(* of executions remains when one does.                                       *)
Ordered ==
  /\ ~startedOver /\ outcome # "thrown" => InOrder
  /\ ~startedOver => \A n \in Nodes : runs[n] <= 1

LEMMA OrderedInitially == ASSUME SourcesAreRoots, Init PROVE Ordered
<1>1. InOrder
  <2>1. /\ \A n \in Nodes : status[n] = "PENDING" /\ runs[n] = 0 /\ phase[n] = "none"
        /\ targets = <<>> /\ queue = <<>>
    BY DEF Init
  <2>2. ToSet(targets) = {}
    BY <2>1, EmptyDistinct
  <2>3. \A e \in Edges : Early(e) /\ Answered(e) /\ Late(e)
    BY <2>1, EndsOfEmpty, TopologyAssumption DEF Early, Answered, Late
  <2> QED BY <2>1, <2>2, <2>3 DEF InOrder
<1> QED BY <1>1 DEF Init, Ordered

LEMMA OrderedKept ==
  ASSUME SimpleGraph, SourcesAreRoots, Types, Tracked, Reported, Handled, Ordered, [Next]_vars
  PROVE  Ordered'
<1>1. ~startedOver' /\ outcome' # "thrown" => InOrder'
  BY OrderKept DEF Ordered
<1>2. ASSUME ~startedOver' PROVE \A n \in Nodes : runs'[n] <= 1
  <2>1. CASE outcome' # "thrown"
    BY <1>1, <1>2, <2>1 DEF InOrder
  <2>2. CASE outcome' = "thrown"
    <3>1. ~Invoke /\ ~InvokeAgain /\ ~Resume
      BY <2>2 DEF Invoke, InvokeAgain, Resume, Begin
    <3>2. ~Schedule
      BY <2>2 DEF Schedule, Types
    <3>3. UNCHANGED history
      <4>1. CASE MainLoop
        BY <3>2, <4>1 DEF MainLoop, Finish, CheckAbort, StepsExceeded, Wait, HandleEvent,
                          Acknowledge, HandleResult, HandleError, Drained, Settled
      <4>2. CASE \E n \in Nodes : Emit(n) \/ EndHandler(n) \/ Deliver(n)
        BY <4>2 DEF Emit, EndHandler, Deliver
      <4>3. CASE Abort \/ Break \/ ResumeRejected \/ UNCHANGED vars
        BY <4>3 DEF Abort, Break, ResumeRejected, vars
      <4> QED BY <3>1, <4>1, <4>2, <4>3 DEF Next
    <3> QED BY <1>2, <3>3 DEF Ordered, history
  <2> QED BY <2>1, <2>2
<1> QED BY <1>1, <1>2 DEF Ordered

LEMMA InvariantOfOrder ==
  ASSUME SimpleGraph, SourcesAreRoots
  PROVE  Spec => [](Types /\ Tracked /\ Handled /\ Ordered)
<1>1. Init => Ordered
  BY OrderedInitially
<1>2. Types /\ Tracked /\ Reported /\ Handled /\ Ordered /\ [Next]_vars => Ordered'
  BY OrderedKept
<1> QED BY <1>1, <1>2, InvariantOfResults, PTL DEF Spec

(* ExecutedOnce: a node is executed at most once in an invocation, when the   *)
(* graph is simple and the invocations begin with nodes that depend on none.  *)
(* Each of two parallel edges would make its target a target (_findReady).    *)
THEOREM RunsOnce ==
  ASSUME SimpleGraph, SourcesAreRoots PROVE Spec => []ExecutedOnce
<1>1. Ordered => ExecutedOnce
  BY DEF Ordered, ExecutedOnce
<1> QED BY <1>1, InvariantOfOrder, PTL

(* DependenciesFirst: and when it starts, all it depends on has completed.    *)
THEOREM RunsInOrder ==
  ASSUME SimpleGraph, SourcesAreRoots PROVE Spec => DependenciesFirst
<1>1. ASSUME Types, Tracked, Handled, Ordered, [Next]_vars, ~startedOver,
             NEW n \in Nodes, status'[n] = "EXECUTING", status[n] # "EXECUTING"
      PROVE  \A e \in Incoming(n) : status[e[1]] = "COMPLETED"
  <2>1. "EXECUTING" \notin ResultStatus
    BY DEF ResultStatus
  <2>2. ~Invoke
    BY <1>1 DEF Invoke
  <2>3. ASSUME NEW m \in Nodes, EndHandler(m) PROVE FALSE
    <3>1. status'[m] # "EXECUTING"
      BY <1>1, <2>1, <2>3, HandlerEnds
    <3>2. status'[n] = status[n]
      BY <1>1, <2>3, <3>1, NodeStep
    <3> QED BY <1>1, <3>2
  <2>4. Schedule
    <3>1. CASE MainLoop
      BY <1>1, <3>1 DEF MainLoop, Finish, CheckAbort, StepsExceeded, Wait, HandleEvent,
                        Acknowledge, HandleResult, HandleError, Drained, Settled, state
    <3>2. CASE \E m \in Nodes : Emit(m) \/ EndHandler(m) \/ Deliver(m)
      BY <1>1, <2>3, <3>2 DEF Emit, Deliver, state
    <3>3. CASE InvokeAgain \/ Resume \/ ResumeRejected \/ Abort \/ Break \/ UNCHANGED vars
      BY <1>1, <3>3 DEF InvokeAgain, Resume, ResumeRejected, Abort, Break, vars, state
    <3> QED BY <1>1, <2>2, <3>1, <3>2, <3>3 DEF Next
  <2>5. InOrder
    BY <1>1, <2>4 DEF Ordered, Types, Schedule
  <2>6. Head(targets) \in ToSet(targets)
    BY <1>1, <2>4, NextTarget
  <2>7. n = Head(targets)
    <3>1. \E s : status' = [status EXCEPT ![Head(targets)] = s]
      BY <2>4 DEF Schedule, Start, Gate
    <3> QED BY <1>1, <3>1 DEF Types, TypeOK
  <2> QED BY <2>5, <2>6, <2>7 DEF InOrder
<1>2. Types /\ Tracked /\ Handled /\ Ordered /\ [Next]_vars =>
        [~startedOver =>
           \A n \in Nodes :
             status'[n] = "EXECUTING" /\ status[n] # "EXECUTING" =>
               \A e \in Incoming(n) : status[e[1]] = "COMPLETED"]_vars
  BY <1>1
<1> QED BY <1>2, InvariantOfOrder, PTL DEF Spec, DependenciesFirst
=============================================================================
