--------------------------- MODULE McpClient_proofs ---------------------------
(* Proofs about the MCP client, for any callers, lists of tools, options, and *)
(* any number of connection attempts and vendor clients at once.              *)
EXTENDS McpClient, TLAPS

-----------------------------------------------------------------------------
(* What a call may be, whatever its stage.                                    *)
CallType ==
  [stage : {"idle", "waiting", "woken", "listing", "answered"},
   on : Clients \cup Attempts \cup {None},
   fresh : BOOLEAN, retry : BOOLEAN, lists : BOOLEAN, answer : Tools \cup {None}]

AttemptType ==
  [stage : {"idle", "leaving", "rebuilding", "ready", "dialling"},
   fresh : BOOLEAN, to : Clients \cup {None}]

(* TypeOK's condition on a call, which depends on who is active.              *)
CallOK(call, active) ==
  /\ call.stage = "waiting" => call.on \in active
  /\ call.stage = "listing" => call.on \in Clients /\ call.lists
  /\ call.stage = "answered" => \/ call.answer \in Tools /\ call.on \in Clients
                                \/ call.answer = None /\ call.on = None

(* TypeOK, and the types of the parts of a call that it leaves out.           *)
Types ==
  /\ <<url, continueOnError>> \in Options
  /\ state \in {"disconnected", "connected", "failed"}
  /\ shared \in Active \cup {None}
  /\ attempts \in [Attempts -> AttemptType]
  /\ attempted \in BOOLEAN
  /\ client \in Clients
  /\ links \in [Clients -> {"new", "dialling", "open", "closed"}]
  /\ calls \in [Users -> CallType]
  /\ \A u \in Users : CallOK(calls[u], Active)
  /\ closing \in {"no", "client", "transport"}
  /\ server \in Tools /\ notified \in BOOLEAN
  /\ refreshing \in BOOLEAN /\ again \in BOOLEAN /\ initialized \in BOOLEAN
  /\ old \subseteq Tools /\ registered \subseteq Tools /\ registry \subseteq Tools
  /\ (calls["refresh"] # NoCall => refreshing)

LEMMA TypesGive == Types => TypeOK
<1> SUFFICES ASSUME Types PROVE TypeOK
  OBVIOUS
<1>1. ASSUME NEW u \in Users
      PROVE  CASE calls[u].stage = "waiting" -> calls[u].on \in Active
               [] calls[u].stage = "listing" -> calls[u].on \in Clients /\ calls[u].lists
               [] calls[u].stage = "answered" ->
                    (calls[u].answer \in Tools /\ calls[u].on \in Clients)
                      \/ (calls[u].answer = None /\ calls[u].on = None)
               [] OTHER -> calls[u].stage \in {"idle", "woken"}
  BY <1>1 DEF Types, CallOK, CallType
<1> QED BY <1>1 DEF Types, TypeOK, AttemptType

-----------------------------------------------------------------------------
(* The steps that several actions share.                                      *)

LEMMA Names == /\ "agent" \in Users /\ "refresh" \in Users /\ Callers \subseteq Users
               /\ None \notin Clients /\ None \notin Attempts
BY McpAssumption DEF Users

LEMMA NoCallType == NoCall \in CallType /\ NoCall.stage = "idle"
BY DEF NoCall, CallType

(* A call that connect has returned to waits for the server, or is over.      *)
LEMMA AfterConnectIs ==
  ASSUME Types, NEW lists \in BOOLEAN, NEW st
  PROVE  /\ AfterConnect(lists, st) \in CallType
         /\ AfterConnect(lists, st).stage \in {"idle", "listing", "answered"}
         /\ AfterConnect(lists, st).stage = "answered" => AfterConnect(lists, st).on = None
         /\ \A active : CallOK(AfterConnect(lists, st), active)
<1>1. client \in Clients BY DEF Types
<1>2. CASE ~lists
  <2>1. AfterConnect(lists, st) = NoCall BY <1>2 DEF AfterConnect
  <2> QED BY <2>1, NoCallType DEF CallOK
<1>3. CASE lists /\ st = "failed"
  <2>1. AfterConnect(lists, st) = [NoCall EXCEPT !.stage = "answered", !.lists = TRUE]
    BY <1>3 DEF AfterConnect
  <2> QED BY <2>1 DEF CallOK, CallType, NoCall
<1>4. CASE lists /\ st # "failed"
  <2>1. AfterConnect(lists, st)
          = [NoCall EXCEPT !.stage = "listing", !.on = client, !.lists = TRUE]
    BY <1>4 DEF AfterConnect
  <2> QED BY <2>1, <1>1 DEF CallOK, CallType, NoCall
<1> QED BY <1>2, <1>3, <1>4

(* Those who wait for an attempt that settles are all told, the others are    *)
(* left alone.                                                                *)
LEMMA WokenCalls ==
  ASSUME Types, NEW a, NEW ok, NEW st, Woken(a, ok, st), NEW u \in Users
  PROVE  \/ /\ calls[u].stage = "waiting" /\ calls[u].on = a
            /\ \/ calls'[u] = NoCall
               \/ /\ calls[u].fresh
                  /\ calls'[u] = [NoCall EXCEPT !.stage = "woken", !.retry = TRUE]
               \/ calls[u].fresh /\ calls'[u] = AfterConnect(calls[u].lists, st)
         \/ /\ ~(calls[u].stage = "waiting" /\ calls[u].on = a)
            /\ calls'[u] = calls[u]
<1> DEFINE waiting == {x \in Users : calls[x].stage = "waiting" /\ calls[x].on = a}
           retrying == {x \in waiting : calls[x].fresh /\ calls[x].retry}
           failing == {x \in waiting : ~calls[x].fresh \/ (~ok /\ ~calls[x].retry)}
<1>1. calls' = [x \in Users |->
         CASE x \in retrying -> [NoCall EXCEPT !.stage = "woken", !.retry = TRUE]
           [] x \in failing -> NoCall
           [] x \in waiting \ (retrying \cup failing) -> AfterConnect(calls[x].lists, st)
           [] OTHER -> calls[x]]
  BY DEF Woken
<1>2. calls'[u] =
         CASE u \in retrying -> [NoCall EXCEPT !.stage = "woken", !.retry = TRUE]
           [] u \in failing -> NoCall
           [] u \in waiting \ (retrying \cup failing) -> AfterConnect(calls[u].lists, st)
           [] OTHER -> calls[u]
  BY <1>1
<1>3. retrying \cap failing = {} /\ retrying \subseteq waiting /\ failing \subseteq waiting
  OBVIOUS
<1>4. u \in waiting <=> calls[u].stage = "waiting" /\ calls[u].on = a
  OBVIOUS
<1>5. u \in retrying => u \in waiting /\ calls[u].fresh
  OBVIOUS
<1>6. u \in waiting \ (retrying \cup failing) => calls[u].fresh
  OBVIOUS
<1> HIDE DEF waiting, retrying, failing
<1>7. CASE u \in retrying BY <1>2, <1>3, <1>4, <1>5, <1>7
<1>8. CASE u \in failing BY <1>2, <1>3, <1>4, <1>8
<1>9. CASE u \in waiting \ (retrying \cup failing) BY <1>2, <1>4, <1>6, <1>9
<1>10. CASE u \notin waiting
  <2>1. calls'[u] = calls[u] BY <1>2, <1>3, <1>10
  <2> QED BY <2>1, <1>4, <1>10
<1> QED BY <1>7, <1>8, <1>9, <1>10

(* A refresh that an error ends forgets what it was about, and what was       *)
(* missed; any other step of the connection leaves it alone.                  *)
LEMMA WokenRefresh ==
  ASSUME Types, NEW a, NEW ok, NEW st, Woken(a, ok, st)
  PROVE  \/ /\ calls'["refresh"] = NoCall
            /\ refreshing' = FALSE /\ again' = FALSE /\ old' = {} /\ missed' = TRUE
         \/ /\ refreshing' = refreshing /\ again' = again /\ old' = old
            /\ missed' <=> missed
            /\ calls["refresh"] = NoCall => calls'["refresh"] = NoCall
<1> DEFINE waiting == {x \in Users : calls[x].stage = "waiting" /\ calls[x].on = a}
           retrying == {x \in waiting : calls[x].fresh /\ calls[x].retry}
           failing == {x \in waiting : ~calls[x].fresh \/ (~ok /\ ~calls[x].retry)}
<1>1. calls' = [x \in Users |->
         CASE x \in retrying -> [NoCall EXCEPT !.stage = "woken", !.retry = TRUE]
           [] x \in failing -> NoCall
           [] x \in waiting \ (retrying \cup failing) -> AfterConnect(calls[x].lists, st)
           [] OTHER -> calls[x]]
  BY DEF Woken
<1>2. LeaveLoop("refresh" \in failing)
  BY DEF Woken
<1>3. refreshing \in BOOLEAN /\ again \in BOOLEAN
  BY DEF Types
<1>4. retrying \cap failing = {}
  OBVIOUS
<1>5. CASE "refresh" \in failing
  <2>1. calls'["refresh"] = NoCall
    <3> HIDE DEF retrying, failing, waiting
    <3> QED BY <1>1, <1>4, <1>5, Names
  <2> QED BY <2>1, <1>2, <1>3, <1>5 DEF LeaveLoop
<1>6. CASE "refresh" \notin failing
  <2>1. refreshing' = refreshing /\ again' = again /\ old' = old
    BY <1>2, <1>3, <1>6 DEF LeaveLoop
  <2>2. missed' <=> missed BY <1>2, <1>6 DEF LeaveLoop
  <2>3. calls["refresh"] = NoCall => calls'["refresh"] = NoCall
    BY WokenCalls, Names, NoCallType
  <2> QED BY <2>1, <2>2, <2>3
<1> QED BY <1>5, <1>6

-----------------------------------------------------------------------------
(* The types.                                                                 *)

LEMMA InitTypes == Init => Types
<1> SUFFICES ASSUME Init PROVE Types
  OBVIOUS
<1>1. attempts \in [Attempts -> AttemptType]
  BY DEF Init, NoAttempt, AttemptType
<1>2. calls \in [Users -> CallType] /\ \A u \in Users : CallOK(calls[u], Active)
  BY NoCallType DEF Init, CallOK
<1>3. <<url, continueOnError>> \in Options
  BY McpAssumption DEF Init
<1>4. calls["refresh"] = NoCall
  BY Names DEF Init
<1> QED BY <1>1, <1>2, <1>3, <1>4 DEF Init, Types

(* A call that goes from one step to the next, the other calls as they are.   *)
LEMMA OneCall ==
  ASSUME Types, NEW u \in Users, NEW call \in CallType,
         calls' = [calls EXCEPT ![u] = call]
  PROVE  /\ calls' \in [Users -> CallType]
         /\ calls'[u] = call
         /\ \A v \in Users : v # u => calls'[v] = calls[v]
BY DEF Types

LEMMA StartTypes ==
  ASSUME Types, NEW u \in Users, NEW reconnect \in BOOLEAN, NEW lists \in BOOLEAN,
         StartAttempt(u, reconnect, lists), u = "refresh" => refreshing,
         UNCHANGED <<options, state, attempted, client, closing, server, notified, listing>>
  PROVE  Types'
<1>1. PICK a \in Attempts \ Active :
        /\ IF state = "connected" /\ reconnect
           THEN /\ attempts' = [attempts EXCEPT ![a].stage = "leaving"]
                /\ links' = Closed(links, client)
           ELSE /\ attempts' = [attempts EXCEPT ![a].stage = "rebuilding"]
                /\ UNCHANGED links
        /\ shared' = a
        /\ calls' = [calls EXCEPT
             ![u] = [NoCall EXCEPT !.stage = "waiting", !.on = a, !.lists = lists]]
  BY DEF StartAttempt
<1>2. attempts' \in [Attempts -> AttemptType] /\ Active' = Active \cup {a}
  BY <1>1 DEF Types, AttemptType, Active
<1>3. links' \in [Clients -> {"new", "dialling", "open", "closed"}]
  BY <1>1 DEF Types, Closed
<1> DEFINE call == [NoCall EXCEPT !.stage = "waiting", !.on = a, !.lists = lists]
<1>4. call \in CallType /\ call.stage = "waiting" /\ call.on = a
  BY <1>1 DEF NoCall, CallType
<1> HIDE DEF call
<1>5. calls' = [calls EXCEPT ![u] = call]
  BY <1>1 DEF call
<1>6. calls' \in [Users -> CallType] /\ calls'[u] = call
      /\ \A v \in Users : v # u => calls'[v] = calls[v]
  BY <1>4, <1>5, OneCall
<1>7. ASSUME NEW v \in Users PROVE CallOK(calls'[v], Active')
  BY <1>2, <1>4, <1>6, <1>7 DEF CallOK, Types
<1>8. calls'["refresh"] # NoCall => refreshing'
  BY <1>6, Names DEF Types, listing
<1> QED BY <1>1, <1>2, <1>3, <1>6, <1>7, <1>8 DEF Types, options, listing

LEMMA ConnectTypes ==
  ASSUME Types, NEW u \in Users, NEW reconnect \in BOOLEAN, NEW lists \in BOOLEAN,
         Connect(u, reconnect, lists), u = "refresh" => refreshing, UNCHANGED listing
  PROVE  Types'
<1>1. UNCHANGED <<options, state, attempted, client, closing, server, notified, listing>>
  BY DEF Connect
<1>2. CASE StartAttempt(u, reconnect, lists)
  BY <1>1, <1>2, StartTypes
<1>3. ASSUME NEW call \in CallType, CallOK(call, Active), calls' = [calls EXCEPT ![u] = call],
             UNCHANGED <<shared, attempts, links>>
      PROVE  Types'
  <2>1. calls' \in [Users -> CallType] /\ calls'[u] = call
        /\ \A v \in Users : v # u => calls'[v] = calls[v]
    BY <1>3, OneCall
  <2>2. Active' = Active BY <1>3 DEF Active
  <2>3. \A v \in Users : CallOK(calls'[v], Active')
    BY <1>3, <2>1, <2>2 DEF Types
  <2>4. calls'["refresh"] # NoCall => refreshing'
    BY <1>1, <2>1, Names DEF Types, listing
  <2> QED BY <1>1, <1>3, <2>1, <2>2, <2>3, <2>4 DEF Types, options, listing
<1>4. CASE /\ shared # None
           /\ calls' = [calls EXCEPT ![u] = [NoCall EXCEPT
                !.stage = "waiting", !.on = shared, !.retry = reconnect, !.lists = lists]]
           /\ UNCHANGED <<shared, attempts, links, overlapped>>
  <2> DEFINE call == [NoCall EXCEPT
                !.stage = "waiting", !.on = shared, !.retry = reconnect, !.lists = lists]
  <2>1. call \in CallType /\ CallOK(call, Active)
    BY <1>4 DEF NoCall, CallType, CallOK, Types, Active
  <2> HIDE DEF call
  <2>2. calls' = [calls EXCEPT ![u] = call] BY <1>4 DEF call
  <2> QED BY <1>3, <1>4, <2>1, <2>2
<1>5. CASE /\ shared = None /\ state # "disconnected" /\ ~reconnect
           /\ calls' = [calls EXCEPT ![u] = AfterConnect(lists, state)]
           /\ UNCHANGED <<shared, attempts, links, overlapped>>
  BY <1>3, <1>5, AfterConnectIs
<1> QED BY <1>2, <1>4, <1>5 DEF Connect

LEMMA SettleTypes ==
  ASSUME Types, NEW a \in Attempts, NEW ok \in BOOLEAN,
         NEW st \in {"disconnected", "connected", "failed"}, Settle(a, ok, st),
         attempted' \in BOOLEAN,
         links' \in [Clients -> {"new", "dialling", "open", "closed"}]
  PROVE  Types'
<1>1. Woken(a, ok, st) BY DEF Settle
<1>2. attempts' \in [Attempts -> AttemptType] /\ Active' = Active \ {a}
  BY <1>1 DEF Woken, Types, AttemptType, NoAttempt, Active
<1>3. shared' \in Active' \cup {None}
  BY <1>2 DEF Settle, Types
<1>4. calls' = [u \in Users |-> calls'[u]]
  <2>1. \E f : calls' = [u \in Users |-> f[u]]
    <3> DEFINE waiting == {u \in Users : calls[u].stage = "waiting" /\ calls[u].on = a}
               retrying == {u \in waiting : calls[u].fresh /\ calls[u].retry}
               failing == {u \in waiting : ~calls[u].fresh \/ (~ok /\ ~calls[u].retry)}
               g == [u \in Users |->
         CASE u \in retrying -> [NoCall EXCEPT !.stage = "woken", !.retry = TRUE]
           [] u \in failing -> NoCall
           [] u \in waiting \ (retrying \cup failing) -> AfterConnect(calls[u].lists, st)
           [] OTHER -> calls[u]]
    <3>1. calls' = g BY <1>1 DEF Woken
    <3>2. g = [u \in Users |-> g[u]] OBVIOUS
    <3> QED BY <3>1, <3>2
  <2> QED BY <2>1
<1>5. ASSUME NEW u \in Users PROVE calls'[u] \in CallType /\ CallOK(calls'[u], Active')
  <2>1. calls[u] \in CallType /\ CallOK(calls[u], Active) /\ calls[u].lists \in BOOLEAN
    BY DEF Types, CallType
  <2>2. CASE calls'[u] = NoCall
    BY <2>2, NoCallType DEF CallOK
  <2>3. CASE calls'[u] = [NoCall EXCEPT !.stage = "woken", !.retry = TRUE]
    BY <2>3 DEF NoCall, CallType, CallOK
  <2>4. CASE calls'[u] = AfterConnect(calls[u].lists, st)
    BY <2>1, <2>4, AfterConnectIs
  <2>5. CASE ~(calls[u].stage = "waiting" /\ calls[u].on = a) /\ calls'[u] = calls[u]
    BY <1>2, <2>1, <2>5 DEF CallOK
  <2> QED BY <1>1, <2>2, <2>3, <2>4, <2>5, WokenCalls
<1>6. calls' \in [Users -> CallType]
  BY <1>4, <1>5
<1>7. /\ refreshing' \in BOOLEAN /\ again' \in BOOLEAN /\ old' \subseteq Tools
      /\ (calls'["refresh"] # NoCall => refreshing')
  BY <1>1, WokenRefresh DEF Types
<1>8. UNCHANGED <<options, client, closing, server, notified, registered, registry,
                  initialized>>
  BY <1>1 DEF Woken
<1>9. state' = st BY <1>1 DEF Woken
<1> QED BY <1>2, <1>3, <1>5, <1>6, <1>7, <1>8, <1>9 DEF Types, options

LEMMA FailsTypes ==
  ASSUME Types, NEW a \in Attempts, Fails(a), attempted' \in BOOLEAN,
         links' \in [Clients -> {"new", "dialling", "open", "closed"}]
  PROVE  Types'
<1>1. state \in {"disconnected", "connected", "failed"} BY DEF Types
<1>2. Settle(a, TRUE, "failed") \/ Settle(a, FALSE, state) BY DEF Fails
<1> QED BY <1>1, <1>2, SettleTypes

LEMMA ClosedTypes ==
  ASSUME NEW ls \in [Clients -> {"new", "dialling", "open", "closed"}], NEW c \in Clients
  PROVE  Closed(ls, c) \in [Clients -> {"new", "dialling", "open", "closed"}]
BY DEF Closed

LEMMA AttemptTypes ==
  ASSUME Types, NEW a \in Attempts,
         Left(a) \/ RebuildForRetry(a) \/ Dial(a) \/ DialInVain(a) \/ Accept(a) \/ Refuse(a)
  PROVE  Types'
<1>1. state \in {"disconnected", "connected", "failed"} /\ attempted \in BOOLEAN
      /\ client \in Clients /\ links \in [Clients -> {"new", "dialling", "open", "closed"}]
      /\ attempts[a] \in AttemptType
  BY DEF Types
(* An attempt that goes on stays active, and changes no call.                 *)
<1>2. ASSUME NEW at \in AttemptType, attempts' = [attempts EXCEPT ![a] = at],
             at.stage # "idle", attempts[a].stage # "idle",
             links' \in [Clients -> {"new", "dialling", "open", "closed"}],
             client' \in Clients, attempted' \in BOOLEAN,
             state' \in {"disconnected", "connected", "failed"},
             UNCHANGED <<options, shared, calls, closing, server, notified, listing>>
      PROVE  Types'
  <2>1. attempts' \in [Attempts -> AttemptType] /\ Active' = Active
    BY <1>2 DEF Types, Active
  <2> QED BY <1>2, <2>1 DEF Types, options, listing
<1>3. CASE Left(a)
  <2>1. CASE attempts[a].fresh
    <3> DEFINE at == [attempts[a] EXCEPT !.stage = "rebuilding"]
    <3>1. at \in AttemptType /\ at.stage # "idle" BY <1>1 DEF AttemptType
    <3>2. attempts' = [attempts EXCEPT ![a] = at] BY <1>3, <2>1 DEF Left
    <3> HIDE DEF at
    <3> QED BY <1>1, <1>2, <1>3, <2>1, <3>1, <3>2 DEF Left
  <2>2. CASE ~attempts[a].fresh
    BY <1>1, <1>3, <2>2, SettleTypes DEF Left
  <2> QED BY <2>1, <2>2
<1>4. CASE RebuildForRetry(a)
  <2> DEFINE at == [attempts[a] EXCEPT !.stage = "ready"]
  <2>1. at \in AttemptType /\ at.stage # "idle" BY <1>1 DEF AttemptType
  <2>2. attempts' = [attempts EXCEPT ![a] = at] BY <1>4 DEF RebuildForRetry
  <2>3. client' \in Clients /\ links' \in [Clients -> {"new", "dialling", "open", "closed"}]
    BY <1>1, <1>4 DEF RebuildForRetry, Unused
  <2> HIDE DEF at
  <2> QED BY <1>1, <1>2, <1>4, <2>1, <2>2, <2>3 DEF RebuildForRetry
<1>5. CASE Dial(a)
  <2> DEFINE at == [attempts[a] EXCEPT !.stage = "dialling", !.to = client]
  <2>1. at \in AttemptType /\ at.stage # "idle" BY <1>1 DEF AttemptType
  <2>2. attempts' = [attempts EXCEPT ![a] = at] BY <1>5 DEF Dial
  <2>3. links' \in [Clients -> {"new", "dialling", "open", "closed"}]
    BY <1>1, <1>5 DEF Dial
  <2> HIDE DEF at
  <2> QED BY <1>1, <1>2, <1>5, <2>1, <2>2, <2>3 DEF Dial
<1>6. CASE DialInVain(a)
  <2>1. links' \in [Clients -> {"new", "dialling", "open", "closed"}] /\ attempted' \in BOOLEAN
    BY <1>1, <1>6, ClosedTypes DEF DialInVain
  <2> QED BY <1>1, <1>6, <2>1, FailsTypes, SettleTypes DEF DialInVain
<1>7. CASE Accept(a)
  <2>1. [links EXCEPT ![attempts[a].to] = "open"]
          \in [Clients -> {"new", "dialling", "open", "closed"}]
    BY <1>1
  <2> DEFINE opened == [links EXCEPT ![attempts[a].to] = "open"]
  <2>2. Closed(opened, client) \in [Clients -> {"new", "dialling", "open", "closed"}]
    BY <1>1, <2>1, ClosedTypes
  <2>3. /\ attempted' = attempted
        /\ \/ Settle(a, TRUE, "connected") /\ links' = opened
           \/ Settle(a, FALSE, state) /\ links' = Closed(opened, client)
    BY <1>7 DEF Accept
  <2> QED BY <1>1, <2>1, <2>2, <2>3, SettleTypes
<1>8. CASE Refuse(a)
  <2>1. Closed(links, attempts[a].to) \in [Clients -> {"new", "dialling", "open", "closed"}]
    BY <1>1 DEF Closed
  <2>2. links' \in [Clients -> {"new", "dialling", "open", "closed"}] /\ attempted' \in BOOLEAN
    BY <1>1, <1>8, <2>1, ClosedTypes DEF Refuse
  <2> QED BY <1>1, <1>8, <2>2, SettleTypes, FailsTypes DEF Refuse
<1> QED BY <1>3, <1>4, <1>5, <1>6, <1>7, <1>8

LEMMA ThrowTypes ==
  ASSUME Types, NEW u \in Users, Throw(u)
  PROVE  Types'
<1>1. /\ calls' \in [Users -> CallType] /\ calls'[u] = NoCall
      /\ \A v \in Users : v # u => calls'[v] = calls[v]
  BY NoCallType, OneCall DEF Throw
<1>2. Active' = Active BY DEF Throw, connection, Active
<1>3. \A v \in Users : CallOK(calls'[v], Active')
  BY <1>1, <1>2, NoCallType DEF Types, CallOK
<1>4. /\ refreshing' \in BOOLEAN /\ again' \in BOOLEAN /\ old' \subseteq Tools
      /\ (calls'["refresh"] # NoCall => refreshing')
  BY <1>1, Names DEF Throw, LeaveLoop, Types
<1> QED BY <1>1, <1>2, <1>3, <1>4 DEF Throw, Types, options, connection

LEMMA DisconnectTypes ==
  ASSUME Types, Disconnect \/ CloseTransport \/ Disconnected
  PROVE  Types'
<1>1. CASE Disconnect
  <2>1. attempts' \in [Attempts -> AttemptType] /\ Active' = Active
    BY <1>1 DEF Disconnect, Types, AttemptType, Active
  <2>2. ASSUME NEW u \in Users
        PROVE  /\ calls'[u] \in CallType /\ CallOK(calls'[u], Active')
               /\ calls[u] = NoCall => calls'[u] = NoCall
    <3>1. calls[u] \in CallType /\ CallOK(calls[u], Active) BY DEF Types
    <3>2. calls'[u] = IF calls[u].stage = "woken" THEN NoCall
            ELSE [calls[u] EXCEPT !.fresh = @ /\ calls[u].stage # "waiting"]
      BY <1>1 DEF Disconnect
    <3>3. CASE calls[u].stage = "woken" BY <3>2, <3>3, NoCallType DEF CallOK
    <3>4. CASE calls[u].stage # "woken"
      <4>1. calls'[u] = [calls[u] EXCEPT !.fresh = calls[u].fresh /\ calls[u].stage # "waiting"]
        BY <3>2, <3>4
      <4>2. calls'[u] \in CallType BY <3>1, <4>1 DEF CallType
      <4>3. CallOK(calls'[u], Active') BY <2>1, <3>1, <4>1 DEF CallType, CallOK
      <4>4. [NoCall EXCEPT !.fresh = TRUE] = NoCall
        <5>1. \A c \in CallType : c.fresh => [c EXCEPT !.fresh = TRUE] = c
          BY DEF CallType
        <5>2. NoCall.fresh BY DEF NoCall
        <5> QED BY <5>1, <5>2, NoCallType
      <4>5. calls[u] = NoCall => calls'[u] = [NoCall EXCEPT !.fresh = TRUE]
        <5>1. NoCall.fresh = TRUE /\ NoCall.stage # "waiting" BY DEF NoCall
        <5> QED BY <4>1, <5>1
      <4> QED BY <4>2, <4>3, <4>4, <4>5
    <3> QED BY <3>3, <3>4
  <2>3. calls' \in [Users -> CallType] BY <1>1, <2>2 DEF Disconnect
  <2>4. links' \in [Clients -> {"new", "dialling", "open", "closed"}]
    BY <1>1, ClosedTypes DEF Disconnect, Types
  <2>5. calls'["refresh"] # NoCall => refreshing'
    BY <1>1, <2>2, Names DEF Disconnect, Types, listing
  <2> QED BY <1>1, <2>1, <2>2, <2>3, <2>4, <2>5 DEF Disconnect, Types, options, listing
<1>2. CASE CloseTransport
  <2>1. links' \in [Clients -> {"new", "dialling", "open", "closed"}]
    BY <1>2, ClosedTypes DEF CloseTransport, Types
  <2> QED BY <1>2, <2>1 DEF CloseTransport, Types, Active, options, listing
<1>3. CASE Disconnected
  BY <1>3 DEF Disconnected, Types, Active, options, listing
<1> QED BY <1>1, <1>2, <1>3

LEMMA ServerTypes ==
  ASSUME Types,
         ServerChanges \/ NotificationLost \/ (\E c \in Clients : Break(c))
           \/ HandleToolsChanged
  PROVE  Types'
<1>1. CASE ServerChanges
  BY <1>1 DEF ServerChanges, Types, Active, options, connection, listing
<1>2. CASE NotificationLost
  BY <1>2 DEF NotificationLost, Types, Active, options, connection, listing
<1>3. CASE \E c \in Clients : Break(c)
  BY <1>3 DEF Break, Types, Active, options, listing
<1>4. CASE HandleToolsChanged
  BY <1>4 DEF HandleToolsChanged, Types, Active, options, connection
<1> QED BY <1>1, <1>2, <1>3, <1>4

(* An answer of the server, and what listing makes of it.                     *)
LEMMA ListTypes ==
  ASSUME Types, NEW u \in Users,
         Answer(u) \/ ListTools(u) \/ (u = "agent" /\ RegisterTools)
           \/ (u = "refresh" /\ ReplaceTools)
  PROVE  Types'
<1>1. calls[u] \in CallType /\ CallOK(calls[u], Active) BY DEF Types
<1>2. CASE Answer(u)
  <2> DEFINE call == [calls[u] EXCEPT !.stage = "answered", !.answer = server]
  <2>1. call \in CallType /\ CallOK(call, Active)
    BY <1>1, <1>2 DEF CallType, CallOK, Answer, Types
  <2>2. calls' = [calls EXCEPT ![u] = call]
    BY <1>2 DEF Answer
  <2> HIDE DEF call
  <2>3. /\ calls' \in [Users -> CallType] /\ calls'[u] = call
        /\ \A v \in Users : v # u => calls'[v] = calls[v]
    BY <2>1, <2>2, OneCall
  <2>4. calls["refresh"] = NoCall => calls'["refresh"] = NoCall
    BY <1>2, <2>3, Names, NoCallType DEF Answer
  <2>5. \A v \in Users : CallOK(calls'[v], Active)
    BY <2>1, <2>3 DEF Types
  <2> QED BY <1>2, <2>3, <2>4, <2>5 DEF Answer, Types, Active, options, connection, listing
<1>3. ASSUME Baseline(u), Listed(u) PROVE
        /\ calls' \in [Users -> CallType] /\ calls'[u] = NoCall
        /\ \A v \in Users : v # u => calls'[v] = calls[v]
        /\ Active' = Active /\ \A v \in Users : CallOK(calls'[v], Active')
        /\ registered' \subseteq Tools /\ List(u) \subseteq Tools
        /\ calls["refresh"] = NoCall => calls'["refresh"] = NoCall
  <2>1. /\ calls' \in [Users -> CallType] /\ calls'[u] = NoCall
        /\ \A v \in Users : v # u => calls'[v] = calls[v]
    BY <1>3, NoCallType, OneCall DEF Baseline
  <2>2. Active' = Active BY <1>3 DEF Baseline, connection, Active
  <2>3. \A v \in Users : CallOK(calls'[v], Active')
    BY <2>1, <2>2, NoCallType DEF Types, CallOK
  <2>4. List(u) \subseteq Tools BY <1>1 DEF List, CallType
  <2>5. registered' \subseteq Tools BY <1>3, <2>4 DEF Baseline, Types
  <2>6. calls["refresh"] = NoCall => calls'["refresh"] = NoCall BY <2>1, Names
  <2> QED BY <2>1, <2>2, <2>3, <2>4, <2>5, <2>6
<1>4. CASE ListTools(u)
  BY <1>3, <1>4 DEF ListTools, Baseline, Types, options, connection
<1>5. CASE u = "agent" /\ RegisterTools
  BY <1>3, <1>5 DEF RegisterTools, Baseline, Types, options, connection
<1>6. CASE u = "refresh" /\ ReplaceTools
  BY <1>3, <1>6 DEF ReplaceTools, Baseline, Types, options, connection
<1> QED BY <1>2, <1>4, <1>5, <1>6

LEMMA NextTypes == Types /\ [Next]_vars => Types'
<1> SUFFICES ASSUME Types, [Next]_vars PROVE Types'
  OBVIOUS
<1>1. ASSUME NEW u \in Callers, Call(u) PROVE Types'
  <2>1. PICK reconnect \in BOOLEAN, lists \in BOOLEAN : Connect(u, reconnect, lists)
    BY <1>1 DEF Call
  <2>2. u # "refresh" /\ UNCHANGED listing BY <1>1, McpAssumption DEF Call
  <2> QED BY <2>1, <2>2, Names, ConnectTypes
<1>2. ASSUME NEW u \in Users, Reconnect(u) PROVE Types'
  <2>1. u = "refresh" => refreshing
    BY <1>2, NoCallType DEF Reconnect, Types
  <2> QED BY <1>2, <2>1, StartTypes DEF Reconnect
<1>3. CASE Initialize \/ Refresh
  BY <1>3, Names, ConnectTypes DEF Initialize, Refresh
<1>4. ASSUME NEW u \in Users, Leave(u) \/ RequestFails(u) PROVE Types'
  BY <1>4, ThrowTypes DEF Leave, RequestFails
<1>5. CASE UNCHANGED vars
  BY <1>5 DEF vars, options, connection, listing, Types, Active
<1> QED BY <1>1, <1>2, <1>3, <1>4, <1>5, Names, AttemptTypes, DisconnectTypes, ServerTypes,
           ListTypes DEF Next

(* The state has its types, the shared promise is that of an attempt under    *)
(* way, and whoever waits waits for one that will settle.                     *)
THEOREM TypeCorrect == Spec => []TypeOK
<1>1. Spec => []Types
  BY InitTypes, NextTypes, PTL DEF Spec
<1> QED BY <1>1, TypesGive, PTL

-----------------------------------------------------------------------------
(* What a disconnect ends.                                                    *)

(* A client that is connected, or will be by an attempt that is not outdated, *)
(* was asked for since the last disconnect.                                   *)
Asked ==
  /\ state = "connected" => asked
  /\ \A a \in Active : attempts[a].fresh => asked
  /\ \A u \in Users :
       calls[u].stage = "woken" \/ (calls[u].stage = "waiting" /\ calls[u].fresh) => asked

(* Where attempts and disconnects have not overlapped there is one attempt at *)
(* most, none but the present client can be open, and not while the client    *)
(* connects, disconnects or is disconnected.                                  *)
Alone ==
  ~overlapped =>
    /\ \A a, b \in Active : a = b
    /\ Open \subseteq {client}
    /\ Active # {} \/ closing # "no" \/ state # "connected" => Open = {}
    /\ \A a \in Active : /\ attempts[a].stage = "dialling" => attempts[a].to = client
                         /\ closing # "no" => ~attempts[a].fresh

LEMMA InitAsked == Init => Asked /\ Alone
<1> SUFFICES ASSUME Init PROVE Asked /\ Alone
  OBVIOUS
<1>1. Active = {} /\ Open = {} /\ state = "disconnected"
  BY DEF Init, Active, NoAttempt, Open
<1>2. \A u \in Users : calls[u].stage = "idle"
  BY NoCallType DEF Init
<1> QED BY <1>1, <1>2 DEF Asked, Alone

LEMMA SettleAsked ==
  ASSUME Types, Asked, NEW a \in Attempts, NEW ok, NEW st, Settle(a, ok, st),
         st = "connected" => asked
  PROVE  Asked'
<1>1. Woken(a, ok, st) BY DEF Settle
<1>2. asked' = asked /\ state' = st /\ attempts' = [attempts EXCEPT ![a] = NoAttempt]
  BY <1>1 DEF Woken
<1>3. ASSUME NEW b \in Active', attempts'[b].fresh PROVE asked'
  <2>1. b \in Active /\ attempts'[b] = attempts[b]
    BY <1>2 DEF Active, NoAttempt, Types
  <2> QED BY <1>2, <1>3, <2>1 DEF Asked
<1>4. ASSUME NEW u \in Users,
             calls'[u].stage = "woken" \/ (calls'[u].stage = "waiting" /\ calls'[u].fresh)
      PROVE  asked'
  <2>1. calls[u] \in CallType BY DEF Types
  <2>2. CASE calls'[u] = NoCall BY <1>4, <2>2, NoCallType
  <2>3. CASE calls[u].stage = "waiting" /\ calls[u].fresh BY <1>2, <2>3 DEF Asked
  <2>4. CASE calls'[u] = calls[u] BY <1>2, <1>4, <2>4 DEF Asked
  <2> QED BY <1>1, <2>2, <2>3, <2>4, WokenCalls
<1> QED BY <1>2, <1>3, <1>4 DEF Asked

LEMMA SettleAlone ==
  ASSUME Types, Alone, NEW a \in Active, NEW ok, NEW st, Settle(a, ok, st),
         ~overlapped /\ Active = {a} /\ Open = {} =>
           /\ Open' \subseteq {client}
           /\ closing # "no" \/ st # "connected" => Open' = {}
  PROVE  Alone'
<1>1. /\ attempts' = [attempts EXCEPT ![a] = NoAttempt] /\ state' = st
      /\ UNCHANGED <<client, closing, overlapped>>
  BY DEF Settle, Woken
<1> SUFFICES ASSUME ~overlapped' PROVE Alone'
  BY DEF Alone
<1>2. ~overlapped BY <1>1
<1>3. Active = {a} /\ Open = {} BY <1>2 DEF Alone
<1>4. Active' = {} BY <1>1, <1>3 DEF Active, NoAttempt, Types
<1> QED BY <1>1, <1>2, <1>3, <1>4 DEF Alone

LEMMA AttemptAsked ==
  ASSUME Types, Asked, Alone, NEW a \in Attempts,
         Left(a) \/ RebuildForRetry(a) \/ Dial(a) \/ DialInVain(a) \/ Accept(a) \/ Refuse(a)
  PROVE  Asked' /\ Alone'
<1>1. a \in Active
  BY DEF Left, RebuildForRetry, Dial, DialInVain, Accept, Refuse, Active
<1>2. client \in Clients /\ links \in [Clients -> {"new", "dialling", "open", "closed"}]
      /\ attempts[a] \in AttemptType
  BY DEF Types
<1>3. ASSUME NEW ls \in [Clients -> {"new", "dialling", "open", "closed"}], NEW c
      PROVE  \A x \in Clients : Closed(ls, c)[x] = "open" => ls[x] = "open" /\ x # c
  BY DEF Closed
(* A step of the attempt that is not its last.                                *)
<1>4. ASSUME NEW at \in AttemptType, attempts' = [attempts EXCEPT ![a] = at],
             at.stage # "idle", at.fresh = attempts[a].fresh,
             at.stage = "dialling" => at.to = client',
             state' = "connected" => state = "connected", Open' \subseteq Open,
             UNCHANGED <<calls, closing, asked, overlapped>>
      PROVE  Asked' /\ Alone'
  <2>1. Active' = Active /\ attempts'[a] = at
        /\ \A b \in Active : attempts'[b].fresh = attempts[b].fresh
    BY <1>1, <1>4 DEF Active, Types
  <2>2. Asked' BY <1>4, <2>1 DEF Asked
  <2>3. ASSUME ~overlapped' PROVE Active = {a} /\ Open' = {}
    BY <1>1, <1>4, <2>3 DEF Alone
  <2>4. Alone' BY <1>1, <1>4, <2>1, <2>3 DEF Alone
  <2> QED BY <2>2, <2>4
<1>5. CASE Left(a)
  <2>1. CASE attempts[a].fresh
    <3> DEFINE at == [attempts[a] EXCEPT !.stage = "rebuilding"]
    <3>1. at \in AttemptType /\ at.stage = "rebuilding" /\ at.fresh = attempts[a].fresh
      BY <1>2 DEF AttemptType
    <3>2. attempts' = [attempts EXCEPT ![a] = at] /\ state' = "disconnected"
          /\ UNCHANGED <<calls, closing, asked, overlapped, links>>
      BY <1>5, <2>1 DEF Left
    <3>3. Open' \subseteq Open BY <3>2 DEF Open
    <3> HIDE DEF at
    <3> QED BY <1>4, <3>1, <3>2, <3>3
  <2>2. CASE ~attempts[a].fresh
    <3>1. Settle(a, FALSE, state) /\ links' = links BY <1>5, <2>2 DEF Left
    <3>2. Open' = Open BY <3>1 DEF Open
    <3>3. Asked' BY <3>1, SettleAsked DEF Asked
    <3>4. Alone' BY <1>1, <3>1, <3>2, SettleAlone
    <3> QED BY <3>3, <3>4
  <2> QED BY <2>1, <2>2
<1>6. CASE RebuildForRetry(a)
  <2> DEFINE at == [attempts[a] EXCEPT !.stage = "ready"]
  <2>1. at \in AttemptType /\ at.stage = "ready" /\ at.fresh = attempts[a].fresh
    BY <1>2 DEF AttemptType
  <2>2. attempts' = [attempts EXCEPT ![a] = at] /\ UNCHANGED <<state, calls, closing, asked, overlapped>>
    BY <1>6 DEF RebuildForRetry, history
  <2>3. Open' \subseteq Open BY <1>2, <1>6 DEF RebuildForRetry, Open, Unused
  <2> HIDE DEF at
  <2> QED BY <1>4, <2>1, <2>2, <2>3
<1>7. CASE Dial(a)
  <2> DEFINE at == [attempts[a] EXCEPT !.stage = "dialling", !.to = client]
  <2>1. at \in AttemptType /\ at.stage = "dialling" /\ at.fresh = attempts[a].fresh
        /\ at.to = client
    BY <1>2 DEF AttemptType
  <2>2. attempts' = [attempts EXCEPT ![a] = at]
        /\ UNCHANGED <<state, client, calls, closing, asked, overlapped>>
    BY <1>7 DEF Dial, history
  <2>3. Open' \subseteq Open BY <1>2, <1>7 DEF Dial, Open
  <2> HIDE DEF at
  <2> QED BY <1>4, <2>1, <2>2, <2>3
(* Its last step.                                                             *)
<1>8. ASSUME NEW ok, NEW st, Settle(a, ok, st), st = "connected" => state = "connected",
             Open = {} => Open' = {}
      PROVE  Asked' /\ Alone'
  <2>1. Asked' BY <1>8, SettleAsked DEF Asked
  <2>2. Alone' BY <1>1, <1>8, SettleAlone
  <2> QED BY <2>1, <2>2
<1>9. ASSUME Fails(a), Open = {} => Open' = {} PROVE Asked' /\ Alone'
  <2>1. Settle(a, TRUE, "failed") \/ Settle(a, FALSE, state) BY <1>9 DEF Fails
  <2> QED BY <1>8, <1>9, <2>1
<1>10. CASE DialInVain(a)
  <2>1. Open = {} => Open' = {}
    <3>1. links' = links \/ links' = Closed(links, client) BY <1>10 DEF DialInVain
    <3> QED BY <1>2, <1>3, <3>1 DEF Open
  <2> QED BY <1>8, <1>9, <1>10, <2>1 DEF DialInVain
<1>11. CASE Accept(a)
  <2> DEFINE opened == [links EXCEPT ![attempts[a].to] = "open"]
  <2>1. opened \in [Clients -> {"new", "dialling", "open", "closed"}]
    BY <1>2
  <2>2. CASE attempts[a].fresh
    <3>1. Settle(a, TRUE, "connected") /\ links' = opened BY <1>11, <2>2 DEF Accept
    <3>2. Asked' BY <1>1, <2>2, <3>1, SettleAsked DEF Asked
    <3>3. ASSUME ~overlapped, Open = {} PROVE Open' \subseteq {client} /\ closing = "no"
      <4>1. attempts[a].to = client /\ closing = "no"
        BY <1>1, <1>11, <2>2, <3>3 DEF Alone, Accept
      <4> QED BY <1>2, <3>1, <3>3, <4>1 DEF Open
    <3>4. Alone' BY <1>1, <3>1, <3>3, SettleAlone
    <3> QED BY <3>2, <3>4
  <2>3. CASE ~attempts[a].fresh
    <3>1. Settle(a, FALSE, state) /\ links' = Closed(opened, client)
      BY <1>11, <2>3 DEF Accept
    <3>2. Asked' BY <3>1, SettleAsked DEF Asked
    <3>3. ASSUME ~overlapped, Open = {} PROVE Open' = {}
      <4>1. attempts[a].to = client
        BY <1>1, <1>11, <3>3 DEF Alone, Accept
      <4>2. \A x \in Clients : x # client => opened[x] # "open"
        BY <1>2, <3>3, <4>1 DEF Open
      <4> QED BY <1>3, <2>1, <3>1, <4>2 DEF Open
    <3>4. Alone' BY <1>1, <3>1, <3>3, SettleAlone
    <3> QED BY <3>2, <3>4
  <2> QED BY <2>2, <2>3
<1>12. CASE Refuse(a)
  <2> DEFINE refused == Closed(links, attempts[a].to)
  <2>1. refused \in [Clients -> {"new", "dialling", "open", "closed"}]
    BY <1>2 DEF Closed
  <2>2. Open = {} => Open' = {}
    <3>1. links' = refused \/ links' = Closed(refused, client) BY <1>12 DEF Refuse
    <3>2. \A x \in Clients : refused[x] = "open" => links[x] = "open" BY <1>2, <1>3
    <3> HIDE DEF refused
    <3> QED BY <1>3, <2>1, <3>1, <3>2 DEF Open
  <2> QED BY <1>8, <1>9, <1>12, <2>2 DEF Refuse
<1> QED BY <1>5, <1>6, <1>7, <1>10, <1>11, <1>12

LEMMA StartAsked ==
  ASSUME Types, Asked, Alone, NEW u \in Users, NEW reconnect \in BOOLEAN,
         NEW lists \in BOOLEAN, StartAttempt(u, reconnect, lists),
         state = "disconnected" \/ reconnect, asked',
         UNCHANGED <<state, client, closing>>
  PROVE  Asked' /\ Alone'
<1>1. PICK a \in Attempts \ Active :
        /\ IF state = "connected" /\ reconnect
           THEN /\ attempts' = [attempts EXCEPT ![a].stage = "leaving"]
                /\ links' = Closed(links, client)
           ELSE /\ attempts' = [attempts EXCEPT ![a].stage = "rebuilding"]
                /\ UNCHANGED links
  BY DEF StartAttempt
<1>2. overlapped' = (Active # {} \/ closing # "no" \/ (overlapped /\ Leaked # {}))
  BY DEF StartAttempt
<1>3. Asked' BY DEF Asked
<1>4. ASSUME ~overlapped' PROVE Active = {} /\ closing = "no" /\ Open' = {}
  <2>1. Active = {} /\ closing = "no" /\ (overlapped => Leaked = {})
    BY <1>2, <1>4
  <2>2. state # "connected" => Open = {}
    BY <2>1 DEF Alone, Leaked
  <2>3. state = "connected" => Open \subseteq {client} /\ links' = Closed(links, client)
    BY <1>1, <2>1 DEF Alone, Leaked
  <2>4. CASE state = "connected"
    BY <2>1, <2>3, <2>4 DEF Open, Closed, Types
  <2>5. CASE state # "connected"
    BY <1>1, <2>1, <2>2, <2>5 DEF Open
  <2> QED BY <2>1, <2>4, <2>5
<1>5. ASSUME ~overlapped' PROVE Active' = {a} /\ attempts'[a].stage # "dialling"
  BY <1>1, <1>4, <1>5 DEF Active, Types, AttemptType
<1>6. Alone' BY <1>4, <1>5 DEF Alone
<1> QED BY <1>3, <1>6

LEMMA ConnectAsked ==
  ASSUME Types, Asked, Alone, NEW u \in Users, NEW reconnect \in BOOLEAN,
         NEW lists \in BOOLEAN, Connect(u, reconnect, lists)
  PROVE  Asked' /\ Alone'
<1>1. asked' /\ UNCHANGED <<state, client, closing>>
  BY DEF Connect
<1>2. CASE (state = "disconnected" \/ reconnect) /\ StartAttempt(u, reconnect, lists)
  BY <1>1, <1>2, StartAsked
<1>3. CASE UNCHANGED <<shared, attempts, links, overlapped>>
  <2>1. Active' = Active /\ Open' = Open BY <1>3 DEF Active, Open
  <2> QED BY <1>1, <1>3, <2>1 DEF Asked, Alone
<1> QED BY <1>2, <1>3 DEF Connect

LEMMA DisconnectAsked ==
  ASSUME Types, Asked, Alone, Disconnect \/ CloseTransport \/ Disconnected
  PROVE  Asked' /\ Alone'
<1>1. CASE Disconnect
  <2>1. state' = "disconnected" /\ UNCHANGED <<client, overlapped>>
    BY <1>1 DEF Disconnect
  <2>2. /\ Active' = Active
        /\ \A a \in Active : /\ ~attempts'[a].fresh
                             /\ attempts'[a].stage = attempts[a].stage
                             /\ attempts'[a].to = attempts[a].to
    BY <1>1 DEF Disconnect, Types, AttemptType, Active
  <2>3. ASSUME NEW u \in Users
        PROVE  /\ calls'[u].stage # "woken"
               /\ ~(calls'[u].stage = "waiting" /\ calls'[u].fresh)
    <3>1. calls[u] \in CallType BY DEF Types
    <3>2. CASE calls[u].stage = "woken"
      BY <1>1, <3>2, NoCallType DEF Disconnect
    <3>3. CASE calls[u].stage # "woken"
      <4>1. calls'[u] = [calls[u] EXCEPT !.fresh = calls[u].fresh /\ calls[u].stage # "waiting"]
        BY <1>1, <3>3 DEF Disconnect
      <4> QED BY <3>1, <3>3, <4>1 DEF CallType
    <3> QED BY <3>2, <3>3
  <2>4. Asked' BY <2>1, <2>2, <2>3 DEF Asked
  <2>5. ~overlapped => Open' = {}
    BY <1>1 DEF Alone, Disconnect, Open, Closed, Types
  <2>6. Alone' BY <2>1, <2>2, <2>5 DEF Alone
  <2> QED BY <2>4, <2>6
<1>2. CASE CloseTransport
  <2>1. Open' \subseteq Open /\ Active' = Active
    BY <1>2 DEF CloseTransport, Open, Closed, Active, Types
  <2>2. UNCHANGED <<state, attempts, client, calls, asked, overlapped>> /\ closing # "no"
    BY <1>2 DEF CloseTransport, history
  <2> QED BY <2>1, <2>2 DEF Asked, Alone
<1>3. CASE Disconnected
  <2>1. /\ UNCHANGED <<attempts, client, links, calls, asked, overlapped>>
        /\ closing = "transport" /\ closing' = "no" /\ state' = "disconnected"
    BY <1>3 DEF Disconnected, history
  <2>2. Open' = Open /\ Active' = Active BY <2>1 DEF Open, Active
  <2> QED BY <2>1, <2>2 DEF Asked, Alone
<1> QED BY <1>1, <1>2, <1>3

(* A step that opens no connection and makes nobody wait.                     *)
LEMMA QuietAsked ==
  ASSUME Types, Asked, Alone, UNCHANGED <<state, attempts, client, closing, asked, overlapped>>,
         Open' \subseteq Open,
         \A u \in Users : calls'[u] = calls[u] \/ calls'[u].stage \in {"idle", "answered"}
  PROVE  Asked' /\ Alone'
<1>1. Active' = Active BY DEF Active
<1>2. Asked' BY <1>1 DEF Asked
<1>3. Alone' BY <1>1 DEF Alone
<1> QED BY <1>2, <1>3

LEMMA NextAsked == Types /\ Asked /\ Alone /\ [Next]_vars => Asked' /\ Alone'
<1> SUFFICES ASSUME Types, Asked, Alone, [Next]_vars PROVE Asked' /\ Alone'
  OBVIOUS
<1>1. ASSUME NEW u \in Callers, Call(u) PROVE Asked' /\ Alone'
  BY <1>1, Names, ConnectAsked DEF Call
<1>2. CASE Initialize \/ Refresh
  BY <1>2, Names, ConnectAsked DEF Initialize, Refresh
<1>3. ASSUME NEW u \in Users, Reconnect(u) PROVE Asked' /\ Alone'
  <2>1. asked' BY <1>3 DEF Reconnect, Asked
  <2> QED BY <1>3, <2>1, StartAsked DEF Reconnect
<1>4. ASSUME NEW u \in Users, calls' = [calls EXCEPT ![u] = NoCall],
             UNCHANGED <<connection, closing, asked, overlapped>>
      PROVE  Asked' /\ Alone'
  <2>1. Open' = Open BY <1>4 DEF connection, Open
  <2>2. \A v \in Users : calls'[v] = calls[v] \/ calls'[v].stage \in {"idle", "answered"}
    BY <1>4, NoCallType DEF Types
  <2> QED BY <1>4, <2>1, <2>2, QuietAsked DEF connection
<1>5. ASSUME NEW u \in Users, Leave(u) \/ RequestFails(u) PROVE Asked' /\ Alone'
  BY <1>4, <1>5 DEF Leave, RequestFails, Throw
<1>6. ASSUME NEW u \in Users, ListTools(u) PROVE Asked' /\ Alone'
  BY <1>4, <1>6 DEF ListTools, Baseline
<1>7. CASE RegisterTools \/ ReplaceTools
  BY <1>4, <1>7, Names DEF RegisterTools, ReplaceTools, Baseline
<1>8. ASSUME NEW u \in Users, Answer(u) PROVE Asked' /\ Alone'
  <2>1. Open' = Open BY <1>8 DEF Answer, connection, Open
  <2>2. \A v \in Users : calls'[v] = calls[v] \/ calls'[v].stage \in {"idle", "answered"}
    BY <1>8 DEF Answer, Types, CallType
  <2> QED BY <1>8, <2>1, <2>2, QuietAsked DEF Answer, connection, history
<1>9. CASE ServerChanges \/ NotificationLost \/ HandleToolsChanged \/ UNCHANGED vars
  <2>1. UNCHANGED <<connection, closing, calls, asked, overlapped>>
    BY <1>9 DEF ServerChanges, NotificationLost, HandleToolsChanged, vars, history
  <2>2. Open' = Open BY <2>1 DEF connection, Open
  <2> QED BY <2>1, <2>2, QuietAsked DEF connection
<1>10. ASSUME NEW c \in Clients, Break(c) PROVE Asked' /\ Alone'
  <2>1. Open' \subseteq Open BY <1>10 DEF Break, Open, Types
  <2> QED BY <1>10, <2>1, QuietAsked DEF Break, history
<1> QED BY <1>1, <1>2, <1>3, <1>5, <1>6, <1>7, <1>8, <1>9, <1>10, Names, AttemptAsked,
           DisconnectAsked DEF Next

(* An attempt that was under way when the client was disconnected does not    *)
(* connect it afterwards, nor leave a connection open that nobody would       *)
(* close, unless attempts and disconnects were started side by side.          *)
THEOREM DisconnectIsHeld == Spec => []DisconnectHolds
<1>1. Spec => [](Types /\ Asked /\ Alone)
  <2>1. Init => Types /\ Asked /\ Alone BY InitTypes, InitAsked
  <2>2. Types /\ Asked /\ Alone /\ [Next]_vars => (Types /\ Asked /\ Alone)'
    BY NextTypes, NextAsked
  <2> QED BY <2>1, <2>2, PTL DEF Spec
<1>2. Asked /\ Alone => DisconnectHolds
  BY DEF Asked, Alone, DisconnectHolds, Leaked
<1> QED BY <1>1, <1>2, PTL

-----------------------------------------------------------------------------
(* What the agent has of the server's tools.                                  *)

(* The answer on its way to u is not what the server would say now.           *)
Outdated(u) ==
  calls[u].stage = "answered" /\ calls[u].on \in Open /\ calls[u].answer # server

(* Whatever the agent lacks, something is on its way that will say so: a      *)
(* notification, a round of the refresh that is yet to list, or a refresh     *)
(* that has not listed - unless it was missed.  A refresh takes off the       *)
(* registry what the agent registered.                                        *)
Following ==
  /\ ~initialized => registry = {}
  /\ initialized => calls["agent"] = NoCall
  /\ relisted = "no" /\ refreshing => old = registered
  /\ relisted = "no" /\ initialized => registry \subseteq registered
  /\ \A u \in Users : calls[u].stage = "answered" /\ calls[u].on \in Clients =>
                       links[calls[u].on] \in {"open", "closed"}
  /\ Outdated("refresh") => notified \/ again
  /\ Outdated("agent") => notified \/ missed \/ refreshing
  /\ initialized /\ relisted = "no" /\ registry # {server} =>
       notified \/ missed \/ refreshing

LEMMA InitFollowing == Init => Following
<1> SUFFICES ASSUME Init PROVE Following
  OBVIOUS
<1>1. \A u \in Users : calls[u].stage = "idle"
  BY NoCallType DEF Init
<1> QED BY <1>1, Names DEF Init, Following, Outdated

(* The connections an answer may have come on stay open or closed, and none   *)
(* that was closed is open again.                                             *)
LinksHold ==
  \A c \in Clients : links[c] \in {"open", "closed"} /\ (\E u \in Users : calls[u].on = c) =>
    links'[c] \in {"open", "closed"} /\ (links'[c] = "open" => links[c] = "open")

(* The calls that are answered have been so before.                           *)
AnswersHold ==
  \A u \in Users : calls'[u].stage = "answered" /\ calls'[u].on \in Clients =>
    /\ calls[u].stage = "answered"
    /\ calls'[u].on = calls[u].on /\ calls'[u].answer = calls[u].answer

(* Steps in which the server says nothing and nothing is listed.              *)
LEMMA ConnectionFollowing ==
  ASSUME Types, Following, LinksHold, AnswersHold,
         UNCHANGED <<server, notified, registered, registry, initialized, relisted>>,
         \/ /\ calls'["refresh"] = NoCall /\ missed'
            /\ refreshing' = FALSE
         \/ /\ refreshing' = refreshing /\ again' = again /\ old' = old
            /\ missed => missed' \/ refreshing' \/ (~initialized /\ calls["agent"] = NoCall),
         initialized => calls'["agent"] = NoCall
  PROVE  Following'
<1>1. ASSUME NEW u \in Users, calls'[u].stage = "answered", calls'[u].on \in Clients
      PROVE  /\ calls[u].stage = "answered" /\ calls[u].on \in Clients
             /\ calls'[u].on = calls[u].on /\ calls'[u].answer = calls[u].answer
             /\ links'[calls'[u].on] \in {"open", "closed"}
             /\ links'[calls'[u].on] = "open" => links[calls[u].on] = "open"
  <2>1. /\ calls[u].stage = "answered" /\ calls[u].on \in Clients
        /\ calls'[u].on = calls[u].on /\ calls'[u].answer = calls[u].answer
    BY <1>1 DEF AnswersHold
  <2>2. links[calls[u].on] \in {"open", "closed"} BY <2>1 DEF Following
  <2> QED BY <2>1, <2>2 DEF LinksHold
<1>2. ASSUME NEW u \in Users, Outdated(u)'
      PROVE  Outdated(u)
  <2>1. calls'[u].stage = "answered" /\ calls'[u].on \in Clients
        /\ links'[calls'[u].on] = "open"
    BY <1>2 DEF Outdated, Open
  <2> QED BY <1>1, <1>2, <2>1 DEF Outdated, Open
<1>3. Outdated("refresh")' => notified' \/ again'
  <2>1. calls'["refresh"] = NoCall => ~Outdated("refresh")' BY NoCallType DEF Outdated
  <2> QED BY <1>2, <2>1, Names DEF Following
<1>4. Outdated("agent")' => notified' \/ missed' \/ refreshing'
  <2>1. calls["agent"] = NoCall => ~Outdated("agent") BY NoCallType DEF Outdated
  <2> QED BY <1>2, <2>1, Names DEF Following
<1>5. initialized' /\ relisted' = "no" /\ registry' # {server'} =>
        notified' \/ missed' \/ refreshing'
  BY DEF Following
<1>6. relisted' = "no" /\ refreshing' => old' = registered'
  BY DEF Following
<1> QED BY <1>1, <1>3, <1>4, <1>5, <1>6 DEF Following

LEMMA ClosedHolds ==
  ASSUME NEW ls \in [Clients -> {"new", "dialling", "open", "closed"}], NEW x \in Clients,
         NEW c
  PROVE  /\ ls[x] \in {"open", "closed"} => Closed(ls, c)[x] \in {"open", "closed"}
         /\ Closed(ls, c)[x] = "open" => ls[x] = "open"
BY DEF Closed

LEMMA AfterConnectFollowing ==
  ASSUME Types, Following, NEW u \in Users, NEW reconnect \in BOOLEAN, NEW lists \in BOOLEAN,
         Connect(u, reconnect, lists), UNCHANGED listing, u = "agent" => ~initialized,
         missed => missed' \/ refreshing \/ (~initialized /\ calls["agent"] = NoCall)
  PROVE  Following'
<1>1. UNCHANGED <<server, notified, relisted>> /\ calls[u] = NoCall BY DEF Connect
<1>2. LinksHold
  <2>1. links' = links \/ links' = Closed(links, client) BY DEF Connect, StartAttempt
  <2> QED BY <2>1, ClosedHolds DEF LinksHold, Types
<1>3. /\ \A v \in Users : v # u => calls'[v] = calls[v]
      /\ ~(calls'[u].stage = "answered" /\ calls'[u].on \in Clients)
  <2>1. ASSUME NEW call, calls' = [calls EXCEPT ![u] = call],
               ~(call.stage = "answered" /\ call.on \in Clients)
        PROVE  <1>3!1 /\ <1>3!2
    BY <2>1 DEF Types
  <2> DEFINE later(a, r) ==
        [NoCall EXCEPT !.stage = "waiting", !.on = a, !.retry = r, !.lists = lists]
             now(a) == [NoCall EXCEPT !.stage = "waiting", !.on = a, !.lists = lists]
  <2>2. \A a, r : later(a, r).stage # "answered" /\ now(a).stage # "answered"
    BY DEF NoCall
  <2>4. ~(AfterConnect(lists, state).stage = "answered"
            /\ AfterConnect(lists, state).on \in Clients)
    BY AfterConnectIs, Names
  <2>5. \/ calls' = [calls EXCEPT ![u] = later(shared, reconnect)]
        \/ calls' = [calls EXCEPT ![u] = AfterConnect(lists, state)]
        \/ \E a \in Attempts : calls' = [calls EXCEPT ![u] = now(a)]
    BY DEF Connect, StartAttempt
  <2> HIDE DEF later, now
  <2> QED BY <2>1, <2>2, <2>4, <2>5
<1>4. AnswersHold BY <1>3 DEF AnswersHold
<1>5. initialized => calls'["agent"] = NoCall
  BY <1>3, Names DEF Following
<1> QED BY <1>1, <1>2, <1>4, <1>5, ConnectionFollowing DEF listing

LEMMA ReconnectFollowing ==
  ASSUME Types, Following, NEW u \in Users, Reconnect(u)
  PROVE  Following'
<1>1. calls[u].stage = "woken" BY DEF Reconnect
<1>2. PICK a \in Attempts : calls' = [calls EXCEPT
         ![u] = [NoCall EXCEPT !.stage = "waiting", !.on = a, !.lists = FALSE]]
  BY DEF Reconnect, StartAttempt
<1> DEFINE now == [NoCall EXCEPT !.stage = "waiting", !.on = a, !.lists = FALSE]
<1>3. now.stage # "answered" BY DEF NoCall
<1> HIDE DEF now
<1>4. calls' = [calls EXCEPT ![u] = now] BY <1>2 DEF now
<1>5. AnswersHold BY <1>3, <1>4 DEF AnswersHold, Types
<1>6. LinksHold
  <2>1. links' = links \/ links' = Closed(links, client) BY DEF Reconnect, StartAttempt
  <2> QED BY <2>1, ClosedHolds DEF LinksHold, Types
<1>7. initialized => calls'["agent"] = NoCall
  BY <1>1, <1>4, Names, NoCallType DEF Following, Types
<1> QED BY <1>5, <1>6, <1>7, ConnectionFollowing DEF Reconnect, listing

LEMMA SettleFollowing ==
  ASSUME Types, Following, NEW a \in Attempts, NEW ok, NEW st, Settle(a, ok, st), LinksHold
  PROVE  Following'
<1>1. Woken(a, ok, st) BY DEF Settle
<1>2. ASSUME NEW u \in Users
      PROVE  /\ calls'[u].stage = "answered" /\ calls'[u].on \in Clients => calls'[u] = calls[u]
             /\ calls[u] = NoCall => calls'[u] = NoCall
  <2>1. calls[u] \in CallType /\ calls[u].lists \in BOOLEAN BY DEF Types, CallType
  <2>2. calls[u] = NoCall => calls[u].stage # "waiting" BY NoCallType
  <2>3. [NoCall EXCEPT !.stage = "woken", !.retry = TRUE].stage # "answered" BY DEF NoCall
  <2>4. ~(/\ AfterConnect(calls[u].lists, st).stage = "answered"
          /\ AfterConnect(calls[u].lists, st).on \in Clients)
    BY <2>1, AfterConnectIs, Names
  <2>5. NoCall.stage # "answered" BY NoCallType
  <2>6. CASE calls[u].stage = "waiting" /\ calls[u].on = a
    <3>1. CASE calls'[u] = NoCall BY <2>2, <2>5, <2>6, <3>1
    <3>2. CASE calls'[u] = [NoCall EXCEPT !.stage = "woken", !.retry = TRUE]
      BY <2>2, <2>3, <2>6, <3>2
    <3>3. CASE calls'[u] = AfterConnect(calls[u].lists, st)
      BY <2>2, <2>4, <2>6, <3>3
    <3> QED BY <1>1, <2>6, <3>1, <3>2, <3>3, WokenCalls
  <2>7. CASE ~(calls[u].stage = "waiting" /\ calls[u].on = a)
    <3>1. calls'[u] = calls[u] BY <1>1, <2>7, WokenCalls
    <3> QED BY <3>1
  <2> QED BY <2>6, <2>7
<1>3. AnswersHold BY <1>2 DEF AnswersHold
<1>4. initialized => calls'["agent"] = NoCall BY <1>2, Names DEF Following
<1>5. UNCHANGED <<server, notified, registered, registry, initialized, relisted>>
  BY <1>1 DEF Woken
<1> QED BY <1>1, <1>3, <1>4, <1>5, WokenRefresh, ConnectionFollowing

(* A step that changes neither a call nor the listing.                        *)
LEMMA LinksFollowing ==
  ASSUME Types, Following, LinksHold, UNCHANGED <<calls, server, notified, listing, missed, relisted>>
  PROVE  Following'
<1>1. AnswersHold BY DEF AnswersHold
<1>2. initialized => calls'["agent"] = NoCall BY DEF Following
<1> QED BY <1>1, <1>2, ConnectionFollowing DEF listing

LEMMA AttemptFollowing ==
  ASSUME Types, Following, NEW a \in Attempts,
         Left(a) \/ RebuildForRetry(a) \/ Dial(a) \/ DialInVain(a) \/ Accept(a) \/ Refuse(a)
  PROVE  Following'
<1>1. links \in [Clients -> {"new", "dialling", "open", "closed"}] /\ client \in Clients
  BY DEF Types
<1>2. links' = links => LinksHold BY DEF LinksHold
<1>3. ASSUME Fails(a), LinksHold PROVE Following'
  BY <1>3, SettleFollowing DEF Fails
<1>4. CASE Left(a)
  <2>1. links' = links BY <1>4 DEF Left
  <2>2. CASE attempts[a].fresh
    BY <1>2, <1>4, <2>1, <2>2, LinksFollowing DEF Left
  <2>3. CASE ~attempts[a].fresh
    BY <1>2, <1>4, <2>1, <2>3, SettleFollowing DEF Left
  <2> QED BY <2>2, <2>3
<1>5. CASE RebuildForRetry(a)
  <2>1. links' = links \/ (client' \in Unused /\ links' = [links EXCEPT ![client'] = "new"])
    BY <1>5 DEF RebuildForRetry
  <2>2. LinksHold BY <1>1, <1>2, <2>1 DEF LinksHold, Unused
  <2> QED BY <1>5, <2>2, LinksFollowing DEF RebuildForRetry, history
<1>6. CASE Dial(a)
  <2>1. /\ links' = [links EXCEPT ![client] = "dialling"]
        /\ links[client] = "new" \/ links[client] = "closed"
        /\ links[client] = "closed" => \A u \in Users : calls[u].on # client
    BY <1>6 DEF Dial, NoneLost
  <2>2. LinksHold BY <1>1, <2>1 DEF LinksHold
  <2> QED BY <1>6, <2>2, LinksFollowing DEF Dial, history
<1>7. CASE DialInVain(a)
  <2>1. links' = links \/ links' = Closed(links, client) BY <1>7 DEF DialInVain
  <2>2. LinksHold BY <1>1, <2>1, ClosedHolds DEF LinksHold
  <2> QED BY <1>3, <1>7, <2>2, SettleFollowing DEF DialInVain
<1>8. CASE Accept(a)
  <2> DEFINE opened == [links EXCEPT ![attempts[a].to] = "open"]
  <2>1. opened \in [Clients -> {"new", "dialling", "open", "closed"}]
        /\ links[attempts[a].to] = "dialling"
    BY <1>1, <1>8 DEF Accept
  <2>2. \A x \in Clients : links[x] \in {"open", "closed"} => opened[x] = links[x]
    BY <1>1, <2>1
  <2>3. links' = opened \/ links' = Closed(opened, client) BY <1>8 DEF Accept
  <2>4. LinksHold
    <3> HIDE DEF opened
    <3> QED BY <2>1, <2>2, <2>3, ClosedHolds DEF LinksHold
  <2>5. Settle(a, TRUE, "connected") \/ Settle(a, FALSE, state) BY <1>8 DEF Accept
  <2> QED BY <2>4, <2>5, SettleFollowing
<1>9. CASE Refuse(a)
  <2> DEFINE refused == Closed(links, attempts[a].to)
  <2>1. refused \in [Clients -> {"new", "dialling", "open", "closed"}]
        /\ \A x \in Clients :
              /\ links[x] \in {"open", "closed"} => refused[x] \in {"open", "closed"}
              /\ refused[x] = "open" => links[x] = "open"
    BY <1>1 DEF Closed
  <2>2. links' = refused \/ links' = Closed(refused, client) BY <1>9 DEF Refuse
  <2>3. LinksHold
    <3> HIDE DEF refused
    <3> QED BY <2>1, <2>2, ClosedHolds DEF LinksHold
  <2> QED BY <1>3, <1>9, <2>3, SettleFollowing DEF Refuse
<1> QED BY <1>4, <1>5, <1>6, <1>7, <1>8, <1>9

LEMMA DisconnectFollowing ==
  ASSUME Types, Following,
         Disconnect \/ CloseTransport \/ Disconnected \/ (\E c \in Clients : Break(c))
  PROVE  Following'
<1>1. links \in [Clients -> {"new", "dialling", "open", "closed"}] /\ client \in Clients
  BY DEF Types
<1>2. LinksHold
  <2>1. CASE links' = links BY <2>1 DEF LinksHold
  <2>2. CASE links' = Closed(links, client) BY <1>1, <2>2, ClosedHolds DEF LinksHold
  <2>3. ASSUME NEW c \in Clients, links' = [links EXCEPT ![c] = "closed"] PROVE LinksHold
    BY <1>1, <2>3 DEF LinksHold
  <2> QED BY <2>1, <2>2, <2>3 DEF Disconnect, CloseTransport, Disconnected, Break
<1>3. CASE CloseTransport \/ Disconnected \/ (\E c \in Clients : Break(c))
  BY <1>2, <1>3, LinksFollowing DEF CloseTransport, Disconnected, Break, history
<1>4. CASE Disconnect
  <2>1. ASSUME NEW u \in Users
        PROVE  /\ calls'[u].stage = "answered" =>
                    /\ calls[u].stage = "answered"
                    /\ calls'[u].on = calls[u].on /\ calls'[u].answer = calls[u].answer
               /\ calls[u] = NoCall => calls'[u] = NoCall
    <3>1. calls[u] \in CallType BY DEF Types
    <3>2. CASE calls[u].stage = "woken"
      BY <1>4, <3>2, NoCallType DEF Disconnect
    <3>3. CASE calls[u].stage # "woken"
      <4>1. calls'[u] = [calls[u] EXCEPT !.fresh = calls[u].fresh /\ calls[u].stage # "waiting"]
        BY <1>4, <3>3 DEF Disconnect
      <4>2. calls[u] = NoCall => calls'[u] = NoCall
        <5>1. \A c \in CallType : c.fresh => [c EXCEPT !.fresh = TRUE] = c
          BY DEF CallType
        <5>2. NoCall.fresh = TRUE /\ NoCall.stage # "waiting" BY DEF NoCall
        <5> QED BY <4>1, <5>1, <5>2, NoCallType
      <4> QED BY <3>1, <4>1, <4>2 DEF CallType
    <3> QED BY <3>2, <3>3
  <2>2. AnswersHold BY <2>1 DEF AnswersHold
  <2>3. initialized => calls'["agent"] = NoCall BY <2>1, Names DEF Following
  <2> QED BY <1>2, <1>4, <2>2, <2>3, ConnectionFollowing DEF Disconnect, listing
<1> QED BY <1>3, <1>4

LEMMA ThrowFollowing ==
  ASSUME Types, Following, NEW u \in Users, Throw(u)
  PROVE  Following'
<1>1. /\ calls'[u] = NoCall /\ \A v \in Users : v # u => calls'[v] = calls[v]
  BY DEF Throw, Types
<1>2. LinksHold /\ AnswersHold
  BY <1>1, NoCallType DEF LinksHold, AnswersHold, Throw, connection
<1>3. initialized => calls'["agent"] = NoCall BY <1>1, Names DEF Following
<1>4. refreshing \in BOOLEAN /\ again \in BOOLEAN BY DEF Types
<1>5. CASE u = "refresh"
  <2>1. calls'["refresh"] = NoCall /\ missed' /\ refreshing' = FALSE
    BY <1>1, <1>4, <1>5 DEF Throw, LeaveLoop
  <2> QED BY <1>2, <1>3, <2>1, ConnectionFollowing DEF Throw
<1>6. CASE u # "refresh"
  <2>1. refreshing' = refreshing /\ again' = again /\ old' = old /\ (missed => missed')
    BY <1>4, <1>6 DEF Throw, LeaveLoop
  <2> QED BY <1>2, <1>3, <2>1, ConnectionFollowing DEF Throw
<1> QED BY <1>5, <1>6

LEMMA ServerFollowing ==
  ASSUME Types, Following, ServerChanges \/ NotificationLost \/ HandleToolsChanged
  PROVE  Following'
<1>1. CASE ServerChanges
  <2>1. /\ notified' = (notified \/ Open # {}) /\ missed' = (missed \/ Open = {})
        /\ UNCHANGED <<links, calls, listing, relisted>>
    BY <1>1 DEF ServerChanges, connection
  <2>2. Open' = Open BY <2>1 DEF Open
  <2>3. \A u \in Users : Outdated(u)' => notified' BY <2>1, <2>2 DEF Outdated
  <2> QED BY <2>1, <2>3, Names DEF Following, listing
<1>2. CASE NotificationLost
  <2>1. missed' /\ Open = {} /\ UNCHANGED <<links, calls, server, listing, relisted>>
    BY <1>2 DEF NotificationLost, connection
  <2>2. \A u \in Users : ~Outdated(u)' BY <2>1 DEF Outdated, Open
  <2> QED BY <2>1, <2>2, Names DEF Following, listing
<1>3. CASE HandleToolsChanged
  <2>1. /\ refreshing' /\ again' = refreshing /\ old' = IF refreshing THEN old ELSE registered
        /\ UNCHANGED <<links, calls, server, registered, registry, initialized, missed, relisted>>
    BY <1>3 DEF HandleToolsChanged, connection, history
  <2>2. Outdated("refresh")' => again'
    <3>1. Outdated("refresh")' => calls["refresh"].stage = "answered"
      BY <2>1 DEF Outdated
    <3> QED BY <2>1, <3>1, NoCallType DEF Types
  <2> QED BY <2>1, <2>2, Names DEF Following
<1> QED BY <1>1, <1>2, <1>3

LEMMA AnswerFollowing ==
  ASSUME Types, Following, NEW u \in Users, Answer(u)
  PROVE  Following'
<1>1. /\ calls[u].stage = "listing" /\ calls[u].on \in Open
      /\ calls' = [calls EXCEPT ![u].stage = "answered", ![u].answer = server]
      /\ UNCHANGED <<links, server, notified, listing, missed, relisted>>
  BY DEF Answer, connection, history
<1>2. /\ calls'[u].answer = server /\ calls'[u].on = calls[u].on
      /\ \A v \in Users : v # u => calls'[v] = calls[v]
  BY <1>1 DEF Types, CallType
<1>3. Open' = Open BY <1>1 DEF Open
<1>4. ASSUME NEW v \in Users, Outdated(v)' PROVE Outdated(v)
  <2>1. v # u BY <1>1, <1>2, <1>4 DEF Outdated
  <2>2. calls'[v] = calls[v] BY <1>2, <2>1
  <2> QED BY <1>1, <1>3, <1>4, <2>2 DEF Outdated
<1>5. initialized => u # "agent" BY <1>1, NoCallType DEF Following
<1>6. ASSUME NEW v \in Users, calls'[v].stage = "answered", calls'[v].on \in Clients
      PROVE  links'[calls'[v].on] \in {"open", "closed"}
  BY <1>1, <1>2, <1>6 DEF Following, Open
<1> QED BY <1>1, <1>2, <1>4, <1>5, <1>6, Names DEF Following, listing

(* What a listing brings: the server's list, or nothing.                      *)
LEMMA ListIs ==
  ASSUME Types, NEW u \in Users, Listed(u), ~Outdated(u)
  PROVE  List(u) = {} \/ List(u) = {server}
<1>1. CallOK(calls[u], Active) /\ calls[u].stage = "answered" BY DEF Types, Listed
<1>2. CASE calls[u].on \in Open
  BY <1>1, <1>2 DEF Outdated, List
<1>3. CASE calls[u].on = None
  BY <1>1, <1>3, Names DEF CallOK, List
<1> QED BY <1>2, <1>3 DEF Listed

LEMMA BaselineFollowing ==
  ASSUME Types, NEW u \in Users, Listed(u), Baseline(u)
  PROVE  /\ calls'[u] = NoCall /\ ~Outdated(u)'
         /\ \A v \in Users : v # u => calls'[v] = calls[v] /\ Outdated(v)' = Outdated(v)
         /\ UNCHANGED <<links, server, notified>>
         /\ registered' = IF List(u) = {} THEN registered ELSE List(u)
<1>1. /\ calls'[u] = NoCall /\ \A v \in Users : v # u => calls'[v] = calls[v]
      /\ UNCHANGED <<links, server, notified>>
  BY DEF Baseline, connection, Types
<1>2. Open' = Open BY <1>1 DEF Open
<1>3. ~Outdated(u)' BY <1>1, NoCallType DEF Outdated
<1>4. \A v \in Users : v # u => Outdated(v)' = Outdated(v) BY <1>1, <1>2 DEF Outdated
<1>5. registered' = IF List(u) = {} THEN registered ELSE List(u)
  BY DEF Baseline
<1> QED BY <1>1, <1>3, <1>4, <1>5

LEMMA ListFollowing ==
  ASSUME Types, Following, NEW u \in Callers, ListTools(u)
  PROVE  Following'
<1>1. u \in Users /\ u # "agent" /\ u # "refresh" BY McpAssumption, Names
<1>2. Listed(u) /\ Baseline(u) BY DEF ListTools
<1>3. UNCHANGED <<refreshing, again, old, registry, initialized, missed>> BY DEF ListTools
<1>4. relisted' = "no" =>
        relisted = "no" /\ (registered' = registered \/ (~initialized /\ ~refreshing))
  BY DEF ListTools, Relisted
<1>5. /\ calls'["agent"] = calls["agent"] /\ Outdated("agent")' = Outdated("agent")
      /\ calls'["refresh"] = calls["refresh"] /\ Outdated("refresh")' = Outdated("refresh")
      /\ \A v \in Users : calls'[v].stage = "answered" => calls'[v] = calls[v]
      /\ UNCHANGED <<links, server, notified>>
  BY <1>1, <1>2, BaselineFollowing, Names, NoCallType
<1>6. \A v \in Users : calls'[v].stage = "answered" /\ calls'[v].on \in Clients =>
                       links'[calls'[v].on] \in {"open", "closed"}
  BY <1>5 DEF Following
<1> QED BY <1>3, <1>4, <1>5, <1>6 DEF Following

LEMMA RegisterFollowing ==
  ASSUME Types, Following, RegisterTools
  PROVE  Following'
<1>1. Listed("agent") /\ Baseline("agent") /\ "agent" \in Users BY Names DEF RegisterTools
<1>2. /\ registry' = registry \cup List("agent") /\ initialized'
      /\ missed' = (missed \/ List("agent") = {})
      /\ UNCHANGED <<refreshing, again, old>>
  BY DEF RegisterTools
<1>3. calls["agent"] # NoCall BY <1>1, NoCallType DEF Listed
<1>4. ~initialized /\ registry' = List("agent") BY <1>2, <1>3 DEF Following, Types
<1>5. relisted' = "no" => relisted = "no" /\ (refreshing => registered' = registered)
  BY <1>4 DEF RegisterTools, Relisted
<1>6. /\ calls'["agent"] = NoCall /\ ~Outdated("agent")'
      /\ Outdated("refresh")' = Outdated("refresh")
      /\ \A v \in Users : calls'[v].stage = "answered" => calls'[v] = calls[v]
      /\ UNCHANGED <<links, server, notified>>
      /\ List("agent") \subseteq registered'
  BY <1>1, BaselineFollowing, Names, NoCallType
<1>7. \A v \in Users : calls'[v].stage = "answered" /\ calls'[v].on \in Clients =>
                       links'[calls'[v].on] \in {"open", "closed"}
  BY <1>6 DEF Following
<1>8. registry' # {server'} => notified' \/ missed' \/ refreshing'
  <2>1. CASE Outdated("agent") BY <1>2, <1>6, <2>1 DEF Following
  <2>2. CASE ~Outdated("agent")
    <3>1. List("agent") = {} \/ List("agent") = {server} BY <1>1, <2>2, ListIs
    <3> QED BY <1>2, <1>4, <1>6, <3>1
  <2> QED BY <2>1, <2>2
<1> QED BY <1>2, <1>4, <1>5, <1>6, <1>7, <1>8 DEF Following

LEMMA ReplaceFollowing ==
  ASSUME Types, Following, ReplaceTools
  PROVE  Following'
<1>1. Listed("refresh") /\ Baseline("refresh") /\ "refresh" \in Users
  BY Names DEF ReplaceTools
<1>2. /\ registry' = IF initialized THEN (registry \ old) \cup List("refresh") ELSE registry
      /\ missed' = (missed \/ ~initialized \/ List("refresh") = {})
      /\ refreshing' = again
      /\ old' = IF again THEN registered' ELSE {}
      /\ relisted' = IF registry' = List("refresh") THEN "no" ELSE relisted
      /\ initialized' = initialized
  BY DEF ReplaceTools
<1>3. refreshing BY <1>1, NoCallType DEF Listed, Types
<1>4. initialized /\ relisted' = "no" => registry' = List("refresh")
  <2>1. relisted = "no" /\ initialized => registry \ old = {} BY <1>3 DEF Following
  <2> QED BY <1>2, <2>1
<1>5. /\ calls'["agent"] = calls["agent"] /\ Outdated("agent")' = Outdated("agent")
      /\ ~Outdated("refresh")'
      /\ \A v \in Users : calls'[v].stage = "answered" => calls'[v] = calls[v]
      /\ UNCHANGED <<links, server, notified>>
      /\ List("refresh") \subseteq registered'
  BY <1>1, BaselineFollowing, Names, NoCallType
<1>6. \A v \in Users : calls'[v].stage = "answered" /\ calls'[v].on \in Clients =>
                       links'[calls'[v].on] \in {"open", "closed"}
  BY <1>5 DEF Following
<1>7. initialized' /\ relisted' = "no" /\ registry' # {server'} =>
        notified' \/ missed' \/ refreshing'
  <2>1. CASE Outdated("refresh") BY <1>2, <1>5, <2>1 DEF Following
  <2>2. CASE ~Outdated("refresh")
    <3>1. List("refresh") = {} \/ List("refresh") = {server} BY <1>1, <2>2, ListIs
    <3> QED BY <1>2, <1>4, <1>5, <3>1
  <2> QED BY <2>1, <2>2
<1>8. Outdated("agent")' => notified' \/ missed' \/ refreshing'
  <2>1. Outdated("agent") => ~initialized BY NoCallType DEF Following, Outdated
  <2> QED BY <1>2, <1>5, <2>1
<1>9. ~initialized' => registry' = {} BY <1>2 DEF Following
<1>10. relisted' = "no" /\ refreshing' => old' = registered' BY <1>2
<1>11. relisted' = "no" /\ initialized' => registry' \subseteq registered'
  BY <1>2, <1>4, <1>5
<1> QED BY <1>2, <1>5, <1>6, <1>7, <1>8, <1>9, <1>10, <1>11 DEF Following

LEMMA NextFollowing == Types /\ Following /\ [Next]_vars => Following'
<1> SUFFICES ASSUME Types, Following, [Next]_vars PROVE Following'
  OBVIOUS
<1>1. ASSUME NEW u \in Callers, Call(u) PROVE Following'
  <2>1. u \in Users /\ u # "agent" BY McpAssumption, Names
  <2>2. PICK reconnect \in BOOLEAN, lists \in BOOLEAN : Connect(u, reconnect, lists)
    BY <1>1 DEF Call
  <2> QED BY <1>1, <2>1, <2>2, AfterConnectFollowing DEF Call
<1>2. CASE Refresh
  BY <1>2, Names, AfterConnectFollowing DEF Refresh
<1>3. CASE Initialize
  <2>1. calls["agent"] = NoCall BY <1>3 DEF Initialize, Connect
  <2> QED BY <1>3, <2>1, Names, AfterConnectFollowing DEF Initialize
<1>4. ASSUME NEW u \in Users, Leave(u) \/ RequestFails(u) PROVE Following'
  BY <1>4, ThrowFollowing DEF Leave, RequestFails
<1>5. CASE UNCHANGED vars
  <2>1. LinksHold BY <1>5 DEF LinksHold, vars, connection
  <2> QED BY <1>5, <2>1, LinksFollowing DEF vars, listing, history
<1> QED BY <1>1, <1>2, <1>3, <1>4, <1>5, Names, ReconnectFollowing, AttemptFollowing,
           DisconnectFollowing, ServerFollowing, AnswerFollowing, ListFollowing,
           RegisterFollowing, ReplaceFollowing DEF Next

(* When all that the server said has been looked after, the agent has exactly *)
(* the tools of the server, whatever was listed, refreshed, lost, broken or   *)
(* reconnected before.                                                        *)
THEOREM AgentIsUpToDate == Spec => []AgentFollowsServer
<1>1. Spec => [](Types /\ Following)
  <2>1. Init => Types /\ Following BY InitTypes, InitFollowing
  <2>2. Types /\ Following /\ [Next]_vars => (Types /\ Following)'
    BY NextTypes, NextFollowing
  <2> QED BY <2>1, <2>2, PTL DEF Spec
<1>2. Following => AgentFollowsServer
  BY DEF Following, AgentFollowsServer, Quiet
<1> QED BY <1>1, <1>2, PTL
=============================================================================
