----------------------------- MODULE McpClient -----------------------------
(***************************************************************************)
(* The client of a server of tools (mcp/client.ts) and the agent that      *)
(* registers what it lists (agent/agent.ts).                               *)
(*                                                                         *)
(* Connecting: whoever needs the connection calls connect, which starts an *)
(* attempt or waits for the one under way; an attempt tears down and       *)
(* rebuilds the vendor's client as needed and then dials.  disconnect may  *)
(* run at the same time: it raises a generation, and whoever finds that    *)
(* its own is not the current one gives up.  `fresh` stands for "the       *)
(* generation it captured is the current one".                             *)
(*                                                                         *)
(* Listing: the agent lists the tools once and registers them.  When the   *)
(* server says that they changed, a refresh lists them again, takes the    *)
(* names of the listing before it off the registry and adds the new ones.  *)
(* The application may list for itself, without options of its own.  A     *)
(* list of the server is stood for by one tool that no other list has.     *)
(*                                                                         *)
(* What runs in the microtasks after a promise settles is one step with    *)
(* it.  Sessions for tasks (tasksConfig) and the operations other than     *)
(* listing, which call connect and then the vendor's client, are left out. *)
(*                                                                         *)
(* The vendor's client and the server are external: a connection may fail, *)
(* break or be refused, a request may fail, and a notification arrives     *)
(* some time after the change, if a connection is open.                    *)
(***************************************************************************)
EXTENDS Naturals

CONSTANTS
  Callers,    (* application code that uses the client at the same time      *)
  Tools,      (* the tools, one for each list the server may have            *)
  Options,    (* the configurations, as pairs of url and continueOnError     *)
  Clients,    (* bound: the vendor clients alive at once                     *)
  Attempts    (* bound: the connection attempts alive at once                *)

(* The agent's initialize and the refresh use the client like any caller.    *)
Users == Callers \cup {"agent", "refresh"}
None == "none"

ASSUME McpAssumption ==
  /\ Callers \cap {"agent", "refresh"} = {}
  /\ None \notin Clients \cup Attempts /\ Clients \cap Attempts = {}
  /\ Options # {} /\ Options \subseteq BOOLEAN \X BOOLEAN
  /\ Clients # {} /\ Attempts # {} /\ Tools # {}

VARIABLES
  url,              (* the transport was built from a url, can be rebuilt    *)
  continueOnError,  (* the option of this name                               *)
  state,            (* _state                                                *)
  shared,           (* the attempt whose promise is _connectionPromise       *)
  attempts,         (* each attempt's place in _connect                      *)
  attempted,        (* _connectAttempted                                     *)
  client,           (* _client, with _transport                              *)
  links,            (* what became of each vendor client                     *)
  calls,            (* each user's call of connect or listTools              *)
  closing,          (* how far disconnect is                                 *)
  server,           (* the list the server has now                           *)
  notified,         (* a notification is on its way, or debounced            *)
  refreshing,       (* _refreshingTools                                      *)
  again,            (* _pendingRefresh                                       *)
  old,              (* oldTools of the refresh                               *)
  registered,       (* _registeredToolNames                                  *)
  registry,         (* the tools of this server in the agent's registry      *)
  initialized,      (* the agent registered them, and listens to changes     *)
  asked,            (* history: connect was called since the last disconnect *)
  overlapped,       (* history: an attempt began beside another or beside a  *)
                    (* disconnect, and what it left open may be open still   *)
  missed,           (* history: a change was not said, or its refresh failed *)
                    (* or had nobody to tell, and no listing for the agent   *)
                    (* began since                                           *)
  relisted          (* history: another listing changed _registeredToolNames *)
                    (* beside or after the agent's own, and no refresh has   *)
                    (* put that right                                        *)

options == <<url, continueOnError>>
connection == <<state, shared, attempts, attempted, client, links>>
listing == <<refreshing, again, old, registered, registry, initialized>>
history == <<asked, overlapped, missed, relisted>>
vars == <<options, connection, calls, closing, server, notified, listing, history>>

-----------------------------------------------------------------------------
NoCall == [stage |-> "idle", on |-> None, fresh |-> TRUE, retry |-> FALSE,
           lists |-> FALSE, answer |-> None]
NoAttempt == [stage |-> "idle", fresh |-> TRUE, to |-> None]

Open == {c \in Clients : links[c] = "open"}
Active == {a \in Attempts : attempts[a].stage # "idle"}
Closed(ls, c) == [ls EXCEPT ![c] = IF @ = "new" THEN @ ELSE "closed"]

(* The vendor clients nobody refers to any more.                             *)
Unused == {c \in Clients \ {client} :
             /\ links[c] \in {"new", "closed"}
             /\ \A a \in Attempts : attempts[a].to # c
             /\ \A u \in Users : calls[u].on # c}

Init ==
  /\ \E option \in Options : url = option[1] /\ continueOnError = option[2]
  /\ state = "disconnected" /\ shared = None
  /\ attempts = [a \in Attempts |-> NoAttempt] /\ attempted = FALSE
  /\ client \in Clients /\ links = [c \in Clients |-> "new"]
  /\ calls = [u \in Users |-> NoCall]
  /\ closing = "no"
  /\ server \in Tools /\ notified = FALSE
  /\ refreshing = FALSE /\ again = FALSE
  /\ old = {} /\ registered = {} /\ registry = {} /\ initialized = FALSE
  /\ asked = FALSE /\ overlapped = FALSE /\ missed = FALSE /\ relisted = "no"

-----------------------------------------------------------------------------
(* Where a call goes once connect returns: done, a request to the server, or *)
(* an empty list when connecting has failed (listTools).                     *)
AfterConnect(lists, st) ==
  CASE ~lists -> NoCall
    [] lists /\ st = "failed" -> [NoCall EXCEPT !.stage = "answered", !.lists = TRUE]
    [] OTHER -> [NoCall EXCEPT !.stage = "listing", !.on = client, !.lists = TRUE]

(* Open connections that nobody will close.                                  *)
Leaked == Open \ IF state = "connected" THEN {client} ELSE {}

(* _connect up to its first await: a connected client is closed first.       *)
StartAttempt(u, reconnect, lists) ==
  \E a \in Attempts \ Active :
    /\ IF state = "connected" /\ reconnect
       THEN /\ attempts' = [attempts EXCEPT ![a].stage = "leaving"]
            /\ links' = Closed(links, client)
       ELSE /\ attempts' = [attempts EXCEPT ![a].stage = "rebuilding"]
            /\ UNCHANGED links
    /\ shared' = a
    /\ calls' = [calls EXCEPT
         ![u] = [NoCall EXCEPT !.stage = "waiting", !.on = a, !.lists = lists]]
    /\ overlapped' = (Active # {} \/ closing # "no" \/ (overlapped /\ Leaked # {}))

(* connect up to its first await.                                            *)
Connect(u, reconnect, lists) ==
  /\ calls[u] = NoCall
  /\ asked' = TRUE
  /\ \/ /\ shared # None
        /\ calls' = [calls EXCEPT ![u] = [NoCall EXCEPT
             !.stage = "waiting", !.on = shared, !.retry = reconnect, !.lists = lists]]
        /\ UNCHANGED <<shared, attempts, links, overlapped>>
     \/ /\ shared = None /\ state # "disconnected" /\ ~reconnect
        /\ calls' = [calls EXCEPT ![u] = AfterConnect(lists, state)]
        /\ UNCHANGED <<shared, attempts, links, overlapped>>
     \/ /\ shared = None /\ (state = "disconnected" \/ reconnect)
        /\ StartAttempt(u, reconnect, lists)
  /\ UNCHANGED <<options, state, attempted, client, closing, server, notified, relisted>>

(* The application: connect(reconnect) or listTools().                       *)
Call(u) ==
  /\ \E reconnect, lists \in BOOLEAN :
       /\ ~(reconnect /\ lists)
       /\ Connect(u, reconnect, lists)
  /\ UNCHANGED <<listing, missed>>

(* A caller that waited in order to reconnect starts its own attempt, be the *)
(* one it waited for a failure and whatever others have started meanwhile.   *)
Reconnect(u) ==
  /\ calls[u].stage = "woken"
  /\ StartAttempt(u, TRUE, FALSE)
  /\ UNCHANGED <<options, state, attempted, client, closing, server, notified,
                 listing, asked, missed, relisted>>

(* A refresh in which an error is thrown leaves its loop.  (_pendingRefresh  *)
(* stays as it is, but is reset before it is read again.)                    *)
LeaveLoop(thrown) ==
  /\ refreshing' = (refreshing /\ ~thrown)
  /\ again' = (again /\ ~thrown)
  /\ old' = IF thrown THEN {} ELSE old
  /\ missed' = (missed \/ thrown)

(* A call ends with an error.                                                *)
Throw(u) ==
  /\ calls' = [calls EXCEPT ![u] = NoCall]
  /\ LeaveLoop(u = "refresh")
  /\ UNCHANGED <<options, connection, closing, server, notified,
                 registered, registry, initialized, asked, overlapped, relisted>>

(* The caller's signal is aborted while it waits; the attempt goes on.       *)
Leave(u) ==
  /\ calls[u].stage = "waiting" /\ ~calls[u].lists
  /\ Throw(u)

-----------------------------------------------------------------------------
(* _connect, one attempt: tear down, rebuild, dial.                          *)

(* The promise settles, and those who waited for it go on: with an error if  *)
(* there was one or they are outdated, or else with what they connected for. *)
Woken(a, ok, st) ==
  LET waiting == {u \in Users : calls[u].stage = "waiting" /\ calls[u].on = a}
      retrying == {u \in waiting : calls[u].fresh /\ calls[u].retry}
      failing == {u \in waiting : ~calls[u].fresh \/ (~ok /\ ~calls[u].retry)}
  IN
  /\ attempts' = [attempts EXCEPT ![a] = NoAttempt]
  /\ state' = st
  /\ calls' = [u \in Users |->
       CASE u \in retrying -> [NoCall EXCEPT !.stage = "woken", !.retry = TRUE]
         [] u \in failing -> NoCall
         [] u \in waiting \ (retrying \cup failing) -> AfterConnect(calls[u].lists, st)
         [] OTHER -> calls[u]]
  /\ LeaveLoop("refresh" \in failing)
  /\ UNCHANGED <<options, client, closing, server, notified,
                 registered, registry, initialized, asked, overlapped, relisted>>

(* Mutant of Settle: the promise is kept for whoever comes next.             *)
SettleKeepingPromise(a, ok, st) == Woken(a, ok, st) /\ UNCHANGED shared

Settle(a, ok, st) ==
  /\ Woken(a, ok, st)
  /\ shared' = IF shared = a THEN None ELSE shared

(* The attempt fails: an error for those who wait, or a client that is there *)
(* but has failed.                                                           *)
Fails(a) ==
  IF continueOnError THEN Settle(a, TRUE, "failed") ELSE Settle(a, FALSE, state)

Left(a) ==
  /\ attempts[a].stage = "leaving"
  /\ \/ /\ attempts[a].fresh
        /\ state' = "disconnected"
        /\ attempts' = [attempts EXCEPT ![a].stage = "rebuilding"]
        /\ UNCHANGED <<shared, calls, listing, missed>>
     \/ /\ ~attempts[a].fresh
        /\ Settle(a, FALSE, state)
  /\ UNCHANGED <<options, attempted, client, links, closing, server, notified,
                 asked, overlapped, relisted>>

(* The requests of a connection fail when it closes, so before the next step *)
(* of an attempt replaces its client or starts its transport again.          *)
NoneLost == links[client] = "closed" => \A u \in Users : calls[u].on # client

RebuildForRetry(a) ==
  /\ attempts[a].stage = "rebuilding" /\ NoneLost
  /\ IF url /\ attempted
     THEN /\ client' \in Unused
          /\ links' = [links EXCEPT ![client'] = "new"]
     ELSE UNCHANGED <<client, links>>
  /\ attempts' = [attempts EXCEPT ![a].stage = "ready"]
  /\ UNCHANGED <<options, state, shared, attempted, calls, closing, server,
                 notified, listing, history>>

(* A transport that was closed can be started again only if it is the        *)
(* caller's own.                                                             *)
Dial(a) ==
  /\ attempts[a].stage = "ready" /\ NoneLost
  /\ links[client] = "new" \/ (links[client] = "closed" /\ ~url)
  /\ attempted' = TRUE
  /\ attempts' = [attempts EXCEPT ![a].stage = "dialling", ![a].to = client]
  /\ links' = [links EXCEPT ![client] = "dialling"]
  /\ UNCHANGED <<options, state, shared, client, calls, closing, server, notified,
                 listing, history>>

(* A transport that is in use, or a closed one of a url, cannot be started.  *)
DialInVain(a) ==
  /\ attempts[a].stage = "ready"
  /\ links[client] \in {"dialling", "open"} \/ (links[client] = "closed" /\ url)
  /\ attempted' = TRUE
  /\ IF attempts[a].fresh
     THEN Fails(a) /\ UNCHANGED links
     ELSE Settle(a, FALSE, state) /\ links' = Closed(links, client)

(* Mutant of Accept: the generation is not looked at after the handshake.    *)
AcceptOutdated(a) ==
  /\ attempts[a].stage = "dialling" /\ links[attempts[a].to] = "dialling"
  /\ Settle(a, TRUE, "connected")
  /\ links' = [links EXCEPT ![attempts[a].to] = "open"]
  /\ UNCHANGED attempted

Accept(a) ==
  /\ attempts[a].stage = "dialling" /\ links[attempts[a].to] = "dialling"
  /\ LET opened == [links EXCEPT ![attempts[a].to] = "open"] IN
     IF attempts[a].fresh
     THEN Settle(a, TRUE, "connected") /\ links' = opened
     ELSE Settle(a, FALSE, state) /\ links' = Closed(opened, client)
  /\ UNCHANGED attempted

Refuse(a) ==
  /\ attempts[a].stage = "dialling"
  /\ LET refused == Closed(links, attempts[a].to) IN
     IF attempts[a].fresh
     THEN Fails(a) /\ links' = refused
     ELSE Settle(a, FALSE, state) /\ links' = Closed(refused, client)
  /\ UNCHANGED attempted

-----------------------------------------------------------------------------
(* disconnect, one await after the other; one runs at a time (a bound).      *)
Disconnect ==
  /\ closing = "no" /\ closing' = "client"
  /\ state' = "disconnected" /\ asked' = FALSE
  /\ attempts' = [a \in Attempts |-> [attempts[a] EXCEPT !.fresh = a \notin Active]]
  /\ calls' = [u \in Users |->
       IF calls[u].stage = "woken" THEN NoCall
       ELSE [calls[u] EXCEPT !.fresh = @ /\ calls[u].stage # "waiting"]]
  /\ links' = Closed(links, client)
  /\ UNCHANGED <<options, shared, attempted, client, server, notified, listing,
                 overlapped, missed, relisted>>

CloseTransport ==
  /\ closing = "client" /\ closing' = "transport"
  /\ links' = Closed(links, client)
  /\ UNCHANGED <<options, state, shared, attempts, attempted, client, calls,
                 server, notified, listing, history>>

Disconnected ==
  /\ closing = "transport" /\ closing' = "no"
  /\ state' = "disconnected"
  /\ UNCHANGED <<options, shared, attempts, attempted, client, links, calls,
                 server, notified, listing, history>>

-----------------------------------------------------------------------------
(* The server and the connection to it (external).                           *)
ServerChanges ==
  /\ server' \in Tools \ {server}
  /\ notified' = (notified \/ Open # {})
  /\ missed' = (missed \/ Open = {})
  /\ UNCHANGED <<options, connection, calls, closing, listing, asked, overlapped,
                 relisted>>

Break(c) ==
  /\ links[c] = "open"
  /\ links' = [links EXCEPT ![c] = "closed"]
  /\ UNCHANGED <<options, state, shared, attempts, attempted, client, calls,
                 closing, server, notified, listing, history>>

NotificationLost ==
  /\ notified /\ Open = {}
  /\ notified' = FALSE /\ missed' = TRUE
  /\ UNCHANGED <<options, connection, calls, closing, server, listing, asked,
                 overlapped, relisted>>

Answer(u) ==
  /\ calls[u].stage = "listing" /\ calls[u].on \in Open
  /\ calls' = [calls EXCEPT ![u].stage = "answered", ![u].answer = server]
  /\ UNCHANGED <<options, connection, closing, server, notified, listing, history>>

(* The answer travels on the connection, and is lost with it.                *)
RequestFails(u) == calls[u].on \in Clients /\ Throw(u)

-----------------------------------------------------------------------------
(* listTools, and what is done with the list.                                *)

(* Mutant of HandleToolsChanged: ignored while a refresh is under way.       *)
HandleToolsChangedOnce ==
  /\ notified /\ notified' = FALSE
  /\ refreshing' = TRUE
  /\ old' = IF refreshing THEN old ELSE registered
  /\ UNCHANGED <<options, connection, calls, closing, server, again, registered,
                 registry, initialized, history>>

(* A notification during a refresh asks for another round of it.             *)
HandleToolsChanged ==
  /\ notified /\ notified' = FALSE
  /\ refreshing' = TRUE /\ again' = refreshing
  /\ old' = IF refreshing THEN old ELSE registered
  /\ UNCHANGED <<options, connection, calls, closing, server, registered, registry,
                 initialized, history>>

Refresh ==
  /\ refreshing
  /\ Connect("refresh", FALSE, TRUE)
  /\ missed' = FALSE
  /\ UNCHANGED listing

Initialize ==
  /\ ~initialized
  /\ Connect("agent", FALSE, TRUE)
  /\ missed' = FALSE
  /\ UNCHANGED listing

Listed(u) == calls[u].stage = "answered" /\ calls[u].on \in Open \cup {None}
List(u) == {calls[u].answer} \ {None}

(* Every listing of the server's tools becomes what a refresh takes off the  *)
(* registry; the empty list of a failed client does not.                     *)
Baseline(u) ==
  /\ calls' = [calls EXCEPT ![u] = NoCall]
  /\ registered' = IF List(u) = {} THEN registered ELSE List(u)
  /\ UNCHANGED <<options, connection, closing, server, notified, asked, overlapped>>

Relisted ==
  relisted' = IF registered' = registered \/ relisted # "no" THEN relisted
              ELSE IF initialized THEN "after" ELSE IF refreshing THEN "beside" ELSE "no"

ListTools(u) ==
  /\ Listed(u)
  /\ Baseline(u)
  /\ Relisted
  /\ UNCHANGED <<refreshing, again, old, registry, initialized, missed>>

RegisterTools ==
  /\ Listed("agent")
  /\ Baseline("agent")
  /\ registry' = registry \cup List("agent")
  /\ initialized' = TRUE
  /\ missed' = (missed \/ List("agent") = {})
  /\ Relisted
  /\ UNCHANGED <<refreshing, again, old>>

ReplaceTools ==
  /\ Listed("refresh")
  /\ Baseline("refresh")
  /\ registry' = IF initialized THEN (registry \ old) \cup List("refresh") ELSE registry
  /\ missed' = (missed \/ ~initialized \/ List("refresh") = {})
  /\ refreshing' = again /\ again' = FALSE
  /\ old' = IF again THEN registered' ELSE {}
  /\ relisted' = IF registry' = List("refresh") THEN "no" ELSE relisted
  /\ UNCHANGED initialized

Next ==
  \/ \E u \in Callers : Call(u) \/ Leave(u) \/ ListTools(u)
  \/ Initialize \/ RegisterTools \/ Refresh \/ ReplaceTools \/ HandleToolsChanged
  \/ \E u \in Users : Reconnect(u) \/ Answer(u) \/ RequestFails(u)
  \/ \E a \in Attempts :
       Left(a) \/ RebuildForRetry(a) \/ Dial(a) \/ DialInVain(a) \/ Accept(a) \/ Refuse(a)
  \/ Disconnect \/ CloseTransport \/ Disconnected
  \/ ServerChanges \/ NotificationLost \/ \E c \in Clients : Break(c)

Spec == Init /\ [][Next]_vars

-----------------------------------------------------------------------------
(* The state has its types; the shared promise is that of an attempt under   *)
(* way, and whoever waits for one waits for one that will settle.            *)
TypeOK ==
  /\ <<url, continueOnError>> \in Options
  /\ state \in {"disconnected", "connected", "failed"}
  /\ shared \in Active \cup {None}
  /\ attempts \in [Attempts -> [
       stage : {"idle", "leaving", "rebuilding", "ready", "dialling"},
       fresh : BOOLEAN, to : Clients \cup {None}]]
  /\ attempted \in BOOLEAN
  /\ client \in Clients
  /\ links \in [Clients -> {"new", "dialling", "open", "closed"}]
  /\ \A u \in Users :
       CASE calls[u].stage = "waiting" -> calls[u].on \in Active
         [] calls[u].stage = "listing" -> calls[u].on \in Clients /\ calls[u].lists
         [] calls[u].stage = "answered" ->
              (calls[u].answer \in Tools /\ calls[u].on \in Clients)
                \/ (calls[u].answer = None /\ calls[u].on = None)
         [] OTHER -> calls[u].stage \in {"idle", "woken"}
  /\ closing \in {"no", "client", "transport"}
  /\ server \in Tools /\ notified \in BOOLEAN
  /\ refreshing \in BOOLEAN /\ again \in BOOLEAN /\ initialized \in BOOLEAN
  /\ old \subseteq Tools /\ registered \subseteq Tools /\ registry \subseteq Tools
  /\ (calls["refresh"] # NoCall => refreshing)

(* A connection attempt that was under way when the client was disconnected  *)
(* does not connect it afterwards, nor does it leave a connection open that  *)
(* nobody would close, unless attempts and disconnects were started side by  *)
(* side.                                                                     *)
DisconnectHolds ==
  /\ state = "connected" => asked
  /\ Active = {} /\ closing = "no" /\ ~overlapped => Leaked = {}

(* When all that the server said has been looked after, the agent has        *)
(* exactly the tools of the server: none that it dropped, none missing.      *)
Quiet == initialized /\ ~notified /\ ~refreshing /\ ~missed
AgentFollowsServer == Quiet /\ relisted = "no" => registry = {server}

(* "Handler receiving the previous tool names": a refresh replaces the tools *)
(* that the agent registered, whatever the application listed in between.    *)
RefreshReplaces == Quiet /\ relisted # "beside" => registry = {server}
=============================================================================
