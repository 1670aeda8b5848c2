------------------------------ MODULE TaskPool ------------------------------
(***************************************************************************)
(* What the background task engine promises to the manager above it,       *)
(* without its queue, its timers, its executions and its waiters: tasks    *)
(* ask for one of MaxConcurrency slots, a slot stays taken until the tool  *)
(* in it has returned, whatever has become of its task meanwhile, and no   *)
(* slot stays free beside a task that could use it.  TaskEngine implements *)
(* this specification, with the active executions as the slots taken.      *)
(***************************************************************************)
EXTENDS Integers, FiniteSets

CONSTANTS
  Tasks,           (* identifiers of the tasks ever submitted              *)
  MaxConcurrency   (* number of slots                                      *)

VARIABLES
  status,          (* the status of each task, as its record shows it      *)
  occupied         (* the tasks that hold a slot                           *)

vars == <<status, occupied>>

Terminal == {"completed", "failed", "cancelled"}

Init ==
  /\ status = [t \in Tasks |-> "unsubmitted"]
  /\ occupied = {}

(* A task that holds no slot gets one at once if there is one.              *)
Enter(t) ==
  /\ status[t] \in {"unsubmitted", "input_required"}
  /\ t \notin occupied
  /\ Cardinality(occupied) < MaxConcurrency
  /\ status' = [status EXCEPT ![t] = "working"]
  /\ occupied' = occupied \cup {t}

(* It waits only if all are taken, or if its own last execution has one.    *)
Queue(t) ==
  /\ status[t] \in {"unsubmitted", "input_required"}
  /\ t \in occupied \/ Cardinality(occupied) >= MaxConcurrency
  /\ status' = [status EXCEPT ![t] = "queued"]
  /\ UNCHANGED occupied

(* A working task ends, or stops for input; its slot is still taken.        *)
Stop(t, s) ==
  /\ status[t] = "working"
  /\ s \in Terminal \cup {"input_required"}
  /\ status' = [status EXCEPT ![t] = s]
  /\ UNCHANGED occupied

(* A task that is not working is cancelled.                                 *)
Withdraw(t) ==
  /\ status[t] \in {"queued", "input_required"}
  /\ status' = [status EXCEPT ![t] = "cancelled"]
  /\ UNCHANGED occupied

(* The queued tasks that hold no slot once t has given up its own.          *)
Startable(t) == {u \in Tasks : status[u] = "queued" /\ u \notin occupied \ {t}}

(* The slot of a task that no longer works is given up, and goes to a task  *)
(* that waits for one: it stays free only if there is none.                 *)
Release(t) ==
  /\ t \in occupied
  /\ status[t] # "working"
  /\ Startable(t) = {}
  /\ occupied' = occupied \ {t}
  /\ UNCHANGED status

HandOver(t, u) ==
  /\ t \in occupied
  /\ status[t] # "working"
  /\ u \in Startable(t)
  /\ status' = [status EXCEPT ![u] = "working"]
  /\ occupied' = (occupied \ {t}) \cup {u}

Remove(t) ==
  /\ status[t] \in Terminal
  /\ status' = [status EXCEPT ![t] = "removed"]
  /\ UNCHANGED occupied

Next ==
  \E t \in Tasks :
    \/ Enter(t) \/ Queue(t) \/ Withdraw(t) \/ Release(t) \/ Remove(t)
    \/ \E s \in Terminal \cup {"input_required"} : Stop(t, s)
    \/ \E u \in Tasks : HandOver(t, u)

Spec == Init /\ [][Next]_vars
=============================================================================
