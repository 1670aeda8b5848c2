---------------------------- MODULE MCMcpClient ----------------------------
(* Values for model checking McpClient: an application beside the agent, a   *)
(* server with two lists of tools.                                           *)
EXTENDS McpClient, TLC

CONSTANTS app, other, search, read, c1, c2, c3, p1, p2

(* A url that may fail, a transport that must not.                           *)
MCOptions == {<<TRUE, TRUE>>, <<FALSE, FALSE>>}

(* Which caller, list, client or attempt is which does not matter.           *)
Symmetry ==
  Permutations(Callers) \cup Permutations(Tools)
    \cup Permutations(Clients) \cup Permutations(Attempts)

(* Bound: with a url, exploration ends where a connection has leaked.        *)
Explored == url /\ Active = {} /\ closing = "no" => Leaked = {}
=============================================================================
