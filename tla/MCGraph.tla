------------------------------ MODULE MCGraph ------------------------------
(* Values for model checking Graph: a join of two sources, and a branch or a *)
(* third source with a conditional successor.                                *)
EXTENDS Graph

CONSTANTS a, b, c, d, e

Join == {<<a, c, 1>>, <<b, c, 1>>}
JoinAndBranch == Join \cup {<<a, d, 1>>}
ForkAndJoin == Join \cup {<<d, e, 1>>}
IntoE == {<<d, e, 1>>}
NoEdges == {}

TwoSources == <<a, b>>
ThreeSources == <<a, b, d>>

MayPass == [n \in Nodes |-> {"pass"}]
SomeGated == [n \in Nodes |-> IF n = c THEN {"pass", "interrupt", "cancel"}
                                       ELSE {"pass"}]
AllComplete == [n \in Nodes |-> {"COMPLETED"}]
SourceInterrupts ==
  [n \in Nodes |-> IF n = b THEN {"COMPLETED", "INTERRUPTED"} ELSE {"COMPLETED"}]
Mixed ==
  [n \in Nodes |-> CASE n = a -> {"COMPLETED", "FAILED"}
                     [] n = b -> {"COMPLETED", "INTERRUPTED"}
                     [] OTHER -> {"COMPLETED"}]
=============================================================================
