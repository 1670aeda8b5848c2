------------------------- MODULE MCBackgroundTasks -------------------------
(* Values for model checking BackgroundTasks: a task whose tool may ask and  *)
(* one whose tool does not.                                                  *)
EXTENDS BackgroundTasks

CONSTANTS search, ask
=============================================================================
