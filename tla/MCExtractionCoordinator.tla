---------------------- MODULE MCExtractionCoordinator ----------------------
(* Values for model checking ExtractionCoordinator: two stores, one of which *)
(* saves only text; two kinds of message.                                    *)
EXTENDS ExtractionCoordinator, TLC

CONSTANTS everything, textOnly, text, toolUse

MCExclude == [s \in Stores |-> IF s = textOnly THEN {toolUse} ELSE {}]
=============================================================================
