---------------------------- MODULE MCPresentPath ----------------------------
(* Small instances of PresentPath for TLC.                                 *)
EXTENDS PresentPath

CONSTANTS main, second

(* Two windows; one semaphore more than the pool may ever need.            *)
SemsDef == 1..(Cardinality(AllImages) + 1)
ImagesOfDef == [c \in Chains |-> IF c = main THEN {1, 2} ELSE {1}]

(* Everything that can fail, but for a present of several swapchains that  *)
(* enqueues nothing and does not say which.                                *)
AllButAmbiguous == AllFaults \ {"ambiguous"}
(* A frame for one window and none for the other.                          *)
UnevenFrames == {"uneven"}
=============================================================================
