---------------------------- MODULE MCOnionFrames ----------------------------
(* A window target with a double-buffered colour image, which its shader      *)
(* reads, and a single depth image, which the sources' shader reads; staging  *)
(* buffers have two copies (simpleColor, simpleDepth in templateHelpers.hpp,  *)
(* stagingRequirementsFor).                                                   *)
EXTENDS OnionFrames

CONSTANTS color, depth

SwapOf == [s \in {color, depth} |-> IF s = color THEN 2 ELSE 1]
ViewedBy == [holder \in {"target", "source"} |-> IF holder = "target" THEN {color} ELSE {depth}]
==============================================================================
