------------------------- MODULE MCCopilotCollector -------------------------
(* Instances of CopilotCollector for TLC. *)
EXTENDS CopilotCollector

CONSTANTS s1, s2, a, c

SessionOfTwo == (a :> s1) @@ (c :> s2)
TurnsTwo == (s1 :> 2) @@ (s2 :> 1)
=============================================================================
