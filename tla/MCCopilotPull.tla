--------------------------- MODULE MCCopilotPull ----------------------------
(* Instances of CopilotPull for TLC. *)
EXTENDS CopilotPull

CONSTANTS seats, day, ai, metered

\* A page set, a metrics day and two report windows.
Mixed == <<seats, day, ai, metered>>
\* A report in one file or in two parts.
OneOrTwo == (ai :> {{0}, {1, 2}}) @@ (metered :> {{0}})
=============================================================================
