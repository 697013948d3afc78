---------------------------- MODULE MCCollector -----------------------------
(* Instances of Collector for TLC. *)
EXTENDS Collector

CONSTANTS m1, m2

\* Two calls; m1 also has a line with a larger output.
LateAnswer == {[id |-> m1, out |-> 1], [id |-> m1, out |-> 2], [id |-> m2, out |-> 1]}

\* A transcript, and a shorter one that takes its name.
TwoFiles == <<4, 1>>
=============================================================================
