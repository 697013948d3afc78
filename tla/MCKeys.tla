------------------------------- MODULE MCKeys -------------------------------
(* Instances of Keys for TLC. *)
EXTENDS Keys, TLC

CONSTANTS h1, o1, o2, o3, e1, e2, ann, bob

\* Persons are alike, and so are the org keys and the export keys.
KeysSym == Permutations({ann, bob}) \cup Permutations({o1, o2, o3}) \cup Permutations({e1, e2})
=============================================================================
