----------------------------- MODULE MCRecorder -----------------------------
(* Model-checking instances of Recorder: two application threads, two threads *)
(* that may call close(), a queue of one or two items, up to three calls.     *)
EXTENDS Recorder, TLC

CONSTANTS a1, a2, k1, k2

\* Threads are interchangeable (used by the runs that check safety only).
Threads == Permutations({a1, a2}) \cup Permutations({k1, k2})
=============================================================================
