--------------------------- MODULE MCLedgerStore ----------------------------
(* Instances of LedgerStore.  The contributions of the five-source shapes   *)
(* of the tests: a transcript, its split entry, an OTel view without a      *)
(* message id, and a provider request id used twice.                        *)
EXTENDS LedgerStore

C(canon, id, attempts, priority, output, principal, start) ==
  [canon |-> canon, id |-> id, attempts |-> attempts, fidelity |-> 1,
   priority |-> priority, output |-> output, principal |-> principal, start |-> start]
A(hint, msg) == [hint |-> hint, msg |-> msg]

Transcript == C(1, 4, {A("q1", "m1")}, 40, 1, 1, 1)
SplitEntry == C(2, 4, {A("q1", "m1")}, 40, 5, 1, 2)
OTel       == C(3, 2, {A("q1", NoId)}, 20, 5, 2, 1)
Reused     == C(4, 3, {A("q1", "m2")}, 40, 2, NoPrincipal, 2)
Retried    == C(5, 1, {A("q2", NoId), A(NoId, "m2")}, 20, 2, 1, 1)
Bare       == C(6, 5, {A("q2", NoId)}, 20, 1, 2, 1)
Bridge     == C(7, 5, {A(NoId, "m1")}, 40, 1, NoPrincipal, 2)

MCContributions == {Transcript, SplitEntry, OTel, Reused, Retried, Bare, Bridge}

File(s, v, cs) == [source |-> s, sha |-> v, chunks |-> cs]

\* Contributions that are sources of their own, in any order, and a source of two chunks
\* in two versions.
MCFiles ==
  {File(c.canon, "a", <<{c}>>) : c \in {Transcript, OTel, Reused}}
    \cup {File(8, "a", <<{Bare, SplitEntry}, {Retried}>>),
          File(8, "b", <<{Bare, SplitEntry}, {Retried, Bridge, Reused}>>)}
MCSources == {1, 3, 4, 8}
=============================================================================
