--------------------------- MODULE AbstractLedger ---------------------------
(***************************************************************************)
(* What the ledger promises (store/merge.py: "merged requests are a pure   *)
(* function of the set of contributions"): the merged requests are always  *)
(* the merge of the stored contributions, whatever the order, the chunks,  *)
(* the processes and the crashes that brought them in.  A provider request *)
(* id that was once seen with two messages stays a collision, also after   *)
(* one of its contributions is purged.                                     *)
(***************************************************************************)
EXTENDS Merge

CONSTANTS
  Contributions,  \* every contribution any source may bring
  Principals,     \* who may be purged
  Starts          \* start times

VARIABLES
  contribs,  \* the contributions in the ledger
  collided,  \* provider request ids that are no join keys
  ledger     \* the merged requests

abstractVars == <<contribs, collided, ledger>>

Init == contribs = {} /\ collided = {} /\ ledger = {}

\* A committed transaction of an ingest adds contributions.
Add(S) ==
  /\ contribs' = contribs \cup S
  /\ collided' = collided \cup Collided(contribs')
  /\ ledger' = MergeContributions(contribs', collided')

Remove(S) ==
  /\ contribs' = contribs \ S
  /\ collided' = collided
  /\ ledger' = MergeContributions(contribs', collided')

\* purge(principal): the requests attributed to it with everything in them,
\* and its contributions to requests attributed to others.
PurgePrincipal(p) ==
  Remove((UNION {g.members : g \in {h \in ledger : h.principal = p}})
           \cup {c \in contribs : c.principal = p})

\* purge(before_ms): the same for what started before t.
PurgeBefore(t) ==
  Remove((UNION {g.members : g \in {h \in ledger : h.start < t}})
           \cup {c \in contribs : c.start < t})

Next ==
  \/ \E S \in SUBSET Contributions : Add(S)
  \/ \E p \in Principals : PurgePrincipal(p)
  \/ \E t \in Starts : PurgeBefore(t)

Spec == Init /\ [][Next]_abstractVars
=============================================================================
