------------------------------- MODULE Merge --------------------------------
(***************************************************************************)
(* The cross-source merge rules (store/merge.py): merged requests as a     *)
(* function of a SET of contributions.  A contribution is one source's     *)
(* view of a logical request.  Its document is abstracted to what the      *)
(* rules read: the request id, the provider ids on each attempt, the four  *)
(* parts of its rank, and one attribution field (the principal).  Strings  *)
(* are numbers: only their order and their equality are used.              *)
(***************************************************************************)
EXTENDS Naturals, FiniteSets

CONSTANTS
  Hints,       \* provider request ids
  Messages,    \* provider message ids
  NoId,        \* an attempt without the provider id in question
  NoPrincipal  \* attribution.principal is None

Attempts == [hint : Hints \cup {NoId}, msg : Messages \cup {NoId}]

-----------------------------------------------------------------------------
(* What a contribution says *)

message_ids(c) == {a.msg : a \in c.attempts} \ {NoId}
request_hints(c) == {a.hint : a \in c.attempts} \ {NoId}
hint_pairs(c) == {<<a.hint, a.msg>> : a \in {b \in c.attempts : b.hint # NoId /\ b.msg # NoId}}

MessagesOf(S) == UNION {message_ids(c) : c \in S}
HintsOf(S) == UNION {request_hints(c) : c \in S}

\* The messages hint h is paired with in S.
SeenWith(h, S) == {m \in Messages : \E c \in S : <<h, m>> \in hint_pairs(c)}

\* Hints seen with two message ids: never a join key.
Collided(S) == {h \in Hints : \E m1, m2 \in SeenWith(h, S) : m1 # m2}

join_keys(c, bad) ==
  {<<"id", c.id>>} \cup {<<"msg", m>> : m \in message_ids(c)}
                   \cup {<<"rq", h>> : h \in request_hints(c) \ bad}

-----------------------------------------------------------------------------
(* Connected components.  keys is a function from nodes to sets of keys;   *)
(* two nodes are joined when they share a key.  A class is a minimal       *)
(* non-empty closed set: what both union-find loops compute.               *)

Closed(T, keys) ==
  \A x \in T : \A y \in DOMAIN keys \ T : keys[x] \cap keys[y] = {}

Classes(keys) ==
  {C \in (SUBSET DOMAIN keys) \ {{}} :
     Closed(C, keys) /\ \A T \in (SUBSET C) \ {{}} : Closed(T, keys) => T = C}

-----------------------------------------------------------------------------
(* One merged request *)

\* Contribution.rank: fidelity, priority, serving output, canonical text.
Outranks(a, b) ==
  \/ a.fidelity > b.fidelity
  \/ a.fidelity = b.fidelity /\ a.priority > b.priority
  \/ a.fidelity = b.fidelity /\ a.priority = b.priority /\ a.output > b.output
  \/ /\ a.fidelity = b.fidelity /\ a.priority = b.priority /\ a.output = b.output
     /\ a.canon < b.canon

Winner(G) == CHOOSE c \in G : \A d \in G \ {c} : Outranks(c, d)

Least(S) == CHOOSE i \in S : \A j \in S : i <= j

\* The surviving id: the smallest among members with a message id, else the smallest.
SurvivingId(G) ==
  LET withMsg == {c \in G : message_ids(c) # {}}
  IN Least({c.id : c \in IF withMsg # {} THEN withMsg ELSE G})

\* _pick for one attribution field: the highest priority that has a value,
\* equal priority -> the smallest value.
MergedPrincipal(G) ==
  LET named == {c \in G : c.principal # NoPrincipal}
      top == {c \in named : \A d \in named : d.priority <= c.priority}
  IN IF named = {} THEN NoPrincipal ELSE Least({c.principal : c \in top})

\* The row written for a group: the usage set, and with it the start time, is the winner's.
MergedGroup(G) ==
  [rid |-> SurvivingId(G), members |-> G, winner |-> Winner(G),
   principal |-> MergedPrincipal(G), start |-> Winner(G).start]

\* merge_contributions.
GroupsOf(S, bad) == Classes([c \in S |-> join_keys(c, bad)])
MergeContributions(S, collided) ==
  {MergedGroup(G) : G \in GroupsOf(S, collided \cup Collided(S))}
=============================================================================
