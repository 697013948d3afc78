----------------------- MODULE VscodeCollectorProofs -----------------------
(***************************************************************************)
(* Proofs about the incremental extraction of agent-traces.db, for every   *)
(* set of spans, starts, conversations and window.                         *)
(***************************************************************************)
EXTENDS VscodeCollector, FiniteSetTheorems, WellFoundedInduction, TLAPS

-----------------------------------------------------------------------------
(* Least and greatest elements *)

\* A set of naturals has a least element.
LEMMA LeastNat ==
  ASSUME NEW S, S \subseteq Nat, S # {}
  PROVE  \E x \in S : \A y \in S : x <= y
<1> DEFINE less == OpToRel(<, Nat)
<1>1. \A x, y \in Nat : <<x, y>> \in less <=> x < y
  BY DEF OpToRel
<1> HIDE DEF less
<1>2. PICK x \in S : \A y \in S : ~(<<y, x>> \in less)
  BY NatLessThanWellFounded, WFMin DEF less
<1>3. \A y \in S : ~(y < x)
  BY <1>1, <1>2
<1> QED BY <1>3

\* A finite set with a total and transitive relation has a greatest element: the one that
\* the fewest elements are not below.
LEMMA GreatestOf ==
  ASSUME NEW U, IsFiniteSet(U), U # {}, NEW R,
         \A x, y \in U : <<x, y>> \in R \/ <<y, x>> \in R,
         \A x, y, z \in U : <<x, y>> \in R /\ <<y, z>> \in R => <<x, z>> \in R
  PROVE  \E x \in U : \A y \in U : <<x, y>> \in R
<1> DEFINE Above == [x \in U |-> {y \in U : <<x, y>> \notin R}]
           Rank == [x \in U |-> Cardinality(Above[x])]
<1>1. \A x \in U : Above[x] \in SUBSET U /\ IsFiniteSet(Above[x]) /\ Rank[x] = Cardinality(Above[x])
                  /\ Rank[x] \in Nat
  <2>1. \A x \in U : Above[x] \in SUBSET U
    OBVIOUS
  <2> HIDE DEF Above
  <2> QED BY <2>1, FS_Subset, FS_CardinalityType
<1> HIDE DEF Rank
<1>2. PICK x \in U : \A y \in U : Rank[x] <= Rank[y]
  <2> DEFINE S == {Rank[x] : x \in U}
  <2>1. \E n \in S : \A k \in S : n <= k
    <3>1. \A x \in U : Rank[x] \in Nat
      BY <1>1
    <3>2. S \subseteq Nat /\ S # {}
      BY <3>1
    <3> HIDE DEF S
    <3> QED BY <3>2, LeastNat
  <2> QED BY <2>1
<1>3. ASSUME NEW y \in U, <<x, y>> \notin R PROVE FALSE
  <2>1. Above[y] \subseteq Above[x] /\ Above[y] # Above[x]
    BY <1>3
  <2> HIDE DEF Above
  <2>2. Rank[y] < Rank[x]
    BY <1>1, <2>1, FS_Subset
  <2> QED BY <1>1, <1>2, <2>2
<1> QED BY <1>3

-----------------------------------------------------------------------------
(* The inductive invariant *)

\* The spans that are extracted or dropped.
Covered == Extracted \cup dropped
AllCovered == Covered \cup job.kept \cup job.drop

\* A span of the database that a run with the cursor takes.
Fresh(s, cur) == InWindow(s, cur) /\ (s > cur.mark \/ s \notin cur.recent)

\* A cursor stands on spans that ended, E, and is as small as the window.
Known(cur, E) ==
  /\ cur \in Cursors /\ Cardinality(cur.recent) <= MaxRecent
  /\ cur.mark # None => cur.mark \in cur.recent
  /\ \A s \in cur.recent : s <= cur.mark /\ Start[s] >= Start[cur.mark] - LateWindow
  /\ cur.mark \in E \cup {None} /\ cur.recent \subseteq E

\* The cursor passes over nothing in the database D but what is covered, C, or late.
Misses(cur, C, D, late) == \A s \in D : s \in C \/ s \in late \/ Fresh(s, cur)
Passes(cur, C, D, ex) == \A s \in D : s <= cur.mark => s \in C \/ s \in ex

\* What was pruned, P, and neither covered nor excused is told when the mark has passed it.
Tells(cur, C, P, ex, T) == \A s \in P : s <= cur.mark => s \in C \/ s \in ex \/ s \in T

Jobs == [stage : {"write", "done"}, kept : SUBSET Spans, drop : SUBSET Synthesized,
         next : Cursors, gap : SUBSET Spans, of : Nat]

\* A dropped span has a native one that is counted, or will be when K is.
CountedWith(s, K) == \E n \in Native : Conversation[n] = Conversation[s] /\ n \in K

BasicInv ==
  /\ db \subseteq ended /\ {ended, overdue, pruned, excused, told} \subseteq SUBSET Spans
  /\ dropped \subseteq Synthesized \cap ended
  /\ \A f \in out : f.spans # {} /\ f.spans \subseteq ended
  /\ faults \in 0 .. MaxFaults /\ removals \in 0 .. MaxRemovals
  /\ born \in 1 .. removals + 1 /\ source \in 0 .. born /\ mistaken \in BOOLEAN
  /\ \A p \in pruned, s \in db : p < s

SavedInv ==
  /\ Known(saved, ended)
  /\ Misses(saved, Covered, db, overdue)
  /\ Passes(saved, Covered, db, excused)
  /\ Tells(saved, Covered, pruned, excused, told)
  /\ saved.mark = None => pruned \subseteq excused
  /\ \A s \in dropped : CountedWith(s, Extracted \cup overdue)

JobInv ==
  /\ job \in Jobs /\ job.of \in 1 .. born /\ job.kept \cup job.drop \subseteq ended
  /\ job.stage = "write" => job.kept # {}
  /\ job.stage = "done" => job.kept \subseteq Extracted
  /\ Known(job.next, ended)
  /\ Misses(job.next, AllCovered, db, overdue)
  /\ Passes(job.next, AllCovered, db, excused)
  /\ Tells(job.next, AllCovered, pruned, excused, told \cup job.gap)
  /\ job.next.mark = None => saved.mark = None
  /\ \A s \in job.drop : CountedWith(s, Extracted \cup job.kept \cup overdue)

VscodeInv == BasicInv /\ SavedInv /\ (job = Idle \/ JobInv)

\* A span of the database D that was extracted, X, is one that the cursor knows, and the
\* cursor was read, as b, from the present database.
Knows(cur, X, D, b, now) ==
  \A s \in D : s \in X => b = now /\ s <= cur.mark /\ (InWindow(s, cur) => s \in cur.recent)

OnceInv ==
  faults = 0 /\ ~mistaken =>
    /\ \A f, g \in out : f # g => f.spans \cap g.spans = {}
    /\ (job = Idle \/ job.stage = "write") => Knows(saved, Extracted, db, source, born)
    /\ job # Idle => Knows(job.next, Extracted \cup job.kept, db, job.of, born)
    /\ job.stage = "write" => job.kept \cap Extracted = {}

-----------------------------------------------------------------------------
(* The cap on recent *)

\* A finite set of integers has a greatest element.
LEMMA MaxOf ==
  ASSUME NEW U, IsFiniteSet(U), U # {}, U \subseteq Int
  PROVE  Max(U) \in U /\ \A y \in U : y <= Max(U)
<1> DEFINE R == {z \in U \X U : z[1] >= z[2]}
<1>1. \A x, y \in U : <<x, y>> \in R <=> x >= y
  OBVIOUS
<1>2. \A x \in U : x \in Int
  OBVIOUS
<1>3. PICK x \in U : \A y \in U : <<x, y>> \in R
  <2> HIDE DEF R
  <2>1. ASSUME NEW y \in U, NEW z \in U PROVE <<y, z>> \in R \/ <<z, y>> \in R
    <3>1. y >= z \/ z >= y
      BY <1>2
    <3> QED BY <1>1, <3>1
  <2>2. \A w, y, z \in U : <<w, y>> \in R /\ <<y, z>> \in R => <<w, z>> \in R
    BY <1>1, <1>2
  <2> QED BY <2>1, <2>2, GreatestOf
<1>4. \A y \in U : x >= y
  BY <1>1, <1>3
<1> QED BY <1>4 DEF Max

LEMMA MinOf ==
  ASSUME NEW S, S \subseteq Nat, S # {}
  PROVE  Min(S) \in S /\ \A y \in S : Min(S) <= y
BY LeastNat DEF Min

LEMMA SpanFacts ==
  /\ Spans \subseteq Nat /\ IsFiniteSet(Spans) /\ None = -1 /\ None \notin Spans
  /\ Start \in [Spans -> Nat]
  /\ \A s, t \in Spans : s < t => Start[s] <= Start[t]
  /\ Native \subseteq Spans /\ Synthesized \subseteq Spans /\ Native \cap Synthesized = {}
  /\ LateWindow \in Nat /\ MaxRecent \in Nat /\ MaxRecent >= 1
  /\ MaxFaults \in Nat /\ MaxRemovals \in Nat
BY VscodeAssumption

LEMMA SpanSets ==
  ASSUME NEW S \in SUBSET Spans
  PROVE  S \subseteq Nat /\ IsFiniteSet(S) /\ Cardinality(S) \in Nat
BY SpanFacts, FS_Subset, FS_CardinalityType

\* Oldest is a span of the set, at most every other, or None for the empty set.
LEMMA OldestFacts ==
  ASSUME NEW S \in SUBSET Spans
  PROVE  /\ Oldest(S) \in S \cup {None}
         /\ S # {} => Oldest(S) \in S /\ \A s \in S : Oldest(S) <= s
BY SpanSets, MinOf DEF Oldest

\* recent never holds more than the cap.
LEMMA NewestFits ==
  ASSUME NEW S \in SUBSET Spans
  PROVE  Cardinality(Newest(S)) <= MaxRecent
<1> DEFINE N == Newest(S)
<1>0. N \in SUBSET S /\ N \in SUBSET Spans
  BY DEF Newest
<1>1. CASE N = {}
  BY <1>1, FS_EmptySet, SpanFacts
<1>2. CASE N # {}
  <2> DEFINE m == Min(N)
             above == {t \in S : t > m}
  <2>1. m \in N /\ \A y \in N : m <= y
    BY <1>0, <1>2, SpanSets, MinOf
  <2>2. Cardinality(above) < MaxRecent
    BY <2>1 DEF Newest
  <2> HIDE DEF m
  <2>3. N \subseteq above \cup {m}
    <3> SUFFICES ASSUME NEW y \in N, y # m PROVE y > m /\ y \in S
      OBVIOUS
    <3>1. y \in Nat /\ m \in Nat
      BY <1>0, <2>1, SpanFacts
    <3> QED BY <1>0, <2>1, <3>1
  <2>4. IsFiniteSet(above) /\ m \notin above
    <3>1. above \in SUBSET Spans /\ m \in Nat
      BY <1>0, <2>1, SpanFacts
    <3>2. IsFiniteSet(above)
      BY <3>1, SpanSets
    <3> QED BY <3>1, <3>2
  <2> HIDE DEF m, above, N
  <2>5. /\ IsFiniteSet(above \cup {m}) /\ Cardinality(above \cup {m}) = Cardinality(above) + 1
        /\ Cardinality(above) \in Nat
    BY <2>4, FS_AddElement, FS_CardinalityType
  <2>6. Cardinality(N) <= Cardinality(above \cup {m}) /\ Cardinality(N) \in Nat
    BY <2>3, <2>5, FS_Subset, FS_CardinalityType
  <2> QED BY <2>2, <2>5, <2>6, SpanFacts DEF N
<1> QED BY <1>1, <1>2

\* When the cap is never reached, nothing is cut off.
LEMMA NewestIsAll ==
  ASSUME Cardinality(Spans) <= MaxRecent, NEW S \in SUBSET Spans
  PROVE  Newest(S) = S
<1> SUFFICES ASSUME NEW s \in S PROVE Cardinality({t \in S : t > s}) < MaxRecent
  BY DEF Newest
<1> DEFINE above == {t \in S : t > s}
<1>1. above \subseteq Spans \ {s}
  <2> SUFFICES ASSUME NEW y \in above PROVE y \in Spans /\ y # s
    OBVIOUS
  <2>1. y \in Spans /\ y > s /\ s \in Nat
    BY SpanFacts
  <2> QED BY <2>1
<1>2. IsFiniteSet(Spans \ {s}) /\ Cardinality(Spans \ {s}) = Cardinality(Spans) - 1
  BY SpanFacts, FS_RemoveElement
<1> HIDE DEF above
<1>3. Cardinality(above) <= Cardinality(Spans) - 1 /\ Cardinality(above) \in Nat
  BY <1>1, <1>2, FS_Subset, FS_CardinalityType
<1>4. Cardinality(Spans) \in Nat
  BY SpanFacts, FS_CardinalityType
<1> QED BY <1>3, <1>4, SpanFacts DEF above

-----------------------------------------------------------------------------
(* The cursor *)

\* The cursor a run advances to: its mark passes what was processed and nothing else.
LEMMA AdvanceFacts ==
  ASSUME NEW E \in SUBSET Spans, NEW cur, Known(cur, E), NEW new \in SUBSET E,
         NEW oldest \in Spans \cup {None}
  PROVE  LET next == Advance(cur, new, oldest)
         IN /\ Known(next, E)
            /\ next.mark \in new \cup {cur.mark} /\ cur.mark <= next.mark
            /\ \A s \in new : s <= next.mark
<1> DEFINE next == Advance(cur, new, oldest)
           mark == Max(new \cup {cur.mark})
           inside == {s \in cur.recent \cup new : Start[s] >= Start[mark] - LateWindow}
<1>0. cur.mark \in E \cup {None} /\ cur.recent \subseteq E /\ cur.head \in Spans \cup {None}
      /\ cur.mark \in Spans \cup {None}
  BY DEF Known, Cursors
<1>1. mark \in new \cup {cur.mark} /\ \A y \in new \cup {cur.mark} : y <= mark
  <2>1. IsFiniteSet(new)
    BY SpanSets
  <2>2. IsFiniteSet(new \cup {cur.mark})
    BY <2>1, FS_AddElement
  <2>3. new \cup {cur.mark} \subseteq Int
    <3>1. \A s \in new : s \in Nat
      BY SpanFacts
    <3>2. cur.mark \in Nat \/ cur.mark = -1
      BY <1>0, SpanFacts
    <3> QED BY <3>1, <3>2
  <2> HIDE DEF mark
  <2> QED BY <2>2, <2>3, MaxOf DEF mark
<1>2. /\ next.mark = mark /\ next.head = (IF oldest = None THEN cur.head ELSE oldest)
      /\ next.recent = (IF new = {} THEN cur.recent ELSE Newest(inside))
      /\ next = [mark |-> next.mark, head |-> next.head, recent |-> next.recent]
  BY DEF Advance
<1> HIDE DEF next, mark
<1>3. CASE new = {}
  <2>1. mark = cur.mark /\ next.recent = cur.recent
    BY <1>1, <1>2, <1>3
  <2>2. next.head \in Spans \cup {None}
    BY <1>0, <1>2
  <2>3. next \in Cursors
    BY <1>0, <1>2, <2>1, <2>2 DEF Known, Cursors
  <2>4. Known(next, E)
    BY <1>2, <2>1, <2>3 DEF Known
  <2> QED BY <1>1, <1>2, <1>3, <2>1, <2>4 DEF next
<1>4. CASE new # {}
  <2>1. mark \in Spans
    <3>1. PICK s \in new : TRUE
      BY <1>4
    <3>2. s <= mark /\ s \in Nat
      BY <1>1, SpanFacts
    <3> QED BY <1>0, <1>1, <3>2, SpanFacts
  <2>2. mark \in E
    BY <1>0, <1>1, <2>1, SpanFacts
  <2>3. mark \in cur.recent \cup new
    BY <1>1, <2>1, SpanFacts DEF Known
  <2>4. inside \in SUBSET Spans /\ inside \subseteq E
    BY <1>0
  <2>5. mark \in inside
    <3>1. Start[mark] \in Nat
      BY <2>1, SpanFacts
    <3>2. Start[mark] >= Start[mark] - LateWindow
      BY <3>1, SpanFacts
    <3> QED BY <2>3, <3>2
  <2>6. \A s \in inside : s <= mark /\ Start[s] >= Start[mark] - LateWindow
    <3> SUFFICES ASSUME NEW s \in inside PROVE s <= mark
      OBVIOUS
    <3>1. CASE s \in new
      BY <1>1, <3>1
    <3>2. CASE s \in cur.recent
      <4>1. s <= cur.mark /\ cur.mark <= mark
        BY <1>1, <3>2 DEF Known
      <4>2. s \in Int /\ cur.mark \in Int /\ mark \in Int
        <5>1. s \in Nat /\ cur.mark \in Nat \cup {-1} /\ mark \in Nat
          BY <1>0, <2>1, <2>4, SpanFacts
        <5> QED BY <5>1
      <4> QED BY <4>1, <4>2
    <3> QED BY <3>1, <3>2
  <2> HIDE DEF inside
  <2>7. mark \in Newest(inside)
    <3>1. {t \in inside : t > mark} = {}
      <4> SUFFICES ASSUME NEW t \in inside, t > mark PROVE FALSE
        OBVIOUS
      <4>1. mark \in Nat /\ t \in Nat
        BY <2>1, <2>4, SpanFacts
      <4> QED BY <2>6, <4>1
    <3>2. Cardinality({t \in inside : t > mark}) = 0
      BY <3>1, FS_EmptySet
    <3> QED BY <2>5, <3>2, SpanFacts DEF Newest
  <2>8. Newest(inside) \subseteq inside
    BY DEF Newest
  <2>9. Cardinality(Newest(inside)) <= MaxRecent
    BY <2>4, NewestFits
  <2>10. next.recent = Newest(inside) /\ next.head \in Spans \cup {None}
    BY <1>0, <1>2, <1>4
  <2>11. next \in Cursors
    BY <1>2, <2>1, <2>4, <2>8, <2>10 DEF Cursors
  <2>12. Known(next, E)
    BY <1>2, <2>2, <2>4, <2>6, <2>7, <2>8, <2>9, <2>10, <2>11 DEF Known
  <2> QED BY <1>1, <1>2, <2>12 DEF next
<1> QED BY <1>3, <1>4

LEMMA NewFacts ==
  ASSUME NEW cur, NEW s
  PROVE  s \in New(cur) <=> s \in db /\ Fresh(s, cur)
BY DEF New, Rows, Fresh

\* Without a cursor every span is new.
LEMMA NoCursorFacts ==
  ASSUME NEW E
  PROVE  Known(NoCursor, E) /\ NoCursor.mark = -1 /\ \A s \in Spans : Fresh(s, NoCursor)
<1>1. Cardinality({}) <= MaxRecent
  BY FS_EmptySet, SpanFacts
<1>2. Known(NoCursor, E)
  BY <1>1 DEF Known, NoCursor, Cursors
<1>3. NoCursor.mark = None /\ NoCursor.recent = {}
  BY DEF NoCursor
<1>4. \A s \in Spans : Fresh(s, NoCursor)
  BY <1>3 DEF Fresh, InWindow
<1> QED BY <1>2, <1>3, <1>4, SpanFacts

LEMMA MarkFacts ==
  ASSUME NEW E, NEW cur, Known(cur, E)
  PROVE  cur.mark \in Int /\ cur.mark >= -1 /\ (cur.mark # None => cur.mark \in Spans /\ cur.mark \in Nat)
         /\ (cur.mark = None <=> cur.mark = -1) /\ cur.recent \subseteq Spans
<1>1. cur.mark \in Spans \cup {None} /\ cur.recent \subseteq Spans
  BY DEF Known, Cursors
<1>2. cur.mark \in Nat \/ cur.mark = -1
  BY <1>1, SpanFacts
<1> QED BY <1>1, <1>2, SpanFacts

\* A span above the mark starts inside the window.
LEMMA FreshAbove ==
  ASSUME NEW E, NEW cur, Known(cur, E), NEW s \in Spans, s > cur.mark
  PROVE  Fresh(s, cur)
<1>1. CASE cur.mark = None
  BY <1>1 DEF Fresh, InWindow
<1>2. CASE cur.mark # None
  <2>1. cur.mark \in Spans /\ s \in Nat /\ cur.mark \in Nat
    BY <1>2, MarkFacts, SpanFacts
  <2>2. Start[cur.mark] <= Start[s]
    BY <2>1, SpanFacts
  <2>3. Start[cur.mark] \in Nat /\ Start[s] \in Nat /\ LateWindow \in Nat
    BY <2>1, SpanFacts
  <2>4. Start[s] >= Start[cur.mark] - LateWindow
    BY <2>2, <2>3
  <2> QED BY <2>4 DEF Fresh, InWindow
<1> QED BY <1>1, <1>2

\* A span that ends in time is inside the window of every cursor.
LEMMA FreshInTime ==
  ASSUME NEW E \in SUBSET Spans, NEW cur, Known(cur, E), NEW s \in Spans, s \notin E,
         ~ \E t \in E : Start[s] < Start[t] - LateWindow
  PROVE  Fresh(s, cur)
<1>1. s \notin cur.recent
  BY DEF Known
<1>2. CASE cur.mark = None
  BY <1>1, <1>2 DEF Fresh, InWindow
<1>3. CASE cur.mark # None
  <2>1. cur.mark \in E
    BY <1>3 DEF Known
  <2>2. ~(Start[s] < Start[cur.mark] - LateWindow)
    BY <2>1
  <2>3. Start[cur.mark] \in Nat /\ Start[s] \in Nat /\ LateWindow \in Nat
    BY <2>1, SpanFacts
  <2>4. Start[s] >= Start[cur.mark] - LateWindow
    BY <2>2, <2>3
  <2> QED BY <1>1, <2>4 DEF Fresh, InWindow
<1> QED BY <1>2, <1>3

-----------------------------------------------------------------------------
(* Steps of VS Code *)

\* One cursor, saved or of the run, when a span is inserted that is late or in time, and
\* excused or above the mark.
InsertFits(E, cur, C, D, late, ex, s, late2, ex2) ==
  /\ E \subseteq Spans /\ Known(cur, E) /\ s \in Spans \ E
  /\ Misses(cur, C, D, late) /\ Passes(cur, C, D, ex)
  /\ late \subseteq late2 /\ ex \subseteq ex2
  /\ s \in late2 \/ ~ \E t \in E : Start[s] < Start[t] - LateWindow
  /\ s \in ex2 \/ s >= cur.mark

LEMMA CursorInsert ==
  ASSUME NEW E, NEW cur, NEW C, NEW D, NEW late, NEW ex, NEW s, NEW late2, NEW ex2,
         InsertFits(E, cur, C, D, late, ex, s, late2, ex2)
  PROVE  /\ Known(cur, E \cup {s})
         /\ Misses(cur, C, D \cup {s}, late2) /\ Passes(cur, C, D \cup {s}, ex2)
<1> USE DEF InsertFits
<1>1. Known(cur, E \cup {s})
  BY DEF Known
<1>2. s \in late2 \/ Fresh(s, cur)
  BY FreshInTime
<1>3. Misses(cur, C, D \cup {s}, late2)
  BY <1>2 DEF Misses
<1>4. s <= cur.mark => s \in ex2
  <2> SUFFICES ASSUME s <= cur.mark, s >= cur.mark PROVE FALSE
    OBVIOUS
  <2>1. s \in Nat /\ cur.mark \in Int
    BY MarkFacts, SpanFacts
  <2>2. s = cur.mark
    BY <2>1
  <2>3. cur.mark \in E
    BY <2>2, SpanFacts DEF Known
  <2> QED BY <2>2, <2>3
<1>5. Passes(cur, C, D \cup {s}, ex2)
  BY <1>4 DEF Passes
<1> QED BY <1>1, <1>3, <1>5

LEMMA TellsMore ==
  ASSUME NEW cur, NEW C, NEW P, NEW ex, NEW T, Tells(cur, C, P, ex, T),
         NEW C2, NEW ex2, NEW T2, C \subseteq C2, ex \subseteq ex2, T \subseteq T2
  PROVE  Tells(cur, C2, P, ex2, T2)
BY DEF Tells

LEMMA CountedMore ==
  ASSUME NEW s, NEW K, NEW L, K \subseteq L, CountedWith(s, K)
  PROVE  CountedWith(s, L)
BY DEF CountedWith

LEMMA InsertStep ==
  ASSUME VscodeInv, NEW s \in Spans, Insert(s)
  PROVE  VscodeInv'
<1>0. /\ ended \in SUBSET Spans /\ s \notin ended /\ db' = db \cup {s} /\ ended' = ended \cup {s}
      /\ s \in overdue' \/ ~ \E t \in ended : Start[s] < Start[t] - LateWindow
      /\ overdue \subseteq overdue' /\ overdue' \subseteq overdue \cup {s}
      /\ excused \subseteq excused' /\ excused' \subseteq excused \cup {s}
      /\ s < MarkAhead => s \in excused'
      /\ \A p \in pruned : p < s
  BY DEF VscodeInv, BasicInv, Insert
<1>1. UNCHANGED <<saved, job, out, dropped, told, faults, source, mistaken, removals, born, pruned>>
  BY DEF Insert, runVars
<1>2. Extracted' = Extracted /\ Covered' = Covered
  BY <1>1 DEF Extracted, Covered
<1>3. BasicInv'
  BY <1>0, <1>1 DEF VscodeInv, BasicInv
<1>4. Known(saved, ended) /\ (job = Idle \/ (job # Idle /\ Known(job.next, ended)))
  BY DEF VscodeInv, SavedInv, JobInv
<1>5. s \in excused' \/ (s >= saved.mark /\ (job # Idle => s >= job.next.mark))
  <2>1. s \in Nat /\ saved.mark \in Int
    BY <1>4, MarkFacts, SpanFacts
  <2>2. CASE job = Idle
    <3>1. s < saved.mark => s \in excused'
      BY <1>0, <2>2 DEF MarkAhead
    <3> QED BY <2>1, <2>2, <3>1
  <2>3. CASE job # Idle
    <3> DEFINE M == {saved.mark, job.next.mark}
    <3>1. job.next.mark \in Int
      BY <1>4, <2>3, MarkFacts
    <3>2. IsFiniteSet(M)
      <4>1. IsFiniteSet({saved.mark}) /\ M = {saved.mark} \cup {job.next.mark}
        BY FS_Singleton
      <4> QED BY <4>1, FS_AddElement
    <3>3. M # {} /\ M \subseteq Int
      BY <2>1, <3>1
    <3>4. Max(M) \in M /\ \A y \in M : y <= Max(M)
      <4> HIDE DEF M
      <4> QED BY <3>2, <3>3, MaxOf
    <3>5. saved.mark <= Max(M) /\ job.next.mark <= Max(M) /\ Max(M) \in Int
      BY <2>1, <3>1, <3>4
    <3>6. s < Max(M) => s \in excused'
      BY <1>0, <2>3 DEF MarkAhead
    <3> HIDE DEF M
    <3> QED BY <2>1, <3>1, <3>5, <3>6
  <2> QED BY <2>2, <2>3
<1>6. SavedInv'
  <2>1. /\ Known(saved, ended \cup {s}) /\ Misses(saved, Covered, db \cup {s}, overdue')
        /\ Passes(saved, Covered, db \cup {s}, excused')
    <3>1. InsertFits(ended, saved, Covered, db, overdue, excused, s, overdue', excused')
      BY <1>0, <1>4, <1>5 DEF VscodeInv, SavedInv, InsertFits
    <3> QED BY <3>1, CursorInsert
  <2>2. Tells(saved, Covered, pruned, excused', told)
    BY <1>0, TellsMore DEF VscodeInv, SavedInv
  <2>3. \A x \in dropped : CountedWith(x, Extracted \cup overdue')
    BY <1>0, CountedMore DEF VscodeInv, SavedInv
  <2>4. saved.mark = None => pruned \subseteq excused'
    BY <1>0 DEF VscodeInv, SavedInv
  <2> QED BY <1>0, <1>1, <1>2, <2>1, <2>2, <2>3, <2>4 DEF SavedInv
<1>7. job # Idle => JobInv'
  <2> SUFFICES ASSUME job # Idle PROVE JobInv'
    OBVIOUS
  <2>0. JobInv
    BY DEF VscodeInv
  <2>1. /\ Known(job.next, ended \cup {s}) /\ Misses(job.next, AllCovered, db \cup {s}, overdue')
        /\ Passes(job.next, AllCovered, db \cup {s}, excused')
    <3>1. InsertFits(ended, job.next, AllCovered, db, overdue, excused, s, overdue', excused')
      BY <1>0, <1>4, <1>5, <2>0 DEF JobInv, InsertFits
    <3> QED BY <3>1, CursorInsert
  <2>2. Tells(job.next, AllCovered, pruned, excused', told \cup job.gap)
    BY <1>0, <2>0, TellsMore DEF JobInv
  <2>3. \A x \in job.drop : CountedWith(x, Extracted \cup job.kept \cup overdue')
    BY <1>0, <2>0, CountedMore DEF JobInv
  <2>4. AllCovered' = AllCovered
    BY <1>1, <1>2 DEF AllCovered
  <2> QED BY <1>0, <1>1, <1>2, <2>0, <2>1, <2>2, <2>3, <2>4 DEF JobInv
<1> QED BY <1>1, <1>3, <1>6, <1>7 DEF VscodeInv

\* One cursor when the oldest span m leaves the database: it is pruned or evicted.
LEMMA CursorLess ==
  ASSUME NEW cur, NEW C, NEW D, NEW D2, NEW late, NEW ex, D2 \subseteq D,
         Misses(cur, C, D, late), Passes(cur, C, D, ex)
  PROVE  Misses(cur, C, D2, late) /\ Passes(cur, C, D2, ex)
BY DEF Misses, Passes

LEMMA PassesMore ==
  ASSUME NEW cur, NEW C, NEW D, NEW ex, NEW ex2, ex \subseteq ex2, Passes(cur, C, D, ex)
  PROVE  Passes(cur, C, D, ex2)
BY DEF Passes

\* A pruned span that the mark has passed was covered or is excused.
LEMMA TellsPruned ==
  ASSUME NEW cur, NEW C, NEW D, NEW P, NEW ex, NEW T, NEW m \in D,
         Passes(cur, C, D, ex), Tells(cur, C, P, ex, T)
  PROVE  Tells(cur, C, P \cup {m}, ex, T)
BY DEF Passes, Tells

LEMMA PruneStep ==
  ASSUME VscodeInv, Prune
  PROVE  VscodeInv'
<1> DEFINE m == Min(db)
<1>0. /\ db' = db \ {m} /\ pruned' = pruned \cup {m} /\ db # {}
      /\ excused \subseteq excused' /\ excused' \subseteq excused \cup {m}
      /\ saved.mark = None => m \in excused'
      /\ db \subseteq Spans
  BY DEF VscodeInv, BasicInv, Prune
<1>1. UNCHANGED <<saved, job, out, dropped, told, faults, source, mistaken, removals, born, ended, overdue>>
  BY DEF Prune, runVars
<1>2. m \in db /\ m \in Spans /\ \A y \in db : m <= y
  <2>1. db \subseteq Nat
    BY <1>0, SpanFacts
  <2> QED BY <1>0, <2>1, MinOf
<1> HIDE DEF m
<1>3. \A y \in db' : m < y
  <2> SUFFICES ASSUME NEW y \in db, y # m PROVE m < y
    BY <1>0
  <2>1. m \in Nat /\ y \in Nat /\ m <= y
    BY <1>0, <1>2, SpanFacts
  <2> QED BY <2>1
<1>4. Extracted' = Extracted /\ Covered' = Covered
  BY <1>1 DEF Extracted, Covered
<1>5. BasicInv'
  BY <1>0, <1>1, <1>2, <1>3 DEF VscodeInv, BasicInv
<1>6. SavedInv'
  <2>1. /\ Known(saved, ended) /\ Misses(saved, Covered, db, overdue)
        /\ Passes(saved, Covered, db, excused) /\ Tells(saved, Covered, pruned, excused, told)
    BY DEF VscodeInv, SavedInv
  <2>2. Passes(saved, Covered, db, excused')
    BY <1>0, <2>1, PassesMore
  <2>3. Tells(saved, Covered, pruned, excused', told)
    BY <1>0, <2>1, TellsMore
  <2>4. Tells(saved, Covered, pruned', excused', told)
    BY <1>0, <1>2, <2>2, <2>3, TellsPruned
  <2>5. Misses(saved, Covered, db', overdue) /\ Passes(saved, Covered, db', excused')
    BY <1>0, <2>1, <2>2, CursorLess
  <2>6. saved.mark = None => pruned' \subseteq excused'
    BY <1>0 DEF VscodeInv, SavedInv
  <2>7. \A s \in dropped : CountedWith(s, Extracted \cup overdue)
    BY DEF VscodeInv, SavedInv
  <2> QED BY <1>1, <1>4, <2>1, <2>4, <2>5, <2>6, <2>7 DEF SavedInv
<1>7. job # Idle => JobInv'
  <2> SUFFICES ASSUME job # Idle PROVE JobInv'
    OBVIOUS
  <2>0. JobInv
    BY DEF VscodeInv
  <2>1. /\ Known(job.next, ended) /\ Misses(job.next, AllCovered, db, overdue)
        /\ Passes(job.next, AllCovered, db, excused)
        /\ Tells(job.next, AllCovered, pruned, excused, told \cup job.gap)
    BY <2>0 DEF JobInv
  <2>2. Passes(job.next, AllCovered, db, excused')
    BY <1>0, <2>1, PassesMore
  <2>3. Tells(job.next, AllCovered, pruned, excused', told \cup job.gap)
    BY <1>0, <2>1, TellsMore
  <2>4. Tells(job.next, AllCovered, pruned', excused', told \cup job.gap)
    BY <1>0, <1>2, <2>2, <2>3, TellsPruned
  <2>5. Misses(job.next, AllCovered, db', overdue) /\ Passes(job.next, AllCovered, db', excused')
    BY <1>0, <2>1, <2>2, CursorLess
  <2>6. AllCovered' = AllCovered
    BY <1>1, <1>4 DEF AllCovered
  <2> QED BY <1>1, <1>4, <2>0, <2>1, <2>4, <2>5, <2>6 DEF JobInv
<1> QED BY <1>1, <1>5, <1>6, <1>7 DEF VscodeInv

\* A conversation is evicted, or the database removed.
LEMMA RemoveStep ==
  ASSUME VscodeInv, NEW s, Evict(s) \/ Recreate
  PROVE  VscodeInv'
<1>0. db' \subseteq db /\ removals < MaxRemovals /\ removals' = removals + 1
      /\ (born' = born \/ born' = born + 1)
  BY DEF Evict, Recreate
<1>1. UNCHANGED <<saved, job, out, dropped, told, faults, source, mistaken, ended, overdue, pruned, excused>>
  BY DEF Evict, Recreate, runVars
<1>2. Extracted' = Extracted /\ Covered' = Covered
  BY <1>1 DEF Extracted, Covered
<1>3. BasicInv'
  BY <1>0, <1>1, SpanFacts DEF VscodeInv, BasicInv
<1>4. SavedInv'
  <2>1. Misses(saved, Covered, db', overdue) /\ Passes(saved, Covered, db', excused)
    BY <1>0, CursorLess DEF VscodeInv, SavedInv
  <2> QED BY <1>1, <1>2, <2>1 DEF VscodeInv, SavedInv
<1>5. job # Idle => JobInv'
  <2> SUFFICES ASSUME job # Idle PROVE JobInv'
    OBVIOUS
  <2>0. JobInv
    BY DEF VscodeInv
  <2>1. Misses(job.next, AllCovered, db', overdue) /\ Passes(job.next, AllCovered, db', excused)
    BY <1>0, <2>0, CursorLess DEF JobInv
  <2>2. AllCovered' = AllCovered
    BY <1>1, <1>2 DEF AllCovered
  <2>3. job.of \in 1 .. born'
    BY <1>0, <2>0, SpanFacts DEF JobInv, VscodeInv, BasicInv
  <2> QED BY <1>1, <1>2, <2>0, <2>1, <2>2, <2>3 DEF JobInv
<1> QED BY <1>1, <1>3, <1>4, <1>5 DEF VscodeInv

-----------------------------------------------------------------------------
(* Steps of a run *)

\* The cursor a run starts from.
Begin == IF recreated(saved) THEN NoCursor ELSE saved
Fetched == New(Begin)
Duplicates == dedupe_rows(Rows(Begin), Fetched)
Ahead == Advance(Begin, Fetched, Oldest(db))

LEMMA BeginFacts ==
  ASSUME VscodeInv
  PROVE  /\ Known(Begin, ended) /\ Fetched \in SUBSET ended /\ Fetched \subseteq db
         /\ \A s \in db : s \in Covered \cup overdue \cup Fetched
         /\ Begin.mark <= saved.mark
         /\ \A s \in db : s > Begin.mark => s \in Fetched
         /\ Begin # saved => Begin = NoCursor /\ Begin.mark = -1 /\ db # {} /\ Fetched = db
                             /\ Oldest(db) <= saved.mark
<1>0. db \subseteq ended /\ ended \subseteq Spans /\ Known(saved, ended)
      /\ Misses(saved, Covered, db, overdue)
  BY DEF VscodeInv, BasicInv, SavedInv
<1>1. \A s : s \in Fetched <=> s \in db /\ Fresh(s, Begin)
  BY NewFacts DEF Fetched
<1>2. Fetched \subseteq db /\ Fetched \in SUBSET ended
  BY <1>0, <1>1
<1>3. Known(Begin, ended)
  BY <1>0, NoCursorFacts DEF Begin
<1>4. \A s \in db : s > Begin.mark => s \in Fetched
  BY <1>0, <1>1, <1>3, FreshAbove
<1>5. CASE Begin = saved
  <2>1. \A s \in db : s \in Covered \cup overdue \cup Fetched
    BY <1>0, <1>1, <1>5 DEF Misses
  <2>2. saved.mark <= saved.mark
    BY <1>0, MarkFacts
  <2> QED BY <1>2, <1>3, <1>4, <1>5, <2>1, <2>2
<1>6. CASE Begin # saved
  <2>1. Begin = NoCursor /\ recreated(saved)
    BY <1>6 DEF Begin
  <2>2. Fetched = db
    BY <1>0, <1>1, <2>1, NoCursorFacts
  <2>3. Begin.mark = -1 /\ saved.mark >= -1
    BY <1>0, <2>1, NoCursorFacts, MarkFacts
  <2>4. Oldest(db) # None /\ Oldest(db) <= saved.mark
    BY <2>1 DEF recreated
  <2>5. db # {}
    BY <2>4 DEF Oldest
  <2> QED BY <1>2, <1>3, <1>4, <2>1, <2>2, <2>3, <2>4, <2>5
<1> QED BY <1>5, <1>6

\* What the run will have told, when it is over, of the pruned spans it passes.
LEMMA AheadTells ==
  ASSUME VscodeInv
  PROVE  /\ Tells(Ahead, Covered \cup Fetched, pruned, excused, told \cup Gap(Begin, Oldest(db)))
         /\ Ahead.mark = None => saved.mark = None
         /\ Known(Ahead, ended) /\ Ahead.mark \in Fetched \cup {Begin.mark}
         /\ Begin.mark <= Ahead.mark /\ \A s \in Fetched : s <= Ahead.mark
<1>0. /\ db \subseteq ended /\ ended \in SUBSET Spans /\ db \in SUBSET Spans /\ pruned \subseteq Spans
      /\ Known(saved, ended) /\ Tells(saved, Covered, pruned, excused, told)
      /\ saved.mark = None => pruned \subseteq excused
      /\ \A p \in pruned, s \in db : p < s
  BY DEF VscodeInv, BasicInv, SavedInv
<1>1. Oldest(db) \in Spans \cup {None}
  BY <1>0, OldestFacts
<1>2. /\ Known(Ahead, ended) /\ Ahead.mark \in Fetched \cup {Begin.mark}
      /\ Begin.mark <= Ahead.mark /\ \A s \in Fetched : s <= Ahead.mark
  BY <1>0, <1>1, BeginFacts, AdvanceFacts DEF Ahead
<1>3. saved.mark \in Int /\ Begin.mark \in Int /\ Ahead.mark \in Int
  BY <1>0, <1>2, BeginFacts, MarkFacts
<1>4. Ahead.mark = None => saved.mark = None
  <2> SUFFICES ASSUME Ahead.mark = None PROVE saved.mark = None
    OBVIOUS
  <2>1. CASE Begin = saved
    <3>1. saved.mark <= -1 /\ saved.mark >= -1
      BY <1>0, <1>2, <2>1, SpanFacts, MarkFacts
    <3> QED BY <1>3, <3>1, SpanFacts
  <2>2. CASE Begin # saved
    <3>1. PICK s \in db : s <= -1
      BY <1>2, <2>2, BeginFacts, SpanFacts
    <3>2. s \in Nat
      BY <1>0, SpanFacts
    <3> QED BY <3>1, <3>2
  <2> QED BY <2>1, <2>2
<1>5. ASSUME NEW p \in pruned, p <= Ahead.mark
      PROVE  p \in Covered \/ p \in excused \/ p \in told \/ p \in Gap(Begin, Oldest(db))
  <2>0. p \in Nat /\ p \in Spans
    BY <1>0, SpanFacts
  <2>1. CASE p <= saved.mark
    BY <1>0, <2>1 DEF Tells
  <2>2. CASE saved.mark = None
    BY <1>0, <2>2
  <2>3. CASE p > saved.mark /\ saved.mark # None
    <3>1. db # {}
      <4> SUFFICES ASSUME db = {} PROVE FALSE
        OBVIOUS
      <4>1. Begin = saved /\ Fetched = {}
        BY BeginFacts
      <4>2. Ahead.mark = saved.mark
        BY <1>2, <4>1
      <4> QED BY <1>3, <1>5, <2>0, <2>3, <4>2
    <3>2. Oldest(db) \in db
      BY <1>0, <3>1, OldestFacts
    <3>3. p < Oldest(db) /\ Oldest(db) \in Nat
      BY <1>0, <3>2, SpanFacts
    <3>4. Begin = saved
      <4> SUFFICES ASSUME Begin # saved PROVE FALSE
        OBVIOUS
      <4>1. Oldest(db) <= saved.mark
        BY BeginFacts
      <4> QED BY <1>3, <2>0, <2>3, <3>3, <4>1
    <3>5. saved.mark < p
      BY <1>3, <2>0, <2>3
    <3> QED BY <2>0, <2>3, <3>3, <3>4, <3>5 DEF Gap
  <2> QED BY <1>3, <2>0, <2>1, <2>2, <2>3
<1>6. Tells(Ahead, Covered \cup Fetched, pruned, excused, told \cup Gap(Begin, Oldest(db)))
  BY <1>5 DEF Tells
<1> QED BY <1>2, <1>4, <1>6

\* BasicInv and SavedInv when only the run and the history of restarts change.
LEMMA SavedSame ==
  ASSUME VscodeInv, UNCHANGED <<db, ended, overdue, pruned, excused, saved, out, dropped, told,
                                removals, born, source>>,
         faults' \in 0 .. MaxFaults, mistaken' \in BOOLEAN
  PROVE  BasicInv' /\ SavedInv' /\ Extracted' = Extracted /\ Covered' = Covered
<1>1. Extracted' = Extracted /\ Covered' = Covered
  BY DEF Extracted, Covered
<1>2. BasicInv'
  BY DEF VscodeInv, BasicInv
<1>3. SavedInv'
  BY <1>1 DEF VscodeInv, SavedInv
<1> QED BY <1>1, <1>2, <1>3

LEMMA ReadUnfold ==
  ASSUME Read
  PROVE  /\ job' = [stage |-> IF Fetched = Duplicates THEN "done" ELSE "write",
                    kept |-> Fetched \ Duplicates, drop |-> Duplicates,
                    next |-> Ahead, gap |-> Gap(Begin, Oldest(db)), of |-> born]
         /\ mistaken' = (mistaken \/ (recreated(saved) /\ source = born))
         /\ job = Idle
         /\ UNCHANGED <<vsVars, saved, out, dropped, told, faults, source, excused>>
BY DEF Read, Fetched, Duplicates, Ahead, Begin

\* A synthesized span is dropped for a native one that is in an extract, overdue or kept.
LEMMA DuplicatesCounted ==
  ASSUME VscodeInv, NEW s \in Duplicates
  PROVE  CountedWith(s, Extracted \cup (Fetched \ Duplicates) \cup overdue)
<1>1. PICK n \in Rows(Begin) \cap Native : Conversation[n] = Conversation[s]
  BY DEF Duplicates, dedupe_rows
<1>2. n \in db /\ n \in Native
  BY <1>1 DEF Rows
<1>3. n \notin dropped /\ n \notin Duplicates
  BY <1>2, SpanFacts DEF VscodeInv, BasicInv, Duplicates, dedupe_rows
<1>4. n \in Covered \cup overdue \cup Fetched
  BY <1>2, BeginFacts
<1>5. n \in Extracted \cup (Fetched \ Duplicates) \cup overdue
  BY <1>3, <1>4 DEF Covered
<1> QED BY <1>1, <1>2, <1>5 DEF CountedWith

LEMMA ReadStep ==
  ASSUME VscodeInv, Read
  PROVE  VscodeInv'
<1>0. UNCHANGED <<db, ended, overdue, pruned, excused, saved, out, dropped, told, removals,
                  born, source>> /\ faults' = faults
  BY ReadUnfold DEF vsVars
<1>1. /\ job'.stage = (IF Fetched = Duplicates THEN "done" ELSE "write")
      /\ job'.kept = Fetched \ Duplicates /\ job'.drop = Duplicates /\ job'.next = Ahead
      /\ job'.gap = Gap(Begin, Oldest(db)) /\ job'.of = born
      /\ job' = [stage |-> job'.stage, kept |-> job'.kept, drop |-> job'.drop,
                 next |-> job'.next, gap |-> job'.gap, of |-> job'.of]
  BY ReadUnfold
<1>2. mistaken' \in BOOLEAN /\ faults' \in 0 .. MaxFaults
  BY <1>0, ReadUnfold DEF VscodeInv, BasicInv
<1>3. BasicInv' /\ SavedInv' /\ Extracted' = Extracted /\ Covered' = Covered
  BY <1>0, <1>2, SavedSame
<1>4. Duplicates \subseteq Fetched /\ Duplicates \subseteq Synthesized
  BY DEF Duplicates, dedupe_rows
<1>5. /\ Fetched \subseteq ended /\ Fetched \subseteq db /\ Fetched \subseteq Spans
      /\ Gap(Begin, Oldest(db)) \subseteq Spans /\ born \in Nat /\ born \in 1 .. born
  BY BeginFacts DEF VscodeInv, BasicInv, Gap
<1>6. Known(Ahead, ended) /\ Ahead \in Cursors
  BY AheadTells DEF Known
<1>7. AllCovered' = Covered \cup Fetched
  BY <1>1, <1>3, <1>4 DEF AllCovered
<1>8. job' \in Jobs
  BY <1>1, <1>4, <1>5, <1>6 DEF Jobs
<1>9. Misses(Ahead, Covered \cup Fetched, db, overdue)
  BY BeginFacts DEF Misses
<1>10. Passes(Ahead, Covered \cup Fetched, db, excused)
  <2> SUFFICES ASSUME NEW s \in db, s \notin Fetched, s \notin excused PROVE s \in Covered
    BY DEF Passes
  <2>1. s \in Nat /\ Begin.mark \in Int /\ saved.mark \in Int
    <3>1. db \subseteq Spans /\ Known(saved, ended)
      BY DEF VscodeInv, BasicInv, SavedInv
    <3> QED BY <3>1, BeginFacts, MarkFacts, SpanFacts
  <2>2. ~(s > Begin.mark)
    BY BeginFacts
  <2>3. s <= saved.mark
    BY <2>1, <2>2, BeginFacts
  <2> QED BY <2>3 DEF VscodeInv, SavedInv, Passes
<1>11. \A s \in Duplicates : CountedWith(s, Extracted \cup (Fetched \ Duplicates) \cup overdue)
  BY DuplicatesCounted
<1>12. JobInv'
  <2>1. job'.stage = "write" => job'.kept # {}
    BY <1>1, <1>4
  <2>2. job'.stage = "done" => job'.kept \subseteq Extracted'
    BY <1>1
  <2>3. Tells(Ahead, Covered \cup Fetched, pruned, excused, told \cup Gap(Begin, Oldest(db)))
        /\ (Ahead.mark = None => saved.mark = None)
    BY AheadTells
  <2> QED BY <1>0, <1>1, <1>3, <1>4, <1>5, <1>6, <1>7, <1>8, <1>9, <1>10, <1>11, <2>1, <2>2, <2>3
          DEF JobInv
<1> QED BY <1>3, <1>12 DEF VscodeInv

\* The extract adds the spans that were kept.
LEMMA ExtractUnfold ==
  ASSUME WriteExtract, job \in Jobs
  PROVE  /\ Extracted' = Extracted \cup job.kept
         /\ job' = [job EXCEPT !.stage = "done"] /\ job.stage = "write"
         /\ \A f \in out' : f \in out \/ f.spans = job.kept
         /\ out \subseteq out'
         /\ \E f \in out' : f.spans = job.kept
         /\ \A f, g \in out' : f \notin out /\ g \notin out => f = g
         /\ UNCHANGED <<vsVars, saved, dropped, told, faults, source, excused, mistaken>>
<1>1. out' = publish(job.kept)
  BY DEF WriteExtract
<1>2. PICK r : out' = out \cup {r} /\ r.spans = job.kept
  <2> DEFINE a == Start[Min(job.kept)]
             b == Start[Max(job.kept)]
             row == [start |-> a, end |-> b,
                     n |-> Cardinality({f \in out : f.start = a /\ f.end = b}) + 1,
                     spans |-> job.kept]
  <2>1. publish(job.kept) = out \cup {row}
    BY DEF publish
  <2>2. row.spans = job.kept
    OBVIOUS
  <2> HIDE DEF row
  <2> QED BY <1>1, <2>1, <2>2
<1>3. Extracted' = Extracted \cup job.kept
  BY <1>2 DEF Extracted
<1> QED BY <1>2, <1>3 DEF WriteExtract

LEMMA WriteStep ==
  ASSUME VscodeInv, WriteExtract
  PROVE  VscodeInv'
<1>0. job # Idle /\ JobInv /\ job \in Jobs
  BY DEF WriteExtract, VscodeInv, JobInv, Idle
<1>1. /\ Extracted' = Extracted \cup job.kept /\ job' = [job EXCEPT !.stage = "done"]
      /\ \A f \in out' : f \in out \/ f.spans = job.kept
      /\ job.stage = "write"
      /\ UNCHANGED <<db, removals, born, ended, overdue, pruned, saved, dropped, told, faults,
                     source, excused, mistaken>>
  BY <1>0, ExtractUnfold DEF vsVars
<1>2. /\ job'.stage = "done" /\ job'.kept = job.kept /\ job'.drop = job.drop
      /\ job'.next = job.next /\ job'.gap = job.gap /\ job'.of = job.of /\ job' \in Jobs
  BY <1>0, <1>1 DEF Jobs
<1>3. Covered' = Covered \cup job.kept /\ AllCovered' = AllCovered
  BY <1>1, <1>2 DEF Covered, AllCovered
<1>4. BasicInv'
  <2>1. job.kept # {} /\ job.kept \subseteq ended
    BY <1>0, <1>1 DEF JobInv
  <2> QED BY <1>1, <2>1 DEF VscodeInv, BasicInv
<1>5. SavedInv'
  <2>1. Misses(saved, Covered \cup job.kept, db, overdue)
    BY DEF VscodeInv, SavedInv, Misses
  <2>2. Passes(saved, Covered \cup job.kept, db, excused)
    BY DEF VscodeInv, SavedInv, Passes
  <2>3. Tells(saved, Covered \cup job.kept, pruned, excused, told)
    BY DEF VscodeInv, SavedInv, Tells
  <2>4. \A s \in dropped : CountedWith(s, Extracted' \cup overdue)
    BY <1>1, CountedMore DEF VscodeInv, SavedInv
  <2> QED BY <1>1, <1>3, <2>1, <2>2, <2>3, <2>4 DEF VscodeInv, SavedInv
<1>6. JobInv'
  <2>1. \A s \in job.drop : CountedWith(s, Extracted' \cup job.kept \cup overdue)
    BY <1>0, <1>1, CountedMore DEF JobInv
  <2> QED BY <1>0, <1>1, <1>2, <1>3, <2>1 DEF JobInv
<1> QED BY <1>4, <1>5, <1>6 DEF VscodeInv

\* The run ends without a result: aborted or crashed.
LEMMA EndStep ==
  ASSUME VscodeInv, Abort \/ Crash
  PROVE  VscodeInv'
<1>1. UNCHANGED <<db, ended, overdue, pruned, excused, saved, out, dropped, told, removals,
                  born, source, mistaken>> /\ job' = Idle
  BY DEF Abort, Crash, vsVars
<1>2. faults' \in 0 .. MaxFaults /\ mistaken' \in BOOLEAN
  BY <1>1, SpanFacts DEF Abort, Crash, VscodeInv, BasicInv
<1> QED BY <1>1, <1>2, SavedSame DEF VscodeInv

LEMMA SaveStep ==
  ASSUME VscodeInv, Save
  PROVE  VscodeInv'
<1>0. job # Idle /\ JobInv
  BY DEF Save, VscodeInv, Idle
<1>1. /\ saved' = job.next /\ dropped' = dropped \cup job.drop /\ told' = told \cup job.gap
      /\ source' = job.of /\ job' = Idle /\ job.stage = "done"
      /\ UNCHANGED <<db, removals, born, ended, overdue, pruned, out, faults, excused, mistaken>>
  BY DEF Save, vsVars
<1>2. Extracted' = Extracted /\ job.kept \subseteq Extracted
  BY <1>0, <1>1 DEF Extracted, JobInv
<1>3. Covered' = AllCovered
  BY <1>1, <1>2 DEF Covered, AllCovered
<1>4. BasicInv'
  <2>1. job.drop \subseteq Synthesized \cap ended /\ job.gap \subseteq Spans /\ job.of \in 0 .. born
    BY <1>0 DEF JobInv, Jobs
  <2> QED BY <1>1, <2>1 DEF VscodeInv, BasicInv
<1>5. SavedInv'
  <2>1. \A s \in dropped \cup job.drop : CountedWith(s, Extracted \cup overdue)
    <3>1. Extracted \cup job.kept \cup overdue = Extracted \cup overdue
      BY <1>2
    <3> QED BY <1>0, <3>1 DEF JobInv, VscodeInv, SavedInv
  <2>2. job.next.mark = None => pruned \subseteq excused
    BY <1>0 DEF JobInv, VscodeInv, SavedInv
  <2> QED BY <1>0, <1>1, <1>2, <1>3, <2>1, <2>2 DEF SavedInv, JobInv
<1> QED BY <1>1, <1>4, <1>5 DEF VscodeInv

LEMMA LoseStep ==
  ASSUME VscodeInv, LoseState
  PROVE  VscodeInv'
<1>1. /\ saved' = NoCursor /\ excused' = excused \cup pruned /\ job' = Idle
      /\ faults' \in 0 .. MaxFaults
      /\ UNCHANGED <<db, removals, born, ended, overdue, pruned, out, dropped, told, source, mistaken>>
  BY SpanFacts DEF LoseState, vsVars, VscodeInv, BasicInv
<1>2. Extracted' = Extracted /\ Covered' = Covered
  BY <1>1 DEF Extracted, Covered
<1>3. BasicInv'
  BY <1>1 DEF VscodeInv, BasicInv
<1>4. Known(NoCursor, ended) /\ NoCursor.mark = -1 /\ \A s \in Spans : Fresh(s, NoCursor)
  BY NoCursorFacts
<1>5. db \subseteq Spans /\ pruned \subseteq Spans
  BY DEF VscodeInv, BasicInv
<1>6. Misses(NoCursor, Covered, db, overdue)
  BY <1>4, <1>5 DEF Misses
<1>7. ASSUME NEW s \in Spans PROVE ~(s <= NoCursor.mark)
  <2>1. s \in Nat
    BY SpanFacts
  <2> QED BY <1>4, <2>1
<1>8. Passes(NoCursor, Covered, db, excused') /\ Tells(NoCursor, Covered, pruned, excused', told)
  BY <1>5, <1>7 DEF Passes, Tells
<1>9. SavedInv'
  BY <1>1, <1>2, <1>4, <1>6, <1>8 DEF VscodeInv, SavedInv
<1> QED BY <1>1, <1>3, <1>9 DEF VscodeInv

LEMMA VscodeStep ==
  ASSUME VscodeInv, [Next]_vars
  PROVE  VscodeInv'
<1>1. ASSUME NEW s \in Spans, Insert(s) \/ Evict(s) PROVE VscodeInv'
  BY <1>1, InsertStep, RemoveStep
<1>2. CASE Prune \/ Recreate
  BY <1>2, PruneStep, RemoveStep
<1>3. CASE Read \/ WriteExtract \/ Abort \/ Save \/ Crash \/ LoseState
  BY <1>3, ReadStep, WriteStep, EndStep, SaveStep, LoseStep
<1>4. CASE UNCHANGED vars
  <2>1. UNCHANGED <<db, ended, overdue, pruned, excused, saved, out, dropped, told, removals, born,
                    source, job, faults, mistaken>>
    BY <1>4 DEF vars, vsVars, runVars
  <2>2. BasicInv' /\ SavedInv' /\ Extracted' = Extracted /\ Covered' = Covered
    BY <2>1, SavedSame DEF VscodeInv, BasicInv
  <2>3. AllCovered' = AllCovered
    BY <2>1, <2>2 DEF AllCovered
  <2>4. JobInv => JobInv'
    BY <2>1, <2>2, <2>3 DEF JobInv
  <2> QED BY <2>1, <2>2, <2>4 DEF VscodeInv
<1> QED BY <1>1, <1>2, <1>3, <1>4 DEF Next

LEMMA VscodeInit ==
  ASSUME Init
  PROVE  VscodeInv
<1>1. Extracted = {} /\ Covered = {}
  BY DEF Init, Extracted, Covered
<1>2. Known(NoCursor, {})
  BY NoCursorFacts
<1>3. BasicInv
  <2>1. /\ db = {} /\ ended = {} /\ overdue = {} /\ pruned = {} /\ excused = {} /\ told = {}
        /\ dropped = {} /\ out = {} /\ mistaken = FALSE
        /\ faults = 0 /\ removals = 0 /\ born = 1 /\ source = 0
    BY DEF Init
  <2>2. faults \in 0 .. MaxFaults /\ removals \in 0 .. MaxRemovals
    BY <2>1, SpanFacts
  <2>3. born \in 1 .. removals + 1 /\ source \in 0 .. born
    BY <2>1
  <2>4. {ended, overdue, pruned, excused, told} \subseteq SUBSET Spans
    BY <2>1
  <2> QED BY <2>1, <2>2, <2>3, <2>4 DEF BasicInv
<1>4. SavedInv
  BY <1>1, <1>2 DEF Init, SavedInv, Misses, Passes, Tells
<1> QED BY <1>3, <1>4 DEF Init, VscodeInv

LEMMA VscodeAlways == Spec => []VscodeInv
<1>1. Init => VscodeInv
  BY VscodeInit
<1>2. VscodeInv /\ [Next]_vars => VscodeInv'
  BY VscodeStep
<1> QED BY <1>1, <1>2, PTL DEF Spec

\* The variables keep their types, and the state file stays as small as the window and
\* MAX_RECENT_IDS allow (DatabaseCursor.recent).
THEOREM VscodeTypeOK == Spec => []TypeOK
<1>1. VscodeInv => TypeOK
  <2> SUFFICES ASSUME VscodeInv PROVE TypeOK
    OBVIOUS
  <2>1. \A cur \in {saved} \cup (IF job = Idle THEN {} ELSE {job.next}) : Known(cur, ended)
    BY DEF VscodeInv, SavedInv, JobInv
  <2>2. \A cur : Known(cur, ended) =>
          /\ cur \in Cursors /\ Cardinality(cur.recent) <= MaxRecent
          /\ cur.mark # None => cur.mark \in cur.recent
          /\ \A s \in cur.recent : s <= cur.mark /\ Start[s] >= Start[cur.mark] - LateWindow
    BY DEF Known
  <2>3. dropped \in SUBSET Spans /\ \A f \in out : f.spans # {} /\ f.spans \subseteq Spans
    BY DEF VscodeInv, BasicInv
  <2>4. /\ db \subseteq ended /\ {ended, overdue, pruned, excused, dropped, told} \subseteq SUBSET Spans
        /\ faults \in 0 .. MaxFaults /\ removals \in 0 .. MaxRemovals
        /\ born \in 1 .. removals + 1 /\ source \in 0 .. born /\ mistaken \in BOOLEAN
    BY <2>3 DEF VscodeInv, BasicInv
  <2> QED BY <2>1, <2>2, <2>3, <2>4 DEF TypeOK
<1> QED BY <1>1, VscodeAlways, PTL

\* The saved cursor passes over nothing that ended in time, in any order of ends, prunings,
\* evictions, new databases, aborts, crashes and lost states (_collect_db, advance).
THEOREM NoSpanMissed == Spec => []NothingMissed
<1>1. VscodeInv => NothingMissed
  <2> SUFFICES ASSUME VscodeInv, NEW s \in db \ overdue
               PROVE  s \in Extracted \cup dropped \/ s \in New(Begin)
    BY DEF NothingMissed, Begin
  <2> QED BY BeginFacts DEF Fetched, Covered
<1> QED BY <1>1, VscodeAlways, PTL

\* A synthesized span is dropped only for a native one of its conversation that is in an
\* extract or overdue (dedupe_rows).
THEOREM DropsStayCovered == Spec => []DroppedIsCovered
<1>1. VscodeInv => DroppedIsCovered
  BY DEF VscodeInv, SavedInv, CountedWith, DroppedIsCovered
<1> QED BY <1>1, VscodeAlways, PTL

\* No silent loss: a span that was pruned before it was extracted is inside a gap that a
\* completed run noted, once the mark has passed it (_collect_db, the gap note).
THEOREM LossesAreTold == Spec => []LossIsTold
<1>1. VscodeInv => LossIsTold
  BY DEF VscodeInv, SavedInv, Tells, Covered, LossIsTold
<1> QED BY <1>1, VscodeAlways, PTL

-----------------------------------------------------------------------------
(* No span is in two extracts *)

\* As long as the cap is not reached, what is inside the window stays in recent.
LEMMA AdvanceKeeps ==
  ASSUME Cardinality(Spans) <= MaxRecent, NEW E \in SUBSET Spans, NEW cur, Known(cur, E),
         NEW new \in SUBSET E, NEW oldest \in Spans \cup {None},
         NEW s \in cur.recent \cup new, InWindow(s, Advance(cur, new, oldest))
  PROVE  s \in Advance(cur, new, oldest).recent
<1> DEFINE next == Advance(cur, new, oldest)
           mark == Max(new \cup {cur.mark})
           inside == {t \in cur.recent \cup new : Start[t] >= Start[mark] - LateWindow}
<1>1. next.mark = mark /\ next.recent = (IF new = {} THEN cur.recent ELSE Newest(inside))
  BY DEF Advance
<1>2. CASE new = {}
  BY <1>1, <1>2
<1>3. CASE new # {}
  <2>1. PICK y \in new : TRUE
    BY <1>3
  <2>2. y \in Nat /\ y <= next.mark
    BY AdvanceFacts, SpanFacts
  <2>3. next.mark # None
    BY <2>2, SpanFacts
  <2>4. Start[s] >= Start[mark] - LateWindow
    BY <1>1, <2>3 DEF InWindow
  <2>5. inside \in SUBSET Spans
    BY DEF Known, Cursors
  <2>6. Newest(inside) = inside
    <3> HIDE DEF inside
    <3> QED BY <2>5, NewestIsAll
  <2> QED BY <1>1, <1>3, <2>4, <2>6
<1> QED BY <1>2, <1>3

\* A window that moves forward leaves spans behind and takes none in.
LEMMA WindowMoves ==
  ASSUME NEW E, NEW cur, NEW next, Known(cur, E), Known(next, E), cur.mark <= next.mark,
         NEW s \in Spans, s <= cur.mark, InWindow(s, next)
  PROVE  InWindow(s, cur)
<1>1. s \in Nat /\ cur.mark \in Int /\ next.mark \in Int
  BY MarkFacts, SpanFacts
<1>2. cur.mark # -1 /\ next.mark # -1
  BY <1>1
<1>3. cur.mark \in Spans /\ next.mark \in Spans
  BY <1>2, MarkFacts
<1>4. Start[cur.mark] <= Start[next.mark]
  <2>1. CASE cur.mark = next.mark
    <3>1. Start[cur.mark] \in Nat
      BY <1>3, SpanFacts
    <3> QED BY <2>1, <3>1
  <2>2. CASE cur.mark # next.mark
    <3>1. cur.mark < next.mark
      BY <1>1, <2>2
    <3> QED BY <1>3, <3>1, SpanFacts
  <2> QED BY <2>1, <2>2
<1>5. Start[s] >= Start[next.mark] - LateWindow
  BY <1>3, SpanFacts DEF InWindow
<1>6. Start[s] \in Nat /\ Start[cur.mark] \in Nat /\ Start[next.mark] \in Nat /\ LateWindow \in Nat
  BY <1>3, SpanFacts
<1>7. Start[s] >= Start[cur.mark] - LateWindow
  BY <1>4, <1>5, <1>6
<1> QED BY <1>7 DEF InWindow

LEMMA OnceRead ==
  ASSUME Cardinality(Spans) <= MaxRecent, VscodeInv, OnceInv, Read, faults = 0, ~mistaken'
  PROVE  OnceInv'
<1>0. /\ UNCHANGED <<db, born, saved, out, source>> /\ job = Idle /\ ~mistaken
      /\ recreated(saved) => source # born
  BY ReadUnfold DEF vsVars
<1>1. job'.kept = Fetched \ Duplicates /\ job'.next = Ahead /\ job'.of = born
  BY ReadUnfold
<1>2. Extracted' = Extracted
  BY <1>0 DEF Extracted
<1>3. /\ \A f, g \in out : f # g => f.spans \cap g.spans = {}
      /\ Knows(saved, Extracted, db, source, born)
  BY <1>0 DEF OnceInv
<1>4. db \subseteq Spans /\ ended \in SUBSET Spans /\ Known(saved, ended) /\ Oldest(db) \in Spans \cup {None}
  <2>1. db \in SUBSET Spans /\ ended \in SUBSET Spans /\ Known(saved, ended)
    BY DEF VscodeInv, BasicInv, SavedInv
  <2> QED BY <2>1, OldestFacts
<1>5. ASSUME NEW s \in db, s \in Extracted
      PROVE  /\ source = born /\ Begin = saved /\ s <= saved.mark
             /\ InWindow(s, saved) => s \in saved.recent
  <2>1. source = born /\ s <= saved.mark /\ (InWindow(s, saved) => s \in saved.recent)
    BY <1>3, <1>5 DEF Knows
  <2> QED BY <1>0, <2>1 DEF Begin
<1>6. ASSUME NEW s \in Fetched, s \in Extracted PROVE FALSE
  <2>1. s \in db /\ Fresh(s, Begin)
    BY NewFacts DEF Fetched
  <2>2. s \in Nat /\ saved.mark \in Int
    BY <1>4, <2>1, MarkFacts, SpanFacts
  <2>3. s <= saved.mark /\ Fresh(s, saved) /\ (InWindow(s, saved) => s \in saved.recent)
    BY <1>5, <1>6, <2>1
  <2> QED BY <2>2, <2>3 DEF Fresh
<1>7. ASSUME NEW s \in db, s \in Extracted \cup Fetched
      PROVE  s <= Ahead.mark /\ (InWindow(s, Ahead) => s \in Ahead.recent)
  <2>0. /\ Known(Ahead, ended) /\ Begin.mark <= Ahead.mark /\ \A t \in Fetched : t <= Ahead.mark
        /\ Known(Begin, ended) /\ Fetched \in SUBSET ended
    BY AheadTells, BeginFacts
  <2>1. ASSUME NEW t \in Begin.recent \cup Fetched, InWindow(t, Ahead) PROVE t \in Ahead.recent
    BY <1>4, <2>0, <2>1, AdvanceKeeps DEF Ahead
  <2>2. CASE s \in Fetched
    BY <2>0, <2>1, <2>2
  <2>3. CASE s \in Extracted
    <3>1. Begin = saved /\ s <= saved.mark /\ (InWindow(s, saved) => s \in saved.recent)
      BY <1>5, <2>3
    <3>2. s \in Nat /\ s \in Spans /\ saved.mark \in Int /\ Ahead.mark \in Int
      BY <1>4, <2>0, MarkFacts, SpanFacts
    <3>3. s <= Ahead.mark
      BY <2>0, <3>1, <3>2
    <3>4. InWindow(s, Ahead) => InWindow(s, saved)
      BY <1>4, <2>0, <3>1, <3>2, WindowMoves
    <3> QED BY <2>1, <3>1, <3>3, <3>4
  <2> QED BY <1>7, <2>2, <2>3
<1>8. Knows(Ahead, Extracted \cup (Fetched \ Duplicates), db, born, born)
  BY <1>7 DEF Knows
<1>9. (Fetched \ Duplicates) \cap Extracted = {}
  BY <1>6
<1> QED BY <1>0, <1>1, <1>2, <1>3, <1>8, <1>9 DEF OnceInv

LEMMA OnceWrite ==
  ASSUME VscodeInv, OnceInv, WriteExtract, faults = 0, ~mistaken
  PROVE  OnceInv'
<1>0. job # Idle /\ job \in Jobs
  BY DEF WriteExtract, VscodeInv, JobInv, Idle
<1>1. /\ Extracted' = Extracted \cup job.kept /\ job' = [job EXCEPT !.stage = "done"]
      /\ job.stage = "write" /\ UNCHANGED <<db, born>>
      /\ \A f \in out' : f \in out \/ f.spans = job.kept
      /\ \A f, g \in out' : f \notin out /\ g \notin out => f = g
  BY <1>0, ExtractUnfold DEF vsVars
<1>2. job'.stage = "done" /\ job'.kept = job.kept /\ job'.next = job.next /\ job'.of = job.of
      /\ job' # Idle
  BY <1>0, <1>1 DEF Jobs, Idle
<1>3. /\ \A f, g \in out : f # g => f.spans \cap g.spans = {}
      /\ Knows(job.next, Extracted \cup job.kept, db, job.of, born)
      /\ job.kept \cap Extracted = {}
  BY <1>0, <1>1 DEF OnceInv
<1>4. \A f \in out : f.spans \subseteq Extracted
  BY DEF Extracted
<1>5. ASSUME NEW f \in out', NEW g \in out', f # g PROVE f.spans \cap g.spans = {}
  BY <1>1, <1>3, <1>4, <1>5
<1>6. Extracted' \cup job.kept = Extracted \cup job.kept
  BY <1>1
<1>7. Knows(job'.next, Extracted' \cup job'.kept, db', job'.of, born')
  BY <1>1, <1>2, <1>3, <1>6
<1>8. ~(job' = Idle \/ job'.stage = "write")
  BY <1>2
<1> QED BY <1>5, <1>7, <1>8 DEF OnceInv

LEMMA OnceStep ==
  ASSUME Cardinality(Spans) <= MaxRecent, VscodeInv, OnceInv, [Next]_vars
  PROVE  OnceInv'
<1> SUFFICES ASSUME faults' = 0, ~mistaken' PROVE OnceInv'
  BY DEF OnceInv
<1>0. faults \in Nat /\ mistaken \in BOOLEAN /\ \A f \in out : f.spans \subseteq ended
  BY SpanFacts DEF VscodeInv, BasicInv
<1>00. Extracted \subseteq ended /\ (job # Idle => job.kept \subseteq ended)
  BY <1>0 DEF Extracted, VscodeInv, JobInv
<1>1. ASSUME UNCHANGED <<out, job, saved, source, faults, mistaken>>,
             \A s \in db' : s \in ended => s \in db /\ born' = born
      PROVE  OnceInv'
  <2>1. Extracted' = Extracted /\ faults = 0 /\ ~mistaken
    BY <1>1 DEF Extracted
  <2>2. Knows(saved, Extracted, db, source, born) => Knows(saved, Extracted, db', source, born')
    BY <1>00, <1>1 DEF Knows
  <2>3. job # Idle /\ Knows(job.next, Extracted \cup job.kept, db, job.of, born)
          => Knows(job.next, Extracted \cup job.kept, db', job.of, born')
    BY <1>00, <1>1 DEF Knows
  <2> QED BY <1>1, <2>1, <2>2, <2>3 DEF OnceInv
<1>2. ASSUME NEW s \in Spans, Insert(s) PROVE OnceInv'
  BY <1>1, <1>2 DEF Insert, runVars
<1>3. CASE Prune
  BY <1>1, <1>3 DEF Prune, runVars
<1>4. ASSUME NEW s \in Spans, Evict(s) PROVE OnceInv'
  BY <1>1, <1>4 DEF Evict, runVars
<1>5. CASE Recreate
  BY <1>1, <1>5 DEF Recreate, runVars
<1>6. CASE Read
  BY <1>6, OnceRead, ReadUnfold
<1>7. CASE WriteExtract
  BY <1>7, OnceWrite DEF WriteExtract
<1>8. CASE Abort
  <2>1. job.stage = "write" /\ job' = Idle /\ faults = 0 /\ ~mistaken
        /\ UNCHANGED <<db, born, saved, out, source>>
    BY <1>8 DEF Abort, vsVars
  <2>2. Extracted' = Extracted
    BY <2>1 DEF Extracted
  <2>3. job'.stage = "idle"
    BY <2>1 DEF Idle
  <2> QED BY <2>1, <2>2, <2>3 DEF OnceInv
<1>9. CASE Save
  <2>1. /\ job.stage = "done" /\ job' = Idle /\ faults = 0 /\ ~mistaken
        /\ saved' = job.next /\ source' = job.of /\ UNCHANGED <<db, born, out>>
    BY <1>9 DEF Save, vsVars
  <2>2. Extracted' = Extracted /\ job # Idle /\ job'.stage = "idle"
    BY <2>1 DEF Extracted, Idle
  <2>3. Knows(job.next, Extracted \cup job.kept, db, job.of, born)
    BY <2>1, <2>2 DEF OnceInv
  <2>4. Knows(job.next, Extracted, db, job.of, born)
    BY <2>3 DEF Knows
  <2> QED BY <2>1, <2>2, <2>4 DEF OnceInv
<1>10. CASE Crash \/ LoseState
  BY <1>0, <1>10 DEF Crash, LoseState
<1>11. CASE UNCHANGED vars
  <2>1. UNCHANGED <<out, job, saved, source, faults, mistaken, db, born>>
    BY <1>11 DEF vars, vsVars, runVars
  <2> QED BY <1>1, <2>1
<1> QED BY <1>2, <1>3, <1>4, <1>5, <1>6, <1>7, <1>8, <1>9, <1>10, <1>11 DEF Next

\* While MAX_RECENT_IDS is not reached, and but for crashes, lost states and a restart that
\* took an evicted mark for another database, no span is in two extracts, however late it
\* was inserted (DatabaseCursor.recent, recreated).
THEOREM NoSpanTwice ==
  ASSUME Cardinality(Spans) <= MaxRecent
  PROVE  Spec => []ExtractedOnce
<1>1. Init => OnceInv
  <2> SUFFICES ASSUME Init PROVE OnceInv
    OBVIOUS
  <2>1. db = {} /\ out = {} /\ job = Idle /\ Idle.stage = "idle"
    BY DEF Init, Idle
  <2> QED BY <2>1 DEF OnceInv, Knows
<1>2. VscodeInv /\ OnceInv /\ [Next]_vars => OnceInv'
  BY OnceStep
<1>3. OnceInv => ExtractedOnce
  BY DEF OnceInv, ExtractedOnce
<1> QED BY <1>1, <1>2, <1>3, VscodeAlways, PTL DEF Spec
=============================================================================
