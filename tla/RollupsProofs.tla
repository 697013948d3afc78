--------------------------- MODULE RollupsProofs ----------------------------
(***************************************************************************)
(* Proofs about rollups and retention, for every set of requests and views *)
(* and every retention period: rows and cells keep their types and users   *)
(* are counted before and after they lose their names, with any number of  *)
(* processes; with one process a date that is not stale is exact.          *)
(***************************************************************************)
EXTENDS Rollups, FiniteSetTheorems, WellFoundedInduction, TLAPS

-----------------------------------------------------------------------------
(* Greatest elements *)

\* A set of naturals has a least element.
LEMMA LeastNat ==
  ASSUME NEW S, S \subseteq Nat, S # {}
  PROVE  \E x \in S : \A y \in S : x <= y
<1> DEFINE less == OpToRel(<, Nat)
<1>1. \A x, y \in Nat : <<x, y>> \in less <=> x < y
  BY DEF OpToRel
<1> HIDE DEF less
<1>2. PICK x \in S : \A y \in S : ~(<<y, x>> \in less)
  BY NatLessThanWellFounded, WFMin DEF less
<1>3. \A y \in S : ~(y < x)
  BY <1>1, <1>2
<1> QED BY <1>3

\* A finite set with a total and transitive relation has a greatest element: the one that
\* the fewest elements are not below.
LEMMA GreatestOf ==
  ASSUME NEW U, IsFiniteSet(U), U # {}, NEW R,
         \A x, y \in U : <<x, y>> \in R \/ <<y, x>> \in R,
         \A x, y, z \in U : <<x, y>> \in R /\ <<y, z>> \in R => <<x, z>> \in R
  PROVE  \E x \in U : \A y \in U : <<x, y>> \in R
<1> DEFINE Above == [x \in U |-> {y \in U : <<x, y>> \notin R}]
           Rank == [x \in U |-> Cardinality(Above[x])]
<1>1. \A x \in U : Above[x] \in SUBSET U /\ IsFiniteSet(Above[x]) /\ Rank[x] = Cardinality(Above[x])
                  /\ Rank[x] \in Nat
  <2>1. \A x \in U : Above[x] \in SUBSET U
    OBVIOUS
  <2> HIDE DEF Above
  <2> QED BY <2>1, FS_Subset, FS_CardinalityType
<1> HIDE DEF Rank
<1>2. PICK x \in U : \A y \in U : Rank[x] <= Rank[y]
  <2> DEFINE S == {Rank[x] : x \in U}
  <2>1. \E n \in S : \A k \in S : n <= k
    <3>1. \A x \in U : Rank[x] \in Nat
      BY <1>1
    <3>2. S \subseteq Nat /\ S # {}
      BY <3>1
    <3> HIDE DEF S
    <3> QED BY <3>2, LeastNat
  <2> QED BY <2>1
<1>3. ASSUME NEW y \in U, <<x, y>> \notin R PROVE FALSE
  <2>1. Above[y] \subseteq Above[x] /\ Above[y] # Above[x]
    BY <1>3
  <2> HIDE DEF Above
  <2>2. Rank[y] < Rank[x]
    BY <1>1, <2>1, FS_Subset
  <2> QED BY <1>1, <1>2, <2>2
<1> QED BY <1>3

-----------------------------------------------------------------------------

\* The documents of a request: of its own views, with the name they came with
\* or none.
DocsOf(r, docs) ==
  /\ docs \in SUBSET Docs /\ docs # {} /\ IsFiniteSet(docs)
  /\ \A x \in docs : x.view.req = r /\ x.who \in {x.view.who, Nobody}

\* A row is dated by one of its documents, and a principal that all of them
\* name is the row's.
RowInv(r, row) ==
  /\ row \in Rows
  /\ DocsOf(r, row.docs)
  /\ \E x \in row.docs : x.view.day = row.day
  /\ \A w \in Principals : (\A x \in row.docs : x.who = w) => row.who = w

RowsAre(rs) == \A r \in Requests : rs[r] # NoRow => RowInv(r, rs[r])
RowsInv == RowsAre(rows) /\ rows = [r \in Requests |-> rows[r]]

\* What a process holds between its read and its transaction.
JobsInv ==
  \A p \in Processes :
    \/ job[p] = Idle
    \/ \E stale, wanted \in SUBSET Days :
         job[p] = [op |-> "refresh", stale |-> stale, wanted |-> wanted]
    \/ \E read : /\ job[p] = [op |-> "reprice", read |-> read]
                 /\ \A x \in read : x.day \in Days

\* What the arithmetic needs: a rollup cell that is there has a count.
CellsOK == \A d \in Days, k \in Kinds : rollup[d][k] # NoRow => rollup[d][k].users \in Nat

-----------------------------------------------------------------------------
(* The number of users of a cell *)

LEMMA UsersNat ==
  ASSUME NEW d, NEW k, NEW rs
  PROVE  /\ ActiveUsers(d, k, rs) \in Nat
         /\ (\E r \in InCell(d, k, rs) : rs[r].who # Nobody) => ActiveUsers(d, k, rs) > 0
<1> DEFINE In == InCell(d, k, rs)
           Who == {rs[r].who : r \in In}
<1>1. IsFiniteSet(In)
  BY RequestsAssumption, FS_Subset DEF InCell
<1>2. IsFiniteSet(Who)
  <2> DEFINE f == [r \in In |-> rs[r].who]
  <2>1. f \in Surjection(In, Who)
    <3> HIDE DEF In
    <3> QED BY DEF Surjection
  <2> HIDE DEF In, Who, f
  <2> QED BY <1>1, <2>1, FS_Surjection
<1>3. IsFiniteSet(Who \ {Nobody})
  <2> HIDE DEF Who
  <2> QED BY <1>2, FS_Difference
<1>4. ActiveUsers(d, k, rs) \in Nat
  BY <1>3, FS_CardinalityType DEF ActiveUsers
<1>5. ASSUME NEW r \in In, rs[r].who # Nobody PROVE ActiveUsers(d, k, rs) > 0
  <2>1. Who \ {Nobody} # {}
    BY <1>5
  <2>2. ActiveUsers(d, k, rs) = Cardinality(Who \ {Nobody})
    BY DEF ActiveUsers
  <2> HIDE DEF Who
  <2>3. Cardinality(Who \ {Nobody}) # 0
    BY <1>3, <2>1, FS_EmptySet
  <2> QED BY <1>4, <2>2, <2>3
<1> QED BY <1>4, <1>5

\* A recomputed cell has a count; kept users are never fewer than before.
LEMMA CellUsers ==
  ASSUME NEW d \in Days, NEW k \in Kinds, NEW rs, CellsOK
  PROVE  LET new == Cell(d, k, rs)
             kept == KeepUsers(new, d, k)
         IN kept # NoRow =>
              /\ new # NoRow
              /\ kept.users \in Nat
              /\ kept.users >= ActiveUsers(d, k, rs)
              /\ d < retained /\ rollup[d][k] # NoRow => kept.users >= rollup[d][k].users
<1> DEFINE old == rollup[d][k]
           n == ActiveUsers(d, k, rs)
           new == Cell(d, k, rs)
           kept == KeepUsers(new, d, k)
<1>1. n \in Nat
  <2> QED BY UsersNat
<1>2. old # NoRow => old.users \in Nat
  BY DEF CellsOK
<1> SUFFICES ASSUME kept # NoRow
             PROVE  /\ new # NoRow
                    /\ kept.users \in Nat
                    /\ kept.users >= n
                    /\ d < retained /\ old # NoRow => kept.users >= old.users
  OBVIOUS
<1>3. new # NoRow
  BY DEF KeepUsers
<1>4. new = [sums |-> Sums(d, k, rs), users |-> n]
  BY <1>3 DEF Cell
<1>5. CASE old # NoRow /\ d < retained /\ old.users > n
  <2>1. kept = [new EXCEPT !.users = old.users]
    BY <1>3, <1>4, <1>5 DEF KeepUsers
  <2>2. kept.users = old.users
    <3> HIDE DEF kept, new, n
    <3> QED BY <2>1, <1>4
  <2> HIDE DEF kept, new, n
  <2> QED BY <2>2, <1>1, <1>2, <1>3, <1>5
<1>6. CASE ~(old # NoRow /\ d < retained /\ old.users > n)
  <2>1. kept = new
    BY <1>3, <1>4, <1>6 DEF KeepUsers
  <2>2. kept.users = n
    <3> HIDE DEF kept, new, n
    <3> QED BY <2>1, <1>4
  <2> HIDE DEF kept, new, n
  <2> QED BY <2>2, <1>1, <1>2, <1>3, <1>6
<1> QED BY <1>5, <1>6

\* What a step that may touch rollups does to one cell.
CellStep(d, k) ==
  \/ rollup'[d][k] = rollup[d][k]
  \/ /\ rollup'[d][k] = NoRow
     /\ \/ Retention /\ d < Cut(RollupDays)
        \/ \E t \in 1..today : PurgeBefore(t) /\ d < t
  \/ \E rs \in {rows, rows'} : rollup'[d][k] = KeepUsers(Cell(d, k, rs), d, k)

LEMMA RefreshedCell ==
  ASSUME NEW d \in Days, NEW k \in Kinds, NEW wanted, NEW rs
  PROVE  Refreshed(wanted, rs)[d][k] \in {rollup[d][k], KeepUsers(Cell(d, k, rs), d, k)}
BY DEF Refreshed

\* Every step of the system is such a step.
LEMMA NextCellStep ==
  ASSUME [Next]_vars, NEW d \in Days, NEW k \in Kinds
  PROVE  CellStep(d, k)
<1>1. CASE UNCHANGED rollup
  BY <1>1 DEF CellStep
<1>2. ASSUME NEW p \in Processes, RefreshWrite(p) PROVE CellStep(d, k)
  <2>1. rollup' = Refreshed(job[p].wanted, rows)
    BY <1>2 DEF RefreshWrite
  <2> QED BY <2>1, RefreshedCell DEF CellStep
<1>3. CASE Retention
  <2>1. PICK dates : rollup' = [e \in Days |-> IF e < Cut(RollupDays) THEN [j \in Kinds |-> NoRow]
                                               ELSE RefreshedFirst(dates)[e]]
    BY <1>3 DEF Retention
  <2>2. \/ d < Cut(RollupDays) /\ rollup'[d][k] = NoRow
        \/ rollup'[d][k] = Refreshed(dates, rows)[d][k]
    BY <2>1 DEF RefreshedFirst
  <2> QED BY <1>3, <2>2, RefreshedCell DEF CellStep
<1>4. ASSUME NEW gone, NEW drop, NEW before, PurgeRows(gone, drop, before)
      PROVE  CellStep(d, k) \/ (d < before /\ rollup'[d][k] = NoRow)
  <2>1. PICK stale :
          rollup' = [e \in Days |-> IF e < before THEN [j \in Kinds |-> NoRow]
                                    ELSE Refreshed(stale, rows')[e]]
    BY <1>4 DEF PurgeRows
  <2>2. \/ d < before /\ rollup'[d][k] = NoRow
        \/ rollup'[d][k] = Refreshed(stale, rows')[d][k]
    BY <2>1
  <2> QED BY <2>2, RefreshedCell DEF CellStep
<1>5. CASE UNCHANGED vars
  BY <1>1, <1>5 DEF vars
<1>6. CASE Next
  <2>1. ASSUME NEW v \in Views, Ingest(v) PROVE CellStep(d, k)
    BY <1>1, <2>1 DEF Ingest
  <2>2. ASSUME NEW l \in Lanes, ShellArrives(l) PROVE CellStep(d, k)
    BY <1>1, <2>2 DEF ShellArrives
  <2>3. ASSUME NEW p \in Processes, RepriceRead(p) \/ RepriceWrite(p) PROVE CellStep(d, k)
    BY <1>1, <2>3 DEF RepriceRead, RepriceWrite
  <2>4. ASSUME NEW p \in Processes, NEW lo \in Days, NEW hi \in Days, RefreshRead(p, lo, hi)
        PROVE  CellStep(d, k)
    BY <1>1, <2>4 DEF RefreshRead
  <2>5. CASE RetentionFails
    BY <1>1, <2>5 DEF RetentionFails, vars
  <2>6. ASSUME NEW w \in Principals, PurgePrincipal(w) PROVE CellStep(d, k)
    <3>1. ~(d < 0)
      BY DaysAssumption DEF Days
    <3> QED BY <1>4, <2>6, <3>1 DEF PurgePrincipal
  <2>7. ASSUME NEW t \in 1..today, PurgeBefore(t) PROVE CellStep(d, k)
    <3>1. CellStep(d, k) \/ (d < t /\ rollup'[d][k] = NoRow)
      BY <1>4, <2>7 DEF PurgeBefore
    <3> QED BY <2>7, <3>1 DEF CellStep
  <2>8. CASE Tick
    BY <1>1, <2>8 DEF Tick
  <2> QED BY <1>2, <1>3, <1>6, <2>1, <2>2, <2>3, <2>4, <2>5, <2>6, <2>7, <2>8 DEF Next
<1> QED BY <1>5, <1>6

LEMMA CellsStep == CellsOK /\ [Next]_vars => CellsOK'
<1> SUFFICES ASSUME CellsOK, [Next]_vars, NEW d \in Days, NEW k \in Kinds, rollup'[d][k] # NoRow
             PROVE  rollup'[d][k].users \in Nat
  BY DEF CellsOK
<1>1. CellStep(d, k)
  BY NextCellStep
<1>2. CASE rollup'[d][k] = rollup[d][k]
  BY <1>2 DEF CellsOK
<1>3. ASSUME NEW rs \in {rows, rows'}, rollup'[d][k] = KeepUsers(Cell(d, k, rs), d, k) PROVE rollup'[d][k].users \in Nat
  BY <1>3, CellUsers
<1> QED BY <1>1, <1>2, <1>3 DEF CellStep

LEMMA CellsInit == Init => CellsOK
BY DEF Init, CellsOK

-----------------------------------------------------------------------------
(* Merged rows *)

\* The order of the winner, as a relation.
Beats(x, y) ==
  \/ x = y
  \/ x.view.priority > y.view.priority
  \/ x.view = y.view /\ y.who = Nobody

LEMMA DocFacts ==
  ASSUME NEW r, NEW docs, DocsOf(r, docs), NEW x \in docs
  PROVE  /\ x.view \in Views /\ x.view.req = r /\ r \in Requests
         /\ x.view.day \in Days /\ x.view.priority \in Nat
         /\ x.who \in {x.view.who, Nobody} /\ x.who \in Principals \cup {Nobody}
         /\ x = [view |-> x.view, who |-> x.who]
<1>1. x \in Docs
  BY DEF DocsOf
<1>2. x.view \in Views /\ x.who \in Principals \cup {Nobody} /\ x = [view |-> x.view, who |-> x.who]
  BY <1>1 DEF Docs
<1> QED BY <1>2, ViewsAssumption DEF DocsOf, Days

\* Of two documents of a request one beats the other, or they are the same.
LEMMA BeatsTotal ==
  ASSUME NEW r, NEW docs, DocsOf(r, docs), NEW x \in docs, NEW y \in docs
  PROVE  Beats(x, y) \/ Beats(y, x)
<1> DEFINE a == x.view.priority
           b == y.view.priority
<1>1. a \in Nat /\ b \in Nat
  BY DocFacts
<1>2. CASE a # b
  BY <1>1, <1>2 DEF Beats
<1>3. CASE a = b
  <2>1. x.view = y.view
    BY <1>3, DocFacts, ViewsAssumption
  <2>2. CASE x.who = Nobody \/ y.who = Nobody
    BY <2>1, <2>2 DEF Beats
  <2>3. CASE x.who # Nobody /\ y.who # Nobody
    <3>1. x.who = y.who
      BY <2>1, <2>3, DocFacts
    <3>2. x = [view |-> x.view, who |-> x.who] /\ y = [view |-> y.view, who |-> y.who]
      BY DocFacts
    <3> QED BY <2>1, <3>1, <3>2 DEF Beats
  <2> QED BY <2>2, <2>3
<1> QED BY <1>2, <1>3

LEMMA BeatsTransitive ==
  ASSUME NEW r, NEW docs, DocsOf(r, docs), NEW x \in docs, NEW y \in docs, NEW z \in docs,
         Beats(x, y), Beats(y, z)
  PROVE  Beats(x, z)
<1>1. x.view.priority \in Nat /\ y.view.priority \in Nat /\ z.view.priority \in Nat
  BY DocFacts
<1> QED BY <1>1 DEF Beats

\* A request with documents has a winner: one of them, that beats the others.
LEMMA WinnerIn ==
  ASSUME NEW r, NEW docs, DocsOf(r, docs)
  PROVE  WinnerOf(docs) \in docs /\ \A y \in docs : Beats(WinnerOf(docs), y)
<1> DEFINE R == {z \in docs \X docs : Beats(z[1], z[2])}
<1>1. \A x, y \in docs : <<x, y>> \in R <=> Beats(x, y)
  OBVIOUS
<1>2. PICK x \in docs : \A y \in docs : <<x, y>> \in R
  <2> HIDE DEF R
  <2>1. \A y, z \in docs : <<y, z>> \in R \/ <<z, y>> \in R
    BY <1>1, BeatsTotal
  <2>2. \A w, y, z \in docs : <<w, y>> \in R /\ <<y, z>> \in R => <<w, z>> \in R
    BY <1>1, BeatsTransitive
  <2> QED BY <2>1, <2>2, GreatestOf DEF DocsOf
<1>3. \A y \in docs \ {x} :
        x.view.priority > y.view.priority \/ (x.view = y.view /\ y.who = Nobody)
  BY <1>1, <1>2 DEF Beats
<1> DEFINE wins(z) == \A y \in docs \ {z} : z.view.priority > y.view.priority
                                            \/ (z.view = y.view /\ y.who = Nobody)
<1>4. WinnerOf(docs) \in docs /\ wins(WinnerOf(docs))
  <2>1. WinnerOf(docs) = CHOOSE z \in docs : wins(z)
    BY DEF WinnerOf
  <2>2. wins(x)
    BY <1>3
  <2> HIDE DEF wins, R
  <2> QED BY <2>1, <2>2
<1> QED BY <1>4 DEF Beats

\* The name of a request is the name of one of its documents, or nobody's.
LEMMA WhoIn ==
  ASSUME NEW r, NEW docs, DocsOf(r, docs)
  PROVE  /\ WhoOf(docs) \in Principals \cup {Nobody}
         /\ \A w \in Principals : (\A x \in docs : x.who = w) => WhoOf(docs) = w
<1> DEFINE named == {x \in docs : x.who # Nobody}
           best == CHOOSE x \in named : \A y \in named : y.view.priority <= x.view.priority
           R == {z \in named \X named : z[1].view.priority >= z[2].view.priority}
<1>0. WhoOf(docs) = IF named = {} THEN Nobody ELSE best.who
  BY DEF WhoOf
<1>1. CASE named = {}
  <2>1. \A w \in Principals : ~(\A x \in docs : x.who = w)
    BY <1>1 DEF DocsOf, Principals
  <2> QED BY <1>0, <1>1, <2>1
<1>2. CASE named # {}
  <2>1. IsFiniteSet(named) /\ named \subseteq docs
    BY FS_Subset DEF DocsOf
  <2>2. \A x, y \in named : <<x, y>> \in R <=> x.view.priority >= y.view.priority
    OBVIOUS
  <2>3. \A x \in named : x.view.priority \in Nat
    BY DocFacts
  <2>4. PICK x \in named : \A y \in named : <<x, y>> \in R
    <3> HIDE DEF R, named
    <3>1. ASSUME NEW y \in named, NEW z \in named PROVE <<y, z>> \in R \/ <<z, y>> \in R
      <4>1. y.view.priority >= z.view.priority \/ z.view.priority >= y.view.priority
        BY <2>3
      <4> QED BY <2>2, <4>1
    <3>2. \A w, y, z \in named : <<w, y>> \in R /\ <<y, z>> \in R => <<w, z>> \in R
      BY <2>2, <2>3
    <3> QED BY <1>2, <2>1, <3>1, <3>2, GreatestOf
  <2>5. \A y \in named : y.view.priority <= x.view.priority
    BY <2>2, <2>3, <2>4
  <2>6. best \in named
    <3> HIDE DEF named, R
    <3> QED BY <2>5
  <2>7. best.who \in Principals \cup {Nobody}
    <3> HIDE DEF best, R
    <3> QED BY <2>6, DocFacts
  <2> HIDE DEF best, R
  <2> QED BY <1>0, <1>2, <2>6, <2>7
<1> QED BY <1>1, <1>2

\* A remerged row is a row of the request.
LEMMA RemergedInv ==
  ASSUME NEW r, NEW docs, DocsOf(r, docs), NEW old, old # NoRow => old.card \in Cards
  PROVE  /\ RowInv(r, Remerged(docs, old))
         /\ Remerged(docs, old).docs = docs
         /\ \E x \in docs : Remerged(docs, old).day = x.view.day
<1> DEFINE card == IF old # NoRow /\ WinnerOf(docs) = WinnerOf(old.docs) THEN old.card ELSE "ingest"
           day == WinnerOf(docs).view.day
           who == WhoOf(docs)
           row == Remerged(docs, old)
<1>1. row = [docs |-> docs, day |-> day, who |-> who, card |-> card]
  BY DEF Remerged, Row
<1>2. card \in Cards
  BY DEF Cards
<1>3. day \in Days /\ \E x \in docs : x.view.day = day
  BY WinnerIn, DocFacts
<1>4. who \in Principals \cup {Nobody} /\ \A w \in Principals : (\A x \in docs : x.who = w) => who = w
  BY WhoIn
<1>5. docs \in SUBSET Docs
  BY DEF DocsOf
<1>6. /\ row \in Rows /\ row.docs = docs /\ row.day = day /\ row.who = who
  <2> HIDE DEF card, day, who, row
  <2> QED BY <1>1, <1>2, <1>3, <1>4, <1>5 DEF Rows
<1> HIDE DEF card, day, who
<1> QED BY <1>3, <1>4, <1>6 DEF RowInv

\* Nulling keeps the views, the date and the price of a row.
LEMMA NulledInv ==
  ASSUME NEW r, NEW row, RowInv(r, row), NEW cut \in Nat
  PROVE  /\ RowInv(r, NulledRow(row, cut))
         /\ NulledRow(row, cut).day = row.day
         /\ NulledRow(row, cut).card = row.card
<1> DEFINE late(x) == (IF Cardinality(row.docs) > 1 THEN x.view.day ELSE row.day) < cut
           null(x) == IF late(x) THEN [x EXCEPT !.who = Nobody] ELSE x
           docs2 == {null(x) : x \in row.docs}
           who2 == IF row.day < cut THEN Nobody ELSE row.who
           row2 == NulledRow(row, cut)
<1>0. row \in Rows /\ DocsOf(r, row.docs)
  BY DEF RowInv
<1>1. row2 = [row EXCEPT !.docs = docs2, !.who = who2]
  BY DEF NulledRow, NulledDocs
<1>2. ASSUME NEW x \in row.docs
      PROVE  /\ null(x) \in Docs /\ null(x).view = x.view
             /\ null(x).who \in {x.who, Nobody}
             /\ late(x) => null(x).who = Nobody
  <2> DEFINE y == [x EXCEPT !.who = Nobody]
  <2>1. x \in Docs
    BY <1>0 DEF DocsOf
  <2>2. y \in Docs /\ y.view = x.view /\ y.who = Nobody
    BY <2>1 DEF Docs
  <2>3. null(x) = IF late(x) THEN y ELSE x
    OBVIOUS
  <2> HIDE DEF y, null, late
  <2> QED BY <2>1, <2>2, <2>3
<1>3. DocsOf(r, docs2)
  <2>1. IsFiniteSet(docs2)
    <3> DEFINE f == [x \in row.docs |-> null(x)]
    <3>1. f \in Surjection(row.docs, docs2)
      <4> HIDE DEF null
      <4> QED BY DEF Surjection
    <3> HIDE DEF f, docs2
    <3> QED BY <1>0, <3>1, FS_Surjection DEF DocsOf
  <2> HIDE DEF null, late
  <2> QED BY <1>0, <1>2, <2>1 DEF DocsOf
<1>4. /\ row2 \in Rows /\ row2.docs = docs2 /\ row2.who = who2
      /\ row2.day = row.day /\ row2.card = row.card
  <2>1. docs2 \in SUBSET Docs
    BY <1>3 DEF DocsOf
  <2>2. who2 \in Principals \cup {Nobody}
    BY <1>0 DEF Rows
  <2> HIDE DEF docs2, who2, row2
  <2> QED BY <1>0, <1>1, <2>1, <2>2 DEF Rows
<1>5. PICK x \in row.docs : x.view.day = row.day
  BY DEF RowInv
<1>6. \E y \in docs2 : y.view.day = row.day
  <2> HIDE DEF null
  <2> QED BY <1>2, <1>5
<1>7. ASSUME NEW w \in Principals, \A y \in docs2 : y.who = w PROVE who2 = w
  <2>1. w # Nobody
    BY DEF Principals
  <2>2. null(x).who = w
    <3> HIDE DEF null
    <3> QED BY <1>7
  <2>3. ~late(x)
    <3> HIDE DEF null, late
    <3> QED BY <1>2, <2>1, <2>2
  <2>4. ~(row.day < cut)
    BY <1>5, <2>3
  <2>5. \A y \in row.docs : y.who = w
    <3> HIDE DEF null, late
    <3> QED BY <1>2, <1>7, <2>1
  <2> QED BY <2>4, <2>5 DEF RowInv
<1> HIDE DEF docs2, who2
<1> QED BY <1>3, <1>4, <1>6, <1>7 DEF RowInv

LEMMA RepricedInv ==
  ASSUME NEW r, NEW row, RowInv(r, row)
  PROVE  /\ RowInv(r, [row EXCEPT !.card = "reprice"])
         /\ [row EXCEPT !.card = "reprice"].day = row.day
<1> DEFINE row2 == [row EXCEPT !.card = "reprice"]
<1>1. row \in Rows
  BY DEF RowInv
<1>2. row2 \in Rows /\ row2.docs = row.docs /\ row2.day = row.day /\ row2.who = row.who
  BY <1>1 DEF Rows, Cards
<1> HIDE DEF row2
<1>3. RowInv(r, row2)
  BY <1>2 DEF RowInv
<1> QED BY <1>2, <1>3 DEF row2

\* The documents that are left after a purge: what a row keeps when only some
\* of its documents go.
LEMMA KeptDocs ==
  ASSUME NEW r, NEW docs, DocsOf(r, docs), NEW drop, ~(docs \subseteq drop)
  PROVE  DocsOf(r, docs \ drop)
<1>1. IsFiniteSet(docs \ drop)
  BY FS_Difference DEF DocsOf
<1> QED BY <1>1 DEF DocsOf

\* Ingest adds a document of the request.
LEMMA AddedDocs ==
  ASSUME NEW v \in Views, NEW old, old # NoRow => DocsOf(v.req, old.docs)
  PROVE  DocsOf(v.req, (IF old = NoRow THEN {} ELSE old.docs) \cup {Doc(v)})
<1> DEFINE before == IF old = NoRow THEN {} ELSE old.docs
<1>1. before \in SUBSET Docs /\ IsFiniteSet(before)
  BY FS_EmptySet DEF DocsOf
<1>2. Doc(v) \in Docs /\ Doc(v).view = v /\ Doc(v).who = v.who
  BY DEF Doc, Docs, Principals
<1>3. \A x \in before : x.view.req = v.req /\ x.who \in {x.view.who, Nobody}
  BY DEF DocsOf
<1> HIDE DEF before
<1>4. IsFiniteSet(before \cup {Doc(v)})
  BY <1>1, FS_AddElement
<1>5. DocsOf(v.req, before \cup {Doc(v)})
  BY <1>1, <1>2, <1>3, <1>4 DEF DocsOf
<1> QED BY <1>5 DEF before

\* What a purge leaves of the rows.
PurgedRows(gone, drop) ==
  [r \in Requests |->
     IF r \in gone THEN NoRow
     ELSE IF rows[r] # NoRow /\ rows[r].docs \cap drop # {}
       THEN Remerged(rows[r].docs \ drop, rows[r])
     ELSE rows[r]]

\* A purge takes whole requests, or leaves them a document.
Spares(gone, drop) ==
  \A r \in Requests \ gone : rows[r] # NoRow => ~(rows[r].docs \subseteq drop)

LEMMA PurgeWrites ==
  ASSUME NEW gone, NEW drop, NEW before, PurgeRows(gone, drop, before)
  PROVE  rows' = PurgedRows(gone, drop)
<1> DEFINE partial == {r \in Requests \ gone : rows[r] # NoRow /\ rows[r].docs \cap drop # {}}
<1>1. rows' = [r \in Requests |-> IF r \in gone THEN NoRow
                                  ELSE IF r \in partial THEN Remerged(rows[r].docs \ drop, rows[r])
                                  ELSE rows[r]]
  BY DEF PurgeRows
<1>2. \A r \in Requests : r \notin gone =>
        (r \in partial <=> rows[r] # NoRow /\ rows[r].docs \cap drop # {})
  OBVIOUS
<1> HIDE DEF partial
<1> QED BY <1>1, <1>2 DEF PurgedRows

LEMMA PurgePrincipalSpares ==
  ASSUME RowsInv, NEW w \in Principals
  PROVE  Spares({r \in Requests : rows[r] # NoRow /\ rows[r].who = w},
                {x \in StoredDocs : x.who = w})
<1> SUFFICES ASSUME NEW r \in Requests, rows[r] # NoRow, rows[r].who # w,
                    rows[r].docs \subseteq {x \in StoredDocs : x.who = w}
             PROVE  FALSE
  BY DEF Spares
<1>1. \A x \in rows[r].docs : x.who = w
  OBVIOUS
<1> QED BY <1>1 DEF RowsInv, RowsAre, RowInv

LEMMA PurgeBeforeSpares ==
  ASSUME RowsInv, NEW t
  PROVE  Spares({r \in Requests : rows[r] # NoRow /\ rows[r].day < t},
                {x \in StoredDocs : x.view.day < t})
<1> SUFFICES ASSUME NEW r \in Requests, rows[r] # NoRow, ~(rows[r].day < t),
                    rows[r].docs \subseteq {x \in StoredDocs : x.view.day < t}
             PROVE  FALSE
  BY DEF Spares
<1>1. PICK x \in rows[r].docs : x.view.day = rows[r].day
  BY DEF RowsInv, RowsAre, RowInv
<1> QED BY <1>1

\* The date of a row that loses documents is the date of one that stays.
LEMMA PurgedRow ==
  ASSUME RowsInv, NEW gone, NEW drop, Spares(gone, drop),
         NEW r \in Requests, PurgedRows(gone, drop)[r] # NoRow
  PROVE  /\ r \notin gone /\ rows[r] # NoRow
         /\ RowInv(r, PurgedRows(gone, drop)[r])
         /\ \/ PurgedRows(gone, drop)[r] = rows[r]
            \/ /\ rows[r].docs \cap drop # {}
               /\ \E x \in rows[r].docs \ drop : PurgedRows(gone, drop)[r].day = x.view.day
<1>1. r \notin gone /\ rows[r] # NoRow
  BY DEF PurgedRows
<1>2. RowInv(r, rows[r])
  BY <1>1 DEF RowsInv, RowsAre
<1>3. CASE rows[r].docs \cap drop # {}
  <2>1. PurgedRows(gone, drop)[r] = Remerged(rows[r].docs \ drop, rows[r])
    BY <1>1, <1>3 DEF PurgedRows
  <2> DEFINE kept == rows[r].docs \ drop
             old == rows[r]
             new == Remerged(kept, old)
  <2>2. DocsOf(r, kept)
    BY <1>1, <1>2, KeptDocs DEF Spares, RowInv
  <2>3. rows[r].card \in Cards
    BY <1>2 DEF RowInv, Rows
  <2>4. RowInv(r, new) /\ \E x \in kept : new.day = x.view.day
    <3> HIDE DEF kept, old
    <3>1. old.card \in Cards
      BY <2>3 DEF old
    <3> QED BY <2>2, <3>1, RemergedInv
  <2> HIDE DEF new
  <2>5. PurgedRows(gone, drop)[r] = new
    BY <2>1 DEF new
  <2> QED BY <1>1, <1>3, <2>4, <2>5
<1>4. CASE rows[r].docs \cap drop = {}
  BY <1>1, <1>2, <1>4 DEF PurgedRows
<1> QED BY <1>3, <1>4

\* What a purge of old requests leaves is not old.
LEMMA PurgedLater ==
  ASSUME RowsInv, NEW t, PurgeBefore(t), NEW r \in Requests, rows'[r] # NoRow
  PROVE  ~(rows'[r].day < t)
<1> DEFINE gone == {q \in Requests : rows[q] # NoRow /\ rows[q].day < t}
           drop == {x \in StoredDocs : x.view.day < t}
<1>1. PurgeRows(gone, drop, t)
  BY DEF PurgeBefore
<1>2. Spares(gone, drop)
  BY PurgeBeforeSpares
<1>3. rows' = PurgedRows(gone, drop)
  <2> HIDE DEF gone, drop
  <2> QED BY <1>1, PurgeWrites
<1>4. /\ r \notin gone /\ rows[r] # NoRow
      /\ \/ rows'[r] = rows[r]
         \/ \E x \in rows[r].docs \ drop : rows'[r].day = x.view.day
  <2> HIDE DEF gone, drop
  <2> QED BY <1>2, <1>3, PurgedRow
<1>5. CASE rows'[r] = rows[r]
  BY <1>4, <1>5
<1>6. ASSUME NEW x \in rows[r].docs \ drop, rows'[r].day = x.view.day PROVE ~(rows'[r].day < t)
  <2>1. x \in StoredDocs
    BY <1>4 DEF StoredDocs
  <2> QED BY <1>6, <2>1
<1> QED BY <1>4, <1>5, <1>6

\* Every step leaves rows with their documents in the table.
LEMMA RowsStep ==
  ASSUME RowsInv, today \in Nat, [Next]_vars
  PROVE  RowsInv'
<1>0. CASE UNCHANGED rows
  BY <1>0 DEF RowsInv, RowsAre
<1>1. ASSUME NEW v \in Views, Ingest(v) PROVE RowsInv'
  <2> DEFINE old == rows[v.req]
             docs == (IF old = NoRow THEN {} ELSE old.docs) \cup {Doc(v)}
             new == Remerged(docs, old)
  <2>1. rows' = [rows EXCEPT ![v.req] = new]
    BY <1>1 DEF Ingest
  <2>2. v.req \in Requests
    BY ViewsAssumption
  <2>3. old # NoRow => RowInv(v.req, old)
    BY <2>2 DEF RowsInv, RowsAre
  <2>4. DocsOf(v.req, docs)
    BY <2>3, AddedDocs DEF RowInv
  <2>5. RowInv(v.req, new)
    <3>1. old # NoRow => old.card \in Cards
      BY <2>3 DEF RowInv, Rows
    <3> HIDE DEF old, docs
    <3> QED BY <2>4, <3>1, RemergedInv
  <2> HIDE DEF new
  <2> QED BY <2>1, <2>2, <2>5 DEF RowsInv, RowsAre
<1>2. ASSUME NEW p \in Processes, RepriceWrite(p) PROVE RowsInv'
  <2>1. rows' = [r \in Requests |->
                   IF \E x \in job[p].read : x.req = r /\ StillThere(x)
                   THEN [rows[r] EXCEPT !.card = "reprice"] ELSE rows[r]]
    BY <1>2 DEF RepriceWrite
  <2>2. ASSUME NEW r \in Requests, rows'[r] # NoRow PROVE RowInv(r, rows'[r])
    <3>1. CASE \E x \in job[p].read : x.req = r /\ StillThere(x)
      <4>1. rows[r] # NoRow
        BY <3>1 DEF StillThere
      <4>2. rows'[r] = [rows[r] EXCEPT !.card = "reprice"]
        BY <2>1, <3>1
      <4>3. RowInv(r, rows[r])
        BY <4>1 DEF RowsInv, RowsAre
      <4> QED BY <4>2, <4>3, RepricedInv
    <3>2. CASE ~\E x \in job[p].read : x.req = r /\ StillThere(x)
      <4>1. rows'[r] = rows[r]
        BY <2>1, <3>2
      <4> QED BY <4>1, <2>2 DEF RowsInv, RowsAre
    <3> QED BY <3>1, <3>2
  <2> QED BY <2>1, <2>2 DEF RowsInv, RowsAre
<1>3. CASE Retention
  <2> DEFINE cut == Cut(IdentityDays)
             old == {r \in Requests : rows[r] # NoRow /\ rows[r].day < Cut(RequestDays)}
  <2>0. cut \in Nat
    BY DaysAssumption DEF Cut
  <2>1. rows' = [r \in Requests |->
                   IF r \in old THEN NoRow
                   ELSE [q \in Requests |-> IF rows[q] = NoRow THEN NoRow
                                            ELSE NulledRow(rows[q], cut)][r]]
    BY <1>3 DEF Retention
  <2> HIDE DEF cut, old
  <2>2. ASSUME NEW r \in Requests, rows'[r] # NoRow PROVE RowInv(r, rows'[r])
    <3>1. rows[r] # NoRow /\ rows'[r] = NulledRow(rows[r], cut)
      BY <2>1, <2>2
    <3> QED BY <2>0, <3>1, NulledInv DEF RowsInv, RowsAre
  <2> QED BY <2>1, <2>2 DEF RowsInv, RowsAre
<1>4. ASSUME NEW gone, NEW drop, NEW before, PurgeRows(gone, drop, before), Spares(gone, drop)
      PROVE  RowsInv'
  <2>1. rows' = PurgedRows(gone, drop)
    BY <1>4, PurgeWrites
  <2>2. RowsAre(rows')
    BY <1>4, <2>1, PurgedRow DEF RowsAre
  <2>3. rows' = [r \in Requests |-> rows'[r]]
    BY <2>1 DEF PurgedRows
  <2> QED BY <2>2, <2>3 DEF RowsInv, RowsAre
<1>5. CASE UNCHANGED vars
  BY <1>0, <1>5 DEF vars
<1>6. CASE Next
  <2>1. ASSUME NEW l \in Lanes, ShellArrives(l) PROVE UNCHANGED rows
    BY <2>1 DEF ShellArrives
  <2>2. ASSUME NEW p \in Processes, RepriceRead(p) \/ RefreshWrite(p) PROVE UNCHANGED rows
    BY <2>2 DEF RepriceRead, RefreshWrite
  <2>3. ASSUME NEW p \in Processes, NEW lo \in Days, NEW hi \in Days, RefreshRead(p, lo, hi)
        PROVE  UNCHANGED rows
    BY <2>3 DEF RefreshRead
  <2>4. RetentionFails \/ Tick => UNCHANGED rows
    BY DEF RetentionFails, Tick, vars
  <2>5. ASSUME NEW w \in Principals, PurgePrincipal(w) PROVE RowsInv'
    BY <1>4, <2>5, PurgePrincipalSpares DEF PurgePrincipal
  <2>6. ASSUME NEW t \in 1..today, PurgeBefore(t) PROVE RowsInv'
    BY <1>4, <2>6, PurgeBeforeSpares DEF PurgeBefore
  <2> QED BY <1>0, <1>1, <1>2, <1>3, <1>6, <2>1, <2>2, <2>3, <2>4, <2>5, <2>6 DEF Next
<1> QED BY <1>5, <1>6

LEMMA RowsInit == Init => RowsInv
BY DEF Init, RowsInv, RowsAre

\* The clock only moves on.
LEMMA ClockForward ==
  ASSUME today \in Nat, [Next]_vars
  PROVE  today' \in Nat /\ today <= today'
<1>2. CASE Tick
  BY <1>2 DEF Tick
<1>3. CASE UNCHANGED today
  BY <1>3
<1>4. CASE Next
  <2>1. \A v \in Views : Ingest(v) => UNCHANGED today
    BY DEF Ingest
  <2>2. \A l \in Lanes : ShellArrives(l) => UNCHANGED today
    BY DEF ShellArrives
  <2>3. \A p \in Processes : RepriceRead(p) \/ RepriceWrite(p) \/ RefreshWrite(p) => UNCHANGED today
    BY DEF RepriceRead, RepriceWrite, RefreshWrite
  <2>4. \A p \in Processes, lo, hi \in Days : RefreshRead(p, lo, hi) => UNCHANGED today
    BY DEF RefreshRead
  <2>5. Retention \/ RetentionFails => UNCHANGED today
    BY DEF Retention, RetentionFails, vars
  <2>6. \A w \in Principals : PurgePrincipal(w) => UNCHANGED today
    BY DEF PurgePrincipal, PurgeRows
  <2>7. \A t \in 1..today : PurgeBefore(t) => UNCHANGED today
    BY DEF PurgeBefore, PurgeRows
  <2> QED BY <1>2, <1>3, <1>4, <2>1, <2>2, <2>3, <2>4, <2>5, <2>6, <2>7 DEF Next
<1>5. CASE UNCHANGED vars
  BY <1>3, <1>5 DEF vars
<1> QED BY <1>4, <1>5

\* A cell with requests has a row, also after the users were kept.
LEMMA CellThere ==
  ASSUME NEW rs, RowsAre(rs), CellsOK, NEW d \in Days, NEW k \in Kinds, InCell(d, k, rs) # {}
  PROVE  /\ KeepUsers(Cell(d, k, rs), d, k) # NoRow
         /\ KeepUsers(Cell(d, k, rs), d, k).sums = Sums(d, k, rs)
<1> DEFINE n == ActiveUsers(d, k, rs)
           S == Sums(d, k, rs)
           new == Cell(d, k, rs)
           old == rollup[d][k]
<1>1. n \in Nat
  BY UsersNat
<1>2. S \subseteq Requests \X Cards
  <2> SUFFICES ASSUME NEW r \in InCell(d, k, rs) PROVE <<r, rs[r].card>> \in Requests \X Cards
    BY DEF Sums
  <2>1. r \in Requests /\ rs[r] # NoRow
    BY DEF InCell
  <2>2. rs[r].card \in Cards
    BY <2>1 DEF RowsAre, RowInv, Rows
  <2> QED BY <2>1, <2>2
<1>3. new = [sums |-> S, users |-> n]
  BY DEF Cell
<1>4. CASE KeepUsers(new, d, k) = new
  <2>1. new \in Cells /\ new.sums = S
    <3> HIDE DEF new, S, n
    <3> QED BY <1>1, <1>2, <1>3 DEF Cells
  <2> QED BY <1>4, <2>1, NoRowAssumption
<1>5. CASE KeepUsers(new, d, k) # new
  <2>1. old # NoRow /\ KeepUsers(new, d, k) = [new EXCEPT !.users = old.users]
    <3> HIDE DEF new
    <3> QED BY <1>5 DEF KeepUsers
  <2>2. old.users \in Nat
    BY <2>1 DEF CellsOK
  <2>3. [new EXCEPT !.users = old.users] = [sums |-> S, users |-> old.users]
    <3> HIDE DEF new, S, n, old
    <3> QED BY <1>3
  <2>4. [sums |-> S, users |-> old.users] \in Cells /\ [sums |-> S, users |-> old.users].sums = S
    <3> HIDE DEF S, old
    <3> QED BY <1>2, <2>2 DEF Cells
  <2> QED BY <2>1, <2>3, <2>4, NoRowAssumption
<1> QED BY <1>4, <1>5

\* The refresh inside retention counts the users of a date from the requests as they are.
LEMMA RetentionCounts ==
  ASSUME CellsOK, RowsInv, today \in Nat, Retention,
         NEW d \in Days, NEW k \in Kinds, d >= Cut(RollupDays),
         NEW r \in InCell(d, k, rows), Expired(r)
  PROVE  rollup'[d][k] # NoRow /\ rollup'[d][k].users >= ActiveUsers(d, k, rows)
<1> DEFINE dates == {rows[q].day : q \in {x \in Requests : Expired(x)}}
                      \cup {e \in dirty : e < Cut(IdentityDays)}
<1>1. rollup' = [e \in Days |-> IF e < Cut(RollupDays) THEN [j \in Kinds |-> NoRow]
                                ELSE RefreshedFirst(dates)[e]]
  BY DEF Retention
<1>2. d \in dates
  BY DEF InCell
<1>3. ~(d < Cut(RollupDays))
  BY DaysAssumption DEF Days, Cut
<1>4. rollup'[d][k] = KeepUsers(Cell(d, k, rows), d, k)
  <2> HIDE DEF dates
  <2> QED BY <1>1, <1>2, <1>3 DEF RefreshedFirst, Refreshed
<1>5. rollup'[d][k] # NoRow
  BY <1>4, CellThere DEF RowsInv
<1> QED BY <1>4, <1>5, CellUsers

\* Retention counts the users of a day before it takes their names, whatever
\* was stale and whatever other processes are in the middle of
\* (retention.py apply_retention: the refresh precedes the UPDATE).
THEOREM UsersAreCounted == Spec => CountedBeforeNulled
<1> DEFINE Inv == CellsOK /\ RowsInv /\ today \in Nat
<1>1. Init => Inv
  BY CellsInit, RowsInit DEF Init
<1>2. Inv /\ [Next]_vars => Inv'
  BY CellsStep, RowsStep, ClockForward
<1>3. Inv =>
        [Retention =>
           \A d \in Days, k \in Kinds :
             d >= Cut(RollupDays) /\ (\E r \in InCell(d, k, rows) : Expired(r))
             => rollup'[d][k] # NoRow /\ rollup'[d][k].users >= ActiveUsers(d, k, rows)]_vars
  BY RetentionCounts
<1> HIDE DEF Inv
<1> QED BY <1>1, <1>2, <1>3, PTL DEF Spec, CountedBeforeNulled

-----------------------------------------------------------------------------
(* Types *)

CellType == [sums : (SUBSET (Requests \X Cards)) \ {{}}, users : 0..Cardinality(Principals)]
CellsTyped == \A d \in Days, k \in Kinds : rollup[d][k] # NoRow => rollup[d][k] \in CellType

TypeInv ==
  /\ RowsInv /\ CellsTyped /\ JobsInv
  /\ kind \in [Lanes -> Kinds]
  /\ dirty \subseteq Days /\ retained \in Days /\ today \in Days
  /\ DOMAIN job = Processes

LEMMA PrincipalsFinite == IsFiniteSet(Principals) /\ Cardinality(Principals) \in Nat
<1> DEFINE W == {v.who : v \in Views}
           f == [v \in Views |-> v.who]
<1>1. f \in Surjection(Views, W)
  BY DEF Surjection
<1>2. IsFiniteSet(W)
  <2> HIDE DEF f, W
  <2> QED BY <1>1, ViewsAssumption, FS_Surjection
<1>3. IsFiniteSet(Principals)
  <2>1. Principals = W \ {Nobody}
    BY DEF Principals
  <2> HIDE DEF W
  <2> QED BY <1>2, <2>1, FS_Difference
<1> QED BY <1>3, FS_CardinalityType

\* A cell counts no more users than there are principals.
LEMMA UsersBounded ==
  ASSUME NEW d, NEW k, NEW rs, RowsAre(rs)
  PROVE  ActiveUsers(d, k, rs) \in 0..Cardinality(Principals)
<1> DEFINE Who == {rs[r].who : r \in InCell(d, k, rs)} \ {Nobody}
<1>1. Who \subseteq Principals
  <2> SUFFICES ASSUME NEW r \in InCell(d, k, rs), rs[r].who # Nobody PROVE rs[r].who \in Principals
    OBVIOUS
  <2>1. r \in Requests /\ rs[r] # NoRow
    BY DEF InCell
  <2> QED BY <2>1 DEF RowsAre, RowInv, Rows
<1>2. ActiveUsers(d, k, rs) = Cardinality(Who)
  BY DEF ActiveUsers
<1> HIDE DEF Who
<1>3. Cardinality(Who) <= Cardinality(Principals) /\ IsFiniteSet(Who)
  BY <1>1, PrincipalsFinite, FS_Subset
<1>4. Cardinality(Who) \in Nat
  BY <1>3, FS_CardinalityType
<1> QED BY <1>2, <1>3, <1>4, PrincipalsFinite

\* A refreshed cell has its type.
LEMMA CellTyped ==
  ASSUME NEW rs, RowsAre(rs), CellsTyped, NEW d \in Days, NEW k \in Kinds,
         KeepUsers(Cell(d, k, rs), d, k) # NoRow
  PROVE  KeepUsers(Cell(d, k, rs), d, k) \in CellType
<1> DEFINE n == ActiveUsers(d, k, rs)
           S == Sums(d, k, rs)
           new == Cell(d, k, rs)
           old == rollup[d][k]
           kept == KeepUsers(new, d, k)
<1>1. new # NoRow
  BY DEF KeepUsers
<1>2. new = [sums |-> S, users |-> n] /\ InCell(d, k, rs) # {}
  BY <1>1 DEF Cell
<1>3. n \in 0..Cardinality(Principals)
  BY UsersBounded
<1>4. S \in (SUBSET (Requests \X Cards)) \ {{}}
  <2>1. ASSUME NEW r \in InCell(d, k, rs) PROVE <<r, rs[r].card>> \in Requests \X Cards
    <3>1. r \in Requests /\ rs[r] # NoRow
      BY DEF InCell
    <3>2. rs[r].card \in Cards
      BY <3>1 DEF RowsAre, RowInv, Rows
    <3> QED BY <3>1, <3>2
  <2> QED BY <1>2, <2>1 DEF Sums
<1>5. new \in CellType
  <2> HIDE DEF new, S, n
  <2> QED BY <1>2, <1>3, <1>4 DEF CellType
<1>6. old # NoRow => old.users \in 0..Cardinality(Principals)
  BY DEF CellsTyped, CellType
<1>7. kept = new \/ (old # NoRow /\ kept = [new EXCEPT !.users = old.users])
  <2> HIDE DEF new
  <2> QED BY DEF KeepUsers
<1>8. kept \in CellType
  <2> HIDE DEF new, old, kept
  <2> QED BY <1>5, <1>6, <1>7 DEF CellType
<1> QED BY <1>8

LEMMA CellsTypedStep ==
  ASSUME CellsTyped, RowsInv, RowsInv', [Next]_vars
  PROVE  CellsTyped'
<1> SUFFICES ASSUME NEW d \in Days, NEW k \in Kinds, rollup'[d][k] # NoRow
             PROVE  rollup'[d][k] \in CellType
  BY DEF CellsTyped, CellType
<1>1. CellStep(d, k)
  BY NextCellStep
<1>2. CASE rollup'[d][k] = rollup[d][k]
  BY <1>2 DEF CellsTyped
<1>3. ASSUME NEW rs \in {rows, rows'}, rollup'[d][k] = KeepUsers(Cell(d, k, rs), d, k)
      PROVE  rollup'[d][k] \in CellType
  <2>1. RowsAre(rs)
    BY DEF RowsInv, RowsAre
  <2> QED BY <1>3, <2>1, CellTyped
<1> QED BY <1>1, <1>2, <1>3 DEF CellStep

LEMMA RowDays ==
  ASSUME RowsInv, NEW r \in Requests, rows[r] # NoRow
  PROVE  rows[r].day \in Days
BY DEF RowsInv, RowsAre, RowInv, Rows

LEMMA CutDay ==
  ASSUME today \in Days, NEW days \in Nat
  PROVE  Cut(days) \in Days /\ Cut(days) \in Nat
BY DaysAssumption DEF Cut, Days

\* What the two halves of a refresh and of a reprice hand over.
LEMMA HeldJob ==
  ASSUME JobsInv, NEW p \in Processes
  PROVE  /\ job[p].op = "refresh" => job[p].stale \subseteq Days /\ job[p].wanted \subseteq Days
         /\ job[p].op = "reprice" => \A x \in job[p].read : x.day \in Days
<1>1. CASE job[p] = Idle
  <2>1. job[p].op = "idle"
    BY <1>1 DEF Idle
  <2> QED BY <2>1
<1>2. ASSUME NEW stale \in SUBSET Days, NEW wanted \in SUBSET Days,
             job[p] = [op |-> "refresh", stale |-> stale, wanted |-> wanted]
      PROVE  job[p].op = "refresh" /\ job[p].stale \subseteq Days /\ job[p].wanted \subseteq Days
  BY <1>2
<1>3. ASSUME NEW read, job[p] = [op |-> "reprice", read |-> read], \A x \in read : x.day \in Days
      PROVE  job[p].op = "reprice" /\ \A x \in job[p].read : x.day \in Days
  BY <1>3
<1> QED BY <1>1, <1>2, <1>3 DEF JobsInv

\* Stale dates are dates, whatever two processes do with the stale set.
LEMMA DirtyStep ==
  ASSUME TypeInv, RowsInv', [Next]_vars
  PROVE  dirty' \subseteq Days
<1>0. /\ dirty \subseteq Days /\ RowsInv /\ JobsInv
      /\ \A r \in Requests : rows[r] # NoRow => rows[r].day \in Days
      /\ \A r \in Requests : rows'[r] # NoRow => rows'[r].day \in Days
  BY RowDays DEF TypeInv, RowsInv, RowsAre, RowInv, Rows
<1>1. CASE UNCHANGED dirty
  BY <1>0, <1>1
<1>2. ASSUME NEW v \in Views, Ingest(v) PROVE dirty' \subseteq Days
  <2> DEFINE old == rows[v.req]
             docs == (IF old = NoRow THEN {} ELSE old.docs) \cup {Doc(v)}
             new == Remerged(docs, old)
  <2>1. dirty' = dirty \cup DayOf(v.req) \cup {new.day}
    BY <1>2 DEF Ingest
  <2>2. v.req \in Requests
    BY ViewsAssumption
  <2>3. old # NoRow => RowInv(v.req, old)
    BY <1>0, <2>2 DEF RowsInv, RowsAre
  <2>4. DocsOf(v.req, docs)
    BY <2>3, AddedDocs DEF RowInv
  <2>5. new.day \in Days
    <3>1. old # NoRow => old.card \in Cards
      BY <2>3 DEF RowInv, Rows
    <3> HIDE DEF old, docs
    <3>2. RowInv(v.req, new)
      BY <2>4, <3>1, RemergedInv
    <3> HIDE DEF new
    <3> QED BY <3>2 DEF RowInv, Rows
  <2> HIDE DEF new
  <2> QED BY <1>0, <2>1, <2>2, <2>5 DEF DayOf
<1>3. ASSUME NEW p \in Processes, RepriceWrite(p) PROVE dirty' \subseteq Days
  <2>1. dirty' = dirty \cup {x.day : x \in job[p].read} /\ job[p].op = "reprice"
    BY <1>3 DEF RepriceWrite
  <2>2. PICK read : job[p].read = read /\ \A x \in read : x.day \in Days
    BY <1>0, <2>1, HeldJob
  <2> QED BY <1>0, <2>1, <2>2
<1>4. ASSUME NEW p \in Processes, RefreshWrite(p) PROVE dirty' \subseteq Days
  <2>1. dirty' = job[p].stale \ job[p].wanted /\ job[p].op = "refresh"
    BY <1>4 DEF RefreshWrite
  <2>2. job[p].stale \subseteq Days
    BY <1>0, <2>1, HeldJob
  <2> QED BY <2>1, <2>2
<1>5. CASE Retention
  <2>1. PICK dates : dirty' = (dirty \ dates)
                       \cup {rows[r].day : r \in {q \in Requests :
                                                  rows[q] # NoRow /\ rows[q].day < Cut(RequestDays)}}
    BY <1>5 DEF Retention
  <2> QED BY <1>0, <2>1
<1>6. CASE UNCHANGED vars
  BY <1>1, <1>6 DEF vars
<1>7. CASE Next
  <2>1. ASSUME NEW l \in Lanes, ShellArrives(l) PROVE UNCHANGED dirty
    BY <2>1 DEF ShellArrives
  <2>2. ASSUME NEW p \in Processes, RepriceRead(p) PROVE UNCHANGED dirty
    BY <2>2 DEF RepriceRead
  <2>3. ASSUME NEW p \in Processes, NEW lo \in Days, NEW hi \in Days, RefreshRead(p, lo, hi)
        PROVE  UNCHANGED dirty
    BY <2>3 DEF RefreshRead
  <2>4. RetentionFails \/ Tick => UNCHANGED dirty
    BY DEF RetentionFails, Tick, vars
  <2>5. ASSUME NEW w \in Principals, PurgePrincipal(w) PROVE dirty' = {}
    BY <2>5 DEF PurgePrincipal, PurgeRows
  <2>6. ASSUME NEW t \in 1..today, PurgeBefore(t) PROVE dirty' = {}
    BY <2>6 DEF PurgeBefore, PurgeRows
  <2> QED BY <1>1, <1>2, <1>3, <1>4, <1>5, <1>7, <2>1, <2>2, <2>3, <2>4, <2>5, <2>6 DEF Next
<1> QED BY <1>6, <1>7

LEMMA JobsStep ==
  ASSUME TypeInv, [Next]_vars
  PROVE  JobsInv' /\ DOMAIN job' = Processes
<1>0. JobsInv /\ DOMAIN job = Processes /\ dirty \subseteq Days /\ RowsInv
  BY DEF TypeInv
<1>1. CASE UNCHANGED job
  BY <1>0, <1>1 DEF JobsInv
<1>2. ASSUME NEW p \in Processes, RepriceRead(p) PROVE JobsInv' /\ DOMAIN job' = Processes
  <2> DEFINE read == {[req |-> r, day |-> rows[r].day, view |-> WinnerOf(rows[r].docs).view] :
                        r \in {q \in Requests : rows[q] # NoRow}}
  <2>1. job' = [job EXCEPT ![p] = [op |-> "reprice", read |-> read]]
    BY <1>2 DEF RepriceRead
  <2>2. \A x \in read : x.day \in Days
    BY <1>0, RowDays
  <2> HIDE DEF read
  <2>3. job'[p] = [op |-> "reprice", read |-> read]
    BY <1>0, <2>1
  <2>4. \A q \in Processes \ {p} : job'[q] = job[q]
    BY <1>0, <2>1
  <2>5. DOMAIN job' = Processes
    BY <1>0, <2>1
  <2>6. ASSUME NEW q \in Processes \ {p}, NEW j, j = job[q]
        PROVE  \/ j = Idle
               \/ \E stale, days \in SUBSET Days : j = [op |-> "refresh", stale |-> stale, wanted |-> days]
               \/ \E seen : j = [op |-> "reprice", read |-> seen] /\ \A x \in seen : x.day \in Days
    BY <1>0, <2>6 DEF JobsInv
  <2> QED BY <2>2, <2>3, <2>4, <2>5, <2>6 DEF JobsInv
<1>3. ASSUME NEW p \in Processes, RepriceWrite(p) \/ RefreshWrite(p)
      PROVE  JobsInv' /\ DOMAIN job' = Processes
  <2>1. job' = [job EXCEPT ![p] = Idle]
    BY <1>3 DEF RepriceWrite, RefreshWrite
  <2>2. job'[p] = Idle /\ \A q \in Processes \ {p} : job'[q] = job[q]
    BY <1>0, <2>1
  <2> QED BY <1>0, <2>1, <2>2 DEF JobsInv
<1>4. ASSUME NEW p \in Processes, NEW lo \in Days, NEW hi \in Days, RefreshRead(p, lo, hi)
      PROVE  JobsInv' /\ DOMAIN job' = Processes
  <2> DEFINE wanted == {d \in dirty : lo <= d /\ d <= hi}
  <2>1. job' = [job EXCEPT ![p] = [op |-> "refresh", stale |-> dirty, wanted |-> wanted]]
    BY <1>4 DEF RefreshRead
  <2>2. dirty \in SUBSET Days /\ wanted \in SUBSET Days
    BY <1>0
  <2> HIDE DEF wanted
  <2>3. job'[p] = [op |-> "refresh", stale |-> dirty, wanted |-> wanted]
    BY <1>0, <2>1
  <2>4. \A q \in Processes \ {p} : job'[q] = job[q]
    BY <1>0, <2>1
  <2>5. DOMAIN job' = Processes
    BY <1>0, <2>1
  <2>6. ASSUME NEW q \in Processes \ {p}, NEW j, j = job[q]
        PROVE  \/ j = Idle
               \/ \E stale, days \in SUBSET Days : j = [op |-> "refresh", stale |-> stale, wanted |-> days]
               \/ \E seen : j = [op |-> "reprice", read |-> seen] /\ \A x \in seen : x.day \in Days
    BY <1>0, <2>6 DEF JobsInv
  <2> QED BY <2>2, <2>3, <2>4, <2>5, <2>6 DEF JobsInv
<1>5. CASE UNCHANGED vars
  BY <1>1, <1>5 DEF vars
<1>6. CASE Next
  <2>1. \A v \in Views : Ingest(v) => UNCHANGED job
    BY DEF Ingest
  <2>2. \A l \in Lanes : ShellArrives(l) => UNCHANGED job
    BY DEF ShellArrives
  <2>3. Retention \/ RetentionFails \/ Tick => UNCHANGED job
    BY DEF Retention, RetentionFails, Tick, vars
  <2>4. \A w \in Principals : PurgePrincipal(w) => UNCHANGED job
    BY DEF PurgePrincipal, PurgeRows
  <2>5. \A t \in 1..today : PurgeBefore(t) => UNCHANGED job
    BY DEF PurgeBefore, PurgeRows
  <2> QED BY <1>1, <1>2, <1>3, <1>4, <1>6, <2>1, <2>2, <2>3, <2>4, <2>5 DEF Next
<1> QED BY <1>5, <1>6

\* The lane kinds, the clock and the retention mark.
LEMMA RestStep ==
  ASSUME TypeInv, [Next]_vars
  PROVE  kind' \in [Lanes -> Kinds] /\ today' \in Days /\ retained' \in Days
<1>0. kind \in [Lanes -> Kinds] /\ today \in Days /\ retained \in Days
  BY DEF TypeInv
<1>1. CASE UNCHANGED <<kind, today, retained>>
  BY <1>0, <1>1
<1>2. ASSUME NEW l \in Lanes, ShellArrives(l)
      PROVE  kind' \in [Lanes -> Kinds] /\ today' \in Days /\ retained' \in Days
  BY <1>0, <1>2 DEF ShellArrives, Kinds
<1>3. CASE Tick
  BY <1>0, <1>3, DaysAssumption DEF Tick, Days
<1>4. CASE Retention
  <2>1. Cut(IdentityDays) \in Days
    BY <1>0, CutDay, DaysAssumption
  <2>2. retained' \in {Cut(IdentityDays), retained} /\ UNCHANGED <<kind, today>>
    BY <1>4 DEF Retention
  <2> QED BY <1>0, <2>1, <2>2
<1>5. CASE UNCHANGED vars
  BY <1>1, <1>5 DEF vars
<1>6. CASE Next
  <2>1. \A v \in Views : Ingest(v) => UNCHANGED <<kind, today, retained>>
    BY DEF Ingest
  <2>2. \A p \in Processes : RepriceRead(p) \/ RepriceWrite(p) \/ RefreshWrite(p)
          => UNCHANGED <<kind, today, retained>>
    BY DEF RepriceRead, RepriceWrite, RefreshWrite
  <2>3. \A p \in Processes, lo, hi \in Days : RefreshRead(p, lo, hi)
          => UNCHANGED <<kind, today, retained>>
    BY DEF RefreshRead
  <2>4. RetentionFails => UNCHANGED <<kind, today, retained>>
    BY DEF RetentionFails, vars
  <2>5. \A w \in Principals : PurgePrincipal(w) => UNCHANGED <<kind, today, retained>>
    BY DEF PurgePrincipal, PurgeRows
  <2>6. \A t \in 1..today : PurgeBefore(t) => UNCHANGED <<kind, today, retained>>
    BY DEF PurgeBefore, PurgeRows
  <2> QED BY <1>1, <1>2, <1>3, <1>4, <1>6, <2>1, <2>2, <2>3, <2>4, <2>5, <2>6 DEF Next
<1> QED BY <1>5, <1>6

LEMMA TypeInvInit == Init => TypeInv
<1> SUFFICES ASSUME Init PROVE TypeInv
  OBVIOUS
<1>1. 0 \in Days
  BY DaysAssumption DEF Days
<1>2. kind \in [Lanes -> Kinds]
  BY DEF Init, Kinds
<1>3. CellsTyped
  BY DEF Init, CellsTyped
<1>4. JobsInv /\ DOMAIN job = Processes
  BY DEF Init, JobsInv
<1> QED BY <1>1, <1>2, <1>3, <1>4, RowsInit DEF Init, TypeInv

LEMMA TypeInvStep == TypeInv /\ [Next]_vars => TypeInv'
<1> SUFFICES ASSUME TypeInv, [Next]_vars PROVE TypeInv'
  OBVIOUS
<1>1. today \in Nat
  BY DaysAssumption DEF TypeInv, Days
<1>2. RowsInv'
  BY <1>1, RowsStep DEF TypeInv
<1>3. CellsTyped'
  BY <1>2, CellsTypedStep DEF TypeInv
<1> QED BY <1>2, <1>3, DirtyStep, JobsStep, RestStep DEF TypeInv

\* Merged rows, rollup cells, stale dates and what processes hold keep their
\* types, for any number of processes: a purge never leaves a request without
\* documents, and a row is always dated by one of its documents (db.py purge,
\* retention.py, rollups.py).
THEOREM RollupsTypeOK == Spec => []TypeOK
<1>1. TypeInv => TypeOK
  <2> SUFFICES ASSUME TypeInv PROVE TypeOK
    OBVIOUS
  <2>1. rows \in [Requests -> Rows \cup {NoRow}]
    <3>1. \A r \in Requests : rows[r] \in Rows \cup {NoRow}
      BY DEF TypeInv, RowsInv, RowsAre, RowInv
    <3>2. rows = [r \in Requests |-> rows[r]]
      BY DEF TypeInv, RowsInv
    <3> QED BY <3>1, <3>2
  <2>2. \A p \in Processes : job[p].op \in {"idle", "reprice", "refresh"}
    BY DEF TypeInv, JobsInv, Idle
  <2> QED BY <2>1, <2>2 DEF TypeInv, TypeOK, CellsTyped, CellType
<1> QED BY <1>1, TypeInvInit, TypeInvStep, PTL DEF Spec

-----------------------------------------------------------------------------
(* Freshness, for one process *)

\* One process has the ledger open.
OneProcess == \A p, q \in Processes : p = q

\* What the requests of a date add up to, whatever the kinds of their lanes.
DaySums(d, rs) == {<<r, rs[r].card>> : r \in {q \in Requests : rs[q] # NoRow /\ rs[q].day = d}}

FreshDay(d) ==
  /\ UNION {StoredSums(d, k) : k \in Kinds} = DaySums(d, rows)
  /\ \A j, k \in Kinds : j # k => StoredSums(d, j) \cap StoredSums(d, k) = {}

\* What a process read before its transaction is still so.
SettledJob(p) ==
  \/ job[p] = Idle
  \/ \E wanted \in SUBSET dirty : job[p] = [op |-> "refresh", stale |-> dirty, wanted |-> wanted]
  \/ \E read : /\ job[p] = [op |-> "reprice", read |-> read]
               /\ \A x \in read : x.day = rows[x.req].day

Settled == \A p \in Processes : SettledJob(p)

FreshInv ==
  /\ TypeInv /\ Settled
  /\ \A d \in Days \ dirty : d >= Cut(RollupDays) => FreshDay(d)

\* The sums of a date over the lane kinds: every request is in one of them.
LEMMA SumsOfDay ==
  ASSUME kind \in [Lanes -> Kinds], NEW d, NEW rs
  PROVE  /\ UNION {Sums(d, k, rs) : k \in Kinds} = DaySums(d, rs)
         /\ \A j, k \in Kinds : j # k => Sums(d, j, rs) \cap Sums(d, k, rs) = {}
<1>1. ASSUME NEW s \in DaySums(d, rs) PROVE \E k \in Kinds : s \in Sums(d, k, rs)
  <2>1. PICK r \in Requests : rs[r] # NoRow /\ rs[r].day = d /\ s = <<r, rs[r].card>>
    BY DEF DaySums
  <2>2. LaneOf[r] \in Lanes
    BY DEF Lanes
  <2>3. kind[LaneOf[r]] \in Kinds
    BY <2>2
  <2>4. r \in InCell(d, kind[LaneOf[r]], rs)
    BY <2>1 DEF InCell
  <2> QED BY <2>1, <2>3, <2>4 DEF Sums
<1>2. ASSUME NEW k \in Kinds, NEW s \in Sums(d, k, rs)
      PROVE  s \in DaySums(d, rs) /\ \E r \in Requests : s = <<r, rs[r].card>> /\ kind[LaneOf[r]] = k
  <2>1. PICK r \in InCell(d, k, rs) : s = <<r, rs[r].card>>
    BY DEF Sums
  <2> QED BY <2>1 DEF InCell, DaySums
<1>3. UNION {Sums(d, k, rs) : k \in Kinds} = DaySums(d, rs)
  BY <1>1, <1>2
<1>4. ASSUME NEW j \in Kinds, NEW k \in Kinds, NEW s \in Sums(d, j, rs) \cap Sums(d, k, rs) PROVE j = k
  <2>1. PICK r \in Requests : s = <<r, rs[r].card>> /\ kind[LaneOf[r]] = j
    BY <1>2
  <2>2. PICK q \in Requests : s = <<q, rs[q].card>> /\ kind[LaneOf[q]] = k
    BY <1>2
  <2>3. r = q
    BY <2>1, <2>2
  <2> QED BY <2>1, <2>2, <2>3
<1> QED BY <1>3, <1>4

\* Dates only become older.
LEMMA CutForward ==
  ASSUME TypeInv, [Next]_vars
  PROVE  /\ Cut(RollupDays) \in Nat /\ Cut(RollupDays)' \in Nat
         /\ Cut(RollupDays) <= Cut(RollupDays)'
<1>1. today \in Nat
  BY DaysAssumption DEF TypeInv, Days
<1>2. today' \in Nat /\ today <= today'
  BY <1>1, ClockForward
<1>3. Cut(RollupDays) = IF today > RollupDays THEN today - RollupDays ELSE 0
  BY DEF Cut
<1>4. Cut(RollupDays)' = IF today' > RollupDays THEN today' - RollupDays ELSE 0
  BY DEF Cut
<1>5. ASSUME NEW t \in Nat, NEW u \in Nat, t <= u, NEW n \in Nat
      PROVE  LET a == IF t > n THEN t - n ELSE 0
                 b == IF u > n THEN u - n ELSE 0
             IN a \in Nat /\ b \in Nat /\ a <= b
  BY <1>5
<1> QED BY <1>1, <1>2, <1>3, <1>4, <1>5, DaysAssumption

LEMMA FreshMeans ==
  ASSUME kind \in [Lanes -> Kinds]
  PROVE  RollupsFresh <=> \A d \in Days \ dirty : d >= Cut(RollupDays) => FreshDay(d)
<1>1. \A d : UNION {Sums(d, k, rows) : k \in Kinds} = DaySums(d, rows)
  BY SumsOfDay
<1> QED BY <1>1 DEF RollupsFresh, FreshDay

\* The requests of a date are the same in two tables.
SameOn(d, rs, ss) ==
  \A r \in Requests :
    /\ rs[r] # NoRow /\ rs[r].day = d => ss[r] # NoRow /\ ss[r].day = d /\ ss[r].card = rs[r].card
    /\ ss[r] # NoRow /\ ss[r].day = d => rs[r] # NoRow /\ rs[r].day = d /\ ss[r].card = rs[r].card

LEMMA SameSums ==
  ASSUME NEW d, NEW rs, NEW ss, SameOn(d, rs, ss)
  PROVE  DaySums(d, rs) = DaySums(d, ss)
<1>1. ASSUME NEW s \in DaySums(d, rs) PROVE s \in DaySums(d, ss)
  <2>1. PICK r \in Requests : rs[r] # NoRow /\ rs[r].day = d /\ s = <<r, rs[r].card>>
    BY DEF DaySums
  <2>2. ss[r] # NoRow /\ ss[r].day = d /\ s = <<r, ss[r].card>>
    BY <2>1 DEF SameOn
  <2> QED BY <2>2 DEF DaySums
<1>2. ASSUME NEW s \in DaySums(d, ss) PROVE s \in DaySums(d, rs)
  <2>1. PICK r \in Requests : ss[r] # NoRow /\ ss[r].day = d /\ s = <<r, ss[r].card>>
    BY DEF DaySums
  <2>2. rs[r] # NoRow /\ rs[r].day = d /\ s = <<r, rs[r].card>>
    BY <2>1 DEF SameOn
  <2> QED BY <2>2 DEF DaySums
<1> QED BY <1>1, <1>2

\* A date that no step touches stays fresh ...
LEMMA FreshKept ==
  ASSUME NEW d, FreshDay(d), SameOn(d, rows, rows'), rollup'[d] = rollup[d]
  PROVE  FreshDay(d)'
<1>1. \A k \in Kinds : StoredSums(d, k)' = StoredSums(d, k)
  BY DEF StoredSums
<1>2. DaySums(d, rows') = DaySums(d, rows)
  BY SameSums
<1> QED BY <1>1, <1>2 DEF FreshDay, DaySums

\* ... and a recomputed one becomes fresh.
LEMMA FreshMade ==
  ASSUME NEW d \in Days, NEW rs, RowsAre(rs), CellsOK, kind \in [Lanes -> Kinds],
         SameOn(d, rs, rows'),
         \A k \in Kinds : rollup'[d][k] = KeepUsers(Cell(d, k, rs), d, k)
  PROVE  FreshDay(d)'
<1>1. ASSUME NEW k \in Kinds PROVE StoredSums(d, k)' = Sums(d, k, rs)
  <2>1. CASE InCell(d, k, rs) = {}
    <3>1. Cell(d, k, rs) = NoRow /\ Sums(d, k, rs) = {}
      BY <2>1 DEF Cell, Sums
    <3>2. rollup'[d][k] = NoRow
      BY <3>1 DEF KeepUsers
    <3> QED BY <3>1, <3>2 DEF StoredSums
  <2>2. CASE InCell(d, k, rs) # {}
    <3>1. rollup'[d][k] # NoRow /\ rollup'[d][k].sums = Sums(d, k, rs)
      BY <2>2, CellThere
    <3> QED BY <3>1 DEF StoredSums
  <2> QED BY <2>1, <2>2
<1>2. DaySums(d, rs) = DaySums(d, rows')
  BY SameSums
<1>3. UNION {Sums(d, k, rs) : k \in Kinds} = DaySums(d, rs)
  BY SumsOfDay
<1>4. UNION {StoredSums(d, k)' : k \in Kinds} = DaySums(d, rows')
  BY <1>1, <1>2, <1>3
<1>5. \A j, k \in Kinds : j # k => StoredSums(d, j)' \cap StoredSums(d, k)' = {}
  BY <1>1, SumsOfDay
<1> QED BY <1>4, <1>5 DEF FreshDay, DaySums

LEMMA SameRows ==
  ASSUME NEW d, UNCHANGED rows
  PROVE  SameOn(d, rows, rows')
BY DEF SameOn

\* What a process holds, field by field.
LEMMA SettledFields ==
  ASSUME NEW p \in Processes, SettledJob(p)
  PROVE  /\ job[p].op = "refresh" => job[p].stale = dirty /\ job[p].wanted \subseteq dirty
         /\ job[p].op = "reprice" => \A x \in job[p].read : x.day = rows[x.req].day
<1>1. CASE job[p] = Idle
  <2>1. job[p].op = "idle"
    BY <1>1 DEF Idle
  <2> QED BY <2>1
<1>2. ASSUME NEW wanted \in SUBSET dirty,
             job[p] = [op |-> "refresh", stale |-> dirty, wanted |-> wanted]
      PROVE  job[p].op = "refresh" /\ job[p].stale = dirty /\ job[p].wanted \subseteq dirty
  BY <1>2
<1>3. ASSUME NEW read, job[p] = [op |-> "reprice", read |-> read],
             \A x \in read : x.day = rows[x.req].day
      PROVE  job[p].op = "reprice" /\ \A x \in job[p].read : x.day = rows[x.req].day
  BY <1>3
<1> QED BY <1>1, <1>2, <1>3 DEF SettledJob

\* A step of one process leaves what it holds true: the others are not there.
LEMMA SettledStep ==
  ASSUME OneProcess, Settled, DOMAIN job = Processes, [Next]_vars
  PROVE  Settled'
<1> SUFFICES ASSUME NEW p \in Processes PROVE SettledJob(p)'
  BY DEF Settled
<1>0. SettledJob(p)
  BY DEF Settled
<1>1. CASE UNCHANGED <<rows, dirty, job>>
  BY <1>0, <1>1 DEF SettledJob
<1>2. CASE Free /\ UNCHANGED job
  BY <1>2 DEF Free, OneProcess, SettledJob
<1>3. ASSUME NEW q \in Processes, RepriceRead(q) PROVE SettledJob(p)'
  <2> DEFINE read == {[req |-> r, day |-> rows[r].day, view |-> WinnerOf(rows[r].docs).view] :
                        r \in {x \in Requests : rows[x] # NoRow}}
  <2>1. p = q
    BY DEF OneProcess
  <2>2. job' = [job EXCEPT ![p] = [op |-> "reprice", read |-> read]] /\ UNCHANGED rows
    BY <1>3, <2>1 DEF RepriceRead
  <2>3. \A x \in read : x.day = rows[x.req].day
    OBVIOUS
  <2> HIDE DEF read
  <2>4. job'[p] = [op |-> "reprice", read |-> read] /\ \A x \in read : x.day = rows'[x.req].day
    BY <2>2, <2>3
  <2> QED BY <2>4 DEF SettledJob
<1>4. ASSUME NEW q \in Processes, RepriceWrite(q) \/ RefreshWrite(q) PROVE SettledJob(p)'
  <2>1. p = q
    BY DEF OneProcess
  <2>2. job' = [job EXCEPT ![p] = Idle]
    BY <1>4, <2>1 DEF RepriceWrite, RefreshWrite
  <2> QED BY <2>2 DEF SettledJob
<1>5. ASSUME NEW q \in Processes, NEW lo \in Days, NEW hi \in Days, RefreshRead(q, lo, hi)
      PROVE  SettledJob(p)'
  <2> DEFINE wanted == {d \in dirty : lo <= d /\ d <= hi}
  <2>1. p = q
    BY DEF OneProcess
  <2>2. /\ job' = [job EXCEPT ![p] = [op |-> "refresh", stale |-> dirty, wanted |-> wanted]]
        /\ UNCHANGED dirty
    BY <1>5, <2>1 DEF RefreshRead
  <2>3. wanted \in SUBSET dirty
    OBVIOUS
  <2> HIDE DEF wanted
  <2>4. job'[p] = [op |-> "refresh", stale |-> dirty', wanted |-> wanted] /\ wanted \in SUBSET dirty'
    BY <2>2, <2>3
  <2> QED BY <2>4 DEF SettledJob
<1>6. CASE UNCHANGED vars
  BY <1>1, <1>6 DEF vars
<1>7. CASE Next
  <2>1. \A v \in Views : Ingest(v) => Free /\ UNCHANGED job
    BY DEF Ingest
  <2>2. \A l \in Lanes : ShellArrives(l) => Free /\ UNCHANGED job
    BY DEF ShellArrives
  <2>3. Retention => Free /\ UNCHANGED job
    BY DEF Retention
  <2>4. RetentionFails \/ Tick => UNCHANGED <<rows, dirty, job>>
    BY DEF RetentionFails, Tick, vars
  <2>5. \A w \in Principals : PurgePrincipal(w) => Free /\ UNCHANGED job
    BY DEF PurgePrincipal, PurgeRows
  <2>6. \A t \in 1..today : PurgeBefore(t) => Free /\ UNCHANGED job
    BY DEF PurgeBefore, PurgeRows
  <2> QED BY <1>1, <1>2, <1>3, <1>4, <1>5, <1>7, <2>1, <2>2, <2>3, <2>4, <2>5, <2>6 DEF Next
<1> QED BY <1>6, <1>7

\* Ingest marks the old and the new date of the request.
LEMMA IngestFresh ==
  ASSUME NEW v \in Views, Ingest(v), DOMAIN rows = Requests, NEW d, d \notin dirty'
  PROVE  d \notin dirty /\ SameOn(d, rows, rows') /\ rollup' = rollup
<1> DEFINE old == rows[v.req]
           docs == (IF old = NoRow THEN {} ELSE old.docs) \cup {Doc(v)}
           new == Remerged(docs, old)
<1>1. /\ rows' = [rows EXCEPT ![v.req] = new]
      /\ dirty' = dirty \cup DayOf(v.req) \cup {new.day}
      /\ rollup' = rollup
  BY DEF Ingest
<1> HIDE DEF new
<1>2. ASSUME NEW r \in Requests, r # v.req PROVE rows'[r] = rows[r]
  BY <1>1, <1>2
<1>3. v.req \in Requests => rows'[v.req].day # d
  BY <1>1
<1>4. rows[v.req] # NoRow => rows[v.req].day # d
  BY <1>1 DEF DayOf
<1> QED BY <1>1, <1>2, <1>3, <1>4 DEF SameOn

\* A reprice marks the dates of the requests whose prices it changes.
LEMMA RepriceFresh ==
  ASSUME NEW p \in Processes, RepriceWrite(p), SettledJob(p), RowsInv, NEW d, d \notin dirty'
  PROVE  d \notin dirty /\ SameOn(d, rows, rows') /\ rollup' = rollup
<1>1. /\ job[p].op = "reprice"
      /\ rows' = [r \in Requests |->
                   IF \E x \in job[p].read : x.req = r /\ StillThere(x)
                   THEN [rows[r] EXCEPT !.card = "reprice"] ELSE rows[r]]
      /\ dirty' = dirty \cup {x.day : x \in job[p].read}
      /\ rollup' = rollup
  BY DEF RepriceWrite
<1>2. ASSUME NEW r \in Requests
      PROVE  \/ rows'[r] = rows[r]
             \/ rows[r] # NoRow /\ rows[r].day # d /\ rows'[r].day # d
  <2>1. CASE \E x \in job[p].read : x.req = r /\ StillThere(x)
    <3>1. PICK x \in job[p].read : x.req = r /\ StillThere(x)
      BY <2>1
    <3>2. x.day = rows[r].day
      BY <1>1, <3>1, SettledFields
    <3>3. rows[r] # NoRow /\ rows[r].day # d
      BY <1>1, <3>1, <3>2 DEF StillThere
    <3>4. rows'[r] = [rows[r] EXCEPT !.card = "reprice"]
      BY <1>1, <2>1
    <3>5. rows'[r].day = rows[r].day
      BY <3>3, <3>4, RepricedInv DEF RowsInv, RowsAre
    <3> QED BY <3>3, <3>5
  <2>2. CASE ~\E x \in job[p].read : x.req = r /\ StillThere(x)
    BY <1>1, <2>2
  <2> QED BY <2>1, <2>2
<1> QED BY <1>1, <1>2 DEF SameOn

\* Retention refreshes from the requests as they were; the dates whose
\* requests it deletes are marked.
LEMMA RetentionFresh ==
  ASSUME TypeInv, CellsOK, Retention, NEW d \in Days \ dirty', ~(d < Cut(RollupDays)),
         d \notin dirty => FreshDay(d)
  PROVE  FreshDay(d)'
<1> DEFINE cut == Cut(IdentityDays)
           dates == {rows[r].day : r \in {q \in Requests : Expired(q)}} \cup {e \in dirty : e < cut}
           old == {r \in Requests : rows[r] # NoRow /\ rows[r].day < Cut(RequestDays)}
<1>0. RowsInv /\ kind \in [Lanes -> Kinds] /\ cut \in Nat
  BY CutDay, DaysAssumption DEF TypeInv
<1>1. /\ rows' = [r \in Requests |->
                   IF r \in old THEN NoRow
                   ELSE [q \in Requests |-> IF rows[q] = NoRow THEN NoRow
                                            ELSE NulledRow(rows[q], cut)][r]]
      /\ dirty' = (dirty \ dates) \cup {rows[r].day : r \in old}
      /\ rollup' = [e \in Days |-> IF e < Cut(RollupDays) THEN [k \in Kinds |-> NoRow]
                                   ELSE RefreshedFirst(dates)[e]]
  BY DEF Retention
<1> HIDE DEF dates, cut
<1>2. ASSUME NEW r \in Requests
      PROVE  /\ rows[r] # NoRow /\ rows[r].day = d
                  => rows'[r] # NoRow /\ rows'[r].day = d /\ rows'[r].card = rows[r].card
             /\ rows'[r] # NoRow => rows[r] # NoRow /\ rows'[r].day = rows[r].day
                                                    /\ rows'[r].card = rows[r].card
  <2>1. CASE rows[r] = NoRow
    BY <1>1, <2>1
  <2>2. CASE rows[r] # NoRow
    <3> DEFINE new == NulledRow(rows[r], cut)
    <3>1. new.day = rows[r].day /\ new.card = rows[r].card /\ RowInv(r, new)
      BY <1>0, <2>2, NulledInv DEF RowsInv, RowsAre
    <3>2. new # NoRow
      BY <3>1, NoRowAssumption DEF RowInv
    <3>3. rows'[r] = IF r \in old THEN NoRow ELSE new
      <4> HIDE DEF old
      <4> QED BY <1>1, <2>2
    <3>4. r \in old => rows[r].day # d
      <4> HIDE DEF old
      <4> QED BY <1>1
    <3> HIDE DEF new, old
    <3> QED BY <2>2, <3>1, <3>2, <3>3, <3>4
  <2> QED BY <2>1, <2>2
<1>3. SameOn(d, rows, rows')
  BY <1>2 DEF SameOn
<1>4. rollup'[d] = Refreshed(dates, rows)[d]
  BY <1>1 DEF RefreshedFirst
<1>5. CASE d \in dates
  <2>1. \A k \in Kinds : rollup'[d][k] = KeepUsers(Cell(d, k, rows), d, k)
    BY <1>4, <1>5 DEF Refreshed
  <2> QED BY <1>0, <1>3, <2>1, FreshMade DEF RowsInv
<1>6. CASE d \notin dates
  <2>1. d \notin dirty
    BY <1>1, <1>6
  <2>2. rollup'[d] = rollup[d]
    BY <1>4, <1>6 DEF Refreshed
  <2> QED BY <1>3, <2>1, <2>2, FreshKept
<1> QED BY <1>5, <1>6

\* A purge refreshes every date it changes, from what it leaves.
LEMMA PurgeFresh ==
  ASSUME TypeInv, RowsInv', CellsOK,
         NEW gone \in SUBSET Requests, NEW drop, NEW before, PurgeRows(gone, drop, before),
         \A r \in Requests : rows'[r] # NoRow => ~(rows'[r].day < before),
         \A r \in gone : rows[r] # NoRow,
         NEW d \in Days, d \notin dirty => FreshDay(d)
  PROVE  FreshDay(d)'
<1> DEFINE partial == {r \in Requests \ gone : rows[r] # NoRow /\ rows[r].docs \cap drop # {}}
           stale == dirty \cup {rows[r].day : r \in gone \cup partial}
                          \cup {rows'[r].day : r \in partial}
<1>0. RowsInv /\ kind \in [Lanes -> Kinds]
  BY DEF TypeInv
<1>1. /\ rows' = [r \in Requests |-> IF r \in gone THEN NoRow
                                      ELSE IF r \in partial
                                        THEN Remerged(rows[r].docs \ drop, rows[r])
                                      ELSE rows[r]]
      /\ rollup' = [e \in Days |-> IF e < before THEN [k \in Kinds |-> NoRow]
                                   ELSE Refreshed(stale, rows')[e]]
  BY DEF PurgeRows
<1> HIDE DEF partial
<1>2. CASE d < before
  <2>1. \A k \in Kinds : rollup'[d][k] = NoRow
    BY <1>1, <1>2
  <2>2. DaySums(d, rows') = {}
    BY <1>2 DEF DaySums
  <2>3. \A k \in Kinds : StoredSums(d, k)' = {}
    BY <2>1 DEF StoredSums
  <2>4. UNION {StoredSums(d, k)' : k \in Kinds} = {}
    BY <2>3
  <2> QED BY <2>2, <2>3, <2>4 DEF FreshDay, DaySums
<1>3. CASE ~(d < before) /\ d \in stale
  <2>1. \A k \in Kinds : rollup'[d][k] = KeepUsers(Cell(d, k, rows'), d, k)
    <3> HIDE DEF stale
    <3> QED BY <1>1, <1>3 DEF Refreshed
  <2>2. SameOn(d, rows', rows') /\ RowsAre(rows')
    BY DEF SameOn, RowsInv, RowsAre
  <2> QED BY <1>0, <2>1, <2>2, FreshMade
<1>4. CASE ~(d < before) /\ d \notin stale
  <2>1. rollup'[d] = rollup[d] /\ d \notin dirty
    <3>1. d \notin dirty
      BY <1>4
    <3> HIDE DEF stale
    <3> QED BY <1>1, <1>4, <3>1 DEF Refreshed
  <2>2. ASSUME NEW r \in Requests
        PROVE  rows'[r] = rows[r]
               \/ /\ rows[r] # NoRow => rows[r].day # d
                  /\ rows'[r] # NoRow => rows'[r].day # d
    <3>1. CASE r \in gone
      BY <1>1, <1>4, <3>1
    <3>2. CASE r \notin gone /\ r \in partial
      BY <1>4, <3>2
    <3>3. CASE r \notin gone /\ r \notin partial
      BY <1>1, <3>3
    <3> QED BY <3>1, <3>2, <3>3
  <2>3. SameOn(d, rows, rows')
    BY <2>2 DEF SameOn
  <2> QED BY <2>1, <2>3, FreshKept
<1> QED BY <1>2, <1>3, <1>4

LEMMA PurgePrincipalFresh ==
  ASSUME TypeInv, RowsInv', CellsOK, NEW w \in Principals, PurgePrincipal(w),
         NEW d \in Days, d \notin dirty => FreshDay(d)
  PROVE  FreshDay(d)'
<1> DEFINE gone == {r \in Requests : rows[r] # NoRow /\ rows[r].who = w}
           drop == {x \in StoredDocs : x.who = w}
<1>1. PurgeRows(gone, drop, 0)
  BY DEF PurgePrincipal
<1>2. \A r \in Requests : rows'[r] # NoRow => ~(rows'[r].day < 0)
  <2>1. \A e \in Days : ~(e < 0)
    BY DaysAssumption DEF Days
  <2> QED BY <2>1 DEF RowsInv, RowsAre, RowInv, Rows
<1>3. gone \in SUBSET Requests /\ \A r \in gone : rows[r] # NoRow
  OBVIOUS
<1> HIDE DEF gone, drop
<1> QED BY <1>1, <1>2, <1>3, PurgeFresh

LEMMA PurgeBeforeFresh ==
  ASSUME TypeInv, RowsInv', CellsOK, NEW t \in 1..today, PurgeBefore(t),
         NEW d \in Days, d \notin dirty => FreshDay(d)
  PROVE  FreshDay(d)'
<1> DEFINE gone == {r \in Requests : rows[r] # NoRow /\ rows[r].day < t}
           drop == {x \in StoredDocs : x.view.day < t}
<1>1. PurgeRows(gone, drop, t)
  BY DEF PurgeBefore
<1>4. \A r \in Requests : rows'[r] # NoRow => ~(rows'[r].day < t)
  BY PurgedLater DEF TypeInv
<1>5. gone \in SUBSET Requests /\ \A r \in gone : rows[r] # NoRow
  OBVIOUS
<1> HIDE DEF gone, drop
<1> QED BY <1>1, <1>4, <1>5, PurgeFresh

LEMMA CellsTypedOK == CellsTyped => CellsOK
<1> SUFFICES ASSUME CellsTyped, NEW d \in Days, NEW k \in Kinds, rollup[d][k] # NoRow
             PROVE  rollup[d][k].users \in Nat
  BY DEF CellsOK
<1>1. rollup[d][k].users \in 0..Cardinality(Principals)
  BY DEF CellsTyped, CellType
<1> QED BY <1>1, PrincipalsFinite

\* A date that is not stale after a step of one process is fresh.
LEMMA FreshStep ==
  ASSUME OneProcess, FreshInv, [Next]_vars, RowsInv',
         NEW d \in Days \ dirty', d >= Cut(RollupDays)'
  PROVE  FreshDay(d)'
<1>0. /\ TypeInv /\ Settled /\ CellsOK /\ RowsInv /\ DOMAIN rows = Requests
      /\ kind \in [Lanes -> Kinds]
  BY CellsTypedOK DEF FreshInv, TypeInv, RowsInv
<1>1. d >= Cut(RollupDays) /\ ~(d < Cut(RollupDays))
  <2>1. d \in Nat
    BY DaysAssumption DEF Days
  <2> QED BY <1>0, <2>1, CutForward
<1>2. d \notin dirty => FreshDay(d)
  BY <1>1 DEF FreshInv
<1>3. CASE UNCHANGED <<rows, rollup, dirty>>
  BY <1>2, <1>3, SameRows, FreshKept
<1>4. ASSUME NEW v \in Views, Ingest(v) PROVE FreshDay(d)'
  <2>1. d \notin dirty /\ SameOn(d, rows, rows') /\ rollup' = rollup
    BY <1>0, <1>4, IngestFresh
  <2> QED BY <1>2, <2>1, FreshKept
<1>5. ASSUME NEW p \in Processes, RepriceWrite(p) PROVE FreshDay(d)'
  <2>1. SettledJob(p)
    BY <1>0 DEF Settled
  <2>2. d \notin dirty /\ SameOn(d, rows, rows') /\ rollup' = rollup
    BY <1>0, <1>5, <2>1, RepriceFresh
  <2> QED BY <1>2, <2>2, FreshKept
<1>6. ASSUME NEW p \in Processes, RefreshWrite(p) PROVE FreshDay(d)'
  <2>1. /\ rollup' = Refreshed(job[p].wanted, rows)
        /\ dirty' = job[p].stale \ job[p].wanted
        /\ UNCHANGED rows /\ job[p].op = "refresh"
    BY <1>6 DEF RefreshWrite
  <2>2. job[p].stale = dirty
    BY <1>0, <2>1, SettledFields DEF Settled
  <2>3. SameOn(d, rows, rows')
    BY <2>1, SameRows
  <2>4. CASE d \in job[p].wanted
    <3>1. \A k \in Kinds : rollup'[d][k] = KeepUsers(Cell(d, k, rows), d, k)
      BY <2>1, <2>4 DEF Refreshed
    <3> QED BY <1>0, <2>3, <3>1, FreshMade DEF RowsInv
  <2>5. CASE d \notin job[p].wanted
    <3>1. rollup'[d] = rollup[d] /\ d \notin dirty
      BY <2>1, <2>2, <2>5 DEF Refreshed
    <3> QED BY <1>2, <2>3, <3>1, FreshKept
  <2> QED BY <2>4, <2>5
<1>7. CASE Retention
  BY <1>0, <1>1, <1>2, <1>7, RetentionFresh
<1>8. CASE UNCHANGED vars
  BY <1>3, <1>8 DEF vars
<1>9. CASE Next
  <2>1. \A l \in Lanes : ShellArrives(l) => UNCHANGED <<rows, rollup, dirty>>
    BY DEF ShellArrives
  <2>2. \A p \in Processes : RepriceRead(p) => UNCHANGED <<rows, rollup, dirty>>
    BY DEF RepriceRead
  <2>3. \A p \in Processes, lo, hi \in Days : RefreshRead(p, lo, hi) => UNCHANGED <<rows, rollup, dirty>>
    BY DEF RefreshRead
  <2>4. RetentionFails \/ Tick => UNCHANGED <<rows, rollup, dirty>>
    BY DEF RetentionFails, Tick, vars
  <2>5. ASSUME NEW w \in Principals, PurgePrincipal(w) PROVE FreshDay(d)'
    BY <1>0, <1>2, <2>5, PurgePrincipalFresh
  <2>6. ASSUME NEW t \in 1..today, PurgeBefore(t) PROVE FreshDay(d)'
    BY <1>0, <1>2, <2>6, PurgeBeforeFresh
  <2> QED BY <1>3, <1>4, <1>5, <1>6, <1>7, <1>9, <2>1, <2>2, <2>3, <2>4, <2>5, <2>6 DEF Next
<1> QED BY <1>8, <1>9

LEMMA FreshInvInit == Init => FreshInv
<1> SUFFICES ASSUME Init PROVE FreshInv
  OBVIOUS
<1>1. Settled
  BY DEF Init, Settled, SettledJob
<1>2. ASSUME NEW d \in Days PROVE FreshDay(d)
  <2>1. \A k \in Kinds : StoredSums(d, k) = {}
    BY DEF Init, StoredSums
  <2>2. UNION {StoredSums(d, k) : k \in Kinds} = {}
    BY <2>1
  <2>3. DaySums(d, rows) = {}
    BY DEF Init, DaySums
  <2> QED BY <2>1, <2>2, <2>3 DEF FreshDay
<1> QED BY <1>1, <1>2, TypeInvInit DEF FreshInv

LEMMA FreshInvStep ==
  ASSUME OneProcess
  PROVE  FreshInv /\ [Next]_vars => FreshInv'
<1> SUFFICES ASSUME FreshInv, [Next]_vars PROVE FreshInv'
  OBVIOUS
<1>1. TypeInv'
  BY TypeInvStep DEF FreshInv
<1>2. Settled'
  BY SettledStep DEF FreshInv, TypeInv
<1>3. RowsInv'
  BY <1>1 DEF TypeInv
<1>4. \A d \in Days \ dirty' : d >= Cut(RollupDays)' => FreshDay(d)'
  BY <1>3, FreshStep
<1> QED BY <1>1, <1>2, <1>4 DEF FreshInv

\* With one process a date that is not stale has exactly the rollup its
\* requests add up to, through ingests, late lane shells, repricing, windowed
\* refreshes, retention and purges in every order (rollups.py: the stale set
\* holds "every date touched since the last refresh").  With two processes it
\* does not hold: the stale set is read before the transaction.
THEOREM RollupsStayFresh ==
  ASSUME OneProcess
  PROVE  Spec => []RollupsFresh
<1>1. FreshInv => RollupsFresh
  BY FreshMeans DEF FreshInv, TypeInv
<1> QED BY <1>1, FreshInvInit, FreshInvStep, PTL DEF Spec
-----------------------------------------------------------------------------
(* Nulled requests stay counted *)

\* A row follows its winner: its date, and its principal when the winner names one.
Follows(row) ==
  LET winner == WinnerOf(row.docs)
  IN row.day = winner.view.day /\ (winner.who # Nobody => row.who = winner.who)

\* The winner of the row lost its name.
Nameless(row) ==
  LET winner == WinnerOf(row.docs) IN winner.who = Nobody /\ winner.view.who # Nobody

CountedInv ==
  /\ TypeInv
  /\ \A r \in Requests : rows[r] # NoRow =>
       Follows(rows[r]) /\ (Nameless(rows[r]) => rows[r].day < retained)
  /\ NulledStillCounted

LEMMA NulledMeans ==
  ASSUME NEW r
  PROVE  Nulled(r) <=> rows[r] # NoRow /\ Nameless(rows[r])
BY DEF Nulled, Nameless

\* Only one document beats all.
LEMMA BeatsUnique ==
  ASSUME NEW r, NEW docs, DocsOf(r, docs), NEW x \in docs, NEW y \in docs, Beats(x, y), Beats(y, x)
  PROVE  x = y
<1>1. x.view.priority \in Nat /\ y.view.priority \in Nat
  BY DocFacts
<1>2. x = [view |-> x.view, who |-> x.who] /\ y = [view |-> y.view, who |-> y.who]
  BY DocFacts
<1>3. CASE x # y
  <2>1. x.view = y.view /\ y.who = Nobody /\ x.who = Nobody
    BY <1>1, <1>3 DEF Beats
  <2> QED BY <1>2, <2>1
<1> QED BY <1>3

LEMMA WinnerIs ==
  ASSUME NEW r, NEW docs, DocsOf(r, docs), NEW x \in docs, \A y \in docs : Beats(x, y)
  PROVE  WinnerOf(docs) = x
BY WinnerIn, BeatsUnique

\* A winner that is among fewer documents is their winner.
LEMMA WinnerOfFewer ==
  ASSUME NEW r, NEW docs, DocsOf(r, docs), NEW fewer, DocsOf(r, fewer), fewer \subseteq docs,
         WinnerOf(docs) \in fewer
  PROVE  WinnerOf(fewer) = WinnerOf(docs)
<1>1. \A y \in fewer : Beats(WinnerOf(docs), y)
  BY WinnerIn
<1> QED BY <1>1, WinnerIs

\* The name of a winner that has one is the name of the request.
LEMMA WhoOfWinner ==
  ASSUME NEW r, NEW docs, DocsOf(r, docs), WinnerOf(docs).who # Nobody
  PROVE  WhoOf(docs) = WinnerOf(docs).who
<1> DEFINE w == WinnerOf(docs)
           named == {x \in docs : x.who # Nobody}
           tops(x) == \A y \in named : y.view.priority <= x.view.priority
           best == CHOOSE x \in named : tops(x)
<1>1. w \in named /\ w \in docs /\ \A y \in docs : Beats(w, y)
  BY WinnerIn
<1>2. \A y \in docs : y.view.priority \in Nat
  BY DocFacts
<1>3. tops(w)
  <2> HIDE DEF w
  <2> QED BY <1>1, <1>2 DEF Beats
<1>4. best \in named /\ tops(best)
  <2> HIDE DEF w, named, tops
  <2> QED BY <1>1, <1>3
<1>5. WhoOf(docs) = best.who
  BY <1>1 DEF WhoOf
<1> HIDE DEF w, best
<1>6. best \in docs /\ best.who # Nobody /\ best.view.priority = w.view.priority
  BY <1>1, <1>2, <1>3, <1>4
<1>7. best.view = w.view
  BY <1>1, <1>6, DocFacts, ViewsAssumption
<1>8. best.who = best.view.who /\ w.who = w.view.who
  BY <1>1, <1>6, DocFacts
<1> QED BY <1>5, <1>7, <1>8 DEF w

\* A remerged row follows its winner.
LEMMA RemergedFollows ==
  ASSUME NEW r, NEW docs, DocsOf(r, docs), NEW old
  PROVE  /\ Follows(Remerged(docs, old))
         /\ Remerged(docs, old).docs = docs
         /\ Remerged(docs, old).day = WinnerOf(docs).view.day
<1> DEFINE card == IF old # NoRow /\ WinnerOf(docs) = WinnerOf(old.docs) THEN old.card ELSE "ingest"
           day == WinnerOf(docs).view.day
           who == WhoOf(docs)
           row == Remerged(docs, old)
<1>1. row = [docs |-> docs, day |-> day, who |-> who, card |-> card]
  BY DEF Remerged, Row
<1>2. row.docs = docs /\ row.day = day /\ row.who = who
  <2> HIDE DEF card, day, who, row
  <2> QED BY <1>1
<1>3. WinnerOf(docs).who # Nobody => who = WinnerOf(docs).who
  BY WhoOfWinner
<1> HIDE DEF row, who
<1>4. Follows(row)
  BY <1>2, <1>3 DEF Follows
<1> QED BY <1>2, <1>4 DEF row

\* Nulling keeps the winner's view; a winner loses its name only with the row, and only
\* when the row's date is old.
LEMMA NulledFollows ==
  ASSUME NEW r, NEW row, RowInv(r, row), Follows(row), NEW cut \in Nat
  PROVE  /\ Follows(NulledRow(row, cut))
         /\ NulledRow(row, cut).day = row.day
         /\ Nameless(NulledRow(row, cut)) =>
              Nameless(row) \/ (row.who # Nobody /\ row.day < cut)
<1> DEFINE late(x) == (IF Cardinality(row.docs) > 1 THEN x.view.day ELSE row.day) < cut
           null(x) == IF late(x) THEN [x EXCEPT !.who = Nobody] ELSE x
           docs2 == {null(x) : x \in row.docs}
           who2 == IF row.day < cut THEN Nobody ELSE row.who
           row2 == NulledRow(row, cut)
           w == WinnerOf(row.docs)
           u == WinnerOf(docs2)
<1>0. row \in Rows /\ DocsOf(r, row.docs) /\ row.day = w.view.day /\ (w.who # Nobody => row.who = w.who)
  BY DEF RowInv, Follows
<1>1. row2 = [row EXCEPT !.docs = docs2, !.who = who2]
  BY DEF NulledRow, NulledDocs
<1>2. row2.docs = docs2 /\ row2.who = who2 /\ row2.day = row.day
  <2> HIDE DEF docs2, who2, row2, w
  <2> QED BY <1>0, <1>1 DEF Rows
<1>3. DocsOf(r, docs2)
  <2>1. RowInv(r, row2)
    BY NulledInv
  <2> HIDE DEF docs2, row2
  <2> QED BY <1>2, <2>1 DEF RowInv
<1>4. ASSUME NEW x \in row.docs
      PROVE  /\ null(x).view = x.view
             /\ late(x) => null(x).who = Nobody
             /\ ~late(x) => null(x) = x
             /\ null(x) \in docs2
  <2> DEFINE y == [x EXCEPT !.who = Nobody]
  <2>1. x \in Docs
    BY <1>0 DEF DocsOf
  <2>2. y.view = x.view /\ y.who = Nobody
    BY <2>1 DEF Docs
  <2>3. null(x) = IF late(x) THEN y ELSE x
    OBVIOUS
  <2>4. null(x) \in docs2
    OBVIOUS
  <2> HIDE DEF y, null, late, docs2
  <2> QED BY <2>2, <2>3, <2>4
<1>5. w \in row.docs /\ \A y \in row.docs : Beats(w, y)
  BY <1>0, WinnerIn
<1>6. u \in docs2 /\ \A y \in docs2 : Beats(u, y)
  BY <1>3, WinnerIn
<1>7. PICK x \in row.docs : u = null(x)
  BY <1>6
<1> HIDE DEF u, null, docs2
<1>8. u.view = w.view /\ x.view = w.view
  <2>1. u.view = x.view
    BY <1>4, <1>7
  <2>2. Beats(w, x) /\ Beats(u, null(w))
    BY <1>4, <1>5, <1>6
  <2>3. null(w).view = w.view
    BY <1>4, <1>5
  <2>4. w.view.priority \in Nat /\ x.view.priority \in Nat
    BY <1>0, <1>5, DocFacts
  <2> HIDE DEF w
  <2> QED BY <2>1, <2>2, <2>3, <2>4 DEF Beats
<1>9. late(w) <=> row.day < cut
  BY <1>0
<1>10. late(x) <=> row.day < cut
  BY <1>0, <1>8
<1> HIDE DEF late, w, who2
<1>11. CASE row.day < cut
  <2>1. u.who = Nobody
    BY <1>4, <1>7, <1>10, <1>11
  <2>2. w.who # Nobody => row.who # Nobody
    BY <1>0
  <2> QED BY <1>0, <1>2, <1>8, <1>11, <2>1, <2>2 DEF Follows, Nameless, u, w
<1>12. CASE ~(row.day < cut)
  <2>1. u = x /\ null(w) = w /\ w \in docs2 /\ who2 = row.who
    BY <1>4, <1>5, <1>7, <1>9, <1>10, <1>12 DEF who2
  <2>2. u = w
    <3>1. Beats(u, w) /\ Beats(w, u)
      BY <1>5, <1>6, <1>7, <2>1
    <3> QED BY <1>0, <1>5, <2>1, <3>1, BeatsUnique
  <2> QED BY <1>0, <1>2, <2>1, <2>2 DEF Follows, Nameless, u, w
<1> QED BY <1>2, <1>11, <1>12

\* What a step makes of a row that is there after it: it still follows its winner, and if
\* that one has no name any more, it had none before and the date is the same, or this is
\* the retention that takes the name.
Carried(r) == rows[r] # NoRow /\ Nameless(rows[r]) /\ rows'[r].day = rows[r].day
TakenNow(r) == Retention /\ Expired(r) /\ rows'[r].day = rows[r].day
RowFate(r) == Follows(rows'[r]) /\ (Nameless(rows'[r]) => Carried(r) \/ TakenNow(r))

LEMMA IngestFate ==
  ASSUME CountedInv, NEW v \in Views, Ingest(v), NEW r \in Requests, rows'[r] # NoRow
  PROVE  RowFate(r)
<1> DEFINE old == rows[v.req]
           docs == (IF old = NoRow THEN {} ELSE old.docs) \cup {Doc(v)}
           new == Remerged(docs, old)
           w == WinnerOf(docs)
<1>1. rows' = [rows EXCEPT ![v.req] = new]
  BY DEF Ingest
<1>2. v.req \in Requests /\ rows = [q \in Requests |-> rows[q]]
  BY ViewsAssumption DEF CountedInv, TypeInv, RowsInv
<1>3. CASE r # v.req
  <2>1. rows'[r] = rows[r]
    <3> HIDE DEF new
    <3> QED BY <1>1, <1>2, <1>3
  <2> QED BY <2>1 DEF RowFate, Carried, CountedInv
<1>4. CASE r = v.req
  <2>1. rows'[r] = new
    <3> HIDE DEF new
    <3> QED BY <1>1, <1>2, <1>4
  <2>2. old # NoRow => RowInv(r, old) /\ Follows(old)
    BY <1>2, <1>4 DEF CountedInv, TypeInv, RowsInv, RowsAre
  <2>3. DocsOf(r, docs)
    BY <1>4, <2>2, AddedDocs DEF RowInv
  <2>4. Follows(new) /\ new.docs = docs /\ new.day = w.view.day
    <3> HIDE DEF docs, old
    <3> QED BY <2>3, RemergedFollows
  <2>5. ASSUME Nameless(new) PROVE old # NoRow /\ Nameless(old) /\ new.day = old.day
    <3>1. w.who = Nobody /\ w.view.who # Nobody
      BY <2>4, <2>5 DEF Nameless
    <3>2. w \in docs
      BY <2>3, WinnerIn
    <3>3. w # Doc(v)
      BY <3>1 DEF Doc
    <3>4. old # NoRow /\ w \in old.docs
      <4> HIDE DEF w
      <4> QED BY <3>2, <3>3
    <3>5. WinnerOf(old.docs) = w
      <4>1. DocsOf(r, old.docs) /\ old.docs \subseteq docs
        BY <2>2, <3>4 DEF RowInv
      <4> HIDE DEF docs, old
      <4> QED BY <2>3, <3>4, <4>1, WinnerOfFewer
    <3> HIDE DEF new, old, docs
    <3> QED BY <2>2, <2>4, <3>1, <3>4, <3>5 DEF Nameless, Follows
  <2> HIDE DEF new
  <2> QED BY <1>4, <2>1, <2>4, <2>5 DEF RowFate, Carried
<1> QED BY <1>3, <1>4

LEMMA RepriceFate ==
  ASSUME CountedInv, NEW p \in Processes, RepriceWrite(p), NEW r \in Requests, rows'[r] # NoRow
  PROVE  RowFate(r)
<1>1. rows' = [q \in Requests |->
                 IF \E x \in job[p].read : x.req = q /\ StillThere(x)
                 THEN [rows[q] EXCEPT !.card = "reprice"] ELSE rows[q]]
  BY DEF RepriceWrite
<1>2. CASE \E x \in job[p].read : x.req = r /\ StillThere(x)
  <2> DEFINE new == [rows[r] EXCEPT !.card = "reprice"]
  <2>1. rows[r] # NoRow
    BY <1>2 DEF StillThere
  <2>2. rows[r] \in Rows
    BY <2>1 DEF CountedInv, TypeInv, RowsInv, RowsAre, RowInv
  <2>3. new.docs = rows[r].docs /\ new.day = rows[r].day /\ new.who = rows[r].who
    BY <2>2 DEF Rows
  <2>4. rows'[r] = new
    BY <1>1, <1>2
  <2>5. Follows(rows[r])
    BY <2>1 DEF CountedInv
  <2> HIDE DEF new
  <2> QED BY <2>1, <2>3, <2>4, <2>5 DEF RowFate, Carried, Follows, Nameless
<1>3. CASE ~\E x \in job[p].read : x.req = r /\ StillThere(x)
  <2>1. rows'[r] = rows[r]
    BY <1>1, <1>3
  <2> QED BY <2>1 DEF RowFate, Carried, CountedInv
<1> QED BY <1>2, <1>3

LEMMA RetentionFate ==
  ASSUME CountedInv, Retention, NEW r \in Requests, rows'[r] # NoRow
  PROVE  RowFate(r)
<1> DEFINE cut == Cut(IdentityDays)
           old == {q \in Requests : rows[q] # NoRow /\ rows[q].day < Cut(RequestDays)}
           new == NulledRow(rows[r], cut)
<1>0. cut \in Nat
  BY CutDay, DaysAssumption DEF CountedInv, TypeInv
<1>1. rows' = [q \in Requests |->
                 IF q \in old THEN NoRow
                 ELSE [s \in Requests |-> IF rows[s] = NoRow THEN NoRow
                                          ELSE NulledRow(rows[s], cut)][q]]
  BY DEF Retention
<1>2. rows[r] # NoRow /\ rows'[r] = new
  <2> HIDE DEF old, cut
  <2> QED BY <1>1 DEF new
<1>3. RowInv(r, rows[r]) /\ Follows(rows[r])
  BY <1>2 DEF CountedInv, TypeInv, RowsInv, RowsAre
<1>4. /\ Follows(new) /\ new.day = rows[r].day
      /\ Nameless(new) => Nameless(rows[r]) \/ (rows[r].who # Nobody /\ rows[r].day < cut)
  <2> HIDE DEF cut
  <2> QED BY <1>0, <1>3, NulledFollows
<1> HIDE DEF new
<1> QED BY <1>2, <1>4 DEF RowFate, Carried, TakenNow, Expired

\* A purge that spares the winners of the requests it leaves.
LEMMA PurgeFate ==
  ASSUME CountedInv, NEW gone, NEW drop, Spares(gone, drop), rows' = PurgedRows(gone, drop),
         NEW r \in Requests, rows'[r] # NoRow,
         r \notin gone /\ rows[r] # NoRow => WinnerOf(rows[r].docs) \notin drop
  PROVE  RowFate(r)
<1> DEFINE kept == rows[r].docs \ drop
           old == rows[r]
           new == Remerged(kept, old)
           w == WinnerOf(rows[r].docs)
<1>1. r \notin gone /\ rows[r] # NoRow
  BY DEF PurgedRows
<1>2. DocsOf(r, rows[r].docs) /\ Follows(rows[r])
  BY <1>1 DEF CountedInv, TypeInv, RowsInv, RowsAre, RowInv
<1>3. CASE rows[r].docs \cap drop = {}
  <2>1. rows'[r] = rows[r]
    BY <1>1, <1>3 DEF PurgedRows
  <2> QED BY <2>1 DEF RowFate, Carried, CountedInv
<1>4. CASE rows[r].docs \cap drop # {}
  <2>1. rows'[r] = new
    BY <1>1, <1>4 DEF PurgedRows
  <2>2. DocsOf(r, kept)
    BY <1>1, <1>2, KeptDocs DEF Spares
  <2>3. WinnerOf(kept) = w
    <3>1. w \in kept
      BY <1>1, <1>2, WinnerIn
    <3>2. kept \subseteq rows[r].docs
      OBVIOUS
    <3> HIDE DEF kept
    <3> QED BY <1>2, <2>2, <3>1, <3>2, WinnerOfFewer
  <2>4. Follows(new) /\ new.docs = kept /\ new.day = w.view.day
    <3> HIDE DEF kept, old, w
    <3> QED BY <2>2, <2>3, RemergedFollows
  <2>5. old.day = w.view.day
    BY <1>2 DEF Follows
  <2> HIDE DEF new, kept
  <2>6. Nameless(new) => Nameless(old)
    BY <2>3, <2>4 DEF Nameless
  <2> QED BY <1>1, <2>1, <2>4, <2>5, <2>6 DEF RowFate, Carried
<1> QED BY <1>3, <1>4

LEMMA PurgePrincipalFate ==
  ASSUME CountedInv, NEW w \in Principals, PurgePrincipal(w), NEW r \in Requests, rows'[r] # NoRow
  PROVE  RowFate(r)
<1> DEFINE gone == {q \in Requests : rows[q] # NoRow /\ rows[q].who = w}
           drop == {x \in StoredDocs : x.who = w}
<1>1. Spares(gone, drop)
  BY PurgePrincipalSpares DEF CountedInv, TypeInv
<1>2. PurgeRows(gone, drop, 0)
  BY DEF PurgePrincipal
<1>3. ASSUME r \notin gone, rows[r] # NoRow PROVE WinnerOf(rows[r].docs) \notin drop
  <2>1. Follows(rows[r]) /\ w # Nobody /\ rows[r].who # w
    BY <1>3 DEF CountedInv, Principals
  <2> QED BY <2>1 DEF Follows
<1> HIDE DEF gone, drop
<1>4. rows' = PurgedRows(gone, drop)
  BY <1>2, PurgeWrites
<1> QED BY <1>1, <1>3, <1>4, PurgeFate

LEMMA PurgeBeforeFate ==
  ASSUME CountedInv, NEW t \in 1..today, PurgeBefore(t), NEW r \in Requests, rows'[r] # NoRow
  PROVE  RowFate(r)
<1> DEFINE gone == {q \in Requests : rows[q] # NoRow /\ rows[q].day < t}
           drop == {x \in StoredDocs : x.view.day < t}
<1>1. Spares(gone, drop)
  BY PurgeBeforeSpares DEF CountedInv, TypeInv
<1>2. PurgeRows(gone, drop, t)
  BY DEF PurgeBefore
<1>3. ASSUME r \notin gone, rows[r] # NoRow PROVE WinnerOf(rows[r].docs) \notin drop
  <2>1. Follows(rows[r]) /\ ~(rows[r].day < t)
    BY <1>3 DEF CountedInv
  <2> QED BY <2>1 DEF Follows
<1> HIDE DEF gone, drop
<1>4. rows' = PurgedRows(gone, drop)
  BY <1>2, PurgeWrites
<1> QED BY <1>1, <1>3, <1>4, PurgeFate

LEMMA NextFate ==
  ASSUME CountedInv, [Next]_vars, NEW r \in Requests, rows'[r] # NoRow
  PROVE  RowFate(r)
<1>1. CASE UNCHANGED rows
  BY <1>1 DEF RowFate, Carried, CountedInv
<1>2. CASE UNCHANGED vars
  BY <1>1, <1>2 DEF vars
<1>3. CASE Next
  <2>1. ASSUME NEW l \in Lanes, ShellArrives(l) PROVE UNCHANGED rows
    BY <2>1 DEF ShellArrives
  <2>2. ASSUME NEW p \in Processes, RepriceRead(p) \/ RefreshWrite(p) PROVE UNCHANGED rows
    BY <2>2 DEF RepriceRead, RefreshWrite
  <2>3. ASSUME NEW p \in Processes, NEW lo \in Days, NEW hi \in Days, RefreshRead(p, lo, hi)
        PROVE  UNCHANGED rows
    BY <2>3 DEF RefreshRead
  <2>4. RetentionFails \/ Tick => UNCHANGED rows
    BY DEF RetentionFails, Tick, vars
  <2> QED BY <1>1, <1>3, <2>1, <2>2, <2>3, <2>4, IngestFate, RepriceFate, RetentionFate,
             PurgePrincipalFate, PurgeBeforeFate DEF Next
<1> QED BY <1>2, <1>3

\* The retention mark only moves on, and covers what retention takes.
LEMMA RetainedForward ==
  ASSUME TypeInv, [Next]_vars
  PROVE  /\ retained \in Nat /\ retained' \in Nat /\ retained <= retained'
         /\ Retention => Cut(IdentityDays) \in Nat /\ Cut(IdentityDays) <= retained'
<1>0. retained \in Nat /\ Cut(IdentityDays) \in Nat
  BY CutDay, DaysAssumption DEF TypeInv, Days
<1>1. CASE UNCHANGED retained /\ ~Retention
  BY <1>0, <1>1
<1>2. CASE Retention
  <2>1. retained' = IF Cut(IdentityDays) > retained THEN Cut(IdentityDays) ELSE retained
    BY <1>2 DEF Retention
  <2> QED BY <1>0, <2>1
<1>3. CASE UNCHANGED vars
  BY <1>1, <1>2, <1>3 DEF vars
<1>4. CASE Next
  <2>1. \A v \in Views : Ingest(v) => UNCHANGED retained
    BY DEF Ingest
  <2>2. \A l \in Lanes : ShellArrives(l) => UNCHANGED retained
    BY DEF ShellArrives
  <2>3. \A p \in Processes : RepriceRead(p) \/ RepriceWrite(p) \/ RefreshWrite(p)
          => UNCHANGED retained
    BY DEF RepriceRead, RepriceWrite, RefreshWrite
  <2>4. \A p \in Processes, lo, hi \in Days : RefreshRead(p, lo, hi) => UNCHANGED retained
    BY DEF RefreshRead
  <2>5. RetentionFails \/ Tick => UNCHANGED retained
    BY DEF RetentionFails, Tick, vars
  <2>6. \A w \in Principals : PurgePrincipal(w) => UNCHANGED retained
    BY DEF PurgePrincipal, PurgeRows
  <2>7. \A t \in 1..today : PurgeBefore(t) => UNCHANGED retained
    BY DEF PurgeBefore, PurgeRows
  <2> QED BY <1>1, <1>2, <1>4, <2>1, <2>2, <2>3, <2>4, <2>5, <2>6, <2>7 DEF Next
<1> QED BY <1>3, <1>4

\* A lane that has no kind had none before.
LEMMA KindForward ==
  ASSUME TypeInv, [Next]_vars, NEW l \in Lanes, kind'[l] = "unknown"
  PROVE  kind[l] = "unknown"
<1>1. CASE UNCHANGED kind
  BY <1>1
<1>2. ASSUME NEW m \in Lanes, ShellArrives(m) PROVE kind[l] = "unknown"
  BY <1>2 DEF ShellArrives, TypeInv
<1>3. CASE UNCHANGED vars
  BY <1>1, <1>3 DEF vars
<1>4. CASE Next
  <2>1. \A v \in Views : Ingest(v) => UNCHANGED kind
    BY DEF Ingest
  <2>2. \A p \in Processes : RepriceRead(p) \/ RepriceWrite(p) \/ RefreshWrite(p)
          => UNCHANGED kind
    BY DEF RepriceRead, RepriceWrite, RefreshWrite
  <2>3. \A p \in Processes, lo, hi \in Days : RefreshRead(p, lo, hi) => UNCHANGED kind
    BY DEF RefreshRead
  <2>4. Retention \/ RetentionFails \/ Tick => UNCHANGED kind
    BY DEF Retention, RetentionFails, Tick, vars
  <2>5. \A w \in Principals : PurgePrincipal(w) => UNCHANGED kind
    BY DEF PurgePrincipal, PurgeRows
  <2>6. \A t \in 1..today : PurgeBefore(t) => UNCHANGED kind
    BY DEF PurgeBefore, PurgeRows
  <2> QED BY <1>1, <1>2, <1>4, <2>1, <2>2, <2>3, <2>4, <2>5, <2>6 DEF Next
<1> QED BY <1>3, <1>4

\* The cell of a request that stays where it is keeps its users, when its date is old
\* enough to be guarded.
LEMMA UsersStay ==
  ASSUME TypeInv, RowsInv', [Next]_vars,
         NEW r \in Requests, NEW d \in Days, NEW k \in Kinds, kind[LaneOf[r]] = k,
         rows[r] # NoRow, rows[r].day = d, rows'[r] # NoRow, rows'[r].day = d,
         d >= Cut(RollupDays), d < retained, HasUsers(d, k)
  PROVE  rollup'[d][k] # NoRow /\ rollup'[d][k].users > 0
<1>0. CellsOK /\ RowsInv /\ d \in Nat /\ Cut(RollupDays) \in Nat
  BY CellsTypedOK, CutForward, DaysAssumption DEF TypeInv, Days
<1>1. CellStep(d, k)
  BY NextCellStep
<1>2. CASE rollup'[d][k] = rollup[d][k]
  BY <1>2 DEF HasUsers
<1>3. CASE Retention /\ d < Cut(RollupDays)
  BY <1>0, <1>3
<1>4. ASSUME NEW t \in 1..today, PurgeBefore(t), d < t PROVE FALSE
  BY <1>0, <1>4, PurgedLater
<1>5. ASSUME NEW rs \in {rows, rows'}, rollup'[d][k] = KeepUsers(Cell(d, k, rs), d, k)
      PROVE  rollup'[d][k] # NoRow /\ rollup'[d][k].users > 0
  <2>1. r \in InCell(d, k, rs) /\ RowsAre(rs)
    BY <1>0 DEF InCell, RowsInv, RowsAre
  <2>2. KeepUsers(Cell(d, k, rs), d, k) # NoRow
    BY <1>0, <2>1, CellThere
  <2>3. rollup'[d][k].users \in Nat /\ rollup'[d][k].users >= rollup[d][k].users
    BY <1>0, <1>5, <2>2, CellUsers DEF HasUsers
  <2>4. rollup[d][k].users \in Nat /\ rollup[d][k].users > 0
    BY <1>0 DEF CellsOK, HasUsers
  <2> QED BY <1>5, <2>2, <2>3, <2>4 DEF HasUsers
<1> QED BY <1>1, <1>2, <1>3, <1>4, <1>5 DEF CellStep

LEMMA CountedInvInit == Init => CountedInv
<1>1. Init => NulledStillCounted
  BY DEF Init, NulledStillCounted, Nulled
<1> QED BY <1>1, TypeInvInit DEF Init, CountedInv

LEMMA CountedInvStep == CountedInv /\ [Next]_vars => CountedInv'
<1> SUFFICES ASSUME CountedInv, [Next]_vars PROVE CountedInv'
  OBVIOUS
<1>1. TypeInv /\ TypeInv' /\ RowsInv' /\ CellsOK /\ RowsInv /\ today \in Nat
  BY TypeInvStep, CellsTypedOK, DaysAssumption DEF CountedInv, TypeInv, Days
<1>2. ASSUME NEW r \in Requests, rows'[r] # NoRow
      PROVE  Follows(rows'[r]) /\ (Nameless(rows'[r]) => rows'[r].day < retained')
  <2>1. RowFate(r)
    BY <1>2, NextFate
  <2>2. retained \in Nat /\ retained' \in Nat /\ retained <= retained'
    BY <1>1, RetainedForward
  <2>3. rows'[r].day \in Nat
    BY <1>1, <1>2, DaysAssumption DEF RowsInv, RowsAre, RowInv, Rows, Days
  <2>4. CASE Carried(r)
    <3>1. rows[r].day < retained
      BY <2>4 DEF Carried, CountedInv
    <3> QED BY <2>1, <2>2, <2>3, <2>4, <3>1 DEF Carried, RowFate
  <2>5. CASE TakenNow(r)
    <3>1. Cut(IdentityDays) \in Nat /\ Cut(IdentityDays) <= retained'
      BY <1>1, <2>5, RetainedForward DEF TakenNow
    <3> QED BY <2>1, <2>2, <2>3, <2>5, <3>1 DEF TakenNow, Expired, RowFate
  <2> QED BY <2>1, <2>4, <2>5 DEF RowFate
<1>3. ASSUME NEW r \in Requests, rows'[r] # NoRow, Nameless(rows'[r]),
             rows'[r].day >= Cut(RollupDays)', kind'[LaneOf[r]] = "unknown"
      PROVE  LET d == rows'[r].day
             IN rollup'[d]["unknown"] # NoRow /\ rollup'[d]["unknown"].users > 0
  <2> DEFINE d == rows'[r].day
  <2>1. RowFate(r)
    BY <1>3, NextFate
  <2>2. d \in Days /\ d \in Nat
    BY <1>1, <1>3, DaysAssumption DEF RowsInv, RowsAre, RowInv, Rows, Days
  <2>3. d >= Cut(RollupDays)
    BY <1>1, <1>3, <2>2, CutForward
  <2>4. kind[LaneOf[r]] = "unknown" /\ "unknown" \in Kinds
    BY <1>1, <1>3, KindForward DEF Lanes, Kinds
  <2>5. CASE Carried(r)
    <3>1. rows[r] # NoRow /\ rows[r].day = d /\ d < retained
      BY <2>5 DEF Carried, CountedInv
    <3>2. HasUsers(d, "unknown")
      BY <2>3, <2>4, <2>5, <3>1, NulledMeans DEF Carried, CountedInv, NulledStillCounted
    <3> HIDE DEF d
    <3>3. rows'[r].day = d
      BY DEF d
    <3>4. rollup'[d]["unknown"] # NoRow /\ rollup'[d]["unknown"].users > 0
      BY <1>1, <1>3, <2>2, <2>3, <2>4, <3>1, <3>2, <3>3, UsersStay
    <3> QED BY <3>4 DEF d
  <2>6. CASE TakenNow(r)
    <3>1. Retention /\ Expired(r) /\ rows[r].day = d /\ rows[r] # NoRow /\ rows[r].who # Nobody
      BY <2>6 DEF TakenNow, Expired
    <3>2. r \in InCell(d, "unknown", rows)
      BY <2>4, <3>1 DEF InCell
    <3> HIDE DEF d
    <3>3. rollup'[d]["unknown"] # NoRow
          /\ rollup'[d]["unknown"].users >= ActiveUsers(d, "unknown", rows)
      BY <1>1, <2>2, <2>3, <2>4, <3>1, <3>2, RetentionCounts
    <3>4. ActiveUsers(d, "unknown", rows) \in Nat /\ ActiveUsers(d, "unknown", rows) > 0
      BY <3>1, <3>2, UsersNat
    <3>5. rollup'[d]["unknown"].users \in Nat
      BY <1>1, <2>2, <2>4, <3>3, CellsStep DEF CellsOK
    <3>6. rollup'[d]["unknown"].users > 0
      BY <3>3, <3>4, <3>5
    <3> QED BY <3>3, <3>6 DEF d
  <2> QED BY <1>3, <2>1, <2>5, <2>6 DEF RowFate
<1>4. NulledStillCounted'
  BY <1>3 DEF NulledStillCounted, Nulled, Nameless, HasUsers
<1> QED BY <1>1, <1>2, <1>4 DEF CountedInv

\* A request whose principal identity retention took leaves its date with active users
\* for as long as it is there: through repricing, late sources, refreshes, purges of
\* others and later retentions of however many processes (retention.py apply_retention,
\* rollups.py _keep_users).  Said of lanes without a shell; one that arrives late moves the
\* cell, and the count is lost.
THEOREM NulledAreCounted == Spec => []NulledStillCounted
<1>1. CountedInv => NulledStillCounted
  BY DEF CountedInv
<1> QED BY <1>1, CountedInvInit, CountedInvStep, PTL DEF Spec
=============================================================================
