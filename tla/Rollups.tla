------------------------------ MODULE Rollups -------------------------------
(***************************************************************************)
(* Daily rollups and retention (store/rollups.py, store/retention.py and   *)
(* the parts of store/db.py that make rollups stale).  Ingest, lane        *)
(* shells, repricing and purge change the requests; the set of stale dates *)
(* lives in meta; refresh_rollups recomputes the stale dates; retention    *)
(* nulls old identities, after refreshing their dates, and deletes old     *)
(* requests and rollups.                                                   *)
(*                                                                         *)
(* A request is the set of its members' documents and the merged row.  A   *)
(* rollup cell is keyed by date and lane kind (the other dimensions are    *)
(* data of the request); its sums are abstracted to the set of requests    *)
(* and prices they add up.  Days are numbers; the clock only moves on.     *)
(***************************************************************************)
EXTENDS Naturals, FiniteSets

CONSTANTS
  Requests,      \* merged request ids
  Views,         \* [req, day, who, priority]: what sources may say about a request
  LaneOf,        \* request -> lane
  Processes,     \* processes with the ledger open
  Nobody,        \* principal IS NULL
  NoRow,         \* no row
  MaxDay,        \* bound on the clock
  IdentityDays, RequestDays, RollupDays,  \* retention.*
  Shells,        \* TRUE: lane shells may arrive after requests of the lane
  Repricing      \* TRUE: reprice may run

ASSUME DaysAssumption ==
  MaxDay \in Nat /\ IdentityDays \in Nat /\ RequestDays \in Nat /\ RollupDays \in Nat

ASSUME RequestsAssumption == IsFiniteSet(Requests)

\* A priority stands for the rank of a document in its request: ties of the
\* sources' priorities are broken by content, so no two ranks are equal.
ASSUME ViewsAssumption ==
  /\ IsFiniteSet(Views)
  /\ \A v \in Views : v.req \in Requests /\ v.day \in 0..MaxDay /\ v.priority \in Nat
  /\ \A v, w \in Views : v.req = w.req /\ v.priority = w.priority => v = w

Days == 0..MaxDay
Kinds == {"unknown", "main"}
Lanes == {LaneOf[r] : r \in Requests}
Principals == {v.who : v \in Views} \ {Nobody}
Cards == {"ingest", "reprice"}
Idle == [op |-> "idle"]

\* Member documents, merged requests and rows of daily_rollup; the absence of a
\* row is none of them.
Docs == [view : Views, who : Principals \cup {Nobody}]
Rows == [docs : SUBSET Docs, day : Days, who : Principals \cup {Nobody}, card : Cards]
Cells == [sums : SUBSET (Requests \X Cards), users : Nat]
ASSUME NoRowAssumption == NoRow \notin Cells \cup Rows

VARIABLES
  rows,      \* requests and merge_members: request -> row or NoRow
  kind,      \* lanes.kind, "unknown" for a lane without a shell
  rollup,    \* daily_rollup: day -> kind -> cell or NoRow
  dirty,     \* meta rollups_dirty
  retained,  \* meta identity_retained_before
  today,
  job        \* process -> what it read before its transaction

vars == <<rows, kind, rollup, dirty, retained, today, job>>

Init ==
  /\ rows = [r \in Requests |-> NoRow]
  /\ kind = [l \in Lanes |-> "unknown"]
  /\ rollup = [d \in Days |-> [k \in Kinds |-> NoRow]]
  /\ dirty = {} /\ retained = 0 /\ today = 0
  /\ job = [p \in Processes |-> Idle]

-----------------------------------------------------------------------------
(* Merged rows *)

\* A member document: the view and the principal it still names.
Doc(v) == [view |-> v, who |-> v.who]

\* The winner: highest priority; of a document and its nulled copy the one
\* that names somebody is canonically smaller.
WinnerOf(docs) ==
  CHOOSE x \in docs : \A y \in docs \ {x} :
    \/ x.view.priority > y.view.priority
    \/ x.view = y.view /\ y.who = Nobody

\* The principal of the highest priority that has one.
WhoOf(docs) ==
  LET named == {x \in docs : x.who # Nobody}
  IN IF named = {} THEN Nobody
     ELSE (CHOOSE x \in named : \A y \in named : y.view.priority <= x.view.priority).who

Row(docs, card) ==
  [docs |-> docs, day |-> WinnerOf(docs).view.day, who |-> WhoOf(docs), card |-> card]

\* The stored prices are kept while the winner stays the same.
Remerged(docs, old) ==
  Row(docs, IF old # NoRow /\ WinnerOf(docs) = WinnerOf(old.docs) THEN old.card ELSE "ingest")

DayOf(r) == IF rows[r] = NoRow THEN {} ELSE {rows[r].day}

-----------------------------------------------------------------------------
(* Rollups *)

InCell(d, k, rs) == {r \in Requests : rs[r] # NoRow /\ rs[r].day = d /\ kind[LaneOf[r]] = k}

Sums(d, k, rs) == {<<r, rs[r].card>> : r \in InCell(d, k, rs)}
ActiveUsers(d, k, rs) == Cardinality({rs[r].who : r \in InCell(d, k, rs)} \ {Nobody})

\* Mutant: a row of zeros for a cell without requests.
CellAlways(d, k, rs) == [sums |-> Sums(d, k, rs), users |-> ActiveUsers(d, k, rs)]

\* One cell of daily_rows.
Cell(d, k, rs) ==
  IF InCell(d, k, rs) = {} THEN NoRow
  ELSE [sums |-> Sums(d, k, rs), users |-> ActiveUsers(d, k, rs)]

\* Mutant: a refresh recounts the users of dates whose principals are gone.
KeepUsersNever(new, d, k) == new

\* _keep_users: a date whose principals were nulled keeps the larger count.
KeepUsers(new, d, k) ==
  IF new # NoRow /\ rollup[d][k] # NoRow /\ d < retained /\ rollup[d][k].users > new.users
  THEN [new EXCEPT !.users = rollup[d][k].users] ELSE new

\* The tables after a refresh of the dates wanted from the requests rs.
Refreshed(wanted, rs) ==
  [d \in Days |-> IF d \in wanted THEN [k \in Kinds |-> KeepUsers(Cell(d, k, rs), d, k)]
                  ELSE rollup[d]]

-----------------------------------------------------------------------------
(* Writers *)

\* A process that is not in the middle of something runs the operation.
Free == \E p \in Processes : job[p] = Idle

\* Ingest of one view: merged into its request in one transaction; the old and
\* the new date become stale.  A document that is stored already changes nothing.
Ingest(v) ==
  LET old == rows[v.req]
      docs == (IF old = NoRow THEN {} ELSE old.docs) \cup {Doc(v)}
  IN /\ Free /\ v.day <= today
     /\ old # NoRow => Doc(v) \notin old.docs
     /\ rows' = [rows EXCEPT ![v.req] = Remerged(docs, old)]
     /\ dirty' = dirty \cup DayOf(v.req) \cup {Remerged(docs, old).day}
     /\ UNCHANGED <<kind, rollup, retained, today, job>>

\* _Work.shells: a shell of a known kind replaces an unknown one; no date is
\* marked stale.
ShellArrives(l) ==
  /\ Free /\ Shells /\ kind[l] = "unknown"
  /\ kind' = [kind EXCEPT ![l] = "main"]
  /\ UNCHANGED <<rows, rollup, dirty, retained, today, job>>

\* reprice reads a batch outside any transaction ...
RepriceRead(p) ==
  LET read == {[req |-> r, day |-> rows[r].day, view |-> WinnerOf(rows[r].docs).view] :
                 r \in {q \in Requests : rows[q] # NoRow}}
  IN /\ Repricing /\ job[p] = Idle /\ read # {}
     /\ job' = [job EXCEPT ![p] = [op |-> "reprice", read |-> read]]
     /\ UNCHANGED <<rows, kind, rollup, dirty, retained, today>>

\* ... and writes the prices of the inferences that are still there.
StillThere(x) == rows[x.req] # NoRow /\ WinnerOf(rows[x.req].docs).view = x.view

\* Mutant: repricing does not mark the dates stale.
RepriceWriteQuiet(p) ==
  /\ job[p].op = "reprice"
  /\ rows' = [r \in Requests |->
                IF \E x \in job[p].read : x.req = r /\ StillThere(x)
                THEN [rows[r] EXCEPT !.card = "reprice"] ELSE rows[r]]
  /\ job' = [job EXCEPT ![p] = Idle]
  /\ UNCHANGED <<kind, rollup, dirty, retained, today>>

RepriceWrite(p) ==
  /\ job[p].op = "reprice"
  /\ rows' = [r \in Requests |->
                IF \E x \in job[p].read : x.req = r /\ StillThere(x)
                THEN [rows[r] EXCEPT !.card = "reprice"] ELSE rows[r]]
  /\ dirty' = dirty \cup {x.day : x \in job[p].read}
  /\ job' = [job EXCEPT ![p] = Idle]
  /\ UNCHANGED <<kind, rollup, retained, today>>

-----------------------------------------------------------------------------
(* refresh_rollups, by itself or for the window of cluster_days *)

\* The stale set is read before BEGIN IMMEDIATE ...
RefreshRead(p, lo, hi) ==
  LET wanted == {d \in dirty : lo <= d /\ d <= hi}
  IN /\ job[p] = Idle /\ wanted # {}
     /\ job' = [job EXCEPT ![p] = [op |-> "refresh", stale |-> dirty, wanted |-> wanted]]
     /\ UNCHANGED <<rows, kind, rollup, dirty, retained, today>>

\* ... and what is left of it is written in the transaction.
RefreshWrite(p) ==
  /\ job[p].op = "refresh"
  /\ rollup' = Refreshed(job[p].wanted, rows)
  /\ dirty' = job[p].stale \ job[p].wanted
  /\ job' = [job EXCEPT ![p] = Idle]
  /\ UNCHANGED <<rows, kind, retained, today>>

-----------------------------------------------------------------------------
(* apply_retention: one transaction *)

Cut(days) == IF today > days THEN today - days ELSE 0

\* A single document is rebuilt from its row, so it follows the row's date;
\* the documents of a merged request follow their own.
NulledDocs(row, cut) ==
  {IF (IF Cardinality(row.docs) > 1 THEN x.view.day ELSE row.day) < cut
     THEN [x EXCEPT !.who = Nobody] ELSE x : x \in row.docs}

NulledRow(row, cut) ==
  [row EXCEPT !.docs = NulledDocs(row, cut), !.who = IF row.day < cut THEN Nobody ELSE @]

\* The rewritten documents of a request must differ: they are keyed by content.
Conflict(cut) ==
  \E r \in Requests : rows[r] # NoRow /\
    Cardinality(NulledDocs(rows[r], cut)) < Cardinality(rows[r].docs)

Expired(r) == rows[r] # NoRow /\ rows[r].who # Nobody /\ rows[r].day < Cut(IdentityDays)

\* Mutant: the rollups are refreshed from the nulled requests.
RefreshedFirstLate(dates) ==
  Refreshed(dates, [r \in Requests |-> IF rows[r] = NoRow THEN NoRow
                                       ELSE NulledRow(rows[r], Cut(IdentityDays))])

\* The rollups of the dates about to lose their principals, and stale ones
\* that old, are refreshed from the requests as they are.
RefreshedFirst(dates) == Refreshed(dates, rows)

Retention ==
  LET identityCut == Cut(IdentityDays)
      dates == {rows[r].day : r \in {q \in Requests : Expired(q)}}
                 \cup {d \in dirty : d < identityCut}
      nulled == [r \in Requests |-> IF rows[r] = NoRow THEN NoRow
                                    ELSE NulledRow(rows[r], identityCut)]
      old == {r \in Requests : rows[r] # NoRow /\ rows[r].day < Cut(RequestDays)}
  IN /\ Free /\ ~Conflict(identityCut)
     /\ rows' = [r \in Requests |-> IF r \in old THEN NoRow ELSE nulled[r]]
     /\ dirty' = (dirty \ dates) \cup {rows[r].day : r \in old}
     /\ rollup' = [d \in Days |-> IF d < Cut(RollupDays) THEN [k \in Kinds |-> NoRow]
                                  ELSE RefreshedFirst(dates)[d]]
     /\ retained' = IF identityCut > retained THEN identityCut ELSE retained
     /\ UNCHANGED <<kind, today, job>>

\* The primary key of merge_members is violated: everything is rolled back.
RetentionFails ==
  /\ Free /\ Conflict(Cut(IdentityDays))
  /\ UNCHANGED vars

-----------------------------------------------------------------------------
(* purge: one transaction that ends with a refresh of the stale dates *)

StoredDocs == UNION {rows[r].docs : r \in {q \in Requests : rows[q] # NoRow}}

PurgeRows(gone, drop, before) ==
  LET partial == {r \in Requests \ gone : rows[r] # NoRow /\ rows[r].docs \cap drop # {}}
      keep(r) == rows[r].docs \ drop
      after == [r \in Requests |-> IF r \in gone THEN NoRow
                                   ELSE IF r \in partial THEN Remerged(keep(r), rows[r])
                                   ELSE rows[r]]
      stale == dirty \cup {rows[r].day : r \in gone \cup partial}
                     \cup {after[r].day : r \in partial}
  IN /\ Free
     /\ rows' = after
     /\ rollup' = [d \in Days |-> IF d < before THEN [k \in Kinds |-> NoRow]
                                  ELSE Refreshed(stale, after)[d]]
     /\ dirty' = {}
     /\ UNCHANGED <<kind, retained, today, job>>

PurgePrincipal(w) ==
  PurgeRows({r \in Requests : rows[r] # NoRow /\ rows[r].who = w},
            {x \in StoredDocs : x.who = w}, 0)

PurgeBefore(t) ==
  PurgeRows({r \in Requests : rows[r] # NoRow /\ rows[r].day < t},
            {x \in StoredDocs : x.view.day < t}, t)

Tick ==
  /\ today < MaxDay
  /\ today' = today + 1
  /\ UNCHANGED <<rows, kind, rollup, dirty, retained, job>>

Next ==
  \/ \E v \in Views : Ingest(v)
  \/ \E l \in Lanes : ShellArrives(l)
  \/ \E p \in Processes : RepriceRead(p) \/ RepriceWrite(p) \/ RefreshWrite(p)
  \/ \E p \in Processes, lo, hi \in Days : RefreshRead(p, lo, hi)
  \/ Retention \/ RetentionFails
  \/ \E w \in Principals : PurgePrincipal(w)
  \/ \E t \in 1..today : PurgeBefore(t)
  \/ Tick

Spec == Init /\ [][Next]_vars

\* A process finishes what it began; retention is a scheduled job that gets
\* its turn again and again.
FairSpec ==
  /\ Spec
  /\ \A p \in Processes : WF_vars(RefreshWrite(p)) /\ WF_vars(RepriceWrite(p))
  /\ SF_vars(Retention)

-----------------------------------------------------------------------------
(* Properties *)

TypeOK ==
  /\ rows \in [Requests -> Rows \cup {NoRow}]
  /\ kind \in [Lanes -> Kinds]
  /\ \A d \in Days, k \in Kinds : rollup[d][k] # NoRow =>
       rollup[d][k] \in [sums : (SUBSET (Requests \X Cards)) \ {{}},
                         users : 0..Cardinality(Principals)]
  /\ dirty \subseteq Days /\ retained \in Days /\ today \in Days
  /\ \A p \in Processes : job[p].op \in {"idle", "reprice", "refresh"}

StoredSums(d, k) == IF rollup[d][k] = NoRow THEN {} ELSE rollup[d][k].sums

\* A date that is not marked stale has the rollup its requests add up to, each of them
\* in one row: "every date touched since the last refresh" is in the stale set
\* (rollups.py).  The lane kind of a row may be older: a shell that arrives late marks
\* no date.
RollupsFresh ==
  \A d \in Days \ dirty : d >= Cut(RollupDays) =>
    /\ UNION {StoredSums(d, k) : k \in Kinds} = UNION {Sums(d, k, rows) : k \in Kinds}
    /\ \A j, k \in Kinds : j # k => StoredSums(d, j) \cap StoredSums(d, k) = {}

\* Principals are counted before they are nulled: when retention takes the
\* principal of a request, the rollup of its date counts at least the users it
\* had (apply_retention refreshes rollups first), whatever was stale and
\* whatever other processes are in the middle of.
CountedBeforeNulled ==
  [][Retention =>
       \A d \in Days, k \in Kinds :
         d >= Cut(RollupDays) /\ (\E r \in InCell(d, k, rows) : Expired(r))
         => rollup'[d][k] # NoRow /\ rollup'[d][k].users >= ActiveUsers(d, k, rows)]_vars

\* A request that named somebody and does not any more.
Nulled(r) ==
  rows[r] # NoRow /\ LET winner == WinnerOf(rows[r].docs)
                     IN winner.who = Nobody /\ winner.view.who # Nobody
HasUsers(d, k) == rollup[d][k] # NoRow /\ rollup[d][k].users > 0

\* A request that lost its principal to identity retention leaves a date with
\* active users, for as long as the request is there and the rollup is due: no
\* repricing, late source, refresh, purge of others or later retention brings
\* the count of its cell down to zero.  For lanes without a shell, whose cell
\* stays where it is.
NulledStillCounted ==
  \A r \in Requests :
    Nulled(r) /\ rows[r].day >= Cut(RollupDays) /\ kind[LaneOf[r]] = "unknown"
      => HasUsers(rows[r].day, "unknown")

\* "A refresh of a date whose principals were already retained keeps the
\* active_users it had" (rollups.py), whatever kind the lanes are by then.  The
\* code breaks it: the cell is looked up under the new lane kind.
UsersOutliveNames ==
  \A r \in Requests :
    Nulled(r) /\ rows[r].day >= Cut(RollupDays) => \E k \in Kinds : HasUsers(rows[r].day, k)

\* identity_days: a principal that is too old is eventually nulled, or gone.
IdentityExpires == \A r \in Requests : Expired(r) ~> ~Expired(r)
=============================================================================
