---------------------------- MODULE LedgerStore -----------------------------
(***************************************************************************)
(* The ledger of merged requests (store/db.py: SqliteStore.ingest, _Work,  *)
(* delete_requests; store/retention.py: purge).  Processes ingest sources  *)
(* chunk by chunk, one BEGIN IMMEDIATE ... COMMIT per chunk, and merge     *)
(* each chunk into the stored groups through two index tables.  A process  *)
(* may die or fail at any point; the open transaction is rolled back and   *)
(* the ingest may be run again.  purge deletes a person or a period.       *)
(*                                                                         *)
(* A transaction is one step: SQLite's write lock is held from BEGIN       *)
(* IMMEDIATE to COMMIT.  The test of the sources table precedes it.        *)
(***************************************************************************)
EXTENDS Merge, Sequences

CONSTANTS
  Contributions,  \* every contribution any source may bring
  Principals,
  Starts,
  Processes,      \* processes with the ledger open
  Sources,        \* source ids
  Files,          \* [source, sha, chunks]: versions of the sources as ingested
  NoRow,          \* no row in an index or in the sources table
  Collision,      \* collision=1 in a row of the request index
  MaxCrashes,     \* bound on failed ingests
  MaxPurges       \* bound on purges

\* A file has at least one, possibly empty, chunk (the last transaction runs
\* even for a source without requests), and its digest stands for its content.
ASSUME FilesAssumption ==
  /\ \A f \in Files : /\ f.source \in Sources /\ f.sha # NoRow
                       /\ f.chunks \in Seq(SUBSET Contributions) /\ f.chunks # <<>>
  /\ \A f, g \in Files : f.source = g.source /\ f.sha = g.sha => f = g
  /\ NoRow \notin Files

\* The fields of a contribution that the merge rules read; equal documents have equal
\* canonical texts, and no two documents the same.
ASSUME ContributionsAssumption ==
  /\ IsFiniteSet(Contributions) /\ IsFiniteSet(Messages)
  /\ Contributions \subseteq
       [canon : Nat, id : Nat, attempts : SUBSET Attempts, fidelity : Nat, priority : Nat,
        output : Nat, principal : Principals \cup {NoPrincipal}, start : Starts]
  /\ \A c, d \in Contributions : c.canon = d.canon => c = d
  /\ Principals \subseteq Nat /\ Starts \subseteq Nat
ASSUME BoundsAssumption == MaxCrashes \in Nat /\ MaxPurges \in Nat
ASSUME RowsAssumption ==
  /\ NoRow # Collision
  /\ \A c \in Contributions : c.id \notin {NoRow, Collision}

VARIABLES
  requests,       \* requests and merge_members: the merged groups
  message_index,  \* provider message id -> request id
  request_index,  \* provider request id -> request id, or Collision
  sources,        \* source id -> sha256 of the ingested version
  job,            \* process -> the file it ingests, or NoRow
  chunk,          \* process -> the next chunk of its file
  crashes, purges,
  forgotten       \* history: contributions a purge deleted

tables == <<requests, message_index, request_index>>
vars == <<tables, sources, job, chunk, crashes, purges, forgotten>>

Ids == {c.id : c \in Contributions}
Stored == UNION {g.members : g \in requests}
StoredCollisions == {h \in Hints : request_index[h] = Collision}
IsRow(h) == request_index[h] \notin {NoRow, Collision}

Init ==
  /\ requests = {}
  /\ message_index = [m \in Messages |-> NoRow]
  /\ request_index = [h \in Hints |-> NoRow]
  /\ sources = [s \in Sources |-> NoRow]
  /\ job = [p \in Processes |-> NoRow]
  /\ chunk = [p \in Processes |-> 1]
  /\ crashes = 0 /\ purges = 0 /\ forgotten = {}

-----------------------------------------------------------------------------
(* Rewriting groups: delete_groups then write_group for each merged group. *)

\* _Work.members of the groups gids.
MembersOf(gids) == UNION {g.members : g \in {r \in requests : r.rid \in gids}}

\* The group a written message or hint belongs to.
RidWithMessage(m, new) == (CHOOSE g \in new : m \in MessagesOf(g.members)).rid
RidWithHint(h, new) == (CHOOSE g \in new : h \in HintsOf(g.members)).rid

\* Mutant: delete_groups forgets the index rows of the groups it deletes.
RewriteKeepRows(gone, gids, new, rix) ==
  /\ requests' = {g \in requests : g.rid \notin gone \cup gids} \cup new
  /\ message_index' =
       [m \in Messages |->
          IF m \in UNION {MessagesOf(g.members) : g \in new} THEN RidWithMessage(m, new)
          ELSE message_index[m]]
  /\ request_index' =
       [h \in Hints |->
          IF rix[h] = Collision THEN Collision
          ELSE IF h \in UNION {HintsOf(g.members) : g \in new} THEN RidWithHint(h, new)
          ELSE rix[h]]

\* gone (delete_requests) go with every index row that points at them, gids
\* with the index rows of their members that point at them; new come in with
\* theirs.  A collision row is never deleted or overwritten.  rix is the
\* request index after the collisions of the chunk were recorded.
Rewrite(gone, gids, new, rix) ==
  /\ requests' = {g \in requests : g.rid \notin gone \cup gids} \cup new
  /\ message_index' =
       [m \in Messages |->
          IF m \in UNION {MessagesOf(g.members) : g \in new} THEN RidWithMessage(m, new)
          ELSE IF \/ message_index[m] \in gone
                  \/ message_index[m] \in gids /\ m \in MessagesOf(MembersOf(gids)) THEN NoRow
          ELSE message_index[m]]
  /\ request_index' =
       [h \in Hints |->
          IF rix[h] = Collision THEN Collision
          ELSE IF h \in UNION {HintsOf(g.members) : g \in new} THEN RidWithHint(h, new)
          ELSE IF \/ rix[h] \in gone
                  \/ rix[h] \in gids /\ h \in HintsOf(MembersOf(gids)) THEN NoRow
          ELSE rix[h]]

-----------------------------------------------------------------------------
(* merge_chunk *)

\* Messages a hint is seen with: in the chunk, and in the group its row names.
Seen(h, cs) ==
  SeenWith(h, cs) \cup (IF IsRow(h) THEN SeenWith(h, MembersOf({request_index[h]})) ELSE {})

NewCollisions(cs) ==
  {h \in HintsOf(cs) : /\ request_index[h] # Collision
                       /\ SeenWith(h, cs) # {}
                       /\ Cardinality(Seen(h, cs)) > 1}

\* Groups that lose a join key: they are re-merged even if nothing joins them.
Affected(newly) == {request_index[h] : h \in {k \in newly : IsRow(k)}}

\* Mutant: an id is looked up among the surviving ids only.
ReachedSurvivors(key, rix) ==
  CASE key[1] = "id" -> {g.rid : g \in {r \in requests : r.rid = key[2]}}
    [] key[1] = "msg" -> {message_index[key[2]]} \ {NoRow}
    [] key[1] = "rq" -> {rix[key[2]]} \ {NoRow, Collision}

\* by_key: the stored groups a join key of an incoming contribution reaches.
\* At most one, because stored groups share no key (NoDoubleCounting).
Reached(key, rix) ==
  CASE key[1] = "id" -> {g.rid : g \in {r \in requests : key[2] \in {c.id : c \in r.members}}}
    [] key[1] = "msg" -> {message_index[key[2]]} \ {NoRow}
    [] key[1] = "rq" -> {rix[key[2]]} \ {NoRow, Collision}

\* Components over incoming contributions and stored groups.  A group shares
\* its own id as a key with every contribution that reaches it.
ChunkComponents(cs, rix, affected) ==
  LET bad == {h \in Hints : rix[h] = Collision}
      reach(c) == UNION {Reached(k, rix) : k \in join_keys(c, bad)}
      gids == affected \cup UNION {reach(c) : c \in cs}
      groups == {g \in requests : g.rid \in gids}
      keys == [x \in cs \cup groups |->
                 IF x \in groups THEN {<<"gid", x.rid>>}
                 ELSE join_keys(x, bad) \cup {<<"gid", i>> : i \in reach(x)}]
  IN {[incoming |-> K \cap cs, gids |-> {g.rid : g \in K \cap groups}] : K \in Classes(keys)}

\* Mutant: groups that lost a join key are not looked at again.
ChangedNewOnly(comp, affected) == comp.incoming \ MembersOf(comp.gids) # {}

\* _remerge leaves a component alone that brings nothing new and lost no key.
\* _insert_fast is the component of one contribution that reaches no group.
Changed(comp, affected) ==
  comp.incoming \ MembersOf(comp.gids) # {} \/ comp.gids \cap affected # {}

merge_chunk(cs) ==
  LET newly == NewCollisions(cs)
      affected == Affected(newly)
      rix == [h \in Hints |-> IF h \in newly THEN Collision ELSE request_index[h]]
      bad == {h \in Hints : rix[h] = Collision}
      todo == {k \in ChunkComponents(cs, rix, affected) : Changed(k, affected)}
      merged(k) == MergeContributions(k.incoming \cup MembersOf(k.gids), bad)
  IN Rewrite({}, UNION {k.gids : k \in todo}, UNION {merged(k) : k \in todo}, rix)

-----------------------------------------------------------------------------
(* ingest *)

\* The test of the sources table, outside any transaction.
IngestStart(p, f) ==
  /\ job[p] = NoRow
  /\ sources[f.source] # f.sha
  /\ job' = [job EXCEPT ![p] = f]
  /\ chunk' = [chunk EXCEPT ![p] = 1]
  /\ UNCHANGED <<tables, sources, crashes, purges, forgotten>>

\* Same (source_id, sha256): skipped.
IngestSkip(p, f) ==
  /\ job[p] = NoRow
  /\ sources[f.source] = f.sha
  /\ UNCHANGED vars

\* Mutant: the loop runs one chunk too far.
IngestChunkPast(p) ==
  /\ job[p] # NoRow
  /\ chunk[p] <= Len(job[p].chunks)
  /\ merge_chunk(job[p].chunks[chunk[p]])
  /\ chunk' = [chunk EXCEPT ![p] = @ + 1]
  /\ UNCHANGED <<sources, job, crashes, purges, forgotten>>

\* Mutant: the source is marked in the first transaction, not in the last.
IngestChunkMark(p) ==
  /\ job[p] # NoRow
  /\ chunk[p] < Len(job[p].chunks)
  /\ merge_chunk(job[p].chunks[chunk[p]])
  /\ chunk' = [chunk EXCEPT ![p] = @ + 1]
  /\ sources' = [sources EXCEPT ![job[p].source] = job[p].sha]
  /\ UNCHANGED <<job, crashes, purges, forgotten>>

\* A chunk that is not the last: merged and committed.
IngestChunk(p) ==
  /\ job[p] # NoRow
  /\ chunk[p] < Len(job[p].chunks)
  /\ merge_chunk(job[p].chunks[chunk[p]])
  /\ chunk' = [chunk EXCEPT ![p] = @ + 1]
  /\ UNCHANGED <<sources, job, crashes, purges, forgotten>>

\* The last transaction also writes the row of the source.
IngestLast(p) ==
  /\ job[p] # NoRow
  /\ chunk[p] = Len(job[p].chunks)
  /\ merge_chunk(job[p].chunks[chunk[p]])
  /\ sources' = [sources EXCEPT ![job[p].source] = job[p].sha]
  /\ job' = [job EXCEPT ![p] = NoRow]
  /\ chunk' = [chunk EXCEPT ![p] = 1]
  /\ UNCHANGED <<crashes, purges, forgotten>>

\* The process dies, or the transaction fails and is rolled back.
IngestFail(p) ==
  /\ job[p] # NoRow /\ crashes < MaxCrashes
  /\ crashes' = crashes + 1
  /\ job' = [job EXCEPT ![p] = NoRow]
  /\ chunk' = [chunk EXCEPT ![p] = 1]
  /\ UNCHANGED <<tables, sources, purges, forgotten>>


-----------------------------------------------------------------------------
(* purge *)

\* delete_requests of the groups gone, then regroup: the other groups with a
\* member of drop are re-merged without it.
PurgeRows(gone, drop) ==
  LET partial == {g.rid : g \in {r \in requests : r.rid \notin gone /\ r.members \cap drop # {}}}
      keep == MembersOf(partial) \ drop
  IN Rewrite(gone, partial, MergeContributions(keep, StoredCollisions), request_index)

Purge(gone, drop) ==
  /\ purges < MaxPurges
  /\ PurgeRows(gone, drop)
  /\ purges' = purges + 1
  /\ forgotten' = forgotten \cup drop \cup MembersOf(gone)
  /\ UNCHANGED <<sources, job, chunk, crashes>>

PurgePrincipal(p) ==
  Purge({g.rid : g \in {r \in requests : r.principal = p}}, {c \in Stored : c.principal = p})

PurgeBefore(t) ==
  Purge({g.rid : g \in {r \in requests : r.start < t}}, {c \in Stored : c.start < t})

Next ==
  \/ \E p \in Processes, f \in Files : IngestStart(p, f) \/ IngestSkip(p, f)
  \/ \E p \in Processes : IngestChunk(p) \/ IngestLast(p) \/ IngestFail(p)
  \/ \E p \in Principals : PurgePrincipal(p)
  \/ \E t \in Starts : PurgeBefore(t)

Spec == Init /\ [][Next]_vars

-----------------------------------------------------------------------------
(* Properties *)

Groups == [rid : Ids, members : SUBSET Contributions, winner : Contributions,
           principal : Principals \cup {NoPrincipal}, start : Starts]

TypeOK ==
  /\ requests \subseteq Groups
  /\ message_index \in [Messages -> Ids \cup {NoRow}]
  /\ request_index \in [Hints -> Ids \cup {NoRow, Collision}]
  /\ sources \in [Sources -> {f.sha : f \in Files} \cup {NoRow}]
  /\ job \in [Processes -> Files \cup {NoRow}]
  /\ \A p \in Processes : job[p] # NoRow => chunk[p] \in DOMAIN job[p].chunks
  /\ crashes \in 0..MaxCrashes /\ purges \in 0..MaxPurges
  /\ forgotten \subseteq Contributions

\* Incremental merging through the indexes, in any interleaving of chunks,
\* processes, failures and purges, leaves exactly the merge of the stored
\* contributions (db.py merge_chunk against merge.py merge_contributions).
Ledger == INSTANCE AbstractLedger WITH
            contribs <- Stored, collided <- StoredCollisions, ledger <- requests
LedgerIsMerge == Ledger!Spec

\* No usage is counted twice: two merged requests share neither the request
\* id that is their primary key, nor a contribution, nor a message id, nor a
\* provider request id that is a join key (db.py _write_rows, by_key).
NoDoubleCounting ==
  \A g, h \in requests : g # h =>
    /\ g.rid # h.rid
    /\ {c.id : c \in g.members} \cap {c.id : c \in h.members} = {}
    /\ MessagesOf(g.members) \cap MessagesOf(h.members) = {}
    /\ HintsOf(g.members) \cap HintsOf(h.members) \subseteq StoredCollisions

\* The index tables say exactly where each provider id is stored: a missing
\* row would split a later request, a row left behind would join it to a
\* request that is gone (db.py delete_groups, write_group, _insert_fast).
IndexesExact ==
  /\ \A m \in Messages, i \in Ids :
       message_index[m] = i <=> \E g \in requests : g.rid = i /\ m \in MessagesOf(g.members)
  /\ \A h \in Hints \ StoredCollisions, i \in Ids :
       request_index[h] = i <=> \E g \in requests : g.rid = i /\ h \in HintsOf(g.members)

Content(f) == UNION {f.chunks[i] : i \in DOMAIN f.chunks}

\* A source marked as ingested is completely stored, whatever failed on the
\* way: the row of the source commits with the last chunk (db.py ingest).
MarkedMeansStored ==
  \A f \in Files : sources[f.source] = f.sha => Content(f) \subseteq Stored \cup forgotten
=============================================================================
