---------------------------- MODULE LedgerProofs ----------------------------
(***************************************************************************)
(* Proofs about the merge rules and the ledger, for every set of           *)
(* contributions, sources, files and processes: connected components       *)
(* partition the contributions and share no join key, a source that is     *)
(* marked as ingested is completely stored, and the incremental merges of  *)
(* the store implement the merge of everything it was given.               *)
(***************************************************************************)
EXTENDS LedgerStore, FiniteSetTheorems, WellFoundedInduction, TLAPS

-----------------------------------------------------------------------------
(* Least and greatest elements *)

\* A set of naturals has a least element.
LEMMA LeastNat ==
  ASSUME NEW S, S \subseteq Nat, S # {}
  PROVE  \E x \in S : \A y \in S : x <= y
<1> DEFINE less == OpToRel(<, Nat)
<1>1. \A x, y \in Nat : <<x, y>> \in less <=> x < y
  BY DEF OpToRel
<1> HIDE DEF less
<1>2. PICK x \in S : \A y \in S : ~(<<y, x>> \in less)
  BY NatLessThanWellFounded, WFMin DEF less
<1>3. \A y \in S : ~(y < x)
  BY <1>1, <1>2
<1> QED BY <1>3

\* A finite set with a total and transitive relation has a greatest element: the one that
\* the fewest elements are not below.
LEMMA GreatestOf ==
  ASSUME NEW U, IsFiniteSet(U), U # {}, NEW R,
         \A x, y \in U : <<x, y>> \in R \/ <<y, x>> \in R,
         \A x, y, z \in U : <<x, y>> \in R /\ <<y, z>> \in R => <<x, z>> \in R
  PROVE  \E x \in U : \A y \in U : <<x, y>> \in R
<1> DEFINE Above == [x \in U |-> {y \in U : <<x, y>> \notin R}]
           Rank == [x \in U |-> Cardinality(Above[x])]
<1>1. \A x \in U : Above[x] \in SUBSET U /\ IsFiniteSet(Above[x]) /\ Rank[x] = Cardinality(Above[x])
                  /\ Rank[x] \in Nat
  <2>1. \A x \in U : Above[x] \in SUBSET U
    OBVIOUS
  <2> HIDE DEF Above
  <2> QED BY <2>1, FS_Subset, FS_CardinalityType
<1> HIDE DEF Rank
<1>2. PICK x \in U : \A y \in U : Rank[x] <= Rank[y]
  <2> DEFINE S == {Rank[x] : x \in U}
  <2>1. \E n \in S : \A k \in S : n <= k
    <3>1. \A x \in U : Rank[x] \in Nat
      BY <1>1
    <3>2. S \subseteq Nat /\ S # {}
      BY <3>1
    <3> HIDE DEF S
    <3> QED BY <3>2, LeastNat
  <2> QED BY <2>1
<1>3. ASSUME NEW y \in U, <<x, y>> \notin R PROVE FALSE
  <2>1. Above[y] \subseteq Above[x] /\ Above[y] # Above[x]
    BY <1>3
  <2> HIDE DEF Above
  <2>2. Rank[y] < Rank[x]
    BY <1>1, <2>1, FS_Subset
  <2> QED BY <1>1, <1>2, <2>2
<1> QED BY <1>3

-----------------------------------------------------------------------------
(* Connected components *)

\* Every node is in a class (merge.py: every contribution ends in a group).
LEMMA ClassesCover ==
  ASSUME NEW keys
  PROVE  UNION Classes(keys) = DOMAIN keys
<1> DEFINE D == DOMAIN keys
<1>1. UNION Classes(keys) \subseteq D
  BY DEF Classes
<1>2. ASSUME NEW x \in D PROVE \E C \in Classes(keys) : x \in C
  <2> DEFINE K == {y \in D : \A T \in SUBSET D : x \in T /\ Closed(T, keys) => y \in T}
  <2>1. x \in K /\ K \in SUBSET D
    OBVIOUS
  <2>2. Closed(K, keys)
    <3> SUFFICES ASSUME NEW a \in K, NEW b \in D \ K PROVE keys[a] \cap keys[b] = {}
      BY DEF Closed
    <3>1. PICK T \in SUBSET D : x \in T /\ Closed(T, keys) /\ b \notin T
      OBVIOUS
    <3>2. a \in T
      BY <3>1
    <3> QED
      BY <3>1, <3>2 DEF Closed
  <2>3. ASSUME NEW T \in (SUBSET K) \ {{}}, Closed(T, keys) PROVE T = K
    <3>1. CASE x \in T
      BY <3>1, <2>3
    <3>2. CASE x \notin T
      <4> DEFINE U == D \ T
      <4>1. Closed(U, keys)
        BY <2>3 DEF Closed
      <4>2. K \subseteq U
        <5> HIDE DEF U
        <5>1. U \in SUBSET D /\ x \in U
          BY <3>2 DEF U
        <5> QED BY <5>1, <4>1
      <4> QED BY <4>2
    <3> QED BY <3>1, <3>2
  <2>4. K \in Classes(keys)
    <3> HIDE DEF K
    <3> QED BY <2>1, <2>2, <2>3 DEF Classes
  <2> QED BY <2>1, <2>4
<1> QED BY <1>1, <1>2

\* Two classes with a common node are the same class.
LEMMA ClassesDisjoint ==
  ASSUME NEW keys, NEW C1 \in Classes(keys), NEW C2 \in Classes(keys), C1 \cap C2 # {}
  PROVE  C1 = C2
<1> DEFINE I == C1 \cap C2
<1>1. /\ C1 \subseteq DOMAIN keys /\ C2 \subseteq DOMAIN keys
      /\ Closed(C1, keys) /\ Closed(C2, keys)
  BY DEF Classes
<1>2. Closed(I, keys)
  BY <1>1 DEF Closed
<1>3. I \in (SUBSET C1) \ {{}} /\ I \in (SUBSET C2) \ {{}}
  OBVIOUS
<1>4. I = C1 /\ I = C2
  <2> HIDE DEF I
  <2> QED BY <1>2, <1>3 DEF Classes
<1> QED BY <1>4

\* Nodes of different classes share no key.
LEMMA ClassesShareNoKey ==
  ASSUME NEW keys, NEW C1 \in Classes(keys), NEW C2 \in Classes(keys), C1 # C2,
         NEW a \in C1, NEW b \in C2
  PROVE  keys[a] \cap keys[b] = {}
<1>1. b \notin C1
  BY ClassesDisjoint
<1>2. Closed(C1, keys) /\ b \in DOMAIN keys
  BY DEF Classes
<1> QED BY <1>1, <1>2 DEF Closed

\* No usage is counted twice by a merge, for any set of contributions: two
\* merged groups share no contribution, no request id, no message id and no
\* provider request id that is a join key (merge.py merge_contributions).
THEOREM MergedGroupsApart ==
  ASSUME NEW S, NEW bad, NEW G \in GroupsOf(S, bad), NEW H \in GroupsOf(S, bad), G # H
  PROVE  /\ G \cap H = {}
         /\ {c.id : c \in G} \cap {c.id : c \in H} = {}
         /\ MessagesOf(G) \cap MessagesOf(H) = {}
         /\ HintsOf(G) \cap HintsOf(H) \subseteq bad
<1> DEFINE keys == [c \in S |-> join_keys(c, bad)]
<1>0. G \in Classes(keys) /\ H \in Classes(keys) /\ DOMAIN keys = S
  BY DEF GroupsOf
<1>1. G \cap H = {}
  <2> HIDE DEF keys
  <2> QED BY <1>0, ClassesDisjoint
<1>2. G \subseteq S /\ H \subseteq S
  BY <1>0 DEF Classes
<1>3. ASSUME NEW a \in G, NEW b \in H PROVE join_keys(a, bad) \cap join_keys(b, bad) = {}
  <2>1. keys[a] \cap keys[b] = {}
    <3> HIDE DEF keys
    <3> QED BY <1>0, ClassesShareNoKey
  <2> QED BY <2>1, <1>2
<1>4. {c.id : c \in G} \cap {c.id : c \in H} = {}
  BY <1>3 DEF join_keys
<1>5. MessagesOf(G) \cap MessagesOf(H) = {}
  <2> SUFFICES ASSUME NEW m, m \in MessagesOf(G), m \in MessagesOf(H) PROVE FALSE
    OBVIOUS
  <2>1. PICK a \in G : m \in message_ids(a)
    BY DEF MessagesOf
  <2>2. PICK b \in H : m \in message_ids(b)
    BY DEF MessagesOf
  <2>3. <<"msg", m>> \in join_keys(a, bad) /\ <<"msg", m>> \in join_keys(b, bad)
    BY <2>1, <2>2 DEF join_keys
  <2> QED BY <1>3, <2>3
<1>6. HintsOf(G) \cap HintsOf(H) \subseteq bad
  <2> SUFFICES ASSUME NEW h, h \in HintsOf(G), h \in HintsOf(H), h \notin bad PROVE FALSE
    OBVIOUS
  <2>1. PICK a \in G : h \in request_hints(a)
    BY DEF HintsOf
  <2>2. PICK b \in H : h \in request_hints(b)
    BY DEF HintsOf
  <2>3. <<"rq", h>> \in join_keys(a, bad) /\ <<"rq", h>> \in join_keys(b, bad)
    BY <2>1, <2>2 DEF join_keys
  <2> QED BY <1>3, <2>3
<1> QED BY <1>1, <1>4, <1>5, <1>6

-----------------------------------------------------------------------------
(* Nothing is lost *)

\* What a process has committed of the file it ingests.
ProgressStored ==
  \A p \in Processes : job[p] # NoRow =>
    /\ job[p] \in Files
    /\ chunk[p] \in DOMAIN job[p].chunks
    /\ \A i \in 1..chunk[p] - 1 : job[p].chunks[i] \subseteq Stored \cup forgotten

FunctionsOK ==
  /\ sources \in [Sources -> {f.sha : f \in Files} \cup {NoRow}]
  /\ DOMAIN job = Processes /\ DOMAIN chunk = Processes

StoredInv == FunctionsOK /\ ProgressStored /\ MarkedMeansStored

\* The members of the merged groups are the contributions that were merged.
LEMMA MergeCovers ==
  ASSUME NEW S, NEW collided
  PROVE  \A c \in S : \E g \in MergeContributions(S, collided) : c \in g.members
<1> DEFINE bad == collided \cup Collided(S)
           keys == [c \in S |-> join_keys(c, bad)]
<1>1. UNION Classes(keys) = S
  <2>1. DOMAIN keys = S
    OBVIOUS
  <2>2. UNION Classes(keys) = DOMAIN keys
    <3> HIDE DEF keys
    <3> QED BY ClassesCover
  <2> QED BY <2>1, <2>2
<1> SUFFICES ASSUME NEW c \in S PROVE \E g \in MergeContributions(S, collided) : c \in g.members
  OBVIOUS
<1>2. PICK G \in Classes(keys) : c \in G
  BY <1>1
<1>3. MergedGroup(G) \in MergeContributions(S, collided)
  BY <1>2 DEF MergeContributions, GroupsOf
<1>4. MergedGroup(G).members = G
  BY DEF MergedGroup
<1> QED BY <1>2, <1>3, <1>4

\* Every incoming contribution is in a component of the chunk.
LEMMA ComponentsCover ==
  ASSUME NEW cs, NEW rix, NEW affected, NEW c \in cs
  PROVE  \E k \in ChunkComponents(cs, rix, affected) : c \in k.incoming
<1> DEFINE bad == {h \in Hints : rix[h] = Collision}
           reach(x) == UNION {Reached(k, rix) : k \in join_keys(x, bad)}
           gids == affected \cup UNION {reach(x) : x \in cs}
           groups == {g \in requests : g.rid \in gids}
           keys == [x \in cs \cup groups |->
                      IF x \in groups THEN {<<"gid", x.rid>>}
                      ELSE join_keys(x, bad) \cup {<<"gid", i>> : i \in reach(x)}]
           comp(K) == [incoming |-> K \cap cs, gids |-> {g.rid : g \in K \cap groups}]
<1>1. ChunkComponents(cs, rix, affected) = {comp(K) : K \in Classes(keys)}
  BY DEF ChunkComponents
<1>2. c \in DOMAIN keys
  OBVIOUS
<1>3. PICK K \in Classes(keys) : c \in K
  <2> HIDE DEF keys
  <2> QED BY <1>2, ClassesCover
<1>4. comp(K) \in ChunkComponents(cs, rix, affected) /\ c \in comp(K).incoming
  <2> HIDE DEF keys, groups
  <2> QED BY <1>1, <1>3
<1> QED BY <1>4

\* A rewrite keeps the members of the groups it leaves and those of the new ones.
LEMMA RewriteKeeps ==
  ASSUME NEW gone, NEW gids, NEW new, NEW rix, Rewrite(gone, gids, new, rix),
         NEW c,
         \/ \E g \in new : c \in g.members
         \/ \E g \in requests : g.rid \notin gone \cup gids /\ c \in g.members
  PROVE  c \in Stored'
<1>1. requests' = {g \in requests : g.rid \notin gone \cup gids} \cup new
  BY DEF Rewrite
<1>2. PICK g \in requests' : c \in g.members
  BY <1>1
<1> QED BY <1>2 DEF Stored

\* A chunk is stored when its transaction commits, and nothing is lost by it.
LEMMA MergeChunkStores ==
  ASSUME NEW cs, merge_chunk(cs)
  PROVE  Stored \cup cs \subseteq Stored'
<1> DEFINE newly == NewCollisions(cs)
           affected == Affected(newly)
           rix == [h \in Hints |-> IF h \in newly THEN Collision ELSE request_index[h]]
           bad == {h \in Hints : rix[h] = Collision}
           comps == ChunkComponents(cs, rix, affected)
           todo == {k \in comps : Changed(k, affected)}
           merged(k) == MergeContributions(k.incoming \cup MembersOf(k.gids), bad)
           gids == UNION {k.gids : k \in todo}
           new == UNION {merged(k) : k \in todo}
<1>1. Rewrite({}, gids, new, rix)
  BY DEF merge_chunk
<1>2. ASSUME NEW k \in todo, NEW c \in k.incoming \cup MembersOf(k.gids) PROVE c \in Stored'
  <2>1. PICK g \in merged(k) : c \in g.members
    <3> HIDE DEF bad
    <3> QED BY MergeCovers
  <2>2. g \in new
    <3> HIDE DEF merged, todo
    <3> QED BY DEF new
  <2> HIDE DEF new, gids, rix
  <2> QED BY <1>1, <2>1, <2>2, RewriteKeeps
<1>3. ASSUME NEW c \in Stored PROVE c \in Stored'
  <2>1. PICK g \in requests : c \in g.members
    BY DEF Stored
  <2>2. CASE g.rid \in gids
    <3>1. PICK k \in todo : g.rid \in k.gids
      <4> HIDE DEF todo
      <4> QED BY <2>2
    <3>2. c \in MembersOf(k.gids)
      <4> HIDE DEF todo
      <4> QED BY <2>1, <3>1 DEF MembersOf
    <3> HIDE DEF todo
    <3> QED BY <1>2, <3>2
  <2>3. CASE g.rid \notin gids
    <3> HIDE DEF new, gids, rix
    <3> QED BY <1>1, <2>1, <2>3, RewriteKeeps
  <2> QED BY <2>2, <2>3
<1>4. ASSUME NEW c \in cs PROVE c \in Stored'
  <2>1. PICK k \in comps : c \in k.incoming
    <3> HIDE DEF rix, affected
    <3> QED BY ComponentsCover
  <2>2. CASE Changed(k, affected)
    <3>1. k \in todo
      <4> HIDE DEF comps, affected
      <4> QED BY <2>2
    <3> HIDE DEF todo
    <3> QED BY <1>2, <2>1, <3>1
  <2>3. CASE ~Changed(k, affected)
    <3> HIDE DEF affected, comps
    <3>1. c \in MembersOf(k.gids)
      BY <2>1, <2>3 DEF Changed
    <3>2. c \in Stored
      BY <3>1 DEF MembersOf, Stored
    <3> HIDE DEF todo
    <3> QED BY <1>3, <3>2
  <2> QED BY <2>2, <2>3
<1> QED BY <1>3, <1>4

\* A purge takes no contribution away that it does not count as forgotten.
LEMMA PurgeForgets ==
  ASSUME NEW gone, NEW drop, Purge(gone, drop)
  PROVE  Stored \cup forgotten \subseteq Stored' \cup forgotten'
<1> DEFINE partial == {g.rid : g \in {r \in requests : r.rid \notin gone /\ r.members \cap drop # {}}}
           keep == MembersOf(partial) \ drop
           new == MergeContributions(keep, StoredCollisions)
<1>1. /\ Rewrite(gone, partial, new, request_index)
      /\ forgotten' = forgotten \cup drop \cup MembersOf(gone)
  BY DEF Purge, PurgeRows
<1>2. ASSUME NEW c \in Stored, c \notin drop PROVE c \in Stored' \cup forgotten'
  <2>1. PICK g \in requests : c \in g.members
    BY DEF Stored
  <2>2. CASE g.rid \in gone
    <3>1. c \in MembersOf(gone)
      BY <2>1, <2>2 DEF MembersOf
    <3> HIDE DEF new, partial, keep
    <3> QED BY <1>1, <3>1
  <2>3. CASE g.rid \in partial
    <3>1. c \in keep
      <4> HIDE DEF partial
      <4> QED BY <1>2, <2>1, <2>3 DEF MembersOf
    <3>2. \E h \in new : c \in h.members
      <4> HIDE DEF keep
      <4> QED BY <3>1, MergeCovers
    <3> HIDE DEF new, partial
    <3> QED BY <1>1, <3>2, RewriteKeeps
  <2>4. CASE g.rid \notin gone \cup partial
    <3> HIDE DEF new, partial
    <3> QED BY <1>1, <2>1, <2>4, RewriteKeeps
  <2> QED BY <2>2, <2>3, <2>4
<1>3. drop \cup forgotten \subseteq forgotten'
  <2> HIDE DEF new, partial, keep
  <2> QED BY <1>1
<1> QED BY <1>2, <1>3

\* The parts of the invariant, when what is known to be stored only grows.
LEMMA MarkedKept ==
  ASSUME MarkedMeansStored, sources' = sources,
         Stored \cup forgotten \subseteq Stored' \cup forgotten'
  PROVE  MarkedMeansStored'
BY DEF MarkedMeansStored, Content

LEMMA ProgressKept ==
  ASSUME ProgressStored, NEW p \in Processes, job'[p] = job[p], chunk'[p] = chunk[p],
         Stored \cup forgotten \subseteq Stored' \cup forgotten'
  PROVE  job'[p] # NoRow =>
           /\ job'[p] \in Files
           /\ chunk'[p] \in DOMAIN job'[p].chunks
           /\ \A i \in 1..chunk'[p] - 1 : job'[p].chunks[i] \subseteq Stored' \cup forgotten'
<1> DEFINE K == Stored \cup forgotten  L == Stored' \cup forgotten'
<1> SUFFICES ASSUME job[p] # NoRow
             PROVE  /\ job[p] \in Files
                    /\ chunk[p] \in DOMAIN job[p].chunks
                    /\ \A i \in 1..chunk[p] - 1 : job[p].chunks[i] \subseteq L
  OBVIOUS
<1>1. /\ job[p] \in Files
      /\ chunk[p] \in DOMAIN job[p].chunks
      /\ \A i \in 1..chunk[p] - 1 : job[p].chunks[i] \subseteq K
  BY DEF ProgressStored
<1>2. K \subseteq L
  OBVIOUS
<1> HIDE DEF K, L
<1> QED BY <1>1, <1>2

LEMMA StoredSame == UNCHANGED tables => Stored' = Stored
BY DEF tables, Stored

\* A file's chunks are numbered from 1.
LEMMA ChunkNumbers ==
  ASSUME NEW f \in Files
  PROVE  Len(f.chunks) \in Nat /\ 1 \in DOMAIN f.chunks /\ DOMAIN f.chunks = 1..Len(f.chunks)
BY FilesAssumption

LEMMA StartStep ==
  ASSUME StoredInv, NEW p \in Processes, NEW f \in Files, IngestStart(p, f)
  PROVE  StoredInv'
<1>1. Stored' = Stored /\ forgotten' = forgotten
  BY StoredSame DEF IngestStart
<1>2. MarkedMeansStored'
  BY <1>1, MarkedKept DEF StoredInv, IngestStart
<1>3. ProgressStored'
  <2> SUFFICES ASSUME NEW q \in Processes
               PROVE  job'[q] # NoRow =>
                        /\ job'[q] \in Files
                        /\ chunk'[q] \in DOMAIN job'[q].chunks
                        /\ \A i \in 1..chunk'[q] - 1 : job'[q].chunks[i] \subseteq Stored' \cup forgotten'
    BY DEF ProgressStored
  <2>1. CASE q = p
    <3>1. job'[q] = f /\ chunk'[q] = 1
      BY <2>1 DEF StoredInv, FunctionsOK, IngestStart
    <3> QED BY <3>1, ChunkNumbers
  <2>2. CASE q # p
    <3>1. job'[q] = job[q] /\ chunk'[q] = chunk[q]
      BY <2>2 DEF StoredInv, FunctionsOK, IngestStart
    <3> QED BY <3>1, <1>1, ProgressKept DEF StoredInv
  <2> QED BY <2>1, <2>2
<1>4. FunctionsOK'
  BY DEF StoredInv, FunctionsOK, IngestStart
<1> QED BY <1>2, <1>3, <1>4 DEF StoredInv

LEMMA ChunkStep ==
  ASSUME StoredInv, NEW p \in Processes, IngestChunk(p)
  PROVE  StoredInv'
<1> DEFINE f == job[p]  n == chunk[p]
<1>0. /\ f \in Files /\ n \in DOMAIN f.chunks /\ n < Len(f.chunks)
      /\ \A i \in 1..n - 1 : f.chunks[i] \subseteq Stored \cup forgotten
  BY DEF StoredInv, ProgressStored, IngestChunk
<1>1. Stored \cup f.chunks[n] \subseteq Stored' /\ forgotten' = forgotten
  BY MergeChunkStores DEF IngestChunk
<1>2. Stored \cup forgotten \subseteq Stored' \cup forgotten'
  BY <1>1
<1>3. MarkedMeansStored'
  BY <1>2, MarkedKept DEF StoredInv, IngestChunk
<1>4. ProgressStored'
  <2> SUFFICES ASSUME NEW q \in Processes
               PROVE  job'[q] # NoRow =>
                        /\ job'[q] \in Files
                        /\ chunk'[q] \in DOMAIN job'[q].chunks
                        /\ \A i \in 1..chunk'[q] - 1 : job'[q].chunks[i] \subseteq Stored' \cup forgotten'
    BY DEF ProgressStored
  <2>1. CASE q = p
    <3>1. job'[q] = f /\ chunk'[q] = n + 1
      BY <2>1 DEF StoredInv, FunctionsOK, IngestChunk
    <3> HIDE DEF f, n
    <3>2. n \in Nat /\ n + 1 \in DOMAIN f.chunks
      BY <1>0, ChunkNumbers
    <3>3. ASSUME NEW i \in 1..n PROVE f.chunks[i] \subseteq Stored' \cup forgotten'
      <4>1. CASE i = n
        BY <4>1, <1>1
      <4>2. CASE i # n
        <5>1. i \in 1..n - 1
          BY <4>2, <3>2
        <5> QED BY <5>1, <1>0, <1>2
      <4> QED BY <4>1, <4>2
    <3>4. n + 1 - 1 = n
      BY <3>2
    <3> QED BY <3>1, <3>2, <3>3, <3>4, <1>0
  <2>2. CASE q # p
    <3>1. job'[q] = job[q] /\ chunk'[q] = chunk[q]
      BY <2>2 DEF StoredInv, FunctionsOK, IngestChunk
    <3> QED BY <3>1, <1>2, ProgressKept DEF StoredInv
  <2> QED BY <2>1, <2>2
<1>5. FunctionsOK'
  BY DEF StoredInv, FunctionsOK, IngestChunk
<1> QED BY <1>3, <1>4, <1>5 DEF StoredInv

LEMMA LastStep ==
  ASSUME StoredInv, NEW p \in Processes, IngestLast(p)
  PROVE  StoredInv'
<1> DEFINE f == job[p]  n == chunk[p]
<1>0. /\ f \in Files /\ n \in DOMAIN f.chunks /\ n = Len(f.chunks)
      /\ \A i \in 1..n - 1 : f.chunks[i] \subseteq Stored \cup forgotten
  BY DEF StoredInv, ProgressStored, IngestLast
<1>1. Stored \cup f.chunks[n] \subseteq Stored' /\ forgotten' = forgotten
  BY MergeChunkStores DEF IngestLast
<1>2. Stored \cup forgotten \subseteq Stored' \cup forgotten'
  BY <1>1
<1>3. sources' = [sources EXCEPT ![f.source] = f.sha]
  BY DEF IngestLast
<1>4. Content(f) \subseteq Stored' \cup forgotten'
  <2> HIDE DEF f, n
  <2> SUFFICES ASSUME NEW i \in DOMAIN f.chunks PROVE f.chunks[i] \subseteq Stored' \cup forgotten'
    BY DEF Content
  <2>1. CASE i = n
    BY <2>1, <1>1
  <2>2. CASE i # n
    <3>1. i \in 1..n - 1
      BY <2>2, <1>0, ChunkNumbers
    <3> QED BY <3>1, <1>0, <1>2
  <2> QED BY <2>1, <2>2
<1>5. MarkedMeansStored'
  <2> HIDE DEF f, n
  <2> SUFFICES ASSUME NEW g \in Files, sources'[g.source] = g.sha
               PROVE  Content(g) \subseteq Stored' \cup forgotten'
    BY DEF MarkedMeansStored, Content
  <2>1. g.source \in DOMAIN sources
    BY FilesAssumption DEF StoredInv, FunctionsOK
  <2>2. CASE g.source = f.source
    <3>1. g = f
      BY <2>1, <2>2, <1>0, <1>3, FilesAssumption
    <3> QED BY <3>1, <1>4
  <2>3. CASE g.source # f.source
    <3>1. sources[g.source] = g.sha
      BY <2>1, <2>3, <1>3
    <3>2. Content(g) \subseteq Stored \cup forgotten
      BY <3>1 DEF StoredInv, MarkedMeansStored
    <3> QED BY <3>2, <1>2
  <2> QED BY <2>2, <2>3
<1>6. ProgressStored'
  <2> SUFFICES ASSUME NEW q \in Processes
               PROVE  job'[q] # NoRow =>
                        /\ job'[q] \in Files
                        /\ chunk'[q] \in DOMAIN job'[q].chunks
                        /\ \A i \in 1..chunk'[q] - 1 : job'[q].chunks[i] \subseteq Stored' \cup forgotten'
    BY DEF ProgressStored
  <2>1. CASE q = p
    BY <2>1 DEF StoredInv, FunctionsOK, IngestLast
  <2>2. CASE q # p
    <3>1. job'[q] = job[q] /\ chunk'[q] = chunk[q]
      BY <2>2 DEF StoredInv, FunctionsOK, IngestLast
    <3> QED BY <3>1, <1>2, ProgressKept DEF StoredInv
  <2> QED BY <2>1, <2>2
<1>7. FunctionsOK'
  <2>1. DOMAIN job' = Processes /\ DOMAIN chunk' = Processes
    BY DEF StoredInv, FunctionsOK, IngestLast
  <2>2. sources' \in [Sources -> {g.sha : g \in Files} \cup {NoRow}]
    <3> HIDE DEF f
    <3> QED BY <1>0, <1>3 DEF StoredInv, FunctionsOK
  <2> QED BY <2>1, <2>2 DEF FunctionsOK
<1> QED BY <1>5, <1>6, <1>7 DEF StoredInv

LEMMA FailStep ==
  ASSUME StoredInv, NEW p \in Processes, IngestFail(p)
  PROVE  StoredInv'
<1>1. Stored' = Stored /\ forgotten' = forgotten
  BY StoredSame DEF IngestFail
<1>2. MarkedMeansStored'
  BY <1>1, MarkedKept DEF StoredInv, IngestFail
<1>3. ProgressStored'
  <2> SUFFICES ASSUME NEW q \in Processes
               PROVE  job'[q] # NoRow =>
                        /\ job'[q] \in Files
                        /\ chunk'[q] \in DOMAIN job'[q].chunks
                        /\ \A i \in 1..chunk'[q] - 1 : job'[q].chunks[i] \subseteq Stored' \cup forgotten'
    BY DEF ProgressStored
  <2>1. CASE q = p
    BY <2>1 DEF StoredInv, FunctionsOK, IngestFail
  <2>2. CASE q # p
    <3>1. job'[q] = job[q] /\ chunk'[q] = chunk[q]
      BY <2>2 DEF StoredInv, FunctionsOK, IngestFail
    <3> QED BY <3>1, <1>1, ProgressKept DEF StoredInv
  <2> QED BY <2>1, <2>2
<1>4. FunctionsOK'
  BY DEF StoredInv, FunctionsOK, IngestFail
<1> QED BY <1>2, <1>3, <1>4 DEF StoredInv

\* Steps that leave sources, jobs and chunks alone: a skip, a purge, a stutter.
LEMMA OtherStep ==
  ASSUME StoredInv, UNCHANGED <<sources, job, chunk>>,
         Stored \cup forgotten \subseteq Stored' \cup forgotten'
  PROVE  StoredInv'
<1>1. MarkedMeansStored'
  BY MarkedKept DEF StoredInv
<1>2. ProgressStored'
  <2>1. ASSUME NEW q \in Processes
        PROVE  job'[q] # NoRow =>
                 /\ job'[q] \in Files
                 /\ chunk'[q] \in DOMAIN job'[q].chunks
                 /\ \A i \in 1..chunk'[q] - 1 : job'[q].chunks[i] \subseteq Stored' \cup forgotten'
    BY ProgressKept DEF StoredInv
  <2> QED BY <2>1 DEF ProgressStored
<1>3. FunctionsOK'
  BY DEF StoredInv, FunctionsOK
<1> QED BY <1>1, <1>2, <1>3 DEF StoredInv

\* What is stored is kept, whatever step comes.
LEMMA StoredAlways == Spec => []StoredInv
<1>1. Init => StoredInv
  <2> SUFFICES ASSUME Init PROVE StoredInv
    OBVIOUS
  <2>1. FunctionsOK /\ ProgressStored
    BY DEF Init, FunctionsOK, ProgressStored
  <2>2. MarkedMeansStored
    BY FilesAssumption DEF Init, MarkedMeansStored
  <2> QED BY <2>1, <2>2 DEF StoredInv
<1>2. StoredInv /\ [Next]_vars => StoredInv'
  <2> SUFFICES ASSUME StoredInv, [Next]_vars PROVE StoredInv'
    OBVIOUS
  <2>1. ASSUME NEW p \in Processes, NEW f \in Files, IngestStart(p, f) PROVE StoredInv'
    BY <2>1, StartStep
  <2>2. ASSUME NEW p \in Processes, NEW f \in Files, IngestSkip(p, f) PROVE StoredInv'
    BY <2>2, StoredSame, OtherStep DEF IngestSkip, vars
  <2>3. ASSUME NEW p \in Processes, IngestChunk(p) PROVE StoredInv'
    BY <2>3, ChunkStep
  <2>4. ASSUME NEW p \in Processes, IngestLast(p) PROVE StoredInv'
    BY <2>4, LastStep
  <2>5. ASSUME NEW p \in Processes, IngestFail(p) PROVE StoredInv'
    BY <2>5, FailStep
  <2>6. ASSUME NEW p \in Principals, PurgePrincipal(p) PROVE StoredInv'
    <3> DEFINE gone == {g.rid : g \in {r \in requests : r.principal = p}}
               drop == {c \in Stored : c.principal = p}
    <3>1. Purge(gone, drop)
      BY <2>6 DEF PurgePrincipal
    <3> HIDE DEF gone, drop
    <3>2. UNCHANGED <<sources, job, chunk>>
      BY <3>1 DEF Purge
    <3> QED BY <3>1, <3>2, PurgeForgets, OtherStep
  <2>7. ASSUME NEW t \in Starts, PurgeBefore(t) PROVE StoredInv'
    <3> DEFINE gone == {g.rid : g \in {r \in requests : r.start < t}}
               drop == {c \in Stored : c.start < t}
    <3>1. Purge(gone, drop)
      BY <2>7 DEF PurgeBefore
    <3> HIDE DEF gone, drop
    <3>2. UNCHANGED <<sources, job, chunk>>
      BY <3>1 DEF Purge
    <3> QED BY <3>1, <3>2, PurgeForgets, OtherStep
  <2>8. CASE UNCHANGED vars
    BY <2>8, StoredSame, OtherStep DEF vars
  <2> QED BY <2>1, <2>2, <2>3, <2>4, <2>5, <2>6, <2>7, <2>8 DEF Next
<1> QED BY <1>1, <1>2, PTL DEF Spec

\* For every set of files, processes and purges, a source with a row in the
\* sources table is completely stored, except for what was purged, whatever
\* ingests failed between two chunks (SqliteStore.ingest, retention.purge).
THEOREM MarkedSourcesAreStored == Spec => []MarkedMeansStored
<1>1. StoredInv => MarkedMeansStored
  BY DEF StoredInv
<1> QED BY <1>1, StoredAlways, PTL

-----------------------------------------------------------------------------
(* Merging piece by piece *)

\* Two contributions without a common join key.
Apart(c, d, bad) == join_keys(c, bad) \cap join_keys(d, bad) = {}

\* A piece of S that shares no join key with the rest of S.
Piece(P, S, bad) == P \subseteq S /\ \A c \in P, d \in S \ P : Apart(c, d, bad)

LEMMA GroupClass ==
  ASSUME NEW S, NEW bad, NEW C
  PROVE  C \in GroupsOf(S, bad) <=>
           /\ C # {} /\ Piece(C, S, bad)
           /\ \A T \in (SUBSET C) \ {{}} : Piece(T, S, bad) => T = C
<1> DEFINE keys == [c \in S |-> join_keys(c, bad)]
<1>1. DOMAIN keys = S /\ \A c \in S : keys[c] = join_keys(c, bad)
  OBVIOUS
<1>2. GroupsOf(S, bad) = Classes(keys)
  BY DEF GroupsOf
<1> HIDE DEF keys
<1>3. \A T \in SUBSET S : Closed(T, keys) <=> Piece(T, S, bad)
  BY <1>1 DEF Closed, Piece, Apart
<1>4. Piece(C, S, bad) => C \in SUBSET S
  BY DEF Piece
<1> QED BY <1>1, <1>2, <1>3, <1>4 DEF Classes

\* A class of the whole is inside a piece or outside of it.
LEMMA GroupInPiece ==
  ASSUME NEW S, NEW bad, NEW P, Piece(P, S, bad), NEW C \in GroupsOf(S, bad), C \cap P # {}
  PROVE  C \subseteq P
<1> DEFINE T == C \cap P
<1>1. Piece(C, S, bad)
  BY GroupClass
<1>2. Piece(T, S, bad)
  BY <1>1 DEF Piece
<1>3. T \in (SUBSET C) \ {{}}
  OBVIOUS
<1>4. T = C
  <2> HIDE DEF T
  <2> QED BY <1>2, <1>3, GroupClass
<1> QED BY <1>4

\* The classes of a piece are the classes of the whole inside it.
LEMMA GroupsOfPiece ==
  ASSUME NEW S, NEW bad, NEW P, Piece(P, S, bad), NEW C
  PROVE  C \in GroupsOf(P, bad) <=> (C \in GroupsOf(S, bad) /\ C \subseteq P)
<1>1. ASSUME NEW T \in SUBSET P PROVE Piece(T, S, bad) <=> Piece(T, P, bad)
  BY <1>1 DEF Piece
<1>2. C \in GroupsOf(P, bad) => C \subseteq P
  BY GroupClass DEF Piece
<1>3. ASSUME C \subseteq P
      PROVE  C \in GroupsOf(P, bad) <=> C \in GroupsOf(S, bad)
  <2>1. Piece(C, S, bad) <=> Piece(C, P, bad)
    BY <1>1, <1>3
  <2>2. \A T \in (SUBSET C) \ {{}} : Piece(T, S, bad) <=> Piece(T, P, bad)
    BY <1>1, <1>3
  <2> QED BY <2>1, <2>2, GroupClass
<1> QED BY <1>2, <1>3

\* A set that falls into pieces is merged piece by piece.
LEMMA GroupsSplit ==
  ASSUME NEW S, NEW bad, NEW Pieces, S = UNION Pieces,
         \A P \in Pieces : Piece(P, S, bad)
  PROVE  GroupsOf(S, bad) = UNION {GroupsOf(P, bad) : P \in Pieces}
<1>1. ASSUME NEW C \in GroupsOf(S, bad) PROVE \E P \in Pieces : C \in GroupsOf(P, bad)
  <2>1. C # {} /\ C \subseteq S
    BY GroupClass DEF Piece
  <2>2. PICK P \in Pieces : C \cap P # {}
    BY <2>1
  <2>3. C \subseteq P
    BY <2>2, GroupInPiece
  <2> QED BY <2>3, GroupsOfPiece
<1>2. ASSUME NEW P \in Pieces, NEW C \in GroupsOf(P, bad) PROVE C \in GroupsOf(S, bad)
  BY GroupsOfPiece
<1> QED BY <1>1, <1>2

\* Which hints are no join keys matters only for the hints that occur.
LEMMA GroupsOfSameKeys ==
  ASSUME NEW S, NEW bad1, NEW bad2, \A c \in S : join_keys(c, bad1) = join_keys(c, bad2)
  PROVE  GroupsOf(S, bad1) = GroupsOf(S, bad2)
<1>1. [c \in S |-> join_keys(c, bad1)] = [c \in S |-> join_keys(c, bad2)]
  OBVIOUS
<1> QED BY <1>1 DEF GroupsOf

\* A class by itself is one group.
LEMMA GroupAlone ==
  ASSUME NEW S, NEW bad, NEW C \in GroupsOf(S, bad)
  PROVE  GroupsOf(C, bad) = {C}
<1>1. Piece(C, S, bad) /\ C # {}
  BY GroupClass
<1>2. C \in GroupsOf(C, bad)
  BY <1>1, GroupsOfPiece
<1>3. ASSUME NEW D \in GroupsOf(C, bad) PROVE D = C
  <2>1. D \in GroupsOf(S, bad) /\ D \subseteq C /\ D # {}
    BY <1>1, GroupsOfPiece, GroupClass
  <2>2. Piece(D, S, bad)
    BY <2>1, GroupClass
  <2> QED BY <2>1, <2>2, GroupClass
<1> QED BY <1>2, <1>3

-----------------------------------------------------------------------------
(* Merged groups *)

LEMMA LeastIn ==
  ASSUME NEW S, S \subseteq Nat, S # {}
  PROVE  Least(S) \in S
BY LeastNat DEF Least

\* The surviving id is the id of a member.
LEMMA RidOfMember ==
  ASSUME NEW G \in SUBSET Contributions, G # {}
  PROVE  \E c \in G : SurvivingId(G) = c.id
<1> DEFINE withMsg == {c \in G : message_ids(c) # {}}
           from == IF withMsg # {} THEN withMsg ELSE G
           ids == {c.id : c \in from}
<1>1. from \subseteq G /\ from # {}
  OBVIOUS
<1>2. \A c \in Contributions : c.id \in Nat
  BY ContributionsAssumption
<1> HIDE DEF from
<1>3. ids \subseteq Nat /\ ids # {}
  BY <1>1, <1>2
<1>4. Least(ids) \in ids
  <2> HIDE DEF ids
  <2> QED BY <1>3, LeastIn
<1>5. SurvivingId(G) = Least(ids)
  BY DEF SurvivingId, from
<1> QED BY <1>1, <1>4, <1>5

Merged(S, bad) == {MergedGroup(G) : G \in GroupsOf(S, bad)}

\* A merged request is its members, which are a class.
LEMMA MergedFacts ==
  ASSUME NEW S \in SUBSET Contributions, NEW bad, NEW g \in Merged(S, bad)
  PROVE  /\ g.members \in GroupsOf(S, bad) /\ g = MergedGroup(g.members)
         /\ g.members # {} /\ g.members \subseteq S
         /\ \E c \in g.members : g.rid = c.id
<1>1. PICK G \in GroupsOf(S, bad) : g = MergedGroup(G)
  BY DEF Merged
<1>2. g.members = G /\ g.rid = SurvivingId(G)
  BY <1>1 DEF MergedGroup
<1>3. G # {} /\ G \subseteq S
  BY GroupClass DEF Piece
<1>4. \E c \in G : SurvivingId(G) = c.id
  BY <1>3, RidOfMember
<1> QED BY <1>1, <1>2, <1>3, <1>4

\* Two merged requests share nothing (NoDoubleCounting of a merge).
LEMMA MergedApart ==
  ASSUME NEW S \in SUBSET Contributions, NEW bad,
         NEW g \in Merged(S, bad), NEW h \in Merged(S, bad), g # h
  PROVE  /\ g.rid # h.rid
         /\ {c.id : c \in g.members} \cap {c.id : c \in h.members} = {}
         /\ MessagesOf(g.members) \cap MessagesOf(h.members) = {}
         /\ HintsOf(g.members) \cap HintsOf(h.members) \subseteq bad
         /\ \A c \in g.members, d \in h.members : Apart(c, d, bad)
<1>1. /\ g.members \in GroupsOf(S, bad) /\ h.members \in GroupsOf(S, bad)
      /\ g.members # h.members
  BY MergedFacts
<1>2. /\ {c.id : c \in g.members} \cap {c.id : c \in h.members} = {}
      /\ MessagesOf(g.members) \cap MessagesOf(h.members) = {}
      /\ HintsOf(g.members) \cap HintsOf(h.members) \subseteq bad
      /\ g.members \cap h.members = {}
  <2> DEFINE G == g.members
             H == h.members
  <2> HIDE DEF G, H
  <2>1. G \in GroupsOf(S, bad) /\ H \in GroupsOf(S, bad) /\ G # H
    BY <1>1 DEF G, H
  <2>2. /\ G \cap H = {} /\ {c.id : c \in G} \cap {c.id : c \in H} = {}
        /\ MessagesOf(G) \cap MessagesOf(H) = {} /\ HintsOf(G) \cap HintsOf(H) \subseteq bad
    BY <2>1, MergedGroupsApart
  <2> QED BY <2>2 DEF G, H
<1>3. g.rid # h.rid
  BY <1>2, MergedFacts
<1>4. \A c \in g.members, d \in h.members : Apart(c, d, bad)
  <2>1. Piece(g.members, S, bad) /\ h.members \subseteq S
    BY <1>1, GroupClass DEF Piece
  <2> QED BY <1>2, <2>1 DEF Piece
<1> QED BY <1>2, <1>3, <1>4

-----------------------------------------------------------------------------
(* The inductive invariant: the ledger is the merge of what it stores, and  *)
(* the indexes say where.                                                   *)

LedgerInv ==
  /\ Stored \subseteq Contributions
  /\ requests = Merged(Stored, StoredCollisions)
  /\ Collided(Stored) \subseteq StoredCollisions
  /\ message_index \in [Messages -> Ids \cup {NoRow}]
  /\ request_index \in [Hints -> Ids \cup {NoRow, Collision}]
  /\ IndexesExact

LEMMA NotIds == NoRow \notin Ids /\ Collision \notin Ids /\ NoRow # Collision
  BY RowsAssumption DEF Ids

LEMMA ProviderIds ==
  ASSUME NEW S \in SUBSET Contributions
  PROVE  MessagesOf(S) \subseteq Messages /\ HintsOf(S) \subseteq Hints
<1>1. \A c \in S : c.attempts \subseteq Attempts
  BY ContributionsAssumption
<1>2. \A c \in S : \A a \in c.attempts : a.hint \in Hints \cup {NoId} /\ a.msg \in Messages \cup {NoId}
  BY <1>1 DEF Attempts
<1> QED BY <1>2 DEF MessagesOf, HintsOf, message_ids, request_hints

LEMMA GroupsCover ==
  ASSUME NEW S, NEW bad
  PROVE  UNION GroupsOf(S, bad) = S
<1> DEFINE keys == [c \in S |-> join_keys(c, bad)]
<1>1. DOMAIN keys = S /\ GroupsOf(S, bad) = Classes(keys)
  BY DEF GroupsOf
<1> HIDE DEF keys
<1> QED BY <1>1, ClassesCover

LEMMA MergedCovers ==
  ASSUME NEW S \in SUBSET Contributions, NEW bad
  PROVE  UNION {g.members : g \in Merged(S, bad)} = S
<1>1. ASSUME NEW c \in S PROVE \E g \in Merged(S, bad) : c \in g.members
  <2>1. PICK G \in GroupsOf(S, bad) : c \in G
    BY GroupsCover
  <2>2. MergedGroup(G) \in Merged(S, bad) /\ MergedGroup(G).members = G
    BY DEF Merged, MergedGroup
  <2> QED BY <2>1, <2>2
<1>2. \A g \in Merged(S, bad) : g.members \subseteq S
  BY MergedFacts
<1> QED BY <1>1, <1>2

LEMMA MergeIsMerged ==
  ASSUME NEW S, NEW bad, Collided(S) \subseteq bad
  PROVE  MergeContributions(S, bad) = Merged(S, bad)
<1>1. bad \cup Collided(S) = bad
  OBVIOUS
<1> QED BY <1>1 DEF MergeContributions, Merged

\* One row of an index when groups are rewritten: with are the groups that hold its
\* key, row and row2 the row before and after, member says that a rewritten group held it.
RowStep(old, new, kept, with, gone, gids, row, row2, member) ==
  /\ kept = {g \in old : g.rid \notin gone \cup gids}
  /\ \A i \in Ids : row = i <=> \E g \in old : g \in with /\ g.rid = i
  /\ \A g \in old \cup new : g.rid \in Ids
  /\ \A g, h \in kept \cup new : g \in with /\ h \in with => g = h
  /\ \A g \in old : g \in with /\ g.rid \in gids => member
  /\ (\E g \in new : g \in with) => \E g \in new : g \in with /\ row2 = g.rid
  /\ (\A g \in new : g \notin with) =>
       row2 = IF row \in gone \/ (row \in gids /\ member) THEN NoRow ELSE row

\* The row names the group that holds the key, if there is one.
LEMMA RowRewritten ==
  ASSUME NEW old, NEW new, NEW kept, NEW with, NEW gone, NEW gids, NEW row, NEW row2,
         NEW member, member \in BOOLEAN,
         RowStep(old, new, kept, with, gone, gids, row, row2, member)
  PROVE  \A i \in Ids : row2 = i <=> \E g \in kept \cup new : g \in with /\ g.rid = i
<1> USE DEF RowStep
<1>1. CASE \E g \in new : g \in with
  <2>1. PICK g \in new : g \in with /\ row2 = g.rid
    BY <1>1
  <2> QED BY <2>1
<1>2. CASE \A g \in new : g \notin with
  <2>1. CASE row \in gone \/ (row \in gids /\ member)
    <3>1. row2 = NoRow
      BY <1>2, <2>1
    <3>2. ASSUME NEW g \in kept \cup new, g \in with PROVE FALSE
      <4>1. g \in old /\ g.rid \notin gone \cup gids /\ g.rid \in Ids
        BY <1>2, <3>2
      <4>2. row = g.rid
        BY <3>2, <4>1
      <4> QED BY <2>1, <4>1, <4>2
    <3> QED BY <3>1, <3>2, NotIds
  <2>2. CASE ~(row \in gone \/ (row \in gids /\ member))
    <3>1. row2 = row
      BY <1>2, <2>2
    <3>2. ASSUME NEW i \in Ids, row = i PROVE \E g \in kept \cup new : g \in with /\ g.rid = i
      <4>1. PICK g \in old : g \in with /\ g.rid = i
        BY <3>2
      <4>2. g \in kept
        BY <2>2, <3>2, <4>1
      <4> QED BY <4>1, <4>2
    <3>3. ASSUME NEW i \in Ids, NEW g \in kept \cup new, g \in with, g.rid = i PROVE row = i
      BY <1>2, <3>3
    <3> QED BY <3>1, <3>2, <3>3
  <2> QED BY <2>1, <2>2
<1> QED BY <1>1, <1>2

\* A stored request that keeps its join keys is still merged the same way.
LEMMA KeptMerge ==
  ASSUME LedgerInv, NEW bad, StoredCollisions \subseteq bad, NEW g \in requests,
         HintsOf(g.members) \cap bad \subseteq StoredCollisions
  PROVE  Merged(g.members, bad) = {g}
<1> DEFINE G == g.members
<1>1. G \in GroupsOf(Stored, StoredCollisions) /\ g = MergedGroup(G)
  BY MergedFacts DEF LedgerInv
<1> HIDE DEF G
<1>2. GroupsOf(G, StoredCollisions) = {G}
  BY <1>1, GroupAlone
<1>3. ASSUME NEW c \in G PROVE join_keys(c, bad) = join_keys(c, StoredCollisions)
  <2>1. request_hints(c) \subseteq HintsOf(G)
    BY DEF HintsOf
  <2>2. request_hints(c) \ bad = request_hints(c) \ StoredCollisions
    BY <2>1 DEF G
  <2> QED BY <2>2 DEF join_keys
<1>4. GroupsOf(G, bad) = {G}
  BY <1>2, <1>3, GroupsOfSameKeys
<1> QED BY <1>1, <1>4 DEF Merged, G

\* The requests and the provider ids they are stored under.
LEMMA StoredFacts ==
  ASSUME LedgerInv, NEW g \in requests
  PROVE  /\ g.members \subseteq Stored /\ g.members # {} /\ g.members \in SUBSET Contributions
         /\ g.rid \in Ids /\ \E c \in g.members : g.rid = c.id
<1>1. /\ g.members # {} /\ g.members \subseteq Stored
      /\ \E c \in g.members : g.rid = c.id
  BY MergedFacts DEF LedgerInv
<1>2. Stored \subseteq Contributions
  BY DEF LedgerInv
<1> QED BY <1>1, <1>2 DEF Ids

\* What remains, S, falls into the members of the requests kept, whose join keys are
\* still the same, and the pieces that are merged again.
Split(S, bad, kept, Pieces) ==
  /\ S \subseteq Contributions /\ StoredCollisions \subseteq bad /\ kept \subseteq requests
  /\ S = (UNION {g.members : g \in kept}) \cup (UNION Pieces)
  /\ \A P \in Pieces : Piece(P, S, bad)
  /\ \A g \in kept : /\ Piece(g.members, S, bad)
                     /\ HintsOf(g.members) \cap bad \subseteq StoredCollisions

\* Stored and rewritten requests together are the merge of what remains.
LEMMA SplitMerge ==
  ASSUME LedgerInv, NEW S, NEW bad, NEW kept, NEW Pieces, Split(S, bad, kept, Pieces)
  PROVE  Merged(S, bad) = kept \cup (UNION {Merged(P, bad) : P \in Pieces})
<1>0. /\ StoredCollisions \subseteq bad /\ kept \subseteq requests
      /\ S = (UNION {g.members : g \in kept}) \cup (UNION Pieces)
      /\ \A P \in Pieces : Piece(P, S, bad)
      /\ \A g \in kept : /\ Piece(g.members, S, bad)
                         /\ HintsOf(g.members) \cap bad \subseteq StoredCollisions
  BY DEF Split
<1> DEFINE All == {g.members : g \in kept} \cup Pieces
<1>1. S = UNION All /\ \A P \in All : Piece(P, S, bad)
  BY <1>0
<1>2. GroupsOf(S, bad) = UNION {GroupsOf(P, bad) : P \in All}
  <2> HIDE DEF All
  <2> QED BY <1>1, GroupsSplit
<1>3. \A g \in kept : Merged(g.members, bad) = {g}
  BY <1>0, KeptMerge
<1>4. Merged(S, bad) = UNION {Merged(P, bad) : P \in All}
  <2> HIDE DEF All
  <2>1. ASSUME NEW x \in Merged(S, bad) PROVE x \in UNION {Merged(P, bad) : P \in All}
    <3>1. PICK C \in GroupsOf(S, bad) : x = MergedGroup(C)
      BY DEF Merged
    <3>2. PICK P \in All : C \in GroupsOf(P, bad)
      BY <1>2
    <3>3. x \in Merged(P, bad)
      BY <3>1, <3>2 DEF Merged
    <3> QED BY <3>3
  <2>2. ASSUME NEW P \in All, NEW x \in Merged(P, bad) PROVE x \in Merged(S, bad)
    <3>1. PICK C \in GroupsOf(P, bad) : x = MergedGroup(C)
      BY DEF Merged
    <3>2. C \in GroupsOf(S, bad)
      BY <1>2
    <3> QED BY <3>1, <3>2 DEF Merged
  <2> QED BY <2>1, <2>2
<1>5. UNION {Merged(P, bad) : P \in All}
        = (UNION {Merged(g.members, bad) : g \in kept}) \cup (UNION {Merged(P, bad) : P \in Pieces})
  OBVIOUS
<1>6. UNION {Merged(g.members, bad) : g \in kept} = kept
  BY <1>3
<1> QED BY <1>4, <1>5, <1>6

\* A rewrite that takes and brings what Split says, with the collisions bad recorded.
Fits(gone, gids, new, rix, S, bad, kept) ==
  /\ rix \in [Hints -> Ids \cup {NoRow, Collision}]
  /\ bad = {h \in Hints : rix[h] = Collision} /\ StoredCollisions \subseteq bad
  /\ \A h \in Hints \ bad : rix[h] = request_index[h]
  /\ kept = {g \in requests : g.rid \notin gone \cup gids}
  /\ \E Pieces : Split(S, bad, kept, Pieces) /\ new = UNION {Merged(P, bad) : P \in Pieces}

\* delete_groups and write_group leave the merge of what remains, and indexes that
\* say where it is.
LEMMA RewriteIsMerge ==
  ASSUME LedgerInv, NEW gone, NEW gids, NEW new, NEW rix, NEW S, NEW bad, NEW kept,
         Fits(gone, gids, new, rix, S, bad, kept), Rewrite(gone, gids, new, rix)
  PROVE  /\ requests' = Merged(S, bad) /\ Stored' = S /\ StoredCollisions' = bad
         /\ message_index' \in [Messages -> Ids \cup {NoRow}]
         /\ request_index' \in [Hints -> Ids \cup {NoRow, Collision}]
         /\ IndexesExact'
<1>0. S \in SUBSET Contributions
  BY DEF Fits, Split
<1>1. Merged(S, bad) = kept \cup new
  <2>1. PICK Pieces : Split(S, bad, kept, Pieces) /\ new = UNION {Merged(P, bad) : P \in Pieces}
    BY DEF Fits
  <2>2. Merged(S, bad) = kept \cup (UNION {Merged(P, bad) : P \in Pieces})
    BY <2>1, SplitMerge
  <2> QED BY <2>1, <2>2
<1>2. requests' = kept \cup new
  BY DEF Rewrite, Fits
<1>3. Stored' = S
  <2>1. UNION {g.members : g \in Merged(S, bad)} = S
    BY <1>0, MergedCovers
  <2> QED BY <1>1, <1>2, <2>1 DEF Stored
<1>4. \A g \in requests \cup new : g.rid \in Ids
  <2>1. ASSUME NEW g \in new PROVE g.rid \in Ids
    <3>1. g \in Merged(S, bad)
      BY <1>1
    <3>2. g.members \subseteq S /\ \E c \in g.members : g.rid = c.id
      BY <1>0, <3>1, MergedFacts
    <3> QED BY <1>0, <3>2 DEF Ids
  <2> QED BY <2>1, StoredFacts
<1>5. ASSUME NEW m \in Messages
      PROVE  /\ message_index'[m] \in Ids \cup {NoRow}
             /\ \A i \in Ids : message_index'[m] = i <=>
                  \E g \in kept \cup new : g.rid = i /\ m \in MessagesOf(g.members)
  <2> DEFINE with == {g \in requests \cup new : m \in MessagesOf(g.members)}
             row == message_index[m]
             row2 == message_index'[m]
             member == m \in MessagesOf(MembersOf(gids))
  <2>1. row2 = IF m \in UNION {MessagesOf(g.members) : g \in new} THEN RidWithMessage(m, new)
               ELSE IF row \in gone \/ (row \in gids /\ member) THEN NoRow ELSE row
    BY DEF Rewrite
  <2>2. (\E g \in new : g \in with) => \E g \in new : g \in with /\ row2 = g.rid
    <3> SUFFICES ASSUME \E g \in new : g \in with PROVE \E g \in new : g \in with /\ row2 = g.rid
      OBVIOUS
    <3>1. row2 = RidWithMessage(m, new)
      BY <2>1
    <3> QED BY <3>1 DEF RidWithMessage
  <2>3. (\A g \in new : g \notin with) =>
           row2 = IF row \in gone \/ (row \in gids /\ member) THEN NoRow ELSE row
    BY <2>1
  <2>4. \A i \in Ids : row = i <=> \E g \in requests : g \in with /\ g.rid = i
    BY DEF LedgerInv, IndexesExact
  <2>5. \A g, h \in kept \cup new : g \in with /\ h \in with => g = h
    <3> SUFFICES ASSUME NEW g \in Merged(S, bad), NEW h \in Merged(S, bad), g # h
                 PROVE  MessagesOf(g.members) \cap MessagesOf(h.members) = {}
      BY <1>1
    <3> QED BY <1>0, MergedApart
  <2>6. \A g \in requests : g \in with /\ g.rid \in gids => member
    BY DEF MembersOf, MessagesOf
  <2>7. row \in Ids \cup {NoRow}
    BY DEF LedgerInv
  <2>8. member \in BOOLEAN
    OBVIOUS
  <2>9. \A g \in kept \cup new : g \in with <=> m \in MessagesOf(g.members)
    BY DEF Fits
  <2> HIDE DEF with, row, row2, member
  <2>10. \A i \in Ids : row2 = i <=> \E g \in kept \cup new : g \in with /\ g.rid = i
    <3>1. RowStep(requests, new, kept, with, gone, gids, row, row2, member)
      BY <1>4, <2>2, <2>3, <2>4, <2>5, <2>6 DEF RowStep, Fits
    <3> QED BY <2>8, <3>1, RowRewritten
  <2>11. row2 \in Ids \cup {NoRow}
    BY <1>4, <2>2, <2>3, <2>7
  <2> QED BY <2>9, <2>10, <2>11 DEF row2
<1>6. ASSUME NEW h \in Hints \ bad
      PROVE  /\ request_index'[h] \in Ids \cup {NoRow}
             /\ \A i \in Ids : request_index'[h] = i <=>
                  \E g \in kept \cup new : g.rid = i /\ h \in HintsOf(g.members)
  <2> DEFINE with == {g \in requests \cup new : h \in HintsOf(g.members)}
             row == request_index[h]
             row2 == request_index'[h]
             member == h \in HintsOf(MembersOf(gids))
  <2>0. rix[h] = row /\ rix[h] # Collision /\ h \notin StoredCollisions
    BY DEF Fits
  <2>1. row2 = IF h \in UNION {HintsOf(g.members) : g \in new} THEN RidWithHint(h, new)
               ELSE IF row \in gone \/ (row \in gids /\ member) THEN NoRow ELSE row
    BY <2>0 DEF Rewrite
  <2>2. (\E g \in new : g \in with) => \E g \in new : g \in with /\ row2 = g.rid
    <3> SUFFICES ASSUME \E g \in new : g \in with PROVE \E g \in new : g \in with /\ row2 = g.rid
      OBVIOUS
    <3>1. row2 = RidWithHint(h, new)
      BY <2>1
    <3> QED BY <3>1 DEF RidWithHint
  <2>3. (\A g \in new : g \notin with) =>
           row2 = IF row \in gone \/ (row \in gids /\ member) THEN NoRow ELSE row
    BY <2>1
  <2>4. \A i \in Ids : row = i <=> \E g \in requests : g \in with /\ g.rid = i
    BY <2>0 DEF LedgerInv, IndexesExact
  <2>5. \A f, g \in kept \cup new : f \in with /\ g \in with => f = g
    <3> SUFFICES ASSUME NEW f \in Merged(S, bad), NEW g \in Merged(S, bad), f # g
                 PROVE  HintsOf(f.members) \cap HintsOf(g.members) \subseteq bad
      BY <1>1
    <3> QED BY <1>0, MergedApart
  <2>6. \A g \in requests : g \in with /\ g.rid \in gids => member
    BY DEF MembersOf, HintsOf
  <2>7. row \in Ids \cup {NoRow}
    BY <2>0 DEF LedgerInv
  <2>8. member \in BOOLEAN
    OBVIOUS
  <2>9. \A g \in kept \cup new : g \in with <=> h \in HintsOf(g.members)
    BY DEF Fits
  <2> HIDE DEF with, row, row2, member
  <2>10. \A i \in Ids : row2 = i <=> \E g \in kept \cup new : g \in with /\ g.rid = i
    <3>1. RowStep(requests, new, kept, with, gone, gids, row, row2, member)
      BY <1>4, <2>2, <2>3, <2>4, <2>5, <2>6 DEF RowStep, Fits
    <3> QED BY <2>8, <3>1, RowRewritten
  <2>11. row2 \in Ids \cup {NoRow}
    BY <1>4, <2>2, <2>3, <2>7
  <2> QED BY <2>9, <2>10, <2>11 DEF row2
<1>7. bad \subseteq Hints /\ \A h \in bad : request_index'[h] = Collision
  BY DEF Rewrite, Fits
<1>8. DOMAIN message_index' = Messages /\ DOMAIN request_index' = Hints
      /\ message_index' = [m \in Messages |-> message_index'[m]]
      /\ request_index' = [h \in Hints |-> request_index'[h]]
  BY DEF Rewrite
<1>9. message_index' \in [Messages -> Ids \cup {NoRow}]
  BY <1>5, <1>8
<1>10. request_index' \in [Hints -> Ids \cup {NoRow, Collision}]
  BY <1>6, <1>7, <1>8
<1>11. StoredCollisions' = bad
  BY <1>6, <1>7, NotIds DEF StoredCollisions
<1>12. IndexesExact'
  <2>1. \A m \in Messages, i \in Ids : message_index'[m] = i <=>
           \E g \in requests' : g.rid = i /\ m \in MessagesOf(g.members)
    BY <1>2, <1>5
  <2>2. \A h \in Hints \ bad, i \in Ids : request_index'[h] = i <=>
           \E g \in requests' : g.rid = i /\ h \in HintsOf(g.members)
    BY <1>2, <1>6
  <2> QED BY <1>11, <2>1, <2>2 DEF IndexesExact
<1> QED BY <1>1, <1>2, <1>3, <1>9, <1>10, <1>11, <1>12

-----------------------------------------------------------------------------
(* merge_chunk *)

Newly(cs) == NewCollisions(cs)
Rix(cs) == [h \in Hints |-> IF h \in Newly(cs) THEN Collision ELSE request_index[h]]
Bad(cs) == {h \in Hints : Rix(cs)[h] = Collision}
Reach(c, cs) == UNION {Reached(k, Rix(cs)) : k \in join_keys(c, Bad(cs))}
ReachedGroups(cs) ==
  {g \in requests : g.rid \in Affected(Newly(cs)) \cup UNION {Reach(c, cs) : c \in cs}}
ChunkKeys(cs) ==
  [x \in cs \cup ReachedGroups(cs) |->
     IF x \in ReachedGroups(cs) THEN {<<"gid", x.rid>>}
     ELSE join_keys(x, Bad(cs)) \cup {<<"gid", i>> : i \in Reach(x, cs)}]
Comp(K, cs) == [incoming |-> K \cap cs, gids |-> {g.rid : g \in K \cap ReachedGroups(cs)}]
Comps(cs) == {Comp(K, cs) : K \in Classes(ChunkKeys(cs))}
Todo(cs) == {k \in Comps(cs) : Changed(k, Affected(Newly(cs)))}
Whole(k) == k.incoming \cup MembersOf(k.gids)
Rewritten(cs) == UNION {k.gids : k \in Todo(cs)}

LEMMA ChunkUnfold ==
  ASSUME NEW cs, merge_chunk(cs)
  PROVE  Rewrite({}, Rewritten(cs),
                 UNION {MergeContributions(Whole(k), Bad(cs)) : k \in Todo(cs)}, Rix(cs))
BY DEF merge_chunk, ChunkComponents, Rewritten, Todo, Comps, Comp, ChunkKeys, ReachedGroups,
       Reach, Bad, Rix, Newly, Whole

\* The stored request a row of the request index names.
LEMMA RowGroup ==
  ASSUME LedgerInv, NEW h \in Hints, h \notin StoredCollisions, NEW g \in requests,
         h \in HintsOf(g.members)
  PROVE  request_index[h] = g.rid /\ IsRow(h) /\ MembersOf({request_index[h]}) = g.members
<1>1. g.rid \in Ids
  BY StoredFacts
<1>2. request_index[h] = g.rid
  BY <1>1 DEF LedgerInv, IndexesExact
<1>3. ASSUME NEW f \in requests, f.rid = g.rid PROVE f = g
  BY <1>3, MergedApart DEF LedgerInv
<1>4. MembersOf({g.rid}) = g.members
  BY <1>3 DEF MembersOf
<1> QED BY <1>1, <1>2, <1>4, NotIds DEF IsRow

LEMMA SeenUnion ==
  ASSUME NEW h, NEW S, NEW T
  PROVE  SeenWith(h, S \cup T) = SeenWith(h, S) \cup SeenWith(h, T)
BY DEF SeenWith

LEMMA SeenHint ==
  ASSUME NEW h, NEW S, SeenWith(h, S) # {}
  PROVE  h \in HintsOf(S)
<1>1. PICK m \in Messages, c \in S : <<h, m>> \in hint_pairs(c)
  BY DEF SeenWith
<1>2. h \in request_hints(c)
  BY <1>1 DEF hint_pairs, request_hints
<1> QED BY <1>2 DEF HintsOf

\* The rows of the index are enough to see every message a hint is stored with.
LEMMA SeenIsAll ==
  ASSUME LedgerInv, NEW cs, NEW h \in Hints, h \notin StoredCollisions
  PROVE  Seen(h, cs) = SeenWith(h, Stored \cup cs)
<1>1. Stored = UNION {g.members : g \in requests}
  BY DEF Stored
<1>2. CASE \E g \in requests : h \in HintsOf(g.members)
  <2>1. PICK g \in requests : h \in HintsOf(g.members)
    BY <1>2
  <2>2. IsRow(h) /\ MembersOf({request_index[h]}) = g.members
    BY <2>1, RowGroup
  <2>3. ASSUME NEW c \in Stored, NEW m, <<h, m>> \in hint_pairs(c) PROVE c \in g.members
    <3>1. PICK f \in requests : c \in f.members
      BY <1>1
    <3>2. h \in HintsOf(f.members)
      BY <2>3, <3>1 DEF HintsOf, hint_pairs, request_hints
    <3>3. MembersOf({request_index[h]}) = f.members
      BY <3>2, RowGroup
    <3> QED BY <2>2, <3>1, <3>3
  <2>4. g.members \subseteq Stored
    BY <1>1
  <2>5. SeenWith(h, Stored) = SeenWith(h, g.members)
    BY <2>3, <2>4 DEF SeenWith
  <2>6. Seen(h, cs) = SeenWith(h, cs) \cup SeenWith(h, g.members)
    BY <2>2 DEF Seen
  <2> QED BY <2>5, <2>6, SeenUnion
<1>3. CASE ~\E g \in requests : h \in HintsOf(g.members)
  <2>1. ~IsRow(h)
    BY <1>3 DEF LedgerInv, IsRow, IndexesExact
  <2>2. SeenWith(h, Stored) = {}
    <3> SUFFICES ASSUME SeenWith(h, Stored) # {} PROVE FALSE
      OBVIOUS
    <3>1. h \in HintsOf(Stored)
      BY SeenHint
    <3>2. PICK c \in Stored : h \in request_hints(c)
      BY <3>1 DEF HintsOf
    <3>3. PICK g \in requests : c \in g.members
      BY <1>1
    <3> QED BY <1>3, <3>2, <3>3 DEF HintsOf
  <2>3. Seen(h, cs) = SeenWith(h, cs)
    BY <2>1 DEF Seen
  <2> QED BY <2>2, <2>3, SeenUnion
<1> QED BY <1>2, <1>3

\* More than one element.
LEMMA TwoElements ==
  ASSUME NEW S, IsFiniteSet(S)
  PROVE  Cardinality(S) > 1 <=> \E x, y \in S : x # y
<1>1. Cardinality(S) \in Nat
  BY FS_CardinalityType
<1>2. ASSUME NEW x \in S, NEW y \in S, x # y PROVE Cardinality(S) > 1
  <2>1. IsFiniteSet(S \ {x}) /\ Cardinality(S \ {x}) = Cardinality(S) - 1
    BY FS_RemoveElement
  <2>2. S \ {x} # {}
    BY <1>2
  <2>3. Cardinality(S \ {x}) # 0 /\ Cardinality(S \ {x}) \in Nat
    BY <2>1, <2>2, FS_EmptySet, FS_CardinalityType
  <2> QED BY <1>1, <2>1, <2>3
<1>3. ASSUME \A x, y \in S : x = y PROVE ~(Cardinality(S) > 1)
  <2>1. CASE S = {}
    BY <2>1, FS_EmptySet
  <2>2. CASE S # {}
    <3>1. PICK x \in S : TRUE
      BY <2>2
    <3>2. S = {x}
      BY <1>3
    <3>3. Cardinality(S) = 1
      BY <3>2, FS_Singleton
    <3> QED BY <3>3
  <2> QED BY <2>1, <2>2
<1> QED BY <1>2, <1>3

\* The collisions recorded for a chunk are those of everything then stored.
LEMMA ChunkCollisions ==
  ASSUME LedgerInv, NEW cs \in SUBSET Contributions
  PROVE  /\ Bad(cs) = StoredCollisions \cup Newly(cs)
         /\ Bad(cs) = StoredCollisions \cup Collided(Stored \cup cs)
<1>0. HintsOf(cs) \subseteq Hints
  BY ProviderIds
<1>1. Newly(cs) \subseteq Hints
  BY <1>0 DEF Newly, NewCollisions
<1>2. Bad(cs) = StoredCollisions \cup Newly(cs)
  BY <1>1 DEF Bad, Rix, StoredCollisions
<1>3. ASSUME NEW h \in Hints, h \notin StoredCollisions
      PROVE  h \in Newly(cs) <=> h \in Collided(Stored \cup cs)
  <2>1. Seen(h, cs) = SeenWith(h, Stored \cup cs)
    BY <1>3, SeenIsAll
  <2>2. IsFiniteSet(Seen(h, cs))
    <3>1. Seen(h, cs) \subseteq Messages /\ IsFiniteSet(Messages)
      BY <2>1, ContributionsAssumption DEF SeenWith
    <3> QED BY <3>1, FS_Subset
  <2>3. Cardinality(Seen(h, cs)) > 1 <=> h \in Collided(Stored \cup cs)
    BY <2>1, <2>2, TwoElements DEF Collided
  <2>4. h \in Collided(Stored \cup cs) => SeenWith(h, cs) # {}
    <3> SUFFICES ASSUME SeenWith(h, cs) = {}, h \in Collided(Stored \cup cs) PROVE FALSE
      OBVIOUS
    <3>1. SeenWith(h, Stored \cup cs) = SeenWith(h, Stored)
      BY SeenUnion
    <3>2. h \in Collided(Stored)
      BY <3>1 DEF Collided
    <3> QED BY <1>3, <3>2 DEF LedgerInv
  <2>5. SeenWith(h, cs) # {} => h \in HintsOf(cs)
    BY SeenHint
  <2>6. request_index[h] # Collision
    BY <1>3 DEF StoredCollisions
  <2> QED BY <2>3, <2>4, <2>5, <2>6 DEF Newly, NewCollisions
<1>4. Collided(Stored \cup cs) \subseteq Hints
  BY DEF Collided
<1> QED BY <1>1, <1>2, <1>3, <1>4

\* Stored contributions that share a join key are in one request.
LEMMA SameRequest ==
  ASSUME LedgerInv, NEW bad, StoredCollisions \subseteq bad, NEW g \in requests,
         NEW c \in g.members, NEW d \in Stored, ~Apart(c, d, bad) \/ ~Apart(d, c, bad)
  PROVE  d \in g.members
<1>1. PICK f \in requests : d \in f.members
  BY DEF Stored
<1>2. join_keys(c, bad) \subseteq join_keys(c, StoredCollisions)
      /\ join_keys(d, bad) \subseteq join_keys(d, StoredCollisions)
  BY DEF join_keys
<1>3. ~Apart(c, d, StoredCollisions)
  BY <1>2 DEF Apart
<1>4. f = g
  BY <1>1, <1>3, MergedApart DEF LedgerInv
<1> QED BY <1>1, <1>4

\* An incoming contribution reaches the stored request it shares a join key with.
LEMMA KeyReaches ==
  ASSUME LedgerInv, NEW cs \in SUBSET Contributions, NEW c \in cs, NEW g \in requests,
         NEW d \in g.members, ~Apart(c, d, Bad(cs)) \/ ~Apart(d, c, Bad(cs))
  PROVE  g.rid \in Reach(c, cs)
<1> DEFINE bad == Bad(cs)  rix == Rix(cs)
<1>0. StoredCollisions \subseteq bad /\ bad = {h \in Hints : rix[h] = Collision}
      /\ \A h \in Hints \ bad : rix[h] = request_index[h]
  BY ChunkCollisions DEF Bad, Rix
<1>00. g.rid \in Ids /\ g.members \in SUBSET Contributions
  BY StoredFacts
<1>000. g.rid # NoRow /\ g.rid # Collision
  BY <1>00, NotIds
<1>1. PICK key : key \in join_keys(c, bad) /\ key \in join_keys(d, bad)
  BY DEF Apart
<1> SUFFICES g.rid \in Reached(key, rix)
  BY <1>1 DEF Reach
<1>2. CASE key = <<"id", d.id>>
  <2>1. d.id \in {x.id : x \in g.members}
    OBVIOUS
  <2>2. key[1] = "id" /\ key[2] = d.id
    BY <1>2
  <2> QED BY <2>1, <2>2 DEF Reached
<1>3. CASE \E m \in message_ids(d) : key = <<"msg", m>>
  <2>1. PICK m \in message_ids(d) : key = <<"msg", m>>
    BY <1>3
  <2>2. m \in MessagesOf(g.members)
    BY DEF MessagesOf
  <2>3. m \in Messages
    BY <1>00, <2>2, ProviderIds
  <2>4. message_index[m] = g.rid
    BY <1>00, <2>2, <2>3 DEF LedgerInv, IndexesExact
  <2>5. key[1] = "msg" /\ key[2] = m
    BY <2>1
  <2>6. Reached(key, rix) = {message_index[m]} \ {NoRow}
    BY <2>5 DEF Reached
  <2> QED BY <1>000, <2>4, <2>6
<1>4. CASE \E h \in request_hints(d) \ bad : key = <<"rq", h>>
  <2>1. PICK h \in request_hints(d) \ bad : key = <<"rq", h>>
    BY <1>4
  <2>2. h \in HintsOf(g.members)
    BY DEF HintsOf
  <2>3. h \in Hints
    BY <1>00, <2>2, ProviderIds
  <2>4. rix[h] = request_index[h] /\ h \notin StoredCollisions
    BY <1>0, <2>3
  <2>5. request_index[h] = g.rid
    BY <2>2, <2>3, <2>4, RowGroup
  <2>6. key[1] = "rq" /\ key[2] = h
    BY <2>1
  <2>7. Reached(key, rix) = {rix[h]} \ {NoRow, Collision}
    BY <2>6 DEF Reached
  <2> QED BY <1>000, <2>4, <2>5, <2>7
<1> QED BY <1>1, <1>2, <1>3, <1>4 DEF join_keys

\* A contribution is no merged request.
LEMMA NoContributionIsGroup ==
  ASSUME LedgerInv, NEW c \in Contributions
  PROVE  c \notin requests
<1>1. ASSUME c \in requests PROVE FALSE
  <2>1. c = MergedGroup(c.members)
    BY <1>1, MergedFacts DEF LedgerInv
  <2>2. DOMAIN c = {"rid", "members", "winner", "principal", "start"}
    BY <2>1 DEF MergedGroup
  <2>3. "canon" \in DOMAIN c
    BY ContributionsAssumption
  <2> QED BY <2>2, <2>3
<1> QED BY <1>1

LEMMA ChunkKeysOf ==
  ASSUME LedgerInv, NEW cs \in SUBSET Contributions
  PROVE  /\ DOMAIN ChunkKeys(cs) = cs \cup ReachedGroups(cs)
         /\ \A c \in cs : ChunkKeys(cs)[c] = join_keys(c, Bad(cs)) \cup {<<"gid", i>> : i \in Reach(c, cs)}
         /\ \A g \in ReachedGroups(cs) : ChunkKeys(cs)[g] = {<<"gid", g.rid>>}
<1>1. \A c \in cs : c \notin ReachedGroups(cs)
  BY NoContributionIsGroup DEF ReachedGroups
<1> QED BY <1>1 DEF ChunkKeys

\* A node that shares a key with a node of a class is in the class.
LEMMA ClassJoins ==
  ASSUME NEW keys, NEW K \in Classes(keys), NEW x \in K, NEW y \in DOMAIN keys,
         keys[x] \cap keys[y] # {}
  PROVE  y \in K
BY DEF Classes, Closed

\* An incoming contribution and a stored request with a common join key are in one class.
LEMMA InSameClass ==
  ASSUME LedgerInv, NEW cs \in SUBSET Contributions, NEW c \in cs, NEW g \in requests,
         NEW d \in g.members, ~Apart(c, d, Bad(cs)) \/ ~Apart(d, c, Bad(cs)),
         NEW K \in Classes(ChunkKeys(cs))
  PROVE  g \in ReachedGroups(cs) /\ (c \in K <=> g \in K)
<1>1. g.rid \in Reach(c, cs)
  BY KeyReaches
<1>2. g \in ReachedGroups(cs)
  BY <1>1 DEF ReachedGroups
<1>3. <<"gid", g.rid>> \in ChunkKeys(cs)[c] \cap ChunkKeys(cs)[g]
  <2>1. ChunkKeys(cs)[c] = join_keys(c, Bad(cs)) \cup {<<"gid", i>> : i \in Reach(c, cs)}
    BY ChunkKeysOf
  <2>2. ChunkKeys(cs)[g] = {<<"gid", g.rid>>}
    BY <1>2, ChunkKeysOf
  <2> QED BY <1>1, <2>1, <2>2
<1>4. c \in DOMAIN ChunkKeys(cs) /\ g \in DOMAIN ChunkKeys(cs)
  BY <1>2, ChunkKeysOf
<1>5. c \in K => g \in K
  BY <1>3, <1>4, ClassJoins
<1>6. g \in K => c \in K
  BY <1>3, <1>4, ClassJoins
<1> QED BY <1>2, <1>5, <1>6

\* Groups with the same id are the same.
LEMMA GroupOfRid ==
  ASSUME LedgerInv, NEW f \in requests, NEW g \in requests, f.rid = g.rid
  PROVE  f = g
BY MergedApart DEF LedgerInv

\* The stored requests of a component.
LEMMA CompGroups ==
  ASSUME LedgerInv, NEW cs, NEW K, NEW g \in requests
  PROVE  g.rid \in Comp(K, cs).gids <=> g \in K /\ g \in ReachedGroups(cs)
<1>1. Comp(K, cs).gids = {f.rid : f \in K \cap ReachedGroups(cs)}
  BY DEF Comp
<1>2. ReachedGroups(cs) \subseteq requests
  BY DEF ReachedGroups
<1> QED BY <1>1, <1>2, GroupOfRid

LEMMA CompMembers ==
  ASSUME LedgerInv, NEW cs, NEW K, NEW d
  PROVE  d \in MembersOf(Comp(K, cs).gids) <=>
           \E g \in requests : g \in K /\ g \in ReachedGroups(cs) /\ d \in g.members
BY CompGroups DEF MembersOf

\* A component shares no join key with the rest of the chunk or of the ledger.
LEMMA CompIsPiece ==
  ASSUME LedgerInv, NEW cs \in SUBSET Contributions, NEW K \in Classes(ChunkKeys(cs))
  PROVE  Piece(Whole(Comp(K, cs)), Stored \cup cs, Bad(cs))
<1> DEFINE W == Whole(Comp(K, cs))
           B == Bad(cs)
<1>0. StoredCollisions \subseteq B
  BY ChunkCollisions
<1>1. \A d : d \in W <=> \/ d \in K /\ d \in cs
                         \/ \E g \in requests : g \in K /\ g \in ReachedGroups(cs) /\ d \in g.members
  BY CompMembers DEF Whole, Comp
<1> HIDE DEF W, B
<1>2. W \subseteq Stored \cup cs
  BY <1>1 DEF Stored
<1>3. ASSUME NEW c \in W, NEW d \in Stored \cup cs, ~Apart(c, d, B) PROVE d \in W
  <2>1. CASE c \in K /\ c \in cs
    <3>1. CASE d \in cs
      <4>1. ChunkKeys(cs)[c] \cap ChunkKeys(cs)[d] # {}
        <5>1. join_keys(c, B) \subseteq ChunkKeys(cs)[c] /\ join_keys(d, B) \subseteq ChunkKeys(cs)[d]
          BY <2>1, <3>1, ChunkKeysOf DEF B
        <5> QED BY <1>3, <5>1 DEF Apart
      <4>2. d \in DOMAIN ChunkKeys(cs)
        BY <3>1, ChunkKeysOf
      <4>3. d \in K
        BY <2>1, <4>1, <4>2, ClassJoins
      <4> QED BY <1>1, <3>1, <4>3
    <3>2. CASE d \in Stored
      <4>1. PICK g \in requests : d \in g.members
        BY <3>2 DEF Stored
      <4>2. g \in ReachedGroups(cs) /\ g \in K
        BY <1>3, <2>1, <4>1, InSameClass DEF B
      <4> QED BY <1>1, <4>1, <4>2
    <3> QED BY <3>1, <3>2
  <2>2. CASE \E g \in requests : g \in K /\ g \in ReachedGroups(cs) /\ c \in g.members
    <3>1. PICK g \in requests : g \in K /\ g \in ReachedGroups(cs) /\ c \in g.members
      BY <2>2
    <3>2. CASE d \in cs
      <4>1. d \in K
        BY <1>3, <3>1, <3>2, InSameClass DEF B
      <4> QED BY <1>1, <3>2, <4>1
    <3>3. CASE d \in Stored
      <4>1. d \in g.members
        BY <1>0, <1>3, <3>1, <3>3, SameRequest
      <4> QED BY <1>1, <3>1, <4>1
    <3> QED BY <3>2, <3>3
  <2> QED BY <1>1, <2>1, <2>2
<1> QED BY <1>2, <1>3 DEF Piece, W, B

\* Every contribution of the chunk and every reached request is in a component.
LEMMA CompOf ==
  ASSUME LedgerInv, NEW cs \in SUBSET Contributions, NEW x \in cs \cup ReachedGroups(cs)
  PROVE  \E K \in Classes(ChunkKeys(cs)) : x \in K
<1>1. x \in DOMAIN ChunkKeys(cs)
  BY ChunkKeysOf
<1> QED BY <1>1, ClassesCover

\* A component that is left alone brings nothing that is not stored, and lost no key.
LEMMA LeftAlone ==
  ASSUME LedgerInv, NEW cs \in SUBSET Contributions, NEW K \in Classes(ChunkKeys(cs)),
         Comp(K, cs) \notin Todo(cs)
  PROVE  /\ K \cap cs \subseteq Stored
         /\ \A g \in K \cap ReachedGroups(cs) : g.rid \notin Affected(Newly(cs))
<1> DEFINE k == Comp(K, cs)
<1>1. ~Changed(k, Affected(Newly(cs)))
  BY DEF Todo, Comps
<1>2. k.incoming = K \cap cs /\ k.gids = {g.rid : g \in K \cap ReachedGroups(cs)}
  BY DEF Comp
<1> HIDE DEF k
<1>3. k.incoming \subseteq MembersOf(k.gids) /\ k.gids \cap Affected(Newly(cs)) = {}
  BY <1>1 DEF Changed
<1>4. MembersOf(k.gids) \subseteq Stored
  BY DEF MembersOf, Stored
<1> QED BY <1>2, <1>3, <1>4

\* A stored request that no changed component holds keeps its members and its keys.
LEMMA KeptIsPiece ==
  ASSUME LedgerInv, NEW cs \in SUBSET Contributions, NEW g \in requests,
         g.rid \notin Rewritten(cs)
  PROVE  /\ Piece(g.members, Stored \cup cs, Bad(cs))
         /\ HintsOf(g.members) \cap Bad(cs) \subseteq StoredCollisions
<1>0. StoredCollisions \subseteq Bad(cs) /\ g.members \subseteq Stored
      /\ Bad(cs) = StoredCollisions \cup Newly(cs)
  BY ChunkCollisions, StoredFacts
<1>1. ASSUME NEW K \in Classes(ChunkKeys(cs)), g \in K, g \in ReachedGroups(cs)
      PROVE  Comp(K, cs) \notin Todo(cs)
  <2>1. g.rid \in Comp(K, cs).gids
    BY <1>1, CompGroups
  <2> QED BY <2>1 DEF Rewritten
<1>2. ASSUME NEW c \in g.members, NEW d \in Stored \cup cs, ~Apart(c, d, Bad(cs))
      PROVE  d \in g.members
  <2>1. CASE d \in Stored
    BY <1>0, <1>2, <2>1, SameRequest
  <2>2. CASE d \in cs
    <3>1. PICK K \in Classes(ChunkKeys(cs)) : d \in K
      BY <2>2, CompOf
    <3>2. g \in ReachedGroups(cs) /\ g \in K
      BY <1>2, <2>2, <3>1, InSameClass
    <3>3. d \in Stored
      BY <1>1, <2>2, <3>1, <3>2, LeftAlone
    <3> QED BY <2>1, <3>3
  <2> QED BY <2>1, <2>2
<1>3. ASSUME NEW h \in HintsOf(g.members), h \in Newly(cs), h \notin StoredCollisions PROVE FALSE
  <2>1. h \in Hints
    BY StoredFacts, ProviderIds
  <2>2. request_index[h] = g.rid /\ IsRow(h)
    BY <1>3, <2>1, RowGroup
  <2>3. g.rid \in Affected(Newly(cs))
    BY <1>3, <2>2 DEF Affected
  <2>4. g \in ReachedGroups(cs)
    BY <2>3 DEF ReachedGroups
  <2>5. PICK K \in Classes(ChunkKeys(cs)) : g \in K
    BY <2>4, CompOf
  <2> QED BY <1>1, <2>3, <2>4, <2>5, LeftAlone
<1>4. Piece(g.members, Stored \cup cs, Bad(cs))
  BY <1>0, <1>2 DEF Piece
<1> QED BY <1>0, <1>3, <1>4

LEMMA CollidedGrows ==
  ASSUME NEW S, NEW T, S \subseteq T
  PROVE  Collided(S) \subseteq Collided(T)
<1>1. \A h : SeenWith(h, S) \subseteq SeenWith(h, T)
  BY DEF SeenWith
<1> QED BY <1>1 DEF Collided

\* A chunk, merged through the indexes component by component, leaves the merge of
\* everything stored.
LEMMA ChunkMerges ==
  ASSUME LedgerInv, NEW cs \in SUBSET Contributions, merge_chunk(cs)
  PROVE  /\ LedgerInv' /\ Stored' = Stored \cup cs
         /\ StoredCollisions' = StoredCollisions \cup Collided(Stored \cup cs)
<1> DEFINE S == Stored \cup cs
           bad == Bad(cs)
           rix == Rix(cs)
           gids == Rewritten(cs)
           kept == {g \in requests : g.rid \notin {} \cup gids}
           Pieces == {Whole(k) : k \in Todo(cs)}
           new == UNION {Merged(P, bad) : P \in Pieces}
<1>0. S \subseteq Contributions
  BY DEF LedgerInv
<1>1. bad = StoredCollisions \cup Collided(S) /\ bad = StoredCollisions \cup Newly(cs)
  BY ChunkCollisions
<1>2. \A k \in Todo(cs) : Piece(Whole(k), S, bad)
  BY CompIsPiece DEF Todo, Comps
<1>3. \A g \in kept : /\ Piece(g.members, S, bad)
                      /\ HintsOf(g.members) \cap bad \subseteq StoredCollisions
  BY KeptIsPiece
<1>4. S = (UNION {g.members : g \in kept}) \cup (UNION Pieces)
  <2>1. ASSUME NEW c \in Stored PROVE c \in (UNION {g.members : g \in kept}) \cup (UNION Pieces)
    <3>1. PICK g \in requests : c \in g.members
      BY DEF Stored
    <3>2. CASE g \in kept
      BY <3>1, <3>2
    <3>3. CASE g.rid \in gids
      <4>1. PICK k \in Todo(cs) : g.rid \in k.gids
        BY <3>3 DEF Rewritten
      <4>2. c \in Whole(k)
        BY <3>1, <4>1 DEF Whole, MembersOf
      <4> QED BY <4>2
    <3> QED BY <3>2, <3>3
  <2>2. ASSUME NEW c \in cs PROVE c \in (UNION {g.members : g \in kept}) \cup (UNION Pieces)
    <3>1. PICK K \in Classes(ChunkKeys(cs)) : c \in K
      BY CompOf
    <3>2. CASE Comp(K, cs) \in Todo(cs)
      <4>1. c \in Whole(Comp(K, cs))
        BY <3>1 DEF Whole, Comp
      <4> QED BY <3>2, <4>1
    <3>3. CASE Comp(K, cs) \notin Todo(cs)
      BY <2>1, <3>1, <3>3, LeftAlone
    <3> QED BY <3>2, <3>3
  <2>3. \A k \in Todo(cs) : Whole(k) \subseteq S
    BY <1>2 DEF Piece
  <2>4. \A g \in kept : g.members \subseteq S
    BY <1>3 DEF Piece
  <2> HIDE DEF S, kept
  <2>5. (UNION {g.members : g \in kept}) \cup (UNION Pieces) \subseteq S
    BY <2>3, <2>4
  <2> QED BY <2>1, <2>2, <2>5 DEF S
<1>5. Split(S, bad, kept, Pieces)
  <2>1. \A P \in Pieces : Piece(P, S, bad)
    BY <1>2
  <2>2. kept \subseteq requests /\ StoredCollisions \subseteq bad
    BY <1>1
  <2> HIDE DEF S, bad, kept, Pieces
  <2> QED BY <1>0, <1>3, <1>4, <2>1, <2>2 DEF Split
<1>6. UNION {MergeContributions(Whole(k), bad) : k \in Todo(cs)} = new
  <2>1. ASSUME NEW k \in Todo(cs)
        PROVE  MergeContributions(Whole(k), bad) = Merged(Whole(k), bad)
    <3>1. Whole(k) \subseteq S
      BY <1>2 DEF Piece
    <3>2. Collided(Whole(k)) \subseteq Collided(S)
      <4> HIDE DEF S
      <4> QED BY <3>1, CollidedGrows
    <3>3. Collided(Whole(k)) \subseteq bad
      BY <1>1, <3>2
    <3> HIDE DEF bad
    <3> QED BY <3>3, MergeIsMerged
  <2> HIDE DEF bad
  <2> QED BY <2>1
<1>7. Rewrite({}, gids, new, rix)
  BY <1>6, ChunkUnfold
<1>8. Fits({}, gids, new, rix, S, bad, kept)
  <2>1. rix \in [Hints -> Ids \cup {NoRow, Collision}]
    BY DEF Rix, LedgerInv
  <2>2. bad = {h \in Hints : rix[h] = Collision} /\ StoredCollisions \subseteq bad
    BY <1>1 DEF Bad
  <2>3. \A h \in Hints \ bad : rix[h] = request_index[h]
    BY DEF Bad, Rix
  <2>4. kept = {g \in requests : g.rid \notin {} \cup gids}
    OBVIOUS
  <2>5. \E Q : Split(S, bad, kept, Q) /\ new = UNION {Merged(P, bad) : P \in Q}
    <3>1. new = UNION {Merged(P, bad) : P \in Pieces}
      OBVIOUS
    <3> HIDE DEF S, bad, kept, Pieces, new
    <3> QED BY <1>5, <3>1
  <2> HIDE DEF S, bad, kept, rix, gids, new
  <2> QED BY <2>1, <2>2, <2>3, <2>4, <2>5 DEF Fits
<1>9. /\ requests' = Merged(S, bad) /\ Stored' = S /\ StoredCollisions' = bad
      /\ message_index' \in [Messages -> Ids \cup {NoRow}]
      /\ request_index' \in [Hints -> Ids \cup {NoRow, Collision}]
      /\ IndexesExact'
  <2> HIDE DEF S, bad, kept, rix, gids, new
  <2> QED BY <1>7, <1>8, RewriteIsMerge
<1>10. Collided(S) \subseteq bad
  BY <1>1
<1>11. LedgerInv'
  <2> HIDE DEF S, bad
  <2> QED BY <1>0, <1>9, <1>10 DEF LedgerInv
<1> QED BY <1>1, <1>9, <1>11

\* A purge leaves the merge of what it does not delete.
LEMMA PurgeMerges ==
  ASSUME LedgerInv, NEW gone, NEW drop, PurgeRows(gone, drop)
  PROVE  /\ LedgerInv' /\ Stored' = Stored \ (MembersOf(gone) \cup drop)
         /\ StoredCollisions' = StoredCollisions
<1> DEFINE partial == {g.rid : g \in {r \in requests : r.rid \notin gone /\ r.members \cap drop # {}}}
           keep == MembersOf(partial) \ drop
           kept == {g \in requests : g.rid \notin gone \cup partial}
           S == (UNION {g.members : g \in kept}) \cup keep
           bad == StoredCollisions
           new == Merged(keep, bad)
<1>1. \A f, g \in requests : f.rid = g.rid => f = g
  BY GroupOfRid
<1>2. \A f, g \in requests : f.members \cap g.members # {} => f = g
  BY MergedApart DEF LedgerInv
<1>3. \A g \in requests : g.rid \in partial <=> g.rid \notin gone /\ g.members \cap drop # {}
  BY <1>1
<1>4. \A g \in requests : g \in kept <=> g.rid \notin gone /\ g.members \cap drop = {}
  BY <1>3
<1>5. \A c : c \in keep <=> c \notin drop /\ \E g \in requests : g.rid \in partial /\ c \in g.members
  BY DEF MembersOf
<1>6. \A c : c \in MembersOf(gone) <=> \E g \in requests : g.rid \in gone /\ c \in g.members
  BY DEF MembersOf
<1>7. \A c : c \in Stored <=> \E g \in requests : c \in g.members
  BY DEF Stored
<1>8. \A c : c \in S <=> c \in keep \/ \E g \in kept : c \in g.members
  OBVIOUS
<1>9. S = Stored \ (MembersOf(gone) \cup drop)
  <2> HIDE DEF S, keep, partial, kept
  <2>1. ASSUME NEW c \in S PROVE c \in Stored /\ c \notin MembersOf(gone) /\ c \notin drop
    <3>1. PICK g \in requests : c \in g.members /\ g.rid \notin gone /\ c \notin drop
      <4>1. CASE c \in keep
        BY <1>3, <1>5, <4>1
      <4>2. CASE \E g \in kept : c \in g.members
        <5>1. PICK g \in kept : c \in g.members
          BY <4>2
        <5>2. g \in requests
          BY DEF kept
        <5> QED BY <1>4, <5>1, <5>2
      <4> QED BY <1>8, <4>1, <4>2
    <3>2. c \notin MembersOf(gone)
      BY <1>2, <1>6, <3>1
    <3> QED BY <1>7, <3>1, <3>2
  <2>2. ASSUME NEW c \in Stored, c \notin MembersOf(gone), c \notin drop PROVE c \in S
    <3>1. PICK g \in requests : c \in g.members
      BY <1>7
    <3>2. g.rid \notin gone
      BY <1>6, <2>2, <3>1
    <3>3. CASE g.rid \in partial
      BY <1>5, <1>8, <2>2, <3>1, <3>3
    <3>4. CASE g.rid \notin partial
      BY <1>3, <1>4, <1>8, <3>1, <3>2, <3>4
    <3> QED BY <3>3, <3>4
  <2> QED BY <2>1, <2>2
<1>10. S \subseteq Stored /\ S \subseteq Contributions
  <2> HIDE DEF S
  <2> QED BY <1>9 DEF LedgerInv
<1>11. Piece(keep, S, bad)
  <2> HIDE DEF S, keep, partial, kept, bad
  <2>1. ASSUME NEW c \in keep, NEW d \in S, ~Apart(c, d, bad) PROVE d \in keep
    <3>1. PICK g \in requests : g.rid \in partial /\ c \in g.members
      BY <1>5
    <3>2. d \in Stored /\ d \notin drop
      BY <1>9
    <3>3. d \in g.members
      BY <2>1, <3>1, <3>2, SameRequest DEF bad
    <3> QED BY <1>5, <3>1, <3>2, <3>3
  <2> QED BY <1>8, <2>1 DEF Piece
<1>12. ASSUME NEW g \in kept
       PROVE  Piece(g.members, S, bad) /\ HintsOf(g.members) \cap bad \subseteq StoredCollisions
  <2>1. g \in requests /\ g.members \subseteq S
    OBVIOUS
  <2>2. ASSUME NEW c \in g.members, NEW d \in S, ~Apart(c, d, bad) PROVE d \in g.members
    <3> HIDE DEF S, kept
    <3> QED BY <1>10, <2>1, <2>2, SameRequest
  <2> HIDE DEF S, kept
  <2> QED BY <2>1, <2>2 DEF Piece
<1>13. Split(S, bad, kept, {keep})
  <2>1. S = (UNION {g.members : g \in kept}) \cup (UNION {keep})
    <3> HIDE DEF keep, kept
    <3> QED OBVIOUS
  <2>2. kept \subseteq requests /\ StoredCollisions \subseteq bad
    OBVIOUS
  <2> HIDE DEF S, bad, kept, keep
  <2> QED BY <1>10, <1>11, <1>12, <2>1, <2>2 DEF Split
<1>14. Rewrite(gone, partial, new, request_index)
  <2>1. keep \subseteq Stored
    BY DEF MembersOf, Stored
  <2>2. Collided(keep) \subseteq Collided(Stored)
    <3> HIDE DEF keep
    <3> QED BY <2>1, CollidedGrows
  <2>3. Collided(keep) \subseteq bad
    BY <2>2 DEF LedgerInv
  <2>4. MergeContributions(keep, bad) = new
    <3> HIDE DEF keep, bad
    <3> QED BY <2>3, MergeIsMerged
  <2>5. Rewrite(gone, partial, MergeContributions(keep, bad), request_index)
    BY DEF PurgeRows
  <2> HIDE DEF keep, bad, new, partial
  <2> QED BY <2>4, <2>5
<1>15. Fits(gone, partial, new, request_index, S, bad, kept)
  <2>1. request_index \in [Hints -> Ids \cup {NoRow, Collision}]
    BY DEF LedgerInv
  <2>2. bad = {h \in Hints : request_index[h] = Collision} /\ StoredCollisions \subseteq bad
    BY DEF StoredCollisions
  <2>3. kept = {g \in requests : g.rid \notin gone \cup partial}
    OBVIOUS
  <2>4. \E Q : Split(S, bad, kept, Q) /\ new = UNION {Merged(P, bad) : P \in Q}
    <3>1. new = UNION {Merged(P, bad) : P \in {keep}}
      <4> HIDE DEF keep, bad
      <4> QED OBVIOUS
    <3> HIDE DEF S, bad, kept, keep, new
    <3> QED BY <1>13, <3>1
  <2> HIDE DEF S, bad, kept, partial, new
  <2> QED BY <2>1, <2>2, <2>3, <2>4 DEF Fits
<1>16. /\ requests' = Merged(S, bad) /\ Stored' = S /\ StoredCollisions' = bad
       /\ message_index' \in [Messages -> Ids \cup {NoRow}]
       /\ request_index' \in [Hints -> Ids \cup {NoRow, Collision}]
       /\ IndexesExact'
  <2> HIDE DEF S, bad, kept, partial, new
  <2> QED BY <1>14, <1>15, RewriteIsMerge
<1>17. Collided(S) \subseteq bad
  <2>1. Collided(S) \subseteq Collided(Stored)
    <3> HIDE DEF S
    <3> QED BY <1>10, CollidedGrows
  <2> QED BY <2>1 DEF LedgerInv
<1>18. LedgerInv'
  <2> HIDE DEF S, bad
  <2> QED BY <1>10, <1>16, <1>17 DEF LedgerInv
<1>19. Stored' = Stored \ (MembersOf(gone) \cup drop) /\ StoredCollisions' = StoredCollisions
  <2> HIDE DEF S
  <2> QED BY <1>9, <1>16
<1> QED BY <1>18, <1>19

-----------------------------------------------------------------------------
(* The ledger implements the abstract one *)

\* AbstractLedger has merge rules of its own, the same ones.
LEMMA SameMerge ==
  ASSUME NEW S, NEW bad
  PROVE  Ledger!MergeContributions(S, bad) = MergeContributions(S, bad)
         /\ Ledger!Collided(S) = Collided(S)
<1>1. \A c : Ledger!message_ids(c) = message_ids(c) /\ Ledger!request_hints(c) = request_hints(c)
             /\ Ledger!hint_pairs(c) = hint_pairs(c)
  BY DEF Ledger!message_ids, message_ids, Ledger!request_hints, request_hints,
         Ledger!hint_pairs, hint_pairs
<1>2. \A h, T : Ledger!SeenWith(h, T) = SeenWith(h, T)
  BY <1>1 DEF Ledger!SeenWith, SeenWith
<1>3. \A T : Ledger!Collided(T) = Collided(T)
  BY <1>2 DEF Ledger!Collided, Collided
<1>4. \A c, b : Ledger!join_keys(c, b) = join_keys(c, b)
  BY <1>1 DEF Ledger!join_keys, join_keys
<1>5. \A keys : Ledger!Classes(keys) = Classes(keys)
  BY DEF Ledger!Classes, Classes, Ledger!Closed, Closed
<1>6. \A T, b : Ledger!GroupsOf(T, b) = GroupsOf(T, b)
  BY <1>4, <1>5 DEF Ledger!GroupsOf, GroupsOf
<1>7. \A G : Ledger!Winner(G) = Winner(G)
  BY DEF Ledger!Winner, Winner, Ledger!Outranks, Outranks
<1>8. \A T : Ledger!Least(T) = Least(T)
  BY DEF Ledger!Least, Least
<1>9. \A G : Ledger!SurvivingId(G) = SurvivingId(G)
  BY <1>1, <1>8 DEF Ledger!SurvivingId, SurvivingId
<1>10. \A G : Ledger!MergedPrincipal(G) = MergedPrincipal(G)
  BY <1>8 DEF Ledger!MergedPrincipal, MergedPrincipal
<1>11. \A G : Ledger!MergedGroup(G) = MergedGroup(G)
  BY <1>7, <1>9, <1>10 DEF Ledger!MergedGroup, MergedGroup
<1> QED BY <1>3, <1>6, <1>11 DEF Ledger!MergeContributions, MergeContributions

\* What a process merges next is a set of contributions.
LEMMA ChunkContent ==
  ASSUME StoredInv, NEW p \in Processes, job[p] # NoRow
  PROVE  job[p].chunks[chunk[p]] \in SUBSET Contributions
<1>1. job[p] \in Files /\ chunk[p] \in DOMAIN job[p].chunks
  BY DEF StoredInv, ProgressStored
<1>2. job[p].chunks \in Seq(SUBSET Contributions)
  BY <1>1, FilesAssumption
<1> QED BY <1>1, <1>2

\* After a step the requests are again the merge of what is stored.
LEMMA MergeAfter ==
  ASSUME LedgerInv'
  PROVE  requests' = Ledger!MergeContributions(Stored', StoredCollisions')
<1>1. requests' = Merged(Stored', StoredCollisions') /\ Collided(Stored') \subseteq StoredCollisions'
  BY DEF LedgerInv
<1>2. MergeContributions(Stored', StoredCollisions') = Merged(Stored', StoredCollisions')
  BY <1>1, MergeIsMerged
<1> QED BY <1>1, <1>2, SameMerge

LEMMA ChunkAdds ==
  ASSUME LedgerInv, NEW cs \in SUBSET Contributions, merge_chunk(cs)
  PROVE  LedgerInv' /\ Ledger!Next
<1>1. /\ LedgerInv' /\ Stored' = Stored \cup cs
      /\ StoredCollisions' = StoredCollisions \cup Collided(Stored')
  BY ChunkMerges
<1>2. requests' = Ledger!MergeContributions(Stored', StoredCollisions')
  BY <1>1, MergeAfter
<1>3. Ledger!Add(cs)
  BY <1>1, <1>2, SameMerge DEF Ledger!Add
<1> QED BY <1>1, <1>3 DEF Ledger!Next

LEMMA PurgeRemoves ==
  ASSUME LedgerInv, NEW gone, NEW drop, Purge(gone, drop), NEW R,
         R = (UNION {g.members : g \in {h \in requests : h.rid \in gone}}) \cup drop
  PROVE  LedgerInv' /\ Ledger!Remove(R)
<1>1. PurgeRows(gone, drop)
  BY DEF Purge
<1>2. /\ LedgerInv' /\ Stored' = Stored \ (MembersOf(gone) \cup drop)
      /\ StoredCollisions' = StoredCollisions
  BY <1>1, PurgeMerges
<1>3. requests' = Ledger!MergeContributions(Stored', StoredCollisions')
  BY <1>2, MergeAfter
<1>4. R = MembersOf(gone) \cup drop
  BY DEF MembersOf
<1> QED BY <1>2, <1>3, <1>4 DEF Ledger!Remove

\* The requests of a set have the ids of the set, and no other request has one.
LEMMA RidsOf ==
  ASSUME LedgerInv, NEW X \in SUBSET requests
  PROVE  {h \in requests : h.rid \in {g.rid : g \in X}} = X
BY GroupOfRid

LEMMA UntouchedLedger ==
  ASSUME LedgerInv, UNCHANGED tables
  PROVE  LedgerInv' /\ UNCHANGED Ledger!abstractVars
<1>1. Stored' = Stored /\ StoredCollisions' = StoredCollisions /\ requests' = requests
      /\ message_index' = message_index /\ request_index' = request_index
  BY DEF tables, Stored, StoredCollisions
<1>2. IndexesExact'
  BY <1>1 DEF LedgerInv, IndexesExact
<1> QED BY <1>1, <1>2 DEF LedgerInv, Ledger!abstractVars

\* Every step keeps the invariant and is a step of the abstract ledger or none.
LEMMA LedgerStep ==
  ASSUME StoredInv, LedgerInv, [Next]_vars
  PROVE  LedgerInv' /\ [Ledger!Next]_(Ledger!abstractVars)
<1>1. ASSUME NEW p \in Processes, NEW f \in Files, IngestStart(p, f) \/ IngestSkip(p, f)
      PROVE  UNCHANGED tables
  BY <1>1 DEF IngestStart, IngestSkip, vars
<1>2. ASSUME NEW p \in Processes, IngestChunk(p) \/ IngestLast(p) PROVE LedgerInv' /\ Ledger!Next
  <2> DEFINE cs == job[p].chunks[chunk[p]]
  <2>1. job[p] # NoRow /\ merge_chunk(cs)
    BY <1>2 DEF IngestChunk, IngestLast
  <2>2. cs \in SUBSET Contributions
    BY <2>1, ChunkContent
  <2> HIDE DEF cs
  <2> QED BY <2>1, <2>2, ChunkAdds
<1>3. ASSUME NEW p \in Processes, IngestFail(p) PROVE UNCHANGED tables
  BY <1>3 DEF IngestFail
<1>4. ASSUME NEW p \in Principals, PurgePrincipal(p) PROVE LedgerInv' /\ Ledger!Next
  <2> DEFINE X == {h \in requests : h.principal = p}
             gone == {g.rid : g \in X}
             drop == {c \in Stored : c.principal = p}
             R == (UNION {g.members : g \in X}) \cup drop
  <2>1. Purge(gone, drop)
    BY <1>4 DEF PurgePrincipal
  <2>2. {h \in requests : h.rid \in gone} = X
    <3>1. X \in SUBSET requests
      OBVIOUS
    <3> HIDE DEF X
    <3> QED BY <3>1, RidsOf
  <2>3. R = (UNION {g.members : g \in {h \in requests : h.rid \in gone}}) \cup drop
    <3> HIDE DEF X, gone
    <3> QED BY <2>2
  <2>4. LedgerInv' /\ Ledger!Remove(R)
    <3> HIDE DEF X, gone, drop, R
    <3> QED BY <2>1, <2>3, PurgeRemoves
  <2>5. Ledger!PurgePrincipal(p)
    BY <2>4 DEF Ledger!PurgePrincipal
  <2> QED BY <2>4, <2>5 DEF Ledger!Next
<1>5. ASSUME NEW t \in Starts, PurgeBefore(t) PROVE LedgerInv' /\ Ledger!Next
  <2> DEFINE X == {h \in requests : h.start < t}
             gone == {g.rid : g \in X}
             drop == {c \in Stored : c.start < t}
             R == (UNION {g.members : g \in X}) \cup drop
  <2>1. Purge(gone, drop)
    BY <1>5 DEF PurgeBefore
  <2>2. {h \in requests : h.rid \in gone} = X
    <3>1. X \in SUBSET requests
      OBVIOUS
    <3> HIDE DEF X
    <3> QED BY <3>1, RidsOf
  <2>3. R = (UNION {g.members : g \in {h \in requests : h.rid \in gone}}) \cup drop
    <3> HIDE DEF X, gone
    <3> QED BY <2>2
  <2>4. LedgerInv' /\ Ledger!Remove(R)
    <3> HIDE DEF X, gone, drop, R
    <3> QED BY <2>1, <2>3, PurgeRemoves
  <2>5. Ledger!PurgeBefore(t)
    BY <2>4 DEF Ledger!PurgeBefore
  <2> QED BY <2>4, <2>5 DEF Ledger!Next
<1>6. CASE UNCHANGED vars
  BY <1>6, UntouchedLedger DEF vars
<1> QED BY <1>1, <1>2, <1>3, <1>4, <1>5, <1>6, UntouchedLedger DEF Next

LEMMA InitLedger ==
  ASSUME Init
  PROVE  LedgerInv /\ Ledger!Init
<1>1. Stored = {} /\ requests = {}
  BY DEF Init, Stored
<1>2. StoredCollisions = {}
  BY NotIds DEF Init, StoredCollisions
<1>3. Merged({}, {}) = {}
  <2>1. \A G : G \notin GroupsOf({}, {})
    BY GroupClass DEF Piece
  <2> QED BY <2>1 DEF Merged
<1>4. Collided({}) = {}
  BY DEF Collided, SeenWith
<1>5. IndexesExact
  BY <1>1, NotIds DEF Init, IndexesExact
<1>6. /\ message_index \in [Messages -> Ids \cup {NoRow}]
      /\ request_index \in [Hints -> Ids \cup {NoRow, Collision}]
  BY DEF Init
<1> QED BY <1>1, <1>2, <1>3, <1>4, <1>5, <1>6 DEF LedgerInv, Ledger!Init

LEMMA LedgerAlways == Spec => []LedgerInv
<1>1. Init => LedgerInv
  BY InitLedger
<1>2. StoredInv /\ LedgerInv /\ [Next]_vars => LedgerInv'
  BY LedgerStep
<1> QED BY <1>1, <1>2, StoredAlways, PTL DEF Spec

\* Merging chunk by chunk through the indexes, whatever the order, the processes, the
\* failures and the purges, leaves exactly the merge of the stored contributions:
\* LedgerStore implements AbstractLedger (db.py merge_chunk, merge.py
\* merge_contributions, retention.py purge).
THEOREM LedgerImplementsMerge == Spec => LedgerIsMerge
<1>1. Init => Ledger!Init
  BY InitLedger
<1>2. StoredInv /\ LedgerInv /\ [Next]_vars => [Ledger!Next]_(Ledger!abstractVars)
  BY LedgerStep
<1> QED BY <1>1, <1>2, StoredAlways, LedgerAlways, PTL DEF Spec, LedgerIsMerge, Ledger!Spec

\* No usage is counted twice: stored requests share no id, contribution, message id or
\* provider request id that is a join key, at any time (db.py _write_rows, by_key).
THEOREM NothingCountedTwice == Spec => []NoDoubleCounting
<1>1. LedgerInv => NoDoubleCounting
  BY MergedApart DEF LedgerInv, NoDoubleCounting
<1> QED BY <1>1, LedgerAlways, PTL

\* Both index tables say exactly where each provider id is stored, through every
\* rewrite, collision and purge (db.py delete_groups, write_group).
THEOREM IndexesSayWhere == Spec => []IndexesExact
<1>1. LedgerInv => IndexesExact
  BY DEF LedgerInv
<1> QED BY <1>1, LedgerAlways, PTL

-----------------------------------------------------------------------------
(* Types *)

\* Exactly one member outranks the others: the canonical text decides the last ties.
LEMMA WinnerIn ==
  ASSUME NEW G \in SUBSET Contributions, G # {}
  PROVE  Winner(G) \in G
<1> DEFINE R == {p \in G \X G : p[1] = p[2] \/ Outranks(p[1], p[2])}
<1>0. \A c \in G : c.fidelity \in Nat /\ c.priority \in Nat /\ c.output \in Nat /\ c.canon \in Nat
  BY ContributionsAssumption
<1>1. \A c, d \in G : <<c, d>> \in R <=> c = d \/ Outranks(c, d)
  OBVIOUS
<1>2. \A c, d \in G : c.canon = d.canon => c = d
  BY ContributionsAssumption
<1>3. IsFiniteSet(G)
  BY ContributionsAssumption, FS_Subset
<1> HIDE DEF R
<1>4. ASSUME NEW c \in G, NEW d \in G PROVE <<c, d>> \in R \/ <<d, c>> \in R
  <2>1. /\ c.fidelity \in Nat /\ c.priority \in Nat /\ c.output \in Nat /\ c.canon \in Nat
        /\ d.fidelity \in Nat /\ d.priority \in Nat /\ d.output \in Nat /\ d.canon \in Nat
    BY <1>0
  <2>2. c.canon # d.canon => Outranks(c, d) \/ Outranks(d, c)
    BY <2>1 DEF Outranks
  <2>3. c = d \/ Outranks(c, d) \/ Outranks(d, c)
    BY <1>2, <2>2
  <2> QED BY <1>1, <2>3
<1>5. \A c, d, e \in G : <<c, d>> \in R /\ <<d, e>> \in R => <<c, e>> \in R
  BY <1>0, <1>1 DEF Outranks
<1>6. PICK c \in G : \A d \in G : <<c, d>> \in R
  BY <1>3, <1>4, <1>5, GreatestOf
<1>7. \A d \in G \ {c} : Outranks(c, d)
  BY <1>1, <1>6
<1> QED BY <1>7 DEF Winner

LEMMA PrincipalIn ==
  ASSUME NEW G \in SUBSET Contributions
  PROVE  MergedPrincipal(G) \in Principals \cup {NoPrincipal}
<1> DEFINE named == {c \in G : c.principal # NoPrincipal}
           top == {c \in named : \A d \in named : d.priority <= c.priority}
           values == {c.principal : c \in top}
           R == {p \in named \X named : p[2].priority <= p[1].priority}
<1>0. \A c \in named : c.priority \in Nat /\ c.principal \in Principals
  BY ContributionsAssumption
<1>1. CASE named = {}
  BY <1>1 DEF MergedPrincipal
<1>2. CASE named # {}
  <2>1. IsFiniteSet(named)
    BY ContributionsAssumption, FS_Subset
  <2>2. \A c, d \in named : <<c, d>> \in R <=> d.priority <= c.priority
    OBVIOUS
  <2>3. top # {}
    <3> HIDE DEF R, named
    <3>1. ASSUME NEW c \in named, NEW d \in named PROVE <<c, d>> \in R \/ <<d, c>> \in R
      <4>1. c.priority <= d.priority \/ d.priority <= c.priority
        BY <1>0
      <4> QED BY <2>2, <4>1
    <3>2. \A c, d, e \in named : <<c, d>> \in R /\ <<d, e>> \in R => <<c, e>> \in R
      BY <1>0, <2>2
    <3>3. PICK c \in named : \A d \in named : <<c, d>> \in R
      BY <1>2, <2>1, <3>1, <3>2, GreatestOf
    <3> QED BY <2>2, <3>3
  <2>4. values \subseteq Principals /\ values # {}
    <3>1. top \subseteq named
      OBVIOUS
    <3> HIDE DEF top, named
    <3> QED BY <1>0, <2>3, <3>1
  <2>5. values \subseteq Nat
    BY <2>4, ContributionsAssumption
  <2>6. Least(values) \in values
    <3> HIDE DEF values
    <3> QED BY <2>4, <2>5, LeastIn
  <2>7. MergedPrincipal(G) = Least(values)
    BY <1>2 DEF MergedPrincipal
  <2> HIDE DEF values
  <2> QED BY <2>4, <2>6, <2>7
<1> QED BY <1>1, <1>2

LEMMA GroupsTyped ==
  ASSUME LedgerInv
  PROVE  requests \subseteq Groups
<1> SUFFICES ASSUME NEW g \in requests PROVE g \in Groups
  OBVIOUS
<1> DEFINE G == g.members
<1>1. g = MergedGroup(G)
  BY MergedFacts DEF LedgerInv
<1>2. G \in SUBSET Contributions /\ G # {} /\ g.rid \in Ids
  BY StoredFacts
<1> HIDE DEF G
<1>3. Winner(G) \in Contributions /\ Winner(G).start \in Starts
  BY <1>2, WinnerIn, ContributionsAssumption
<1>4. MergedPrincipal(G) \in Principals \cup {NoPrincipal}
  BY <1>2, PrincipalIn
<1>5. SurvivingId(G) \in Ids
  BY <1>1, <1>2 DEF MergedGroup
<1> QED BY <1>1, <1>2, <1>3, <1>4, <1>5 DEF MergedGroup, Groups

RestOK ==
  /\ job \in [Processes -> Files \cup {NoRow}]
  /\ crashes \in 0..MaxCrashes /\ purges \in 0..MaxPurges
  /\ forgotten \subseteq Contributions

LEMMA RestStep ==
  ASSUME LedgerInv, RestOK, [Next]_vars
  PROVE  RestOK'
<1> USE BoundsAssumption
<1>0. Stored \subseteq Contributions
  BY DEF LedgerInv
<1>1. ASSUME NEW p \in Processes, NEW f \in Files, IngestStart(p, f) \/ IngestSkip(p, f)
      PROVE  RestOK'
  BY <1>1 DEF IngestStart, IngestSkip, vars, RestOK
<1>2. ASSUME NEW p \in Processes, IngestChunk(p) \/ IngestLast(p) \/ IngestFail(p) PROVE RestOK'
  BY <1>2 DEF IngestChunk, IngestLast, IngestFail, RestOK
<1>3. ASSUME NEW gone, NEW drop, drop \subseteq Stored, Purge(gone, drop) PROVE RestOK'
  <2>1. MembersOf(gone) \subseteq Stored
    BY DEF MembersOf, Stored
  <2> QED BY <1>0, <1>3, <2>1 DEF Purge, RestOK
<1>4. ASSUME NEW p \in Principals, PurgePrincipal(p) PROVE RestOK'
  <2>1. \E gone, drop : drop \subseteq Stored /\ Purge(gone, drop)
    <3>1. {c \in Stored : c.principal = p} \subseteq Stored
      OBVIOUS
    <3> QED BY <1>4, <3>1 DEF PurgePrincipal
  <2> QED BY <1>3, <2>1
<1>5. ASSUME NEW t \in Starts, PurgeBefore(t) PROVE RestOK'
  <2>1. \E gone, drop : drop \subseteq Stored /\ Purge(gone, drop)
    <3>1. {c \in Stored : c.start < t} \subseteq Stored
      OBVIOUS
    <3> QED BY <1>5, <3>1 DEF PurgeBefore
  <2> QED BY <1>3, <2>1
<1>6. CASE UNCHANGED vars
  BY <1>6 DEF vars, RestOK
<1> QED BY <1>1, <1>2, <1>4, <1>5, <1>6 DEF Next

\* The tables keep their shape: every merged request has a surviving id and a winner
\* among its contributions, every process a chunk of the file it ingests (db.py).
THEOREM LedgerTypeOK == Spec => []TypeOK
<1>1. Init => RestOK
  BY BoundsAssumption DEF Init, RestOK
<1>2. LedgerInv /\ RestOK /\ [Next]_vars => RestOK'
  BY RestStep
<1>3. StoredInv /\ LedgerInv /\ RestOK => TypeOK
  <2> SUFFICES ASSUME StoredInv, LedgerInv, RestOK PROVE TypeOK
    OBVIOUS
  <2>1. requests \subseteq Groups
    BY GroupsTyped
  <2>2. \A p \in Processes : job[p] # NoRow => chunk[p] \in DOMAIN job[p].chunks
    BY DEF StoredInv, ProgressStored
  <2> QED BY <2>1, <2>2 DEF TypeOK, StoredInv, FunctionsOK, LedgerInv, RestOK
<1> QED BY <1>1, <1>2, <1>3, StoredAlways, LedgerAlways, PTL DEF Spec
=============================================================================
