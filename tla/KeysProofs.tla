----------------------------- MODULE KeysProofs -----------------------------
(***************************************************************************)
(* A ledger that one process uses at a time keeps its key spaces apart,    *)
(* for every set of keys and persons and any number of rotations.          *)
(***************************************************************************)
EXTENDS Keys, SequenceTheorems, TLAPS

-----------------------------------------------------------------------------
(* The inductive invariant *)

\* No key comes back, and a ledger that has had an org key is in mode "own".
UsedOnce ==
  /\ \A i, j \in 1..Len(used) : used[i] = used[j] => i = j
  /\ used # <<>> => meta.mode = "own"

\* The chain is the end of the list of keys: those the ledger had since the row came.
EndOf(chain, keys) ==
  /\ Len(chain) \in 1..Len(keys)
  /\ \A n \in 1..Len(chain) : chain[n] = keys[Len(keys) - Len(chain) + n]

\* Why persons stay joined: a row is under the adopted key, or its chain is the end of
\* the list of org keys.
RowsChained ==
  \A r \in rows : (meta.adopted # None /\ r.chain = <<meta.adopted>>) \/ EndOf(r.chain, used)

\* The principals of an ingest were cleaned with the meta that is still there.
ChainFits(j) ==
  /\ j.adopt => /\ meta.adopted = None /\ j.org = meta.org
                /\ j.key \in ExportKeys /\ j.chain = <<j.key>>
  /\ \/ j.chain = <<>>
     \/ \E k \in Keys : j.chain = <<k>> /\ (k \in Accepted \/ j.adopt)

JobFits(h) ==
  /\ ~handle[h].open => job[h] = Idle
  /\ job[h].stage = "idle" => job[h] = Idle
  /\ job[h].stage = "claim" => meta.org = None /\ handle[h].key # None
  /\ handle[h].open /\ handle[h].key # None /\ job[h].stage # "claim" => meta.org = handle[h].key
  /\ job[h].stage = "write" => ChainFits(job[h])

IInv(h) == TypeOK /\ ModeIsRight /\ UsedOnce /\ RowsChained /\ JobFits(h)

-----------------------------------------------------------------------------
(* The invariant implies the properties *)

LEMMA ChainedAccepted ==
  ASSUME NEW h, IInv(h)
  PROVE  KeysAccepted
<1> SUFFICES ASSUME NEW r \in rows
             PROVE  r.chain # <<>> /\ r.chain[Len(r.chain)] \in Accepted
  BY DEF KeysAccepted
<1>1. r.chain \in Seq(Keys) /\ used \in Seq(OrgKeys) /\ None \notin Keys
  BY KeysAssumption DEF IInv, TypeOK
<1>2. CASE meta.adopted # None /\ r.chain = <<meta.adopted>>
  BY <1>2 DEF Accepted
<1>3. CASE EndOf(r.chain, used)
  <2>1. Len(r.chain) >= 1 /\ r.chain[Len(r.chain)] = used[Len(used)]
    BY <1>1, <1>3 DEF EndOf
  <2>2. meta.mode = "own" /\ meta.org = used[Len(used)]
    BY <1>1, <1>3 DEF EndOf, IInv, UsedOnce, ModeIsRight
  <2>3. used[Len(used)] \in Keys
    BY <1>1, <1>3 DEF EndOf, Keys
  <2> QED BY <1>1, <2>1, <2>2, <2>3 DEF Accepted
<1> QED BY <1>2, <1>3 DEF IInv, RowsChained

LEMMA ChainedJoins ==
  ASSUME NEW h, IInv(h)
  PROVE  JoinsSurvive
<1> SUFFICES ASSUME NEW r \in rows, NEW s \in rows, r.chain[1] = s.chain[1]
             PROVE  r.chain = s.chain
  BY DEF JoinsSurvive
<1>1. /\ r.chain \in Seq(Keys) /\ s.chain \in Seq(Keys) /\ used \in Seq(OrgKeys)
      /\ meta.adopted \in ExportKeys \cup {None} /\ OrgKeys \cap ExportKeys = {}
  BY KeysAssumption DEF IInv, TypeOK
<1>2. \A c \in Seq(Keys) : EndOf(c, used) =>
         c[1] = used[Len(used) - Len(c) + 1] /\ c[1] \in OrgKeys
  BY <1>1 DEF EndOf
<1>3. CASE EndOf(r.chain, used) /\ EndOf(s.chain, used)
  <2>1. Len(used) - Len(r.chain) + 1 = Len(used) - Len(s.chain) + 1
    <3>1. /\ Len(used) - Len(r.chain) + 1 \in 1..Len(used)
          /\ Len(used) - Len(s.chain) + 1 \in 1..Len(used)
      BY <1>1, <1>3 DEF EndOf
    <3> QED BY <1>1, <1>2, <1>3, <3>1 DEF IInv, UsedOnce
  <2>2. Len(r.chain) = Len(s.chain)
    <3>1. Len(r.chain) \in Nat /\ Len(s.chain) \in Nat /\ Len(used) \in Nat
      BY <1>1, LenProperties
    <3>2. \A a, b, c \in Nat : a - b + 1 = a - c + 1 => b = c
      OBVIOUS
    <3> QED BY <2>1, <3>1, <3>2
  <2>3. \A n \in 1..Len(r.chain) : r.chain[n] = s.chain[n]
    BY <1>1, <1>3, <2>2 DEF EndOf
  <2> QED BY <1>1, <2>2, <2>3, SeqEqual
<1>4. CASE meta.adopted # None /\ r.chain = <<meta.adopted>>
  BY <1>1, <1>2, <1>4 DEF IInv, RowsChained
<1>5. CASE meta.adopted # None /\ s.chain = <<meta.adopted>>
  BY <1>1, <1>2, <1>5 DEF IInv, RowsChained
<1> QED BY <1>3, <1>4, <1>5 DEF IInv, RowsChained

-----------------------------------------------------------------------------
(* The actions preserve it, when h is the only handle *)

LEMMA InitInv ==
  ASSUME NEW h \in Handles, Init
  PROVE  IInv(h)
<1>1. TypeOK
  BY KeysAssumption DEF Init, TypeOK, KeyIds, Closed, Idle, NoIngest
<1>2. ModeIsRight /\ UsedOnce /\ RowsChained
  BY DEF Init, ModeIsRight, UsedOnce, RowsChained
<1>3. JobFits(h)
  BY DEF Init, JobFits, Closed, Idle, NoIngest
<1> QED BY <1>1, <1>2, <1>3 DEF IInv

\* Opening, closing and giving up change the handle and its job alone.
LEMMA OpenInv ==
  ASSUME NEW h \in Handles, IInv(h), NEW key \in OrgKeys \cup {None}, NEW adopt \in BOOLEAN,
         Open(h, key, adopt)
  PROVE  IInv(h)'
<1>1. job[h] = Idle /\ meta' = meta /\ KeyFits(key)
      /\ handle' = [handle EXCEPT ![h] = [open |-> TRUE, key |-> key, adopt |-> adopt]]
      /\ UNCHANGED <<rows, records, used>>
  BY DEF Open, IInv, JobFits, Closed
<1>2. PICK stage \in {"claim", "idle"} :
        /\ stage = "claim" <=> key # None /\ meta.org = None
        /\ job' = [job EXCEPT ![h] = NoIngest(stage)]
  BY DEF Open
<1> DEFINE opened == NoIngest(stage)
<1>3. TypeOK'
  <2>1. opened \in [stage : {"idle", "claim", "write"}, adopt : BOOLEAN, key : KeyIds,
                    org : KeyIds, chain : Seq(Keys), todo : SUBSET People]
    BY DEF NoIngest, KeyIds
  <2>2. job' = [job EXCEPT ![h] = opened]
    BY <1>2
  <2> HIDE DEF opened
  <2> QED BY <1>1, <2>1, <2>2 DEF IInv, TypeOK
<1>4. ModeIsRight' /\ UsedOnce' /\ RowsChained'
  BY <1>1 DEF IInv, ModeIsRight, UsedOnce, RowsChained
<1>5. JobFits(h)'
  <2>1. job'[h] = opened /\ handle'[h] = [open |-> TRUE, key |-> key, adopt |-> adopt]
    BY <1>1, <1>2 DEF IInv, TypeOK
  <2>2. CASE stage = "claim"
    BY <1>1, <1>2, <2>1, <2>2 DEF JobFits, NoIngest
  <2>3. CASE stage = "idle"
    BY <1>1, <1>2, <2>1, <2>3 DEF JobFits, KeyFits, Idle, NoIngest
  <2> QED BY <2>2, <2>3
<1> QED BY <1>3, <1>4, <1>5 DEF IInv

LEMMA CloseInv ==
  ASSUME NEW h \in Handles, IInv(h), Close(h)
  PROVE  IInv(h)'
<1> USE DEF IInv, Close
<1>1. TypeOK'
  BY DEF TypeOK, Closed
<1>2. ModeIsRight' /\ UsedOnce' /\ RowsChained'
  BY DEF ModeIsRight, UsedOnce, RowsChained
<1>3. JobFits(h)'
  BY DEF JobFits, TypeOK, Closed, Idle, NoIngest
<1> QED BY <1>1, <1>2, <1>3

LEMMA AbortInv ==
  ASSUME NEW h \in Handles, IInv(h), NEW died \in BOOLEAN, Abort(h, died)
  PROVE  IInv(h)'
<1> USE DEF IInv, Abort
<1>1. TypeOK'
  BY DEF TypeOK, Closed, Idle, NoIngest, KeyIds
<1>2. ModeIsRight' /\ UsedOnce' /\ RowsChained'
  BY DEF ModeIsRight, UsedOnce, RowsChained
<1>3. JobFits(h)'
  <2>1. job'[h] = Idle /\ meta' = meta
    BY DEF TypeOK
  <2>2. handle'[h] = Closed \/ (handle'[h] = handle[h] /\ job[h].stage # "claim")
    BY DEF TypeOK
  <2> QED BY <2>1, <2>2 DEF JobFits, Closed, Idle, NoIngest
<1> QED BY <1>1, <1>2, <1>3

\* A ledger without a key has had none, and holds no rows.
LEMMA ClaimInv ==
  ASSUME NEW h \in Handles, IInv(h), Claim(h)
  PROVE  IInv(h)'
<1> DEFINE k == handle[h].key
<1>1. /\ meta.org = None /\ k \in OrgKeys /\ MaxRotations \in Nat /\ k # None
      /\ used \in Seq(OrgKeys)
  <2>1. meta.org = None /\ k # None
    BY DEF IInv, JobFits, Claim
  <2>2. k \in OrgKeys \cup {None} /\ used \in Seq(OrgKeys)
    BY DEF IInv, TypeOK
  <2> QED BY <2>1, <2>2, KeysAssumption
<1>2. meta.mode = "none"
  <2>1. meta.mode # "adopted"
    BY <1>1 DEF IInv, ModeIsRight
  <2>2. used # <<>> => used[Len(used)] \in OrgKeys
    BY <1>1
  <2>3. meta.mode # "own"
    BY <1>1, <2>2, KeysAssumption DEF IInv, ModeIsRight, Keys
  <2> QED BY <2>1, <2>3 DEF IInv, TypeOK
<1>3. used = <<>> /\ rows = {} /\ meta.adopted = None
  BY <1>2 DEF IInv, UsedOnce, ModeIsRight
<1>4. /\ meta' = [org |-> k, mode |-> "own", adopted |-> None]
      /\ used' = <<k>> /\ job' = [job EXCEPT ![h] = Idle]
      /\ rows' = {} /\ records' = records /\ handle' = handle
  <2>1. meta' = [org |-> k, mode |-> "own", adopted |-> meta.adopted]
    BY DEF Claim, IInv, TypeOK
  <2>2. used' = <<k>>
    BY <1>1, <1>3 DEF Claim
  <2> QED BY <1>3, <2>1, <2>2 DEF Claim
<1>5. TypeOK'
  BY <1>1, <1>4 DEF IInv, TypeOK, Idle, NoIngest, KeyIds, Keys
<1>6. ModeIsRight' /\ UsedOnce' /\ RowsChained'
  BY <1>4 DEF ModeIsRight, UsedOnce, RowsChained
<1>7. JobFits(h)'
  BY <1>4 DEF IInv, TypeOK, JobFits, Idle, NoIngest
<1> QED BY <1>5, <1>6, <1>7 DEF IInv

LEMMA ReadInv ==
  ASSUME NEW h \in Handles, IInv(h), NEW src \in Sources, IngestRead(h, src)
  PROVE  IInv(h)'
<1> DEFINE k == IF src.raw THEN handle[h].key ELSE src.key
           chain == IF ~Kept(h, src) THEN <<>> ELSE <<k>>
           new == [stage |-> "write", adopt |-> WantsAdoption(h, src), key |-> src.key,
                   org |-> meta.org, chain |-> chain, todo |-> People]
<1>1. /\ job' = [job EXCEPT ![h] = new] /\ job[h] = Idle /\ handle[h].open
      /\ UNCHANGED <<meta, rows, records, handle, used>>
  BY DEF IngestRead
<1>2. /\ src.key \in KeyIds
      /\ src.raw \in BOOLEAN /\ src.export \in BOOLEAN
      /\ src.export => src.key \in ExportKeys /\ ~src.raw
      /\ ~src.raw => src.key \in Keys
  BY DEF Sources, KeyIds, Keys
<1>3. src.raw => handle[h].key \in OrgKeys /\ handle[h].key = meta.org /\ meta.org # None
  BY <1>1 DEF IngestRead, IInv, JobFits, TypeOK, Idle, NoIngest
<1>4. k \in Keys
  BY <1>2, <1>3 DEF Keys
<1>5. WantsAdoption(h, src) \in BOOLEAN
  BY <1>2 DEF WantsAdoption, IInv, TypeOK
<1>6. TypeOK'
  <2>1. chain \in Seq(Keys)
    BY <1>4
  <2>2. new \in [stage : {"idle", "claim", "write"}, adopt : BOOLEAN, key : KeyIds,
                 org : KeyIds, chain : Seq(Keys), todo : SUBSET People]
    <3> HIDE DEF chain
    <3> QED BY <1>2, <1>5, <2>1 DEF IInv, TypeOK
  <2> HIDE DEF new
  <2> QED BY <1>1, <2>2 DEF IInv, TypeOK
<1>7. ModeIsRight' /\ UsedOnce' /\ RowsChained'
  BY <1>1 DEF IInv, ModeIsRight, UsedOnce, RowsChained
<1>8. ChainFits(new)
  <2>1. WantsAdoption(h, src) =>
          /\ meta.adopted = None /\ src.key \in ExportKeys
          /\ Kept(h, src) /\ k = src.key
    BY <1>2 DEF IngestRead, AdoptionAllowed, Kept, WantsAdoption
  <2>2. Kept(h, src) => k \in Accepted \/ WantsAdoption(h, src)
    BY <1>3 DEF Kept, Accepted
  <2> HIDE DEF k
  <2> QED BY <1>4, <2>1, <2>2 DEF ChainFits
<1>9. JobFits(h)'
  <2>1. job'[h] = new
    BY <1>1 DEF IInv, TypeOK
  <2>3. new.stage = "write"
    OBVIOUS
  <2> HIDE DEF new
  <2>2. ChainFits(job[h])'
    BY <1>1, <1>8, <2>1 DEF ChainFits, Accepted
  <2> QED BY <1>1, <2>1, <2>2, <2>3 DEF IInv, JobFits, Idle, NoIngest
<1> QED BY <1>6, <1>7, <1>9 DEF IInv

\* The adoption of a key: it was not recorded before, so no row is under it.
LEMMA AdoptMeta ==
  ASSUME NEW h \in Handles, IInv(h), job[h].stage = "write",
         meta' = IF job[h].adopt THEN AdoptFrom(job[h]) ELSE meta, used' = used
  PROVE  /\ meta' \in [org : KeyIds, mode : {"none", "own", "adopted"},
                       adopted : ExportKeys \cup {None}]
         /\ meta.org # None => meta'.org = meta.org /\ meta'.mode = meta.mode
         /\ meta.adopted # None => meta' = meta
         /\ meta.mode # "none" => meta'.mode = meta.mode
         /\ job[h].adopt => meta'.adopted = job[h].key /\ meta'.adopted # None
         /\ Accepted \subseteq Accepted'
         /\ meta'.mode = "adopted" => meta'.org = meta'.adopted /\ meta'.org # None /\ used = <<>>
         /\ meta'.mode = "own" => used # <<>> /\ meta'.org = used[Len(used)]
         /\ meta'.mode = "none" => meta' = meta
         /\ used # <<>> => meta'.mode = "own"
<1>1. CASE ~job[h].adopt
  BY <1>1 DEF IInv, TypeOK, ModeIsRight, UsedOnce, Accepted
<1>2. CASE job[h].adopt
  <2> DEFINE k == job[h].key
  <2>1. meta.adopted = None /\ job[h].org = meta.org /\ k \in ExportKeys /\ k \in KeyIds /\ k # None
    BY <1>2, KeysAssumption DEF IInv, JobFits, ChainFits, KeyIds, Keys
  <2>2. meta' = [org |-> IF meta.org = None THEN k ELSE meta.org,
                 mode |-> IF meta.org = None THEN "adopted" ELSE meta.mode, adopted |-> k]
    BY <1>2, <2>1 DEF AdoptFrom
  <2>3. meta.org = None => meta.mode = "none" /\ used = <<>>
    <3>1. used # <<>> => used[Len(used)] \in OrgKeys
      BY DEF IInv, TypeOK
    <3> QED BY <3>1, KeysAssumption DEF IInv, TypeOK, ModeIsRight, UsedOnce, Keys
  <2>4. meta.org # None => meta.mode = "own"
    BY <2>1 DEF IInv, TypeOK, ModeIsRight
  <2>5. meta \in [org : KeyIds, mode : {"none", "own", "adopted"}, adopted : ExportKeys \cup {None}]
    BY DEF IInv, TypeOK
  <2>6. CASE meta.org = None
    BY <1>2, <2>1, <2>2, <2>3, <2>5, <2>6 DEF Accepted
  <2>7. CASE meta.org # None
    BY <1>2, <2>1, <2>2, <2>4, <2>5, <2>7 DEF Accepted, IInv, ModeIsRight
  <2> QED BY <2>6, <2>7
<1> QED BY <1>1, <1>2 DEF IInv, TypeOK

LEMMA ChunkInv ==
  ASSUME NEW h \in Handles, IInv(h), NEW who \in People, IngestChunk(h, who)
  PROVE  IInv(h)'
<1> DEFINE j == job[h]
           rest == [j EXCEPT !.adopt = FALSE, !.todo = j.todo \ {who}]
           M == meta'
<1>1. /\ j.stage = "write" /\ UNCHANGED <<records, handle, used>>
      /\ meta' = IF j.adopt THEN AdoptFrom(j) ELSE meta
      /\ rows' = IF j.chain = <<>> THEN rows ELSE rows \cup {[who |-> who, chain |-> j.chain]}
  BY DEF IngestChunk
<1>2. j \in [stage : {"idle", "claim", "write"}, adopt : BOOLEAN, key : KeyIds,
             org : KeyIds, chain : Seq(Keys), todo : SUBSET People]
  BY DEF IInv, TypeOK
<1>3. PICK last \in BOOLEAN : job' = [job EXCEPT ![h] = IF last THEN Idle ELSE rest]
  BY DEF IngestChunk
<1>4. /\ meta.org # None => M.org = meta.org
      /\ meta.adopted # None => M = meta
      /\ j.adopt => M.adopted = j.key /\ M.adopted # None
      /\ Accepted \subseteq Accepted'
      /\ M.mode = "own" => used # <<>> /\ M.org = used[Len(used)]
      /\ M.mode = "adopted" => M.org = M.adopted /\ M.org # None
      /\ M.mode = "none" => M = meta
      /\ M.mode \in {"none", "own", "adopted"}
  BY <1>1, AdoptMeta
<1>5. j.chain # <<>> => \E k \in Keys : j.chain = <<k>> /\ k \in Accepted'
  <2>1. ChainFits(j)
    BY <1>1 DEF IInv, JobFits
  <2>2. j.adopt => j.chain = <<M.adopted>> /\ M.adopted \in Accepted' /\ M.adopted \in Keys
    BY <1>4, <2>1 DEF ChainFits, Accepted, Keys
  <2> HIDE DEF j, M
  <2> QED BY <1>4, <2>1, <2>2 DEF ChainFits
<1>6. TypeOK'
  <2>1. M \in [org : KeyIds, mode : {"none", "own", "adopted"}, adopted : ExportKeys \cup {None}]
    BY <1>1, AdoptMeta
  <2>2. rows' \subseteq [who : People, chain : Seq(Keys)]
    BY <1>1, <1>2 DEF IInv, TypeOK
  <2>3. rest \in [stage : {"idle", "claim", "write"}, adopt : BOOLEAN, key : KeyIds,
                  org : KeyIds, chain : Seq(Keys), todo : SUBSET People]
    <3> HIDE DEF j
    <3> QED BY <1>2
  <2>4. Idle \in [stage : {"idle", "claim", "write"}, adopt : BOOLEAN, key : KeyIds,
                  org : KeyIds, chain : Seq(Keys), todo : SUBSET People]
    BY DEF Idle, NoIngest, KeyIds
  <2> HIDE DEF rest, M
  <2> QED BY <1>1, <1>3, <2>1, <2>2, <2>3, <2>4 DEF IInv, TypeOK, M
<1>7. ModeIsRight'
  <2>1. M.mode = "none" => rows' = {} /\ M.org = None /\ M.adopted = None
    <3>1. M.mode = "none" => Accepted' = {}
      BY <1>4 DEF IInv, ModeIsRight, Accepted
    <3> QED BY <1>1, <1>4, <1>5, <3>1 DEF IInv, ModeIsRight
  <2>2. M.mode = "adopted" => used = <<>>
    BY <1>1, AdoptMeta
  <2> QED BY <1>1, <1>4, <2>1, <2>2 DEF ModeIsRight
<1>8. UsedOnce'
  BY <1>1, AdoptMeta DEF IInv, UsedOnce
<1>9. RowsChained'
  <2> SUFFICES ASSUME NEW r \in rows'
               PROVE  (M.adopted # None /\ r.chain = <<M.adopted>>) \/ EndOf(r.chain, used)
    BY <1>1 DEF RowsChained
  <2>1. CASE r \in rows
    BY <1>4, <2>1 DEF IInv, RowsChained
  <2>2. CASE r \notin rows
    <3>1. PICK k \in Keys : r.chain = <<k>> /\ k \in Accepted'
      BY <1>1, <1>5, <2>2
    <3>2. CASE k = M.adopted
      BY <3>1, <3>2 DEF Accepted
    <3>3. CASE k = M.org /\ k # M.adopted
      <4>1. M.mode = "own"
        BY <1>4, <3>1, <3>3 DEF IInv, ModeIsRight, Accepted
      <4>2. used \in Seq(OrgKeys) /\ used # <<>> /\ k = used[Len(used)]
        BY <1>4, <3>3, <4>1 DEF IInv, TypeOK
      <4> QED BY <3>1, <4>2 DEF EndOf
    <3> QED BY <3>1, <3>2, <3>3 DEF Accepted
  <2> QED BY <2>1, <2>2
<1>10. JobFits(h)'
  <2>1. job'[h] = IF last THEN Idle ELSE rest
    BY <1>3 DEF IInv, TypeOK
  <2>2. handle[h].open /\ (handle[h].key # None => M.org = handle[h].key)
    BY <1>1, <1>4, KeysAssumption DEF IInv, JobFits, Idle, NoIngest, TypeOK, Keys
  <2>3. CASE last
    BY <1>1, <2>1, <2>2, <2>3 DEF JobFits, Idle, NoIngest
  <2>4. CASE ~last
    <3>1. rest.stage = "write" /\ ~rest.adopt /\ rest.chain = j.chain
      BY <1>1
    <3>2. job'[h] = rest
      BY <2>1, <2>4
    <3> HIDE DEF rest, j
    <3>3. ChainFits(job[h])'
      BY <1>5, <3>1, <3>2 DEF ChainFits
    <3> QED BY <1>1, <2>2, <3>1, <3>2, <3>3 DEF JobFits
  <2> QED BY <2>3, <2>4
<1> QED BY <1>6, <1>7, <1>8, <1>9, <1>10 DEF IInv

LEMMA EndOfAppend ==
  ASSUME NEW S, NEW T, NEW c \in Seq(S), NEW u \in Seq(T), NEW x \in S, x \in T, EndOf(c, u)
  PROVE  EndOf(Append(c, x), Append(u, x))
<1> DEFINE d == Append(c, x)
           v == Append(u, x)
<1>1. /\ Len(d) = Len(c) + 1 /\ d[Len(c) + 1] = x /\ Len(c) \in Nat
      /\ \A n \in 1..Len(c) : d[n] = c[n]
  BY AppendProperties, LenProperties
<1>2. /\ Len(v) = Len(u) + 1 /\ v[Len(u) + 1] = x /\ Len(u) \in Nat
      /\ \A n \in 1..Len(u) : v[n] = u[n]
  BY AppendProperties, LenProperties
<1>3. Len(c) >= 1 /\ Len(c) <= Len(u) /\ \A n \in 1..Len(c) : c[n] = u[Len(u) - Len(c) + n]
  BY <1>1, <1>2 DEF EndOf
<1> HIDE DEF d, v
<1>4. \A n \in 1..Len(c) : Len(u) - Len(c) + n \in 1..Len(u)
  BY <1>1, <1>2, <1>3
<1>5. ASSUME NEW n \in 1..Len(d)
      PROVE  d[n] = v[Len(v) - Len(d) + n]
  <2>1. Len(v) - Len(d) + n = Len(u) - Len(c) + n
    BY <1>1, <1>2
  <2>2. CASE n = Len(c) + 1
    <3>1. Len(u) - Len(c) + n = Len(u) + 1
      BY <1>1, <1>2, <2>2
    <3> QED BY <1>1, <1>2, <2>1, <2>2, <3>1
  <2>3. CASE n \in 1..Len(c)
    BY <1>1, <1>2, <1>3, <1>4, <2>1, <2>3
  <2> QED BY <1>1, <2>2, <2>3
<1>6. Len(d) \in 1..Len(v)
  BY <1>1, <1>2, <1>3
<1>7. EndOf(d, v)
  BY <1>5, <1>6 DEF EndOf
<1> QED BY <1>7 DEF d, v

\* The new key ends the list and every chain.
LEMMA RotateInv ==
  ASSUME NEW h \in Handles, IInv(h), NEW old \in OrgKeys, NEW new \in OrgKeys,
         Rotate(h, old, new)
  PROVE  IInv(h)'
<1>1. /\ job' = job /\ records' = records /\ used' = Append(used, new)
      /\ handle[h].open /\ job[h] = Idle /\ meta.org = old /\ meta.adopted = None
      /\ rows' = {[who |-> r.who, chain |-> Append(r.chain, new)] : r \in rows}
      /\ Len(used) <= MaxRotations /\ \A n \in 1..Len(used) : used[n] # new
  BY DEF Rotate, MayRotate
<1>0. \A q \in rows' : \E r \in rows : q = [who |-> r.who, chain |-> Append(r.chain, new)]
  BY <1>1
<1>2. /\ used \in Seq(OrgKeys) /\ rows \subseteq [who : People, chain : Seq(Keys)]
      /\ MaxRotations \in Nat /\ new \in Keys /\ new # None /\ old # None
  BY KeysAssumption DEF IInv, TypeOK, Keys
<1>3. /\ used' \in Seq(OrgKeys) /\ used' # <<>> /\ Len(used') = Len(used) + 1
      /\ \A n \in 1..Len(used) : used'[n] = used[n]
      /\ used'[Len(used')] = new
  BY <1>1, <1>2
<1>4. meta.mode = "own"
  BY <1>1, <1>2 DEF IInv, TypeOK, ModeIsRight
<1>5. meta' = [org |-> new, mode |-> "own", adopted |-> None]
  <2>1. meta' = [org |-> new, mode |-> meta.mode, adopted |-> meta.adopted]
    BY DEF Rotate, IInv, TypeOK
  <2> QED BY <1>1, <1>4, <2>1
<1>6. handle' \in [Handles -> [open : BOOLEAN, key : OrgKeys \cup {None}, adopt : BOOLEAN]]
      /\ handle'[h].open /\ handle'[h].key = new
  <2>1. /\ handle \in [Handles -> [open : BOOLEAN, key : OrgKeys \cup {None}, adopt : BOOLEAN]]
        /\ handle' = [handle EXCEPT ![h].key = new]
    BY DEF Rotate, IInv, TypeOK
  <2> QED BY <1>1, <2>1
<1>7. TypeOK'
  <2>1. ASSUME NEW r \in rows
        PROVE  [who |-> r.who, chain |-> Append(r.chain, new)] \in [who : People, chain : Seq(Keys)]
    BY <1>2, AppendProperties
  <2>2. rows' \subseteq [who : People, chain : Seq(Keys)]
    BY <1>0, <2>1
  <2> QED BY <1>1, <1>2, <1>3, <1>5, <1>6, <2>2 DEF IInv, TypeOK, KeyIds
<1>8. ModeIsRight' /\ UsedOnce'
  BY <1>1, <1>2, <1>3, <1>5 DEF IInv, ModeIsRight, UsedOnce
<1>9. RowsChained'
  <2>1. ASSUME NEW r \in rows
        PROVE  EndOf(Append(r.chain, new), used')
    <3>1. EndOf(r.chain, used) /\ r.chain \in Seq(Keys)
      BY <1>1, <1>2 DEF IInv, RowsChained
    <3> QED BY <1>1, <1>2, <3>1, EndOfAppend
  <2>2. ASSUME NEW q \in rows'
        PROVE  EndOf(q.chain, used')
    <3>1. PICK r \in rows : q = [who |-> r.who, chain |-> Append(r.chain, new)]
      BY <1>0
    <3>2. q.chain = Append(r.chain, new)
      BY <3>1
    <3> QED BY <2>1, <3>2
  <2> QED BY <2>2 DEF RowsChained
<1>10. JobFits(h)'
  BY <1>1, <1>5, <1>6 DEF JobFits, Idle, NoIngest
<1> QED BY <1>7, <1>8, <1>9, <1>10 DEF IInv

LEMMA PutInv ==
  ASSUME NEW h \in Handles, IInv(h), NEW key \in Keys, Put(key)
  PROVE  IInv(h)'
<1>1. TypeOK'
  <2>0. ASSUME NEW p \in People
        PROVE  [who |-> p, chain |-> <<key>>] \in [who : People, chain : Seq(Keys)]
    OBVIOUS
  <2>1. records' \subseteq [who : People, chain : Seq(Keys)]
    <3>1. \A q \in records' : q \in records \/ \E p \in People : q = [who |-> p, chain |-> <<key>>]
      BY DEF Put
    <3>2. records \subseteq [who : People, chain : Seq(Keys)]
      BY DEF IInv, TypeOK
    <3> QED BY <2>0, <3>1, <3>2
  <2> QED BY <2>1 DEF Put, IInv, TypeOK
<1>2. UNCHANGED <<meta, rows, handle, job, used>>
  BY DEF Put
<1>3. ModeIsRight' /\ UsedOnce' /\ RowsChained'
  BY <1>2 DEF IInv, ModeIsRight, UsedOnce, RowsChained
<1>4. JobFits(h)'
  BY <1>2 DEF IInv, JobFits, ChainFits, Accepted
<1> QED BY <1>1, <1>3, <1>4 DEF IInv

LEMMA StutterInv ==
  ASSUME NEW h, IInv(h), UNCHANGED vars
  PROVE  IInv(h)'
<1>1. TypeOK'
  BY DEF vars, IInv, TypeOK
<1>2. ModeIsRight' /\ UsedOnce' /\ RowsChained'
  BY DEF vars, IInv, ModeIsRight, UsedOnce, RowsChained
<1>3. JobFits(h)'
  BY DEF vars, IInv, JobFits, ChainFits, Accepted
<1> QED BY <1>1, <1>2, <1>3 DEF IInv

LEMMA NextInv ==
  ASSUME NEW h, Handles = {h}, IInv(h), [Next]_vars
  PROVE  IInv(h)'
<1>1. CASE \E key \in OrgKeys \cup {None}, adopt \in BOOLEAN : Open(h, key, adopt)
  BY <1>1, OpenInv
<1>2. CASE Claim(h)
  BY <1>2, ClaimInv
<1>3. CASE Close(h)
  BY <1>3, CloseInv
<1>4. CASE \E src \in Sources : IngestRead(h, src)
  BY <1>4, ReadInv
<1>5. CASE \E who \in People : IngestChunk(h, who)
  BY <1>5, ChunkInv
<1>6. CASE \E died \in BOOLEAN : Abort(h, died)
  BY <1>6, AbortInv
<1>7. CASE \E old, new \in OrgKeys : Rotate(h, old, new)
  BY <1>7, RotateInv
<1>8. CASE \E key \in Keys : Put(key)
  BY <1>8, PutInv
<1>9. CASE UNCHANGED vars
  BY <1>9, StutterInv
<1> QED BY <1>1, <1>2, <1>3, <1>4, <1>5, <1>6, <1>7, <1>8, <1>9 DEF Next

-----------------------------------------------------------------------------
(* The theorems, for a ledger that one process at a time uses *)

LEMMA IInvAlways ==
  ASSUME NEW h, Handles = {h}
  PROVE  Spec => []IInv(h)
<1>1. Init => IInv(h)
  BY InitInv
<1>2. IInv(h) /\ [Next]_vars => IInv(h)'
  BY NextInv
<1> QED BY <1>1, <1>2, PTL DEF Spec

\* The state of meta, rows, records, handles and ingests has its type, and a ledger has
\* at most one org key more than rotations.
THEOREM KeysTypeOK ==
  ASSUME NEW h, Handles = {h}
  PROVE  Spec => []TypeOK
<1>1. Spec => []IInv(h)
  BY IInvAlways
<1>2. IInv(h) => TypeOK
  BY DEF IInv
<1> QED BY <1>1, <1>2, PTL

\* Every principal that ingest stores (_clean_principal) is, after any adoptions and
\* rotations and after ingests cut short anywhere, under a key that meta records.
THEOREM PrincipalsKeyed ==
  ASSUME NEW h, Handles = {h}
  PROVE  Spec => []KeysAccepted
<1>1. Spec => []IInv(h)
  BY IInvAlways
<1>2. IInv(h) => KeysAccepted
  BY ChainedAccepted
<1> QED BY <1>1, <1>2, PTL

\* "Joins inside the ledger survive" any number of rotations (retention.rotate), also of
\* rows that come between them.
THEOREM PersonsJoined ==
  ASSUME NEW h, Handles = {h}
  PROVE  Spec => []JoinsSurvive
<1>1. Spec => []IInv(h)
  BY IInvAlways
<1>2. IInv(h) => JoinsSurvive
  BY ChainedJoins
<1> QED BY <1>1, <1>2, PTL

\* org_key_mode says whose the recorded key is, after any order of _check_meta, _adopt_from
\* and rotate.
THEOREM ModeHolds ==
  ASSUME NEW h, Handles = {h}
  PROVE  Spec => []ModeIsRight
<1>1. Spec => []IInv(h)
  BY IInvAlways
<1>2. IInv(h) => ModeIsRight
  BY DEF IInv
<1> QED BY <1>1, <1>2, PTL

\* Once such a ledger has adopted an export key, neither its org key id nor the adopted
\* one changes (_adoption refuses a second key, rotate refuses an adopted ledger, and
\* _check_meta any other org key).
THEOREM AdoptedForGood ==
  ASSUME NEW h, Handles = {h}
  PROVE  Spec => AdoptedOnce
<1> DEFINE Kept1 == meta.adopted # None => meta'.adopted = meta.adopted /\ meta'.org = meta.org
<1>1. Spec => []IInv(h)
  BY IInvAlways
<1>3. IInv(h) /\ [Next]_vars => [Kept1]_vars
  <2> SUFFICES ASSUME IInv(h), Next, meta.adopted # None
               PROVE  meta'.adopted = meta.adopted /\ meta'.org = meta.org
    OBVIOUS
  <2>1. CASE meta' = meta
    BY <2>1
  <2>2. CASE Claim(h)
    <3>1. meta.org = None /\ used \in Seq(OrgKeys)
      BY <2>2 DEF Claim, IInv, JobFits, TypeOK
    <3>2. used # <<>> => used[Len(used)] \in OrgKeys
      BY <3>1
    <3> QED BY <3>1, <3>2, KeysAssumption DEF IInv, ModeIsRight, TypeOK, Keys
  <2>3. CASE \E who \in People : IngestChunk(h, who)
    BY <2>3 DEF IngestChunk, IInv, JobFits, ChainFits
  <2>4. CASE \E old, new \in OrgKeys : Rotate(h, old, new)
    BY <2>4 DEF Rotate, MayRotate
  <2> QED BY <2>1, <2>2, <2>3, <2>4 DEF Next, Open, Close, IngestRead, Abort, Put
<1> QED BY <1>1, <1>3, PTL DEF Spec, AdoptedOnce
=============================================================================
