-------------------------------- MODULE Keys --------------------------------
(***************************************************************************)
(* The key spaces of a ledger: which pseudonyms it keeps, adopts, re-keys  *)
(* (store/db.py: opening, key-id adoption, write-time privacy of ingest;   *)
(* store/pseudonym.py; store/retention.py: rotate; copilot/record_store.py:*)
(* put, in the same SQLite file).  A handle is a SqliteStore that some     *)
(* process has open; with one handle the ledger is not shared.  An ingest  *)
(* reads meta, cleans its principals and then writes them in several       *)
(* transactions.                                                           *)
(*                                                                         *)
(* A pseudonym is the person and the chain of keys that were applied, as   *)
(* pseudonym(new, "p", pseudonym(old, "p", ref)) after a rotation; no two  *)
(* keys or persons collide.                                                *)
(***************************************************************************)
EXTENDS Integers, Sequences, FiniteSets

CONSTANTS
  Handles,      \* open or closed SqliteStore objects
  OrgKeys,      \* the keys that are used as an org key
  ExportKeys,   \* the keys of copilot-export bundles
  People,
  None,         \* "" in meta, None in the code: no key
  MaxRotations  \* bound on the rotations

Keys == OrgKeys \cup ExportKeys
KeyIds == Keys \cup {None}

ASSUME KeysAssumption ==
  /\ MaxRotations \in Nat
  /\ OrgKeys \cap ExportKeys = {} /\ None \notin Keys

VARIABLES
  meta,     \* org_key_id, org_key_mode, adopted_key_id
  rows,     \* the principals of the ledger's requests and cost lines
  records,  \* the principals of the record store's licenses and activity days
  handle,   \* the handles' own org key and adopt_key_ids flag, or Closed
  job,      \* what a handle is in the middle of
  used      \* the org keys the ledger has had, in turn

vars == <<meta, rows, records, handle, job, used>>

Closed == [open |-> FALSE, key |-> None, adopt |-> FALSE]
NoIngest(stage) == [stage |-> stage, adopt |-> FALSE, key |-> None, org |-> None,
                    chain |-> <<>>, todo |-> {}]
Idle == NoIngest("idle")

\* Mutant: the keys before a rotation are accepted too.
AcceptedEver == ({meta.org, meta.adopted} \cup {used[n] : n \in 1..Len(used)}) \ {None}
\* accepted_key_ids, principal_ids: the key ids whose p_ values are kept.
Accepted == {meta.org, meta.adopted} \ {None}

Init ==
  /\ meta = [org |-> None, mode |-> "none", adopted |-> None]
  /\ rows = {} /\ records = {} /\ used = <<>>
  /\ handle = [h \in Handles |-> Closed] /\ job = [h \in Handles |-> Idle]

-----------------------------------------------------------------------------
(* Opening *)

\* _check_meta: "the org key does not match this ledger".
KeyFits(key) == key # None /\ meta.org # None => meta.org = key

\* _check_meta reads the org key id; a missing one is set in a transaction of its own.
Open(h, key, adopt) ==
  /\ handle[h] = Closed /\ KeyFits(key)
  /\ handle' = [handle EXCEPT ![h] = [open |-> TRUE, key |-> key, adopt |-> adopt]]
  /\ job' = [job EXCEPT ![h] =
                NoIngest(IF key # None /\ meta.org = None THEN "claim" ELSE "idle")]
  /\ UNCHANGED <<meta, rows, records, used>>

Claim(h) ==
  /\ job[h].stage = "claim"
  /\ meta' = [meta EXCEPT !.org = handle[h].key, !.mode = "own"]
  /\ used' = Append(used, handle[h].key)
  /\ job' = [job EXCEPT ![h] = Idle]
  /\ UNCHANGED <<rows, records, handle>>

Close(h) ==
  /\ handle[h].open /\ job[h] = Idle
  /\ handle' = [handle EXCEPT ![h] = Closed]
  /\ UNCHANGED <<meta, rows, records, job, used>>

-----------------------------------------------------------------------------
(* Ingest *)

\* Sources: export bundles, imports and collector files.  Their principals are made
\* under src.key (p_), or are made by the store with its own key (r_, c_).
Sources == [export : {TRUE}, key : ExportKeys, raw : {FALSE}]
           \cup [export : {FALSE}, key : Keys, raw : {FALSE}]
           \cup [export : {FALSE}, key : {None}, raw : {TRUE}]

\* _adoption: the first export bundle of a ledger that adopts.
WantsAdoption(h, src) ==
  handle[h].adopt /\ src.export /\ src.key \notin {meta.org, meta.adopted}

\* _adoption: "this store already adopted another export key id" (UsageError).
AdoptionAllowed(h, src) == WantsAdoption(h, src) => meta.adopted = None

\* Mutant: principals are kept under any key.
KeptAny(h, src) == TRUE
\* _clean_principal: raw ones are made here, the others kept under an accepted key.
Kept(h, src) == src.raw \/ src.key \in Accepted \/ WantsAdoption(h, src)

\* The source is cleaned with the meta that is read here, before the first transaction.
\* Raw principals without an own key raise PrivacyError.
IngestRead(h, src) ==
  /\ handle[h].open /\ job[h] = Idle
  /\ src.raw => handle[h].key # None
  /\ AdoptionAllowed(h, src)
  /\ job' = [job EXCEPT ![h] =
       [stage |-> "write", adopt |-> WantsAdoption(h, src), key |-> src.key, org |-> meta.org,
        chain |-> IF ~Kept(h, src) THEN <<>>
                  ELSE <<IF src.raw THEN handle[h].key ELSE src.key>>,
        todo |-> People]]
  /\ UNCHANGED <<meta, rows, records, handle, used>>

\* Mutant: the adopted key is always recorded as the ledger's own.
AdoptFromAlways(j) == [org |-> j.key, mode |-> "adopted", adopted |-> j.key]
\* Mutant: beside an own key, that key is recorded as the adopted one.
AdoptFromOwn(j) == [org |-> IF j.org = None THEN j.key ELSE meta.org,
                    mode |-> IF j.org = None THEN "adopted" ELSE meta.mode,
                    adopted |-> IF j.org = None THEN j.key ELSE j.org]
\* _adopt_from, by the org key id that was read before the transaction.
AdoptFrom(j) == [org |-> IF j.org = None THEN j.key ELSE meta.org,
                 mode |-> IF j.org = None THEN "adopted" ELSE meta.mode,
                 adopted |-> j.key]

\* A chunk of rows is committed, the first together with the adoption; a nulled
\* principal leaves none.
IngestChunk(h, who) ==
  /\ job[h].stage = "write" /\ who \in job[h].todo
  /\ meta' = IF job[h].adopt THEN AdoptFrom(job[h]) ELSE meta
  /\ rows' = IF job[h].chain = <<>> THEN rows
             ELSE rows \cup {[who |-> who, chain |-> job[h].chain]}
  /\ job' = [job EXCEPT ![h] = IF job[h].todo = {who} THEN Idle
                               ELSE [job[h] EXCEPT !.adopt = FALSE, !.todo = job[h].todo \ {who}]]
  /\ UNCHANGED <<records, handle, used>>

\* The process dies or the transaction fails and is rolled back; what was committed stays.
Abort(h, died) ==
  /\ job[h] # Idle
  /\ job' = [job EXCEPT ![h] = Idle]
  /\ handle' = IF died \/ job[h].stage = "claim" THEN [handle EXCEPT ![h] = Closed] ELSE handle
  /\ UNCHANGED <<meta, rows, records, used>>

-----------------------------------------------------------------------------
(* Rotation and the record store *)

\* Mutant: rotation of a ledger that has adopted an export key.
MayRotateAlways(old, new) == meta.org = old /\ old # new
\* rotate: the ledger's current key, and no rows of an adopted key space among them.
MayRotate(old, new) == meta.org = old /\ old # new /\ meta.adopted = None

\* rotate and rotate_key, one transaction: every principal of the ledger is made anew.
\* The caller has the old key, and makes a new one.
Rotate(h, old, new) ==
  /\ handle[h].open /\ job[h] = Idle /\ MayRotate(old, new)
  /\ \A n \in 1..Len(used) : used[n] # new
  /\ Len(used) <= MaxRotations
  /\ rows' = {[who |-> r.who, chain |-> Append(r.chain, new)] : r \in rows}
  /\ meta' = [meta EXCEPT !.org = new]
  /\ handle' = [handle EXCEPT ![h].key = new]
  /\ used' = Append(used, new)
  /\ UNCHANGED <<records, job>>

\* CopilotRecordStore.put, on a connection of its own: the person rows of a result are
\* stored under a key that meta accepts within the transaction, the others skipped.
Put(key) ==
  /\ key \in Accepted
  /\ records' = records \cup {[who |-> p, chain |-> <<key>>] : p \in People}
  /\ UNCHANGED <<meta, rows, handle, job, used>>

-----------------------------------------------------------------------------
Next ==
  \/ \E h \in Handles :
       \/ \E key \in OrgKeys \cup {None}, adopt \in BOOLEAN : Open(h, key, adopt)
       \/ Claim(h) \/ Close(h)
       \/ \E src \in Sources : IngestRead(h, src)
       \/ \E who \in People : IngestChunk(h, who)
       \/ \E died \in BOOLEAN : Abort(h, died)
       \/ \E old, new \in OrgKeys : Rotate(h, old, new)
  \/ \E key \in Keys : Put(key)

Spec == Init /\ [][Next]_vars

-----------------------------------------------------------------------------
(* Properties *)

TypeOK ==
  /\ meta \in [org : KeyIds, mode : {"none", "own", "adopted"}, adopted : ExportKeys \cup {None}]
  /\ rows \subseteq [who : People, chain : Seq(Keys)]
  /\ records \subseteq [who : People, chain : Seq(Keys)]
  /\ handle \in [Handles -> [open : BOOLEAN, key : OrgKeys \cup {None}, adopt : BOOLEAN]]
  /\ job \in [Handles -> [stage : {"idle", "claim", "write"}, adopt : BOOLEAN, key : KeyIds,
                          org : KeyIds, chain : Seq(Keys), todo : SUBSET People]]
  /\ used \in Seq(OrgKeys) /\ Len(used) <= MaxRotations + 1

\* Every principal of the ledger was last keyed with a key the ledger records: values
\* of a key it does not know would count as other persons for ever.
KeysAccepted == \A r \in rows : r.chain # <<>> /\ r.chain[Len(r.chain)] \in Accepted

\* "equal values stay equal (joins inside the ledger survive)": a person of one key
\* space has one pseudonym in the ledger, however often its key was rotated.
JoinsSurvive ==
  \A r, s \in rows : r.who = s.who /\ r.chain[1] = s.chain[1] => r.chain = s.chain

\* An own key and an adopted one are never mistaken for each other: the mode says
\* whose the recorded org key is, whatever was adopted, claimed or rotated since.
ModeIsRight ==
  /\ meta.mode = "adopted" => meta.org = meta.adopted /\ meta.org # None /\ used = <<>>
  /\ meta.mode = "own" => used # <<>> /\ meta.org = used[Len(used)]
  /\ meta.mode = "none" => meta.org = None /\ meta.adopted = None /\ rows = {}

\* SqliteStore: "a second bundle under another key id raises UsageError"; rotate: an
\* adopted ledger "refuses".  Once a key is adopted, no bundle, claim or rotation
\* changes the key ids the ledger goes by.
AdoptedOnce ==
  [][meta.adopted # None => meta'.adopted = meta.adopted /\ meta'.org = meta.org]_vars

\* rotate: "the old key no longer relates to stored values" (of the file: the ledger's
\* tables and the record store's).
OldKeyGone ==
  \A r \in rows \cup records : \A n \in 1..(Len(used) - 1) : r.chain[Len(r.chain)] # used[n]
=============================================================================
