------------------------- MODULE CopilotPullProofs --------------------------
(***************************************************************************)
(* Proofs about the resumable pull: for every plan of units, every number  *)
(* of parts and chunks and every bound on failures, a unit that the        *)
(* manifest calls complete is whole and stays as it is, the manifest lists *)
(* what the directory holds, and a file gets its final name when its       *)
(* answer has ended.                                                       *)
(***************************************************************************)
EXTENDS CopilotPull, FiniteSetTheorems, WellFoundedInduction, TLAPS

-----------------------------------------------------------------------------
(* Least elements *)

\* A set of naturals has a least element.
LEMMA LeastNat ==
  ASSUME NEW S, S \subseteq Nat, S # {}
  PROVE  \E x \in S : \A y \in S : x <= y
<1> DEFINE less == OpToRel(<, Nat)
<1>1. \A x, y \in Nat : <<x, y>> \in less <=> x < y
  BY DEF OpToRel
<1> HIDE DEF less
<1>2. PICK x \in S : \A y \in S : ~(<<y, x>> \in less)
  BY NatLessThanWellFounded, WFMin DEF less
<1>3. \A y \in S : ~(y < x)
  BY <1>1, <1>2
<1> QED BY <1>3

-----------------------------------------------------------------------------

FilesOf(v) == {v} \X PartsOf(v)
Fetches == {"fetch", "scan", "rename"}
ExportSteps == {"status", "post", "poll", "links"}
ExportRows == [unit : ExportUnits, state : {"processing", "completed", "failed", "gone"}]

\* A part that was fetched, for the export in progress, until its answer ended.
IsPart(c) == c.src = ctx /\ (c.n = Chunks \/ c.short)

-----------------------------------------------------------------------------
(* The inductive invariant *)

\* Which unit, and which export, a step may be about.
Placed ==
  /\ InUnit \/ (pc = "save" /\ next = "unit") => i <= Len(Plan)
  /\ pc \in ExportSteps => u \in ExportUnits
  /\ pc = "status" => prev.export # None
  /\ pc = "answer" => u \in MetricsUnits
  /\ pc \in {"poll", "links"} \/ (pc \in Fetches /\ u \in ExportUnits) => ctx # None

\* The recorder holds files of its unit only, ended ones but for the part at hand, which
\* holds what has arrived; a commit moves them one by one.
Fetching ==
  /\ pc \notin Fetches => rec = {}
  /\ InUnit => todo \subseteq PartsOf(u)
  /\ pc \in Fetches => rec \subseteq FilesOf(u)
  /\ pc \in {"scan", "rename"} => todo = {}
  /\ sent # 0 => pc = "fetch" /\ todo # {}
  /\ pc = "fetch" /\ todo # {} =>
       sent < Chunks /\ sent = IF part \in rec THEN partial[part].n ELSE 0
  /\ pc \in {"fetch", "scan"} =>
       \A f \in rec : IF f[2] \in todo THEN f = part ELSE IsPart(partial[f])
  /\ pc = "rename" =>
       \A f \in rec : IsPart(partial[f]) \/ (partial[f] = NoFile /\ IsPart(visible[f]))

\* An entry names files and an export of its own unit.
Owned(e) ==
  \A v \in Units :
    /\ e[v].files \subseteq FilesOf(v)
    /\ e[v].export = None \/ (e[v].export \in DOMAIN exports /\ exports[e[v].export].unit = v)
CtxOwned == InUnit => ctx = None \/ (ctx \in DOMAIN exports /\ exports[ctx].unit = u)

\* What CompleteIsWhole says of manifest.json, also for the entries in memory.
WholeEntries(e) ==
  \A v \in Units : e[v].status = "complete" =>
    /\ \A f \in e[v].files : visible[f] # NoFile
    /\ \A f, g \in e[v].files : visible[f].src = visible[g].src
    /\ v \in ExportUnits => \A f \in e[v].files :
         visible[f].src \in DOMAIN exports /\ exports[visible[f].src].unit = v

\* The entries in memory differ from the file only in the unit at hand, and that one is
\* not complete in the file.
Working ==
  /\ pc \notin {"idle", "save"} => entries = manifest
  /\ pc = "save" => \A v \in Units :
       entries[v] = manifest[v] \/ (i <= Len(Plan) /\ v = u /\ manifest[v].status # "complete")
  /\ InUnit => manifest[u].status # "complete"

\* ListedExactly, also while a run is in progress.
Listing ==
  \A f \in Files : f[1] \notin tangled =>
    (visible[f] # NoFile <=>
       \/ pc = "rename" /\ f \in rec \ Unmoved
       \/ f \in (IF pc = "save" THEN entries ELSE manifest)[f[1]].files)

DirInv == /\ Owned(manifest) /\ Owned(entries)
          /\ WholeEntries(manifest) /\ WholeEntries(entries)
          /\ Working /\ Listing /\ NoPartVisible
PullInv == TypeOK /\ Placed /\ Fetching /\ CtxOwned /\ DirInv

-----------------------------------------------------------------------------
(* Facts about the constants *)

\* Every nonempty set of naturals has a smallest element.
LEMMA MinOfNats ==
  ASSUME NEW S, S \subseteq Nat, S # {}
  PROVE  Min(S) \in S /\ \A x \in S : Min(S) <= x
BY LeastNat DEF Min

LEMMA PlanFacts ==
  /\ Len(Plan) \in Nat
  /\ \A k \in 1..Len(Plan) : Plan[k] \in Units
  /\ Chunks \in Nat /\ Chunks > 0 /\ MaxExports \in Nat /\ MaxFaults \in Nat
  /\ MaxRetries \in Nat /\ ExportCap \in Nat
  /\ ExportUnits \subseteq Units /\ MetricsUnits \subseteq Units
  /\ ExportUnits \cap MetricsUnits = {}
  BY PlanAssumption, BoundsAssumption

LEMMA PartFacts ==
  ASSUME NEW v \in Units
  PROVE  /\ PartsOf(v) \subseteq Nat
         /\ v \notin ExportUnits => PartsOf(v) = {0}
         /\ v \in ExportUnits => \A s \in Shapes[v] : s \subseteq PartsOf(v)
<1>1. CASE v \in ExportUnits
  <2>1. Shapes[v] \in (SUBSET ((SUBSET Nat) \ {{}}))
    BY <1>1, BoundsAssumption
  <2>2. \A s \in Shapes[v] : s \subseteq Nat
    BY <2>1
  <2>3. PartsOf(v) = UNION Shapes[v]
    BY <1>1 DEF PartsOf
  <2> QED BY <1>1, <2>2, <2>3
<1>2. CASE v \notin ExportUnits
  BY <1>2 DEF PartsOf
<1> QED BY <1>1, <1>2

LEMMA FileFacts ==
  /\ \A v \in Units : FilesOf(v) \subseteq Files
  /\ \A f \in Files : f[1] \in Units /\ f \in FilesOf(f[1]) /\ f[2] \in PartsOf(f[1])
                      /\ f = <<f[1], f[2]>>
  /\ \A v \in Units : \A f \in FilesOf(v) : f[1] = v /\ f[2] \in PartsOf(v) /\ f = <<v, f[2]>>
  /\ \A v \in Units : \A p \in PartsOf(v) : <<v, p>> \in FilesOf(v)
  BY DEF Files, FilesOf

LEMMA UnitFacts ==
  ASSUME TypeOK, i <= Len(Plan)
  PROVE  /\ u \in Units /\ i \in 1..Len(Plan)
         /\ prev \in Entries /\ prev.files \subseteq Files /\ prev.export \in 0..MaxExports
         /\ prev.status \in Statuses
<1>1. i \in 1..Len(Plan)
  BY PlanFacts DEF TypeOK
<1>2. u \in Units
  BY <1>1, PlanFacts DEF u
<1>3. prev \in Entries
  BY <1>2 DEF prev, TypeOK
<1> QED BY <1>1, <1>2, <1>3 DEF Entries

-----------------------------------------------------------------------------
(* Steps inside a unit *)

\* GitHub's exports only grow, and an export stays its unit's.
ExportsKept ==
  /\ exports' \in Seq(ExportRows) /\ Len(exports') <= MaxExports
  /\ \A k \in DOMAIN exports : k \in DOMAIN exports' /\ exports'[k].unit = exports[k].unit

LEMMA SameExports ==
  ASSUME TypeOK, UNCHANGED exports
  PROVE  ExportsKept
  BY DEF TypeOK, ExportsKept, ExportRows

\* The directory and the entries stay while the steps are those of one class.
LEMMA DirKept ==
  ASSUME PullInv, ExportsKept, UNCHANGED <<visible, manifest, entries, tangled, i>>,
         pc \notin {"idle", "save", "rename"}, pc' \notin {"idle", "save", "rename"},
         InUnit' => manifest[u].status # "complete"
  PROVE  DirInv'
<1>1. Owned(manifest)' /\ Owned(entries)'
  BY DEF PullInv, DirInv, Owned, ExportsKept, FilesOf, PartsOf
<1>2. WholeEntries(manifest)' /\ WholeEntries(entries)'
  BY DEF PullInv, DirInv, WholeEntries, ExportsKept
<1>3. Working'
  BY DEF PullInv, DirInv, Working, InUnit, u
<1>4. Listing'
  BY DEF PullInv, DirInv, Listing
<1>5. NoPartVisible'
  BY DEF PullInv, DirInv, NoPartVisible
<1> QED BY <1>1, <1>2, <1>3, <1>4, <1>5 DEF DirInv

\* A step of the unit's conversation with GitHub that leaves the directory alone.
LEMMA UnitStep ==
  ASSUME PullInv, UNCHANGED <<visible, manifest, listed, recent, tangled, loop>>,
         i <= Len(Plan), pc \notin {"idle", "save", "rename"}, manifest[u].status # "complete",
         InUnit', pc' # "rename", ExportsKept,
         partial' \in [Files -> Contents], made' \in BOOLEAN, sent' \in 0..Chunks,
         ctx' = None \/ (ctx' \in DOMAIN exports' /\ exports'[ctx'].unit = u),
         faults' \in 0..MaxFaults, waited' \in 0..ExportCap,
         req' \in [attempt : 0..MaxRetries, reauthed : BOOLEAN],
         todo' \subseteq PartsOf(u), rec' \subseteq FilesOf(u), Placed', Fetching'
  PROVE  PullInv'
<1>1. u \in Units /\ UNCHANGED <<i, entries, blocked, next>>
  BY UnitFacts DEF PullInv, loop
<1>2. DirInv'
  BY <1>1, DirKept DEF PullInv, InUnit
<1>3. TypeOK'
  <2>1. todo' \subseteq UNION {PartsOf(v) : v \in Units} /\ rec' \subseteq Files
    BY <1>1, FileFacts
  <2>2. ctx' \in 0..Len(exports')
    <3>1. DOMAIN exports' = 1..Len(exports') /\ Len(exports') \in Nat
      BY DEF ExportsKept
    <3> QED BY <3>1 DEF None
  <2> QED BY <1>1, <2>1, <2>2 DEF PullInv, TypeOK, ExportsKept, ExportRows, InUnit
<1>4. CtxOwned'
  BY <1>1 DEF CtxOwned, u
<1> QED BY <1>2, <1>3, <1>4 DEF PullInv

\* Before anything is fetched the recorder is empty.
LEMMA AskStep ==
  ASSUME PullInv, UNCHANGED <<visible, manifest, listed, partial, recent, tangled, loop>>,
         i <= Len(Plan), pc \in ExportSteps \cup {"unit", "answer"},
         manifest[u].status # "complete",
         pc' \in ExportSteps \cup {"answer", "fetch"}, rec' = {}, ExportsKept,
         made' \in BOOLEAN, sent' = 0,
         ctx' = None \/ (ctx' \in DOMAIN exports' /\ exports'[ctx'].unit = u),
         faults' \in 0..MaxFaults, waited' \in 0..ExportCap,
         req' \in [attempt : 0..MaxRetries, reauthed : BOOLEAN],
         todo' \subseteq PartsOf(u), Placed'
  PROVE  PullInv'
<1>1. UNCHANGED i
  BY DEF loop
<1>2. Fetching'
  BY <1>1, PlanFacts DEF Fetching, Fetches, ExportSteps, InUnit, u, PartsOf
<1>3. InUnit' /\ pc' # "rename" /\ pc \notin {"idle", "save", "rename"}
  BY DEF InUnit, ExportSteps
<1>4. partial' \in [Files -> Contents] /\ sent' \in 0..Chunks
  BY PlanFacts DEF PullInv, TypeOK
<1> QED BY <1>2, <1>3, <1>4, UnitStep

LEMMA FreshOK == Fresh \in [attempt : 0..MaxRetries, reauthed : BOOLEAN]
  BY PlanFacts DEF Fresh

\* What holds of the unit at hand.
LEMMA InUnitFacts ==
  ASSUME PullInv, InUnit
  PROVE  /\ i <= Len(Plan) /\ u \in Units /\ manifest[u].status # "complete"
         /\ entries = manifest
         /\ ctx = None \/ (ctx \in DOMAIN exports /\ exports[ctx].unit = u)
         /\ prev.export = None
              \/ (prev.export \in DOMAIN exports /\ exports[prev.export].unit = u)
         /\ pc \notin {"idle", "save"}
<1>1. i <= Len(Plan) /\ pc \notin {"idle", "save"}
  BY DEF PullInv, Placed, InUnit
<1>2. u \in Units
  BY <1>1, UnitFacts DEF PullInv
<1> QED BY <1>1, <1>2 DEF PullInv, DirInv, Working, CtxOwned, Owned, prev

LEMMA FaultOK ==
  ASSUME TypeOK, Fault
  PROVE  faults' \in 0..MaxFaults
  BY PlanFacts DEF TypeOK, Fault

\* A unit that ends without new files.
LEMMA CloseStep ==
  ASSUME PullInv, InUnit, NEW status \in Statuses \ {"complete"}, NEW export,
         export = None \/ (export \in DOMAIN exports /\ exports[export].unit = u),
         NEW then \in {"unit", "idle"}, Close(status, export, then),
         blocked' \in BOOLEAN, faults' \in 0..MaxFaults, ExportsKept, UNCHANGED recent,
         tangled \subseteq tangled', tangled' \subseteq Units,
         pc = "rename" /\ Unmoved # rec => u \in tangled'
  PROVE  PullInv'
<1>1. /\ i <= Len(Plan) /\ u \in Units /\ manifest[u].status # "complete" /\ entries = manifest
  BY InUnitFacts
<1>2. /\ UNCHANGED <<visible, manifest, listed, made, i, ctx, waited, req, todo>>
      /\ rec' = {} /\ sent' = 0
      /\ pc' = "save" /\ next' = then
      /\ partial' = [f \in Files |-> IF f \in rec THEN NoFile ELSE partial[f]]
      /\ entries' = [entries EXCEPT ![u] =
                       [status |-> status, files |-> @.files, export |-> export]]
  BY DEF Close, discard
<1>3. /\ export \in 0..MaxExports
  BY PlanFacts DEF PullInv, TypeOK, None
<1>4. entries' \in [Units -> Entries] /\ u' = u
  BY <1>1, <1>2, <1>3 DEF PullInv, TypeOK, Entries, u
<1>5. /\ \A v \in Units : entries'[v].files = entries[v].files
      /\ \A v \in Units \ {u} : entries'[v] = entries[v]
      /\ entries'[u].status # "complete" /\ entries'[u].export = export
  BY <1>1, <1>2 DEF PullInv, TypeOK, Entries
<1>6. TypeOK'
  <2>1. partial' \in [Files -> Contents]
    BY <1>2, PlanFacts DEF PullInv, TypeOK, Contents, NoFile, None
  <2>2. sent' \in 0..Chunks
    BY <1>2, PlanFacts
  <2>3. ctx' \in 0..Len(exports')
    <3>1. Len(exports) \in Nat /\ Len(exports') \in Nat /\ DOMAIN exports = 1..Len(exports)
          /\ DOMAIN exports' = 1..Len(exports') /\ DOMAIN exports \subseteq DOMAIN exports'
      BY DEF ExportsKept, PullInv, TypeOK
    <3>2. ctx' \in 0..Len(exports)
      BY <1>2 DEF PullInv, TypeOK
    <3> QED BY <3>1, <3>2
  <2> QED BY <1>2, <1>4, <2>1, <2>2, <2>3 DEF PullInv, TypeOK, InUnit, ExportsKept, ExportRows
<1>7. Placed' /\ Fetching' /\ CtxOwned'
  BY <1>1, <1>2 DEF Placed, Fetching, CtxOwned, InUnit, Fetches, ExportSteps
<1>8. Owned(manifest)' /\ Owned(entries)'
  BY <1>2, <1>5 DEF PullInv, DirInv, Owned, ExportsKept, FilesOf, PartsOf
<1>9. WholeEntries(manifest)' /\ WholeEntries(entries)'
  BY <1>2, <1>5 DEF PullInv, DirInv, WholeEntries, ExportsKept
<1>10. Working'
  BY <1>1, <1>2, <1>4, <1>5 DEF Working, InUnit
<1>11. Listing'
  <2> SUFFICES ASSUME NEW f \in Files, f[1] \notin tangled'
               PROVE  visible[f] # NoFile <=> f \in entries'[f[1]].files
    BY <1>2 DEF Listing
  <2>1. visible[f] # NoFile <=>
          ((pc = "rename" /\ f \in rec \ Unmoved) \/ f \in manifest[f[1]].files)
    BY DEF PullInv, DirInv, Listing, InUnit
  <2>2. ~(pc = "rename" /\ f \in rec \ Unmoved)
    <3>1. ASSUME pc = "rename", f \in rec \ Unmoved PROVE FALSE
      <4>1. f[1] = u
        BY <1>1, <3>1, FileFacts DEF PullInv, Fetching, Fetches
      <4> QED BY <3>1, <4>1
    <3> QED BY <3>1
  <2>3. f[1] \in Units
    BY FileFacts
  <2> QED BY <1>1, <1>5, <2>1, <2>2, <2>3
<1>12. NoPartVisible'
  BY <1>2 DEF PullInv, DirInv, NoPartVisible
<1> QED BY <1>6, <1>7, <1>8, <1>9, <1>10, <1>11, <1>12 DEF PullInv, DirInv

\* The same outside a commit, where nothing gets tangled.
LEMMA CloseUncut ==
  ASSUME PullInv, InUnit, pc # "rename", NEW status \in Statuses \ {"complete"}, NEW export,
         export = None \/ (export \in DOMAIN exports /\ exports[export].unit = u),
         NEW then \in {"unit", "idle"}, Close(status, export, then),
         blocked' \in BOOLEAN, faults' \in 0..MaxFaults, UNCHANGED world
  PROVE  PullInv'
<1>1. UNCHANGED <<exports, recent>> /\ tangled' = tangled /\ tangled' \subseteq Units
  BY DEF world, PullInv, TypeOK
<1>2. ExportsKept
  BY <1>1, SameExports DEF PullInv
<1> QED BY <1>1, <1>2, CloseStep

LEMMA ClosingStatuses == {"incomplete", "not_ready", "forbidden"} \subseteq Statuses \ {"complete"}
  BY DEF Statuses

-----------------------------------------------------------------------------
(* The conversation with GitHub *)

LEMMA NotDone ==
  ASSUME PullInv, pc = "unit", i <= Len(Plan), ~Done
  PROVE  /\ u \in Units /\ entries = manifest /\ manifest[u].status # "complete"
         /\ prev.export = None
              \/ (prev.export \in DOMAIN exports /\ exports[prev.export].unit = u)
<1>1. u \in Units
  BY UnitFacts DEF PullInv
<1>2. entries = manifest
  BY DEF PullInv, DirInv, Working
<1>3. manifest[u].status = "complete" => Done
  BY <1>1, <1>2 DEF PullInv, DirInv, WholeEntries, Done, prev
<1> QED BY <1>1, <1>2, <1>3 DEF PullInv, DirInv, Owned, prev

LEMMA BeginStep ==
  ASSUME PullInv, Begin
  PROVE  PullInv'
<1>1. /\ pc = "unit" /\ i <= Len(Plan) /\ ~Done /\ UNCHANGED <<dir, world, faults, loop>>
      /\ ctx' = None /\ waited' = 0 /\ req' = Fresh /\ rec' = {} /\ sent' = 0
      /\ todo' = IF u \in ExportUnits \cup MetricsUnits THEN {} ELSE {0}
  BY DEF Begin
<1>2. pc' = CASE u \in ExportUnits -> IF prev.export = None THEN "post" ELSE "status"
              [] u \in MetricsUnits -> "answer"
              [] OTHER -> "fetch"
  BY DEF Begin
<1>3. /\ UNCHANGED <<visible, manifest, listed, partial, recent, tangled, exports, i, entries>>
      /\ UNCHANGED made /\ u' = u /\ prev' = prev
  BY <1>1 DEF dir, world, loop, u, prev
<1>4. u \in Units /\ manifest[u].status # "complete"
  BY <1>1, NotDone
<1>5. /\ pc' \in ExportSteps \cup {"answer", "fetch"}
      /\ pc' \in ExportSteps => u \in ExportUnits
      /\ pc' \in {"status", "post", "answer", "fetch"}
      /\ pc' = "status" => prev.export # None
      /\ pc' = "answer" => u \in MetricsUnits
      /\ pc' = "fetch" => u \notin ExportUnits
  BY <1>2, PlanFacts DEF ExportSteps
<1>6. Placed'
  BY <1>1, <1>3, <1>5 DEF Placed, ExportSteps, Fetches, InUnit
<1>7. todo' \subseteq PartsOf(u)
  BY <1>1, <1>4, PartFacts
<1>8. faults' \in 0..MaxFaults /\ waited' \in 0..ExportCap /\ made' \in BOOLEAN
  BY <1>1, <1>3, PlanFacts DEF PullInv, TypeOK
<1>9. ExportsKept
  BY <1>3, SameExports DEF PullInv
<1> QED BY <1>1, <1>3, <1>4, <1>5, <1>6, <1>7, <1>8, <1>9, FreshOK, AskStep

\* A request is answered or repeated before anything is fetched.
LEMMA AskWithin ==
  ASSUME PullInv, pc \in ExportSteps \cup {"answer"},
         UNCHANGED <<visible, partial, manifest, listed, recent, tangled, loop, rec, sent>>,
         made' \in BOOLEAN, ExportsKept,
         pc' \in ExportSteps \cup {"answer", "fetch"},
         pc' \in ExportSteps => u \in ExportUnits,
         pc' = "status" => prev.export # None, pc' = "answer" => u \in MetricsUnits,
         ctx' = None \/ (ctx' \in DOMAIN exports' /\ exports'[ctx'].unit = u),
         pc' \in {"poll", "links"} \/ (pc' = "fetch" /\ u \in ExportUnits) => ctx' # None,
         faults' \in 0..MaxFaults, waited' \in 0..ExportCap,
         req' \in [attempt : 0..MaxRetries, reauthed : BOOLEAN], todo' \subseteq PartsOf(u)
  PROVE  PullInv'
<1>1. InUnit
  BY DEF InUnit, ExportSteps
<1>2. i <= Len(Plan) /\ manifest[u].status # "complete"
  BY <1>1, InUnitFacts
<1>3. /\ UNCHANGED <<visible, manifest, listed, partial, i, entries>> /\ u' = u /\ prev' = prev
  BY DEF loop, u, prev
<1>4. rec' = {} /\ sent' = 0
  BY DEF PullInv, Fetching, Fetches, ExportSteps
<1>5. Placed'
  BY <1>2, <1>3 DEF Placed, ExportSteps, Fetches, InUnit
<1> QED BY <1>2, <1>3, <1>4, <1>5, AskStep

LEMMA ExportStatusStep ==
  ASSUME PullInv, ExportStatus
  PROVE  PullInv'
<1>1. /\ pc = "status" /\ InUnit /\ u \in ExportUnits /\ prev.export # None
      /\ UNCHANGED <<dir, exports, recent, tangled, faults, loop, waited, todo, rec, sent>>
      /\ req' = Fresh /\ pc' \in {"post", "links", "poll"}
      /\ pc' \in {"links", "poll"} => ctx' = prev.export
      /\ pc' = "post" => ctx' = ctx
  BY DEF PullInv, Placed, ExportStatus, ExportSteps, InUnit, Answered, world
<1>2. /\ ctx = None \/ (ctx \in DOMAIN exports /\ exports[ctx].unit = u)
      /\ prev.export = None \/ (prev.export \in DOMAIN exports /\ exports[prev.export].unit = u)
  BY <1>1, InUnitFacts
<1>3. ExportsKept
  BY <1>1, SameExports DEF PullInv
<1>4. /\ todo' \subseteq PartsOf(u) /\ made' \in BOOLEAN
      /\ UNCHANGED <<visible, partial, manifest, listed>>
  BY <1>1 DEF PullInv, Fetching, TypeOK, dir
<1> QED BY <1>1, <1>2, <1>3, <1>4, FreshOK, AskWithin DEF ExportSteps, PullInv, TypeOK

LEMMA ExportBusyStep ==
  ASSUME PullInv, ExportBusy
  PROVE  PullInv'
<1>1. /\ pc = "post" /\ InUnit /\ u \in ExportUnits /\ UNCHANGED world
  BY DEF PullInv, Placed, ExportBusy, ExportSteps, InUnit
<1>2. faults' \in 0..MaxFaults
  BY FaultOK DEF PullInv, TypeOK, ExportBusy
<1>3. CASE Close("incomplete", None, "unit") /\ blocked' = TRUE
  <2>1. None = None
    OBVIOUS
  <2> QED BY <1>1, <1>2, <1>3, <2>1, ClosingStatuses, CloseUncut
<1>4. CASE /\ waited < ExportCap /\ waited' = waited + 1 /\ Answered("post")
           /\ UNCHANGED <<dir, loop, ctx, todo, rec, sent>>
  <2>1. ctx = None \/ (ctx \in DOMAIN exports /\ exports[ctx].unit = u)
    BY <1>1, InUnitFacts
  <2>2. ExportsKept
    BY <1>1, SameExports DEF PullInv, world
  <2>3. todo' \subseteq PartsOf(u)
    BY <1>1, <1>4 DEF PullInv, Fetching
  <2>4. waited' \in 0..ExportCap /\ made' \in BOOLEAN
    BY <1>4, PlanFacts DEF PullInv, TypeOK, dir
  <2>5. /\ UNCHANGED <<exports, recent, tangled, visible, partial, manifest, listed>>
        /\ pc' = "post" /\ req' = Fresh
    BY <1>1, <1>4 DEF world, Answered, dir
  <2> QED BY <1>1, <1>2, <1>4, <2>1, <2>2, <2>3, <2>4, <2>5, FreshOK, AskWithin DEF ExportSteps
<1> QED BY <1>3, <1>4 DEF ExportBusy

LEMMA AcceptedExport ==
  ASSUME PullInv, Accepted, u \in ExportUnits
  PROVE  /\ ExportsKept /\ Len(exports) + 1 \in DOMAIN exports'
         /\ exports'[Len(exports) + 1].unit = u
         /\ Len(exports) + 1 # None
<1>1. exports \in Seq(ExportRows) /\ Len(exports) < MaxExports /\ Len(exports) \in Nat
  BY DEF PullInv, TypeOK, ExportRows, Accepted
<1>2. /\ [unit |-> u, state |-> "processing"] \in ExportRows
      /\ exports' = Append(exports, [unit |-> u, state |-> "processing"])
  BY DEF Accepted, ExportRows
<1> QED BY <1>1, <1>2, PlanFacts DEF ExportsKept, None

LEMMA ExportPostStep ==
  ASSUME PullInv, ExportPost
  PROVE  PullInv'
<1>1. /\ pc = "post" /\ InUnit /\ u \in ExportUnits /\ Accepted
      /\ ctx' = Len(exports) + 1 /\ pc' = "poll" /\ req' = Fresh
      /\ UNCHANGED <<dir, recent, tangled, faults, loop, waited, todo, rec, sent>>
  BY DEF PullInv, Placed, ExportPost, ExportSteps, InUnit, Answered
<1>2. /\ todo' \subseteq PartsOf(u) /\ faults' \in 0..MaxFaults /\ waited' \in 0..ExportCap
      /\ made' \in BOOLEAN /\ UNCHANGED <<visible, partial, manifest, listed>>
  BY <1>1 DEF PullInv, Fetching, TypeOK, dir
<1> QED BY <1>1, <1>2, AcceptedExport, FreshOK, AskWithin DEF ExportSteps

LEMMA RetryOK ==
  ASSUME TypeOK, MayRetry
  PROVE  [req EXCEPT !.attempt = @ + 1] \in [attempt : 0..MaxRetries, reauthed : BOOLEAN]
<1>1. req \in [attempt : 0..MaxRetries, reauthed : BOOLEAN]
  BY DEF TypeOK
<1>2. req.attempt + 1 \in 0..MaxRetries
  <2>1. req.attempt \in 0..MaxRetries /\ req.attempt < MaxRetries
    BY <1>1 DEF MayRetry
  <2> QED BY <2>1, PlanFacts
<1> QED BY <1>1, <1>2

LEMMA PostLostStep ==
  ASSUME PullInv, PostLost
  PROVE  PullInv'
<1>1. /\ pc = "post" /\ InUnit /\ u \in ExportUnits /\ Accepted /\ Fault
      /\ UNCHANGED <<recent, tangled>>
  BY DEF PullInv, Placed, PostLost, ExportSteps, InUnit
<1>2. faults' \in 0..MaxFaults
  BY <1>1, FaultOK DEF PullInv
<1>3. ctx = None \/ (ctx \in DOMAIN exports /\ exports[ctx].unit = u)
  BY <1>1, InUnitFacts
<1>4. CASE /\ MayRetry /\ req' = [req EXCEPT !.attempt = @ + 1]
           /\ UNCHANGED <<dir, pc, loop, ctx, waited, todo, rec, sent>>
  <2>1. /\ todo' \subseteq PartsOf(u) /\ waited' \in 0..ExportCap
        /\ made' \in BOOLEAN /\ UNCHANGED <<visible, partial, manifest, listed>>
    BY <1>1, <1>4 DEF PullInv, Fetching, TypeOK, dir
  <2>2. req' \in [attempt : 0..MaxRetries, reauthed : BOOLEAN]
    BY <1>4, RetryOK DEF PullInv
  <2>3. ctx' = None \/ (ctx' \in DOMAIN exports' /\ exports'[ctx'].unit = u)
    BY <1>1, <1>3, <1>4, AcceptedExport DEF ExportsKept
  <2> QED BY <1>1, <1>2, <1>4, <2>1, <2>2, <2>3, AcceptedExport, AskWithin DEF ExportSteps
<1>5. CASE Close("incomplete", ctx, "unit") /\ UNCHANGED blocked
  <2>1. blocked' \in BOOLEAN /\ tangled' = tangled /\ tangled' \subseteq Units
    BY <1>1, <1>5 DEF PullInv, TypeOK
  <2>2. ExportsKept
    BY <1>1, AcceptedExport
  <2> QED BY <1>1, <1>2, <1>3, <1>5, <2>1, <2>2, ClosingStatuses, CloseStep
<1> QED BY <1>4, <1>5 DEF PostLost

LEMMA ExportPollStep ==
  ASSUME PullInv, ExportPoll
  PROVE  PullInv'
<1>1. /\ pc = "poll" /\ InUnit /\ u \in ExportUnits /\ UNCHANGED world /\ UNCHANGED faults
      /\ ctx # None
  BY DEF PullInv, Placed, ExportPoll, ExportSteps, InUnit
<1>2. faults' \in 0..MaxFaults /\ blocked \in BOOLEAN
  BY <1>1 DEF PullInv, TypeOK
<1>3. ctx = None \/ (ctx \in DOMAIN exports /\ exports[ctx].unit = u)
  BY <1>1, InUnitFacts
<1>4. CASE \E e \in {None, ctx} : Close("incomplete", e, "unit") /\ blocked' \in {TRUE, blocked}
  <2>1. PICK e \in {None, ctx} : Close("incomplete", e, "unit") /\ blocked' \in {TRUE, blocked}
    BY <1>4
  <2>2. blocked' \in BOOLEAN /\ (e = None \/ (e \in DOMAIN exports /\ exports[e].unit = u))
    BY <1>2, <1>3, <2>1
  <2> QED BY <1>1, <1>2, <2>1, <2>2, ClosingStatuses, CloseUncut
<1>5. CASE /\ waited < ExportCap /\ waited' = waited + 1
           /\ pc' \in {"links", "poll"} /\ req' = Fresh
           /\ UNCHANGED <<dir, loop, ctx, todo, rec, sent>>
  <2>1. UNCHANGED <<exports, recent, tangled, visible, partial, manifest, listed, made>>
    BY <1>1, <1>5 DEF world, dir
  <2>2. ExportsKept
    BY <2>1, SameExports DEF PullInv
  <2>3. todo' \subseteq PartsOf(u)
    BY <1>1, <1>5 DEF PullInv, Fetching
  <2>4. waited' \in 0..ExportCap /\ made' \in BOOLEAN
    BY <1>5, <2>1, PlanFacts DEF PullInv, TypeOK
  <2> QED BY <1>1, <1>2, <1>3, <1>5, <2>1, <2>2, <2>3, <2>4, FreshOK, AskWithin DEF ExportSteps
<1> QED BY <1>4, <1>5 DEF ExportPoll, Answered

LEMMA ExportLinksStep ==
  ASSUME PullInv, ExportLinks
  PROVE  PullInv'
<1>1. /\ pc = "links" /\ InUnit /\ u \in ExportUnits /\ UNCHANGED world /\ ctx # None
  BY DEF PullInv, Placed, ExportLinks, ExportSteps, InUnit
<1>2. CASE /\ todo' \in Shapes[u] /\ Answered("fetch") /\ made' = TRUE
           /\ UNCHANGED <<visible, partial, manifest, listed>>
           /\ UNCHANGED <<loop, ctx, waited, rec, sent, faults>>
  <2>1. UNCHANGED <<exports, recent, tangled>> /\ pc' = "fetch" /\ req' = Fresh
    BY <1>1, <1>2 DEF world, Answered
  <2>2. ExportsKept
    BY <2>1, SameExports DEF PullInv
  <2>3. todo' \subseteq PartsOf(u)
    BY <1>1, <1>2, PlanFacts, PartFacts
  <2>4. faults' \in 0..MaxFaults /\ waited' \in 0..ExportCap /\ made' \in BOOLEAN
    BY <1>2 DEF PullInv, TypeOK
  <2>5. ctx' = None \/ (ctx' \in DOMAIN exports' /\ exports'[ctx'].unit = u)
    BY <1>1, <1>2, <2>1, InUnitFacts
  <2> QED BY <1>1, <1>2, <2>1, <2>2, <2>3, <2>4, <2>5, FreshOK, AskWithin DEF ExportSteps
<1>3. CASE Fault /\ Close("incomplete", None, "unit") /\ UNCHANGED blocked
  <2>1. faults' \in 0..MaxFaults /\ blocked' \in BOOLEAN
    BY <1>3, FaultOK DEF PullInv, TypeOK
  <2> QED BY <1>1, <1>3, <2>1, ClosingStatuses, CloseUncut
<1> QED BY <1>2, <1>3 DEF ExportLinks

LEMMA MetricsAnswerStep ==
  ASSUME PullInv, MetricsAnswer
  PROVE  PullInv'
<1>1. /\ pc = "answer" /\ InUnit /\ u \in MetricsUnits /\ UNCHANGED world
  BY DEF PullInv, Placed, MetricsAnswer, InUnit
<1>2. CASE /\ todo' \in {{}, {0}} /\ Answered("fetch") /\ made' = (made \/ todo' # {})
           /\ UNCHANGED <<visible, partial, manifest, listed>>
           /\ UNCHANGED <<loop, ctx, waited, rec, sent, faults>>
  <2>1. UNCHANGED <<exports, recent, tangled>> /\ pc' = "fetch" /\ req' = Fresh
    BY <1>1, <1>2 DEF world, Answered
  <2>2. ExportsKept
    BY <2>1, SameExports DEF PullInv
  <2>3. todo' \subseteq PartsOf(u) /\ u \notin ExportUnits
    BY <1>1, <1>2, PlanFacts, PartFacts
  <2>4. faults' \in 0..MaxFaults /\ waited' \in 0..ExportCap /\ made' \in BOOLEAN
    BY <1>2 DEF PullInv, TypeOK
  <2>5. ctx' = None \/ (ctx' \in DOMAIN exports' /\ exports'[ctx'].unit = u)
    BY <1>1, <1>2, <2>1, InUnitFacts
  <2> QED BY <1>1, <1>2, <2>1, <2>2, <2>3, <2>4, <2>5, FreshOK, AskWithin DEF ExportSteps
<1>3. CASE Fault /\ Close("not_ready", None, "unit") /\ UNCHANGED blocked
  <2>1. faults' \in 0..MaxFaults /\ blocked' \in BOOLEAN
    BY <1>3, FaultOK DEF PullInv, TypeOK
  <2> QED BY <1>1, <1>3, <2>1, ClosingStatuses, CloseUncut
<1> QED BY <1>2, <1>3 DEF MetricsAnswer

-----------------------------------------------------------------------------
(* Fetching and the commit *)

\* The part at hand is a file of the unit.
LEMMA PartAtHand ==
  ASSUME PullInv, pc = "fetch", todo # {}
  PROVE  /\ Min(todo) \in todo /\ part \in FilesOf(u) /\ part \in Files /\ part[2] = Min(todo)
         /\ todo \subseteq PartsOf(u) /\ rec \subseteq FilesOf(u)
<1>1. u \in Units
  BY InUnitFacts DEF InUnit
<1>2. todo \subseteq PartsOf(u) /\ rec \subseteq FilesOf(u) /\ PartsOf(u) \subseteq Nat
  BY <1>1, PartFacts DEF PullInv, Fetching, Fetches, InUnit
<1>3. Min(todo) \in todo
  <2>1. todo \subseteq Nat
    BY <1>2
  <2> QED BY <2>1, MinOfNats
<1>4. part \in FilesOf(u) /\ part \in Files
  BY <1>1, <1>2, <1>3, FileFacts DEF part
<1> QED BY <1>2, <1>3, <1>4 DEF part

\* A step that writes to the part at hand and leaves the others alone; the part either goes
\* on, or its answer has ended.
LEMMA PartStep ==
  ASSUME PullInv, pc = "fetch", todo # {},
         UNCHANGED <<visible, manifest, listed, exports, recent, tangled, pc, loop, ctx, waited>>,
         made' \in BOOLEAN, faults' \in 0..MaxFaults,
         req' \in [attempt : 0..MaxRetries, reauthed : BOOLEAN],
         partial' \in [Files -> Contents],
         \A f \in Files \ {part} : partial'[f] = partial[f],
         rec' \subseteq rec \cup {part}, rec \subseteq rec' \cup {part},
         \/ /\ todo' = todo /\ sent' \in 0..Chunks /\ sent' < Chunks
            /\ sent' = IF part \in rec' THEN partial'[part].n ELSE 0
         \/ /\ todo' = todo \ {part[2]} /\ sent' = 0
            /\ part \in rec' => IsPart(partial'[part])
  PROVE  PullInv'
<1>1. InUnit
  BY DEF InUnit
<1>2. /\ i <= Len(Plan) /\ u \in Units /\ manifest[u].status # "complete"
      /\ ctx = None \/ (ctx \in DOMAIN exports /\ exports[ctx].unit = u)
  BY <1>1, InUnitFacts
<1>3. /\ part \in FilesOf(u) /\ part \in Files /\ part[2] = Min(todo) /\ Min(todo) \in todo
      /\ todo \subseteq PartsOf(u) /\ rec \subseteq FilesOf(u)
  BY PartAtHand
<1>4. u' = u /\ prev' = prev /\ UNCHANGED <<i, entries>>
  BY DEF loop, u, prev
<1>5. Placed'
  BY <1>1, <1>4 DEF PullInv, Placed, InUnit
<1>6. rec' \subseteq FilesOf(u) /\ todo' \subseteq PartsOf(u)
  BY <1>3
<1>7. todo' = todo => part' = part
  BY <1>4 DEF part
<1>8. sent' < Chunks /\ sent' \in 0..Chunks
  BY PlanFacts
<1>9. \A f \in rec' \ {part} : /\ f \in Files /\ f \in rec /\ partial'[f] = partial[f]
                               /\ f[2] # part[2] /\ f[2] \notin todo
  <2>1. ASSUME NEW f \in rec' \ {part}
        PROVE  f \in FilesOf(u) /\ f \in Files /\ f \in rec /\ f[2] # part[2]
    <3>1. f \in FilesOf(u) /\ f \in rec
      BY <1>3, <2>1
    <3>2. f = <<u, f[2]>> /\ f \in Files
      BY <1>2, <3>1, FileFacts
    <3>3. part = <<u, part[2]>>
      BY <1>2, <1>3, FileFacts
    <3> QED BY <2>1, <3>1, <3>2, <3>3
  <2>2. \A f \in rec : f[2] \in todo => f = part
    BY DEF PullInv, Fetching
  <2> QED BY <2>1, <2>2
<1>10. \A f \in rec' : IF f[2] \in todo' THEN f = part' ELSE IsPart(partial[f])'
  <2> SUFFICES ASSUME NEW f \in rec'
               PROVE  IF f[2] \in todo' THEN f = part' ELSE IsPart(partial'[f])
    BY DEF IsPart
  <2>1. CASE f = part /\ todo' = todo
    BY <1>3, <1>7, <2>1
  <2>2. CASE f = part /\ todo' # todo
    BY <1>3, <2>2
  <2>3. CASE f # part
    <3>1. f[2] \notin todo' /\ f \in rec /\ f[2] \notin todo /\ partial'[f] = partial[f]
      BY <1>9, <2>3
    <3>2. IsPart(partial[f])
      BY <3>1 DEF PullInv, Fetching
    <3> QED BY <3>1, <3>2
  <2> QED BY <2>1, <2>2, <2>3
<1>11. /\ sent' # 0 => todo' # {}
       /\ todo' # {} => sent' = IF part' \in rec' THEN partial'[part'].n ELSE 0
  <2>1. CASE todo' = todo
    <3>1. sent' = IF part \in rec' THEN partial'[part].n ELSE 0
      BY <1>3, <2>1
    <3> QED BY <1>7, <2>1, <3>1
  <2>2. CASE todo' = todo \ {part[2]} /\ sent' = 0
    <3>1. ASSUME todo' # {}, part' \in rec' PROVE FALSE
      <4>1. todo' \subseteq Nat
        BY <1>2, <1>6, PartFacts
      <4>2. part' = <<u, Min(todo')>> /\ Min(todo') \in todo'
        BY <1>4, <3>1, <4>1, MinOfNats DEF part
      <4>3. part'[2] \in todo /\ part'[2] # part[2]
        BY <2>2, <4>2
      <4> QED BY <1>9, <3>1, <4>3
    <3> QED BY <2>2, <3>1
  <2> QED BY <2>1, <2>2
<1>12. Fetching'
  <2>1. \A f \in rec' : (IF f[2] \in todo THEN f = part ELSE IsPart(partial[f]))'
    BY <1>10
  <2> QED BY <1>4, <1>6, <1>8, <1>11, <2>1 DEF Fetching, Fetches, FilesOf, PartsOf
<1>13. /\ ExportsKept /\ waited' \in 0..ExportCap
       /\ InUnit' /\ pc' # "rename" /\ pc \notin {"idle", "save", "rename"}
  BY <1>1, SameExports DEF PullInv, TypeOK, InUnit
<1> QED BY <1>2, <1>4, <1>5, <1>6, <1>8, <1>12, <1>13, UnitStep

LEMMA FetchStep ==
  ASSUME PullInv, Fetch
  PROVE  PullInv'
<1> DEFINE had == IF part \in rec THEN partial[part].n ELSE 0
<1>1. /\ pc = "fetch" /\ todo # {}
      /\ UNCHANGED <<visible, manifest, listed, world, faults, pc, loop, ctx, waited>>
      /\ partial' = [partial EXCEPT ![part] = [src |-> ctx, n |-> had + 1, short |-> FALSE]]
      /\ rec' = rec \cup {part} /\ made' = TRUE
      /\ todo' = IF sent + 1 = Chunks THEN todo \ {part[2]} ELSE todo
      /\ sent' = IF sent + 1 = Chunks THEN 0 ELSE sent + 1
      /\ req' \in {Fresh, req}
  BY DEF Fetch
<1>2. had = sent /\ sent < Chunks /\ sent \in 0..Chunks
  BY <1>1 DEF PullInv, TypeOK, Fetching
<1>3. part \in Files
  BY <1>1, PartAtHand
<1> HIDE DEF had
<1>4. [src |-> ctx, n |-> had + 1, short |-> FALSE] \in Contents
  <2>1. ctx \in 0..MaxExports
    BY PlanFacts DEF PullInv, TypeOK
  <2> QED BY <1>2, <2>1, PlanFacts DEF Contents
<1>5. /\ partial' \in [Files -> Contents]
      /\ partial'[part] = [src |-> ctx, n |-> had + 1, short |-> FALSE]
      /\ \A f \in Files \ {part} : partial'[f] = partial[f]
  BY <1>1, <1>3, <1>4 DEF PullInv, TypeOK
<1>6. \/ /\ todo' = todo /\ sent' \in 0..Chunks /\ sent' < Chunks
         /\ sent' = IF part \in rec' THEN partial'[part].n ELSE 0
      \/ /\ todo' = todo \ {part[2]} /\ sent' = 0
         /\ part \in rec' => IsPart(partial'[part])
  <2>1. CASE sent + 1 = Chunks
    BY <1>1, <1>2, <1>5, <2>1 DEF IsPart
  <2>2. CASE sent + 1 # Chunks
    BY <1>1, <1>2, <1>5, <2>2, PlanFacts
  <2> QED BY <2>1, <2>2
<1>7. /\ faults' \in 0..MaxFaults /\ UNCHANGED <<exports, recent, tangled>>
      /\ req' \in [attempt : 0..MaxRetries, reauthed : BOOLEAN]
  BY <1>1, FreshOK DEF PullInv, TypeOK, world
<1> QED BY <1>1, <1>5, <1>6, <1>7, PartStep

LEMMA FetchShortStep ==
  ASSUME PullInv, FetchShort
  PROVE  PullInv'
<1> DEFINE kept == sent > 0 \/ u \in ExportUnits
<1>1. /\ pc = "fetch" /\ todo # {} /\ Fault
      /\ UNCHANGED <<visible, manifest, listed, made, world, pc, loop, ctx, waited>>
      /\ partial' = IF kept
                      THEN [partial EXCEPT ![part] = [src |-> ctx, n |-> sent, short |-> TRUE]]
                      ELSE partial
      /\ rec' = IF kept THEN rec \cup {part} ELSE rec \ {part}
      /\ todo' = todo \ {part[2]} /\ sent' = 0 /\ req' = Fresh
  BY DEF FetchShort, Downloading
<1> HIDE DEF kept
<1>2. part \in Files
  BY <1>1, PartAtHand
<1>3. [src |-> ctx, n |-> sent, short |-> TRUE] \in Contents
  <2>1. ctx \in 0..MaxExports /\ sent \in Nat
    BY PlanFacts DEF PullInv, TypeOK
  <2> QED BY <2>1 DEF Contents
<1>4. /\ partial' \in [Files -> Contents]
      /\ kept => partial'[part] = [src |-> ctx, n |-> sent, short |-> TRUE]
      /\ \A f \in Files \ {part} : partial'[f] = partial[f]
  BY <1>1, <1>2, <1>3 DEF PullInv, TypeOK
<1>5. part \in rec' => IsPart(partial'[part])
  BY <1>1, <1>4 DEF IsPart
<1>6. /\ faults' \in 0..MaxFaults /\ UNCHANGED <<exports, recent, tangled>> /\ made' \in BOOLEAN
  BY <1>1, FaultOK DEF PullInv, TypeOK, world
<1>7. rec' \subseteq rec \cup {part} /\ rec \subseteq rec' \cup {part}
  BY <1>1
<1> QED BY <1>1, <1>4, <1>5, <1>6, <1>7, FreshOK, PartStep

LEMMA FetchedStep ==
  ASSUME PullInv, Fetched
  PROVE  PullInv'
<1>1. /\ pc = "fetch" /\ todo = {} /\ InUnit /\ pc' = "scan"
      /\ UNCHANGED <<dir, exports, recent, tangled, faults, loop, unit>>
  BY DEF Fetched, InUnit, world
<1>2. /\ i <= Len(Plan) /\ u \in Units /\ manifest[u].status # "complete"
      /\ ctx = None \/ (ctx \in DOMAIN exports /\ exports[ctx].unit = u)
  BY <1>1, InUnitFacts
<1>3. /\ UNCHANGED <<visible, partial, manifest, listed, i, entries, ctx, waited, req, todo, rec>>
      /\ UNCHANGED <<made, sent>> /\ u' = u /\ prev' = prev
  BY <1>1 DEF dir, loop, unit, u, prev
<1>4. Placed'
  BY <1>1, <1>3 DEF PullInv, Placed, InUnit, ExportSteps, Fetches
<1>5. Fetching'
  BY <1>1, <1>3 DEF PullInv, Fetching, Fetches, InUnit, FilesOf, PartsOf, IsPart
<1>6. ExportsKept /\ partial' \in [Files -> Contents]
  BY <1>1, <1>3, SameExports DEF PullInv, TypeOK
<1>7. /\ faults' \in 0..MaxFaults /\ waited' \in 0..ExportCap
      /\ made' \in BOOLEAN /\ sent' \in 0..Chunks
      /\ req' \in [attempt : 0..MaxRetries, reauthed : BOOLEAN]
      /\ todo' \subseteq PartsOf(u) /\ rec' \subseteq FilesOf(u)
      /\ InUnit' /\ pc' # "rename" /\ pc \notin {"idle", "save", "rename"}
  BY <1>1, <1>3 DEF PullInv, TypeOK, Fetching, Fetches, InUnit
<1> QED BY <1>1, <1>2, <1>3, <1>4, <1>5, <1>6, <1>7, UnitStep

\* What was fetched to the end of its answer is a file.
LEMMA PartIsFile ==
  ASSUME NEW c, IsPart(c)
  PROVE  c # NoFile /\ c.src = ctx /\ (c.n = Chunks \/ c.short)
  BY PlanFacts DEF IsPart, NoFile

LEMMA ScanStep ==
  ASSUME PullInv, Scan
  PROVE  PullInv'
<1>1. pc = "scan" /\ InUnit /\ UNCHANGED world
  BY DEF Scan, InUnit
<1>2. CASE pc' = "rename" /\ UNCHANGED <<dir, loop, unit, faults>>
  <2>1. /\ UNCHANGED <<visible, partial, manifest, listed, exports, recent, tangled, faults>>
        /\ UNCHANGED <<i, entries, blocked, next, ctx, waited, req, todo, rec, made, sent>>
        /\ u' = u /\ prev' = prev /\ Unmoved' = Unmoved
    BY <1>1, <1>2 DEF dir, world, loop, unit, u, prev, Unmoved
  <2>2. i <= Len(Plan) /\ u \in Units /\ manifest[u].status # "complete" /\ entries = manifest
    BY <1>1, InUnitFacts
  <2>3. TypeOK'
    BY <1>2, <2>1 DEF PullInv, TypeOK, InUnit
  <2>4. Placed'
    BY <1>1, <1>2, <2>1 DEF PullInv, Placed, InUnit, ExportSteps, Fetches
  <2>5. \A f \in rec : IsPart(partial[f])
    BY <1>1 DEF PullInv, Fetching
  <2>6. Fetching'
    BY <1>1, <1>2, <2>1, <2>5 DEF PullInv, Fetching, Fetches, InUnit, FilesOf, PartsOf, IsPart
  <2>7. CtxOwned'
    BY <1>1, <2>1 DEF PullInv, CtxOwned
  <2>8. rec \ Unmoved = {}
    BY <2>5, PartIsFile DEF Unmoved
  <2>9. Listing'
    BY <1>1, <1>2, <2>1, <2>8 DEF PullInv, DirInv, Listing
  <2>10. /\ Owned(manifest)' /\ Owned(entries)' /\ WholeEntries(manifest)'
         /\ WholeEntries(entries)' /\ NoPartVisible'
    BY <2>1 DEF PullInv, DirInv, Owned, WholeEntries, NoPartVisible, FilesOf, PartsOf
  <2>11. Working'
    BY <1>2, <2>1, <2>2 DEF Working, InUnit
  <2> QED BY <2>3, <2>4, <2>6, <2>7, <2>9, <2>10, <2>11 DEF PullInv, DirInv
<1>3. CASE Fault /\ Close("incomplete", None, "unit") /\ UNCHANGED blocked
  <2>1. faults' \in 0..MaxFaults /\ blocked' \in BOOLEAN /\ pc # "rename"
    BY <1>1, <1>3, FaultOK DEF PullInv, TypeOK
  <2> QED BY <1>1, <1>3, <2>1, ClosingStatuses, CloseUncut
<1> QED BY <1>2, <1>3 DEF Scan

LEMMA RenameStep ==
  ASSUME PullInv, Rename
  PROVE  PullInv'
<1> DEFINE f == <<u, Min({g[2] : g \in Unmoved})>>
<1>1. /\ pc = "rename" /\ InUnit /\ Unmoved # {}
      /\ visible' = [visible EXCEPT ![f] = partial[f]]
      /\ partial' = [partial EXCEPT ![f] = NoFile]
      /\ UNCHANGED <<manifest, listed, made, exports, recent, tangled, faults, pc>>
      /\ UNCHANGED <<i, entries, blocked, next, ctx, waited, req, todo, rec, sent>>
  BY DEF Rename, InUnit, world, loop, unit
<1>2. /\ i <= Len(Plan) /\ u \in Units /\ manifest[u].status # "complete" /\ entries = manifest
  BY <1>1, InUnitFacts
<1>3. rec \subseteq FilesOf(u) /\ PartsOf(u) \subseteq Nat
  BY <1>1, <1>2, PartFacts DEF PullInv, Fetching, Fetches
<1>4. f \in Unmoved
  <2>1. {g[2] : g \in Unmoved} \subseteq Nat /\ {g[2] : g \in Unmoved} # {}
    BY <1>1, <1>2, <1>3, FileFacts DEF Unmoved
  <2>2. Min({g[2] : g \in Unmoved}) \in {g[2] : g \in Unmoved}
    BY <2>1, MinOfNats
  <2>3. PICK g \in Unmoved : Min({h[2] : h \in Unmoved}) = g[2]
    BY <2>2
  <2>4. g = <<u, g[2]>>
    BY <1>2, <1>3, FileFacts DEF Unmoved
  <2> QED BY <2>3, <2>4
<1> HIDE DEF f
<1>5. /\ f \in rec /\ f \in Files /\ f[1] = u /\ IsPart(partial[f])
  <2>1. f \in rec /\ partial[f] # NoFile
    BY <1>4 DEF Unmoved
  <2>2. f \in FilesOf(u)
    BY <1>3, <2>1
  <2>3. f \in Files /\ f[1] = u
    BY <1>2, <2>2, FileFacts
  <2> QED BY <1>1, <2>1, <2>3 DEF PullInv, Fetching
<1>6. /\ IsPart(visible'[f]) /\ partial'[f] = NoFile
      /\ \A g \in Files : g # f => visible'[g] = visible[g] /\ partial'[g] = partial[g]
      /\ visible' \in [Files -> Contents] /\ partial' \in [Files -> Contents]
  BY <1>1, <1>5, PlanFacts DEF PullInv, TypeOK, Contents, NoFile, None
<1>7. u' = u /\ prev' = prev /\ ctx' = ctx
  BY <1>1 DEF u, prev
<1>8. rec \subseteq Files
  BY DEF PullInv, TypeOK
<1>9. TypeOK'
  BY <1>1, <1>6 DEF PullInv, TypeOK, InUnit
<1>10. Placed' /\ CtxOwned'
  BY <1>1, <1>7 DEF PullInv, Placed, CtxOwned, InUnit
<1>11. Fetching'
  <2>1. \A g \in rec : IsPart(partial'[g]) \/ (partial'[g] = NoFile /\ IsPart(visible'[g]))
    BY <1>1, <1>6, <1>8 DEF PullInv, Fetching
  <2>2. \A g \in rec' : (IsPart(partial[g]) \/ (partial[g] = NoFile /\ IsPart(visible[g])))'
    BY <1>1, <2>1 DEF IsPart
  <2> QED BY <1>1, <1>7, <2>2 DEF PullInv, Fetching, Fetches, InUnit, FilesOf, PartsOf
<1>12. Owned(manifest)' /\ Owned(entries)'
  BY <1>1 DEF PullInv, DirInv, Owned, FilesOf, PartsOf
<1>13. WholeEntries(manifest)' /\ WholeEntries(entries)'
  <2>1. ASSUME NEW v \in Units, manifest[v].status = "complete", NEW g \in manifest[v].files
        PROVE  visible'[g] = visible[g]
    <3>1. g \in Files /\ g[1] = v
      BY FileFacts DEF PullInv, DirInv, Owned
    <3>2. v # u
      BY <1>2, <2>1
    <3> QED BY <1>5, <1>6, <3>1, <3>2
  <2> QED BY <1>1, <1>2, <2>1 DEF PullInv, DirInv, WholeEntries
<1>14. Working'
  BY <1>1, <1>7 DEF PullInv, DirInv, Working, InUnit
<1>15. Listing'
  <2>1. Unmoved' = Unmoved \ {f}
    BY <1>1, <1>6, <1>8 DEF Unmoved
  <2>2. visible'[f] # NoFile /\ f \in rec \ Unmoved'
    BY <1>5, <1>6, <2>1, PartIsFile
  <2>3. \A g \in Files \ {f} : g \in Unmoved' <=> g \in Unmoved
    BY <2>1
  <2> QED BY <1>1, <1>6, <2>2, <2>3 DEF PullInv, DirInv, Listing
<1>16. NoPartVisible'
  <2>1. visible'[f].n = Chunks \/ visible'[f].short
    BY <1>6, PartIsFile
  <2> QED BY <1>6, <2>1 DEF PullInv, DirInv, NoPartVisible
<1> QED BY <1>9, <1>10, <1>11, <1>12, <1>13, <1>14, <1>15, <1>16 DEF PullInv, DirInv

LEMMA UnlinkStep ==
  ASSUME PullInv, Unlink
  PROVE  PullInv'
<1> DEFINE new == [status |-> IF u \in recent THEN "provisional" ELSE "complete",
                   files |-> rec, export |-> None]
<1>1. /\ pc = "rename" /\ InUnit /\ Unmoved = {}
      /\ visible' = [f \in Files |-> IF f \in Superseded THEN NoFile ELSE visible[f]]
      /\ entries' = [entries EXCEPT ![u] = new]
      /\ rec' = {} /\ pc' = "save" /\ next' = "unit"
      /\ UNCHANGED <<partial, manifest, listed, exports, recent, tangled, faults, i, blocked>>
      /\ UNCHANGED <<made, ctx, waited, req, todo, sent>>
  BY DEF Unlink, InUnit, world
<1>2. /\ i <= Len(Plan) /\ u \in Units /\ manifest[u].status # "complete" /\ entries = manifest
      /\ ctx = None \/ (ctx \in DOMAIN exports /\ exports[ctx].unit = u)
  BY <1>1, InUnitFacts
<1>3. rec \subseteq FilesOf(u) /\ rec \subseteq Files
  BY <1>1 DEF PullInv, Fetching, Fetches, TypeOK
<1>4. new \in Entries /\ entries' \in [Units -> Entries] /\ u' = u
  <2>1. new \in Entries
    BY <1>3, PlanFacts DEF Entries, Statuses, None
  <2> QED BY <1>1, <1>2, <2>1 DEF PullInv, TypeOK, u
<1>5. /\ entries'[u].files = rec /\ entries'[u].export = None
      /\ \A v \in Units \ {u} : entries'[v] = manifest[v]
  BY <1>1, <1>2 DEF PullInv, TypeOK
<1> HIDE DEF new
<1>6. Superseded \subseteq manifest[u].files \ rec /\ manifest[u].files \ rec \subseteq Superseded
  BY <1>2 DEF Superseded, prev
<1>7. /\ \A v \in Units \ {u} : \A f \in manifest[v].files : visible'[f] = visible[f] /\ f \in Files
      /\ \A f \in rec : IsPart(visible'[f])
  <2>1. ASSUME NEW v \in Units \ {u}, NEW f \in manifest[v].files
        PROVE  visible'[f] = visible[f] /\ f \in Files
    <3>1. f \in FilesOf(v) /\ f \in Files /\ f[1] = v
      BY FileFacts DEF PullInv, DirInv, Owned
    <3>2. \A g \in manifest[u].files : g[1] = u
      BY <1>2, FileFacts DEF PullInv, DirInv, Owned
    <3> QED BY <1>1, <1>6, <3>1, <3>2
  <2>2. ASSUME NEW f \in rec PROVE IsPart(visible'[f])
    <3>1. partial[f] = NoFile
      BY <1>1 DEF Unmoved
    <3>2. IsPart(visible[f])
      BY <1>1, <3>1, PartIsFile DEF PullInv, Fetching
    <3> QED BY <1>1, <1>3, <1>6, <3>2
  <2> QED BY <2>1, <2>2
<1>8. TypeOK'
  <2>1. visible' \in [Files -> Contents]
    BY <1>1, PlanFacts DEF PullInv, TypeOK, Contents, NoFile, None
  <2> QED BY <1>1, <1>4, <2>1 DEF PullInv, TypeOK, InUnit
<1>9. Placed' /\ Fetching' /\ CtxOwned'
  BY <1>1, <1>2 DEF PullInv, Placed, Fetching, CtxOwned, InUnit, Fetches, ExportSteps
<1>10. Owned(manifest)' /\ Owned(entries)'
  BY <1>1, <1>3, <1>5 DEF PullInv, DirInv, Owned, FilesOf, PartsOf
<1>0. ASSUME NEW v \in Units, manifest[v].status = "complete"
       PROVE  /\ v # u /\ \A f \in manifest[v].files : visible'[f] # NoFile
              /\ \A f, g \in manifest[v].files : visible'[f].src = visible'[g].src
              /\ v \in ExportUnits => \A f \in manifest[v].files :
                   /\ visible'[f].src \in DOMAIN exports'
                   /\ exports'[visible'[f].src].unit = v
  <2>1. v # u /\ \A f \in manifest[v].files : visible'[f] = visible[f]
    BY <1>2, <1>7, <1>0
  <2>2. /\ \A f \in manifest[v].files : visible[f] # NoFile
        /\ \A f, g \in manifest[v].files : visible[f].src = visible[g].src
        /\ v \in ExportUnits => \A f \in manifest[v].files :
             visible[f].src \in DOMAIN exports /\ exports[visible[f].src].unit = v
    BY <1>0 DEF PullInv, DirInv, WholeEntries
  <2>3. exports' = exports
    BY <1>1
  <2> QED BY <2>1, <2>2, <2>3
<1>11. WholeEntries(manifest)'
  BY <1>1, <1>0 DEF WholeEntries
<1>12. WholeEntries(entries)'
  <2> SUFFICES ASSUME NEW v \in Units, entries'[v].status = "complete"
               PROVE  /\ \A f \in entries'[v].files : visible'[f] # NoFile
                      /\ \A f, g \in entries'[v].files : visible'[f].src = visible'[g].src
                      /\ v \in ExportUnits => \A f \in entries'[v].files :
                           /\ visible'[f].src \in DOMAIN exports'
                           /\ exports'[visible'[f].src].unit = v
    BY DEF WholeEntries
  <2>1. CASE v = u
    <3>1. u \in ExportUnits => ctx # None
      BY <1>1 DEF PullInv, Placed, Fetches
    <3>2. \A f \in rec : visible'[f] # NoFile /\ visible'[f].src = ctx
      BY <1>7, PartIsFile
    <3>3. u \in ExportUnits => ctx \in DOMAIN exports' /\ exports'[ctx].unit = u
      BY <1>1, <1>2, <3>1
    <3> QED BY <1>5, <2>1, <3>2, <3>3
  <2>2. CASE v # u
    <3>1. entries'[v] = manifest[v]
      BY <1>5, <2>2
    <3> QED BY <1>0, <3>1
  <2> QED BY <2>1, <2>2
<1>13. Working'
  BY <1>1, <1>2, <1>4, <1>5 DEF Working, InUnit
<1>14. Listing'
  <2> SUFFICES ASSUME NEW f \in Files, f[1] \notin tangled
               PROVE  visible'[f] # NoFile <=> f \in entries'[f[1]].files
    BY <1>1 DEF Listing
  <2>1. visible[f] # NoFile <=> (f \in rec \/ f \in manifest[f[1]].files)
    BY <1>1 DEF PullInv, DirInv, Listing
  <2>2. f[1] \in Units
    BY FileFacts
  <2>3. CASE f[1] = u
    BY <1>1, <1>5, <1>6, <2>1, <2>3
  <2>4. CASE f[1] # u
    <3>1. f \notin rec /\ f \notin manifest[u].files
      BY <1>2, <1>3, <2>4, FileFacts DEF PullInv, DirInv, Owned
    <3> QED BY <1>1, <1>5, <1>6, <2>1, <2>2, <2>4, <3>1
  <2> QED BY <2>3, <2>4
<1>15. NoPartVisible'
  BY <1>1 DEF PullInv, DirInv, NoPartVisible
<1> QED BY <1>8, <1>9, <1>10, <1>11, <1>12, <1>13, <1>14, <1>15 DEF PullInv, DirInv

-----------------------------------------------------------------------------
(* Failures *)

LEMMA RequestFacts ==
  ASSUME PullInv, Asking \/ Downloading
  PROVE  InUnit /\ pc \notin {"rename", "scan", "idle", "save"}
  BY DEF Asking, Downloading, InUnit

\* A request is sent again.
LEMMA ResendStep ==
  ASSUME PullInv, Asking \/ Downloading,
         UNCHANGED <<dir, exports, recent, tangled, pc, loop, ctx, waited, todo, rec, sent>>,
         faults' \in 0..MaxFaults, req' \in [attempt : 0..MaxRetries, reauthed : BOOLEAN]
  PROVE  PullInv'
<1>1. InUnit /\ pc \notin {"rename", "scan", "idle", "save"}
  BY RequestFacts
<1>2. /\ i <= Len(Plan) /\ u \in Units /\ manifest[u].status # "complete"
      /\ ctx = None \/ (ctx \in DOMAIN exports /\ exports[ctx].unit = u)
  BY <1>1, InUnitFacts
<1>3. /\ u' = u /\ prev' = prev /\ part' = part /\ InUnit'
      /\ UNCHANGED <<i, entries, visible, partial, manifest, listed, made>>
  BY <1>1 DEF loop, dir, u, prev, part, InUnit
<1>4. Placed'
  BY <1>3 DEF PullInv, Placed, InUnit, loop
<1>5. ExportsKept
  BY SameExports DEF PullInv
<1>6. /\ todo' \subseteq PartsOf(u) /\ rec' \subseteq FilesOf(u) /\ waited' \in 0..ExportCap
      /\ partial' \in [Files -> Contents] /\ made' \in BOOLEAN /\ sent' \in 0..Chunks
  BY <1>1, <1>3 DEF PullInv, Fetching, Fetches, InUnit, TypeOK
<1>7. Fetching'
  BY <1>1, <1>3, <1>6 DEF PullInv, Fetching, Fetches, InUnit, FilesOf, PartsOf, IsPart
<1> QED BY <1>1, <1>2, <1>3, <1>4, <1>5, <1>6, <1>7, UnitStep

LEMMA RetryStep ==
  ASSUME PullInv, Retry
  PROVE  PullInv'
<1>1. (Asking \/ Downloading) /\ Fault /\ UNCHANGED world
  BY DEF Retry
<1>2. InUnit /\ pc # "rename" /\ faults' \in 0..MaxFaults /\ UNCHANGED <<exports, recent, tangled>>
  BY <1>1, RequestFacts, FaultOK DEF PullInv, world
<1>3. CASE /\ MayRetry /\ req' = [req EXCEPT !.attempt = @ + 1]
           /\ partial' = IF Downloading THEN Truncated ELSE partial
           /\ sent' = IF Downloading THEN 0 ELSE sent
           /\ UNCHANGED <<visible, manifest, listed, made, pc, loop, ctx, waited, todo, rec>>
  <2>1. req' \in [attempt : 0..MaxRetries, reauthed : BOOLEAN]
    BY <1>3, RetryOK DEF PullInv
  <2>2. CASE Downloading
    <3>1. pc = "fetch" /\ todo # {} /\ partial' = Truncated /\ sent' = 0
      BY <1>3, <2>2 DEF Downloading
    <3>2. NoFile \in Contents /\ NoFile.n = 0 /\ partial \in [Files -> Contents]
      BY PlanFacts DEF PullInv, TypeOK, Contents, NoFile, None
    <3>3. part \in Files
      BY <3>1, PartAtHand
    <3>4. /\ partial' \in [Files -> Contents]
          /\ \A f \in Files \ {part} : partial'[f] = partial[f]
          /\ part \in rec => partial'[part] = NoFile
      BY <3>1, <3>2, <3>3 DEF Truncated
    <3>5. /\ sent' \in 0..Chunks /\ sent' < Chunks
          /\ sent' = IF part \in rec' THEN partial'[part].n ELSE 0
      BY <1>3, <3>1, <3>2, <3>4, PlanFacts
    <3>6. made' \in BOOLEAN
      BY <1>3 DEF PullInv, TypeOK
    <3> QED BY <1>2, <1>3, <2>1, <3>1, <3>4, <3>5, <3>6, PartStep
  <2>3. CASE ~Downloading
    <3>1. UNCHANGED <<dir, sent>>
      BY <1>3, <2>3 DEF dir
    <3> QED BY <1>1, <1>2, <1>3, <2>1, <3>1, ResendStep
  <2> QED BY <2>2, <2>3
<1>4. CASE Close("incomplete", ctx, "unit") /\ UNCHANGED blocked
  <2>1. blocked' \in BOOLEAN /\ (ctx = None \/ (ctx \in DOMAIN exports /\ exports[ctx].unit = u))
    BY <1>2, <1>4, InUnitFacts DEF PullInv, TypeOK
  <2> QED BY <1>1, <1>2, <1>4, <2>1, ClosingStatuses, CloseUncut
<1> QED BY <1>3, <1>4 DEF Retry

LEMMA UnauthorizedStep ==
  ASSUME PullInv, Unauthorized
  PROVE  PullInv'
<1>1. (Asking \/ Downloading) /\ Fault /\ UNCHANGED world
  BY DEF Unauthorized, Authorized
<1>2. InUnit /\ pc # "rename" /\ faults' \in 0..MaxFaults /\ UNCHANGED <<exports, recent, tangled>>
  BY <1>1, RequestFacts, FaultOK DEF PullInv, world
<1>3. CASE /\ req' = [req EXCEPT !.reauthed = TRUE]
           /\ UNCHANGED <<dir, pc, loop, ctx, waited, todo, rec, sent>>
  <2>1. req' \in [attempt : 0..MaxRetries, reauthed : BOOLEAN]
    BY <1>3 DEF PullInv, TypeOK
  <2> QED BY <1>1, <1>2, <1>3, <2>1, ResendStep
<1>4. CASE /\ Close("incomplete", IF ctx # None THEN ctx ELSE prev.export, "idle")
           /\ UNCHANGED blocked
  <2> DEFINE e == IF ctx # None THEN ctx ELSE prev.export
  <2>1. blocked' \in BOOLEAN /\ (e = None \/ (e \in DOMAIN exports /\ exports[e].unit = u))
    BY <1>2, <1>4, InUnitFacts DEF PullInv, TypeOK
  <2>2. Close("incomplete", e, "idle")
    BY <1>4
  <2> HIDE DEF e
  <2> QED BY <1>1, <1>2, <2>1, <2>2, ClosingStatuses, CloseUncut
<1> QED BY <1>3, <1>4 DEF Unauthorized

LEMMA RefusedStep ==
  ASSUME PullInv, Forbidden \/ BadAnswer
  PROVE  PullInv'
<1>1. (Asking \/ Downloading) /\ Fault /\ UNCHANGED <<blocked, world>>
  BY DEF Forbidden, BadAnswer
<1>2. InUnit /\ pc # "rename" /\ faults' \in 0..MaxFaults /\ blocked' \in BOOLEAN
  BY <1>1, RequestFacts, FaultOK DEF PullInv, TypeOK
<1>3. ctx = None \/ (ctx \in DOMAIN exports /\ exports[ctx].unit = u)
  BY <1>2, InUnitFacts
<1>4. Close("forbidden", None, "unit") \/ Close("incomplete", ctx, "unit")
  BY DEF Forbidden, BadAnswer
<1> QED BY <1>1, <1>2, <1>3, <1>4, ClosingStatuses, CloseUncut

LEMMA NoTokenStep ==
  ASSUME PullInv, NoToken
  PROVE  PullInv'
<1>1. /\ Asking \/ Downloading
      /\ Fault /\ rec' = {} /\ sent' = 0 /\ pc' = "save" /\ next' = "idle"
      /\ partial' = [f \in Files |-> IF f \in rec THEN NoFile ELSE partial[f]]
      /\ UNCHANGED <<visible, manifest, listed, exports, recent, tangled, i, entries, blocked>>
      /\ UNCHANGED <<made, ctx, waited, req, todo>>
  BY DEF NoToken, Authorized, discard, world
<1>2. InUnit /\ pc \notin {"rename", "save"} /\ faults' \in 0..MaxFaults
  BY <1>1, RequestFacts, FaultOK DEF PullInv
<1>3. entries = manifest
  BY <1>2, InUnitFacts
<1>4. TypeOK'
  <2>1. partial' \in [Files -> Contents] /\ sent' \in 0..Chunks
    BY <1>1, PlanFacts DEF PullInv, TypeOK, Contents, NoFile, None
  <2> QED BY <1>1, <1>2, <2>1 DEF PullInv, TypeOK, InUnit
<1>5. Placed' /\ Fetching' /\ CtxOwned'
  BY <1>1 DEF Placed, Fetching, CtxOwned, InUnit, Fetches, ExportSteps
<1>6. Owned(manifest)' /\ Owned(entries)' /\ NoPartVisible'
  BY <1>1 DEF PullInv, DirInv, Owned, NoPartVisible, FilesOf, PartsOf
<1>7. WholeEntries(manifest)' /\ WholeEntries(entries)'
  BY <1>1 DEF PullInv, DirInv, WholeEntries
<1>8. Working' /\ Listing'
  BY <1>1, <1>2, <1>3 DEF PullInv, DirInv, Working, Listing, InUnit
<1> QED BY <1>4, <1>5, <1>6, <1>7, <1>8 DEF PullInv, DirInv

LEMMA InterruptStep ==
  ASSUME PullInv, Interrupt
  PROVE  PullInv'
<1>1. /\ InUnit /\ Fault /\ Close("incomplete", None, "idle") /\ Cut /\ ExportsKept
      /\ UNCHANGED <<blocked, exports, recent>>
  BY SameExports DEF Interrupt, PullInv
<1>2. faults' \in 0..MaxFaults /\ blocked' \in BOOLEAN
  BY <1>1, FaultOK DEF PullInv, TypeOK
<1>3. /\ tangled \subseteq tangled' /\ tangled' \subseteq Units
      /\ pc = "rename" /\ Unmoved # rec => u \in tangled'
  BY <1>1, InUnitFacts DEF Cut, PullInv, TypeOK
<1> QED BY <1>1, <1>2, <1>3, ClosingStatuses, CloseStep

\* A run that is over leaves nothing in memory; what is listed follows the directory.
LEMMA HaltKeeps ==
  ASSUME PullInv, Halt, UNCHANGED <<visible, partial, exports, recent>>,
         manifest' \in [Units -> Entries], listed' \in BOOLEAN, faults' \in 0..MaxFaults,
         UNCHANGED made, tangled' \subseteq Units,
         Owned(manifest)', WholeEntries(manifest)',
         \A f \in Files : f[1] \notin tangled' =>
           (visible[f] # NoFile <=> f \in manifest'[f[1]].files)
  PROVE  PullInv'
<1>1. /\ pc' = "idle" /\ i' = 1 /\ entries' = [v \in Units |-> NoEntry] /\ blocked' = FALSE
      /\ next' = "idle" /\ ctx' = None /\ waited' = 0 /\ req' = Fresh /\ todo' = {} /\ rec' = {}
      /\ sent' = 0
  BY DEF Halt
<1>2. NoEntry \in Entries /\ NoEntry.status # "complete" /\ NoEntry.files = {}
      /\ NoEntry.export = None
  BY PlanFacts DEF NoEntry, Entries, Statuses, None
<1>3. TypeOK'
  <2>1. entries' \in [Units -> Entries]
    BY <1>1, <1>2
  <2>2. /\ ctx' \in 0..Len(exports') /\ waited' \in 0..ExportCap /\ i' \in 1..(Len(Plan) + 1)
        /\ sent' \in 0..Chunks
    BY <1>1, PlanFacts DEF PullInv, TypeOK, None
  <2> QED BY <1>1, <2>1, <2>2, FreshOK DEF PullInv, TypeOK, InUnit
<1>4. Placed' /\ Fetching' /\ CtxOwned' /\ Working'
  BY <1>1 DEF Placed, Fetching, CtxOwned, Working, InUnit, Fetches, ExportSteps
<1>5. Owned(entries)' /\ WholeEntries(entries)'
  BY <1>1, <1>2 DEF Owned, WholeEntries
<1>6. Listing' /\ NoPartVisible'
  BY <1>1 DEF Listing, NoPartVisible, PullInv, DirInv
<1> QED BY <1>3, <1>4, <1>5, <1>6 DEF PullInv, DirInv

LEMMA CrashStep ==
  ASSUME PullInv, Crash
  PROVE  PullInv'
<1>1. /\ pc # "idle" /\ Fault /\ Halt /\ Cut
      /\ UNCHANGED <<visible, partial, manifest, listed, made, exports, recent>>
  BY DEF Crash, dir
<1>2. faults' \in 0..MaxFaults /\ manifest' \in [Units -> Entries] /\ listed' \in BOOLEAN
  BY <1>1, FaultOK DEF PullInv, TypeOK
<1>3. pc = "rename" => i <= Len(Plan)
  BY DEF PullInv, Placed, InUnit
<1>4. i <= Len(Plan) => u \in Units
  BY UnitFacts DEF PullInv
<1>5. tangled \subseteq tangled' /\ tangled' \subseteq Units
  BY <1>1, <1>3, <1>4 DEF Cut, PullInv, TypeOK
<1>6. Owned(manifest)' /\ WholeEntries(manifest)'
  BY <1>1 DEF PullInv, DirInv, Owned, WholeEntries, FilesOf, PartsOf
<1>7. ASSUME NEW f \in Files, f[1] \notin tangled'
      PROVE  visible[f] # NoFile <=> f \in manifest[f[1]].files
  <2>1. f[1] \notin tangled /\ f[1] \in Units
    BY <1>5, <1>7, FileFacts
  <2>2. CASE pc = "rename"
    <3>1. ASSUME f \in rec \ Unmoved PROVE FALSE
      <4>1. f[1] = u
        BY <1>3, <1>4, <2>2, <3>1, FileFacts DEF PullInv, Fetching, Fetches
      <4>2. u \in tangled'
        BY <1>1, <2>2, <3>1 DEF Cut
      <4> QED BY <1>7, <4>1, <4>2
    <3> QED BY <2>1, <2>2, <3>1 DEF PullInv, DirInv, Listing
  <2>3. CASE pc = "save"
    <3>1. visible[f] # NoFile <=> f \in entries[f[1]].files
      BY <2>1, <2>3 DEF PullInv, DirInv, Listing
    <3>2. entries[f[1]] = manifest[f[1]] \/ (i <= Len(Plan) /\ f[1] = u)
      BY <2>1, <2>3 DEF PullInv, DirInv, Working
    <3>3. CASE i <= Len(Plan) /\ f[1] = u
      <4>1. prev.files = manifest[u].files
        BY <1>1, <1>7, <2>3, <3>3 DEF Cut
      <4> QED BY <3>1, <3>3, <4>1 DEF prev
    <3> QED BY <3>1, <3>2, <3>3
  <2>4. CASE pc \notin {"rename", "save"}
    BY <2>1, <2>4 DEF PullInv, DirInv, Listing
  <2> QED BY <2>2, <2>3, <2>4
<1>8. \A f \in Files : f[1] \notin tangled' =>
        (visible[f] # NoFile <=> f \in manifest'[f[1]].files)
  BY <1>1, <1>7
<1> QED BY <1>1, <1>2, <1>5, <1>6, <1>8, HaltKeeps

-----------------------------------------------------------------------------
(* The run: from unit to unit *)

LEMMA StartStep ==
  ASSUME PullInv, Start
  PROVE  PullInv'
<1>1. /\ pc = "idle" /\ pc' = "unit" /\ entries' = manifest /\ recent' \subseteq recent
      /\ partial' = IF listed THEN [f \in Files |-> NoFile] ELSE partial
      /\ UNCHANGED <<visible, manifest, listed, exports, tangled, faults, i, blocked, next>>
      /\ UNCHANGED <<made, ctx, waited, req, todo, rec, sent>>
  BY DEF Start, unit
<1>2. TypeOK'
  <2>1. partial' \in [Files -> Contents]
    BY <1>1, PlanFacts DEF PullInv, TypeOK, Contents, NoFile, None
  <2> QED BY <1>1, <2>1 DEF PullInv, TypeOK, InUnit
<1>3. Placed' /\ CtxOwned' /\ Working'
  BY <1>1 DEF Placed, CtxOwned, Working, InUnit, Fetches, ExportSteps
<1>4. Fetching' /\ Listing'
  BY <1>1 DEF PullInv, DirInv, Fetching, Listing, InUnit, Fetches
<1>5. Owned(manifest)' /\ Owned(entries)' /\ NoPartVisible'
  BY <1>1 DEF PullInv, DirInv, Owned, NoPartVisible, FilesOf, PartsOf
<1>6. WholeEntries(manifest)' /\ WholeEntries(entries)'
  BY <1>1 DEF PullInv, DirInv, WholeEntries
<1> QED BY <1>2, <1>3, <1>4, <1>5, <1>6 DEF PullInv, DirInv

LEMMA SkipFinishStep ==
  ASSUME PullInv, Skip \/ Finish
  PROVE  PullInv'
<1>1. /\ pc = "unit" /\ UNCHANGED <<visible, partial, manifest, listed, exports, recent, tangled>>
      /\ UNCHANGED <<faults, entries, blocked, ctx, waited, req, todo, rec, made, sent>>
      /\ \/ (i <= Len(Plan) /\ i' = i + 1 /\ UNCHANGED <<pc, next>>)
         \/ (pc' = "save" /\ next' = "idle" /\ i' = i)
  BY DEF Skip, Finish, dir, world, unit
<1>2. i' \in 1..(Len(Plan) + 1)
  BY <1>1, PlanFacts DEF PullInv, TypeOK
<1>3. TypeOK'
  BY <1>1, <1>2 DEF PullInv, TypeOK, InUnit
<1>4. entries = manifest
  BY <1>1 DEF PullInv, DirInv, Working
<1>5. Placed' /\ CtxOwned' /\ Working'
  BY <1>1, <1>4 DEF Placed, CtxOwned, Working, InUnit, Fetches, ExportSteps
<1>6. Fetching' /\ Listing'
  BY <1>1, <1>4 DEF PullInv, DirInv, Fetching, Listing, InUnit, Fetches
<1>7. Owned(manifest)' /\ Owned(entries)' /\ NoPartVisible'
  BY <1>1 DEF PullInv, DirInv, Owned, NoPartVisible, FilesOf, PartsOf
<1>8. WholeEntries(manifest)' /\ WholeEntries(entries)'
  BY <1>1 DEF PullInv, DirInv, WholeEntries
<1> QED BY <1>3, <1>5, <1>6, <1>7, <1>8 DEF PullInv, DirInv

LEMMA PostponeStep ==
  ASSUME PullInv, Postpone
  PROVE  PullInv'
<1>1. /\ pc = "unit" /\ i <= Len(Plan) /\ ~Done
      /\ entries' = [entries EXCEPT ![u].status = "incomplete"]
      /\ pc' = "save" /\ next' = "unit"
      /\ UNCHANGED <<visible, partial, manifest, listed, exports, recent, tangled>>
      /\ UNCHANGED <<faults, i, blocked, ctx, waited, req, todo, rec, made, sent>>
  BY DEF Postpone, dir, world, unit
<1>2. u \in Units /\ entries = manifest /\ manifest[u].status # "complete" /\ u' = u
  BY <1>1, NotDone DEF u
<1>3. entries' \in [Units -> Entries]
  <2>1. entries \in [Units -> Entries] /\ entries[u] \in Entries
    BY <1>2 DEF PullInv, TypeOK
  <2>2. [entries[u] EXCEPT !.status = "incomplete"] \in Entries
    BY <2>1 DEF Entries, Statuses
  <2> QED BY <1>1, <1>2, <2>1, <2>2
<1>4. /\ \A v \in Units : entries'[v].files = manifest[v].files
                           /\ entries'[v].export = manifest[v].export
      /\ \A v \in Units \ {u} : entries'[v] = manifest[v]
      /\ entries'[u].status # "complete"
  BY <1>1, <1>2 DEF PullInv, TypeOK, Entries
<1>5. TypeOK'
  BY <1>1, <1>3 DEF PullInv, TypeOK, InUnit
<1>6. Placed' /\ CtxOwned' /\ Fetching'
  BY <1>1 DEF PullInv, Placed, CtxOwned, Fetching, InUnit, Fetches, ExportSteps
<1>7. Working'
  BY <1>1, <1>2, <1>4 DEF Working, InUnit
<1>8. Owned(manifest)' /\ Owned(entries)' /\ NoPartVisible'
  BY <1>1, <1>4 DEF PullInv, DirInv, Owned, NoPartVisible, FilesOf, PartsOf
<1>9. WholeEntries(manifest)' /\ WholeEntries(entries)'
  BY <1>1, <1>4 DEF PullInv, DirInv, WholeEntries
<1>10. Listing'
  BY <1>1, <1>4, FileFacts DEF PullInv, DirInv, Listing
<1> QED BY <1>5, <1>6, <1>7, <1>8, <1>9, <1>10 DEF PullInv, DirInv

LEMMA SaveStep ==
  ASSUME PullInv, Save
  PROVE  PullInv'
<1>1. /\ pc = "save" /\ manifest' = entries /\ listed' = TRUE
      /\ UNCHANGED <<visible, partial, made, exports, recent, tangled, faults>>
  BY DEF Save, world
<1>2. Owned(manifest)' /\ WholeEntries(manifest)' /\ manifest' \in [Units -> Entries]
  BY <1>1 DEF PullInv, DirInv, TypeOK, Owned, WholeEntries, FilesOf, PartsOf
<1>3. \A f \in Files : f[1] \notin tangled' => (visible[f] # NoFile <=> f \in manifest'[f[1]].files)
  BY <1>1 DEF PullInv, DirInv, Listing
<1>4. CASE Halt
  <2>1. faults' \in 0..MaxFaults /\ tangled' \subseteq Units /\ listed' \in BOOLEAN
    BY <1>1 DEF PullInv, TypeOK
  <2> QED BY <1>1, <1>2, <1>3, <1>4, <2>1, HaltKeeps
<1>5. CASE next = "unit" /\ pc' = "unit" /\ i' = i + 1 /\ UNCHANGED <<entries, blocked, next, unit>>
  <2>1. i' \in 1..(Len(Plan) + 1) /\ UNCHANGED <<ctx, waited, req, todo, rec, sent>>
    BY <1>1, <1>5, PlanFacts DEF PullInv, TypeOK, Placed, unit
  <2>2. TypeOK'
    BY <1>1, <1>2, <1>5, <2>1 DEF PullInv, TypeOK, InUnit
  <2>3. Placed' /\ CtxOwned' /\ Working'
    BY <1>1, <1>5 DEF Placed, CtxOwned, Working, InUnit, Fetches, ExportSteps
  <2>4. Fetching'
    BY <1>1, <1>5, <2>1 DEF PullInv, Fetching, InUnit, Fetches
  <2>5. Listing' /\ NoPartVisible'
    BY <1>1, <1>3, <1>5 DEF Listing, NoPartVisible, PullInv, DirInv
  <2>6. Owned(entries)' /\ WholeEntries(entries)'
    BY <1>1, <1>2, <1>5 DEF Owned, WholeEntries
  <2> QED BY <1>2, <2>2, <2>3, <2>4, <2>5, <2>6 DEF PullInv, DirInv
<1> QED BY <1>4, <1>5 DEF Save

\* GitHub ends and forgets exports at any time.
LEMMA GitHubStep ==
  ASSUME PullInv, GitHub
  PROVE  PullInv'
<1>1. PICK k \in DOMAIN exports : ExportEnds(k) \/ ExportExpires(k)
  BY DEF GitHub
<1>2. /\ UNCHANGED <<visible, partial, manifest, listed, recent, tangled, pc>>
      /\ UNCHANGED <<i, entries, blocked, next, ctx, waited, req, todo, rec, made, sent>>
      /\ \E s \in {"completed", "failed", "gone"} : exports' = [exports EXCEPT ![k].state = s]
      /\ faults' \in 0..MaxFaults
  <2>1. faults \in 0..MaxFaults /\ MaxFaults \in Nat
    BY PlanFacts DEF PullInv, TypeOK
  <2>2. UNCHANGED <<dir, recent, tangled, pc, loop, unit>>
    BY <1>1 DEF ExportEnds, ExportExpires
  <2>3. /\ UNCHANGED <<visible, partial, manifest, listed, recent, tangled, pc>>
        /\ UNCHANGED <<i, entries, blocked, next, ctx, waited, req, todo, rec, made, sent>>
    BY <2>2 DEF dir, loop, unit
  <2>4. \E s \in {"completed", "failed", "gone"} : exports' = [exports EXCEPT ![k].state = s]
    BY <1>1 DEF ExportEnds, ExportExpires
  <2>5. faults' \in 0..MaxFaults
    <3>1. CASE ExportEnds(k)
      <4>1. PICK s \in {"completed", "failed"} :
              /\ s = "failed" => faults < MaxFaults
              /\ faults' = IF s = "failed" THEN faults + 1 ELSE faults
        BY <3>1 DEF ExportEnds
      <4> QED BY <2>1, <4>1
    <3>2. CASE ExportExpires(k)
      <4>1. faults < MaxFaults /\ faults' = faults + 1
        BY <3>2 DEF ExportExpires, Fault
      <4> QED BY <2>1, <4>1
    <3> QED BY <1>1, <3>1, <3>2
  <2> QED BY <2>3, <2>4, <2>5
<1>3. ExportsKept /\ DOMAIN exports' = DOMAIN exports /\ Len(exports') = Len(exports)
  <2>1. PICK s \in {"completed", "failed", "gone"} : exports' = [exports EXCEPT ![k].state = s]
    BY <1>2
  <2>0. exports \in Seq(ExportRows) /\ Len(exports) <= MaxExports
    BY DEF PullInv, TypeOK, ExportRows
  <2>2. /\ exports \in Seq(ExportRows) /\ Len(exports) <= MaxExports /\ Len(exports) \in Nat
        /\ DOMAIN exports = 1..Len(exports) /\ exports[k] \in ExportRows
    BY <2>0
  <2>3. [exports[k] EXCEPT !.state = s] \in ExportRows
        /\ [exports[k] EXCEPT !.state = s].unit = exports[k].unit
    BY <2>1, <2>2 DEF ExportRows
  <2>4. exports' \in Seq(ExportRows) /\ DOMAIN exports' = DOMAIN exports
        /\ Len(exports') = Len(exports)
    BY <2>1, <2>2, <2>3
  <2>5. \A j \in DOMAIN exports : exports'[j].unit = exports[j].unit
    BY <2>1, <2>2, <2>3
  <2> QED BY <2>2, <2>4, <2>5 DEF ExportsKept
<1>4. TypeOK'
  BY <1>2, <1>3 DEF PullInv, TypeOK, InUnit, ExportsKept, ExportRows
<1>5. u' = u /\ prev' = prev /\ Unmoved' = Unmoved /\ part' = part
  BY <1>2 DEF u, prev, Unmoved, part
<1>6. Placed' /\ Working' /\ Listing' /\ NoPartVisible'
  BY <1>2, <1>5 DEF PullInv, DirInv, Placed, Working, Listing, NoPartVisible, InUnit
<1>7. Fetching' /\ CtxOwned'
  BY <1>2, <1>3, <1>5
     DEF PullInv, Fetching, CtxOwned, InUnit, ExportsKept, FilesOf, PartsOf, IsPart
<1>8. Owned(manifest)' /\ Owned(entries)'
  BY <1>2, <1>3 DEF PullInv, DirInv, Owned, ExportsKept, FilesOf, PartsOf
<1>9. WholeEntries(manifest)' /\ WholeEntries(entries)'
  BY <1>2, <1>3 DEF PullInv, DirInv, WholeEntries, ExportsKept
<1> QED BY <1>4, <1>6, <1>7, <1>8, <1>9 DEF PullInv, DirInv

-----------------------------------------------------------------------------
(* The theorems *)

LEMMA PullInit ==
  ASSUME Init
  PROVE  PullInv
<1>1. NoFile \in Contents
  BY PlanFacts DEF NoFile, Contents, None
<1>2. /\ NoEntry \in Entries /\ NoEntry.status # "complete" /\ NoEntry.files = {}
      /\ NoEntry.export = None
  BY PlanFacts DEF NoEntry, Entries, Statuses, None
<1>3. TypeOK
  <2>1. exports = <<>> /\ exports \in Seq(ExportRows) /\ Len(exports) = 0
    BY DEF Init
  <2>2. ctx \in 0..Len(exports) /\ waited \in 0..ExportCap /\ i \in 1..(Len(Plan) + 1)
        /\ Len(exports) <= MaxExports /\ faults \in 0..MaxFaults
    BY <2>1, PlanFacts DEF Init, None
  <2>3. visible \in [Files -> Contents] /\ partial \in [Files -> Contents]
        /\ manifest \in [Units -> Entries] /\ entries \in [Units -> Entries]
    BY <1>1, <1>2 DEF Init
  <2>4. req \in [attempt : 0..MaxRetries, reauthed : BOOLEAN] /\ sent \in 0..Chunks
    BY FreshOK, PlanFacts DEF Init
  <2> QED BY <2>1, <2>2, <2>3, <2>4 DEF Init, TypeOK, ExportRows
<1>4. Placed /\ Fetching /\ CtxOwned /\ Working
  BY DEF Init, Placed, Fetching, CtxOwned, Working, InUnit, Fetches, ExportSteps
<1>5. Owned(manifest) /\ Owned(entries) /\ WholeEntries(manifest) /\ WholeEntries(entries)
  BY <1>2 DEF Init, Owned, WholeEntries
<1>6. Listing
  BY <1>2, FileFacts DEF Init, Listing
<1>7. NoPartVisible
  BY <1>1 DEF Init, NoPartVisible
<1> QED BY <1>3, <1>4, <1>5, <1>6, <1>7 DEF PullInv, DirInv

LEMMA PullStutter ==
  ASSUME PullInv, UNCHANGED vars
  PROVE  PullInv'
<1>1. /\ UNCHANGED <<visible, partial, manifest, listed, exports, recent, tangled, pc, faults>>
      /\ UNCHANGED <<i, entries, blocked, next, ctx, waited, req, todo, rec, made, sent>>
  BY DEF vars, dir, world, loop, unit
<1>2. u' = u /\ prev' = prev /\ Unmoved' = Unmoved /\ part' = part
  BY <1>1 DEF u, prev, Unmoved, part
<1>3. TypeOK'
  BY <1>1 DEF PullInv, TypeOK, InUnit
<1>4. Placed' /\ Working' /\ Listing' /\ NoPartVisible'
  BY <1>1, <1>2 DEF PullInv, DirInv, Placed, Working, Listing, NoPartVisible, InUnit
<1>5. Fetching' /\ CtxOwned'
  BY <1>1, <1>2 DEF PullInv, Fetching, CtxOwned, InUnit, FilesOf, PartsOf, IsPart
<1>6. Owned(manifest)' /\ Owned(entries)'
  BY <1>1 DEF PullInv, DirInv, Owned, FilesOf, PartsOf
<1>7. WholeEntries(manifest)' /\ WholeEntries(entries)'
  BY <1>1 DEF PullInv, DirInv, WholeEntries
<1> QED BY <1>3, <1>4, <1>5, <1>6, <1>7 DEF PullInv, DirInv

LEMMA PullStep ==
  ASSUME PullInv, [Next]_vars
  PROVE  PullInv'
<1>1. CASE Start \/ GitHub \/ Refuse \/ UNCHANGED vars
  BY <1>1, StartStep, GitHubStep, PullStutter DEF Refuse
<1>2. CASE Run
  BY <1>2, SkipFinishStep, PostponeStep, BeginStep, SaveStep, ExportStatusStep, ExportBusyStep,
     ExportPostStep, ExportPollStep, ExportLinksStep, MetricsAnswerStep, FetchStep, FetchedStep,
     ScanStep, RenameStep, UnlinkStep DEF Run
<1>3. CASE Failure
  BY <1>3, FetchShortStep, RetryStep, PostLostStep, UnauthorizedStep, RefusedStep, NoTokenStep, InterruptStep,
     CrashStep DEF Failure
<1> QED BY <1>1, <1>2, <1>3 DEF Next

LEMMA PullHolds == Spec => []PullInv
<1>1. Init => PullInv
  BY PullInit
<1>2. PullInv /\ [Next]_vars => PullInv'
  BY PullStep
<1> QED BY <1>1, <1>2, PTL DEF Spec

\* Every variable of the pull keeps its type, whatever fails, for every plan and bound.
THEOREM PullTypeOK == Spec => []TypeOK
<1>1. PullInv => TypeOK
  BY DEF PullInv
<1> QED BY <1>1, PullHolds, PTL

\* A file with a final name is one answer from its first piece on, whole unless the answer
\* ended early without a sign of it: a retry, a refusal or a crash between pieces or renames
\* never leaves a file under its final name that was not received to the end of its answer.
THEOREM PartsStayHidden == Spec => []NoPartVisible
<1>1. PullInv => NoPartVisible
  BY DEF PullInv, DirInv
<1> QED BY <1>1, PullHolds, PTL

\* A unit that manifest.json calls complete has all its files, and the parts of a report
\* come from one export that was made for the unit.
THEOREM CompleteUnitsAreWhole == Spec => []CompleteIsWhole
<1>1. PullInv => CompleteIsWhole
  <2> SUFFICES ASSUME PullInv, NEW v \in Units, manifest[v].status = "complete"
               PROVE  /\ \A f \in manifest[v].files : f[1] = v /\ visible[f] # NoFile
                      /\ \A f, g \in manifest[v].files : visible[f].src = visible[g].src
                      /\ v \in ExportUnits => \A f \in manifest[v].files :
                           visible[f].src \in DOMAIN exports /\ exports[visible[f].src].unit = v
    BY DEF CompleteIsWhole
  <2>1. \A f \in manifest[v].files : f[1] = v
    BY FileFacts DEF PullInv, DirInv, Owned
  <2> QED BY <2>1 DEF PullInv, DirInv, WholeEntries
<1> QED BY <1>1, PullHolds, PTL

\* Between runs the manifest lists exactly the files of the directory, but for units whose
\* commit was cut short.
THEOREM ManifestListsDirectory == Spec => []ListedExactly
<1>1. PullInv => ListedExactly
  BY DEF PullInv, DirInv, Listing, ListedExactly
<1> QED BY <1>1, PullHolds, PTL

\* The files and the entry of a complete unit are final: no later run, resumed or
\* crashed, fetches the unit again or touches its files.
THEOREM CompleteStays == Spec => CompleteIsFinal
<1> DEFINE Kept(v) == /\ manifest'[v] = manifest[v]
                      /\ \A f \in manifest[v].files : visible'[f] = visible[f]
<1>1. ASSUME PullInv, Next, NEW v \in Units, manifest[v].status = "complete"
      PROVE  Kept(v)
  <2>1. CASE UNCHANGED <<visible, manifest>>
    BY <2>1
  <2>2. CASE Save
    <3>1. pc = "save" /\ manifest' = entries /\ visible' = visible
      BY <2>2 DEF Save
    <3> QED BY <1>1, <3>1 DEF PullInv, DirInv, Working
  <2>3. CASE Rename \/ Unlink
    <3>1. pc = "rename" /\ InUnit /\ manifest' = manifest
      BY <2>3 DEF Rename, Unlink, InUnit
    <3>2. u \in Units /\ v # u /\ entries = manifest
      BY <1>1, <3>1, InUnitFacts
    <3>3. \A f \in manifest[v].files : f \in Files /\ f[1] = v
      BY <1>1, FileFacts DEF PullInv, DirInv, Owned
    <3>4. \A f \in Superseded : f[1] = u
      BY <1>1, <3>2, FileFacts DEF PullInv, DirInv, Owned, Superseded, prev
    <3>5. \A f \in Files : f[1] # u => visible'[f] = visible[f]
      <4>1. CASE Rename
        BY <1>1, <4>1 DEF Rename, PullInv, TypeOK
      <4>2. CASE Unlink
        BY <3>4, <4>2 DEF Unlink
      <4> QED BY <2>3, <4>1, <4>2
    <3> QED BY <3>1, <3>2, <3>3, <3>5
  <2>4. Save \/ Rename \/ Unlink \/ UNCHANGED <<visible, manifest>>
    BY <1>1 DEF Next, Run, Failure, Start, Refuse, Skip, Postpone, Begin, Finish, ExportStatus,
       ExportBusy, ExportPost, ExportPoll, ExportLinks, MetricsAnswer, Fetch, Fetched, Scan,
       FetchShort, Retry, PostLost, Unauthorized, Forbidden, BadAnswer, NoToken, Interrupt, Crash, GitHub,
       ExportEnds, ExportExpires, Close, vars, dir
  <2> QED BY <2>1, <2>2, <2>3, <2>4
<1>2. PullInv /\ [Next]_vars =>
        [\A v \in Units : manifest[v].status = "complete" =>
           /\ manifest'[v] = manifest[v]
           /\ \A f \in manifest[v].files : visible'[f] = visible[f]]_vars
  BY <1>1
<1> QED BY <1>2, PullHolds, PTL DEF Spec, CompleteIsFinal
=============================================================================
