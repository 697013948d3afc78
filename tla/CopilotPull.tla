---------------------------- MODULE CopilotPull -----------------------------
(***************************************************************************)
(* A resumable pull of GitHub's Copilot sources into a directory           *)
(* (copilot/pull_common.py, the runners of pull_billing.py and             *)
(* pull_metrics.py).  One run goes through the planned units: a unit's     *)
(* answers go to partial files, which are scanned, renamed into place and  *)
(* then listed in manifest.json.  Requests are lost, refused or            *)
(* interrupted, tokens expire, the process dies; the admin runs the pull   *)
(* again with --resume.  A report export is started at GitHub, which       *)
(* generates one at a time per account, and is downloaded once it is done. *)
(***************************************************************************)
EXTENDS Integers, Sequences, FiniteSets, FiniteSetsExt, SequencesExt

CONSTANTS
  Plan,          \* the planned units in pull order
  ExportUnits,   \* the units that are report exports
  MetricsUnits,  \* the units that are metrics days; the others are page sets
  Shapes,        \* the sets of parts each report may come in: {0} or {1, 2, ..}
  Chunks,        \* pages of a page set, pieces of a download
  MaxRetries,    \* MAX_RETRIES of one request
  ExportCap,     \* EXPORT_CAP_S, in waits
  MaxExports,    \* bound on the exports GitHub accepts
  MaxFaults      \* bound on failed requests, refusals, interrupts and crashes

Units == Range(Plan)
PartsOf(v) == IF v \in ExportUnits THEN UNION Shapes[v] ELSE {0}
Files == UNION {{v} \X PartsOf(v) : v \in Units}

ASSUME PlanAssumption ==
  /\ Plan \in Seq(Units) /\ Plan # <<>> /\ IsInjective(Plan)
  /\ ExportUnits \subseteq Units /\ MetricsUnits \subseteq Units \ ExportUnits
ASSUME BoundsAssumption ==
  /\ Shapes \in [ExportUnits -> (SUBSET ((SUBSET Nat) \ {{}})) \ {{}}]
  /\ Chunks \in Nat \ {0} /\ MaxRetries \in Nat /\ ExportCap \in Nat
  /\ MaxExports \in Nat /\ MaxFaults \in Nat

VARIABLES
  visible,    \* the unit files of the directory
  partial,    \* the partial files next to them
  manifest,   \* the units of manifest.json
  listed,     \* manifest.json exists
  made,       \* a unit's subdirectory exists: the directory has a visible entry
  exports,    \* GitHub: the exports by id, in the order they were accepted
  recent,     \* the metrics days that are newer than D-3
  tangled,    \* units whose commit was cut short after its first rename
  faults,
  pc,         \* the run's step
  i,          \* its unit, in Plan
  entries,    \* its unit entries
  blocked,    \* export_blocked
  next,       \* what it does after it has written the manifest
  ctx,        \* the unit's ctx.export_id
  waited,     \* the unit's waits for exports
  req,        \* the request in progress: failed attempts, token read again
  todo,       \* the parts still to be fetched
  rec,        \* the unit's recorder: the files it has opened
  sent        \* pages, or pieces of the answer in progress, that have arrived

dir == <<visible, partial, manifest, listed, made>>
world == <<exports, recent, tangled>>
loop == <<i, entries, blocked, next>>
unit == <<ctx, waited, req, todo, rec, sent>>
vars == <<dir, world, faults, pc, loop, unit>>

None == 0
NoFile == [src |-> None, n |-> 0, short |-> FALSE]
NoEntry == [status |-> "absent", files |-> {}, export |-> None]
Fresh == [attempt |-> 0, reauthed |-> FALSE]

u == Plan[i]
prev == entries[u]

InUnit == pc \in {"status", "post", "poll", "links", "answer", "fetch", "scan", "rename"}
\* The other requests are to the API, with the token.
Downloading == pc = "fetch" /\ todo # {} /\ u \in ExportUnits \cup MetricsUnits
Asking == \/ pc \in {"status", "post", "poll", "answer"}
          \/ pc = "fetch" /\ todo # {} /\ u \notin ExportUnits \cup MetricsUnits
\* A download link may name a GitHub host; the status comes before the body.
Authorized == Asking \/ (Downloading /\ sent = 0)

Init ==
  /\ visible = [f \in Files |-> NoFile] /\ partial = [f \in Files |-> NoFile]
  /\ manifest = [v \in Units |-> NoEntry] /\ listed = FALSE
  /\ made = FALSE
  /\ exports = <<>> /\ recent = MetricsUnits /\ tangled = {} /\ faults = 0
  /\ pc = "idle" /\ i = 1 /\ entries = [v \in Units |-> NoEntry] /\ blocked = FALSE
  /\ next = "idle" /\ ctx = None /\ waited = 0 /\ req = Fresh /\ todo = {} /\ rec = {}
  /\ sent = 0

-----------------------------------------------------------------------------
(* Parts of the steps *)

Fault == faults < MaxFaults /\ faults' = faults + 1

discard == partial' = [f \in Files |-> IF f \in rec THEN NoFile ELSE partial[f]]

\* The unit ends without new files: the earlier ones stay until a run replaces them.
Close(status, export, then) ==
  /\ discard /\ rec' = {} /\ sent' = 0
  /\ entries' = [entries EXCEPT ![u] = [status |-> status, files |-> @.files, export |-> export]]
  /\ pc' = "save" /\ next' = then
  /\ UNCHANGED <<visible, manifest, listed, made, i, ctx, waited, req, todo>>

\* The request is answered; the next one starts anew.
Answered(step) == pc' = step /\ req' = Fresh

\* The run is over; nothing of it stays in memory.
Halt ==
  /\ pc' = "idle" /\ i' = 1 /\ entries' = [v \in Units |-> NoEntry] /\ blocked' = FALSE
  /\ next' = "idle" /\ ctx' = None /\ waited' = 0 /\ req' = Fresh /\ todo' = {} /\ rec' = {}
  /\ sent' = 0

Processing == \E k \in DOMAIN exports : exports[k].state = "processing"

-----------------------------------------------------------------------------
(* The run: from unit to unit *)

\* _prepare_out_dir: without a manifest any entry whose name is not hidden is refused, and
\* the first partial file makes its subdirectory.
Stranded == ~listed /\ made

\* Time passes between two runs: days leave the D-3 window.
Start ==
  /\ pc = "idle" /\ ~Stranded
  /\ partial' = IF listed THEN [f \in Files |-> NoFile] ELSE partial
  /\ entries' = manifest
  /\ recent' \in SUBSET recent
  /\ pc' = "unit"
  /\ UNCHANGED <<visible, manifest, listed, made, exports, tangled, faults, i, blocked, next, unit>>

\* UsageError: the directory is not empty and holds no pull.
Refuse == pc = "idle" /\ Stranded /\ UNCHANGED vars

\* Mutants: --resume skips nothing, or everything that was tried.
DoneNone == FALSE
DoneTried == prev.status # "absent"
Done == prev.status = "complete" /\ \A f \in prev.files : visible[f] # NoFile

Skip ==
  /\ pc = "unit" /\ i <= Len(Plan) /\ Done
  /\ i' = i + 1
  /\ UNCHANGED <<dir, world, faults, pc, entries, blocked, next, unit>>

Postpone ==
  /\ pc = "unit" /\ i <= Len(Plan) /\ ~Done /\ u \in ExportUnits /\ blocked
  /\ entries' = [entries EXCEPT ![u].status = "incomplete"]
  /\ pc' = "save" /\ next' = "unit"
  /\ UNCHANGED <<dir, world, faults, i, blocked, unit>>

Begin ==
  /\ pc = "unit" /\ i <= Len(Plan) /\ ~Done /\ ~(u \in ExportUnits /\ blocked)
  /\ ctx' = None /\ waited' = 0 /\ req' = Fresh /\ rec' = {} /\ sent' = 0
  /\ pc' = CASE u \in ExportUnits -> IF prev.export = None THEN "post" ELSE "status"
             [] u \in MetricsUnits -> "answer"
             [] OTHER -> "fetch"
  /\ todo' = IF u \in ExportUnits \cup MetricsUnits THEN {} ELSE {0}
  /\ UNCHANGED <<dir, world, faults, loop>>

Finish ==
  /\ pc = "unit" /\ i > Len(Plan)
  /\ pc' = "save" /\ next' = "idle"
  /\ UNCHANGED <<dir, world, faults, i, entries, blocked, unit>>

\* _write_manifest, then the next unit or the end of the run.
Save ==
  /\ pc = "save"
  /\ manifest' = entries /\ listed' = TRUE
  /\ \/ next = "unit" /\ pc' = "unit" /\ i' = i + 1 /\ UNCHANGED <<entries, blocked, next, unit>>
     \/ next = "idle" /\ Halt
  /\ UNCHANGED <<visible, partial, made, world, faults>>

-----------------------------------------------------------------------------
(* _run_export *)

\* The export an earlier run left: it is gone (404), failed, or to be continued.
ExportStatus ==
  /\ pc = "status"
  /\ LET state == exports[prev.export].state
     IN IF state \in {"gone", "failed"}
          THEN Answered("post") /\ UNCHANGED ctx
          ELSE ctx' = prev.export /\ Answered(IF state = "completed" THEN "links" ELSE "poll")
  /\ UNCHANGED <<dir, world, faults, loop, waited, todo, rec, sent>>

\* 409, because of an export of this pull or (a fault) of somebody else.
ExportBusy ==
  /\ pc = "post"
  /\ (Processing /\ UNCHANGED faults) \/ (~Processing /\ Fault)
  /\ \/ waited >= ExportCap /\ Close("incomplete", None, "unit") /\ blocked' = TRUE
     \/ /\ waited < ExportCap
        /\ waited' = waited + 1 /\ Answered("post")
        /\ UNCHANGED <<dir, loop, ctx, todo, rec, sent>>
  /\ UNCHANGED world

Accepted ==
  /\ ~Processing /\ Len(exports) < MaxExports
  /\ exports' = Append(exports, [unit |-> u, state |-> "processing"])

ExportPost ==
  /\ pc = "post" /\ Accepted
  /\ ctx' = Len(exports) + 1 /\ Answered("poll")
  /\ UNCHANGED <<dir, recent, tangled, faults, loop, waited, todo, rec, sent>>

ExportPoll ==
  /\ pc = "poll"
  /\ LET state == exports[ctx].state
     IN \/ waited >= ExportCap /\ Close("incomplete", ctx, "unit") /\ blocked' = TRUE
        \/ /\ waited < ExportCap /\ state \in {"processing", "completed"}
           /\ waited' = waited + 1
           /\ Answered(IF state = "completed" THEN "links" ELSE "poll")
           /\ UNCHANGED <<dir, loop, ctx, todo, rec, sent>>
        \/ /\ waited < ExportCap /\ state \in {"failed", "gone"}
           /\ Close("incomplete", IF state = "failed" THEN None ELSE ctx, "unit")
           /\ UNCHANGED blocked
  /\ UNCHANGED <<world, faults>>

ExportLinks ==
  /\ pc = "links"
  /\ \/ /\ todo' \in Shapes[u] /\ Answered("fetch") /\ made' = TRUE
        /\ UNCHANGED <<visible, partial, manifest, listed, loop, ctx, waited, rec, sent, faults>>
     \/ Fault /\ Close("incomplete", None, "unit") /\ UNCHANGED blocked
  /\ UNCHANGED world

-----------------------------------------------------------------------------
(* _run_metrics_day, the page sets, downloads *)

\* 204 or 404 while GitHub has no data yet; a report without records has no link.
MetricsAnswer ==
  /\ pc = "answer"
  /\ \/ /\ todo' \in {{}, {0}} /\ Answered("fetch") /\ made' = (made \/ todo' # {})
        /\ UNCHANGED <<visible, partial, manifest, listed, loop, ctx, waited, rec, sent, faults>>
     \/ Fault /\ Close("not_ready", None, "unit") /\ UNCHANGED blocked
  /\ UNCHANGED world

\* The part at hand: a download's file is opened before the request is sent.
part == <<u, Min(todo)>>

\* A page is appended to the partial file, which the first one makes; or a download
\* goes on.
Fetch ==
  /\ pc = "fetch" /\ todo # {}
  /\ LET had == IF part \in rec THEN partial[part].n ELSE 0
         ended == sent + 1 = Chunks
     IN /\ partial' = [partial EXCEPT ![part] = [src |-> ctx, n |-> had + 1, short |-> FALSE]]
        /\ rec' = rec \cup {part}
        /\ todo' = IF ended THEN todo \ {part[2]} ELSE todo
        /\ sent' = IF ended THEN 0 ELSE sent + 1
        /\ req' = IF ended \/ ~Downloading THEN Fresh ELSE req
  /\ made' = TRUE
  /\ UNCHANGED <<visible, manifest, listed, world, faults, pc, loop, ctx, waited>>

\* _read_limited: the connection ends within the body, which reads as its end; nothing
\* compares the length.  A CSV is kept as it is, a metrics file with the records it has.
\* (A cut gzip stream fails the scan, a cut page is no JSON: Scan and BadAnswer.)
FetchShort ==
  /\ Downloading /\ Fault
  /\ LET kept == sent > 0 \/ u \in ExportUnits
     IN /\ partial' = IF kept
                        THEN [partial EXCEPT ![part] = [src |-> ctx, n |-> sent, short |-> TRUE]]
                        ELSE partial
        /\ rec' = IF kept THEN rec \cup {part} ELSE rec \ {part}
  /\ todo' = todo \ {part[2]} /\ sent' = 0 /\ req' = Fresh
  /\ UNCHANGED <<visible, manifest, listed, made, world, pc, loop, ctx, waited>>

Fetched ==
  /\ pc = "fetch" /\ todo = {}
  /\ pc' = "scan"
  /\ UNCHANGED <<dir, world, faults, loop, unit>>

-----------------------------------------------------------------------------
(* _Recorder.commit *)

\* A token, a secret or a signed URL in a recorded file rejects the unit.
Scan ==
  /\ pc = "scan"
  /\ \/ pc' = "rename" /\ UNCHANGED <<dir, loop, unit, faults>>
     \/ Fault /\ Close("incomplete", None, "unit") /\ UNCHANGED blocked
  /\ UNCHANGED world

Unmoved == {f \in rec : partial[f] # NoFile}

Rename ==
  /\ pc = "rename" /\ Unmoved # {}
  /\ LET f == <<u, Min({g[2] : g \in Unmoved})>>
     IN /\ visible' = [visible EXCEPT ![f] = partial[f]]
        /\ partial' = [partial EXCEPT ![f] = NoFile]
  /\ UNCHANGED <<manifest, listed, made, world, faults, pc, loop, unit>>

\* The files of the unit's last run that this one did not write are deleted.
\* Mutants: all of them are, or none.
SupersededAll == prev.files
SupersededNone == {}
Superseded == prev.files \ rec

Unlink ==
  /\ pc = "rename" /\ Unmoved = {}
  /\ visible' = [f \in Files |-> IF f \in Superseded THEN NoFile ELSE visible[f]]
  /\ entries' = [entries EXCEPT ![u] =
       [status |-> IF u \in recent THEN "provisional" ELSE "complete",
        files |-> rec, export |-> None]]
  /\ rec' = {} /\ pc' = "save" /\ next' = "unit"
  /\ UNCHANGED <<partial, manifest, listed, made, world, faults, i, blocked, ctx, waited, req, todo,
                 sent>>

-----------------------------------------------------------------------------
(* Failures *)

\* Mutant: one attempt too many.
MayRetryOnceMore == req.attempt <= MaxRetries
MayRetry == req.attempt < MaxRetries

\* Mutant: what an earlier attempt has written is not truncated.
NotTruncated == partial
Truncated == [f \in Files |-> IF f = part /\ f \in rec THEN NoFile ELSE partial[f]]

\* A network failure, a rate limit or a 5xx: the request is sent again, a
\* download from its start, until the retries are used up.
Retry ==
  /\ (Asking \/ Downloading) /\ Fault
  /\ \/ /\ MayRetry
        /\ req' = [req EXCEPT !.attempt = @ + 1]
        /\ partial' = IF Downloading THEN Truncated ELSE partial
        /\ sent' = IF Downloading THEN 0 ELSE sent
        /\ UNCHANGED <<visible, manifest, listed, made, pc, loop, ctx, waited, todo, rec>>
     \/ /\ ~MayRetry
        /\ Close("incomplete", ctx, "unit") /\ UNCHANGED blocked
  /\ UNCHANGED world

\* The POST reached GitHub and its answer was lost: with the last attempt the run
\* leaves an export that no entry names.
PostLost ==
  /\ pc = "post" /\ Fault /\ Accepted
  /\ \/ /\ MayRetry
        /\ req' = [req EXCEPT !.attempt = @ + 1]
        /\ UNCHANGED <<dir, pc, loop, ctx, waited, todo, rec, sent>>
     \/ /\ ~MayRetry
        /\ Close("incomplete", ctx, "unit") /\ UNCHANGED blocked
  /\ UNCHANGED <<recent, tangled>>

\* 401: the token is read again once.
Unauthorized ==
  /\ Authorized /\ Fault
  /\ \/ /\ ~req.reauthed
        /\ req' = [req EXCEPT !.reauthed = TRUE]
        /\ UNCHANGED <<dir, pc, loop, ctx, waited, todo, rec, sent>>
     \/ /\ req.reauthed
        /\ Close("incomplete", IF ctx # None THEN ctx ELSE prev.export, "idle")
        /\ UNCHANGED blocked
  /\ UNCHANGED world

Forbidden ==
  /\ Asking /\ Fault
  /\ Close("forbidden", None, "unit") /\ UNCHANGED <<blocked, world>>

\* Any other status, or an answer of the wrong shape (PullError).
BadAnswer ==
  /\ (Asking \/ Downloading) /\ Fault
  /\ Close("incomplete", ctx, "unit") /\ UNCHANGED <<blocked, world>>

\* The token cannot be read before the unit or after a 401 (UsageError): the entries
\* stay as they are.
NoToken ==
  /\ Authorized /\ ~req.reauthed /\ Fault
  /\ discard /\ rec' = {} /\ sent' = 0 /\ pc' = "save" /\ next' = "idle"
  /\ UNCHANGED <<visible, manifest, listed, made, world, i, entries, blocked, ctx, waited, req,
                 todo>>

\* A commit that renamed files the manifest does not know of.
Cut ==
  tangled' = IF \/ pc = "rename" /\ Unmoved # rec
                \/ pc = "save" /\ i <= Len(Plan) /\ prev.files # manifest[u].files
               THEN tangled \cup {u} ELSE tangled

\* KeyboardInterrupt or an I/O error within the unit.
Interrupt ==
  /\ InUnit /\ Fault
  /\ Close("incomplete", None, "idle") /\ Cut /\ UNCHANGED <<blocked, exports, recent>>

\* The process dies: also between the commit and the manifest.
Crash ==
  /\ pc # "idle" /\ Fault
  /\ Halt /\ Cut
  /\ UNCHANGED <<dir, exports, recent>>

-----------------------------------------------------------------------------
(* GitHub *)

ExportEnds(k) ==
  /\ exports[k].state = "processing"
  /\ \E s \in {"completed", "failed"} :
       /\ s = "failed" => faults < MaxFaults
       /\ exports' = [exports EXCEPT ![k].state = s]
       /\ faults' = IF s = "failed" THEN faults + 1 ELSE faults
  /\ UNCHANGED <<dir, recent, tangled, pc, loop, unit>>

ExportExpires(k) ==
  /\ exports[k].state = "completed" /\ Fault
  /\ exports' = [exports EXCEPT ![k].state = "gone"]
  /\ UNCHANGED <<dir, recent, tangled, pc, loop, unit>>

GitHub == \E k \in DOMAIN exports : ExportEnds(k) \/ ExportExpires(k)

-----------------------------------------------------------------------------
Run == \/ Skip \/ Postpone \/ Begin \/ Finish \/ Save
       \/ ExportStatus \/ ExportBusy \/ ExportPost \/ ExportPoll \/ ExportLinks
       \/ MetricsAnswer \/ Fetch \/ Fetched \/ Scan \/ Rename \/ Unlink
Failure == \/ FetchShort \/ Retry \/ PostLost \/ Unauthorized \/ Forbidden \/ BadAnswer \/ NoToken
           \/ Interrupt \/ Crash
Next == Start \/ Refuse \/ Run \/ Failure \/ GitHub

\* The admin repeats the pull, a run goes on, GitHub ends its exports; faults are bounded.
Fairness == WF_vars(Start) /\ WF_vars(Run) /\ WF_vars(GitHub)
Spec == Init /\ [][Next]_vars /\ Fairness

-----------------------------------------------------------------------------
(* Properties *)

Contents == [src : 0..MaxExports, n : Nat, short : BOOLEAN]
Statuses == {"absent", "complete", "provisional", "not_ready", "incomplete", "forbidden"}
Entries == [status : Statuses, files : SUBSET Files, export : 0..MaxExports]

\* Every variable has its type; an export id a run holds is one GitHub gave.
TypeOK ==
  /\ visible \in [Files -> Contents] /\ partial \in [Files -> Contents]
  /\ manifest \in [Units -> Entries] /\ entries \in [Units -> Entries] /\ listed \in BOOLEAN
  /\ made \in BOOLEAN /\ sent \in 0..Chunks
  /\ exports \in Seq([unit : ExportUnits,
                      state : {"processing", "completed", "failed", "gone"}])
  /\ Len(exports) <= MaxExports /\ ctx \in 0..Len(exports)
  /\ recent \subseteq MetricsUnits /\ tangled \subseteq Units /\ faults \in 0..MaxFaults
  /\ InUnit \/ pc \in {"idle", "unit", "save"}
  /\ i \in 1..(Len(Plan) + 1) /\ blocked \in BOOLEAN /\ next \in {"unit", "idle"}
  /\ waited \in 0..ExportCap /\ req \in [attempt : 0..MaxRetries, reauthed : BOOLEAN]
  /\ todo \subseteq UNION {PartsOf(v) : v \in Units} /\ rec \subseteq Files

\* A unit the manifest calls complete has all its files (how much is in them is another
\* question, StoredVerbatim), and the parts of a report come from one export, which was made
\* for that unit.
CompleteIsWhole ==
  \A v \in Units : manifest[v].status = "complete" =>
    /\ \A f \in manifest[v].files : f[1] = v /\ visible[f] # NoFile
    /\ \A f, g \in manifest[v].files : visible[f].src = visible[g].src
    /\ v \in ExportUnits => \A f \in manifest[v].files :
         visible[f].src \in DOMAIN exports /\ exports[visible[f].src].unit = v

\* Between runs the manifest lists exactly the files of the directory, except for
\* units whose commit was cut short: a failed run loses no file of an earlier one
\* and leaves none behind.
ListedExactly ==
  pc = "idle" => \A f \in Files : f[1] \notin tangled =>
    (visible[f] # NoFile <=> f \in manifest[f[1]].files)

\* A file with a final name is one answer, from its first piece to its last: no piece of an
\* attempt that failed stays in it, and none is missing unless the answer ended early
\* without a sign of it.
NoPartVisible == \A f \in Files : visible[f].n = Chunks \/ visible[f].short \/ visible[f] = NoFile

\* "report CSVs are stored verbatim" (pull_common.py:27): a complete report has every piece
\* GitHub sent it in.  No run checks it: the code breaks it where a body ends early.
StoredVerbatim ==
  \A v \in ExportUnits : manifest[v].status = "complete" =>
    \A f \in manifest[v].files : visible[f].n = Chunks

\* "records ... sources into a directory of files ..., safely and resumably"
\* (pull_common.py:3-6): a directory that only this pull has written to can be resumed.
\* No run checks it: the code breaks it before the first manifest.
PullContinues == pc = "idle" => ~Stranded

\* Once a unit is complete, no later run changes its entry or its files.
CompleteIsFinal ==
  [][\A v \in Units : manifest[v].status = "complete" =>
       /\ manifest'[v] = manifest[v]
       /\ \A f \in manifest[v].files : visible'[f] = visible[f]]_vars

\* The pull gets there: with bounded failures and an admin who repeats it, every
\* unit is recorded in the end, unless the directory is refused for good, because the
\* process died before there was a manifest.
Settles ==
  <>[](Stranded \/ \A v \in Units : manifest[v].status \in {"complete", "provisional"})
=============================================================================
