-------------------------- MODULE VscodeCollector --------------------------
(***************************************************************************)
(* Incremental extraction of VS Code's agent-traces.db                     *)
(* (adapters/copilot_vscode_collect.py).  VS Code inserts a span when it   *)
(* ends, so in any order of the starts; it prunes the oldest spans and     *)
(* evicts conversations, and its database may be removed and begun again.  *)
(* A run reads one snapshot, writes the spans that are new to the cursor   *)
(* into a file of their own and advances the cursor; its caller saves the  *)
(* state afterwards.                                                       *)
(*                                                                         *)
(* Spans are numbered in the order (start_time_ms, span_id), and a         *)
(* conversation has one trace.  One database is modelled; the cursors of   *)
(* several are independent.  A run that finds the database missing, busy   *)
(* or with another schema changes nothing.  Rows with malformed or         *)
(* oversized values, which a run passes over, are no spans of the model.   *)
(***************************************************************************)
EXTENDS Integers, FiniteSets, FiniteSetsExt

CONSTANTS
  Spans, Start, Conversation,
  Native,        \* chat spans with a response id
  Synthesized,   \* chat spans without one
  LateWindow,    \* LATE_WINDOW_MS
  MaxRecent,     \* MAX_RECENT_IDS
  None,          \* no span: below every span
  MaxFaults,     \* bound on the crashes and lost state files
  MaxRemovals    \* bound on the evictions and removed databases

ASSUME VscodeAssumption ==
  /\ Spans \subseteq Nat /\ IsFiniteSet(Spans) /\ None = -1
  /\ Start \in [Spans -> Nat] /\ \A s, t \in Spans : s < t => Start[s] <= Start[t]
  /\ DOMAIN Conversation = Spans
  /\ Native \cup Synthesized \subseteq Spans /\ Native \cap Synthesized = {}
  /\ {LateWindow, MaxRecent, MaxFaults, MaxRemovals} \subseteq Nat /\ MaxRecent # 0

VARIABLES
  db,        \* the spans of agent-traces.db
  saved,     \* the DatabaseCursor in the state file
  job,       \* the run in progress
  out,       \* the extracts
  dropped,   \* the synthesized spans that the saved cursor passed without extracting them
  told,      \* the spans inside a gap that a completed run noted
  faults, removals,
  born,      \* the databases so far
  ended,     \* history: the spans inserted so far
  overdue,   \* history: spans inserted when one that starts LateWindow later was there
  pruned,    \* history: the spans VS Code pruned
  excused,   \* history: those whose loss no cursor could tell
  source,    \* history: the database that the saved cursor was read from
  mistaken   \* history: a run restarted in the database that its cursor was read from

vsVars == <<db, removals, born, ended, overdue, pruned>>
runVars == <<saved, job, out, dropped, told, faults, source, mistaken>>
vars == <<vsVars, runVars, excused>>

NoCursor == [mark |-> None, head |-> None, recent |-> {}]
Idle == [stage |-> "idle"]

Init ==
  /\ db = {} /\ saved = NoCursor /\ job = Idle /\ out = {} /\ dropped = {} /\ told = {}
  /\ faults = 0 /\ removals = 0 /\ born = 1 /\ source = 0
  /\ ended = {} /\ overdue = {} /\ pruned = {} /\ excused = {} /\ mistaken = FALSE

Oldest(spans) == IF spans = {} THEN None ELSE Min(spans)
Extracted == UNION {f.spans : f \in out}

-----------------------------------------------------------------------------
(* VS Code *)

\* The mark that the saved state has, or will have when the run in progress is over.
MarkAhead == IF job = Idle THEN saved.mark ELSE Max({saved.mark, job.next.mark})

\* Retention is longer than a span lasts: none ends that starts before a pruned one.
Insert(s) ==
  /\ s \in Spans \ ended /\ \A p \in pruned : p < s
  /\ db' = db \cup {s} /\ ended' = ended \cup {s}
  /\ overdue' = IF \E t \in ended : Start[s] < Start[t] - LateWindow
                THEN overdue \cup {s} ELSE overdue
  /\ excused' = IF s < MarkAhead THEN excused \cup {s} ELSE excused
  /\ UNCHANGED <<runVars, removals, born, pruned>>

Prune ==
  /\ db # {}
  /\ db' = db \ {Min(db)} /\ pruned' = pruned \cup {Min(db)}
  /\ excused' = IF saved.mark = None THEN excused \cup {Min(db)} ELSE excused
  /\ UNCHANGED <<runVars, removals, born, ended, overdue>>

\* The 100-session cap: a conversation goes, the oldest or not.
Evict(s) ==
  /\ s \in db /\ removals < MaxRemovals
  /\ db' = {t \in db : Conversation[t] # Conversation[s]}
  /\ removals' = removals + 1
  /\ UNCHANGED <<runVars, born, ended, overdue, pruned, excused>>

\* The database is deleted; the next span begins another one.
Recreate ==
  /\ db # {} /\ removals < MaxRemovals
  /\ db' = {} /\ born' = born + 1 /\ removals' = removals + 1
  /\ UNCHANGED <<runVars, ended, overdue, pruned, excused>>

-----------------------------------------------------------------------------
(* A run *)

\* The mark is gone, the database reaches below it and its head moved backwards.
recreated(cur) ==
  LET oldest == Oldest(db)
  IN /\ cur.mark # None /\ cur.mark \notin db /\ oldest # None /\ oldest <= cur.mark
     /\ \/ cur.head = None
        \/ Start[oldest] < Start[cur.head]
        \/ Start[oldest] = Start[cur.head] /\ cur.head \notin db

\* Whether a span is inside the window of a cursor (snap.lo).
InWindow(s, cur) == cur.mark = None \/ Start[s] >= Start[cur.mark] - LateWindow

\* The rows of the traces with a span inside the window.
Rows(cur) ==
  {s \in db : \E t \in db : Conversation[t] = Conversation[s] /\ InWindow(t, cur)}

\* Mutants: the arrivals behind the mark are left out, and taken without a look at `recent`.
NewAfterMark(cur) == {s \in Rows(cur) : s > cur.mark}
NewUnchecked(cur) == {s \in Rows(cur) : InWindow(s, cur)}

\* After the mark, or late and not taken yet.
New(cur) == {s \in Rows(cur) : InWindow(s, cur) /\ (s > cur.mark \/ s \notin cur.recent)}

\* Mutant: a native span of any conversation will do.
DedupeAny(rows, new) == {s \in new \cap Synthesized : rows \cap Native # {}}

\* Synthesized spans of a conversation that has a native one.
dedupe_rows(rows, new) ==
  {s \in new \cap Synthesized :
     \E n \in rows \cap Native : Conversation[n] = Conversation[s]}

\* Mutant: a gap shorter than the window is not noted.
GapOutsideWindow(cur, oldest) ==
  {s \in Spans : /\ cur.mark # None /\ cur.mark < s /\ s < oldest
                 /\ ~InWindow(cur.mark, [mark |-> oldest])}

\* The spans that may be missing when the oldest one is newer than the mark.
Gap(cur, oldest) == {s \in Spans : cur.mark # None /\ cur.mark < s /\ s < oldest}

Newest(spans) == {s \in spans : Cardinality({t \in spans : t > s}) < MaxRecent}

\* Mutant: what falls out of the window stays in `recent`.
AdvanceUntrimmed(cur, processed, oldest) ==
  [mark |-> Max(processed \cup {cur.mark}),
   head |-> IF oldest = None THEN cur.head ELSE oldest,
   recent |-> Newest(cur.recent \cup processed)]

\* The cursor after a run that processed some spans.
Advance(cur, processed, oldest) ==
  LET mark == Max(processed \cup {cur.mark})
  IN [mark |-> mark,
      head |-> IF oldest = None THEN cur.head ELSE oldest,
      recent |-> IF processed = {} THEN cur.recent
                 ELSE Newest({s \in cur.recent \cup processed :
                                Start[s] >= Start[mark] - LateWindow})]

\* State and snapshot are read, and what is new in it is told from the dropped.
Read ==
  /\ job = Idle
  /\ LET again == recreated(saved)
         cur == IF again THEN NoCursor ELSE saved
         new == New(cur)
         drop == dedupe_rows(Rows(cur), new)
     IN /\ job' = [stage |-> IF new = drop THEN "done" ELSE "write",
                   kept |-> new \ drop, drop |-> drop,
                   next |-> Advance(cur, new, Oldest(db)), gap |-> Gap(cur, Oldest(db)),
                   of |-> born]
        /\ mistaken' = (mistaken \/ (again /\ source = born))
  /\ UNCHANGED <<vsVars, saved, out, dropped, told, faults, source, excused>>

\* vscode-<collector>-<start>-<end>.db, with -2, -3, ... for a name that is taken.
publish(spans) ==
  LET name == [start |-> Start[Min(spans)], end |-> Start[Max(spans)]]
      taken == {f \in out : f.start = name.start /\ f.end = name.end}
  IN out \cup {[start |-> name.start, end |-> name.end, n |-> Cardinality(taken) + 1,
                spans |-> spans]}

WriteExtract ==
  /\ job.stage = "write"
  /\ out' = publish(job.kept) /\ job' = [job EXCEPT !.stage = "done"]
  /\ UNCHANGED <<vsVars, saved, dropped, told, faults, source, excused, mistaken>>

\* The privacy scan found something: nothing is written, the state stays as it is.
Abort ==
  /\ job.stage = "write"
  /\ job' = Idle
  /\ UNCHANGED <<vsVars, saved, out, dropped, told, faults, source, excused, mistaken>>

Save ==
  /\ job.stage = "done"
  /\ saved' = job.next /\ dropped' = dropped \cup job.drop /\ told' = told \cup job.gap
  /\ source' = job.of /\ job' = Idle
  /\ UNCHANGED <<vsVars, out, faults, excused, mistaken>>

\* The process dies, or the output directory cannot be written.
Crash ==
  /\ job # Idle /\ faults < MaxFaults
  /\ job' = Idle /\ faults' = faults + 1
  /\ UNCHANGED <<vsVars, saved, out, dropped, told, source, excused, mistaken>>

\* load() finds no usable state file and starts fresh.
LoseState ==
  /\ job = Idle /\ saved # NoCursor /\ faults < MaxFaults
  /\ saved' = NoCursor /\ faults' = faults + 1 /\ excused' = excused \cup pruned
  /\ UNCHANGED <<vsVars, job, out, dropped, told, source, mistaken>>

Next ==
  \/ \E s \in Spans : Insert(s) \/ Evict(s)
  \/ Prune \/ Recreate
  \/ Read \/ WriteExtract \/ Abort \/ Save \/ Crash \/ LoseState

Spec == Init /\ [][Next]_vars

-----------------------------------------------------------------------------
(* Properties *)

Cursors ==
  [mark : Spans \cup {None}, head : Spans \cup {None}, recent : SUBSET Spans]

\* The variables have their types, and `recent` holds the spans of the window below the
\* mark and no other: the state stays as small as the window (DatabaseCursor.recent).
TypeOK ==
  /\ db \subseteq ended /\ {ended, overdue, pruned, excused, dropped, told} \subseteq SUBSET Spans
  /\ \A cur \in {saved} \cup (IF job = Idle THEN {} ELSE {job.next}) :
       /\ cur \in Cursors /\ Cardinality(cur.recent) <= MaxRecent
       /\ cur.mark # None => cur.mark \in cur.recent
       /\ \A s \in cur.recent : s <= cur.mark /\ Start[s] >= Start[cur.mark] - LateWindow
  /\ \A f \in out : f.spans # {} /\ f.spans \subseteq Spans
  /\ faults \in 0 .. MaxFaults /\ removals \in 0 .. MaxRemovals
  /\ born \in 1 .. removals + 1 /\ source \in 0 .. born /\ mistaken \in BOOLEAN

\* The saved cursor passes over nothing: a span in the database is in an extract, was
\* dropped for its native span or is taken by the next run, whatever the order in which
\* spans ended and databases came and went, and whether runs were aborted, crashed or
\* lost their state.  Only a span overdue by more than the window may be missed.
NothingMissed ==
  \A s \in db \ overdue :
    s \in Extracted \cup dropped \/ s \in New(IF recreated(saved) THEN NoCursor ELSE saved)

\* Without a crash or a lost state file no span is in two extracts, however late it was
\* inserted; but for a restart that took an evicted mark for another database.
ExtractedOnce ==
  faults = 0 /\ ~mistaken =>
    \A f, g \in out : f # g => f.spans \cap g.spans = {}

\* A synthesized span is dropped only for a native one that counts the call: that one is
\* in an extract, unless it was overdue itself.
DroppedIsCovered ==
  \A s \in dropped :
    \E n \in Native : Conversation[n] = Conversation[s] /\ n \in Extracted \cup overdue

\* No silent loss: once the mark has passed a span that VS Code pruned before it was
\* extracted, a gap that contains the span was noted.
LossIsTold ==
  \A s \in pruned \ (Extracted \cup dropped \cup excused) :
    s <= saved.mark => s \in told
=============================================================================
