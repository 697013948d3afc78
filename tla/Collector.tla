----------------------------- MODULE Collector ------------------------------
(***************************************************************************)
(* Incremental collection of a transcript (adapters/cc_collect.py, the     *)
(* parser passes of adapters/claude_code.py it makes, and run_collect of   *)
(* pipeline/ledger.py).  Claude Code appends lines to the file, sometimes  *)
(* half a line at a time, may delete it and start another one under its    *)
(* name.  A run of the collector compares the file with its saved cursor,  *)
(* reads what is new, writes the closed calls to a trace file and then     *)
(* saves the cursor; it may die between any two steps.                     *)
(*                                                                         *)
(* Offsets count half lines: line i starts at 2 * (i - 1) and ends, with   *)
(* its newline, at 2 * i.  A call is the group of the assistant lines that *)
(* have its message id; the largest output is the one that is billed.      *)
(* Transcripts do not share collector state, so one is enough.             *)
(***************************************************************************)
EXTENDS Integers, Sequences, FiniteSets, SequencesExt

CONSTANTS
  Answers,       \* [id, out]: message ids and outputs of assistant lines
  Closers,       \* types of the entries that close calls: "user", "other"
  PlaceholderMax,\* MSO_MAX_OUTPUT: outputs that may be message_start placeholders
  ClosedWindow,  \* CLOSED_WINDOW: closed calls remembered for late lines
  HeadBytes,     \* HEAD_SHA_BYTES, in half lines
  NoCursor,      \* no cursor for the file
  MaxLines,      \* bounds on the lines of the files that have the name, in turn
  MaxFaults      \* bound on crashes and unusable state files

ASSUME WindowsAssumption ==
  /\ Closers \subseteq {"user", "other"}
  /\ ClosedWindow \in Nat /\ HeadBytes \in Nat \ {0}
  /\ \A a \in Answers : a.out \in Nat
  /\ PlaceholderMax \in Nat /\ MaxFaults \in Nat
  /\ MaxLines \in Seq(Nat) /\ MaxLines # <<>>

VARIABLES
  file,       \* number of the file that has (or will next have) the name
  present,    \* the file exists
  lines,      \* its lines, the last one included
  half,       \* only half of the last line is written
  saved,      \* the state file: cursor and parser context, or NoCursor
  job,        \* the run in progress
  delivered,  \* the records of all trace files, with the file they are from
  faults

fileVars == <<file, present, lines, half>>
vars == <<fileVars, saved, job, delivered, faults>>

Messages == {a.id : a \in Answers}
Outputs == {a.out : a \in Answers}

\* "user" answers the tool calls of the open groups; "other" stands for the
\* entries that close groups without answering them (attachments, system
\* entries, prompts), "junk" for entries and bad lines the parser passes over.
Assistant == {[type |-> "assistant", id |-> a.id, out |-> a.out] : a \in Answers}
Junk == [type |-> "junk"]
Closing == [type : Closers]
Lines == Assistant \cup Closing \cup {Junk}

Size == 2 * Len(lines) - (IF half THEN 1 ELSE 0)
Least(a, b) == IF a < b THEN a ELSE b

\* _head_sha over the first n bytes: two files differ from their first byte on.
HeadSha(n) == LET m == Least(Least(HeadBytes, n), Size)
           IN [file |-> IF m = 0 THEN 0 ELSE file, n |-> m]

Idle == [stage |-> "idle"]

Init ==
  /\ file = 1 /\ present = TRUE /\ lines = <<>> /\ half = FALSE
  /\ saved = NoCursor /\ job = Idle /\ delivered = {} /\ faults = 0

-----------------------------------------------------------------------------
(* Claude Code *)

AppendLine ==
  /\ present /\ ~half /\ Len(lines) < MaxLines[file]
  /\ \E l \in Lines, h \in BOOLEAN : lines' = Append(lines, l) /\ half' = h
  /\ UNCHANGED <<file, present, saved, job, delivered, faults>>

EndLine ==
  /\ half
  /\ half' = FALSE
  /\ UNCHANGED <<file, present, lines, saved, job, delivered, faults>>

\* The cleanup of old transcripts, at any time.
Delete ==
  /\ present /\ file < Len(MaxLines)
  /\ file' = file + 1 /\ present' = FALSE /\ lines' = <<>> /\ half' = FALSE
  /\ UNCHANGED <<saved, job, delivered, faults>>

\* Another file under the name; not within the moment a run takes.
Create ==
  /\ ~present /\ job = Idle
  /\ present' = TRUE
  /\ UNCHANGED <<file, lines, half, saved, job, delivered, faults>>

-----------------------------------------------------------------------------
(* The parser: _FileParser over the lines from an offset.                  *)
(* A parser state has the open groups, the closed window (oldest first)    *)
(* and the requests of this read, one per message id.                      *)

WithId(S, m) == {g \in S : g.id = m}

\* _Group, _reopen and _closed_meta: the group an assistant line belongs to.
GroupFor(p, m, offset) ==
  LET known == WithId(p.open, m)
      past == WithId(ToSet(p.closed), m)
      sent == WithId(p.requests, m)
      Reopen(g) == [id |-> m, offset |-> g.offset, out |-> g.out,
                    best |-> FALSE, reopened |-> TRUE]
  IN IF known # {} THEN CHOOSE g \in known : TRUE
     ELSE IF past # {} THEN Reopen(CHOOSE g \in past : TRUE)
     ELSE IF sent # {} THEN Reopen(CHOOSE g \in sent : TRUE)
     ELSE [id |-> m, offset |-> offset, out |-> -1, best |-> FALSE, reopened |-> FALSE]

\* The window is an OrderedDict: it has one entry of an id at most.
Forget(closed, m) ==
  LET at == {k \in DOMAIN closed : closed[k].id = m}
  IN IF at = {} THEN closed ELSE RemoveAt(closed, CHOOSE k \in at : TRUE)

\* assistant: the larger output wins, and a tie only before the first emission.
assistant(p, l, offset) ==
  LET g == GroupFor(p, l.id, offset)
      raised == l.out > g.out \/ (l.out = g.out /\ ~g.reopened)
  IN [p EXCEPT !.open = (@ \ WithId(@, l.id)) \cup
                        {IF raised THEN [g EXCEPT !.out = l.out, !.best = TRUE] ELSE g},
               !.closed = Forget(@, l.id)]

\* Mutant: the closed window is not bounded.
remember_closed_all(closed, g) ==
  Append(Forget(closed, g.id), [id |-> g.id, offset |-> g.offset, out |-> g.out])

remember_closed(closed, g) ==
  LET longer == Append(Forget(closed, g.id),
                       [id |-> g.id, offset |-> g.offset, out |-> g.out])
  IN IF Len(longer) > ClosedWindow THEN Tail(longer) ELSE longer

\* A re-opened group whose new lines did not raise the output emits nothing.
finalize(p, g, mso) ==
  [p EXCEPT
     !.closed = remember_closed(@, g),
     !.requests = IF ~g.best THEN @
                  ELSE (@ \ WithId(@, g.id)) \cup
                       {[id |-> g.id, offset |-> g.offset, out |-> g.out, mso |-> mso]}]

\* One turn of the loops of close_groups and finish(), which take the open groups
\* in the order of their offsets.
close_earliest(p, answered) ==
  LET g == CHOOSE g \in p.open : \A h \in p.open : g.offset <= h.offset
  IN finalize([p EXCEPT !.open = @ \ {g}], g,
              answered /\ g.out <= PlaceholderMax /\ ~g.reopened)

close_groups(p, answered) ==
  LET n == Cardinality(p.open)
      q[k \in 0..n] == IF k = 0 THEN p ELSE close_earliest(q[k - 1], answered)
  IN q[n]

line(p, l, offset) ==
  CASE l.type = "assistant" -> assistant(p, l, offset)
    [] l.type = "user" -> close_groups(p, TRUE)
    [] l.type = "other" -> close_groups(p, FALSE)
    [] OTHER -> p

\* What readline returns for line i: a rest of a line, or half a line, is junk.
Raw(i, start) ==
  IF 2 * (i - 1) < start \/ (half /\ i = Len(lines)) THEN Junk ELSE lines[i]

\* Parser state after the lines from start up to, not including, offset upto.
Parsed(start, closed, upto) ==
  LET p[i \in 0..Len(lines)] ==
        IF 2 * i <= start THEN [open |-> {}, closed |-> closed, requests |-> {}]
        ELSE line(p[i - 1], Raw(i, start), 2 * (i - 1))
  IN p[Least((upto + 1) \div 2, Len(lines))]

-----------------------------------------------------------------------------
(* A run of the collector *)

\* Mutant: an unchanged file is skipped although its tail was withheld.
UnchangedAlways(cur, quiescent) ==
  cur # NoCursor /\ cur.size = Size /\ cur.mtime = file

\* Same size and mtime, and no withheld tail that is final by now.  Every write
\* to a file changes its size; another file has another mtime.
Unchanged(cur, quiescent) ==
  /\ cur # NoCursor /\ cur.size = Size /\ cur.mtime = file
  /\ ~(cur.offset < Size /\ quiescent)

\* A half-written entry belongs to a writer at work: the file is neither left
\* alone for QUIESCENT_MS nor is its session over (--final).
MayBeQuiescent == half => lines[Len(lines)] = Junk

\* load, then os.stat.  The run starts from nothing when the state file is
\* unreadable, corrupt, or holds an unusable context (ContextError).
Stat ==
  /\ job = Idle /\ present
  /\ \E quiescent \in BOOLEAN, cur \in {saved, NoCursor} :
       /\ quiescent => MayBeQuiescent
       /\ ~Unchanged(cur, quiescent)
       /\ cur # saved => faults < MaxFaults
       /\ faults' = IF cur # saved THEN faults + 1 ELSE faults
       /\ job' = [stage |-> "stat", cur |-> cur, size |-> Size, mtime |-> file,
                  quiescent |-> quiescent]
  /\ UNCHANGED <<fileVars, saved, delivered>>

\* The early return for an unchanged file.
SkipUnchanged ==
  /\ job = Idle /\ present
  /\ \E quiescent \in BOOLEAN : Unchanged(saved, quiescent)
  /\ UNCHANGED vars

\* Mutant: the head hash is not compared.
RotatedSize(cur, size) == size < cur.offset

Rotated(cur, size) == size < cur.offset \/ HeadSha(cur.size) # cur.head

\* Where the read starts, and the closed window it starts with.
Base(cur, size) ==
  IF cur = NoCursor THEN [offset |-> 0, closed |-> <<>>]
  ELSE IF Rotated(cur, size) THEN [offset |-> 0, closed |-> <<>>]
  ELSE [offset |-> cur.offset, closed |-> cur.closed]

\* The two parser passes.  A quiescent file is read to its end.  Otherwise the
\* earliest trailing group and an unterminated last line are withheld: the
\* second pass stops where the first of them starts.
Collect(base, size, quiescent) ==
  LET whole == 2 * (size \div 2)
      first == Parsed(base.offset, base.closed, IF quiescent THEN size ELSE whole)
      marks == IF quiescent THEN {}
               ELSE {g.offset : g \in first.open} \cup
                    (IF whole < size /\ base.offset < size THEN {whole} ELSE {})
      resume == CHOOSE m \in marks : \A n \in marks : m <= n
  IN IF marks = {} THEN [offset |-> size, read |-> close_groups(first, FALSE)]
     ELSE IF resume <= base.offset
     THEN [offset |-> base.offset, read |-> [closed |-> base.closed, requests |-> {}]]
     ELSE [offset |-> resume,
           read |-> close_groups(Parsed(base.offset, base.closed, resume), FALSE)]

\* The rest of _collect_file: what is read up to the size found by stat does not
\* depend on what is appended meanwhile.
Parse ==
  /\ job.stage = "stat" /\ present
  /\ LET c == Collect(Base(job.cur, job.size), job.size, job.quiescent)
     IN job' = [stage |-> "parsed", quiescent |-> job.quiescent,
                requests |-> {[file |-> file, id |-> r.id, out |-> r.out, mso |-> r.mso] :
                              r \in c.read.requests},
                cursor |-> [offset |-> c.offset, head |-> HeadSha(job.size),
                            size |-> job.size, mtime |-> job.mtime,
                            closed |-> c.read.closed]]
  /\ UNCHANGED <<fileVars, saved, delivered, faults>>

\* The file is gone (SourceError, lenient): its cursor is kept for this run.
SkipFile ==
  /\ job.stage = "stat" /\ ~present
  /\ job' = Idle
  /\ UNCHANGED <<fileVars, saved, delivered, faults>>

\* A run that does not find the file among others forgets its cursor.
Prune ==
  /\ job = Idle /\ ~present /\ saved # NoCursor
  /\ saved' = NoCursor
  /\ UNCHANGED <<fileVars, job, delivered, faults>>

\* _write_collected: one trace file with the new records.
WriteTrace ==
  /\ job.stage = "parsed"
  /\ delivered' = delivered \cup job.requests
  /\ job' = [job EXCEPT !.stage = "written"]
  /\ UNCHANGED <<fileVars, saved, faults>>

\* CollectorState.save: a temporary file and os.replace.
SaveState ==
  /\ job.stage = "written"
  /\ saved' = job.cursor
  /\ job' = Idle
  /\ UNCHANGED <<fileVars, delivered, faults>>

Crash ==
  /\ job # Idle /\ faults < MaxFaults
  /\ job' = Idle /\ faults' = faults + 1
  /\ UNCHANGED <<fileVars, saved, delivered>>

Next ==
  \/ AppendLine \/ EndLine \/ Delete \/ Create
  \/ Stat \/ SkipUnchanged \/ Parse \/ SkipFile \/ Prune \/ WriteTrace \/ SaveState \/ Crash

\* The collector is started again and again, a run that was started goes on (a
\* read ends), a file nobody writes to becomes quiescent, a live writer ends its
\* line.
Fairness ==
  /\ WF_vars(Stat) /\ WF_vars(WriteTrace) /\ WF_vars(SaveState) /\ WF_vars(EndLine)
  /\ []<>(job.stage # "stat")

Spec == Init /\ [][Next]_vars /\ Fairness

-----------------------------------------------------------------------------
(* Properties *)

Offsets == 0..(2 * Max(ToSet(MaxLines)))

IsCursor(c) ==
  /\ c.offset \in Offsets /\ c.size \in Offsets /\ c.mtime \in 1..Len(MaxLines)
  /\ c.head.file \in 0..Len(MaxLines) /\ c.head.n \in 0..HeadBytes
  /\ Len(c.closed) <= ClosedWindow
  /\ \A k \in 1..Len(c.closed) :
       c.closed[k] \in [id : Messages, offset : Offsets, out : Outputs]

Records == [file : 1..Len(MaxLines), id : Messages, out : Outputs, mso : BOOLEAN]

\* Types of the state; in particular the window of closed calls in the state file
\* stays within CLOSED_WINDOW (remember_closed).
TypeOK ==
  /\ file \in 1..Len(MaxLines) /\ present \in BOOLEAN /\ half \in BOOLEAN
  /\ Len(lines) <= MaxLines[file] /\ \A i \in 1..Len(lines) : lines[i] \in Lines
  /\ saved = NoCursor \/ IsCursor(saved)
  /\ job.stage \in {"idle", "stat", "parsed", "written"}
  /\ job.stage = "stat" => job.cur = NoCursor \/ IsCursor(job.cur)
  /\ job.stage \in {"parsed", "written"} =>
       IsCursor(job.cursor) /\ job.requests \subseteq Records
  /\ delivered \subseteq Records
  /\ faults \in 0..MaxFaults

\* The call of line i was sent with at least the output of the line.
Sent(i) ==
  lines[i].type = "assistant" =>
    \E d \in delivered : d.file = file /\ d.id = lines[i].id /\ d.out >= lines[i].out

\* Nothing before the saved offset is lost: while the next run would resume there
\* (_collect_file finds the file neither rotated nor truncated), every call with a
\* line before the offset was written to a trace file with at least its output,
\* whatever crashed, grew or was replaced in between.
NothingSkipped ==
  present /\ saved # NoCursor /\ ~Rotated(saved, Size) =>
    \A i \in 1..(saved.offset \div 2) : Sent(i)

\* Every call of a transcript that stays is sent in the end with its largest
\* output: no tail is withheld for ever (_collect_file reads an unchanged file
\* again once it is quiescent).
EverythingIsSent == <>[](present => \A i \in 1..Len(lines) : Sent(i))
=============================================================================
