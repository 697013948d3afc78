-------------------------- MODULE CopilotCollector --------------------------
(***************************************************************************)
(* Incremental collection of Copilot CLI sessions                          *)
(* (adapters/copilot_collect.py, and the parser and emit_session of        *)
(* adapters/copilot_cli.py), with the experimental session store.  A call  *)
(* of the model leaves a message in its session's events.jsonl, a row in   *)
(* session-store.db, or both.  A run parses what is new in the files, then *)
(* reads the rows above the high-water mark, joins the messages and the    *)
(* rows of the legs that are closed, and keeps the others for the next     *)
(* run; its caller stores the results as they come and saves the state     *)
(* last.                                                                   *)
(*                                                                         *)
(* Lines appear whole (a half line is one that is not there yet) and files *)
(* only grow or disappear.  The time of a row or a message is the leg it   *)
(* belongs to, and a row joins with the message of its call.               *)
(***************************************************************************)
EXTENDS Integers, Sequences, FiniteSets, SequencesExt, FiniteSetsExt

CONSTANTS
  Sessions, Calls,
  SessionOf,     \* the session of a call
  RowOnly,       \* calls without a message
  Chunked,       \* calls whose message comes in two chunks
  Covered,       \* skip_session_ids: the sessions that the VS Code extract covers
  DoneWindow,    \* DONE_WINDOW
  PendingMax,    \* _PENDING_MAX
  NoCursor,
  MaxTurns,      \* bounds on the legs and the further prompts of the sessions
  MaxFaults,     \* bound on the crashes and lost state files
  Busy,          \* bound: the sessions that are used while a run is at work, or deleted
  Forgets        \* faults also happen when directories have been deleted

ASSUME CollectorAssumption ==
  /\ SessionOf \in [Calls -> Sessions]
  /\ RowOnly \cup Chunked \subseteq Calls /\ RowOnly \cap Chunked = {}
  /\ Covered \cup Busy \subseteq Sessions
  /\ {DoneWindow, PendingMax, MaxFaults} \subseteq Nat
  /\ MaxTurns \in [Sessions -> Nat] /\ Forgets \in BOOLEAN

\* A response, the context of a session's parser, a cursor of the state file, and what a
\* run has read of a file.
Group == [call : Calls, leg : Nat, at : Nat]
Context == [leg : Nat, shut : BOOLEAN, pending : Seq(Group)]
Cursor == [offset : Nat, size : Nat, ctx : Context]
Work == [offset : Nat, size : Nat, quiet : BOOLEAN, parsed : BOOLEAN, ctx : Context,
         messages : Seq(Group)]

ASSUME NoCursorAssumption == NoCursor \notin Cursor \cup Work

VARIABLES
  file,       \* the lines of the sessions' events.jsonl
  place,      \* "new": no directory yet; "live"; "gone"; "past": gone, its rows older than QUIESCENT_MS
  quiet,      \* events.jsonl is untouched for QUIESCENT_MS
  store,      \* the rows, in the order of their ids: the call and its leg
  over,       \* calls cut off by the end of their process: nothing more is written of them
  saved,      \* the state file: cursors with contexts, hwm and done
  job,        \* the run in progress
  delivered,  \* the requests stored: a call under its message's id or its row's
  faults,
  raced       \* history: quiescent files that were written while a run was reading

cliVars == <<file, place, quiet, store, over, raced>>
vars == <<cliVars, saved, job, delivered, faults>>

Start == [type |-> "start", call |-> NoCursor]
Shut == [type |-> "shutdown", call |-> NoCursor]
Prompt == [type |-> "user", call |-> NoCursor]
Chunk(c) == [type |-> "chunk", call |-> c]
Message(c) == [type |-> "message", call |-> c]

Fresh == [leg |-> 0, shut |-> FALSE, pending |-> <<>>]
NoState == [cursor |-> [s \in Sessions |-> NoCursor], hwm |-> 0, done |-> {}]
Idle == [stage |-> "idle"]

Init ==
  /\ file = [s \in Sessions |-> <<>>] /\ place = [s \in Sessions |-> "new"]
  /\ quiet = [s \in Sessions |-> FALSE] /\ store = <<>> /\ over = {}
  /\ raced = {}
  /\ saved = NoState /\ job = Idle /\ delivered = {} /\ faults = 0

-----------------------------------------------------------------------------
(* Copilot CLI *)

Lines(s) == ToSet(file[s])
Logged == {row.call : row \in ToSet(store)}
Count(s, l) == Cardinality({n \in DOMAIN file[s] : file[s][n] = l})
Leg(s) == Count(s, Start)
MayGoOn(s) == Leg(s) + Count(s, Prompt) < MaxTurns[s]
Running(s) == place[s] = "live" /\ Leg(s) > 0 /\ file[s][Len(file[s])] # Shut

\* A call that has left a trace, and not all of those it leaves.
InFlight(s) ==
  {c \in Calls : /\ SessionOf[c] = s
                 /\ Chunk(c) \in Lines(s) \/ Message(c) \in Lines(s) \/ c \in Logged
                 /\ ~(c \in Logged /\ (c \in RowOnly \/ Message(c) \in Lines(s)))}

\* A run that reads while a quiescent file is written may have read the file before and
\* read the store after.
Write(s, l) ==
  /\ file' = [file EXCEPT ![s] = Append(@, l)]
  /\ quiet' = [quiet EXCEPT ![s] = FALSE]
  /\ raced' = IF quiet[s] /\ job.stage = "parse" THEN raced \cup {s} ELSE raced

\* session.start and session.resume; the leg before may have ended without a shutdown.
Resume(s) ==
  /\ place[s] \in {"new", "live"} /\ MayGoOn(s)
  /\ Write(s, Start) /\ place' = [place EXCEPT ![s] = "live"]
  /\ over' = over \cup InFlight(s)
  /\ UNCHANGED <<store, saved, job, delivered, faults>>

\* The user goes on in a leg that was left alone.
Wake(s) ==
  /\ Running(s) /\ quiet[s] /\ MayGoOn(s)
  /\ Write(s, Prompt)
  /\ UNCHANGED <<place, store, over, saved, job, delivered, faults>>

Say(c) ==
  LET s == SessionOf[c]
  IN /\ Running(s) /\ ~quiet[s] /\ c \notin RowOnly \cup over /\ Message(c) \notin Lines(s)
     /\ Write(s, IF c \in Chunked /\ Chunk(c) \notin Lines(s) THEN Chunk(c) ELSE Message(c))
     /\ UNCHANGED <<place, store, over, saved, job, delivered, faults>>

LogRow(c) ==
  /\ Running(SessionOf[c]) /\ ~quiet[SessionOf[c]] /\ c \notin over \cup Logged
  /\ store' = Append(store, [call |-> c, leg |-> Leg(SessionOf[c])])
  /\ UNCHANGED <<file, place, quiet, over, raced, saved, job, delivered, faults>>

\* "its rows commit before their leg's session.shutdown".
Shutdown(s) ==
  /\ Running(s)
  /\ Write(s, Shut) /\ over' = over \cup InFlight(s)
  /\ UNCHANGED <<place, store, saved, job, delivered, faults>>

\* QUIESCENT_MS pass, which no call and no run takes: a call that is in flight is so for
\* ever, and the clock of a run is read once (now_ms).
Quiesce(s) ==
  /\ job = Idle /\ place[s] = "live" /\ ~quiet[s]
  /\ quiet' = [quiet EXCEPT ![s] = TRUE] /\ over' = over \cup InFlight(s)
  /\ UNCHANGED <<file, place, store, raced, saved, job, delivered, faults>>

\* The user removes a session's directory; its rows stay, and grow old.
Delete(s) ==
  /\ s \in Busy /\ place[s] = "live" /\ (~Running(s) \/ quiet[s])
  /\ faults = 0 \/ Forgets
  /\ place' = [place EXCEPT ![s] = IF quiet[s] THEN "past" ELSE "gone"]
  /\ UNCHANGED <<file, quiet, store, over, raced, saved, job, delivered, faults>>

Age(s) ==
  /\ job = Idle /\ place[s] = "gone"
  /\ place' = [place EXCEPT ![s] = "past"]
  /\ UNCHANGED <<file, quiet, store, over, raced, saved, job, delivered, faults>>

-----------------------------------------------------------------------------
(* The parser: SessionParser.parse from an offset, SessionState as context *)

OfCall(groups, c) == {k \in DOMAIN groups : groups[k].call = c}

new_leg(p) == [p EXCEPT !.leg = @ + 1, !.shut = FALSE]
on_shutdown(p) == [p EXCEPT !.shut = TRUE]

\* The chunks of a response are one group, of the leg and the offset of the first.
on_message(p, l, offset) ==
  LET known == OfCall(p.open, l.call)
      k == CHOOSE k \in known : TRUE
      new == [call |-> l.call, leg |-> p.leg, at |-> offset]
  IN CASE l.type = "chunk" /\ known = {} -> [p EXCEPT !.open = Append(@, new)]
       [] l.type = "chunk" /\ known # {} -> p
       [] l.type = "message" /\ known = {} -> [p EXCEPT !.messages = Append(@, new)]
       [] l.type = "message" /\ known # {} ->
            [p EXCEPT !.messages = Append(@, p.open[k]), !.open = RemoveAt(@, k)]

handle(p, l, offset) ==
  CASE l = Start -> new_leg(p)
    [] l = Shut -> on_shutdown(p)
    [] l = Prompt -> p
    [] l.type \in {"chunk", "message"} -> on_message(p, l, offset)

\* The open responses of a final pass are taken as they are.
parse(lines, ctx, from, to, final) ==
  LET q[n \in 0..(to - from)] ==
        IF n = 0 THEN [leg |-> ctx.leg, shut |-> ctx.shut, messages |-> <<>>, open |-> <<>>]
        ELSE handle(q[n - 1], lines[from + n], from + n - 1)
      p == q[to - from]
  IN IF final THEN [p EXCEPT !.messages = @ \o p.open, !.open = <<>>] ELSE p

\* _prepare: the offset never passes an open response, unless the file is quiescent.
resume_at(p, size, final) ==
  IF final \/ p.open = <<>> THEN size ELSE Min({m.at : m \in ToSet(p.open)})

-----------------------------------------------------------------------------
(* A run of the collector *)

MayFail == faults < MaxFaults /\ (Forgets \/ \A s \in Sessions : place[s] \notin {"gone", "past"})

\* Files and works are taken in the order of their ids.
NextOf(todo) == CHOOSE s \in todo : TRUE

Begin ==
  /\ job = Idle
  /\ LET files == {s \in Sessions : place[s] = "live"}
     IN job' = [stage |-> "parse", st |-> saved, files |-> files, todo |-> files,
                works |-> [s \in Sessions |-> NoCursor]]
  /\ UNCHANGED <<cliVars, saved, delivered, faults>>

\* _prepare: the new lines of a file, read twice if a response is still open.  A file
\* that is gone by now has no work.
Prepare(s) ==
  LET cur == job.st.cursor[s]
      ctx == IF cur = NoCursor THEN Fresh ELSE cur.ctx
      from == IF cur = NoCursor THEN 0 ELSE cur.offset
      size == Len(file[s])
      nothing_new == cur # NoCursor /\ cur.size = size /\ ~(from < size /\ quiet[s])
      first == parse(file[s], ctx, from, size, quiet[s])
      to == IF nothing_new THEN from ELSE resume_at(first, size, quiet[s])
      p == IF to = size THEN first ELSE parse(file[s], ctx, from, to, TRUE)
  IN /\ job.stage = "parse" /\ job.todo # {} /\ s = NextOf(job.todo)
     /\ job' = [job EXCEPT
          !.todo = @ \ {s},
          !.works[s] = IF place[s] # "live" THEN NoCursor
                       ELSE [offset |-> to, size |-> size, quiet |-> quiet[s], parsed |-> to > from,
                             ctx |-> [leg |-> p.leg, shut |-> p.shut, pending |-> ctx.pending],
                             messages |-> p.messages]]
     /\ UNCHANGED <<cliVars, saved, delivered, faults>>

\* read_store, after the events.
ReadStore ==
  /\ job.stage = "parse" /\ job.todo = {}
  /\ job' = [stage |-> "emit", st |-> job.st, files |-> job.files, works |-> job.works,
             todo |-> {s \in Sessions : job.works[s] # NoCursor}, top |-> Len(store),
             rows |-> (job.st.hwm + 1)..Len(store) \ job.st.done]
  /\ UNCHANGED <<cliVars, saved, delivered, faults>>

\* A store that stays locked: nothing is committed.
StoreLocked ==
  /\ job.stage = "parse" /\ job.todo = {}
  /\ job' = Idle
  /\ UNCHANGED <<cliVars, saved, delivered, faults>>

\* Mutant: only the messages wait for the end of their leg.
ClosedSoon(x, ctx, all) == all \/ x.leg < ctx.leg \/ ctx.shut \/ "at" \notin DOMAIN x
\* Mutant: an open leg is never settled, also when its file is quiescent.
ClosedLate(x, ctx, all) == x.leg < ctx.leg \/ (x.leg = ctx.leg /\ ctx.shut)
\* Whether a message or a row belongs to a leg that is closed (closed_until).
Closed(x, ctx, all) == all \/ x.leg < ctx.leg \/ (x.leg = ctx.leg /\ ctx.shut)

ByMessage(S) == [call : S, by : {"message"}]
ByRow(S) == [call : S, by : {"row"}]
CallsOf(ids) == {store[i].call : i \in ids}
RowsOf(s) == {i \in job.rows \ job.st.done : SessionOf[store[i].call] = s}

\* The n greatest elements of a set of numbers, and the elements of a sequence at them.
LastOf(S, n) == {i \in S : Cardinality({k \in S : k > i}) < n}
Places(q, S) ==
  [k \in 1..Cardinality(S) |-> q[CHOOSE i \in S : Cardinality({j \in S : j <= i}) = k]]

\* emit_session: messages with their rows, messages alone and rows alone of the closed
\* legs; the others are held.  A covered session gives no requests.
EmitSession(s) ==
  LET w == job.works[s]
      rows == RowsOf(s)
      Ended(x) == Closed(x, w.ctx, w.quiet)
      messages == w.ctx.pending \o w.messages
      settled == {m.call : m \in {x \in ToSet(messages) : Ended(x)}}
      held == {k \in DOMAIN messages : ~Ended(messages[k])}
      used == IF s \in Covered THEN rows ELSE {i \in rows : Ended(store[i])}
      idle == ~w.parsed /\ rows = {} /\ w.ctx.pending = <<>> /\ ~w.quiet
      pending == IF s \in Covered THEN <<>> ELSE Places(messages, LastOf(held, PendingMax))
  IN /\ job.stage = "emit" /\ job.todo # {} /\ s = NextOf(job.todo)
     /\ IF idle THEN job' = [job EXCEPT !.todo = @ \ {s}] /\ delivered' = delivered
        ELSE /\ job' = [job EXCEPT
                  !.todo = @ \ {s}, !.st.done = @ \cup used,
                  !.st.cursor[s] = [offset |-> w.offset, size |-> w.size,
                                    ctx |-> [w.ctx EXCEPT !.pending = pending]]]
             /\ delivered' = IF s \in Covered THEN delivered
                             ELSE delivered \cup ByMessage(settled)
                                            \cup ByRow(CallsOf(used) \ settled)
     /\ UNCHANGED <<cliVars, saved, faults>>

\* Mutant: the mark passes the rows that are held.
new_hwm_top(hwm, top, held) == top
\* Mutant: the ids below the mark are kept as well.
kept_done_all(done, hwm) == done
\* commit_store.
new_hwm(hwm, top, held) == Max({hwm, IF held = {} THEN top ELSE Min(held) - 1})
kept_done(done, hwm) == LastOf({i \in done : i > hwm}, DoneWindow)

\* The rows of sessions without events: those of deleted sessions, once they are old.
\* Then the cursors of the files that were not there are dropped.
EmitRest ==
  LET rest == job.rows \ job.st.done
      covered == {i \in rest : SessionOf[store[i].call] \in Covered}
      settled == {i \in rest \ covered : place[SessionOf[store[i].call]] = "past"}
      hwm == new_hwm(job.st.hwm, job.top, rest \ (covered \cup settled))
  IN /\ job.stage = "emit" /\ job.todo = {}
     /\ delivered' = delivered \cup ByRow(CallsOf(settled))
     /\ job' = [stage |-> "save",
                st |-> [cursor |-> [s \in Sessions |-> IF s \in job.files THEN job.st.cursor[s]
                                                       ELSE NoCursor],
                        hwm |-> hwm, done |-> kept_done(job.st.done \cup covered \cup settled, hwm)]]
     /\ UNCHANGED <<cliVars, saved, faults>>

\* The caller, "after consuming the iterator".
Save ==
  /\ job.stage = "save"
  /\ saved' = job.st /\ job' = Idle
  /\ UNCHANGED <<cliVars, delivered, faults>>

\* A run that dies before it has emitted anything has not been.
Crash ==
  /\ job.stage \in {"emit", "save"} /\ MayFail
  /\ job' = Idle /\ faults' = faults + 1
  /\ UNCHANGED <<cliVars, saved, delivered>>

\* CopilotCollectorState.load: an unreadable or corrupt file is an empty state.
LoseState ==
  /\ job = Idle /\ saved # NoState /\ MayFail
  /\ saved' = NoState /\ faults' = faults + 1
  /\ UNCHANGED <<cliVars, job, delivered>>

-----------------------------------------------------------------------------
\* What is written after the store was read is read by the next run: it may as well be
\* written after this one.
Cli ==
  \E s \in Sessions :
    /\ s \in Busy \/ job = Idle
    /\ \/ Quiesce(s) \/ Delete(s) \/ Age(s)
       \/ /\ job.stage \in {"idle", "parse"}
          /\ \/ Resume(s) \/ Wake(s) \/ Shutdown(s)
             \/ \E c \in Calls : SessionOf[c] = s /\ (Say(c) \/ LogRow(c))

Run ==
  \/ Begin \/ ReadStore \/ EmitRest \/ Save
  \/ \E s \in Sessions : Prepare(s) \/ EmitSession(s)

Next == Cli \/ Run \/ StoreLocked \/ Crash \/ LoseState

Spec == Init /\ [][Next]_vars

-----------------------------------------------------------------------------
(* Properties *)

Delivered(c) == [call |-> c, by |-> "message"] \in delivered \/ [call |-> c, by |-> "row"] \in delivered

TypeOK ==
  /\ place \in [Sessions -> {"new", "live", "gone", "past"}] /\ quiet \in [Sessions -> BOOLEAN]
  /\ delivered \subseteq [call : Calls, by : {"message", "row"}]
  /\ saved.hwm \in 0..Len(store) /\ saved.done \subseteq (saved.hwm + 1)..Len(store)
  /\ Cardinality(saved.done) <= DoneWindow
  /\ saved.cursor \in [Sessions -> Cursor \cup {NoCursor}]
  /\ \A s \in Sessions : saved.cursor[s] # NoCursor =>
       /\ saved.cursor[s].offset <= saved.cursor[s].size
       /\ saved.cursor[s].size <= Len(file[s])
       /\ Len(saved.cursor[s].ctx.pending) <= PendingMax
  /\ faults \in 0..MaxFaults

\* The state file never passes over anything: a row below the high-water mark or
\* remembered as done has been delivered, and a message before the cursor has been
\* delivered or is held (whatever run died, and whatever order rows and lines came in).
NothingSkipped ==
  /\ \A i \in 1..Len(store) :
       (i <= saved.hwm \/ i \in saved.done) /\ SessionOf[store[i].call] \notin Covered
         => Delivered(store[i].call)
  /\ \A s \in Sessions \ Covered : saved.cursor[s] # NoCursor =>
       \A n \in 1..saved.cursor[s].offset :
         file[s][n].type = "message" =>
           \/ Delivered(file[s][n].call)
           \/ OfCall(saved.cursor[s].ctx.pending, file[s][n].call) # {}

\* "an output is never counted both as a row and as a residual": no call is stored
\* under its message's id and under its row's.  It fails for a session that was taken up
\* between the stat of its file and the read of the store: settle_all is then stale.
CountedOnce ==
  \A c \in Calls : SessionOf[c] \notin raced => Cardinality({d \in delivered : d.call = c}) <= 1

\* Nothing waits for ever: once every session is quiescent, or gone for long enough, one
\* run delivers all rows there are, although an open leg holds back the high-water mark
\* and the messages of its session before.
QuietMeansDelivered ==
  job.stage = "save" /\ (\A s \in Sessions : quiet[s] \/ place[s] \in {"new", "past"}) =>
    \A c \in Logged : SessionOf[c] \notin Covered => Delivered(c)
=============================================================================
