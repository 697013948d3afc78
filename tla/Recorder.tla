------------------------------ MODULE Recorder ------------------------------
(***************************************************************************)
(* The trace@2 recorder (instrument.py, class _V2Recorder and the stream   *)
(* proxies in front of it).  Threads of the instrumented application begin *)
(* calls, hand each finished call to a bounded queue without ever blocking *)
(* and go on; one daemon worker drains the queue into the trace file;      *)
(* close() sends a session record and a stop marker and joins the worker.  *)
(*                                                                         *)
(* Data is abstracted: a call is its number n (self._n), the time span     *)
(* [first_ts, last_ts] of the session record is the set of calls it        *)
(* spans, and a record is its kind and its call.  Control is kept: the     *)
(* unlocked test of `closed`, the separate put, the counter of drops, the  *)
(* stop marker, the swallowed flush error and the two timeouts of close.   *)
(***************************************************************************)
EXTENDS Naturals, Sequences, FiniteSets

CONSTANTS
  Callers,    \* threads that use the wrapped client
  Closers,    \* threads that call close(): recording().__exit__, atexit, user
  QueueSize,  \* queue_size
  MaxCalls,   \* bound on self._n
  Orderly,    \* TRUE: close() is called only when every caller has returned
  Failing,    \* TRUE: building, encoding or writing a record, or the file, may fail
  Wedged      \* TRUE: the 60 s and 120 s timeouts of close() may expire

ASSUME QueueSizeAssumption == QueueSize \in Nat \ {0}
ASSUME MaxCallsAssumption == MaxCalls \in Nat
ASSUME FlagAssumption == /\ Orderly \in BOOLEAN
                         /\ Failing \in BOOLEAN
                         /\ Wedged \in BOOLEAN

VARIABLES
  n,          \* self._n: calls begun
  closed,     \* self.closed
  queue,      \* self.queue
  dropped,    \* self._dropped
  noted,      \* self._invisible_noted
  cpc,        \* caller -> where it is
  hand,       \* caller -> the item it is about to enqueue
  afterPut,   \* caller -> where it continues after _enqueue
  recorded,   \* caller -> _done of its raw stream proxy
  kpc,        \* closer -> where it is
  wpc,        \* the worker thread: "none" until _ensure_thread starts it
  got,        \* the item the worker took from the queue
  buffer,     \* records in the handles of the open file
  file,       \* records on disk
  span,       \* calls inside [self._first_ts, self._last_ts]
  lost,       \* history: calls whose loss _drop counted, one by one
  torn,       \* history: calls buffered when closing the file failed
  abandoned,  \* history: raw streams the application let go of unfinished, and
              \* managers and coroutines it never entered or awaited
  raised      \* history: calls that raised where the recorder does not look

endVars == <<abandoned, raised>>
appVars == <<n, noted, cpc, hand, afterPut, recorded, abandoned, raised>>
workVars == <<got, buffer, file, span, torn>>
vars == <<n, closed, queue, dropped, noted, cpc, hand, afterPut, recorded, kpc,
          wpc, got, buffer, file, span, lost, torn, abandoned, raised>>

Calls == 1..MaxCalls
CallItems == [kind : {"call"}, call : Calls]
Note == [kind |-> "note"]
Session == [kind |-> "session"]
Stop == [kind |-> "stop"]
None == [kind |-> "none"]
Items == CallItems \cup {Note, Session, Stop}
CallItem(c) == [kind |-> "call", call |-> c]

\* What the trace file holds: call records, the lane shell, notes and the
\* session record with the calls its time span covers.
Records == CallItems \cup {Note} \cup [kind : {"lane"}]
             \cup [kind : {"session"}, spans : SUBSET Calls]
Lane == [kind |-> "lane"]
IsCall(r) == r.kind = "call"
CallsIn(s) == {s[i].call : i \in {j \in DOMAIN s : IsCall(s[j])}}

Init ==
  /\ n = 0 /\ closed = FALSE /\ queue = <<>> /\ dropped = 0 /\ noted = FALSE
  /\ cpc = [t \in Callers |-> "new"]
  /\ hand = [t \in Callers |-> None]
  /\ afterPut = [t \in Callers |-> "idle"]
  /\ recorded = [t \in Callers |-> FALSE]
  /\ kpc = [k \in Closers |-> "start"]
  /\ wpc = "none" /\ got = None
  /\ buffer = <<>> /\ file = <<>> /\ span = {}
  /\ lost = {} /\ torn = {} /\ abandoned = {} /\ raised = {}

-----------------------------------------------------------------------------
(* _drop and _ensure_thread *)

\* Mutant: self._dropped += n without the lock may lose an increment.
DropUnlocked(item) ==
  /\ dropped' \in {dropped, dropped + 1}
  /\ lost' = IF IsCall(item) THEN lost \cup {item.call} ELSE lost

\* The lock is held only for the increment, so one drop is one atomic step.
Drop(item) ==
  /\ dropped' = dropped + 1
  /\ lost' = IF IsCall(item) THEN lost \cup {item.call} ELSE lost

NoDrop == UNCHANGED <<dropped, lost>>

\* Double-checked under the lock: the worker is started at most once.
EnsureThread == wpc' = IF wpc = "none" THEN "get" ELSE wpc

-----------------------------------------------------------------------------
(* The application's threads *)

MayCall == Orderly => \A k \in Closers : kpc[k] = "start"

\* wrap: patch the client; without HTTP hooks a note is due, unless another
\* wrap has noted it.  The test takes no lock.
Wrap(t) ==
  /\ cpc[t] = "new" /\ MayCall
  /\ \E attached \in BOOLEAN :
       cpc' = [cpc EXCEPT ![t] = IF attached \/ noted THEN "idle" ELSE "noting"]
  /\ NoDrop
  /\ UNCHANGED <<n, closed, queue, noted, hand, afterPut, recorded, kpc, wpc, workVars,
                 endVars>>

\* The note is marked as queued and handed to _enqueue.
NoteInvisible(t) ==
  /\ cpc[t] = "noting"
  /\ noted' = TRUE
  /\ hand' = [hand EXCEPT ![t] = Note]
  /\ cpc' = [cpc EXCEPT ![t] = "check"]
  /\ afterPut' = [afterPut EXCEPT ![t] = "idle"]
  /\ NoDrop
  /\ UNCHANGED <<n, closed, queue, recorded, kpc, wpc, workVars, endVars>>

\* _begin under the lock: the call takes the next number.
Begin(t) ==
  /\ cpc[t] = "idle" /\ n < MaxCalls /\ MayCall
  /\ n' = n + 1
  /\ hand' = [hand EXCEPT ![t] = CallItem(n + 1)]
  /\ cpc' = [cpc EXCEPT ![t] = "inflight"]
  /\ NoDrop
  /\ UNCHANGED <<closed, queue, noted, afterPut, recorded, kpc, wpc, workVars, endVars>>

\* _begin raising, before it took a number (an unserializable request) or
\* after (_appended): counted, and the call proceeds unrecorded (call is None).
\* The bound on n bounds the failures too.
BeginFails(t) ==
  /\ Failing /\ cpc[t] = "idle" /\ MayCall /\ n < MaxCalls /\ dropped < MaxCalls
  /\ \/ Drop(None) /\ UNCHANGED n
     \/ Drop(CallItem(n + 1)) /\ n' = n + 1
  /\ UNCHANGED <<closed, queue, noted, cpc, hand, afterPut, recorded, kpc, wpc,
                 workVars, endVars>>

\* _succeed / _fail / _partial of a call that returned, raised, or was a
\* messages.stream(...) block that exited: build the result, then _enqueue it.
\* What the result says (FINAL, PARTIAL_STREAM, the error) is data.
Return(t) ==
  /\ cpc[t] = "inflight"
  /\ afterPut' = [afterPut EXCEPT ![t] = "idle"]
  /\ cpc' = [cpc EXCEPT ![t] = "check"]
  /\ NoDrop
  /\ UNCHANGED <<n, closed, queue, noted, hand, recorded, kpc, wpc, workVars, endVars>>

\* _succeed, _fail or _partial raising on the way: the call is a counted drop.
ReturnFails(t) ==
  /\ Failing /\ cpc[t] = "inflight"
  /\ Drop(hand[t])
  /\ cpc' = [cpc EXCEPT ![t] = "idle"]
  /\ hand' = [hand EXCEPT ![t] = None]
  /\ UNCHANGED <<n, closed, queue, noted, afterPut, recorded, kpc, wpc, workVars, endVars>>

\* Only __enter__ and _await_create call _fail: a manager the application never
\* enters, or a coroutine it never awaits, leaves no record.
NeverEntered(t) ==
  /\ cpc[t] = "inflight"
  /\ abandoned' = abandoned \cup {hand[t].call}
  /\ cpc' = [cpc EXCEPT ![t] = "idle"]
  /\ hand' = [hand EXCEPT ![t] = None]
  /\ NoDrop
  /\ UNCHANGED <<n, closed, queue, noted, afterPut, recorded, kpc, wpc, workVars, raised>>

\* The SDK raises where no handler of the recorder is: stream(*args, **kwargs)
\* in stream_wrapper, after _begin took the number, or next() of a raw stream,
\* which records at StopIteration only, that the application then lets go of.
RaisesUnseen(t) ==
  /\ \/ cpc[t] = "inflight"
     \/ cpc[t] = "streaming" /\ ~recorded[t]
  /\ raised' = raised \cup {hand[t].call}
  /\ cpc' = [cpc EXCEPT ![t] = "idle"]
  /\ hand' = [hand EXCEPT ![t] = None]
  /\ NoDrop
  /\ UNCHANGED <<n, closed, queue, noted, afterPut, recorded, kpc, wpc, workVars, abandoned>>

\* _succeed of create(stream=True): a proxy is returned and nothing recorded yet.
ReturnStream(t) ==
  /\ cpc[t] = "inflight"
  /\ recorded' = [recorded EXCEPT ![t] = FALSE]
  /\ cpc' = [cpc EXCEPT ![t] = "streaming"]
  /\ NoDrop
  /\ UNCHANGED <<n, closed, queue, noted, hand, afterPut, kpc, wpc, workVars, endVars>>

\* Mutant: _record without the _done test.
RecordStreamAgain(t) ==
  /\ cpc[t] = "streaming"
  /\ recorded' = [recorded EXCEPT ![t] = TRUE]
  /\ afterPut' = [afterPut EXCEPT ![t] = "streaming"]
  /\ cpc' = [cpc EXCEPT ![t] = "check"]
  /\ NoDrop
  /\ UNCHANGED <<n, closed, queue, noted, hand, kpc, wpc, workVars, endVars>>

\* _RawStreamProxy._record, reached by exhaustion, close(), aclose() and the
\* context exit, in any order and any number of times; the first one records.
RecordStream(t) ==
  /\ cpc[t] = "streaming" /\ ~recorded[t]
  /\ recorded' = [recorded EXCEPT ![t] = TRUE]
  /\ afterPut' = [afterPut EXCEPT ![t] = "streaming"]
  /\ cpc' = [cpc EXCEPT ![t] = "check"]
  /\ NoDrop
  /\ UNCHANGED <<n, closed, queue, noted, hand, kpc, wpc, workVars, endVars>>

\* The same record failing in _succeed or _partial: _done is set, the call a
\* counted drop.
RecordStreamFails(t) ==
  /\ Failing /\ cpc[t] = "streaming" /\ ~recorded[t]
  /\ recorded' = [recorded EXCEPT ![t] = TRUE]
  /\ Drop(hand[t])
  /\ UNCHANGED <<n, closed, queue, noted, cpc, hand, afterPut, kpc, wpc, workVars, endVars>>

\* The application lets go of the proxy; one it neither finished nor closed
\* leaves no record.
LeaveStream(t) ==
  /\ cpc[t] = "streaming"
  /\ abandoned' = IF recorded[t] THEN abandoned ELSE abandoned \cup {hand[t].call}
  /\ cpc' = [cpc EXCEPT ![t] = "idle"]
  /\ hand' = [hand EXCEPT ![t] = None]
  /\ recorded' = [recorded EXCEPT ![t] = FALSE]
  /\ NoDrop
  /\ UNCHANGED <<n, closed, queue, noted, afterPut, kpc, wpc, workVars, raised>>

\* Where _enqueue leaves the caller; a stream keeps its (recorded) call.
Resume(t) ==
  /\ cpc' = [cpc EXCEPT ![t] = afterPut[t]]
  /\ hand' = [hand EXCEPT ![t] = IF afterPut[t] = "streaming" THEN @ ELSE None]

\* _enqueue, first half: the test of `closed` takes no lock.
CheckClosed(t) ==
  /\ cpc[t] = "check"
  /\ IF closed THEN Drop(hand[t]) /\ Resume(t) /\ UNCHANGED wpc
               ELSE /\ EnsureThread /\ NoDrop
                    /\ cpc' = [cpc EXCEPT ![t] = "put"]
                    /\ UNCHANGED hand
  /\ UNCHANGED <<n, closed, queue, noted, afterPut, recorded, kpc, workVars, endVars>>

\* Mutant: queue.put instead of put_nowait.
PutBlocking(t) ==
  /\ cpc[t] = "put" /\ Len(queue) < QueueSize
  /\ queue' = Append(queue, hand[t]) /\ NoDrop
  /\ Resume(t)
  /\ UNCHANGED <<n, closed, noted, afterPut, recorded, kpc, wpc, workVars, endVars>>

\* _enqueue, second half: put_nowait, or a counted drop when the queue is full.
PutNowait(t) ==
  /\ cpc[t] = "put"
  /\ IF Len(queue) < QueueSize
       THEN queue' = Append(queue, hand[t]) /\ NoDrop
       ELSE Drop(hand[t]) /\ UNCHANGED queue
  /\ Resume(t)
  /\ UNCHANGED <<n, closed, noted, afterPut, recorded, kpc, wpc, workVars, endVars>>

-----------------------------------------------------------------------------
(* The worker: _run, _handle, _write_call, _flush, _finish *)

WorkerGet ==
  /\ wpc = "get" /\ queue # <<>>
  /\ got' = Head(queue) /\ queue' = Tail(queue)
  /\ wpc' = IF Head(queue) = Stop THEN "finish" ELSE "handle"
  /\ NoDrop
  /\ UNCHANGED <<appVars, closed, kpc, buffer, file, span, torn>>

\* The lane shell precedes the first request record (_lanes_written).
WithLane == IF \E i \in DOMAIN (file \o buffer) : (file \o buffer)[i] = Lane
              THEN buffer ELSE Append(buffer, Lane)

\* Mutant: only the first call sets _first_ts and _last_ts.
HandleFirstSpan ==
  /\ wpc = "handle"
  /\ CASE got.kind = "note" -> buffer' = Append(buffer, Note) /\ UNCHANGED span
       [] got.kind = "call" -> /\ buffer' = Append(WithLane, got)
                               /\ span' = IF span = {} THEN {got.call} ELSE span
       [] got.kind = "session" ->
            /\ buffer' = IF span = {} THEN buffer
                           ELSE Append(buffer, [kind |-> "session", spans |-> span])
            /\ UNCHANGED span
  /\ wpc' = "flush" /\ got' = None
  /\ NoDrop
  /\ UNCHANGED <<appVars, closed, queue, kpc, file, torn>>

\* _handle of one item; a session record is written only once a call was.
WorkerHandle ==
  /\ wpc = "handle"
  /\ CASE got.kind = "note" -> buffer' = Append(buffer, Note) /\ UNCHANGED span
       [] got.kind = "call" -> /\ buffer' = Append(WithLane, got)
                               /\ span' = span \cup {got.call}
       [] got.kind = "session" ->
            /\ buffer' = IF span = {} THEN buffer
                           ELSE Append(buffer, [kind |-> "session", spans |-> span])
            /\ UNCHANGED span
  /\ wpc' = "flush" /\ got' = None
  /\ NoDrop
  /\ UNCHANGED <<appVars, closed, queue, kpc, file, torn>>

\* _handle raising: opening the file, encoding or writing failed; a call may
\* already have left its lane record.
WorkerHandleFails ==
  /\ Failing /\ wpc = "handle"
  /\ \/ UNCHANGED buffer
     \/ IsCall(got) /\ buffer' = WithLane
  /\ Drop(got)
  /\ wpc' = "flush" /\ got' = None
  /\ UNCHANGED <<appVars, closed, queue, kpc, file, span, torn>>

\* Mutant: the test of queue.empty() inverted.
FlushWhenBusy ==
  /\ wpc = "flush"
  /\ \/ queue # <<>> /\ file' = file \o buffer /\ buffer' = <<>>
     \/ (queue = <<>> \/ Failing) /\ UNCHANGED <<file, buffer>>
  /\ wpc' = "get"
  /\ NoDrop
  /\ UNCHANGED <<appVars, closed, queue, kpc, got, span, torn>>

\* _flush when the queue is empty; its errors are swallowed and the records
\* stay in the handles.
WorkerFlush ==
  /\ wpc = "flush"
  /\ \/ queue = <<>> /\ file' = file \o buffer /\ buffer' = <<>>
     \/ (queue # <<>> \/ Failing) /\ UNCHANGED <<file, buffer>>
  /\ wpc' = "get"
  /\ NoDrop
  /\ UNCHANGED <<appVars, closed, queue, kpc, got, span, torn>>

\* Mutant: the worker ends without closing the file.
FinishOpen ==
  /\ wpc = "finish"
  /\ wpc' = "done" /\ got' = None
  /\ NoDrop
  /\ UNCHANGED <<appVars, closed, queue, kpc, buffer, file, span, torn>>

\* _finish: closing the file writes what is buffered, or fails with one
\* counted drop however many records were buffered.
WorkerFinish ==
  /\ wpc = "finish"
  /\ \/ file' = file \o buffer /\ NoDrop /\ UNCHANGED torn
     \/ /\ Failing /\ Drop(None) /\ UNCHANGED file
        /\ torn' = torn \cup CallsIn(buffer)
  /\ buffer' = <<>> /\ wpc' = "done" /\ got' = None
  /\ UNCHANGED <<appVars, closed, queue, kpc, span>>

-----------------------------------------------------------------------------
(* close() *)

MayClose == Orderly => \A t \in Callers : cpc[t] \in {"new", "idle"}

\* if self.closed: return -- read without a lock
CloseCheck(k) ==
  /\ kpc[k] = "start" /\ MayClose
  /\ kpc' = [kpc EXCEPT ![k] = IF closed THEN "done" ELSE "set"]
  /\ NoDrop
  /\ UNCHANGED <<appVars, closed, queue, wpc, workVars>>

\* self.closed = True; self._ensure_thread()
CloseSet(k) ==
  /\ kpc[k] = "set"
  /\ closed' = TRUE
  /\ EnsureThread
  /\ kpc' = [kpc EXCEPT ![k] = "session"]
  /\ NoDrop
  /\ UNCHANGED <<appVars, queue, workVars>>

\* Mutant: close() with put_nowait skips what a full queue refuses.
ClosePutNowait(k) ==
  /\ kpc[k] \in {"session", "stop"}
  /\ IF Len(queue) < QueueSize
       THEN queue' = Append(queue, IF kpc[k] = "session" THEN Session ELSE Stop) /\ NoDrop
       ELSE Drop(None) /\ UNCHANGED queue
  /\ kpc' = [kpc EXCEPT ![k] = IF kpc[k] = "session" THEN "stop" ELSE "join"]
  /\ UNCHANGED <<appVars, closed, wpc, workVars>>

\* queue.put(("session", None), timeout=60), then queue.put(_STOP, timeout=60)
ClosePut(k) ==
  /\ kpc[k] \in {"session", "stop"} /\ Len(queue) < QueueSize
  /\ queue' = Append(queue, IF kpc[k] = "session" THEN Session ELSE Stop)
  /\ kpc' = [kpc EXCEPT ![k] = IF kpc[k] = "session" THEN "stop" ELSE "join"]
  /\ NoDrop
  /\ UNCHANGED <<appVars, closed, wpc, workVars>>

\* queue.Full after 60 s: one drop is counted and no further put is tried.
ClosePutTimeout(k) ==
  /\ Wedged /\ kpc[k] \in {"session", "stop"} /\ Len(queue) = QueueSize
  /\ Drop(None)
  /\ kpc' = [kpc EXCEPT ![k] = "join"]
  /\ UNCHANGED <<appVars, closed, queue, wpc, workVars>>

\* thread.join(timeout=120)
CloseJoin(k) ==
  /\ kpc[k] = "join" /\ (wpc = "done" \/ Wedged)
  /\ kpc' = [kpc EXCEPT ![k] = "done"]
  /\ NoDrop
  /\ UNCHANGED <<appVars, closed, queue, wpc, workVars>>

-----------------------------------------------------------------------------
EnqueueStep(t) == CheckClosed(t) \/ PutNowait(t)
Unseen(t) == NeverEntered(t) \/ RaisesUnseen(t)
StreamStep(t) == RecordStream(t) \/ RecordStreamFails(t) \/ LeaveStream(t)
Caller(t) == \/ Wrap(t) \/ NoteInvisible(t) \/ Begin(t) \/ BeginFails(t)
             \/ Return(t) \/ ReturnFails(t) \/ ReturnStream(t)
             \/ StreamStep(t) \/ Unseen(t) \/ EnqueueStep(t)
Worker == \/ WorkerGet \/ WorkerHandle \/ WorkerHandleFails
          \/ WorkerFlush \/ WorkerFinish
CloseRest(k) == CloseSet(k) \/ ClosePut(k) \/ ClosePutTimeout(k) \/ CloseJoin(k)
Closer(k) == CloseCheck(k) \/ CloseRest(k)

Next == \/ \E t \in Callers : Caller(t)
        \/ Worker
        \/ \E k \in Closers : Closer(k)

Spec == Init /\ [][Next]_vars

\* The interpreter schedules every runnable thread: a caller inside _enqueue,
\* the worker, and a close() that was entered.  Nothing forces the application
\* to make calls, the SDK to answer, or anyone to call close().
Fairness == /\ \A t \in Callers : WF_vars(EnqueueStep(t))
            /\ WF_vars(Worker)
            /\ \A k \in Closers : WF_vars(CloseRest(k))
FairSpec == Spec /\ Fairness

-----------------------------------------------------------------------------
(* Properties *)

CallerStates == {"new", "noting", "idle", "inflight", "streaming", "check", "put"}
CloserStates == {"start", "set", "session", "stop", "join", "done"}
WorkerStates == {"none", "get", "handle", "flush", "finish", "done"}

\* The type invariant: every variable of the recorder has its type, and the
\* bounded queue never holds more than queue_size items.
TypeOK ==
  /\ n \in 0..MaxCalls /\ closed \in BOOLEAN /\ noted \in BOOLEAN /\ dropped \in Nat
  /\ queue \in Seq(Items) /\ Len(queue) <= QueueSize
  /\ cpc \in [Callers -> CallerStates]
  /\ hand \in [Callers -> CallItems \cup {Note, None}]
  /\ afterPut \in [Callers -> {"idle", "streaming"}]
  /\ recorded \in [Callers -> BOOLEAN]
  /\ kpc \in [Closers -> CloserStates]
  /\ wpc \in WorkerStates
  /\ got \in Items \cup {None}
  /\ buffer \in Seq(Records) /\ file \in Seq(Records)
  /\ span \in SUBSET Calls /\ lost \in SUBSET Calls
  /\ torn \in SUBSET Calls /\ abandoned \in SUBSET Calls /\ raised \in SUBSET Calls

\* The call a caller still owes to the recorder.
Held(t) == IF IsCall(hand[t]) /\ (cpc[t] = "streaming" => ~recorded[t])
             THEN {hand[t].call} ELSE {}
Taken == IF IsCall(got) THEN {got.call} ELSE {}

Once(s) == \A i, j \in DOMAIN s : IsCall(s[i]) /\ IsCall(s[j]) /\ s[i].call = s[j].call => i = j

\* Every call that _begin numbered is in exactly one place: with its caller,
\* in the queue, with the worker, in the handles, on disk, counted as dropped,
\* torn by a failed close, abandoned by the application or raised where the
\* recorder does not look.  No interleaving of callers, worker and close()
\* duplicates a call or makes one vanish.
OneFate ==
  LET places == <<UNION {Held(t) : t \in Callers}, CallsIn(queue), Taken, CallsIn(buffer),
                  CallsIn(file), lost, torn, abandoned, raised>>
  IN /\ UNION {places[i] : i \in DOMAIN places} = 1..n
     /\ \A i, j \in DOMAIN places : i # j => places[i] \cap places[j] = {}
     /\ \A t, u \in Callers : t # u => Held(t) \cap Held(u) = {}
     /\ Once(queue) /\ Once(file \o buffer)

Quiet == wpc = "done" /\ \A t \in Callers : Held(t) = {}

\* What Recorder.dropped tells: once the worker has finished and no call is
\* open, a zero counter means that every numbered call is a record of the file,
\* but those the application abandoned and those that raised outside the
\* recorder's handlers.  The queue, the worker, the disk and the timeouts of
\* close() lose nothing without a count.
ZeroDroppedMeansComplete ==
  Quiet /\ dropped = 0 => CallsIn(file) = (1..n) \ (abandoned \cup raised)

\* "Exceptions become attempts" (instrument.py:43): with a zero counter only
\* what the application itself abandoned is missing from the file.  The code
\* breaks it: stream_wrapper evaluates stream(...) without a try, and a raw
\* stream that raises from next() is not recorded there.
ExceptionsAreRecorded ==
  Quiet /\ dropped = 0 => CallsIn(file) = (1..n) \ abandoned

\* The counter of _drop never falls short of the calls that were dropped one by
\* one, and a failed close of the file shows in it as well.
DropsAreCounted ==
  Cardinality(lost) + (IF torn = {} THEN 0 ELSE 1) <= dropped

\* The session record close() sends last spans every request of the file.
SessionSpansFile ==
  LET all == file \o buffer
  IN \A i \in DOMAIN all : all[i].kind = "session" => CallsIn(all) \subseteq all[i].spans

\* The recorder never blocks the application: a caller that entered _enqueue
\* leaves it, whatever the worker and close() are doing.
CallersNeverBlock ==
  \A t \in Callers : cpc[t] \in {"check", "put"} ~> cpc[t] \in {"idle", "streaming"}

\* A close() that was entered returns with the worker finished and nothing left
\* in the file's handles.
CloseFinishes ==
  \A k \in Closers : kpc[k] = "set" ~> kpc[k] = "done" /\ wpc = "done" /\ buffer = <<>>

\* While nobody closes the recorder a queued call does not stay in memory: it
\* reaches the disk, because the worker flushes whenever it finds the queue
\* empty.
QueuedReachDisk ==
  \A c \in Calls : c \in CallsIn(queue) ~> c \in CallsIn(file) \/ closed

=============================================================================
