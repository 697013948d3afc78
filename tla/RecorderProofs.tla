--------------------------- MODULE RecorderProofs ---------------------------
(* Theorems about the trace@2 recorder for every number of threads, every    *)
(* queue size and every number of calls.                                     *)
EXTENDS Recorder, FiniteSetTheorems, TLAPS

\* What a caller and the worker hold in each of their states.
HandOK ==
  /\ \A t \in Callers :
       /\ cpc[t] \in {"inflight", "streaming"} => hand[t] \in CallItems
       /\ cpc[t] \in {"check", "put"} =>
            /\ hand[t] \in CallItems \cup {Note}
            /\ afterPut[t] = "streaming" => hand[t] \in CallItems
  /\ wpc = "handle" => got \in CallItems \cup {Note, Session}

TypeInv == TypeOK /\ HandOK

\* Items of different kinds are different.
LEMMA KindsDiffer ==
  /\ \A r \in CallItems : r.kind = "call" /\ r.call \in Calls
  /\ Note.kind = "note" /\ Session.kind = "session" /\ Stop.kind = "stop" /\ None.kind = "none"
  /\ Lane.kind = "lane"
BY DEF CallItems, Note, Session, Stop, None, Lane

\* What the worker may append to the file.
LEMMA RecordKinds ==
  /\ Lane \in Records /\ Note \in Records
  /\ \A r \in CallItems : r \in Records
  /\ \A S \in SUBSET Calls : [kind |-> "session", spans |-> S] \in Records
  /\ \A r \in Records : IsCall(r) => r.call \in Calls
<1>1. Lane \in Records /\ Note \in Records /\ \A r \in CallItems : r \in Records
  BY DEF Records, Lane
<1>2. ASSUME NEW S \in SUBSET Calls PROVE [kind |-> "session", spans |-> S] \in Records
  <2>1. [kind |-> "session", spans |-> S] \in [kind : {"session"}, spans : SUBSET Calls]
    OBVIOUS
  <2> QED BY <2>1 DEF Records
<1>3. ASSUME NEW r \in Records, IsCall(r) PROVE r.call \in Calls
  <2>1. r \in CallItems
    BY <1>3 DEF Records, IsCall, Note
  <2> QED BY <2>1, KindsDiffer
<1> QED BY <1>1, <1>2, <1>3

LEMMA ItemKinds == Note \in Items /\ Session \in Items /\ Stop \in Items /\ \A r \in CallItems : r \in Items
BY DEF Items

\* Appending an element of S to, and concatenating, sequences over S.
LEMMA SeqClosed ==
  ASSUME NEW S
  PROVE  /\ <<>> \in Seq(S)
         /\ \A s \in Seq(S) : \A e \in S : Append(s, e) \in Seq(S) /\ Len(Append(s, e)) = Len(s) + 1
         /\ \A s, u \in Seq(S) : s \o u \in Seq(S)
OBVIOUS

LEMMA PutType ==
  ASSUME NEW q \in Seq(Items), Len(q) < QueueSize, NEW e \in Items
  PROVE  Append(q, e) \in Seq(Items) /\ Len(Append(q, e)) <= QueueSize
BY QueueSizeAssumption

LEMMA CallsInType == \A s \in Seq(Records) : CallsIn(s) \in SUBSET Calls
<1> SUFFICES ASSUME NEW s \in Seq(Records) PROVE CallsIn(s) \in SUBSET Calls
  OBVIOUS
<1>1. \A i \in DOMAIN s : s[i] \in Records
  OBVIOUS
<1> QED BY <1>1, RecordKinds DEF CallsIn

LEMMA WithLaneType ==
  ASSUME buffer \in Seq(Records), file \in Seq(Records) PROVE WithLane \in Seq(Records)
BY RecordKinds DEF WithLane

LEMMA TypeInit == Init => TypeInv
<1> SUFFICES ASSUME Init PROVE TypeInv
  OBVIOUS
<1>1. n \in 0..MaxCalls /\ dropped \in Nat /\ Len(queue) <= QueueSize
  BY MaxCallsAssumption, QueueSizeAssumption DEF Init
<1>2. queue \in Seq(Items) /\ buffer \in Seq(Records) /\ file \in Seq(Records)
  BY DEF Init
<1>3. /\ cpc \in [Callers -> CallerStates] /\ kpc \in [Closers -> CloserStates]
      /\ hand \in [Callers -> CallItems \cup {Note, None}]
      /\ afterPut \in [Callers -> {"idle", "streaming"}]
      /\ recorded \in [Callers -> BOOLEAN]
  BY DEF Init, CallerStates, CloserStates
<1>4. closed \in BOOLEAN /\ noted \in BOOLEAN /\ wpc \in WorkerStates /\ got \in Items \cup {None}
  BY DEF Init, WorkerStates
<1>5. span \in SUBSET Calls /\ lost \in SUBSET Calls /\ torn \in SUBSET Calls
      /\ abandoned \in SUBSET Calls /\ raised \in SUBSET Calls
  BY DEF Init
<1>6. HandOK
  BY DEF Init, HandOK
<1> QED BY <1>1, <1>2, <1>3, <1>4, <1>5, <1>6 DEF TypeInv, TypeOK

\* A drop keeps the counter a number and the history a set of calls.
LEMMA DropType ==
  ASSUME dropped \in Nat, lost \in SUBSET Calls, NEW item, IsCall(item) => item.call \in Calls,
         Drop(item)
  PROVE  dropped' \in Nat /\ lost' \in SUBSET Calls
BY DEF Drop

LEMMA TypeStep == TypeInv /\ [Next]_vars => TypeInv'
<1> SUFFICES ASSUME TypeInv, [Next]_vars PROVE TypeInv'
  OBVIOUS
<1> USE MaxCallsAssumption, QueueSizeAssumption DEF TypeInv, TypeOK, HandOK, CallerStates,
        CloserStates, WorkerStates, appVars, workVars, endVars, NoDrop
<1>1. ASSUME NEW t \in Callers, Wrap(t) \/ NoteInvisible(t) PROVE TypeInv'
  <2>1. CASE Wrap(t)
    BY <2>1 DEF Wrap
  <2>2. CASE NoteInvisible(t)
    BY <2>2 DEF NoteInvisible
  <2> QED BY <1>1, <2>1, <2>2
<1>2. ASSUME NEW t \in Callers, Begin(t) PROVE TypeInv'
  <2>1. CallItem(n + 1) \in CallItems /\ n + 1 \in 0..MaxCalls
    BY <1>2 DEF Begin, CallItem, CallItems, Calls
  <2> QED BY <1>2, <2>1 DEF Begin
<1>3. ASSUME NEW t \in Callers, BeginFails(t) PROVE TypeInv'
  <2>1. n' \in 0..MaxCalls /\ dropped' \in Nat
    BY <1>3 DEF BeginFails, Drop
  <2>2. CallItem(n + 1).call \in Calls
    BY <1>3 DEF BeginFails, CallItem, Calls
  <2>3. lost' \in SUBSET Calls
    BY <1>3, <2>2 DEF BeginFails, Drop, IsCall, None
  <2> QED BY <1>3, <2>1, <2>3 DEF BeginFails
<1>4. ASSUME NEW t \in Callers, Return(t) PROVE TypeInv'
  BY <1>4 DEF Return
<1>5. ASSUME NEW t \in Callers, ReturnStream(t) PROVE TypeInv'
  BY <1>5 DEF ReturnStream
<1>6. ASSUME NEW t \in Callers, RecordStream(t) PROVE TypeInv'
  BY <1>6 DEF RecordStream
<1>7. ASSUME NEW t \in Callers, LeaveStream(t) PROVE TypeInv'
  <2>1. hand[t].call \in Calls
    BY <1>7, KindsDiffer DEF LeaveStream
  <2> QED BY <1>7, <2>1 DEF LeaveStream
<1>21. ASSUME NEW t \in Callers, ReturnFails(t) \/ RecordStreamFails(t) PROVE TypeInv'
  <2>1. dropped' \in Nat /\ lost' \in SUBSET Calls
    BY <1>21, KindsDiffer DEF ReturnFails, RecordStreamFails, Drop
  <2> QED BY <1>21, <2>1 DEF ReturnFails, RecordStreamFails
<1>22. ASSUME NEW t \in Callers, Unseen(t) PROVE TypeInv'
  <2>1. hand[t].call \in Calls
    BY <1>22, KindsDiffer DEF Unseen, NeverEntered, RaisesUnseen
  <2>2. CASE NeverEntered(t)
    BY <2>1, <2>2 DEF NeverEntered
  <2>3. CASE RaisesUnseen(t)
    BY <2>1, <2>3 DEF RaisesUnseen
  <2> QED BY <1>22, <2>2, <2>3 DEF Unseen
<1>8. ASSUME NEW t \in Callers, CheckClosed(t) PROVE TypeInv'
  <2>1. IsCall(hand[t]) => hand[t].call \in Calls
    BY <1>8, KindsDiffer DEF CheckClosed, IsCall
  <2>2. dropped' \in Nat /\ lost' \in SUBSET Calls
    BY <1>8, <2>1 DEF CheckClosed, Drop
  <2> QED BY <1>8, <2>2 DEF CheckClosed, Resume, EnsureThread
<1>9. ASSUME NEW t \in Callers, PutNowait(t) PROVE TypeInv'
  <2>1. IsCall(hand[t]) => hand[t].call \in Calls
    BY <1>9, KindsDiffer DEF PutNowait, IsCall
  <2>2. dropped' \in Nat /\ lost' \in SUBSET Calls
    BY <1>9, <2>1 DEF PutNowait, Drop
  <2>3. queue' \in Seq(Items) /\ Len(queue') <= QueueSize
    <3>1. hand[t] \in Items
      BY <1>9, ItemKinds DEF PutNowait
    <3>2. CASE Len(queue) < QueueSize
      <4>1. queue' = Append(queue, hand[t])
        BY <1>9, <3>2 DEF PutNowait
      <4>2. queue \in Seq(Items)
        OBVIOUS
      <4> HIDE DEF TypeInv
      <4> QED BY <3>1, <3>2, <4>1, <4>2, QueueSizeAssumption, PutType
    <3>3. CASE ~(Len(queue) < QueueSize)
      BY <1>9, <3>3 DEF PutNowait
    <3> QED BY <3>2, <3>3
  <2> QED BY <1>9, <2>2, <2>3 DEF PutNowait, Resume
<1>10. CASE WorkerGet
  <2>1. Head(queue) \in Items /\ Tail(queue) \in Seq(Items) /\ Len(Tail(queue)) <= QueueSize
    BY <1>10 DEF WorkerGet
  <2> QED BY <1>10, <2>1, KindsDiffer DEF WorkerGet, Items
<1>11. CASE WorkerHandle
  <2>1. buffer' \in Seq(Records) /\ span' \in SUBSET Calls
    <3>1. CASE got.kind = "note"
      <4>1. buffer' = Append(buffer, Note) /\ span' = span
        BY <1>11, <3>1 DEF WorkerHandle
      <4> QED BY <4>1, RecordKinds, SeqClosed
    <3>2. CASE got.kind = "call"
      <4>1. got \in CallItems
        BY <1>11, <3>2, KindsDiffer DEF WorkerHandle
      <4>2. buffer' = Append(WithLane, got) /\ span' = span \cup {got.call}
        BY <1>11, <3>2 DEF WorkerHandle
      <4>3. got \in Records /\ got.call \in Calls /\ WithLane \in Seq(Records)
        BY <4>1, KindsDiffer, RecordKinds, WithLaneType
      <4> QED BY <4>2, <4>3, SeqClosed
    <3>3. CASE got.kind = "session"
      <4>1. buffer' \in {buffer, Append(buffer, [kind |-> "session", spans |-> span])} /\ span' = span
        BY <1>11, <3>3 DEF WorkerHandle
      <4>2. [kind |-> "session", spans |-> span] \in Records
        BY RecordKinds
      <4>3. buffer \in Seq(Records)
        OBVIOUS
      <4>4. Append(buffer, [kind |-> "session", spans |-> span]) \in Seq(Records)
        BY <4>2, <4>3, SeqClosed
      <4> QED BY <4>1, <4>3, <4>4
    <3> QED BY <1>11, <3>1, <3>2, <3>3, KindsDiffer DEF WorkerHandle
  <2> QED BY <1>11, <2>1 DEF WorkerHandle
<1>12. CASE WorkerHandleFails
  <2>1. buffer' \in Seq(Records)
    BY <1>12, WithLaneType DEF WorkerHandleFails
  <2>2. IsCall(got) => got.call \in Calls
    BY <1>12, KindsDiffer DEF WorkerHandleFails, IsCall
  <2>3. dropped' \in Nat /\ lost' \in SUBSET Calls
    BY <1>12, <2>2 DEF WorkerHandleFails, Drop
  <2> QED BY <1>12, <2>1, <2>3 DEF WorkerHandleFails
<1>13. CASE WorkerFlush
  <2>1. file' \in Seq(Records) /\ buffer' \in Seq(Records)
    <3>1. file' \in {file, file \o buffer} /\ buffer' \in {buffer, <<>>}
      BY <1>13 DEF WorkerFlush
    <3>2. buffer \in Seq(Records) /\ file \in Seq(Records)
      OBVIOUS
    <3>3. file \o buffer \in Seq(Records) /\ <<>> \in Seq(Records)
      BY <3>2, SeqClosed
    <3> QED BY <3>1, <3>2, <3>3
  <2> QED BY <1>13, <2>1 DEF WorkerFlush
<1>14. CASE WorkerFinish
  <2>1. torn' \in SUBSET Calls
    BY <1>14, CallsInType DEF WorkerFinish
  <2>2. dropped' \in Nat /\ lost' \in SUBSET Calls
    BY <1>14 DEF WorkerFinish, Drop, IsCall, None
  <2>3. file' \in Seq(Records) /\ buffer' \in Seq(Records)
    <3>1. file' \in {file, file \o buffer} /\ buffer' = <<>>
      BY <1>14 DEF WorkerFinish
    <3>2. buffer \in Seq(Records) /\ file \in Seq(Records)
      OBVIOUS
    <3>3. file \o buffer \in Seq(Records) /\ <<>> \in Seq(Records)
      BY <3>2, SeqClosed
    <3> QED BY <3>1, <3>2, <3>3
  <2> QED BY <1>14, <2>1, <2>2, <2>3 DEF WorkerFinish
<1>15. ASSUME NEW k \in Closers, CloseCheck(k) PROVE TypeInv'
  BY <1>15 DEF CloseCheck
<1>16. ASSUME NEW k \in Closers, CloseSet(k) PROVE TypeInv'
  BY <1>16 DEF CloseSet, EnsureThread
<1>17. ASSUME NEW k \in Closers, ClosePut(k) PROVE TypeInv'
  <2>1. queue' \in Seq(Items) /\ Len(queue') <= QueueSize
    BY <1>17 DEF ClosePut, Items
  <2> QED BY <1>17, <2>1 DEF ClosePut
<1>18. ASSUME NEW k \in Closers, ClosePutTimeout(k) PROVE TypeInv'
  <2>1. dropped' \in Nat /\ lost' \in SUBSET Calls
    BY <1>18 DEF ClosePutTimeout, Drop, IsCall, None
  <2> QED BY <1>18, <2>1 DEF ClosePutTimeout
<1>19. ASSUME NEW k \in Closers, CloseJoin(k) PROVE TypeInv'
  BY <1>19 DEF CloseJoin
<1>20. CASE UNCHANGED vars
  BY <1>20 DEF vars
<1> QED
  BY <1>1, <1>2, <1>3, <1>4, <1>5, <1>6, <1>7, <1>8, <1>9, <1>10, <1>11, <1>12, <1>13, <1>14,
     <1>15, <1>16, <1>17, <1>18, <1>19, <1>20, <1>21, <1>22
     DEF Next, Caller, StreamStep, EnqueueStep, Worker, Closer, CloseRest

\* The variables keep their types and the queue keeps its bound, for every
\* number of threads: put_nowait and the two puts of close() respect queue_size.
THEOREM RecorderTypeOK == Spec => []TypeOK
<1>1. TypeInv => TypeOK
  BY DEF TypeInv
<1> QED BY <1>1, TypeInit, TypeStep, PTL DEF Spec

-----------------------------------------------------------------------------
(* Sequences of items and records *)

\* The calls in a sequence, when an element comes in or goes out.
LEMMA CallsInEmpty == CallsIn(<<>>) = {} /\ Once(<<>>)
BY DEF CallsIn, Once

LEMMA CallsInAppend ==
  ASSUME NEW S, NEW s \in Seq(S), NEW e \in S
  PROVE  CallsIn(Append(s, e)) = CallsIn(s) \cup (IF IsCall(e) THEN {e.call} ELSE {})
<1> DEFINE a == Append(s, e)
<1>1. /\ DOMAIN a = 1..Len(s) + 1 /\ DOMAIN s = 1..Len(s) /\ Len(s) \in Nat
      /\ a[Len(s) + 1] = e /\ \A i \in DOMAIN s : a[i] = s[i]
  OBVIOUS
<1> HIDE DEF a
<1>2. \A i \in DOMAIN a : i \in DOMAIN s \/ i = Len(s) + 1
  BY <1>1
<1>3. DOMAIN s \subseteq DOMAIN a /\ Len(s) + 1 \in DOMAIN a
  BY <1>1
<1>4. CallsIn(a) \subseteq CallsIn(s) \cup (IF IsCall(e) THEN {e.call} ELSE {})
  BY <1>1, <1>2 DEF CallsIn
<1>5. CallsIn(s) \cup (IF IsCall(e) THEN {e.call} ELSE {}) \subseteq CallsIn(a)
  BY <1>1, <1>3 DEF CallsIn
<1> QED BY <1>4, <1>5 DEF a

LEMMA OnceAppend ==
  ASSUME NEW S, NEW s \in Seq(S), NEW e \in S, Once(s), IsCall(e) => e.call \notin CallsIn(s)
  PROVE  Once(Append(s, e))
<1> DEFINE a == Append(s, e)
<1>1. /\ DOMAIN a = 1..Len(s) + 1 /\ DOMAIN s = 1..Len(s) /\ Len(s) \in Nat
      /\ a[Len(s) + 1] = e /\ \A i \in DOMAIN s : a[i] = s[i]
  OBVIOUS
<1> HIDE DEF a
<1> SUFFICES ASSUME NEW i \in DOMAIN a, NEW j \in DOMAIN a,
                    IsCall(a[i]), IsCall(a[j]), a[i].call = a[j].call
             PROVE  i = j
  BY DEF Once, a
<1>2. \A k \in DOMAIN a : k \in DOMAIN s \/ k = Len(s) + 1
  BY <1>1
<1>3. CASE i \in DOMAIN s /\ j \in DOMAIN s
  BY <1>1, <1>3 DEF Once
<1>4. CASE i \in DOMAIN s /\ j = Len(s) + 1
  BY <1>1, <1>4 DEF CallsIn
<1>5. CASE j \in DOMAIN s /\ i = Len(s) + 1
  BY <1>1, <1>5 DEF CallsIn
<1> QED BY <1>2, <1>3, <1>4, <1>5

LEMMA CallsInConcat ==
  ASSUME NEW S, NEW s \in Seq(S), NEW u \in Seq(S)
  PROVE  CallsIn(s \o u) = CallsIn(s) \cup CallsIn(u)
<1> DEFINE a == s \o u
<1>1. /\ DOMAIN a = 1..Len(s) + Len(u) /\ DOMAIN s = 1..Len(s) /\ DOMAIN u = 1..Len(u)
      /\ Len(s) \in Nat /\ Len(u) \in Nat
      /\ \A i \in DOMAIN s : a[i] = s[i]
      /\ \A i \in DOMAIN u : a[Len(s) + i] = u[i]
  OBVIOUS
<1> HIDE DEF a
<1>2. ASSUME NEW i \in DOMAIN a
      PROVE  \/ i \in DOMAIN s /\ a[i] = s[i]
             \/ i - Len(s) \in DOMAIN u /\ a[i] = u[i - Len(s)]
  BY <1>1
<1>3. ASSUME NEW i \in DOMAIN s PROVE i \in DOMAIN a
  BY <1>1
<1>4. ASSUME NEW i \in DOMAIN u PROVE Len(s) + i \in DOMAIN a
  BY <1>1
<1>5. CallsIn(a) \subseteq CallsIn(s) \cup CallsIn(u)
  BY <1>2 DEF CallsIn
<1>6. CallsIn(s) \cup CallsIn(u) \subseteq CallsIn(a)
  BY <1>1, <1>3, <1>4 DEF CallsIn
<1> QED BY <1>5, <1>6 DEF a

\* Taking the head of a queue without repetitions takes its call out of it.
LEMMA CallsInTail ==
  ASSUME NEW S, NEW s \in Seq(S), s # <<>>
  PROVE  /\ CallsIn(s) = CallsIn(Tail(s)) \cup (IF IsCall(Head(s)) THEN {Head(s).call} ELSE {})
         /\ Once(s) => Once(Tail(s)) /\ (IsCall(Head(s)) => Head(s).call \notin CallsIn(Tail(s)))
<1> DEFINE a == Tail(s)
<1>1. /\ DOMAIN a = 1..Len(s) - 1 /\ DOMAIN s = 1..Len(s) /\ Len(s) \in Nat /\ Len(s) >= 1
      /\ Head(s) = s[1] /\ \A i \in DOMAIN a : a[i] = s[i + 1]
  OBVIOUS
<1> HIDE DEF a
<1>2. ASSUME NEW i \in DOMAIN s PROVE i = 1 \/ (i - 1 \in DOMAIN a /\ s[i] = a[i - 1])
  BY <1>1
<1>3. ASSUME NEW i \in DOMAIN a PROVE i + 1 \in DOMAIN s /\ i + 1 # 1
  BY <1>1
<1>4. 1 \in DOMAIN s
  BY <1>1
<1>5. CallsIn(s) \subseteq CallsIn(a) \cup (IF IsCall(Head(s)) THEN {Head(s).call} ELSE {})
  BY <1>1, <1>2 DEF CallsIn
<1>6. CallsIn(a) \cup (IF IsCall(Head(s)) THEN {Head(s).call} ELSE {}) \subseteq CallsIn(s)
  BY <1>1, <1>3, <1>4 DEF CallsIn
<1>7. ASSUME Once(s) PROVE Once(a)
  <2> SUFFICES ASSUME NEW i \in DOMAIN a, NEW j \in DOMAIN a,
                      IsCall(a[i]), IsCall(a[j]), a[i].call = a[j].call
               PROVE  i = j
    BY DEF Once
  <2>1. i + 1 = j + 1
    BY <1>1, <1>3, <1>7 DEF Once
  <2>2. i \in Int /\ j \in Int
    BY <1>1
  <2> QED BY <2>1, <2>2
<1>8. ASSUME Once(s), IsCall(Head(s)), Head(s).call \in CallsIn(a) PROVE FALSE
  <2>1. PICK i \in DOMAIN a : IsCall(a[i]) /\ a[i].call = Head(s).call
    BY <1>8 DEF CallsIn
  <2> QED BY <1>1, <1>3, <1>4, <1>8, <2>1 DEF Once
<1> QED BY <1>5, <1>6, <1>7, <1>8 DEF a

\* What is no call changes nothing of the calls of a sequence.
LEMMA AppendOther ==
  ASSUME NEW S, NEW s \in Seq(S), NEW e \in S, ~IsCall(e), Once(s)
  PROVE  CallsIn(Append(s, e)) = CallsIn(s) /\ Once(Append(s, e))
<1>1. CallsIn(Append(s, e)) = CallsIn(s) \cup {}
  BY CallsInAppend
<1>2. Once(Append(s, e))
  BY OnceAppend
<1> QED BY <1>1, <1>2

LEMMA ConcatAppend ==
  ASSUME NEW S, NEW s \in Seq(S), NEW u \in Seq(S), NEW e \in S
  PROVE  s \o Append(u, e) = Append(s \o u, e)
OBVIOUS

-----------------------------------------------------------------------------
(* What threads hold *)

\* A caller between calls holds nothing, a stream that is in _enqueue is marked as
\* recorded; the worker holds an item only between get and _handle, and what a failed
\* close of the file tore is set when it ends.
ThreadsOK ==
  /\ \A t \in Callers :
       /\ cpc[t] \in {"new", "noting", "idle"} => hand[t] = None
       /\ cpc[t] \in {"check", "put"} /\ afterPut[t] = "streaming" => recorded[t]
  /\ wpc \notin {"handle", "finish"} => got = None
  /\ wpc = "finish" => got = Stop
  /\ wpc = "done" => buffer = <<>>
  /\ wpc # "done" => torn = {}

LEMMA ThreadsStep == TypeInv /\ ThreadsOK /\ [Next]_vars => ThreadsOK'
<1> SUFFICES ASSUME TypeInv, ThreadsOK, [Next]_vars PROVE ThreadsOK'
  OBVIOUS
<1> USE DEF TypeInv, TypeOK, ThreadsOK, CallerStates, appVars, workVars, endVars, NoDrop, Drop
<1>1. ASSUME NEW t \in Callers, Wrap(t) \/ NoteInvisible(t) PROVE ThreadsOK'
  BY <1>1 DEF Wrap, NoteInvisible
<1>2. ASSUME NEW t \in Callers, Begin(t) \/ BeginFails(t) \/ Return(t) \/ ReturnFails(t)
                                  \/ ReturnStream(t) \/ StreamStep(t) \/ Unseen(t)
      PROVE  ThreadsOK'
  <2>1. CASE Begin(t) \/ BeginFails(t) \/ Return(t) \/ ReturnFails(t)
    <3>1. CASE Begin(t) \/ BeginFails(t)
      BY <3>1 DEF Begin, BeginFails
    <3>2. CASE Return(t) \/ ReturnFails(t)
      BY <3>2 DEF Return, ReturnFails
    <3> QED BY <2>1, <3>1, <3>2
  <2>2. CASE ReturnStream(t) \/ LeaveStream(t)
    BY <2>2 DEF ReturnStream, LeaveStream
  <2>3. CASE RecordStream(t)
    BY <2>3 DEF RecordStream
  <2>4. CASE RecordStreamFails(t)
    BY <2>4 DEF RecordStreamFails
  <2>5. CASE Unseen(t)
    BY <2>5 DEF Unseen, NeverEntered, RaisesUnseen
  <2> QED BY <1>2, <2>1, <2>2, <2>3, <2>4, <2>5 DEF StreamStep
<1>3. ASSUME NEW t \in Callers, EnqueueStep(t) PROVE ThreadsOK'
  BY <1>3 DEF EnqueueStep, CheckClosed, PutNowait, Resume, EnsureThread
<1>4. CASE WorkerGet \/ WorkerHandle \/ WorkerHandleFails
  BY <1>4 DEF WorkerGet, WorkerHandle, WorkerHandleFails
<1>5. CASE WorkerFlush \/ WorkerFinish
  BY <1>5 DEF WorkerFlush, WorkerFinish
<1>6. ASSUME NEW k \in Closers, Closer(k) PROVE ThreadsOK'
  BY <1>6 DEF Closer, CloseRest, CloseCheck, CloseSet, ClosePut, ClosePutTimeout, CloseJoin,
              EnsureThread
<1>7. CASE UNCHANGED vars
  BY <1>7 DEF vars
<1> QED BY <1>1, <1>2, <1>3, <1>4, <1>5, <1>6, <1>7 DEF Next, Caller, Worker

-----------------------------------------------------------------------------
(* The fate of a call *)

HeldCalls == UNION {Held(t) : t \in Callers}

\* Eight sets that share nothing and make up 1..m.
Apart(H, Q, T, B, F, L, R, A, m) ==
  /\ H \cup Q \cup T \cup B \cup F \cup L \cup R \cup A = 1..m
  /\ H \cap (Q \cup T \cup B \cup F \cup L \cup R \cup A) = {}
  /\ Q \cap (T \cup B \cup F \cup L \cup R \cup A) = {}
  /\ T \cap (B \cup F \cup L \cup R \cup A) = {}
  /\ B \cap (F \cup L \cup R \cup A) = {}
  /\ F \cap (L \cup R \cup A) = {}
  /\ L \cap (R \cup A) = {}
  /\ R \cap A = {}

Fates ==
  Apart(HeldCalls, CallsIn(queue), Taken, CallsIn(buffer), CallsIn(file), lost, torn,
        abandoned \cup raised, n)
EndsApart == abandoned \cap raised = {}
HeldApart == \A t, u \in Callers : t # u => Held(t) \cap Held(u) = {}

\* The inductive invariant behind OneFate.
FateInv ==
  /\ TypeInv /\ ThreadsOK /\ Fates /\ EndsApart /\ HeldApart
  /\ Once(queue) /\ Once(file \o buffer)

LEMMA FateInvOneFate == FateInv => OneFate
<1> SUFFICES ASSUME FateInv PROVE OneFate
  OBVIOUS
<1> DEFINE places == <<HeldCalls, CallsIn(queue), Taken, CallsIn(buffer), CallsIn(file),
                       lost, torn, abandoned, raised>>
<1>1. DOMAIN places = {1, 2, 3, 4, 5, 6, 7, 8, 9}
  OBVIOUS
<1>2. UNION {places[i] : i \in DOMAIN places} =
        HeldCalls \cup CallsIn(queue) \cup Taken \cup CallsIn(buffer) \cup CallsIn(file)
          \cup lost \cup torn \cup abandoned \cup raised
  OBVIOUS
<1>3. ASSUME NEW i \in DOMAIN places, NEW j \in DOMAIN places, i # j
      PROVE  places[i] \cap places[j] = {}
  BY <1>1, <1>3 DEF FateInv, Fates, Apart, EndsApart
<1> HIDE DEF places
<1>4. /\ UNION {places[i] : i \in DOMAIN places} = 1..n
      /\ \A i, j \in DOMAIN places : i # j => places[i] \cap places[j] = {}
  BY <1>2, <1>3 DEF FateInv, Fates, Apart
<1> QED BY <1>4 DEF OneFate, FateInv, HeldApart, HeldCalls, places

\* A step of one caller changes what that caller holds and nothing else.
LEMMA HeldMoves ==
  ASSUME HeldApart, NEW t \in Callers, NEW X,
         \A u \in Callers \ {t} : Held(u)' = Held(u), Held(t)' = X
  PROVE  /\ HeldCalls' = (HeldCalls \ Held(t)) \cup X
         /\ X \cap (HeldCalls \ Held(t)) = {} => HeldApart'
<1>1. HeldCalls' = UNION {Held(u)' : u \in Callers}
  BY DEF HeldCalls
<1>2. \A u \in Callers \ {t} : Held(u) \cap Held(t) = {}
  BY DEF HeldApart
<1>3. HeldCalls' = (HeldCalls \ Held(t)) \cup X
  BY <1>1, <1>2 DEF HeldCalls
<1>4. ASSUME X \cap (HeldCalls \ Held(t)) = {} PROVE HeldApart'
  <2>1. \A u \in Callers \ {t} : Held(u) \cap X = {}
    BY <1>2, <1>4 DEF HeldCalls
  <2>2. ASSUME NEW u \in Callers, NEW v \in Callers, u # v PROVE Held(u)' \cap Held(v)' = {}
    BY <2>1, <2>2 DEF HeldApart
  <2> QED BY <2>2 DEF HeldApart
<1> QED BY <1>3, <1>4

LEMMA HeldSame ==
  ASSUME UNCHANGED <<cpc, hand, recorded>>
  PROVE  HeldCalls' = HeldCalls /\ (HeldApart => HeldApart')
<1>1. \A u : Held(u)' = Held(u)
  BY DEF Held, IsCall
<1> QED BY <1>1 DEF HeldCalls, HeldApart

\* What caller t holds, state by state.
LEMMA HeldValue ==
  ASSUME TypeInv, ThreadsOK, NEW t \in Callers
  PROVE  /\ cpc[t] \in {"new", "noting", "idle"} => Held(t) = {}
         /\ cpc[t] \in {"inflight", "check", "put"} =>
              Held(t) = IF IsCall(hand[t]) THEN {hand[t].call} ELSE {}
         /\ cpc[t] = "inflight" => Held(t) = {hand[t].call}
         /\ cpc[t] = "streaming" => Held(t) = IF recorded[t] THEN {} ELSE {hand[t].call}
         /\ cpc[t] \in {"check", "put"} /\ hand[t] = Note => Held(t) = {}
<1>1. hand[t] \in CallItems => IsCall(hand[t])
  BY KindsDiffer DEF IsCall
<1> QED BY <1>1, KindsDiffer DEF Held, IsCall, TypeInv, TypeOK, HandOK, ThreadsOK

\* Calls go from one place to another: the places stay apart.
LEMMA ApartMoves ==
  ASSUME NEW H, NEW Q, NEW T, NEW B, NEW F, NEW L, NEW R, NEW A, NEW m \in Nat,
         Apart(H, Q, T, B, F, L, R, A, m), NEW X
  PROVE  /\ X \subseteq H => /\ Apart(H \ X, Q \cup X, T, B, F, L, R, A, m)
                             /\ Apart(H \ X, Q, T, B, F, L \cup X, R, A, m)
                             /\ Apart(H \ X, Q, T, B, F, L, R, A \cup X, m)
         /\ X \subseteq Q /\ T = {} => Apart(H, Q \ X, X, B, F, L, R, A, m)
         /\ Apart(H, Q, {}, B \cup T, F, L, R, A, m)
         /\ Apart(H, Q, {}, B, F, L \cup T, R, A, m)
         /\ Apart(H, Q, T, {}, F \cup B, L, R, A, m)
         /\ Apart(H, Q, T, {}, F, L, R \cup B, A, m)
         /\ Apart(H \cup {m + 1}, Q, T, B, F, L, R, A, m + 1)
         /\ Apart(H, Q, T, B, F, L \cup {m + 1}, R, A, m + 1)
<1>1. 1..(m + 1) = (1..m) \cup {m + 1} /\ m + 1 \notin 1..m
  OBVIOUS
<1>2. X \subseteq H => Apart(H \ X, Q \cup X, T, B, F, L, R, A, m)
  BY DEF Apart
<1>3. X \subseteq H => Apart(H \ X, Q, T, B, F, L \cup X, R, A, m)
  BY DEF Apart
<1>4. X \subseteq H => Apart(H \ X, Q, T, B, F, L, R, A \cup X, m)
  BY DEF Apart
<1>5. X \subseteq Q /\ T = {} => Apart(H, Q \ X, X, B, F, L, R, A, m)
  BY DEF Apart
<1>6. Apart(H, Q, {}, B \cup T, F, L, R, A, m)
  BY DEF Apart
<1>7. Apart(H, Q, {}, B, F, L \cup T, R, A, m)
  BY DEF Apart
<1>8. Apart(H, Q, T, {}, F \cup B, L, R, A, m) /\ Apart(H, Q, T, {}, F, L, R \cup B, A, m)
  BY DEF Apart
<1>9. Apart(H \cup {m + 1}, Q, T, B, F, L, R, A, m + 1)
  BY <1>1 DEF Apart
<1>10. Apart(H, Q, T, B, F, L \cup {m + 1}, R, A, m + 1)
  BY <1>1 DEF Apart
<1> QED BY <1>2, <1>3, <1>4, <1>5, <1>6, <1>7, <1>8, <1>9, <1>10

\* The lane record is no call.
LEMMA WithLaneCalls ==
  ASSUME buffer \in Seq(Records), file \in Seq(Records)
  PROVE  /\ CallsIn(WithLane) = CallsIn(buffer)
         /\ Once(file \o buffer) => Once(file \o WithLane)
<1>1. CASE WithLane = buffer
  BY <1>1
<1>2. CASE WithLane = Append(buffer, Lane)
  <2>1. Lane \in Records /\ ~IsCall(Lane)
    BY RecordKinds, KindsDiffer DEF IsCall
  <2>2. CallsIn(WithLane) = CallsIn(buffer)
    BY <1>2, <2>1, CallsInAppend
  <2>3. file \o WithLane = Append(file \o buffer, Lane) /\ file \o buffer \in Seq(Records)
    BY <1>2, <2>1, ConcatAppend
  <2>4. Once(file \o buffer) => Once(file \o WithLane)
    BY <2>1, <2>3, OnceAppend
  <2> QED BY <2>2, <2>4
<1> QED BY <1>1, <1>2 DEF WithLane

\* A caller's step outside the queue's put: nothing moves but what it holds.
LEMMA CallerFate ==
  ASSUME FateInv, NEW t \in Callers, Caller(t), ~PutNowait(t)
  PROVE  Fates' /\ EndsApart' /\ HeldApart' /\ Once(queue)' /\ Once(file \o buffer)'
<1> USE DEF FateInv
<1>0. n \in Nat
  BY DEF TypeInv, TypeOK
<1>1. UNCHANGED <<queue, got, buffer, file, torn>>
  BY DEF Caller, StreamStep, Unseen, EnqueueStep, Wrap, NoteInvisible, Begin, BeginFails, Return,
         ReturnFails, ReturnStream, RecordStream, RecordStreamFails, LeaveStream, NeverEntered,
         RaisesUnseen, CheckClosed, workVars
<1>2. Once(queue)' /\ Once(file \o buffer)'
  BY <1>1 DEF Once, IsCall
<1> SUFFICES Fates' /\ EndsApart' /\ HeldApart'
  BY <1>2
<1>3. CallsIn(queue)' = CallsIn(queue) /\ CallsIn(buffer)' = CallsIn(buffer)
      /\ CallsIn(file)' = CallsIn(file) /\ Taken' = Taken
  BY <1>1 DEF CallsIn, Taken, IsCall
<1>4. \A u \in Callers \ {t} : Held(u)' = Held(u)
  <2> SUFFICES ASSUME NEW u \in Callers \ {t}
               PROVE  cpc'[u] = cpc[u] /\ hand'[u] = hand[u] /\ recorded'[u] = recorded[u]
    BY DEF Held, IsCall
  <2>1. CASE Wrap(t) \/ NoteInvisible(t) \/ Begin(t) \/ BeginFails(t)
    BY <2>1 DEF Wrap, NoteInvisible, Begin, BeginFails, TypeInv, TypeOK
  <2>2. CASE Return(t) \/ ReturnFails(t) \/ Unseen(t)
    BY <2>2 DEF Return, ReturnFails, Unseen, NeverEntered, RaisesUnseen, TypeInv, TypeOK
  <2>3. CASE ReturnStream(t) \/ StreamStep(t)
    BY <2>3 DEF ReturnStream, StreamStep, RecordStream, RecordStreamFails, LeaveStream, TypeInv,
                TypeOK
  <2>4. CASE CheckClosed(t)
    BY <2>4 DEF CheckClosed, Resume, TypeInv, TypeOK
  <2> QED BY <2>1, <2>2, <2>3, <2>4 DEF Caller, EnqueueStep
<1>5. HeldCalls \cap {n + 1} = {}
  BY <1>0 DEF Fates, Apart
<1>6. Held(t) \subseteq HeldCalls
  BY DEF HeldCalls
<1>15. Held(t) \cap (abandoned \cup raised) = {}
  BY <1>6 DEF Fates, Apart
<1>7. ASSUME Held(t)' = Held(t), n' = n, lost' = lost, UNCHANGED endVars
      PROVE  Fates' /\ EndsApart' /\ HeldApart'
  <2>1. HeldCalls' = HeldCalls /\ HeldApart'
    BY <1>4, <1>6, <1>7, HeldMoves
  <2> QED BY <1>1, <1>3, <1>7, <2>1 DEF Fates, EndsApart, endVars
<1>8. CASE Wrap(t)
  <2>1. Held(t) = {}
    BY <1>8, HeldValue DEF Wrap
  <2>2. Held(t)' = {}
    BY <1>8, KindsDiffer DEF Wrap, Held, IsCall, TypeInv, TypeOK, ThreadsOK
  <2> QED BY <1>7, <1>8, <2>1, <2>2 DEF Wrap, NoDrop
<1>16. CASE NoteInvisible(t)
  <2>1. Held(t) = {}
    BY <1>16, HeldValue DEF NoteInvisible
  <2>2. Held(t)' = {}
    BY <1>16, KindsDiffer DEF NoteInvisible, Held, IsCall, TypeInv, TypeOK
  <2> QED BY <1>7, <1>16, <2>1, <2>2 DEF NoteInvisible, NoDrop
<1>9. CASE Begin(t)
  <2>1. Held(t) = {}
    BY <1>9, HeldValue DEF Begin
  <2>2. Held(t)' = {n + 1}
    BY <1>9 DEF Begin, Held, IsCall, CallItem, TypeInv, TypeOK
  <2>3. HeldCalls' = HeldCalls \cup {n + 1} /\ HeldApart'
    BY <1>4, <1>5, <2>1, <2>2, HeldMoves
  <2>4. n' = n + 1 /\ lost' = lost /\ UNCHANGED <<abandoned, raised>>
    BY <1>9 DEF Begin, NoDrop, endVars
  <2> QED BY <1>0, <1>1, <1>3, <2>3, <2>4, ApartMoves DEF Fates, EndsApart
<1>10. CASE BeginFails(t)
  <2>1. HeldCalls' = HeldCalls /\ HeldApart' /\ UNCHANGED <<abandoned, raised>>
    BY <1>10, HeldSame DEF BeginFails, endVars
  <2>2. CASE n' = n /\ lost' = lost
    BY <1>1, <1>3, <2>1, <2>2 DEF Fates, EndsApart
  <2>3. CASE n' = n + 1 /\ lost' = lost \cup {n + 1}
    BY <1>0, <1>1, <1>3, <2>1, <2>3, ApartMoves DEF Fates, EndsApart
  <2>4. (n' = n /\ lost' = lost) \/ (n' = n + 1 /\ lost' = lost \cup {n + 1})
    BY <1>10 DEF BeginFails, Drop, None, CallItem, IsCall
  <2> QED BY <2>1, <2>2, <2>3, <2>4
<1>11. CASE Return(t) \/ ReturnStream(t) \/ RecordStream(t)
  <2>1. Held(t) = {hand[t].call}
    BY <1>11, HeldValue DEF Return, ReturnStream, RecordStream
  <2>2. IsCall(hand[t])
    BY <1>11, KindsDiffer DEF Return, ReturnStream, RecordStream, TypeInv, HandOK, IsCall
  <2>3. Held(t)' = {hand[t].call}
    BY <1>11, <2>2 DEF Return, ReturnStream, RecordStream, Held, IsCall, TypeInv, TypeOK
  <2> QED BY <1>7, <1>11, <2>1, <2>3 DEF Return, ReturnStream, RecordStream, NoDrop
<1>12. CASE LeaveStream(t) \/ Unseen(t)
  <2>1. Held(t)' = {}
    BY <1>12 DEF LeaveStream, Unseen, NeverEntered, RaisesUnseen, Held, IsCall, None, TypeInv,
                 TypeOK
  <2>2. HeldCalls' = HeldCalls \ Held(t) /\ HeldApart'
    BY <1>4, <2>1, HeldMoves
  <2>3. \/ abandoned' = abandoned \cup Held(t) /\ raised' = raised
        \/ abandoned' = abandoned /\ raised' = raised \cup Held(t)
    BY <1>12, HeldValue DEF LeaveStream, Unseen, NeverEntered, RaisesUnseen
  <2>4. n' = n /\ lost' = lost
    BY <1>12 DEF LeaveStream, Unseen, NeverEntered, RaisesUnseen, NoDrop
  <2>5. (abandoned \cup raised)' = (abandoned \cup raised) \cup Held(t) /\ EndsApart'
    BY <1>15, <2>3 DEF EndsApart
  <2> QED BY <1>0, <1>1, <1>3, <1>6, <2>2, <2>4, <2>5, ApartMoves DEF Fates
<1>17. CASE ReturnFails(t) \/ RecordStreamFails(t)
  <2>1. Held(t)' = {}
    BY <1>17 DEF ReturnFails, RecordStreamFails, Held, IsCall, None, TypeInv, TypeOK
  <2>2. HeldCalls' = HeldCalls \ Held(t) /\ HeldApart'
    BY <1>4, <2>1, HeldMoves
  <2>3. Held(t) = {hand[t].call} /\ IsCall(hand[t])
    BY <1>17, HeldValue, KindsDiffer
       DEF ReturnFails, RecordStreamFails, TypeInv, HandOK, IsCall
  <2>4. n' = n /\ lost' = lost \cup Held(t) /\ UNCHANGED <<abandoned, raised>>
    BY <1>17, <2>3 DEF ReturnFails, RecordStreamFails, Drop, endVars
  <2> QED BY <1>0, <1>1, <1>3, <1>6, <2>2, <2>4, ApartMoves DEF Fates, EndsApart
<1>13. CASE CheckClosed(t)
  <2>1. n' = n /\ UNCHANGED <<abandoned, raised>>
    BY <1>13 DEF CheckClosed, endVars
  <2>2. CASE closed
    <3>1. Drop(hand[t]) /\ Resume(t)
      BY <1>13, <2>2 DEF CheckClosed
    <3>2. Held(t)' = {}
      BY <1>13, <3>1 DEF CheckClosed, Resume, Held, IsCall, None, TypeInv, TypeOK, ThreadsOK
    <3>3. HeldCalls' = HeldCalls \ Held(t) /\ HeldApart'
      BY <1>4, <3>2, HeldMoves
    <3>4. lost' = lost \cup Held(t)
      BY <1>13, <3>1, HeldValue DEF CheckClosed, Drop
    <3> QED BY <1>0, <1>1, <1>3, <1>6, <2>1, <3>3, <3>4, ApartMoves DEF Fates, EndsApart
  <2>3. CASE ~closed
    <3>1. Held(t)' = Held(t) /\ lost' = lost
      BY <1>13, <2>3 DEF CheckClosed, NoDrop, Held, IsCall, TypeInv, TypeOK
    <3> QED BY <1>7, <2>1, <3>1 DEF endVars
  <2> QED BY <2>2, <2>3
<1> QED BY <1>8, <1>9, <1>10, <1>11, <1>12, <1>13, <1>16, <1>17
        DEF Caller, StreamStep, EnqueueStep

\* put_nowait: the call goes into the queue or is counted as dropped.
LEMMA PutFate ==
  ASSUME FateInv, NEW t \in Callers, PutNowait(t)
  PROVE  Fates' /\ EndsApart' /\ HeldApart' /\ Once(queue)' /\ Once(file \o buffer)'
<1> USE DEF FateInv
<1>0. n \in Nat /\ queue \in Seq(Items) /\ hand[t] \in Items
  BY ItemKinds DEF PutNowait, TypeInv, TypeOK, HandOK
<1>1. UNCHANGED <<n, got, buffer, file, torn, abandoned, raised>>
  BY DEF PutNowait, workVars, endVars
<1>11. EndsApart'
  BY <1>1 DEF EndsApart
<1>2. CallsIn(buffer)' = CallsIn(buffer) /\ CallsIn(file)' = CallsIn(file) /\ Taken' = Taken
  BY <1>1 DEF CallsIn, Taken, IsCall
<1>3. Once(file \o buffer)'
  BY <1>1 DEF Once, IsCall
<1>4. Held(t) = IF IsCall(hand[t]) THEN {hand[t].call} ELSE {}
  BY HeldValue DEF PutNowait
<1>5. Held(t)' = {}
  BY DEF PutNowait, Resume, Held, IsCall, None, TypeInv, TypeOK, ThreadsOK
<1>6. \A u \in Callers \ {t} : Held(u)' = Held(u)
  BY DEF PutNowait, Resume, Held, IsCall, TypeInv, TypeOK
<1>7. HeldCalls' = HeldCalls \ Held(t) /\ HeldApart'
  BY <1>5, <1>6, HeldMoves
<1>8. Held(t) \subseteq HeldCalls
  BY DEF HeldCalls
<1>9. CASE Len(queue) < QueueSize
  <2>1. queue' = Append(queue, hand[t]) /\ lost' = lost
    BY <1>9 DEF PutNowait, NoDrop
  <2>2. CallsIn(queue)' = CallsIn(queue) \cup Held(t)
    <3>1. CallsIn(queue)' = CallsIn(queue')
      BY DEF CallsIn, IsCall
    <3> QED BY <1>0, <1>4, <2>1, <3>1, CallsInAppend
  <2>3. Once(queue)'
    <3>1. IsCall(hand[t]) => hand[t].call \notin CallsIn(queue)
      BY <1>4, <1>8 DEF Fates, Apart
    <3>2. Once(queue')
      BY <1>0, <2>1, <3>1, OnceAppend
    <3> QED BY <3>2 DEF Once, IsCall
  <2>4. Fates'
    <3>1. Apart(HeldCalls \ Held(t), CallsIn(queue) \cup Held(t), Taken, CallsIn(buffer),
                CallsIn(file), lost, torn, abandoned \cup raised, n)
      BY <1>0, <1>8, ApartMoves DEF Fates
    <3> QED BY <1>1, <1>2, <1>7, <2>1, <2>2, <3>1 DEF Fates
  <2> QED BY <1>3, <1>7, <1>11, <2>3, <2>4
<1>10. CASE ~(Len(queue) < QueueSize)
  <2>1. queue' = queue /\ lost' = lost \cup Held(t)
    BY <1>4, <1>10 DEF PutNowait, Drop
  <2>2. CallsIn(queue)' = CallsIn(queue) /\ Once(queue)'
    BY <2>1 DEF CallsIn, Once, IsCall
  <2>3. Fates'
    <3>1. Apart(HeldCalls \ Held(t), CallsIn(queue), Taken, CallsIn(buffer), CallsIn(file),
                lost \cup Held(t), torn, abandoned \cup raised, n)
      BY <1>0, <1>8, ApartMoves DEF Fates
    <3> QED BY <1>1, <1>2, <1>7, <2>1, <2>2, <3>1 DEF Fates
  <2> QED BY <1>3, <1>7, <1>11, <2>2, <2>3
<1> QED BY <1>9, <1>10

\* The worker carries calls from the queue to the file.
LEMMA WorkerFate ==
  ASSUME FateInv, Worker
  PROVE  Fates' /\ EndsApart' /\ HeldApart' /\ Once(queue)' /\ Once(file \o buffer)'
<1> USE DEF FateInv
<1>0. /\ n \in Nat /\ queue \in Seq(Items) /\ buffer \in Seq(Records) /\ file \in Seq(Records)
      /\ file \o buffer \in Seq(Records)
  BY DEF TypeInv, TypeOK
<1>1. UNCHANGED <<n, cpc, hand, recorded, abandoned, raised>>
  BY DEF Worker, WorkerGet, WorkerHandle, WorkerHandleFails, WorkerFlush, WorkerFinish, appVars
<1>2. HeldCalls' = HeldCalls /\ HeldApart' /\ EndsApart'
  BY <1>1, HeldSame DEF EndsApart
<1>3. /\ CallsIn(queue)' = CallsIn(queue') /\ CallsIn(buffer)' = CallsIn(buffer')
      /\ CallsIn(file)' = CallsIn(file') /\ Once(queue)' = Once(queue')
      /\ Once(file \o buffer)' = Once(file' \o buffer')
  BY DEF CallsIn, Once, IsCall
<1>4. CASE WorkerGet
  <2>1. /\ got' = Head(queue) /\ queue' = Tail(queue) /\ queue # <<>> /\ got = None
        /\ UNCHANGED <<buffer, file, lost, torn>>
    BY <1>4 DEF WorkerGet, NoDrop, ThreadsOK
  <2>2. Taken = {} /\ Taken' = IF IsCall(Head(queue)) THEN {Head(queue).call} ELSE {}
    BY <2>1 DEF Taken, IsCall, None
  <2>3. CallsIn(queue) = CallsIn(queue') \cup Taken' /\ CallsIn(queue') \cap Taken' = {}
        /\ Once(queue')
    BY <1>0, <2>1, <2>2, CallsInTail
  <2>4. CallsIn(queue') = CallsIn(queue) \ Taken' /\ Taken' \subseteq CallsIn(queue)
    BY <2>3
  <2>5. Fates'
    <3>1. Apart(HeldCalls, CallsIn(queue) \ Taken', Taken', CallsIn(buffer), CallsIn(file),
                lost, torn, abandoned \cup raised, n)
      BY <1>0, <2>2, <2>4, ApartMoves DEF Fates
    <3> QED BY <1>1, <1>2, <1>3, <2>1, <2>4, <3>1 DEF Fates
  <2> QED BY <1>2, <1>3, <2>1, <2>3, <2>5
<1>5. CASE WorkerHandle
  <2>1. /\ got' = None /\ UNCHANGED <<queue, file, lost, torn>>
    BY <1>5 DEF WorkerHandle, NoDrop
  <2>2. Taken' = {}
    BY <2>1 DEF Taken, IsCall, None
  <2>3. CallsIn(buffer') = CallsIn(buffer) \cup Taken /\ Once(file \o buffer')
    <3>1. CASE got.kind = "note"
      <4>1. buffer' = Append(buffer, Note) /\ Note \in Records /\ ~IsCall(Note)
        BY <1>5, <3>1, RecordKinds, KindsDiffer DEF WorkerHandle, IsCall
      <4>2. Taken = {}
        BY <3>1 DEF Taken, IsCall
      <4>3. file \o buffer' = Append(file \o buffer, Note)
        BY <1>0, <4>1, ConcatAppend
      <4> QED BY <1>0, <4>1, <4>2, <4>3, CallsInAppend, OnceAppend
    <3>2. CASE got.kind = "session"
      <4>1. \/ buffer' = buffer
            \/ buffer' = Append(buffer, [kind |-> "session", spans |-> span])
        BY <1>5, <3>2 DEF WorkerHandle
      <4>2. Taken = {}
        BY <3>2 DEF Taken, IsCall
      <4>3. CASE buffer' = buffer
        BY <4>2, <4>3
      <4>4. CASE buffer' = Append(buffer, [kind |-> "session", spans |-> span])
        <5> DEFINE r == [kind |-> "session", spans |-> span]
        <5>1. r \in Records /\ ~IsCall(r)
          BY RecordKinds DEF TypeInv, TypeOK, IsCall
        <5> HIDE DEF r
        <5>2. file \o buffer' = Append(file \o buffer, r)
          BY <1>0, <4>4, <5>1, ConcatAppend DEF r
        <5> QED BY <1>0, <4>2, <4>4, <5>1, <5>2, CallsInAppend, OnceAppend DEF r
      <4> QED BY <4>1, <4>3, <4>4
    <3>3. CASE got.kind = "call"
      <4>1. buffer' = Append(WithLane, got) /\ got \in CallItems
        BY <1>5, <3>3, KindsDiffer DEF WorkerHandle, TypeInv, HandOK
      <4>2. got \in Records /\ IsCall(got) /\ Taken = {got.call} /\ WithLane \in Seq(Records)
        BY <1>0, <3>3, <4>1, RecordKinds, WithLaneType DEF Taken, IsCall
      <4>3. file \o buffer' = Append(file \o WithLane, got) /\ file \o WithLane \in Seq(Records)
        BY <1>0, <4>1, <4>2, ConcatAppend
      <4>4. CallsIn(file \o WithLane) = CallsIn(file) \cup CallsIn(buffer)
        BY <1>0, <4>2, CallsInConcat, WithLaneCalls
      <4>5. got.call \notin CallsIn(file \o WithLane)
        BY <4>2, <4>4 DEF Fates, Apart
      <4>6. Once(file \o buffer')
        BY <1>0, <4>2, <4>3, <4>5, OnceAppend, WithLaneCalls
      <4>7. CallsIn(buffer') = CallsIn(buffer) \cup Taken
        BY <1>0, <4>1, <4>2, CallsInAppend, WithLaneCalls
      <4> QED BY <4>6, <4>7
    <3> QED BY <1>5, <3>1, <3>2, <3>3, KindsDiffer DEF WorkerHandle, TypeInv, HandOK
  <2>4. Fates'
    <3>1. Apart(HeldCalls, CallsIn(queue), {}, CallsIn(buffer) \cup Taken, CallsIn(file),
                lost, torn, abandoned \cup raised, n)
      BY <1>0, ApartMoves DEF Fates
    <3> QED BY <1>1, <1>2, <1>3, <2>1, <2>2, <2>3, <3>1 DEF Fates
  <2> QED BY <1>2, <1>3, <2>1, <2>3, <2>4
<1>6. CASE WorkerHandleFails
  <2>1. /\ got' = None /\ UNCHANGED <<queue, file, torn>> /\ lost' = lost \cup Taken
        /\ (buffer' = buffer \/ buffer' = WithLane)
    BY <1>6 DEF WorkerHandleFails, Drop, Taken
  <2>2. Taken' = {}
    BY <2>1 DEF Taken, IsCall, None
  <2>3. CallsIn(buffer') = CallsIn(buffer) /\ Once(file \o buffer')
    BY <1>0, <2>1, WithLaneCalls
  <2>4. Fates'
    <3>1. Apart(HeldCalls, CallsIn(queue), {}, CallsIn(buffer), CallsIn(file),
                lost \cup Taken, torn, abandoned \cup raised, n)
      BY <1>0, ApartMoves DEF Fates
    <3> QED BY <1>1, <1>2, <1>3, <2>1, <2>2, <2>3, <3>1 DEF Fates
  <2> QED BY <1>2, <1>3, <2>1, <2>3, <2>4
<1>7. ASSUME file' = file \o buffer, buffer' = <<>>, UNCHANGED <<queue, lost, torn>>, Taken' = Taken
      PROVE  Fates' /\ EndsApart' /\ HeldApart' /\ Once(queue)' /\ Once(file \o buffer)'
  <2>1. CallsIn(file') = CallsIn(file) \cup CallsIn(buffer) /\ CallsIn(buffer') = {}
    BY <1>0, <1>7, CallsInConcat, CallsInEmpty
  <2>2. file' \o buffer' = file \o buffer
    BY <1>0, <1>7
  <2>3. Apart(HeldCalls, CallsIn(queue), Taken, {}, CallsIn(file) \cup CallsIn(buffer),
              lost, torn, abandoned \cup raised, n)
    BY <1>0, ApartMoves DEF Fates
  <2>4. Fates'
    BY <1>1, <1>2, <1>3, <1>7, <2>1, <2>3 DEF Fates
  <2> QED BY <1>2, <1>3, <1>7, <2>2, <2>4
<1>8. CASE WorkerFlush
  <2>1. Taken' = Taken /\ UNCHANGED <<queue, lost, torn>>
    BY <1>8 DEF WorkerFlush, NoDrop, Taken, IsCall
  <2>2. CASE file' = file \o buffer /\ buffer' = <<>>
    BY <1>7, <2>1, <2>2
  <2>3. CASE UNCHANGED <<file, buffer>>
    <3>1. Fates'
      BY <1>1, <1>2, <1>3, <2>1, <2>3 DEF Fates
    <3> QED BY <1>2, <1>3, <2>1, <2>3, <3>1
  <2> QED BY <1>8, <2>2, <2>3 DEF WorkerFlush
<1>9. CASE WorkerFinish
  <2>1. Taken = {} /\ Taken' = {} /\ queue' = queue /\ buffer' = <<>>
    BY <1>9 DEF WorkerFinish, Taken, IsCall, None, Stop, ThreadsOK
  <2>2. CASE file' = file \o buffer /\ lost' = lost /\ torn' = torn
    BY <1>7, <2>1, <2>2
  <2>3. CASE file' = file /\ lost' = lost /\ torn' = torn \cup CallsIn(buffer)
    <3>1. CallsIn(buffer') = {} /\ file' \o buffer' = file
      BY <1>0, <2>1, <2>3, CallsInEmpty
    <3>2. Once(file)
      <4> DEFINE a == file \o buffer
      <4>1. DOMAIN file \subseteq DOMAIN a /\ \A i \in DOMAIN file : a[i] = file[i]
        BY <1>0
      <4>2. Once(a)
        OBVIOUS
      <4> HIDE DEF a, FateInv
      <4> QED BY <4>1, <4>2 DEF Once
    <3>3. Fates'
      <4>1. Apart(HeldCalls, CallsIn(queue), Taken, {}, CallsIn(file),
                  lost, torn \cup CallsIn(buffer), abandoned \cup raised, n)
        BY <1>0, ApartMoves DEF Fates
      <4> QED BY <1>1, <1>2, <1>3, <2>1, <2>3, <3>1, <4>1 DEF Fates
    <3> QED BY <1>2, <1>3, <2>1, <3>1, <3>2, <3>3
  <2> QED BY <1>9, <2>2, <2>3 DEF WorkerFinish, NoDrop, Drop, None, IsCall
<1> QED BY <1>4, <1>5, <1>6, <1>8, <1>9 DEF Worker

\* close() puts no call into the queue and takes none out.
LEMMA CloserFate ==
  ASSUME FateInv, (\E k \in Closers : Closer(k)) \/ UNCHANGED vars
  PROVE  Fates' /\ EndsApart' /\ HeldApart' /\ Once(queue)' /\ Once(file \o buffer)'
<1> USE DEF FateInv
<1>0. queue \in Seq(Items)
  BY DEF TypeInv, TypeOK
<1>1. UNCHANGED <<n, cpc, hand, recorded, got, buffer, file, torn, abandoned, raised>>
  BY DEF Closer, CloseRest, CloseCheck, CloseSet, ClosePut, ClosePutTimeout, CloseJoin,
         appVars, workVars, vars
<1>2. lost' = lost
  BY DEF Closer, CloseRest, CloseCheck, CloseSet, ClosePut, ClosePutTimeout, CloseJoin,
         NoDrop, Drop, None, IsCall, vars
<1>3. HeldCalls' = HeldCalls /\ HeldApart' /\ EndsApart'
  BY <1>1, HeldSame DEF EndsApart
<1>4. queue' \in {queue, Append(queue, Session), Append(queue, Stop)}
  BY DEF Closer, CloseRest, CloseCheck, CloseSet, ClosePut, ClosePutTimeout, CloseJoin, vars
<1>5. Session \in Items /\ Stop \in Items /\ ~IsCall(Session) /\ ~IsCall(Stop)
  BY ItemKinds, KindsDiffer DEF IsCall
<1>6. CallsIn(queue') = CallsIn(queue) /\ Once(queue')
  <2>1. CallsIn(Append(queue, Session)) = CallsIn(queue) /\ Once(Append(queue, Session))
    BY <1>0, <1>5, AppendOther
  <2>2. CallsIn(Append(queue, Stop)) = CallsIn(queue) /\ Once(Append(queue, Stop))
    BY <1>0, <1>5, AppendOther
  <2> QED BY <1>4, <2>1, <2>2
<1>7. /\ CallsIn(queue)' = CallsIn(queue') /\ CallsIn(buffer)' = CallsIn(buffer)
      /\ CallsIn(file)' = CallsIn(file) /\ Once(queue)' = Once(queue') /\ Taken' = Taken
      /\ Once(file \o buffer)' = Once(file \o buffer)
  BY <1>1 DEF CallsIn, Once, IsCall, Taken
<1>8. Fates'
  BY <1>1, <1>2, <1>3, <1>6, <1>7 DEF Fates
<1> QED BY <1>3, <1>6, <1>7, <1>8

LEMMA FateInit == Init => FateInv
<1> SUFFICES ASSUME Init PROVE FateInv
  OBVIOUS
<1>1. TypeInv /\ ThreadsOK
  BY TypeInit DEF Init, ThreadsOK
<1>2. \A t \in Callers : Held(t) = {}
  BY DEF Init, Held, IsCall, None
<1>3. HeldCalls = {} /\ HeldApart
  BY <1>2 DEF HeldCalls, HeldApart
<1>4. CallsIn(queue) = {} /\ CallsIn(buffer) = {} /\ CallsIn(file) = {} /\ Once(queue)
  BY CallsInEmpty DEF Init
<1>5. Taken = {} /\ lost = {} /\ torn = {} /\ abandoned = {} /\ raised = {} /\ n = 0
  BY DEF Init, Taken, IsCall, None
<1>6. file \o buffer = <<>>
  BY DEF Init
<1>7. Fates
  BY <1>3, <1>4, <1>5 DEF Fates, Apart
<1>8. EndsApart
  BY <1>5 DEF EndsApart
<1> QED BY <1>1, <1>3, <1>4, <1>6, <1>7, <1>8, CallsInEmpty DEF FateInv

LEMMA FateStep == FateInv /\ [Next]_vars => FateInv'
<1> SUFFICES ASSUME FateInv, [Next]_vars PROVE FateInv'
  OBVIOUS
<1>1. TypeInv' /\ ThreadsOK'
  BY TypeStep, ThreadsStep DEF FateInv
<1>2. Fates' /\ EndsApart' /\ HeldApart' /\ Once(queue)' /\ Once(file \o buffer)'
  BY CallerFate, PutFate, WorkerFate, CloserFate DEF Next
<1> QED BY <1>1, <1>2 DEF FateInv

LEMMA FateHolds == Spec => []FateInv
BY FateInit, FateStep, PTL DEF Spec

\* Every call that was numbered has exactly one fate, for every number of threads that
\* call, stream and close at the same time, every queue size and every failure.
THEOREM CallsHaveOneFate == Spec => []OneFate
BY FateHolds, FateInvOneFate, PTL

-----------------------------------------------------------------------------
(* The counter *)

LEMMA CallsFinite == \A S \in SUBSET Calls : IsFiniteSet(S) /\ Cardinality(S) \in Nat
<1>1. IsFiniteSet(Calls)
  BY MaxCallsAssumption, FS_Interval DEF Calls
<1> QED BY <1>1, FS_Subset, FS_CardinalityType

\* One drop counts one call at most.
LEMMA DropCounts ==
  ASSUME TypeInv, NEW item, Drop(item)
  PROVE  dropped' = dropped + 1 /\ Cardinality(lost') <= Cardinality(lost) + 1
<1>1. IsFiniteSet(lost) /\ Cardinality(lost) \in Nat
  BY CallsFinite DEF TypeInv, TypeOK
<1>2. lost' = lost \/ lost' = lost \cup {item.call}
  BY DEF Drop
<1>3. Cardinality(lost \cup {item.call}) <= Cardinality(lost) + 1
  <2>1. \/ Cardinality(lost \cup {item.call}) = Cardinality(lost)
        \/ Cardinality(lost \cup {item.call}) = Cardinality(lost) + 1
    BY <1>1, FS_AddElement, Zenon
  <2> QED BY <1>1, <2>1
<1> QED BY <1>1, <1>2, <1>3 DEF Drop

LEMMA CountStep ==
  ASSUME TypeInv, ThreadsOK, DropsAreCounted, [Next]_vars
  PROVE  DropsAreCounted'
<1>1. TypeInv' /\ ThreadsOK'
  BY TypeStep, ThreadsStep
<1>2. /\ dropped \in Nat /\ dropped' \in Nat
      /\ Cardinality(lost) \in Nat /\ Cardinality(lost') \in Nat
  BY <1>1, CallsFinite DEF TypeInv, TypeOK
<1>3. \/ dropped' = dropped /\ lost' = lost
      \/ dropped' = dropped + 1 /\ Cardinality(lost') <= Cardinality(lost) + 1
  <2>1. \/ NoDrop
        \/ \E item : Drop(item)
    <3>1. CASE \E t \in Callers : Caller(t)
      BY <3>1 DEF Caller, StreamStep, Unseen, EnqueueStep, Wrap, NoteInvisible, Begin, BeginFails,
                  Return, ReturnFails, ReturnStream, RecordStream, RecordStreamFails, LeaveStream,
                  NeverEntered, RaisesUnseen, CheckClosed, PutNowait
    <3>2. CASE Worker
      BY <3>2 DEF Worker, WorkerGet, WorkerHandle, WorkerHandleFails, WorkerFlush, WorkerFinish
    <3>3. CASE (\E k \in Closers : Closer(k)) \/ UNCHANGED vars
      BY <3>3 DEF Closer, CloseRest, CloseCheck, CloseSet, ClosePut, ClosePutTimeout, CloseJoin,
                  NoDrop, vars
    <3> QED BY <3>1, <3>2, <3>3 DEF Next
  <2> QED BY <2>1, DropCounts DEF NoDrop
<1>4. CASE torn' = torn
  BY <1>2, <1>3, <1>4 DEF DropsAreCounted
<1>5. CASE torn' # torn
  <2>1. torn = {} /\ dropped' = dropped + 1 /\ lost' = lost
    <3>1. CASE \E t \in Callers : Caller(t)
      BY <1>5, <3>1 DEF Caller, StreamStep, Unseen, EnqueueStep, Wrap, NoteInvisible, Begin,
                        BeginFails, Return, ReturnFails, ReturnStream, RecordStream,
                        RecordStreamFails, LeaveStream, NeverEntered, RaisesUnseen, CheckClosed,
                        PutNowait, workVars
    <3>2. CASE Worker
      BY <1>5, <3>2 DEF Worker, WorkerGet, WorkerHandle, WorkerHandleFails, WorkerFlush,
                        WorkerFinish, ThreadsOK, Drop, None, IsCall
    <3>3. CASE (\E k \in Closers : Closer(k)) \/ UNCHANGED vars
      BY <1>5, <3>3 DEF Closer, CloseRest, CloseCheck, CloseSet, ClosePut, ClosePutTimeout,
                        CloseJoin, vars, workVars
    <3> QED BY <3>1, <3>2, <3>3 DEF Next
  <2> QED BY <1>2, <2>1 DEF DropsAreCounted
<1> QED BY <1>4, <1>5

LEMMA CountInit == Init => DropsAreCounted
BY FS_EmptySet DEF Init, DropsAreCounted

\* The counter of _drop covers every call that was dropped and a failed close, for every
\* number of threads that drop at the same time.
THEOREM DropsCount == Spec => []DropsAreCounted
<1>1. FateInv /\ DropsAreCounted /\ [Next]_vars => (FateInv /\ DropsAreCounted)'
  BY FateStep, CountStep DEF FateInv
<1> QED BY <1>1, FateInit, CountInit, PTL DEF Spec

-----------------------------------------------------------------------------
(* A recorder that is closed last *)

Closing == \E k \in Closers : kpc[k] # "start"
IsEnd(item) == item.kind \in {"session", "stop"}
EndsIn(s) == \E i \in DOMAIN s : IsEnd(s[i])

\* The worker has seen a session record or a stop marker.
Sealed ==
  \/ wpc \in {"finish", "done"}
  \/ IsEnd(got)
  \/ EndsIn(file \o buffer)

\* When close() is called after the last call, no call is behind its session record or
\* its stop marker, in the queue or beyond.
ClosedLast ==
  /\ Closing => \A t \in Callers : cpc[t] \in {"new", "idle"}
  /\ Sealed => Closing /\ CallsIn(queue) = {} /\ ~IsCall(got)
  /\ \A i \in DOMAIN queue : IsEnd(queue[i]) =>
       Closing /\ \A j \in DOMAIN queue : i < j => ~IsCall(queue[j])
  /\ CallsIn(file \o buffer) \subseteq span
CloseInv == FateInv /\ ClosedLast /\ SessionSpansFile

\* Every session record of s spans the calls of s.
Spans(s) == \A i \in DOMAIN s : s[i].kind = "session" => CallsIn(s) \subseteq s[i].spans

LEMMA EndsAppend ==
  ASSUME NEW S, NEW s \in Seq(S), NEW e \in S
  PROVE  /\ EndsIn(Append(s, e)) => EndsIn(s) \/ IsEnd(e)
         /\ Spans(s) /\ (e.kind = "session" => CallsIn(s) \subseteq e.spans)
              /\ (IsCall(e) => ~EndsIn(s)) => Spans(Append(s, e))
<1> DEFINE a == Append(s, e)
<1>1. /\ DOMAIN a = 1..Len(s) + 1 /\ DOMAIN s = 1..Len(s) /\ Len(s) \in Nat
      /\ a[Len(s) + 1] = e /\ \A i \in DOMAIN s : a[i] = s[i]
  OBVIOUS
<1>2. CallsIn(a) = CallsIn(s) \cup (IF IsCall(e) THEN {e.call} ELSE {})
  BY CallsInAppend
<1> HIDE DEF a
<1>3. \A i \in DOMAIN a : i \in DOMAIN s \/ i = Len(s) + 1
  BY <1>1
<1>4. EndsIn(a) => EndsIn(s) \/ IsEnd(e)
  BY <1>1, <1>3 DEF EndsIn
<1>5. ASSUME Spans(s), e.kind = "session" => CallsIn(s) \subseteq e.spans,
             IsCall(e) => ~EndsIn(s)
      PROVE  Spans(a)
  <2> SUFFICES ASSUME NEW i \in DOMAIN a, a[i].kind = "session" PROVE CallsIn(a) \subseteq a[i].spans
    BY DEF Spans
  <2>1. CASE i \in DOMAIN s
    <3>1. ~IsCall(e)
      BY <1>1, <1>5, <2>1 DEF EndsIn, IsEnd
    <3> QED BY <1>1, <1>2, <1>5, <2>1, <3>1 DEF Spans
  <2>2. CASE i = Len(s) + 1
    BY <1>1, <1>2, <1>5, <2>2 DEF IsCall
  <2> QED BY <1>3, <2>1, <2>2
<1> QED BY <1>4, <1>5 DEF a

\* The lane record changes neither.
LEMMA WithLaneEnds ==
  ASSUME buffer \in Seq(Records), file \in Seq(Records)
  PROVE  /\ EndsIn(file \o WithLane) => EndsIn(file \o buffer)
         /\ Spans(file \o buffer) => Spans(file \o WithLane)
         /\ CallsIn(file \o WithLane) = CallsIn(file \o buffer)
<1>1. CASE WithLane = buffer
  BY <1>1
<1>2. CASE WithLane = Append(buffer, Lane)
  <2>1. Lane \in Records /\ ~IsCall(Lane) /\ ~IsEnd(Lane) /\ Lane.kind # "session"
    BY RecordKinds, KindsDiffer DEF IsCall, IsEnd
  <2>2. file \o WithLane = Append(file \o buffer, Lane) /\ file \o buffer \in Seq(Records)
    BY <1>2, <2>1, ConcatAppend
  <2> DEFINE all == file \o buffer
  <2> HIDE DEF all
  <2>3. CallsIn(Append(all, Lane)) = CallsIn(all)
    <3>1. CallsIn(Append(all, Lane)) = CallsIn(all) \cup (IF IsCall(Lane) THEN {Lane.call} ELSE {})
      BY <2>1, <2>2, CallsInAppend DEF all
    <3> QED BY <2>1, <3>1
  <2>4. /\ EndsIn(Append(all, Lane)) => EndsIn(all)
        /\ Spans(all) => Spans(Append(all, Lane))
    BY <2>1, <2>2, EndsAppend DEF all
  <2> QED BY <2>2, <2>3, <2>4 DEF all
<1> QED BY <1>1, <1>2 DEF WithLane

LEMMA SessionIsSpans == SessionSpansFile <=> Spans(file \o buffer)
BY DEF SessionSpansFile, Spans

\* While close() is at work no caller is.
LEMMA NoCallerWhenClosing ==
  ASSUME Orderly, CloseInv, NEW t \in Callers, Caller(t)
  PROVE  ~Closing /\ ~Sealed /\ ~EndsIn(queue)
<1>1. ~Closing
  BY DEF CloseInv, ClosedLast, Closing, Caller, StreamStep, Unseen, EnqueueStep, MayCall, Wrap,
         NoteInvisible, Begin, BeginFails, Return, ReturnFails, ReturnStream, RecordStream,
         RecordStreamFails, LeaveStream, NeverEntered, RaisesUnseen, CheckClosed, PutNowait
<1> QED BY <1>1 DEF CloseInv, ClosedLast, EndsIn

LEMMA CallerClose ==
  ASSUME Orderly, CloseInv, NEW t \in Callers, Caller(t)
  PROVE  ClosedLast' /\ SessionSpansFile'
<1>1. ~Closing /\ ~Sealed /\ ~EndsIn(queue)
  BY NoCallerWhenClosing
<1>2. /\ UNCHANGED <<got, buffer, file, span, kpc>>
      /\ (wpc' = wpc \/ (wpc = "none" /\ wpc' = "get"))
      /\ (queue' = queue \/ (PutNowait(t) /\ queue' = Append(queue, hand[t])))
  BY DEF Caller, StreamStep, Unseen, EnqueueStep, Wrap, NoteInvisible, Begin, BeginFails, Return,
         ReturnFails, ReturnStream, RecordStream, RecordStreamFails, LeaveStream, NeverEntered,
         RaisesUnseen, CheckClosed, PutNowait, workVars, EnsureThread
<1>3. ~Closing' /\ ~Sealed'
  BY <1>1, <1>2 DEF Closing, Sealed, EndsIn, IsEnd
<1>4. ~EndsIn(queue')
  <2>1. CASE queue' = queue
    BY <1>1, <2>1
  <2>2. CASE PutNowait(t) /\ queue' = Append(queue, hand[t])
    <3>1. hand[t] \in Items /\ ~IsEnd(hand[t]) /\ queue \in Seq(Items)
      BY <2>2, ItemKinds, KindsDiffer
         DEF CloseInv, FateInv, TypeInv, TypeOK, HandOK, PutNowait, IsEnd
    <3> QED BY <1>1, <2>2, <3>1, EndsAppend
  <2> QED BY <1>2, <2>1, <2>2
<1>5. CallsIn(file \o buffer)' \subseteq span' /\ SessionSpansFile'
  BY <1>2 DEF CloseInv, ClosedLast, SessionSpansFile, CallsIn, IsCall
<1> QED BY <1>3, <1>4, <1>5 DEF ClosedLast, EndsIn, IsEnd

\* Taking the head of the queue: an end has no call behind it.
LEMMA GetClose ==
  ASSUME CloseInv, WorkerGet
  PROVE  ClosedLast' /\ SessionSpansFile'
<1>0. queue \in Seq(Items) /\ queue # <<>>
  BY DEF CloseInv, FateInv, TypeInv, TypeOK, WorkerGet
<1>1. /\ got' = Head(queue) /\ queue' = Tail(queue)
      /\ wpc' = (IF Head(queue) = Stop THEN "finish" ELSE "handle")
      /\ wpc = "get" /\ got = None /\ UNCHANGED <<buffer, file, span, kpc, cpc>>
  BY DEF WorkerGet, CloseInv, FateInv, ThreadsOK, appVars
<1>2. /\ DOMAIN queue' = 1..Len(queue) - 1 /\ DOMAIN queue = 1..Len(queue) /\ Len(queue) \in Nat
      /\ 1 \in DOMAIN queue /\ Head(queue) = queue[1]
      /\ \A i \in DOMAIN queue' : i + 1 \in DOMAIN queue /\ queue'[i] = queue[i + 1]
  BY <1>0, <1>1
<1>3. Closing' = Closing
  BY <1>1 DEF Closing
<1>4. \A i \in DOMAIN queue' : IsEnd(queue'[i]) =>
        Closing' /\ \A j \in DOMAIN queue' : i < j => ~IsCall(queue'[j])
  <2> SUFFICES ASSUME NEW i \in DOMAIN queue', IsEnd(queue'[i])
               PROVE  Closing /\ \A j \in DOMAIN queue' : i < j => ~IsCall(queue'[j])
    BY <1>3
  <2>1. Closing /\ \A j \in DOMAIN queue : i + 1 < j => ~IsCall(queue[j])
    BY <1>2 DEF CloseInv, ClosedLast
  <2>2. \A j \in DOMAIN queue' : i < j => i + 1 < j + 1
    BY <1>2
  <2> QED BY <1>2, <2>1, <2>2
<1>5. ASSUME Sealed' PROVE Closing /\ CallsIn(queue') = {} /\ ~IsCall(got')
  <2>1. CASE IsEnd(Head(queue))
    <3>1. Closing /\ \A j \in DOMAIN queue : 1 < j => ~IsCall(queue[j])
      BY <1>2, <2>1 DEF CloseInv, ClosedLast
    <3>2. \A j \in DOMAIN queue' : 1 < j + 1
      BY <1>2
    <3>3. CallsIn(queue') = {}
      BY <1>2, <3>1, <3>2 DEF CallsIn
    <3> QED BY <1>1, <2>1, <3>1, <3>3 DEF IsEnd, IsCall
  <2>2. CASE ~IsEnd(Head(queue))
    <3>1. EndsIn(file \o buffer)
      BY <1>1, <1>5, <2>2, KindsDiffer DEF Sealed, EndsIn, IsEnd
    <3>2. Closing /\ CallsIn(queue) = {}
      BY <3>1 DEF Sealed, CloseInv, ClosedLast
    <3>3. CallsIn(Tail(queue)) = {} /\ ~IsCall(Head(queue))
      <4>1. CallsIn(queue) = CallsIn(Tail(queue))
                               \cup (IF IsCall(Head(queue)) THEN {Head(queue).call} ELSE {})
        BY <1>0, CallsInTail
      <4> QED BY <3>2, <4>1
    <3> QED BY <1>1, <3>2, <3>3
  <2> QED BY <2>1, <2>2
<1>6. CallsIn(file \o buffer)' \subseteq span' /\ SessionSpansFile'
  BY <1>1 DEF CloseInv, ClosedLast, SessionSpansFile, CallsIn, IsCall
<1>7. Closing' => \A t \in Callers : cpc'[t] \in {"new", "idle"}
  BY <1>1, <1>3 DEF CloseInv, ClosedLast
<1> QED BY <1>3, <1>4, <1>5, <1>6, <1>7 DEF ClosedLast, CallsIn, IsCall, IsEnd

\* Writing: what the file may gain, given what the worker holds.
LEMMA WriteClose ==
  ASSUME CloseInv, UNCHANGED <<queue, kpc, cpc>>, ~IsCall(got'), ~IsEnd(got'),
         wpc' \in {"finish", "done"} => Sealed,
         EndsIn(file' \o buffer') => Sealed,
         CallsIn(file' \o buffer') \subseteq span',
         Spans(file' \o buffer')
  PROVE  ClosedLast' /\ SessionSpansFile'
<1>1. Closing' = Closing
  BY DEF Closing
<1>2. Sealed' => Sealed
  BY DEF Sealed, EndsIn, IsEnd
<1>3. SessionSpansFile'
  BY DEF Spans, SessionSpansFile, CallsIn, IsCall
<1> QED BY <1>1, <1>2, <1>3 DEF CloseInv, ClosedLast, CallsIn, IsCall, IsEnd

LEMMA HandleClose ==
  ASSUME CloseInv, WorkerHandle
  PROVE  ClosedLast' /\ SessionSpansFile'
<1> DEFINE all == file \o buffer
<1>0. /\ buffer \in Seq(Records) /\ file \in Seq(Records) /\ all \in Seq(Records)
      /\ got \in CallItems \cup {Note, Session} /\ span \in SUBSET Calls
  BY DEF CloseInv, FateInv, TypeInv, TypeOK, HandOK, WorkerHandle
<1>1. /\ UNCHANGED <<queue, kpc, cpc, file>> /\ got' = None /\ wpc' = "flush"
  BY DEF WorkerHandle, appVars
<1>2. ~IsCall(got') /\ ~IsEnd(got')
  BY <1>1, KindsDiffer DEF IsCall, IsEnd
<1>3. Spans(all) /\ CallsIn(all) \subseteq span /\ (IsCall(got) => ~EndsIn(all))
  BY SessionIsSpans DEF CloseInv, ClosedLast, Sealed
<1>4. /\ EndsIn(file' \o buffer') => EndsIn(all) \/ IsEnd(got)
      /\ CallsIn(file' \o buffer') \subseteq span'
      /\ Spans(file' \o buffer')
  <2>1. CASE got.kind = "note"
    <3>1. /\ buffer' = Append(buffer, Note) /\ span' = span
          /\ Note \in Records /\ ~IsCall(Note) /\ ~IsEnd(Note) /\ Note.kind # "session"
      BY <2>1, RecordKinds, KindsDiffer DEF WorkerHandle, IsCall, IsEnd
    <3>2. file' \o buffer' = Append(all, Note)
      BY <1>0, <1>1, <3>1, ConcatAppend
    <3> HIDE DEF all
    <3> QED BY <1>0, <1>3, <3>1, <3>2, EndsAppend, CallsInAppend
  <2>2. CASE got.kind = "session"
    <3> DEFINE r == [kind |-> "session", spans |-> span]
    <3>1. span' = span /\ buffer' \in {buffer, Append(buffer, r)} /\ IsEnd(got)
      BY <2>2 DEF WorkerHandle, IsEnd
    <3>2. r \in Records /\ ~IsCall(r) /\ r.spans = span
      BY <1>0, RecordKinds DEF IsCall
    <3> HIDE DEF r
    <3>3. CASE buffer' = buffer
      BY <1>1, <1>3, <3>1, <3>3
    <3>4. CASE buffer' = Append(buffer, r)
      <4>1. file' \o buffer' = Append(all, r)
        BY <1>0, <1>1, <3>2, <3>4, ConcatAppend
      <4> HIDE DEF all
      <4>2. CallsIn(Append(all, r)) = CallsIn(all)
        <5>1. CallsIn(Append(all, r)) = CallsIn(all) \cup (IF IsCall(r) THEN {r.call} ELSE {})
          BY <1>0, <3>2, CallsInAppend
        <5> QED BY <3>2, <5>1
      <4>3. Spans(Append(all, r))
        BY <1>0, <1>3, <3>2, EndsAppend
      <4> QED BY <1>3, <3>1, <4>1, <4>2, <4>3
    <3> QED BY <3>1, <3>3, <3>4
  <2>3. CASE got.kind = "call"
    <3>1. buffer' = Append(WithLane, got) /\ span' = span \cup {got.call}
      BY <2>3 DEF WorkerHandle
    <3>2. got \in Records /\ IsCall(got) /\ ~IsEnd(got) /\ WithLane \in Seq(Records)
      BY <1>0, <2>3, RecordKinds, KindsDiffer, WithLaneType DEF IsCall, IsEnd
    <3> DEFINE before == file \o WithLane
    <3>3. file' \o buffer' = Append(before, got) /\ before \in Seq(Records)
      BY <1>0, <1>1, <3>1, <3>2, ConcatAppend
    <3>4. /\ EndsIn(before) => EndsIn(all)
          /\ Spans(before)
          /\ CallsIn(before) = CallsIn(all)
      BY <1>0, <1>3, WithLaneEnds
    <3> HIDE DEF all, before
    <3>5. CallsIn(Append(before, got)) = CallsIn(before) \cup {got.call}
      <4>1. CallsIn(Append(before, got))
              = CallsIn(before) \cup (IF IsCall(got) THEN {got.call} ELSE {})
        BY <3>2, <3>3, CallsInAppend
      <4> QED BY <3>2, <4>1
    <3>6. ~EndsIn(before)
      BY <1>3, <3>2, <3>4
    <3>7. ~EndsIn(Append(before, got)) /\ Spans(Append(before, got))
      <4>1. got.kind # "session"
        BY <2>3
      <4> QED BY <3>2, <3>3, <3>4, <3>6, <4>1, EndsAppend
    <3> QED BY <1>3, <3>1, <3>3, <3>4, <3>5, <3>7
  <2> QED BY <1>0, <2>1, <2>2, <2>3, KindsDiffer
<1>5. EndsIn(file' \o buffer') => Sealed
  BY <1>4 DEF Sealed
<1> QED BY <1>1, <1>2, <1>4, <1>5, WriteClose

LEMMA WorkerClose ==
  ASSUME CloseInv, Worker
  PROVE  ClosedLast' /\ SessionSpansFile'
<1> DEFINE all == file \o buffer
<1>0. /\ buffer \in Seq(Records) /\ file \in Seq(Records) /\ all \in Seq(Records)
  BY DEF CloseInv, FateInv, TypeInv, TypeOK
<1>1. Spans(all) /\ CallsIn(all) \subseteq span
  BY SessionIsSpans DEF CloseInv, ClosedLast
<1>2. ~IsCall(None) /\ ~IsEnd(None)
  BY KindsDiffer DEF IsCall, IsEnd
<1>3. CASE WorkerHandleFails
  <2>1. /\ UNCHANGED <<queue, kpc, cpc, file, span>> /\ got' = None /\ wpc' = "flush"
        /\ buffer' \in {buffer, WithLane}
    BY <1>3 DEF WorkerHandleFails, appVars
  <2>2. /\ EndsIn(file' \o buffer') => EndsIn(all)
        /\ CallsIn(file' \o buffer') = CallsIn(all) /\ Spans(file' \o buffer')
    BY <1>0, <1>1, <2>1, WithLaneEnds
  <2> QED BY <1>1, <1>2, <2>1, <2>2, WriteClose DEF Sealed
<1>4. CASE WorkerFlush
  <2>1. /\ UNCHANGED <<queue, kpc, cpc, span, got>> /\ wpc = "flush" /\ wpc' = "get"
        /\ got = None
        /\ \/ file' = all /\ buffer' = <<>>
           \/ file' = file /\ buffer' = buffer
    BY <1>4 DEF WorkerFlush, appVars, CloseInv, FateInv, ThreadsOK
  <2>2. file' \o buffer' = all
    <3>1. CASE file' = all /\ buffer' = <<>>
      BY <1>0, <3>1
    <3>2. CASE file' = file /\ buffer' = buffer
      BY <3>2
    <3> QED BY <2>1, <3>1, <3>2
  <2> QED BY <1>1, <1>2, <2>1, <2>2, WriteClose DEF Sealed
<1>5. CASE WorkerFinish
  <2>1. /\ UNCHANGED <<queue, kpc, cpc, span>> /\ wpc = "finish" /\ got' = None
        /\ buffer' = <<>> /\ file' \in {all, file}
    BY <1>5 DEF WorkerFinish, appVars
  <2>2. file' \o buffer' \in {all, file}
    BY <1>0, <2>1
  <2>3. CallsIn(file) \subseteq CallsIn(all) /\ Spans(file)
    <3>1. CallsIn(file) \subseteq CallsIn(all)
      BY <1>0, CallsInConcat
    <3>2. DOMAIN file \subseteq DOMAIN all /\ \A i \in DOMAIN file : all[i] = file[i]
      BY <1>0
    <3> HIDE DEF all
    <3> QED BY <1>1, <3>1, <3>2 DEF Spans
  <2>4. Sealed
    BY <2>1 DEF Sealed
  <2> HIDE DEF all
  <2> QED BY <1>1, <1>2, <2>1, <2>2, <2>3, <2>4, WriteClose
<1> QED BY <1>3, <1>4, <1>5, GetClose, HandleClose DEF Worker

LEMMA CloserClose ==
  ASSUME Orderly, CloseInv, NEW k \in Closers, Closer(k)
  PROVE  ClosedLast' /\ SessionSpansFile'
<1>0. queue \in Seq(Items) /\ kpc \in [Closers -> CloserStates]
  BY DEF CloseInv, FateInv, TypeInv, TypeOK
<1>1. /\ UNCHANGED <<cpc, got, buffer, file, span>>
      /\ (wpc' = wpc \/ (wpc = "none" /\ wpc' = "get"))
      /\ \/ queue' = queue
         \/ (\E e \in {Session, Stop} : queue' = Append(queue, e))
  BY DEF Closer, CloseRest, CloseCheck, CloseSet, ClosePut, ClosePutTimeout, CloseJoin,
         appVars, workVars, EnsureThread
<1>2. Closing'
  <2>1. kpc'[k] # "start"
    BY <1>0 DEF Closer, CloseRest, CloseCheck, CloseSet, ClosePut, ClosePutTimeout, CloseJoin
  <2> QED BY <2>1 DEF Closing
<1>3. \A t \in Callers : cpc[t] \in {"new", "idle"}
  BY DEF Closer, CloseRest, CloseCheck, CloseSet, ClosePut, ClosePutTimeout, CloseJoin, MayClose,
         CloseInv, ClosedLast, Closing
<1>4. Sealed' => Sealed
  BY <1>1 DEF Sealed, EndsIn, IsEnd
<1>5. /\ CallsIn(queue') = CallsIn(queue)
      /\ \A i, j \in DOMAIN queue' : IsEnd(queue'[i]) /\ i < j => ~IsCall(queue'[j])
  <2>1. CASE queue' = queue
    BY <2>1 DEF CloseInv, ClosedLast
  <2>2. ASSUME NEW e \in {Session, Stop}, queue' = Append(queue, e)
        PROVE  /\ CallsIn(queue') = CallsIn(queue)
               /\ \A i, j \in DOMAIN queue' : IsEnd(queue'[i]) /\ i < j => ~IsCall(queue'[j])
    <3>1. e \in Items /\ ~IsCall(e)
      BY ItemKinds, KindsDiffer DEF IsCall
    <3>2. CallsIn(Append(queue, e)) = CallsIn(queue)
      <4>1. CallsIn(Append(queue, e)) = CallsIn(queue) \cup (IF IsCall(e) THEN {e.call} ELSE {})
        BY <1>0, <3>1, CallsInAppend
      <4> QED BY <3>1, <4>1
    <3>3. /\ DOMAIN queue' = 1..Len(queue) + 1 /\ DOMAIN queue = 1..Len(queue) /\ Len(queue) \in Nat
          /\ queue'[Len(queue) + 1] = e /\ \A i \in DOMAIN queue : queue'[i] = queue[i]
      BY <1>0, <2>2
    <3>4. ASSUME NEW i \in DOMAIN queue', NEW j \in DOMAIN queue', IsEnd(queue'[i]), i < j
          PROVE  ~IsCall(queue'[j])
      <4>1. CASE j = Len(queue) + 1
        BY <3>1, <3>3, <4>1
      <4>2. CASE j \in DOMAIN queue /\ i \in DOMAIN queue
        BY <3>3, <3>4, <4>2 DEF CloseInv, ClosedLast
      <4> QED BY <3>3, <3>4, <4>1, <4>2
    <3> QED BY <2>2, <3>2, <3>4
  <2> QED BY <1>1, <2>1, <2>2
<1>6. CallsIn(file \o buffer)' \subseteq span' /\ SessionSpansFile'
  BY <1>1 DEF CloseInv, ClosedLast, SessionSpansFile, CallsIn, IsCall
<1> QED BY <1>1, <1>2, <1>3, <1>4, <1>5, <1>6
        DEF CloseInv, ClosedLast, CallsIn, IsCall, IsEnd

LEMMA CloseHolds ==
  ASSUME Orderly
  PROVE  Spec => []CloseInv
<1>1. Init => CloseInv
  <2> SUFFICES ASSUME Init PROVE CloseInv
    OBVIOUS
  <2>1. FateInv
    BY FateInit
  <2>2. file \o buffer = <<>> /\ queue = <<>>
    BY DEF Init
  <2>3. ~Closing /\ ~Sealed
    BY <2>2, KindsDiffer DEF Init, Closing, Sealed, EndsIn, IsEnd
  <2>4. ClosedLast /\ SessionSpansFile
    BY <2>2, <2>3, CallsInEmpty DEF ClosedLast, SessionSpansFile
  <2> QED BY <2>1, <2>4 DEF CloseInv
<1>2. CloseInv /\ [Next]_vars => CloseInv'
  <2> SUFFICES ASSUME CloseInv, [Next]_vars PROVE CloseInv'
    OBVIOUS
  <2>1. FateInv'
    BY FateStep DEF CloseInv
  <2>2. CASE UNCHANGED vars
    <3>1. UNCHANGED <<queue, cpc, kpc, wpc, got, buffer, file, span>>
      BY <2>2 DEF vars
    <3>2. Closing' = Closing /\ Sealed' = Sealed /\ CallsIn(queue)' = CallsIn(queue)
          /\ CallsIn(file \o buffer)' = CallsIn(file \o buffer)
      BY <3>1 DEF Closing, Sealed, EndsIn, IsEnd, CallsIn, IsCall
    <3>3. ClosedLast'
      BY <3>1, <3>2 DEF CloseInv, ClosedLast, IsEnd, IsCall
    <3>4. SessionSpansFile'
      BY <3>1, <3>2 DEF CloseInv, SessionSpansFile
    <3> QED BY <2>1, <3>3, <3>4 DEF CloseInv
  <2>3. (ClosedLast' /\ SessionSpansFile') \/ UNCHANGED vars
    BY CallerClose, WorkerClose, CloserClose DEF Next
  <2> QED BY <2>1, <2>2, <2>3 DEF CloseInv
<1> QED BY <1>1, <1>2, PTL DEF Spec

\* The session record spans every request of the file when the recorder is closed last,
\* also when several threads close it and the disk fails in between.
THEOREM SessionsSpan ==
  ASSUME Orderly
  PROVE  Spec => []SessionSpansFile
<1>1. CloseInv => SessionSpansFile
  BY DEF CloseInv
<1> QED BY <1>1, CloseHolds, PTL

\* A recorder that is closed last and dropped nothing has written every call but those the
\* application abandoned and those that raised outside its handlers: between the hand-over
\* to _enqueue and the disk nothing is lost without a count, for every number of threads
\* and every queue size.
THEOREM NothingDroppedIsComplete ==
  ASSUME Orderly
  PROVE  Spec => []ZeroDroppedMeansComplete
<1>1. CloseInv /\ DropsAreCounted => ZeroDroppedMeansComplete
  <2> SUFFICES ASSUME CloseInv, DropsAreCounted, Quiet, dropped = 0
               PROVE  CallsIn(file) = (1..n) \ (abandoned \cup raised)
    BY DEF ZeroDroppedMeansComplete
  <2>1. lost = {} /\ torn = {}
    <3>1. IsFiniteSet(lost) /\ Cardinality(lost) \in Nat
      BY CallsFinite DEF CloseInv, FateInv, TypeInv, TypeOK
    <3>2. Cardinality(lost) = 0 /\ torn = {}
      BY <3>1 DEF DropsAreCounted
    <3> QED BY <3>1, <3>2, FS_EmptySet
  <2>2. HeldCalls = {}
    BY DEF Quiet, HeldCalls
  <2>3. CallsIn(buffer) = {} /\ Taken = {}
    BY CallsInEmpty DEF Quiet, CloseInv, FateInv, ThreadsOK, Taken, IsCall, None
  <2>4. CallsIn(queue) = {}
    BY DEF Quiet, CloseInv, ClosedLast, Sealed
  <2> QED BY <2>1, <2>2, <2>3, <2>4 DEF CloseInv, FateInv, Fates, Apart
<1> QED BY <1>1, CloseHolds, DropsCount, PTL
=============================================================================
