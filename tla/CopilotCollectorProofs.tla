----------------------- MODULE CopilotCollectorProofs -----------------------
(***************************************************************************)
(* The collector of Copilot CLI sessions loses nothing and counts nothing  *)
(* twice: proofs of TypeOK, QuietMeansDelivered, NothingSkipped and        *)
(* CountedOnce, for every set of sessions and calls.                       *)
(*                                                                         *)
(* The argument has three layers.  Inv says what the CLI leaves of a call  *)
(* (its lines and its row are of one leg, and nothing is in flight in a    *)
(* leg that is closed), what a run has read (each group stands at the line *)
(* that opened it, with the leg of that line) and what each stage of a run *)
(* has yet to do.  HeldInv follows the messages that wait for the end of   *)
(* their leg.  OnceInv says that messages and rows are settled together:   *)
(* a line that was read and is not held has its row behind it.             *)
(*                                                                         *)
(* The steps of the CLI are summed up by Steady, so that a conjunct about  *)
(* a run is proved once for all of them.                                   *)
(***************************************************************************)
EXTENDS CopilotCollector, FiniteSetTheorems, WellFoundedInduction, TLAPS, SequenceTheorems

-----------------------------------------------------------------------------
(* Least elements, and recursive functions *)

\* A set of naturals has a least element.
LEMMA LeastNat ==
  ASSUME NEW S, S \subseteq Nat, S # {}
  PROVE  \E x \in S : \A y \in S : x <= y
<1> DEFINE less == OpToRel(<, Nat)
<1>1. \A x, y \in Nat : <<x, y>> \in less <=> x < y
  BY DEF OpToRel
<1> HIDE DEF less
<1>2. PICK x \in S : \A y \in S : ~(<<y, x>> \in less)
  BY NatLessThanWellFounded, WFMin DEF less
<1>3. \A y \in S : ~(y < x)
  BY <1>1, <1>2
<1> QED BY <1>3

\* Induction over 0..n, for values g[k] in sets S[k].
LEMMA InductionOver ==
  ASSUME NEW n \in Nat, NEW S, NEW g, g[0] \in S[0],
         \A k \in 1..n : g[k - 1] \in S[k - 1] => g[k] \in S[k]
  PROVE  \A k \in 0..n : g[k] \in S[k]
<1> DEFINE Bad == {k \in 0..n : g[k] \notin S[k]}
<1>1. ASSUME Bad # {} PROVE FALSE
  <2>1. PICK k \in Bad : \A j \in Bad : k <= j
    <3>1. Bad \subseteq Nat
      OBVIOUS
    <3> HIDE DEF Bad
    <3> QED BY <1>1, <3>1, LeastNat
  <2>2. k # 0
    BY <2>1
  <2>3. k \in 1..n /\ k - 1 \in 0..n /\ k - 1 \notin Bad
    BY <2>1, <2>2
  <2> QED BY <2>3
<1> QED BY <1>1

\* b is in S[0], and each step of T leads from S[k - 1] to S[k].
StepsThrough(n, S, b, T) ==
  /\ n \in Nat /\ b \in S[0]
  /\ \A k \in 1..n : \A x \in S[k - 1] : T[k][x] \in S[k]

\* Recursion over 0..n: the equation of the recursive function has a solution with
\* values in S.
LEMMA RecursionOver ==
  ASSUME NEW n, NEW S, NEW b, NEW T, StepsThrough(n, S, b, T)
  PROVE  \E g : /\ g = [k \in 0..n |-> IF k = 0 THEN b ELSE T[k][g[k - 1]]]
                /\ \A k \in 0..n : g[k] \in S[k]
<1> DEFINE Solves(g, m) == /\ g = [k \in 0..m |-> g[k]] /\ g[0] = b
                           /\ \A k \in 1..m : g[k] = T[k][g[k - 1]]
           Unsolved == {m \in 0..n : \A g : ~Solves(g, m)}
<1>0. /\ n \in Nat /\ b \in S[0]
      /\ \A k \in 1..n : \A x \in S[k - 1] : T[k][x] \in S[k]
  BY DEF StepsThrough
<1>1. ASSUME Unsolved # {} PROVE FALSE
  <2>1. PICK m \in Unsolved : \A j \in Unsolved : m <= j
    <3>1. Unsolved \subseteq Nat
      BY <1>0
    <3> HIDE DEF Unsolved
    <3> QED BY <1>1, <3>1, LeastNat
  <2>2. Solves([k \in 0..0 |-> b], 0)
    OBVIOUS
  <2>3. m # 0
    <3>1. m \in 0..n /\ \A g : ~Solves(g, m)
      <4> HIDE DEF Solves
      <4> QED OBVIOUS
    <3> HIDE DEF Solves, Unsolved
    <3> QED BY <2>2, <3>1
  <2>4. m - 1 \in 0..n /\ m - 1 \notin Unsolved /\ m \in 1..n
    <3>1. m \in 0..n
      OBVIOUS
    <3>2. m \in 1..n /\ m - 1 \in 0..n /\ ~(m <= m - 1)
      BY <1>0, <2>3, <3>1
    <3> HIDE DEF Unsolved
    <3> QED BY <2>1, <3>2
  <2>5. PICK g : Solves(g, m - 1)
    BY <2>4
  <2> DEFINE h == [k \in 0..m |-> IF k = m THEN T[m][g[m - 1]] ELSE g[k]]
  <2>6. Solves(h, m)
    <3>1. h = [k \in 0..m |-> h[k]]
      OBVIOUS
    <3>2. h[0] = b
      BY <2>4, <2>5
    <3>3. ASSUME NEW k \in 1..m PROVE h[k] = T[k][h[k - 1]]
      <4>1. k - 1 \in 0..m /\ k - 1 # m /\ h[k - 1] = g[k - 1]
        BY <2>4
      <4>2. CASE k = m
        BY <4>1, <4>2
      <4>3. CASE k # m
        <5>1. k \in 1..(m - 1)
          BY <2>4, <4>3
        <5>2. g[k] = T[k][g[k - 1]]
          BY <2>5, <5>1
        <5>3. h[k] = g[k]
          BY <4>3
        <5> QED BY <4>1, <5>2, <5>3
      <4> QED BY <4>2, <4>3
    <3> HIDE DEF h
    <3> QED BY <3>1, <3>2, <3>3
  <2> HIDE DEF h
  <2> QED BY <2>1, <2>6
<1>2. PICK g : Solves(g, n)
  BY <1>0, <1>1
<1>3. \A k \in 0..n : g[k] \in S[k]
  <2>1. g[0] \in S[0]
    BY <1>0, <1>2
  <2>2. \A k \in 1..n : g[k - 1] \in S[k - 1] => g[k] \in S[k]
    BY <1>0, <1>2
  <2> QED BY <1>0, <2>1, <2>2, InductionOver
<1>4. g = [k \in 0..n |-> IF k = 0 THEN b ELSE T[k][g[k - 1]]]
  <2>1. \A k \in 0..n : g[k] = IF k = 0 THEN b ELSE T[k][g[k - 1]]
    BY <1>2
  <2>2. g = [k \in 0..n |-> g[k]]
    BY <1>2
  <2> QED BY <2>1, <2>2
<1> QED BY <1>3, <1>4

-----------------------------------------------------------------------------

LineSet == {Start, Shut, Prompt} \cup {Chunk(c) : c \in Chunked}
           \cup {Message(c) : c \in Calls \ RowOnly}

\* The parser's state, and that of a session store.
Parser == [leg : Nat, shut : BOOLEAN, messages : Seq(Group), open : Seq(Group)]
State == [cursor : [Sessions -> Cursor \cup {NoCursor}], hwm : Nat, done : SUBSET Nat]

-----------------------------------------------------------------------------
(* What the CLI leaves of a call *)

\* Line n of session s is of call c.
IsOf(s, n, c) == file[s][n] \in {Chunk(c), Message(c)}

\* The leg of line n, and whether it is shut down by then.
LegAt(s, n) == Cardinality({k \in 1..n : file[s][k] = Start})
ShutAt(s, n) == \E k \in 1..n : file[s][k] = Shut /\ \A j \in (k + 1)..n : file[s][j] # Start

\* Each line of a call is written once, and all in one leg; a leg that is shut down is
\* followed by another.
FileOK ==
  /\ file \in [Sessions -> Seq(LineSet)]
  /\ \A s \in Sessions : \A m, n \in DOMAIN file[s] : \A c \in Calls :
       /\ IsOf(s, n, c) => SessionOf[c] = s
       /\ IsOf(s, m, c) /\ file[s][m] = file[s][n] => m = n
       /\ IsOf(s, m, c) /\ IsOf(s, n, c) => LegAt(s, m) = LegAt(s, n)
  /\ \A s \in Sessions : \A n \in DOMAIN file[s] :
       n < Len(file[s]) /\ file[s][n] = Shut => file[s][n + 1] = Start

\* A call has one row, of the leg of its lines.
RowOK(i, s) ==
  /\ place[s] # "new" /\ store[i].leg <= Leg(s)
  /\ \A n \in DOMAIN file[s] : IsOf(s, n, store[i].call) => store[i].leg = LegAt(s, n)

StoreOK ==
  /\ store \in Seq([call : Calls, leg : Nat])
  /\ \A i, j \in DOMAIN store : store[i].call = store[j].call => i = j
  /\ \A i \in DOMAIN store : RowOK(i, SessionOf[store[i].call])

HasLine(c) == \E n \in DOMAIN file[SessionOf[c]] : IsOf(SessionOf[c], n, c)

\* Something of c is written, and something may follow.
Open(c) ==
  /\ HasLine(c) \/ c \in Logged
  /\ ~(c \in Logged /\ (c \in RowOnly \/ Message(c) \in Lines(SessionOf[c])))

\* What is in flight is of the leg that goes on.
FlightOK ==
  \A c \in Calls \ over : Open(c) =>
    LET s == SessionOf[c]
    IN /\ ~quiet[s] /\ file[s][Len(file[s])] # Shut
       /\ \A n \in DOMAIN file[s] : IsOf(s, n, c) => LegAt(s, n) = Leg(s)
       /\ \A i \in DOMAIN store : store[i].call = c => store[i].leg = Leg(s)

CliOK ==
  /\ place \in [Sessions -> {"new", "live", "gone", "past"}] /\ quiet \in [Sessions -> BOOLEAN]
  /\ over \subseteq Calls /\ raced \subseteq Sessions
  /\ \A s \in Sessions : place[s] \in {"new", "gone"} => ~quiet[s]
  /\ \A s \in Sessions : place[s] = "new" => file[s] = <<>>
  /\ FileOK /\ StoreOK /\ FlightOK

-----------------------------------------------------------------------------
(* The collector *)

\* A group that was read between the offsets a and b.
GroupOK(s, g, a, b) ==
  /\ g \in Group /\ g.at \in a..(b - 1)
  /\ IsOf(s, g.at + 1, g.call) /\ g.leg = LegAt(s, g.at + 1)

GroupsOK(s, q, a, b) ==
  /\ q \in Seq(Group)
  /\ \A k \in DOMAIN q : GroupOK(s, q[k], a, b)
  /\ \A j, k \in DOMAIN q : q[j].at = q[k].at => j = k

ContextOK(s, ctx, o) == ctx.leg = LegAt(s, o) /\ ctx.shut = ShutAt(s, o)

CursorOK(s, cur) ==
  /\ cur \in Cursor /\ cur.offset <= cur.size /\ cur.size <= Len(file[s])
  /\ Len(cur.ctx.pending) <= PendingMax
  /\ ContextOK(s, cur.ctx, cur.offset) /\ GroupsOK(s, cur.ctx.pending, 0, cur.offset)

RowDone(st, i) == i <= st.hwm \/ i \in st.done

StateOK(st) ==
  /\ st \in State /\ st.hwm <= Len(store) /\ st.done \subseteq (st.hwm + 1)..Len(store)
  /\ \A s \in Sessions : st.cursor[s] # NoCursor => CursorOK(s, st.cursor[s])
  /\ \A i \in DOMAIN store : RowDone(st, i) =>
       SessionOf[store[i].call] \in Covered \/ Delivered(store[i].call)

\* Where a run takes up a session.
From(cur) == IF cur = NoCursor THEN 0 ELSE cur.offset
Held(cur) == IF cur = NoCursor THEN <<>> ELSE cur.ctx.pending

WorkOK(s, w, cur) ==
  /\ w \in Work /\ From(cur) <= w.offset /\ w.offset <= w.size /\ w.size <= Len(file[s])
  /\ w.ctx.pending = Held(cur) /\ w.parsed = (w.offset > From(cur))
  /\ ContextOK(s, w.ctx, w.offset) /\ GroupsOK(s, w.messages, From(cur), w.offset)
  /\ \A n \in (From(cur) + 1)..w.offset : \A c \in Calls :
       IsOf(s, n, c) => OfCall(w.messages, c) # {}
  /\ w.quiet /\ s \notin raced => quiet[s] /\ w.offset = Len(file[s])

\* A session that is quiescent is read as such.
ReadQuiet(s) == s \in job.todo \/ (job.works[s] # NoCursor /\ job.works[s].quiet)

ParseOK ==
  /\ job.stage = "parse"
  /\ job \in [stage : {"parse"}, st : {saved}, files : SUBSET Sessions, todo : SUBSET job.files,
              works : [Sessions -> Work \cup {NoCursor}]]
  /\ \A s \in Sessions : job.works[s] # NoCursor =>
       s \in job.files \ job.todo /\ WorkOK(s, job.works[s], saved.cursor[s])
  /\ \A s \in Sessions : place[s] = "live" /\ quiet[s] => s \in job.files /\ ReadQuiet(s)

EmitOK ==
  /\ job.stage = "emit"
  /\ job \in [stage : {"emit"}, st : State, files : SUBSET Sessions, todo : SUBSET job.files,
              works : [Sessions -> Work \cup {NoCursor}], top : {Len(store)}, rows : SUBSET Nat]
  /\ StateOK(job.st)
  /\ job.rows \subseteq (job.st.hwm + 1)..Len(store)
  /\ (job.st.hwm + 1)..Len(store) \subseteq job.rows \cup job.st.done
  /\ \A s \in job.todo : job.works[s] # NoCursor /\ WorkOK(s, job.works[s], job.st.cursor[s])
  /\ \A i \in job.rows \ job.st.done :
       LET s == SessionOf[store[i].call]
       IN place[s] = "live" /\ quiet[s] => s \in job.todo /\ job.works[s].quiet

SaveOK ==
  /\ job.stage = "save"
  /\ job \in [stage : {"save"}, st : State]
  /\ StateOK(job.st) /\ Cardinality(job.st.done) <= DoneWindow
  /\ \A i \in DOMAIN store :
       LET s == SessionOf[store[i].call]
       IN s \in Covered \/ Delivered(store[i].call) \/ (~quiet[s] /\ place[s] \in {"live", "gone"})

JobOK == job = Idle \/ ParseOK \/ EmitOK \/ SaveOK

Inv ==
  /\ CliOK /\ StateOK(saved) /\ Cardinality(saved.done) <= DoneWindow /\ JobOK
  /\ delivered \subseteq [call : Calls, by : {"message", "row"}]
  /\ faults \in 0..MaxFaults

-----------------------------------------------------------------------------
(* Held messages *)

\* The calls of a session that leave a message; no session has more messages and chunks
\* than are held for it.
Said(s) == {c \in Calls \ RowOnly : SessionOf[c] = s}
Roomy ==
  \A s \in Sessions :
    IsFiniteSet(Said(s)) /\ Cardinality(Said(s)) + Cardinality(Said(s) \cap Chunked) <= PendingMax

ByMsg(c) == [call |-> c, by |-> "message"]
ByItsRow(c) == [call |-> c, by |-> "row"]

HeldOK(st) ==
  \A s \in Sessions \ Covered : st.cursor[s] # NoCursor =>
    \A n \in 1..st.cursor[s].offset : \A c \in Calls : IsOf(s, n, c) =>
      ByMsg(c) \in delivered \/ OfCall(st.cursor[s].ctx.pending, c) # {}

HeldInv == HeldOK(saved) /\ (job.stage \in {"emit", "save"} => HeldOK(job.st))

-----------------------------------------------------------------------------
(* Messages and rows *)

Windows == Roomy /\ IsFiniteSet(Calls) /\ Cardinality(Calls) <= DoneWindow

AllRowsDone(st, c) ==
  /\ c \in over \cup Logged
  /\ \A i \in DOMAIN store : store[i].call = c => RowDone(st, i)

\* What was read and is not held has been settled together with its row.
JoinedOK(st) ==
  \A s \in Sessions \ (Covered \cup raced) : st.cursor[s] # NoCursor =>
    \A n \in 1..st.cursor[s].offset : \A c \in Calls : IsOf(s, n, c) =>
      AllRowsDone(st, c) \/ OfCall(st.cursor[s].ctx.pending, c) # {}

Current == IF job.stage \in {"emit", "save"} THEN job.st ELSE saved

\* The row of a call is settled alone because the call has no message, or because the
\* session with the message was deleted.
Alone(c) ==
  LET s == SessionOf[c]
  IN \/ ~HasLine(c) /\ c \in over \cup RowOnly
     \/ /\ place[s] = "past" /\ ByMsg(c) \notin delivered
        /\ job.stage \in {"parse", "emit"} => s \notin job.files

Once(c) ==
  /\ ByMsg(c) \in delivered => HasLine(c) /\ (faults = 0 => AllRowsDone(Current, c))
  /\ ByItsRow(c) \in delivered => Alone(c)

OnceInv ==
  /\ faults > 0 => \A s \in Sessions : place[s] \notin {"gone", "past"}
  /\ JoinedOK(saved) /\ (job.stage \in {"emit", "save"} => JoinedOK(job.st))
  /\ \A c \in Calls : SessionOf[c] \notin raced => Once(c)

-----------------------------------------------------------------------------
(* Sets of numbers, and sequences *)

\* What LastOf keeps: at most n elements, and all of a set that has no more.
LEMMA LastFacts ==
  ASSUME NEW S, S \subseteq Nat, IsFiniteSet(S), NEW n \in Nat
  PROVE  /\ LastOf(S, n) \subseteq S /\ IsFiniteSet(LastOf(S, n))
         /\ Cardinality(LastOf(S, n)) <= n
         /\ Cardinality(S) <= n => LastOf(S, n) = S
<1> DEFINE L == LastOf(S, n)
           Above(i) == {k \in S : k > i}
           f == [i \in L |-> Cardinality(Above(i))]
<1>1. L \subseteq S /\ IsFiniteSet(L)
  BY FS_Subset DEF LastOf
<1>2. \A i : IsFiniteSet(Above(i)) /\ Cardinality(Above(i)) \in Nat
  <2> SUFFICES ASSUME NEW i PROVE IsFiniteSet(Above(i)) /\ Cardinality(Above(i)) \in Nat
    OBVIOUS
  <2>1. Above(i) \in SUBSET S
    OBVIOUS
  <2> HIDE DEF Above
  <2> QED BY <2>1, FS_Subset, FS_CardinalityType
<1>3. \A i \in L : Cardinality(Above(i)) < n
  BY DEF LastOf
<1>4. f \in [L -> 0..(n - 1)]
  <2> HIDE DEF Above, L
  <2> QED BY <1>2, <1>3
<1>5. ASSUME NEW i \in S, NEW j \in S, i < j PROVE Cardinality(Above(j)) < Cardinality(Above(i))
  <2>0. \A k \in S : k > j => k > i
    BY <1>5
  <2>1. Above(j) \in SUBSET Above(i)
    BY <2>0
  <2>2. j \in Above(i) /\ j \notin Above(j)
    BY <1>5
  <2> HIDE DEF Above
  <2>3. Cardinality(Above(j)) <= Cardinality(Above(i))
        /\ (Cardinality(Above(i)) = Cardinality(Above(j)) => Above(i) = Above(j))
    BY <1>2, <2>1, FS_Subset
  <2> QED BY <1>2, <2>2, <2>3
<1>6. f \in Injection(L, 0..(n - 1))
  <2>1. \A i, j \in L : f[i] = f[j] => i = j
    <3> SUFFICES ASSUME NEW i \in L, NEW j \in L, f[i] = f[j] PROVE i = j
      OBVIOUS
    <3>1. i \in Nat /\ j \in Nat /\ i \in S /\ j \in S
      BY <1>1
    <3>2. Cardinality(Above(i)) = Cardinality(Above(j))
      OBVIOUS
    <3> HIDE DEF Above
    <3>3. ~(i < j) /\ ~(j < i)
      BY <1>2, <1>5, <3>1, <3>2
    <3> QED BY <3>1, <3>3
  <2> HIDE DEF f, L
  <2> QED BY <1>4, <2>1 DEF Injection, IsInjective
<1>7. Cardinality(L) <= n
  <2>1. IsFiniteSet(0..(n - 1)) /\ Cardinality(0..(n - 1)) = n
    BY FS_Interval
  <2> HIDE DEF f, L
  <2> QED BY <1>6, <2>1, FS_Injection
<1>8. ASSUME Cardinality(S) <= n PROVE S \subseteq L
  <2> SUFFICES ASSUME NEW i \in S PROVE Cardinality(Above(i)) < n
    BY DEF LastOf
  <2>1. Above(i) \in SUBSET S /\ i \notin Above(i)
    OBVIOUS
  <2> HIDE DEF Above
  <2>2. Cardinality(Above(i)) <= Cardinality(S) /\ Cardinality(S) # Cardinality(Above(i))
    BY <2>1, FS_Subset
  <2> QED BY <1>2, <1>8, <2>2, FS_CardinalityType
<1> HIDE DEF L
<1> QED BY <1>1, <1>7, <1>8 DEF L

\* Places takes the elements at S, each once.
Takes(f, q, S) ==
  /\ f \in [1..Cardinality(S) -> S]
  /\ \A j, k \in 1..Cardinality(S) : f[j] = f[k] => j = k
  /\ \A k \in 1..Cardinality(S) : Places(q, S)[k] = q[f[k]]
  /\ \A i \in S : \E k \in 1..Cardinality(S) : f[k] = i

LEMMA PlacesFacts ==
  ASSUME NEW T, NEW q \in Seq(T), NEW S, S \subseteq DOMAIN q
  PROVE  /\ Places(q, S) \in Seq(T) /\ Len(Places(q, S)) = Cardinality(S)
         /\ Cardinality(S) \in Nat /\ IsFiniteSet(S)
         /\ \E f : Takes(f, q, S)
<1> DEFINE n == Cardinality(S)
           UpTo(i) == {j \in S : j <= i}
           r == [i \in S |-> Cardinality(UpTo(i))]
           f == [k \in 1..n |-> CHOOSE i \in S : Cardinality(UpTo(i)) = k]
           p == [k \in 1..n |-> q[f[k]]]
<1>0. S \subseteq Nat /\ IsFiniteSet(S) /\ n \in Nat
  <2>1. DOMAIN q = 1..Len(q) /\ Len(q) \in Nat
    OBVIOUS
  <2>2. IsFiniteSet(1..Len(q)) /\ S \in SUBSET (1..Len(q))
    BY <2>1, FS_Interval
  <2> QED BY <2>1, <2>2, FS_Subset, FS_CardinalityType
<1>1. \A i \in S : UpTo(i) \in SUBSET S /\ i \in UpTo(i)
  BY <1>0
<1>2. \A i : UpTo(i) \in SUBSET S
  OBVIOUS
<1>3. \A i, j \in S : i < j => UpTo(i) \in SUBSET UpTo(j) /\ j \notin UpTo(i)
  BY <1>0
<1> HIDE DEF UpTo
<1>4. \A i : IsFiniteSet(UpTo(i)) /\ Cardinality(UpTo(i)) \in Nat /\ Cardinality(UpTo(i)) <= n
  BY <1>0, <1>2, FS_Subset, FS_CardinalityType
<1>5. \A i \in S : Cardinality(UpTo(i)) # 0
  BY <1>1, <1>4, FS_EmptySet
<1>6. r \in [S -> 1..n]
  BY <1>0, <1>4, <1>5
<1>7. ASSUME NEW i \in S, NEW j \in S, i < j PROVE Cardinality(UpTo(i)) < Cardinality(UpTo(j))
  <2>1. Cardinality(UpTo(i)) <= Cardinality(UpTo(j))
        /\ (Cardinality(UpTo(i)) = Cardinality(UpTo(j)) => UpTo(i) = UpTo(j))
    BY <1>3, <1>4, <1>7, FS_Subset
  <2> QED BY <1>1, <1>3, <1>4, <1>7, <2>1
<1>8. r \in Injection(S, 1..n)
  <2>1. \A i, j \in S : r[i] = r[j] => i = j
    <3> SUFFICES ASSUME NEW i \in S, NEW j \in S, r[i] = r[j] PROVE i = j
      OBVIOUS
    <3>1. i \in Nat /\ j \in Nat /\ Cardinality(UpTo(i)) = Cardinality(UpTo(j))
      BY <1>0
    <3>2. ~(i < j) /\ ~(j < i)
      BY <1>4, <1>7, <3>1
    <3> QED BY <3>1, <3>2
  <2> HIDE DEF r
  <2> QED BY <1>6, <2>1 DEF Injection, IsInjective
<1>9. r \in Surjection(S, 1..n)
  <2>1. IsFiniteSet(1..n) /\ Cardinality(1..n) = n
    BY <1>0, FS_Interval
  <2> HIDE DEF r
  <2> QED BY <1>8, <2>1, FS_Injection
<1>10. \A k \in 1..n : \E i \in S : Cardinality(UpTo(i)) = k
  BY <1>9 DEF Surjection
<1>11. \A k \in 1..n : f[k] \in S /\ Cardinality(UpTo(f[k])) = k
  BY <1>10
<1>12. \A i \in S : Cardinality(UpTo(i)) \in 1..n /\ f[Cardinality(UpTo(i))] = i
  <2> SUFFICES ASSUME NEW i \in S
               PROVE  Cardinality(UpTo(i)) \in 1..n /\ f[Cardinality(UpTo(i))] = i
    OBVIOUS
  <2>1. Cardinality(UpTo(i)) \in 1..n
    BY <1>6
  <2>2. f[Cardinality(UpTo(i))] \in S
        /\ Cardinality(UpTo(f[Cardinality(UpTo(i))])) = Cardinality(UpTo(i))
    BY <1>11, <2>1
  <2> DEFINE x == f[Cardinality(UpTo(i))]
  <2>3. x \in S /\ Cardinality(UpTo(x)) = Cardinality(UpTo(i))
    BY <2>2
  <2> HIDE DEF x, f
  <2>4. ~(i < x) /\ ~(x < i)
    BY <1>4, <1>7, <2>3
  <2>5. x = i
    BY <1>0, <2>3, <2>4
  <2> QED BY <2>1, <2>5 DEF x
<1>13. Places(q, S) = p
  BY DEF Places, UpTo
<1>14. p \in Seq(T) /\ Len(p) = n
  <2>1. \A k \in 1..n : q[f[k]] \in T
    <3>1. \A i \in S : q[i] \in T
      OBVIOUS
    <3> HIDE DEF f
    <3> QED BY <1>11, <3>1
  <2> HIDE DEF f, n
  <2> QED BY <1>0, <2>1
<1>15. f \in [1..n -> S]
  <2>1. f = [k \in 1..n |-> f[k]]
    OBVIOUS
  <2> HIDE DEF f
  <2> QED BY <1>11, <2>1
<1>16. \A k \in 1..n : p[k] = q[f[k]]
  OBVIOUS
<1>17. \A j, k \in 1..n : f[j] = f[k] => j = k
  <2> HIDE DEF f
  <2> QED BY <1>11
<1> HIDE DEF f, p
<1>18. \A i \in S : \E k \in 1..n : f[k] = i
  BY <1>12
<1>19. \E z : Takes(z, q, S)
  BY <1>13, <1>15, <1>16, <1>17, <1>18 DEF Takes
<1> QED BY <1>0, <1>13, <1>14, <1>19

\* The elements of a sequence without one.
LEMMA RemoveAtFacts ==
  ASSUME NEW T, NEW q \in Seq(T), NEW i \in 1..Len(q)
  PROVE  /\ RemoveAt(q, i) \in Seq(T) /\ Len(RemoveAt(q, i)) = Len(q) - 1
         /\ \A k \in 1..(Len(q) - 1) : RemoveAt(q, i)[k] = IF k < i THEN q[k] ELSE q[k + 1]
<1> DEFINE u == SubSeq(q, 1, i - 1)
           v == SubSeq(q, i + 1, Len(q))
           t == u \o v
<1>0. DOMAIN q = 1..Len(q) /\ Len(q) \in Nat
  OBVIOUS
<1>1. RemoveAt(q, i) = t
  BY DEF RemoveAt
<1>2. /\ u \in Seq(T) /\ v \in Seq(T)
      /\ Len(u) = i - 1 /\ Len(v) = Len(q) - i
      /\ \A k \in 1..(i - 1) : u[k] = q[k]
      /\ \A k \in 1..(Len(q) - i) : v[k] = q[i + k]
  <2>1. \A k \in 1..(i - 1) : q[k] \in T
    BY <1>0
  <2>2. \A k \in (i + 1)..Len(q) : q[k] \in T
    BY <1>0
  <2>3. 1 \in Int /\ i - 1 \in Int /\ i + 1 \in Int /\ Len(q) \in Int /\ i \in Int
    BY <1>0
  <2>4. /\ u \in Seq(T)
        /\ Len(u) = IF 1 <= i - 1 THEN i - 1 - 1 + 1 ELSE 0
        /\ \A k \in 1..(i - 1 - 1 + 1) : u[k] = q[1 + k - 1]
    BY <2>1, <2>3, SubSeqProperties
  <2>5. /\ v \in Seq(T)
        /\ Len(v) = IF i + 1 <= Len(q) THEN Len(q) - (i + 1) + 1 ELSE 0
        /\ \A k \in 1..(Len(q) - (i + 1) + 1) : v[k] = q[i + 1 + k - 1]
    BY <2>2, <2>3, SubSeqProperties
  <2> HIDE DEF u, v
  <2>6. Len(u) = i - 1 /\ \A k \in 1..(i - 1) : u[k] = q[k]
    BY <2>3, <2>4
  <2>7. Len(v) = Len(q) - i /\ \A k \in 1..(Len(q) - i) : v[k] = q[i + k]
    BY <2>3, <2>5
  <2> QED BY <2>4, <2>5, <2>6, <2>7
<1> HIDE DEF u, v
<1>3. t \in Seq(T) /\ Len(t) = Len(q) - 1
  <2>1. t \in Seq(T) /\ Len(t) = Len(u) + Len(v)
    BY <1>2, ConcatProperties
  <2> HIDE DEF t
  <2> QED BY <1>0, <1>2, <2>1
<1>4. \A k \in 1..(Len(q) - 1) : t[k] = IF k < i THEN q[k] ELSE q[k + 1]
  BY <1>0, <1>2
<1> HIDE DEF t
<1> QED BY <1>1, <1>3, <1>4

-----------------------------------------------------------------------------
(* Legs *)

LEMMA LegFacts ==
  ASSUME NEW s
  PROVE  /\ LegAt(s, 0) = 0
         /\ \A n \in Nat : LegAt(s, n) \in Nat
         /\ \A n \in Nat :
              LegAt(s, n + 1) = IF file[s][n + 1] = Start THEN LegAt(s, n) + 1 ELSE LegAt(s, n)
         /\ \A m, n \in Nat : m <= n => LegAt(s, m) <= LegAt(s, n)
         /\ \A m, n \in Nat : \A k \in (m + 1)..n : file[s][k] = Start => LegAt(s, m) < LegAt(s, n)
<1> DEFINE Starts(n) == {k \in 1..n : file[s][k] = Start}
<1>0. \A n \in Nat : IsFiniteSet(Starts(n)) /\ Cardinality(Starts(n)) \in Nat
  <2> SUFFICES ASSUME NEW n \in Nat PROVE IsFiniteSet(Starts(n)) /\ Cardinality(Starts(n)) \in Nat
    OBVIOUS
  <2>1. IsFiniteSet(1..n) /\ Starts(n) \in SUBSET (1..n)
    BY FS_Interval
  <2> HIDE DEF Starts
  <2> QED BY <2>1, FS_Subset, FS_CardinalityType
<1>1. Starts(0) = {}
  OBVIOUS
<1>2. \A n \in Nat : Starts(n + 1) = IF file[s][n + 1] = Start THEN Starts(n) \cup {n + 1} ELSE Starts(n)
  <2> SUFFICES ASSUME NEW n \in Nat
               PROVE  Starts(n + 1) = IF file[s][n + 1] = Start THEN Starts(n) \cup {n + 1}
                                      ELSE Starts(n)
    OBVIOUS
  <2>1. 1..(n + 1) = (1..n) \cup {n + 1}
    OBVIOUS
  <2> QED BY <2>1
<1>3. \A n \in Nat : n + 1 \notin Starts(n)
  OBVIOUS
<1>4. \A m, n \in Nat : m <= n => Starts(m) \in SUBSET Starts(n)
  OBVIOUS
<1>5. \A m, n \in Nat : \A k \in (m + 1)..n : file[s][k] = Start =>
        k \in Starts(n) /\ k \notin Starts(m) /\ m <= n
  OBVIOUS
<1>6. \A n : LegAt(s, n) = Cardinality(Starts(n))
  BY DEF LegAt
<1> HIDE DEF Starts
<1>7. \A m, n \in Nat : m <= n =>
        /\ Cardinality(Starts(m)) <= Cardinality(Starts(n))
        /\ Cardinality(Starts(n)) = Cardinality(Starts(m)) => Starts(n) = Starts(m)
  BY <1>0, <1>4, FS_Subset
<1>8. \A n \in Nat :
        LegAt(s, n + 1) = IF file[s][n + 1] = Start THEN LegAt(s, n) + 1 ELSE LegAt(s, n)
  <2> SUFFICES ASSUME NEW n \in Nat
               PROVE  LegAt(s, n + 1) = IF file[s][n + 1] = Start THEN LegAt(s, n) + 1 ELSE LegAt(s, n)
    OBVIOUS
  <2>1. Cardinality(Starts(n) \cup {n + 1}) = Cardinality(Starts(n)) + 1
    BY <1>0, <1>3, FS_AddElement
  <2> QED BY <1>2, <1>6, <2>1
<1>9. LegAt(s, 0) = 0
  BY <1>1, <1>6, FS_EmptySet
<1>10. \A m, n \in Nat : \A k \in (m + 1)..n : file[s][k] = Start => LegAt(s, m) < LegAt(s, n)
  BY <1>0, <1>5, <1>6, <1>7
<1> QED BY <1>0, <1>6, <1>7, <1>8, <1>9, <1>10

LEMMA ShutFacts ==
  ASSUME NEW s
  PROVE  /\ ShutAt(s, 0) = FALSE
         /\ \A n \in Nat : ShutAt(s, n + 1) =
              IF file[s][n + 1] = Start THEN FALSE
              ELSE IF file[s][n + 1] = Shut THEN TRUE ELSE ShutAt(s, n)
         /\ \A n : ShutAt(s, n) \in BOOLEAN
<1>1. ShutAt(s, 0) = FALSE
  BY DEF ShutAt
<1>2. ASSUME NEW n \in Nat PROVE ShutAt(s, n + 1) =
              IF file[s][n + 1] = Start THEN FALSE
              ELSE IF file[s][n + 1] = Shut THEN TRUE ELSE ShutAt(s, n)
  <2>1. CASE file[s][n + 1] = Start
    <3>1. Start # Shut
      BY DEF Start, Shut
    <3>2. \A k \in 1..(n + 1) : file[s][k] = Shut => n + 1 \in (k + 1)..(n + 1)
      BY <2>1, <3>1
    <3>3. ~ShutAt(s, n + 1)
      BY <2>1, <3>2 DEF ShutAt
    <3>4. ShutAt(s, n + 1) \in BOOLEAN
      BY DEF ShutAt
    <3> QED BY <2>1, <3>3, <3>4
  <2>2. CASE file[s][n + 1] # Start /\ file[s][n + 1] = Shut
    <3>1. n + 1 \in 1..(n + 1) /\ (n + 1 + 1)..(n + 1) = {}
      OBVIOUS
    <3>2. ShutAt(s, n + 1)
      BY <2>2, <3>1 DEF ShutAt
    <3>3. ShutAt(s, n + 1) \in BOOLEAN
      BY DEF ShutAt
    <3> QED BY <2>2, <3>2, <3>3
  <2>3. CASE file[s][n + 1] # Start /\ file[s][n + 1] # Shut
    <3>1. ASSUME ShutAt(s, n) PROVE ShutAt(s, n + 1)
      <4>1. PICK k \in 1..n : file[s][k] = Shut /\ \A j \in (k + 1)..n : file[s][j] # Start
        BY <3>1 DEF ShutAt
      <4>2. k \in 1..(n + 1) /\ \A j \in (k + 1)..(n + 1) : file[s][j] # Start
        <5>1. \A j \in (k + 1)..(n + 1) : j \in (k + 1)..n \/ j = n + 1
          OBVIOUS
        <5> QED BY <2>3, <4>1, <5>1
      <4> QED BY <4>1, <4>2 DEF ShutAt
    <3>2. ASSUME ShutAt(s, n + 1) PROVE ShutAt(s, n)
      <4>1. PICK k \in 1..(n + 1) : file[s][k] = Shut /\ \A j \in (k + 1)..(n + 1) : file[s][j] # Start
        BY <3>2 DEF ShutAt
      <4>2. k \in 1..n /\ \A j \in (k + 1)..n : j \in (k + 1)..(n + 1)
        BY <2>3, <4>1
      <4> QED BY <4>1, <4>2 DEF ShutAt
    <3>3. ShutAt(s, n) \in BOOLEAN /\ ShutAt(s, n + 1) \in BOOLEAN
      BY DEF ShutAt
    <3> QED BY <2>3, <3>1, <3>2, <3>3
  <2> QED BY <2>1, <2>2, <2>3
<1>3. \A n : ShutAt(s, n) \in BOOLEAN
  BY DEF ShutAt
<1> QED BY <1>1, <1>2, <1>3

\* A line of a leg that is closed at offset o is before it.
LEMMA ClosedBefore ==
  ASSUME FileOK, NEW s \in Sessions, NEW o \in 0..Len(file[s]), NEW n \in 1..Len(file[s]),
         LegAt(s, n) < LegAt(s, o) \/ (LegAt(s, n) = LegAt(s, o) /\ ShutAt(s, o))
  PROVE  n <= o
<1> SUFFICES ASSUME n > o PROVE FALSE
  OBVIOUS
<1>0. Len(file[s]) \in Nat /\ o \in Nat /\ n \in Nat
  BY DEF FileOK
<1>1. LegAt(s, o) <= LegAt(s, n) /\ LegAt(s, o) \in Nat /\ LegAt(s, n) \in Nat
  BY <1>0, LegFacts
<1>2. LegAt(s, n) = LegAt(s, o) /\ ShutAt(s, o)
  BY <1>1
<1>3. PICK k \in 1..o : file[s][k] = Shut /\ \A j \in (k + 1)..o : file[s][j] # Start
  BY <1>2 DEF ShutAt
<1>4. k \in DOMAIN file[s] /\ k < Len(file[s])
  BY <1>0 DEF FileOK
<1>5. file[s][k + 1] = Start
  BY <1>3, <1>4 DEF FileOK
<1>6. k + 1 \in (o + 1)..n
  BY <1>0, <1>3, <1>5
<1>7. LegAt(s, o) < LegAt(s, n)
  BY <1>0, <1>5, <1>6, LegFacts
<1> QED BY <1>1, <1>2, <1>7

-----------------------------------------------------------------------------
(* The parser *)

Apart(q, r) == \A j \in DOMAIN q : \A k \in DOMAIN r : q[j].at # r[k].at

\* The parser's state p after the lines from + 1 to o: every line of a call is in a group.
ParserInv(s, p, from, o) ==
  /\ p \in Parser /\ p.leg = LegAt(s, o) /\ p.shut = ShutAt(s, o)
  /\ GroupsOK(s, p.messages, from, o) /\ GroupsOK(s, p.open, from, o)
  /\ Apart(p.messages, p.open)
  /\ \A n \in (from + 1)..o : \A c \in Calls :
       IsOf(s, n, c) => OfCall(p.messages, c) # {} \/ OfCall(p.open, c) # {}

LEMMA GroupsGrow ==
  ASSUME NEW s, NEW q, NEW a \in Nat, NEW b \in Nat, GroupsOK(s, q, a, b)
  PROVE  GroupsOK(s, q, a, b + 1)
<1>1. \A g : g.at \in a..(b - 1) => g.at \in a..(b + 1 - 1)
  OBVIOUS
<1> QED BY <1>1 DEF GroupsOK, GroupOK

\* A new group at the end.
GroupAdded(s, q, a, b, g, r) ==
  /\ a \in Nat /\ b \in Nat /\ GroupsOK(s, q, a, b) /\ GroupOK(s, g, a, b)
  /\ \A k \in DOMAIN q : q[k].at # g.at
  /\ r = Append(q, g)

LEMMA GroupsAppend ==
  ASSUME NEW s, NEW q, NEW a, NEW b, NEW g, NEW r, GroupAdded(s, q, a, b, g, r)
  PROVE  /\ GroupsOK(s, r, a, b)
         /\ \A c : OfCall(q, c) # {} \/ c = g.call => OfCall(r, c) # {}
         /\ \A k \in DOMAIN r : r[k] = g \/ \E j \in DOMAIN q : r[k] = q[j]
<1> USE DEF GroupAdded
<1>0. q \in Seq(Group) /\ g \in Group /\ Len(q) \in Nat /\ DOMAIN q = 1..Len(q)
  BY DEF GroupsOK, GroupOK
<1>1. /\ r \in Seq(Group) /\ DOMAIN r = 1..(Len(q) + 1) /\ r[Len(q) + 1] = g
      /\ \A k \in 1..Len(q) : r[k] = q[k]
  BY <1>0
<1>2. \A k \in DOMAIN r : k \in DOMAIN q \/ k = Len(q) + 1
  BY <1>0, <1>1
<1>3. \A k \in DOMAIN r : GroupOK(s, r[k], a, b)
  BY <1>0, <1>1, <1>2 DEF GroupsOK
<1>4. \A j, k \in DOMAIN r : r[j].at = r[k].at => j = k
  BY <1>0, <1>1, <1>2 DEF GroupsOK
<1>5. \A c : OfCall(q, c) # {} \/ c = g.call => OfCall(r, c) # {}
  <2> SUFFICES ASSUME NEW c, OfCall(q, c) # {} \/ c = g.call PROVE OfCall(r, c) # {}
    OBVIOUS
  <2>1. CASE c = g.call
    BY <1>0, <1>1, <2>1 DEF OfCall
  <2>2. CASE OfCall(q, c) # {}
    <3>1. PICK k \in DOMAIN q : q[k].call = c
      BY <2>2 DEF OfCall
    <3>2. k \in DOMAIN r /\ r[k].call = c
      BY <1>0, <1>1, <3>1
    <3> QED BY <3>2 DEF OfCall
  <2> QED BY <2>1, <2>2
<1>6. \A k \in DOMAIN r : r[k] = g \/ \E j \in DOMAIN q : r[k] = q[j]
  BY <1>0, <1>1, <1>2
<1>7. GroupsOK(s, r, a, b)
  BY <1>1, <1>3, <1>4 DEF GroupsOK
<1> QED BY <1>5, <1>6, <1>7

\* A group taken out.
LEMMA GroupsRemove ==
  ASSUME NEW s, NEW q, NEW a, NEW b, GroupsOK(s, q, a, b), NEW i \in DOMAIN q
  PROVE  /\ GroupsOK(s, RemoveAt(q, i), a, b)
         /\ \A c : OfCall(q, c) # {} => c = q[i].call \/ OfCall(RemoveAt(q, i), c) # {}
         /\ \A k \in DOMAIN RemoveAt(q, i) : \E j \in DOMAIN q : j # i /\ RemoveAt(q, i)[k] = q[j]
<1> DEFINE r == RemoveAt(q, i)
           At(k) == IF k < i THEN k ELSE k + 1
<1>0. q \in Seq(Group) /\ Len(q) \in Nat /\ DOMAIN q = 1..Len(q) /\ i \in 1..Len(q)
  BY DEF GroupsOK
<1>1. /\ r \in Seq(Group) /\ Len(r) = Len(q) - 1
      /\ \A k \in 1..(Len(q) - 1) : r[k] = IF k < i THEN q[k] ELSE q[k + 1]
  BY <1>0, RemoveAtFacts
<1> HIDE DEF r
<1>2. DOMAIN r = 1..(Len(q) - 1)
  <2>1. DOMAIN r = 1..Len(r)
    BY <1>1
  <2> QED BY <1>1, <2>1
<1>3. \A k \in DOMAIN r : At(k) \in DOMAIN q /\ At(k) # i /\ r[k] = q[At(k)]
  BY <1>0, <1>1, <1>2
<1>4. \A j, k \in DOMAIN r : At(j) = At(k) => j = k
  BY <1>0, <1>2
<1>5. \A c : OfCall(q, c) # {} => c = q[i].call \/ OfCall(r, c) # {}
  <2> SUFFICES ASSUME NEW c, OfCall(q, c) # {}, c # q[i].call PROVE OfCall(r, c) # {}
    OBVIOUS
  <2>1. PICK j \in DOMAIN q : q[j].call = c
    BY DEF OfCall
  <2>2. PICK k \in DOMAIN r : At(k) = j
    <3>1. CASE j < i
      BY <1>0, <1>2, <3>1
    <3>2. CASE j > i
      <4>1. j - 1 \in DOMAIN r /\ At(j - 1) = j
        BY <1>0, <1>2, <3>2
      <4> QED BY <4>1
    <3> QED BY <1>0, <2>1, <3>1, <3>2
  <2> HIDE DEF At
  <2>3. k \in DOMAIN r /\ r[k].call = c
    BY <1>3, <2>1, <2>2
  <2> QED BY <2>3 DEF OfCall
<1> HIDE DEF At
<1>6. \A k \in DOMAIN r : \E j \in DOMAIN q : j # i /\ r[k] = q[j]
  BY <1>3
<1>7. GroupsOK(s, r, a, b)
  <2>1. \A k \in DOMAIN r : GroupOK(s, r[k], a, b)
    BY <1>3 DEF GroupsOK
  <2>2. \A j, k \in DOMAIN r : r[j].at = r[k].at => j = k
    BY <1>3, <1>4 DEF GroupsOK
  <2> QED BY <1>1, <2>1, <2>2 DEF GroupsOK
<1> QED BY <1>5, <1>6, <1>7 DEF r

\* Two lists of groups.
LEMMA GroupsConcat ==
  ASSUME NEW s, NEW q, NEW r, NEW a \in Nat, NEW b \in Nat, GroupsOK(s, q, a, b), GroupsOK(s, r, a, b),
         Apart(q, r)
  PROVE  /\ GroupsOK(s, q \o r, a, b)
         /\ \A c : OfCall(q, c) # {} \/ OfCall(r, c) # {} => OfCall(q \o r, c) # {}
<1> DEFINE t == q \o r
<1>0. /\ q \in Seq(Group) /\ Len(q) \in Nat /\ DOMAIN q = 1..Len(q)
      /\ r \in Seq(Group) /\ Len(r) \in Nat /\ DOMAIN r = 1..Len(r)
  BY DEF GroupsOK
<1>1. /\ t \in Seq(Group) /\ DOMAIN t = 1..(Len(q) + Len(r))
      /\ \A k \in 1..Len(q) : t[k] = q[k]
      /\ \A k \in 1..Len(r) : t[Len(q) + k] = r[k]
  BY <1>0
<1> HIDE DEF t
<1>2. \A k \in DOMAIN t : \/ k \in DOMAIN q /\ t[k] = q[k]
                          \/ k - Len(q) \in DOMAIN r /\ t[k] = r[k - Len(q)]
  BY <1>0, <1>1
<1>3. \A k \in DOMAIN t : GroupOK(s, t[k], a, b)
  BY <1>2 DEF GroupsOK
<1>4. \A j, k \in DOMAIN t : t[j].at = t[k].at => j = k
  <2> SUFFICES ASSUME NEW j \in DOMAIN t, NEW k \in DOMAIN t, t[j].at = t[k].at PROVE j = k
    OBVIOUS
  <2>1. j \in Int /\ k \in Int /\ Len(q) \in Int
    BY <1>0, <1>1
  <2>2. CASE j \in DOMAIN q /\ t[j] = q[j] /\ k \in DOMAIN q /\ t[k] = q[k]
    BY <2>2 DEF GroupsOK
  <2>3. CASE /\ j - Len(q) \in DOMAIN r /\ t[j] = r[j - Len(q)]
             /\ k - Len(q) \in DOMAIN r /\ t[k] = r[k - Len(q)]
    <3>1. j - Len(q) = k - Len(q)
      BY <2>3 DEF GroupsOK
    <3> QED BY <2>1, <3>1
  <2> QED BY <1>2, <2>2, <2>3 DEF Apart
<1>5. \A c : OfCall(q, c) # {} \/ OfCall(r, c) # {} => OfCall(t, c) # {}
  <2> SUFFICES ASSUME NEW c, OfCall(q, c) # {} \/ OfCall(r, c) # {} PROVE OfCall(t, c) # {}
    OBVIOUS
  <2>1. CASE OfCall(q, c) # {}
    <3>1. PICK k \in DOMAIN q : q[k].call = c
      BY <2>1 DEF OfCall
    <3>2. k \in DOMAIN t /\ t[k].call = c
      BY <1>0, <1>1, <3>1
    <3> QED BY <3>2 DEF OfCall
  <2>2. CASE OfCall(r, c) # {}
    <3>1. PICK k \in DOMAIN r : r[k].call = c
      BY <2>2 DEF OfCall
    <3>2. Len(q) + k \in DOMAIN t /\ t[Len(q) + k].call = c
      BY <1>0, <1>1, <3>1
    <3> QED BY <3>2 DEF OfCall
  <2> QED BY <2>1, <2>2
<1>6. GroupsOK(s, t, a, b)
  BY <1>1, <1>3, <1>4 DEF GroupsOK
<1> QED BY <1>5, <1>6 DEF t

\* The kinds of lines.
LEMMA LineKinds ==
  ASSUME FileOK, NEW s \in Sessions, NEW n \in DOMAIN file[s]
  PROVE  \/ file[s][n] \in {Start, Shut, Prompt} /\ \A c : ~IsOf(s, n, c)
         \/ /\ file[s][n].type \in {"chunk", "message"} /\ file[s][n].call \in Calls \ RowOnly
            /\ file[s][n].type = "chunk" => file[s][n].call \in Chunked
            /\ file[s][n] \notin {Start, Shut, Prompt}
            /\ \A c : IsOf(s, n, c) <=> c = file[s][n].call
<1>1. file[s][n] \in LineSet
  BY DEF FileOK
<1>2. CASE file[s][n] \in {Start, Shut, Prompt}
  BY <1>2 DEF Start, Shut, Prompt, IsOf, Chunk, Message
<1>3. CASE \E c \in Chunked : file[s][n] = Chunk(c)
  BY <1>3, CollectorAssumption DEF Start, Shut, Prompt, IsOf, Chunk, Message
<1>4. CASE \E c \in Calls \ RowOnly : file[s][n] = Message(c)
  BY <1>4 DEF Start, Shut, Prompt, IsOf, Chunk, Message
<1> QED BY <1>1, <1>2, <1>3, <1>4 DEF LineSet

\* The lines start, shutdown and user leave the groups alone.
LEMMA NoGroupLine ==
  ASSUME NEW s, NEW from \in Nat, NEW o \in Nat, from <= o, NEW p, ParserInv(s, p, from, o),
         \A c : ~IsOf(s, o + 1, c),
         NEW p2 \in Parser, p2.messages = p.messages, p2.open = p.open,
         p2.leg = LegAt(s, o + 1), p2.shut = ShutAt(s, o + 1)
  PROVE  ParserInv(s, p2, from, o + 1)
<1>1. GroupsOK(s, p2.messages, from, o + 1) /\ GroupsOK(s, p2.open, from, o + 1)
  BY GroupsGrow DEF ParserInv
<1>2. Apart(p2.messages, p2.open)
  BY DEF ParserInv
<1>3. \A n \in (from + 1)..(o + 1) : n \in (from + 1)..o \/ n = o + 1
  OBVIOUS
<1>4. \A n \in (from + 1)..(o + 1) : \A c \in Calls :
       IsOf(s, n, c) => OfCall(p2.messages, c) # {} \/ OfCall(p2.open, c) # {}
  BY <1>3 DEF ParserInv
<1> QED BY <1>1, <1>2, <1>4 DEF ParserInv

\* A chunk or a message: its group is open, or done.
LEMMA GroupLine ==
  ASSUME FileOK, NEW s \in Sessions, NEW from \in Nat, NEW o \in Nat, from <= o, o + 1 \in DOMAIN file[s],
         NEW p, ParserInv(s, p, from, o), file[s][o + 1].type \in {"chunk", "message"},
         file[s][o + 1].call \in Calls, file[s][o + 1] \notin {Start, Shut},
         \A c : IsOf(s, o + 1, c) <=> c = file[s][o + 1].call
  PROVE  ParserInv(s, on_message(p, file[s][o + 1], o), from, o + 1)
<1> DEFINE l == file[s][o + 1]
           c0 == l.call
           known == OfCall(p.open, c0)
           k0 == CHOOSE k \in known : TRUE
           new == [call |-> c0, leg |-> p.leg, at |-> o]
           p2 == on_message(p, l, o)
<1>0. /\ p \in Parser /\ p.leg \in Nat /\ p.leg = LegAt(s, o + 1) /\ p.shut = ShutAt(s, o + 1)
      /\ GroupsOK(s, p.messages, from, o + 1) /\ GroupsOK(s, p.open, from, o + 1)
      /\ Apart(p.messages, p.open)
  <2>1. LegAt(s, o + 1) = LegAt(s, o) /\ ShutAt(s, o + 1) = ShutAt(s, o) /\ LegAt(s, o) \in Nat
    BY LegFacts, ShutFacts
  <2> QED BY <2>1, GroupsGrow DEF ParserInv
<1>1. \A k \in DOMAIN p.messages : p.messages[k].at # o
  BY DEF ParserInv, GroupsOK, GroupOK
<1>2. \A k \in DOMAIN p.open : p.open[k].at # o
  BY DEF ParserInv, GroupsOK, GroupOK
<1>3. GroupOK(s, new, from, o + 1)
  <2>1. new \in Group /\ new.at \in from..(o + 1 - 1) /\ IsOf(s, new.at + 1, new.call)
    BY <1>0 DEF Group
  <2> QED BY <1>0, <2>1 DEF GroupOK
<1>4. \A n \in (from + 1)..(o + 1) : \A c \in Calls :
        IsOf(s, n, c) => OfCall(p.messages, c) # {} \/ OfCall(p.open, c) # {} \/ c = c0
  <2>1. \A n \in (from + 1)..(o + 1) : n \in (from + 1)..o \/ n = o + 1
    OBVIOUS
  <2> QED BY <2>1 DEF ParserInv
<1>5. p = [leg |-> p.leg, shut |-> p.shut, messages |-> p.messages, open |-> p.open]
      /\ p.shut \in BOOLEAN /\ p.messages \in Seq(Group) /\ p.open \in Seq(Group)
  BY <1>0 DEF Parser
<1> DEFINE Kept(m, q) == /\ p2 = [leg |-> p.leg, shut |-> p.shut, messages |-> m, open |-> q]
                         /\ GroupsOK(s, m, from, o + 1) /\ GroupsOK(s, q, from, o + 1) /\ Apart(m, q)
                         /\ \A c : OfCall(p.messages, c) # {} \/ OfCall(p.open, c) # {} \/ c = c0 =>
                              OfCall(m, c) # {} \/ OfCall(q, c) # {}
<1>6. ASSUME NEW m, NEW q, Kept(m, q) PROVE ParserInv(s, p2, from, o + 1)
  <2>1. m \in Seq(Group) /\ q \in Seq(Group)
    BY <1>6 DEF GroupsOK
  <2>2. p2 \in Parser /\ p2.leg = p.leg /\ p2.shut = p.shut /\ p2.messages = m /\ p2.open = q
    BY <1>0, <1>5, <1>6, <2>1 DEF Parser
  <2> HIDE DEF p2, c0
  <2> QED BY <1>0, <1>4, <1>6, <2>2 DEF ParserInv
<1>7. l.type = "chunk" \/ l.type = "message"
  OBVIOUS
<1>8. CASE l.type = "chunk" /\ known = {}
  <2> DEFINE q == Append(p.open, new)
  <2>1. p2 = [p EXCEPT !.open = q]
    BY <1>8 DEF on_message
  <2>2. p2 = [leg |-> p.leg, shut |-> p.shut, messages |-> p.messages, open |-> q]
    BY <1>5, <2>1
  <2>3. /\ GroupsOK(s, q, from, o + 1)
        /\ \A c : OfCall(p.open, c) # {} \/ c = c0 => OfCall(q, c) # {}
        /\ \A k \in DOMAIN q : q[k] = new \/ \E j \in DOMAIN p.open : q[k] = p.open[j]
    <3> HIDE DEF q, new
    <3>1. new.call = c0 /\ \A k \in DOMAIN p.open : p.open[k].at # new.at
      BY <1>2 DEF new
    <3>2. o + 1 \in Nat /\ GroupsOK(s, p.open, from, o + 1)
      BY <1>0
    <3>3. q = Append(p.open, new)
      BY DEF q
    <3>5. GroupAdded(s, p.open, from, o + 1, new, q)
      BY <1>3, <3>1, <3>2, <3>3 DEF GroupAdded
    <3> QED BY <3>1, <3>5, GroupsAppend
  <2> HIDE DEF q, p2, c0
  <2>4. Apart(p.messages, q)
    BY <1>0, <1>1, <2>3 DEF Apart
  <2>5. Kept(p.messages, q)
    BY <1>0, <2>2, <2>3, <2>4
  <2> QED BY <1>6, <2>5 DEF p2
<1>9. CASE l.type = "chunk" /\ known # {}
  <2>1. p2 = p
    BY <1>9 DEF on_message
  <2> HIDE DEF p2, c0
  <2>2. OfCall(p.open, c0) # {}
    BY <1>9
  <2>3. Kept(p.messages, p.open)
    BY <1>0, <1>5, <2>1, <2>2
  <2> QED BY <1>6, <2>3 DEF p2
<1>10. CASE l.type = "message" /\ known = {}
  <2> DEFINE m == Append(p.messages, new)
  <2>1. p2 = [p EXCEPT !.messages = m]
    BY <1>10 DEF on_message
  <2>2. p2 = [leg |-> p.leg, shut |-> p.shut, messages |-> m, open |-> p.open]
    BY <1>5, <2>1
  <2>3. /\ GroupsOK(s, m, from, o + 1)
        /\ \A c : OfCall(p.messages, c) # {} \/ c = c0 => OfCall(m, c) # {}
        /\ \A k \in DOMAIN m : m[k] = new \/ \E j \in DOMAIN p.messages : m[k] = p.messages[j]
    <3> HIDE DEF m, new
    <3>1. new.call = c0 /\ \A k \in DOMAIN p.messages : p.messages[k].at # new.at
      BY <1>1 DEF new
    <3>2. o + 1 \in Nat /\ GroupsOK(s, p.messages, from, o + 1)
      BY <1>0
    <3>3. m = Append(p.messages, new)
      BY DEF m
    <3>5. GroupAdded(s, p.messages, from, o + 1, new, m)
      BY <1>3, <3>1, <3>2, <3>3 DEF GroupAdded
    <3> QED BY <3>1, <3>5, GroupsAppend
  <2> HIDE DEF m, p2, c0
  <2>4. Apart(m, p.open)
    BY <1>0, <1>2, <2>3 DEF Apart
  <2>5. Kept(m, p.open)
    BY <1>0, <2>2, <2>3, <2>4
  <2> QED BY <1>6, <2>5 DEF p2
<1>11. CASE l.type = "message" /\ known # {}
  <2> DEFINE g == p.open[k0]
             m == Append(p.messages, g)
             q == RemoveAt(p.open, k0)
  <2>0. k0 \in DOMAIN p.open /\ g.call = c0
    <3>1. k0 \in known
      BY <1>11
    <3> QED BY <3>1 DEF OfCall
  <2>1. p2 = [p EXCEPT !.messages = m, !.open = q]
    BY <1>11 DEF on_message
  <2>2. p2 = [leg |-> p.leg, shut |-> p.shut, messages |-> m, open |-> q]
    BY <1>5, <2>1
  <2> HIDE DEF k0
  <2>3. /\ GroupsOK(s, m, from, o + 1)
        /\ \A c : OfCall(p.messages, c) # {} \/ c = c0 => OfCall(m, c) # {}
        /\ \A k \in DOMAIN m : m[k] = g \/ \E j \in DOMAIN p.messages : m[k] = p.messages[j]
    <3>1. GroupOK(s, g, from, o + 1)
      BY <1>0, <2>0 DEF GroupsOK
    <3>2. \A k \in DOMAIN p.messages : p.messages[k].at # g.at
      BY <1>0, <2>0 DEF Apart
    <3> HIDE DEF m, g
    <3>3. o + 1 \in Nat /\ GroupsOK(s, p.messages, from, o + 1)
      BY <1>0
    <3>4. m = Append(p.messages, g)
      BY DEF m
    <3>5. GroupAdded(s, p.messages, from, o + 1, g, m)
      BY <3>1, <3>2, <3>3, <3>4, <2>0 DEF GroupAdded
    <3> QED BY <2>0, <3>5, GroupsAppend
  <2>4. /\ GroupsOK(s, q, from, o + 1)
        /\ \A c : OfCall(p.open, c) # {} => c = c0 \/ OfCall(q, c) # {}
        /\ \A k \in DOMAIN q : \E j \in DOMAIN p.open : j # k0 /\ q[k] = p.open[j]
    BY <1>0, <2>0, GroupsRemove
  <2>5. \A j \in DOMAIN p.open : j # k0 => p.open[j].at # g.at
    BY <1>0, <2>0 DEF GroupsOK
  <2> HIDE DEF m, q, g, p2, c0
  <2>6. Apart(m, q)
    BY <1>0, <2>3, <2>4, <2>5 DEF Apart
  <2>7. Kept(m, q)
    BY <1>0, <2>2, <2>3, <2>4, <2>6
  <2> QED BY <1>6, <2>7 DEF p2
<1> QED BY <1>7, <1>8, <1>9, <1>10, <1>11

LEMMA HandleKeeps ==
  ASSUME FileOK, NEW s \in Sessions, NEW from \in Nat, NEW o \in Nat, from <= o, o + 1 \in DOMAIN file[s],
         NEW p, ParserInv(s, p, from, o)
  PROVE  ParserInv(s, handle(p, file[s][o + 1], o), from, o + 1)
<1> DEFINE l == file[s][o + 1]
<1>0. /\ p \in Parser /\ p.leg \in Nat /\ p.leg = LegAt(s, o) /\ p.shut = ShutAt(s, o)
      /\ p = [leg |-> p.leg, shut |-> p.shut, messages |-> p.messages, open |-> p.open]
  BY DEF ParserInv, Parser
<1>1. /\ LegAt(s, o + 1) = IF l = Start THEN LegAt(s, o) + 1 ELSE LegAt(s, o)
      /\ ShutAt(s, o + 1) = IF l = Start THEN FALSE ELSE IF l = Shut THEN TRUE ELSE ShutAt(s, o)
  BY LegFacts, ShutFacts
<1>2. /\ Start # Shut /\ Start # Prompt /\ Shut # Prompt
      /\ \A x \in {Start, Shut, Prompt} : x.type \notin {"chunk", "message"}
  BY DEF Start, Shut, Prompt
<1>3. CASE l \in {Start, Shut, Prompt} /\ \A c : ~IsOf(s, o + 1, c)
  <2> DEFINE p2 == handle(p, l, o)
  <2>1. /\ p2 \in Parser /\ p2.messages = p.messages /\ p2.open = p.open
        /\ p2.leg = LegAt(s, o + 1) /\ p2.shut = ShutAt(s, o + 1)
    <3>1. CASE l = Start
      <4>1. p2 = [p EXCEPT !.leg = @ + 1, !.shut = FALSE]
        BY <1>2, <3>1 DEF handle, new_leg
      <4>2. p2 = [leg |-> p.leg + 1, shut |-> FALSE, messages |-> p.messages, open |-> p.open]
        BY <1>0, <4>1
      <4> HIDE DEF p2
      <4>3. LegAt(s, o + 1) = p.leg + 1 /\ ShutAt(s, o + 1) = FALSE
        BY <1>0, <1>1, <3>1
      <4>4. p.messages \in Seq(Group) /\ p.open \in Seq(Group) /\ p.leg + 1 \in Nat
        BY <1>0 DEF Parser
      <4> QED BY <4>2, <4>3, <4>4 DEF Parser
    <3>2. CASE l = Shut
      <4>1. p2 = [p EXCEPT !.shut = TRUE]
        BY <1>2, <3>2 DEF handle, on_shutdown
      <4>2. p2 = [leg |-> p.leg, shut |-> TRUE, messages |-> p.messages, open |-> p.open]
        BY <1>0, <4>1
      <4> HIDE DEF p2
      <4> QED BY <1>0, <1>1, <1>2, <3>2, <4>2 DEF Parser
    <3>3. CASE l = Prompt
      <4>1. p2 = p
        BY <1>2, <3>3 DEF handle
      <4> HIDE DEF p2
      <4> QED BY <1>0, <1>1, <1>2, <3>3, <4>1
    <3> QED BY <1>3, <3>1, <3>2, <3>3
  <2> HIDE DEF p2
  <2>2. ParserInv(s, p2, from, o + 1)
    BY <1>3, <2>1, NoGroupLine
  <2> QED BY <2>2 DEF p2
<1>4. CASE /\ l.type \in {"chunk", "message"} /\ l.call \in Calls \ RowOnly
           /\ l \notin {Start, Shut, Prompt}
           /\ \A c : IsOf(s, o + 1, c) <=> c = l.call
  <2>1. handle(p, l, o) = on_message(p, l, o)
    BY <1>4 DEF handle
  <2>2. ParserInv(s, on_message(p, l, o), from, o + 1)
    BY <1>4, GroupLine
  <2> QED BY <2>1, <2>2
<1> QED BY <1>3, <1>4, LineKinds

\* A pass over the lines from + 1 to o.
LEMMA PassInv ==
  ASSUME FileOK, NEW s \in Sessions, NEW from \in Nat, NEW to \in Nat, from <= to, to <= Len(file[s]),
         NEW ctx, ContextOK(s, ctx, from)
  PROVE  ParserInv(s, parse(file[s], ctx, from, to, FALSE), from, to)
<1> DEFINE n == to - from
           base == [leg |-> ctx.leg, shut |-> ctx.shut, messages |-> <<>>, open |-> <<>>]
           S == [k \in 0..n |-> {x \in Parser : ParserInv(s, x, from, from + k)}]
           T == [k \in 1..n |-> [x \in S[k - 1] |-> handle(x, file[s][from + k], from + k - 1)]]
           q == CHOOSE q : q = [k \in 0..n |-> IF k = 0 THEN base
                                               ELSE handle(q[k - 1], file[s][from + k], from + k - 1)]
<1>1. n \in Nat
  OBVIOUS
<1>2. parse(file[s], ctx, from, to, FALSE) = q[n]
  BY DEF parse
<1>3. \A x, k : ParserInv(s, x, from, k) => x \in Parser
  BY DEF ParserInv
<1>4. base \in S[0]
  <2>1. ctx.leg = LegAt(s, from) /\ ctx.shut = ShutAt(s, from) /\ ctx.leg \in Nat /\ ctx.shut \in BOOLEAN
    BY LegFacts, ShutFacts DEF ContextOK
  <2>2. <<>> \in Seq(Group) /\ DOMAIN <<>> = {}
    OBVIOUS
  <2>3. base \in Parser
    BY <2>1, <2>2 DEF Parser
  <2>4. GroupsOK(s, <<>>, from, from) /\ Apart(<<>>, <<>>)
    BY <2>2 DEF GroupsOK, Apart
  <2>5. (from + 1)..from = {}
    OBVIOUS
  <2>6. ParserInv(s, base, from, from)
    BY <2>1, <2>3, <2>4, <2>5 DEF ParserInv
  <2>7. from + 0 = from /\ 0 \in 0..n
    BY <1>1
  <2> HIDE DEF base, n
  <2> QED BY <2>3, <2>6, <2>7
<1>5. ASSUME NEW k \in 1..n, NEW x \in S[k - 1]
      PROVE  handle(x, file[s][from + k], from + k - 1) \in S[k]
  <2>1. k - 1 \in 0..n /\ k \in 0..n
    BY <1>1
  <2>2. ParserInv(s, x, from, from + k - 1)
    <3>1. ParserInv(s, x, from, from + (k - 1))
      BY <2>1
    <3>2. from + (k - 1) = from + k - 1
      BY <1>1
    <3> QED BY <3>1, <3>2
  <2> DEFINE o == from + k - 1
  <2>3. o \in Nat /\ from <= o /\ o + 1 \in DOMAIN file[s] /\ o + 1 = from + k
    BY <1>1 DEF FileOK
  <2>4. ParserInv(s, x, from, o)
    BY <2>2
  <2> HIDE DEF o
  <2>5. ParserInv(s, handle(x, file[s][o + 1], o), from, o + 1)
    BY <2>3, <2>4, HandleKeeps
  <2>6. ParserInv(s, handle(x, file[s][from + k], o), from, from + k)
    BY <2>3, <2>5
  <2> QED BY <1>3, <2>1, <2>6 DEF o
<1>6. \A k \in 1..n : \A x \in S[k - 1] : T[k][x] = handle(x, file[s][from + k], from + k - 1)
  OBVIOUS
<1>7. \A k \in 0..n : \A x \in S[k] : ParserInv(s, x, from, from + k)
  OBVIOUS
<1>8. n \in 0..n /\ from + n = to
  BY <1>1
<1> HIDE DEF S, T, base, n
<1>10. PICK g : /\ g = [k \in 0..n |-> IF k = 0 THEN base ELSE T[k][g[k - 1]]]
                /\ \A k \in 0..n : g[k] \in S[k]
  <2>1. \A k \in 1..n : \A x \in S[k - 1] : T[k][x] \in S[k]
    BY <1>5, <1>6
  <2>2. StepsThrough(n, S, base, T)
    BY <1>1, <1>4, <2>1 DEF StepsThrough
  <2> QED BY <2>2, RecursionOver
<1>11. g = [k \in 0..n |-> IF k = 0 THEN base ELSE handle(g[k - 1], file[s][from + k], from + k - 1)]
  <2>1. \A k \in 1..n : k - 1 \in 0..n /\ g[k - 1] \in S[k - 1]
    BY <1>1, <1>10
  <2>2. \A k \in 0..n : (IF k = 0 THEN base ELSE T[k][g[k - 1]])
          = (IF k = 0 THEN base ELSE handle(g[k - 1], file[s][from + k], from + k - 1))
    BY <1>1, <1>6, <2>1
  <2> QED BY <1>10, <2>2
<1>12. q = [k \in 0..n |-> IF k = 0 THEN base ELSE handle(q[k - 1], file[s][from + k], from + k - 1)]
  BY <1>11
<1> HIDE DEF q
<1>13. q[0] = base /\ \A k \in 1..n : q[k] = handle(q[k - 1], file[s][from + k], from + k - 1)
  BY <1>1, <1>12
<1>14. \A k \in 0..n : q[k] \in S[k]
  <2>1. q[0] \in S[0]
    BY <1>4, <1>13
  <2>2. \A k \in 1..n : q[k - 1] \in S[k - 1] => q[k] \in S[k]
    BY <1>5, <1>13
  <2> QED BY <1>1, <2>1, <2>2, InductionOver
<1> QED BY <1>2, <1>7, <1>8, <1>14

\* What a pass that leaves nothing open has read.
ReadOK(s, p, from, to) ==
  /\ p \in Parser /\ p.leg = LegAt(s, to) /\ p.shut = ShutAt(s, to)
  /\ GroupsOK(s, p.messages, from, to)
  /\ \A n \in (from + 1)..to : \A c \in Calls : IsOf(s, n, c) => OfCall(p.messages, c) # {}

LEMMA FinalPass ==
  ASSUME FileOK, NEW s \in Sessions, NEW from \in Nat, NEW to \in Nat, from <= to, to <= Len(file[s]),
         NEW ctx, ContextOK(s, ctx, from)
  PROVE  ReadOK(s, parse(file[s], ctx, from, to, TRUE), from, to)
<1> DEFINE p == parse(file[s], ctx, from, to, FALSE)
           f == parse(file[s], ctx, from, to, TRUE)
<1>1. ParserInv(s, p, from, to)
  BY PassInv
<1>2. f = [p EXCEPT !.messages = @ \o p.open, !.open = <<>>]
  BY DEF parse
<1> HIDE DEF p, f
<1>3. p = [leg |-> p.leg, shut |-> p.shut, messages |-> p.messages, open |-> p.open]
      /\ p.leg \in Nat /\ p.shut \in BOOLEAN
  BY <1>1 DEF ParserInv, Parser
<1>4. f = [leg |-> p.leg, shut |-> p.shut, messages |-> p.messages \o p.open, open |-> <<>>]
  BY <1>2, <1>3
<1>5. /\ GroupsOK(s, p.messages \o p.open, from, to)
      /\ \A c : OfCall(p.messages, c) # {} \/ OfCall(p.open, c) # {} => OfCall(p.messages \o p.open, c) # {}
  BY <1>1, GroupsConcat DEF ParserInv
<1> DEFINE m == p.messages \o p.open
<1>6. GroupsOK(s, m, from, to) /\ m \in Seq(Group)
      /\ \A c : OfCall(p.messages, c) # {} \/ OfCall(p.open, c) # {} => OfCall(m, c) # {}
  BY <1>5 DEF GroupsOK
<1>7. f = [leg |-> p.leg, shut |-> p.shut, messages |-> m, open |-> <<>>]
  BY <1>4
<1> HIDE DEF m
<1>8. f \in Parser /\ f.leg = p.leg /\ f.shut = p.shut /\ f.messages = m
  BY <1>3, <1>6, <1>7 DEF Parser
<1>9. ReadOK(s, f, from, to)
  BY <1>1, <1>6, <1>8 DEF ReadOK, ParserInv
<1> QED BY <1>9 DEF f

\* Without open responses the two passes are one.
LEMMA NothingOpen ==
  ASSUME NEW s, NEW p, NEW from, NEW to, ParserInv(s, p, from, to), p.open = <<>>
  PROVE  ReadOK(s, p, from, to)
<1>1. \A c : OfCall(<<>>, c) = {}
  BY DEF OfCall
<1> QED BY <1>1 DEF ParserInv, ReadOK

LEMMA ResumeAt ==
  ASSUME NEW s, NEW p, NEW from \in Nat, NEW to \in Nat, from <= to, ParserInv(s, p, from, to)
  PROVE  /\ resume_at(p, to, FALSE) \in from..to
         /\ resume_at(p, to, FALSE) = to => p.open = <<>>
<1> DEFINE A == {m.at : m \in ToSet(p.open)}
<1>0. p.open \in Seq(Group)
  BY DEF ParserInv, Parser
<1>1. CASE p.open = <<>>
  BY <1>1 DEF resume_at
<1>2. CASE p.open # <<>>
  <2>1. resume_at(p, to, FALSE) = Min(A)
    BY <1>2 DEF resume_at
  <2>2. A \subseteq from..(to - 1)
    BY DEF ToSet, ParserInv, GroupsOK, GroupOK
  <2>3. A # {}
    <3>1. 1 \in DOMAIN p.open
      BY <1>0, <1>2
    <3> QED BY <3>1 DEF ToSet
  <2> HIDE DEF A
  <2>4. Min(A) \in A
    <3>1. A \subseteq Nat
      BY <2>2
    <3>2. \E x \in A : \A y \in A : x <= y
      BY <2>3, <3>1, LeastNat
    <3> QED BY <3>2 DEF Min
  <2>5. Min(A) \in from..(to - 1)
    BY <2>2, <2>4
  <2>6. Min(A) \in from..to /\ Min(A) # to
    BY <2>5
  <2> QED BY <2>1, <2>6
<1> QED BY <1>1, <1>2

\* _prepare reads every line up to the offset that it saves.
LEMMA PrepareReads ==
  ASSUME CliOK, NEW s \in Sessions, NEW cur \in Cursor \cup {NoCursor},
         cur # NoCursor => CursorOK(s, cur)
  PROVE  LET ctx == IF cur = NoCursor THEN Fresh ELSE cur.ctx
             from == IF cur = NoCursor THEN 0 ELSE cur.offset
             size == Len(file[s])
             nothing_new == cur # NoCursor /\ cur.size = size /\ ~(from < size /\ quiet[s])
             first == parse(file[s], ctx, from, size, quiet[s])
             to == IF nothing_new THEN from ELSE resume_at(first, size, quiet[s])
             p == IF to = size THEN first ELSE parse(file[s], ctx, from, to, TRUE)
         IN WorkOK(s, [offset |-> to, size |-> size, quiet |-> quiet[s], parsed |-> to > from,
                       ctx |-> [leg |-> p.leg, shut |-> p.shut, pending |-> ctx.pending],
                       messages |-> p.messages], cur)
<1> DEFINE ctx == IF cur = NoCursor THEN Fresh ELSE cur.ctx
           from == IF cur = NoCursor THEN 0 ELSE cur.offset
           size == Len(file[s])
           nothing_new == cur # NoCursor /\ cur.size = size /\ ~(from < size /\ quiet[s])
           first == parse(file[s], ctx, from, size, quiet[s])
           to == IF nothing_new THEN from ELSE resume_at(first, size, quiet[s])
           p == IF to = size THEN first ELSE parse(file[s], ctx, from, to, TRUE)
<1>0. FileOK /\ size \in Nat /\ quiet[s] \in BOOLEAN
  BY DEF CliOK, FileOK
<1>1. /\ from \in Nat /\ from <= size /\ ContextOK(s, ctx, from)
      /\ ctx.pending \in Seq(Group) /\ from = From(cur) /\ ctx.pending = Held(cur)
      /\ cur # NoCursor => from <= cur.size
  <2>1. CASE cur = NoCursor
    <3>1. LegAt(s, 0) = 0 /\ ShutAt(s, 0) = FALSE
      BY LegFacts, ShutFacts
    <3>2. from = 0 /\ ctx.leg = 0 /\ ctx.shut = FALSE /\ ctx.pending = <<>>
      BY <2>1 DEF Fresh
    <3>3. From(cur) = 0 /\ Held(cur) = <<>> /\ <<>> \in Seq(Group)
      BY <2>1 DEF From, Held
    <3>4. ContextOK(s, ctx, from)
      BY <3>1, <3>2 DEF ContextOK
    <3> HIDE DEF from, ctx
    <3> QED BY <1>0, <2>1, <3>2, <3>3, <3>4
  <2>2. CASE cur # NoCursor
    <3>1. cur \in Cursor /\ cur.offset <= cur.size /\ cur.size <= size
          /\ ContextOK(s, cur.ctx, cur.offset) /\ cur.ctx.pending \in Seq(Group)
      BY <2>2 DEF CursorOK, GroupsOK
    <3>2. cur.offset \in Nat /\ cur.size \in Nat
      BY <3>1 DEF Cursor
    <3> QED BY <1>0, <2>2, <3>1, <3>2 DEF From, Held
  <2> QED BY <2>1, <2>2
<1> HIDE DEF from, ctx
<1>99. size <= Len(file[s]) /\ size = Len(file[s])
  BY <1>0
<1> HIDE DEF size
<1>2. /\ to \in Nat /\ from <= to /\ to <= size /\ ReadOK(s, p, from, to)
      /\ quiet[s] => to = size
  <2>1. CASE quiet[s]
    <3>1. ~nothing_new => to = size
      BY <2>1 DEF resume_at
    <3>2. nothing_new => to = size
      BY <1>0, <1>1, <2>1
    <3>3. to = size /\ p = first
      BY <3>1, <3>2
    <3>4. first = parse(file[s], ctx, from, size, TRUE)
      BY <2>1
    <3> HIDE DEF to, p, first
    <3>5. ReadOK(s, first, from, size)
      <4>1. ReadOK(s, parse(file[s], ctx, from, size, TRUE), from, size)
        BY <1>0, <1>1, <1>99, FinalPass
      <4> QED BY <3>4, <4>1
    <3> QED BY <1>0, <1>1, <3>3, <3>5
  <2>2. CASE ~quiet[s]
    <3>1. first = parse(file[s], ctx, from, size, FALSE)
      BY <1>0, <2>2
    <3>2. ParserInv(s, first, from, size)
      <4> HIDE DEF first
      <4>1. ParserInv(s, parse(file[s], ctx, from, size, FALSE), from, size)
        BY <1>0, <1>1, <1>99, PassInv
      <4> QED BY <3>1, <4>1
    <3>3. to = IF nothing_new THEN from ELSE resume_at(first, size, FALSE)
      BY <1>0, <2>2
    <3> HIDE DEF first
    <3>4. resume_at(first, size, FALSE) \in from..size
          /\ (resume_at(first, size, FALSE) = size => first.open = <<>>)
      BY <1>0, <1>1, <3>2, ResumeAt
    <3>5. from = size => first.open = <<>>
      <4> SUFFICES ASSUME from = size, first.open # <<>> PROVE FALSE
        OBVIOUS
      <4>1. first.open \in Seq(Group) /\ 1 \in DOMAIN first.open
        BY <3>2 DEF ParserInv, Parser
      <4>2. first.open[1].at \in from..(size - 1)
        BY <3>2, <4>1 DEF ParserInv, GroupsOK, GroupOK
      <4> QED BY <1>0, <1>1, <4>2
    <3>6. to \in from..size /\ (to = size => first.open = <<>>)
      <4>1. CASE nothing_new
        BY <1>0, <1>1, <3>3, <3>5, <4>1
      <4>2. CASE ~nothing_new
        <5> HIDE DEF to
        <5> QED BY <3>3, <3>4, <4>2
      <4> QED BY <4>1, <4>2
    <3>7. CASE to = size
      <4>1. p = first
        BY <3>7
      <4> HIDE DEF to, p
      <4>2. ReadOK(s, first, from, size)
        BY <3>2, <3>6, <3>7, NothingOpen
      <4> QED BY <1>0, <1>1, <2>2, <3>7, <4>1, <4>2
    <3>8. CASE to # size
      <4>1. p = parse(file[s], ctx, from, to, TRUE)
        BY <3>8
      <4> HIDE DEF to, p
      <4>2. to \in Nat /\ from <= to /\ to <= size
        BY <1>0, <1>1, <3>6
      <4>3. ReadOK(s, parse(file[s], ctx, from, to, TRUE), from, to)
        BY <1>0, <1>1, <1>99, <4>2, FinalPass
      <4>4. ReadOK(s, p, from, to)
        BY <4>1, <4>3
      <4> QED BY <2>2, <4>2, <4>4
    <3> QED BY <3>7, <3>8
  <2> QED BY <1>0, <2>1, <2>2
<1> HIDE DEF to, p, first, nothing_new
<1> DEFINE x == [leg |-> p.leg, shut |-> p.shut, pending |-> ctx.pending]
           w == [offset |-> to, size |-> size, quiet |-> quiet[s], parsed |-> to > from,
                 ctx |-> x, messages |-> p.messages]
<1>3. p.leg \in Nat /\ p.shut \in BOOLEAN /\ p.messages \in Seq(Group)
  BY <1>2 DEF ReadOK, Parser
<1>4. x \in Context
  BY <1>1, <1>3 DEF Context
<1>5. (to > from) \in BOOLEAN
  BY <1>1, <1>2
<1>6. w \in Work
  <2> HIDE DEF x
  <2>1. \A b \in BOOLEAN : [offset |-> to, size |-> size, quiet |-> quiet[s], parsed |-> b,
             ctx |-> x, messages |-> p.messages] \in Work
    BY <1>0, <1>2, <1>3, <1>4 DEF Work
  <2> QED BY <1>5, <2>1
<1>7. /\ w.offset = to /\ w.size = size /\ w.quiet = quiet[s] /\ w.parsed = (to > from)
      /\ w.ctx.leg = p.leg /\ w.ctx.shut = p.shut /\ w.ctx.pending = ctx.pending
      /\ w.messages = p.messages
  OBVIOUS
<1>8. ContextOK(s, w.ctx, w.offset)
  BY <1>2, <1>7 DEF ContextOK, ReadOK
<1> HIDE DEF w
<1>9. WorkOK(s, w, cur)
  <2>1. From(cur) = from /\ w.ctx.pending = Held(cur)
    BY <1>1, <1>7
  <2>2. w.size <= Len(file[s]) /\ w.offset <= w.size /\ From(cur) <= w.offset
    BY <1>0, <1>2, <1>7, <1>99, <2>1
  <2>3. w.parsed = (w.offset > From(cur))
    BY <1>7, <2>1
  <2>4. GroupsOK(s, w.messages, From(cur), w.offset)
    BY <1>2, <1>7, <2>1 DEF ReadOK
  <2>5. \A n \in (From(cur) + 1)..w.offset : \A c \in Calls :
          IsOf(s, n, c) => OfCall(w.messages, c) # {}
    BY <1>2, <1>7, <2>1 DEF ReadOK
  <2>6. w.quiet /\ s \notin raced => quiet[s] /\ w.offset = Len(file[s])
    BY <1>2, <1>7, <1>99
  <2> QED BY <1>6, <1>8, <2>1, <2>2, <2>3, <2>4, <2>5, <2>6 DEF WorkOK
<1> QED BY <1>9 DEF w, x, p, to, first, nothing_new, size, from, ctx

-----------------------------------------------------------------------------
(* Copilot CLI *)

LEMMA SessionTypes ==
  ASSUME FileOK, NEW s \in Sessions
  PROVE  /\ file[s] \in Seq(LineSet) /\ Len(file[s]) \in Nat /\ DOMAIN file[s] = 1..Len(file[s])
         /\ Leg(s) = LegAt(s, Len(file[s])) /\ Leg(s) \in Nat
<1>1. file[s] \in Seq(LineSet) /\ Len(file[s]) \in Nat /\ DOMAIN file[s] = 1..Len(file[s])
  BY DEF FileOK
<1>2. Leg(s) = LegAt(s, Len(file[s]))
  BY <1>1 DEF Leg, Count, LegAt
<1> QED BY <1>1, <1>2, LegFacts

\* In flight is what is open in the session.
LEMMA InFlightIs ==
  ASSUME FileOK, NEW s \in Sessions, NEW c \in Calls
  PROVE  c \in InFlight(s) <=> SessionOf[c] = s /\ Open(c)
<1>1. HasLine(c) <=> Chunk(c) \in Lines(SessionOf[c]) \/ Message(c) \in Lines(SessionOf[c])
  BY DEF HasLine, IsOf, Lines, ToSet
<1> QED BY <1>1 DEF InFlight, Open

\* The files and the store grow at their ends.
FilesGrow ==
  \A s \in Sessions : /\ Len(file'[s]) \in Nat /\ Len(file[s]) <= Len(file'[s])
                      /\ \A n \in 1..Len(file[s]) : file'[s][n] = file[s][n]
Longer ==
  /\ FilesGrow
  /\ Len(store') \in Nat /\ DOMAIN store' = 1..Len(store') /\ Len(store) <= Len(store')
  /\ \A i \in 1..Len(store) : store'[i] = store[i]
  /\ over \subseteq over' /\ raced \subseteq raced'
  /\ delivered \subseteq delivered'

\* What was said of the lines that were there stays true.
LEMMA LinesKept ==
  ASSUME FileOK, FilesGrow, NEW s \in Sessions
  PROVE  /\ \A n \in 1..Len(file[s]) : \A c : IsOf(s, n, c)' <=> IsOf(s, n, c)
         /\ \A n \in 0..Len(file[s]) : LegAt(s, n)' = LegAt(s, n) /\ ShutAt(s, n)' = ShutAt(s, n)
<1>0. Len(file[s]) \in Nat
  BY SessionTypes
<1>1. \A n \in 1..Len(file[s]) : file'[s][n] = file[s][n]
  BY DEF FilesGrow
<1>2. \A n \in 1..Len(file[s]) : \A c : IsOf(s, n, c)' <=> IsOf(s, n, c)
  BY <1>1 DEF IsOf, Chunk, Message
<1>3. \A n \in 0..Len(file[s]) : \A k \in 1..n : k \in 1..Len(file[s])
  BY <1>0
<1>4. ASSUME NEW n \in 0..Len(file[s])
      PROVE  LegAt(s, n)' = LegAt(s, n) /\ ShutAt(s, n)' = ShutAt(s, n)
  <2>1. \A k \in 1..n : file'[s][k] = file[s][k]
    BY <1>1, <1>3
  <2>2. {k \in 1..n : file'[s][k] = Start} = {k \in 1..n : file[s][k] = Start}
    BY <2>1
  <2>3. LegAt(s, n)' = LegAt(s, n)
    BY <2>2 DEF LegAt, Start
  <2>4. \A k \in 1..n : \A j \in (k + 1)..n : j \in 1..n
    BY <1>0
  <2>5. \A k \in 1..n : (\A j \in (k + 1)..n : file'[s][j] # Start) <=>
                        (\A j \in (k + 1)..n : file[s][j] # Start)
    BY <2>1, <2>4
  <2>6. (\E k \in 1..n : file'[s][k] = Shut /\ \A j \in (k + 1)..n : file'[s][j] # Start) <=>
        (\E k \in 1..n : file[s][k] = Shut /\ \A j \in (k + 1)..n : file[s][j] # Start)
    BY <2>1, <2>5
  <2>7. ShutAt(s, n)' = ShutAt(s, n)
    BY <2>6 DEF ShutAt, Start, Shut
  <2> QED BY <2>3, <2>7
<1> QED BY <1>2, <1>4

LEMMA GroupsKept ==
  ASSUME FileOK, FilesGrow, NEW s \in Sessions, NEW q, NEW a \in Nat, NEW b \in 0..Len(file[s]),
         GroupsOK(s, q, a, b)
  PROVE  GroupsOK(s, q, a, b)'
<1>0. Len(file[s]) \in Nat
  BY SessionTypes
<1>1. ASSUME NEW g, GroupOK(s, g, a, b) PROVE GroupOK(s, g, a, b)'
  <2>1. g.at + 1 \in 1..Len(file[s]) /\ g.at + 1 \in 0..Len(file[s])
    BY <1>0, <1>1 DEF GroupOK
  <2> QED BY <1>1, <2>1, LinesKept DEF GroupOK, Group
<1> QED BY <1>1 DEF GroupsOK, Group

LEMMA CursorKept ==
  ASSUME FileOK, FilesGrow, NEW s \in Sessions, NEW cur, CursorOK(s, cur)
  PROVE  CursorOK(s, cur)'
<1>0. /\ Len(file[s]) \in Nat /\ cur.offset \in Nat /\ cur.size \in Nat
      /\ cur.offset <= cur.size /\ cur.size <= Len(file[s])
  BY SessionTypes DEF CursorOK, Cursor
<1>1. cur.offset \in 0..Len(file[s])
  BY <1>0
<1>2. GroupsOK(s, cur.ctx.pending, 0, cur.offset)'
  BY <1>1, GroupsKept DEF CursorOK
<1>3. ContextOK(s, cur.ctx, cur.offset)'
  BY <1>1, LinesKept DEF CursorOK, ContextOK
<1>4. cur.size <= Len(file'[s])
  BY <1>0 DEF FilesGrow
<1> QED BY <1>2, <1>3, <1>4 DEF CursorOK, Cursor, Context, Group

LEMMA StateKept ==
  ASSUME FileOK, StoreOK, Longer, NEW st, StateOK(st)
  PROVE  /\ st \in State /\ st.hwm <= Len(store') /\ st.done \subseteq (st.hwm + 1)..Len(store')
         /\ StateOK(st)'
<1>0. /\ Len(store) \in Nat /\ DOMAIN store = 1..Len(store) /\ st \in State /\ st.hwm \in Nat
      /\ st.hwm <= Len(store) /\ st.done \subseteq (st.hwm + 1)..Len(store)
  BY DEF StoreOK, StateOK, State
<1>1. st.hwm <= Len(store') /\ st.done \subseteq (st.hwm + 1)..Len(store')
  BY <1>0 DEF Longer
<1>2. \A s \in Sessions : st.cursor[s] # NoCursor => CursorOK(s, st.cursor[s])'
  BY CursorKept DEF StateOK, Longer
<1>3. ASSUME NEW i \in DOMAIN store', RowDone(st, i)
      PROVE  SessionOf[store'[i].call] \in Covered \/ Delivered(store[i].call)'
  <2>1. i \in 1..Len(store)
    <3>1. i \in Nat /\ i >= 1
      BY DEF Longer
    <3> QED BY <1>0, <1>3, <3>1 DEF RowDone
  <2>2. store'[i] = store[i]
    BY <2>1 DEF Longer
  <2>3. SessionOf[store[i].call] \in Covered \/ Delivered(store[i].call)
    BY <1>0, <1>3, <2>1 DEF StateOK
  <2> QED BY <2>2, <2>3 DEF Delivered, Longer
<1> QED BY <1>0, <1>1, <1>2, <1>3 DEF StateOK, RowDone, State, Cursor, Context, Group

\* A work stays as good as its session is quiescent.
LEMMA WorkKept ==
  ASSUME FileOK, FilesGrow, raced \subseteq raced', NEW s \in Sessions, NEW w, NEW cur,
         WorkOK(s, w, cur), From(cur) \in Nat,
         quiet[s] /\ s \notin raced' => quiet'[s] /\ Len(file'[s]) = Len(file[s])
  PROVE  WorkOK(s, w, cur)'
<1>0. /\ Len(file[s]) \in Nat /\ w.offset \in Nat /\ w.size \in Nat
      /\ w.offset <= w.size /\ w.size <= Len(file[s])
  BY SessionTypes DEF WorkOK, Work
<1>1. w.offset \in 0..Len(file[s])
  BY <1>0
<1>2. GroupsOK(s, w.messages, From(cur), w.offset)'
  BY <1>1, GroupsKept DEF WorkOK, From
<1>3. ContextOK(s, w.ctx, w.offset)'
  BY <1>1, LinesKept DEF WorkOK, ContextOK
<1>4. w.size <= Len(file'[s])
  BY <1>0 DEF FilesGrow
<1>5. \A n \in (From(cur) + 1)..w.offset : \A c \in Calls :
        IsOf(s, n, c)' => OfCall(w.messages, c) # {}
  <2>1. \A n \in (From(cur) + 1)..w.offset : n \in 1..Len(file[s])
    BY <1>0
  <2> QED BY <2>1, LinesKept DEF WorkOK
<1>6. w.quiet /\ s \notin raced' => quiet'[s] /\ w.offset = Len(file'[s])
  BY DEF WorkOK
<1> QED BY <1>2, <1>3, <1>4, <1>5, <1>6
        DEF WorkOK, Work, Context, Group, From, Held, OfCall

\* A line is written at the end of a file of N lines.
Written(s, l, N) ==
  /\ N = Len(file[s]) /\ l \in LineSet
  /\ file' = [file EXCEPT ![s] = Append(@, l)]

LEMMA WriteFacts ==
  ASSUME FileOK, NEW s \in Sessions, NEW l, NEW N, Written(s, l, N)
  PROVE  /\ file' \in [Sessions -> Seq(LineSet)] /\ N \in Nat
         /\ \A t \in Sessions : t # s => file'[t] = file[t]
         /\ Len(file'[s]) = N + 1 /\ DOMAIN file'[s] = 1..(N + 1)
         /\ file'[s][N + 1] = l
         /\ FilesGrow
         /\ Leg(s)' = IF l = Start THEN Leg(s) + 1 ELSE Leg(s)
         /\ LegAt(s, N + 1)' = Leg(s)'
<1>0. file[s] \in Seq(LineSet) /\ N = Len(file[s]) /\ N \in Nat /\ DOMAIN file[s] = 1..N /\ l \in LineSet
  BY SessionTypes DEF Written
<1>1. file'[s] = Append(file[s], l) /\ \A t \in Sessions : t # s => file'[t] = file[t]
  BY DEF FileOK, Written
<1>2. Append(file[s], l) \in Seq(LineSet)
  BY <1>0
<1>3. file' \in [Sessions -> Seq(LineSet)]
  BY <1>2 DEF FileOK, Written
<1>4. /\ Len(file'[s]) = N + 1 /\ DOMAIN file'[s] = 1..(N + 1)
      /\ file'[s][N + 1] = l /\ \A n \in 1..N : file'[s][n] = file[s][n]
  BY <1>0, <1>1
<1>5. FilesGrow
  <2>1. \A t \in Sessions : Len(file[t]) \in Nat
    BY SessionTypes
  <2> QED BY <1>0, <1>1, <1>4, <2>1 DEF FilesGrow
<1> DEFINE A == {k \in 1..N : file[s][k] = Start}
           B == {k \in 1..(N + 1) : file'[s][k] = Start}
<1>6. Leg(s) = Cardinality(A)
  BY <1>0 DEF Leg, Count
<1>7. Leg(s)' = Cardinality(B)
  BY <1>4 DEF Leg, Count, Start
<1>8. LegAt(s, N + 1)' = Cardinality(B)
  BY DEF LegAt, Start
<1>9. IsFiniteSet(A) /\ N + 1 \notin A
  <2>1. A \in SUBSET (1..N) /\ IsFiniteSet(1..N)
    BY <1>0, FS_Interval
  <2> QED BY <1>0, <2>1, FS_Subset
<1>10. B = IF l = Start THEN A \cup {N + 1} ELSE A
  <2>1. \A k : k \in 1..(N + 1) <=> k \in 1..N \/ k = N + 1
    BY <1>0
  <2> QED BY <1>4, <2>1
<1> HIDE DEF A, B
<1>11. Leg(s)' = IF l = Start THEN Leg(s) + 1 ELSE Leg(s)
  BY <1>6, <1>7, <1>9, <1>10, FS_AddElement
<1> QED BY <1>0, <1>1, <1>3, <1>4, <1>5, <1>7, <1>8, <1>11
\* What the CLI may write: a leg that is shut down is followed by another, and of a call
\* that is not over what is not there yet.
MayWrite(s, l, N) ==
  /\ Written(s, l, N)
  /\ l = Start \/ (N > 0 /\ file[s][N] # Shut)
  /\ \A c : l \in {Chunk(c), Message(c)} =>
       /\ c \in Calls \ (RowOnly \cup over) /\ SessionOf[c] = s
       /\ Message(c) \notin Lines(s) /\ l \notin Lines(s)

\* The line of a call goes to the leg of the others.
LEMMA SameLeg ==
  ASSUME CliOK, NEW s \in Sessions, NEW l, NEW N, MayWrite(s, l, N),
         NEW c, l \in {Chunk(c), Message(c)}
  PROVE  /\ \A n \in 1..N : IsOf(s, n, c) => LegAt(s, n) = Leg(s)
         /\ \A i \in DOMAIN store : store[i].call = c => store[i].leg = Leg(s)
         /\ l # Start /\ l # Shut
<1>1. /\ c \in Calls /\ c \notin RowOnly /\ c \notin over /\ SessionOf[c] = s
      /\ Message(c) \notin Lines(s)
  BY DEF MayWrite
<1>2. DOMAIN file[s] = 1..N
  BY SessionTypes DEF CliOK, MayWrite, Written
<1>3. Open(c) => /\ \A n \in 1..N : IsOf(s, n, c) => LegAt(s, n) = Leg(s)
                 /\ \A i \in DOMAIN store : store[i].call = c => store[i].leg = Leg(s)
  BY <1>1, <1>2 DEF CliOK, FlightOK
<1>4. (\E n \in 1..N : IsOf(s, n, c)) => Open(c)
  BY <1>1, <1>2 DEF Open, HasLine
<1>5. (\E i \in DOMAIN store : store[i].call = c) => Open(c)
  BY <1>1 DEF Open, Logged, ToSet
<1>6. l # Start /\ l # Shut
  BY DEF Start, Shut, Chunk, Message
<1> QED BY <1>3, <1>4, <1>5, <1>6

LEMMA WriteKeepsFile ==
  ASSUME CliOK, NEW s \in Sessions, NEW l, NEW N, MayWrite(s, l, N)
  PROVE  FileOK'
<1>0. FileOK /\ Written(s, l, N)
  BY DEF CliOK, MayWrite
<1>1. /\ file' \in [Sessions -> Seq(LineSet)] /\ N \in Nat
      /\ \A t \in Sessions : t # s => file'[t] = file[t]
      /\ Len(file'[s]) = N + 1 /\ DOMAIN file'[s] = 1..(N + 1)
      /\ file'[s][N + 1] = l /\ FilesGrow
      /\ Leg(s)' = (IF l = Start THEN Leg(s) + 1 ELSE Leg(s))
      /\ LegAt(s, N + 1)' = Leg(s)'
  BY <1>0, WriteFacts
<1>2. N = Len(file[s]) /\ DOMAIN file[s] = 1..N
  BY <1>0, SessionTypes DEF Written
<1>3. /\ \A n \in 1..N : file'[s][n] = file[s][n]
      /\ \A n \in 1..N : \A c : IsOf(s, n, c)' <=> IsOf(s, n, c)
      /\ \A n \in 1..N : LegAt(s, n)' = LegAt(s, n)
  <2>1. \A n \in 1..N : n \in 0..Len(file[s])
    BY <1>1, <1>2
  <2> QED BY <1>0, <1>1, <1>2, <2>1, LinesKept DEF FilesGrow
<1>4. \A c : IsOf(s, N + 1, c)' <=> l \in {Chunk(c), Message(c)}
  BY <1>1 DEF IsOf, Chunk, Message
<1>5. \A n : n \in 1..(N + 1) <=> n \in 1..N \/ n = N + 1
  BY <1>1
<1>6. ASSUME NEW m \in 1..(N + 1), NEW n \in 1..(N + 1), NEW c \in Calls
      PROVE  /\ IsOf(s, n, c)' => SessionOf[c] = s
             /\ IsOf(s, m, c)' /\ file'[s][m] = file'[s][n] => m = n
             /\ IsOf(s, m, c)' /\ IsOf(s, n, c)' => LegAt(s, m)' = LegAt(s, n)'
  <2>1. CASE m \in 1..N /\ n \in 1..N
    BY <1>0, <1>2, <1>3, <2>1 DEF FileOK
  <2>2. ASSUME NEW k \in 1..N, IsOf(s, k, c), l \in {Chunk(c), Message(c)}
        PROVE  SessionOf[c] = s /\ file[s][k] # l /\ LegAt(s, k) = Leg(s) /\ Leg(s)' = Leg(s)
    <3>1. file[s][k] \in Lines(s)
      BY <1>2 DEF Lines, ToSet
    <3>2. l \notin Lines(s) /\ SessionOf[c] = s
      BY <2>2 DEF MayWrite
    <3>3. LegAt(s, k) = Leg(s) /\ l # Start
      BY <2>2, SameLeg
    <3> QED BY <1>1, <3>1, <3>2, <3>3
  <2>3. ASSUME NEW k \in 1..N, IsOf(s, k, c), ~(l \in {Chunk(c), Message(c)})
        PROVE  SessionOf[c] = s /\ file[s][k] # l
    BY <1>0, <1>2, <2>3 DEF FileOK, IsOf
  <2>4. ASSUME l \in {Chunk(c), Message(c)} PROVE SessionOf[c] = s
    BY <2>4 DEF MayWrite
  <2>5. ASSUME NEW k \in 1..N, ~IsOf(s, k, c), l \in {Chunk(c), Message(c)} PROVE file[s][k] # l
    BY <2>5 DEF IsOf
  <2>6. CASE m = N + 1 /\ n \in 1..N
    BY <1>1, <1>3, <1>4, <2>2, <2>3, <2>4, <2>5, <2>6, <1>0, <1>2 DEF FileOK
  <2>7. CASE m \in 1..N /\ n = N + 1
    BY <1>1, <1>3, <1>4, <2>2, <2>3, <2>4, <2>5, <2>7, <1>0, <1>2 DEF FileOK
  <2>8. CASE m = N + 1 /\ n = N + 1
    BY <1>4, <2>4, <2>8
  <2> QED BY <1>5, <2>1, <2>6, <2>7, <2>8
<1>7. ASSUME NEW t \in Sessions, t # s, NEW m \in DOMAIN file'[t], NEW n \in DOMAIN file'[t], NEW c \in Calls
      PROVE  /\ IsOf(t, n, c)' => SessionOf[c] = t
             /\ IsOf(t, m, c)' /\ file'[t][m] = file'[t][n] => m = n
             /\ IsOf(t, m, c)' /\ IsOf(t, n, c)' => LegAt(t, m)' = LegAt(t, n)'
  <2>1. file'[t] = file[t]
    BY <1>1, <1>7
  <2>2. m \in DOMAIN file[t] /\ n \in DOMAIN file[t] /\ DOMAIN file[t] = 1..Len(file[t]) /\ Len(file[t]) \in Nat
    BY <1>0, <2>1, SessionTypes
  <2>3. m \in 1..Len(file[t]) /\ n \in 1..Len(file[t]) /\ m \in 0..Len(file[t]) /\ n \in 0..Len(file[t])
    BY <2>2
  <2>4. /\ IsOf(t, m, c)' <=> IsOf(t, m, c)
        /\ IsOf(t, n, c)' <=> IsOf(t, n, c)
        /\ LegAt(t, m)' = LegAt(t, m) /\ LegAt(t, n)' = LegAt(t, n)
    BY <1>0, <1>1, <2>3, LinesKept
  <2> QED BY <1>0, <2>1, <2>2, <2>4 DEF FileOK
<1>8. ASSUME NEW t \in Sessions, NEW n \in DOMAIN file'[t], n < Len(file'[t]), file'[t][n] = Shut
      PROVE  file'[t][n + 1] = Start
  <2>1. CASE t # s
    BY <1>0, <1>1, <1>8, <2>1 DEF FileOK
  <2>2. CASE t = s /\ n < N
    <3>1. n \in 1..N /\ n + 1 \in 1..N
      BY <1>1, <1>8, <2>2
    <3> QED BY <1>0, <1>2, <1>3, <1>8, <2>2, <3>1 DEF FileOK
  <2>3. CASE t = s /\ n = N
    <3>1. n \in 1..N /\ file[s][N] = Shut
      BY <1>1, <1>3, <1>8, <2>3
    <3> QED BY <1>1, <2>3, <3>1 DEF MayWrite
  <2> QED BY <1>1, <1>8, <2>1, <2>2, <2>3
<1>9. FileOK'
  <2>1. \A t \in Sessions : \A m, n \in DOMAIN file'[t] : \A c \in Calls :
             /\ IsOf(t, n, c)' => SessionOf[c] = t
             /\ IsOf(t, m, c)' /\ file'[t][m] = file'[t][n] => m = n
             /\ IsOf(t, m, c)' /\ IsOf(t, n, c)' => LegAt(t, m)' = LegAt(t, n)'
    BY <1>1, <1>6, <1>7
  <2> QED BY <1>1, <1>8, <2>1 DEF FileOK, LineSet, Start, Shut, Prompt, Chunk, Message
<1> QED BY <1>9

\* What a written line changes in what is said of lines.
LEMMA WriteLines ==
  ASSUME FileOK, NEW s \in Sessions, NEW l, NEW N, Written(s, l, N)
  PROVE  /\ \A t \in Sessions : \A n \in DOMAIN file[t] :
              /\ n \in DOMAIN file'[t] /\ file'[t][n] = file[t][n] /\ LegAt(t, n)' = LegAt(t, n)
              /\ \A c : IsOf(t, n, c)' <=> IsOf(t, n, c)
         /\ \A t \in Sessions : \A n \in DOMAIN file'[t] : n \in DOMAIN file[t] \/ (t = s /\ n = N + 1)
         /\ \A c : IsOf(s, N + 1, c)' <=> l \in {Chunk(c), Message(c)}
         /\ \A t \in Sessions : Leg(t) <= Leg(t)' /\ (t # s \/ l # Start => Leg(t)' = Leg(t))
<1>1. /\ N \in Nat /\ \A t \in Sessions : t # s => file'[t] = file[t]
      /\ Len(file'[s]) = N + 1 /\ DOMAIN file'[s] = 1..(N + 1)
      /\ file'[s][N + 1] = l /\ FilesGrow
      /\ Leg(s)' = (IF l = Start THEN Leg(s) + 1 ELSE Leg(s))
  BY WriteFacts
<1>2. N = Len(file[s]) /\ DOMAIN file[s] = 1..N
  BY SessionTypes DEF Written
<1>3. ASSUME NEW t \in Sessions, NEW n \in DOMAIN file[t]
      PROVE  /\ n \in DOMAIN file'[t] /\ file'[t][n] = file[t][n] /\ LegAt(t, n)' = LegAt(t, n)
             /\ \A c : IsOf(t, n, c)' <=> IsOf(t, n, c)
  <2>1. n \in 1..Len(file[t]) /\ n \in 0..Len(file[t])
    BY SessionTypes
  <2>2. n \in DOMAIN file'[t]
    BY <1>1, <1>2, <2>1
  <2> QED BY <1>1, <2>1, <2>2, LinesKept DEF FilesGrow
<1>4. \A t \in Sessions : \A n \in DOMAIN file'[t] : n \in DOMAIN file[t] \/ (t = s /\ n = N + 1)
  BY <1>1, <1>2
<1>5. \A c : IsOf(s, N + 1, c)' <=> l \in {Chunk(c), Message(c)}
  BY <1>1 DEF IsOf, Chunk, Message
<1>6. ASSUME NEW t \in Sessions PROVE Leg(t) <= Leg(t)' /\ (t # s \/ l # Start => Leg(t)' = Leg(t))
  <2>1. Leg(t) \in Nat
    BY SessionTypes
  <2>2. t # s => Leg(t)' = Leg(t)
    BY <1>1 DEF Leg, Count, Start
  <2> QED BY <1>1, <2>1, <2>2
<1> QED BY <1>3, <1>4, <1>5, <1>6

\* A row is of a call, and of a leg of its session.
LEMMA RowFacts ==
  ASSUME StoreOK
  PROVE  /\ Len(store) \in Nat /\ DOMAIN store = 1..Len(store)
         /\ \A i \in DOMAIN store : /\ store[i].call \in Calls /\ store[i].leg \in Nat
                                   /\ SessionOf[store[i].call] \in Sessions
                                   /\ RowOK(i, SessionOf[store[i].call])
<1>1. store \in Seq([call : Calls, leg : Nat])
  BY DEF StoreOK
<1>2. Len(store) \in Nat /\ DOMAIN store = 1..Len(store)
  BY <1>1
<1>3. \A i \in DOMAIN store : store[i] \in [call : Calls, leg : Nat]
  BY <1>1, <1>2, ElementOfSeq
<1>4. \A i \in DOMAIN store : SessionOf[store[i].call] \in Sessions
  BY <1>3, CollectorAssumption
<1> QED BY <1>2, <1>3, <1>4 DEF StoreOK

LEMMA WriteKeepsStore ==
  ASSUME CliOK, NEW s \in Sessions, NEW l, NEW N, MayWrite(s, l, N), store' = store,
         \A t \in Sessions : place[t] # "new" => place'[t] # "new"
  PROVE  StoreOK'
<1>0. FileOK /\ Written(s, l, N) /\ StoreOK
  BY DEF CliOK, MayWrite
<1>1. ASSUME NEW i \in DOMAIN store, NEW t \in Sessions, t = SessionOf[store[i].call]
      PROVE  RowOK(i, t)'
  <2>1. /\ place[t] # "new" /\ store[i].leg <= Leg(t) /\ store[i].leg \in Nat
        /\ \A n \in DOMAIN file[t] : IsOf(t, n, store[i].call) => store[i].leg = LegAt(t, n)
    BY <1>0, <1>1, RowFacts DEF RowOK
  <2>2. Leg(t) <= Leg(t)' /\ Leg(t) \in Nat /\ (t # s \/ l # Start => Leg(t)' = Leg(t))
    BY <1>0, WriteLines, SessionTypes
  <2>3. store[i].leg <= Leg(t)'
    <3>1. Leg(t)' \in Nat
      <4>1. CASE t = s
        BY <1>0, <2>2, <4>1, WriteFacts
      <4> QED BY <2>2, <4>1
    <3> QED BY <2>1, <2>2, <3>1
  <2>4. ASSUME NEW n \in DOMAIN file'[t], IsOf(t, n, store[i].call)' PROVE store[i].leg = LegAt(t, n)'
    <3>1. CASE n \in DOMAIN file[t]
      BY <1>0, <2>1, <2>4, <3>1, WriteLines
    <3>2. CASE t = s /\ n = N + 1
      <4>1. l \in {Chunk(store[i].call), Message(store[i].call)}
        BY <1>0, <2>4, <3>2, WriteLines
      <4>2. store[i].leg = Leg(s) /\ l # Start
        BY <4>1, SameLeg
      <4> QED BY <1>0, <3>2, <4>2, WriteFacts
    <3> QED BY <1>0, <2>4, <3>1, <3>2, WriteLines
  <2> QED BY <2>1, <2>3, <2>4 DEF RowOK
<1>2. \A i \in DOMAIN store : SessionOf[store[i].call] \in Sessions
  BY <1>0, RowFacts
<1>3. \A i \in DOMAIN store : RowOK(i, SessionOf[store[i].call])'
  BY <1>1, <1>2
<1> QED BY <1>0, <1>3 DEF StoreOK

LEMMA WriteKeepsFlight ==
  ASSUME CliOK, NEW s \in Sessions, NEW l, NEW N, MayWrite(s, l, N), store' = store,
         over \subseteq over', quiet' = [quiet EXCEPT ![s] = FALSE],
         l \in {Start, Shut} => InFlight(s) \subseteq over'
  PROVE  FlightOK'
<1>0. FileOK /\ Written(s, l, N) /\ FlightOK
  BY DEF CliOK, MayWrite
<1>1. /\ N \in Nat /\ \A t \in Sessions : t # s => file'[t] = file[t]
      /\ Len(file'[s]) = N + 1 /\ DOMAIN file'[s] = 1..(N + 1)
      /\ file'[s][N + 1] = l /\ LegAt(s, N + 1)' = Leg(s)'
  BY <1>0, WriteFacts
<1>2. quiet'[s] = FALSE /\ \A t \in Sessions : t # s => quiet'[t] = quiet[t]
  BY DEF CliOK
<1> SUFFICES ASSUME NEW c \in Calls, c \notin over', Open(c)', NEW t \in Sessions, t = SessionOf[c]
             PROVE  /\ ~quiet'[t] /\ file'[t][Len(file'[t])] # Shut
                    /\ \A n \in DOMAIN file'[t] : IsOf(t, n, c)' => LegAt(t, n)' = Leg(t)'
                    /\ \A i \in DOMAIN store : store[i].call = c => store[i].leg = Leg(t)'
  BY CollectorAssumption DEF FlightOK, Shut
<1>3. CASE l \in {Chunk(c), Message(c)}
  <2>1. t = s
    BY <1>3 DEF MayWrite
  <2>2. /\ \A n \in 1..N : IsOf(s, n, c) => LegAt(s, n) = Leg(s)
        /\ \A i \in DOMAIN store : store[i].call = c => store[i].leg = Leg(s)
        /\ l # Start /\ l # Shut
    BY <1>3, SameLeg
  <2>3. Leg(s)' = Leg(s) /\ DOMAIN file[s] = 1..N
    <3>1. N = Len(file[s])
      BY <1>0 DEF Written
    <3> QED BY <1>0, <2>2, <3>1, WriteLines, SessionTypes
  <2>4. ASSUME NEW n \in DOMAIN file'[s], IsOf(s, n, c)' PROVE LegAt(s, n)' = Leg(s)'
    BY <1>0, <1>1, <2>2, <2>3, <2>4, WriteLines
  <2> QED BY <1>1, <1>2, <2>1, <2>2, <2>3, <2>4
<1>4. CASE l \notin {Chunk(c), Message(c)}
  <2>1. Open(c)
    <3>1. HasLine(c)' => HasLine(c)
      <4>1. ASSUME NEW n \in DOMAIN file'[t], IsOf(t, n, c)' PROVE n \in DOMAIN file[t] /\ IsOf(t, n, c)
        BY <1>0, <1>4, <4>1, WriteLines
      <4> QED BY <4>1 DEF HasLine
    <3>2. Logged' = Logged
      BY DEF Logged
    <3>3. Message(c) \in Lines(t) => Message(c) \in Lines(t)'
      <4>1. \A n \in DOMAIN file[t] : n \in DOMAIN file'[t] /\ file'[t][n] = file[t][n]
        BY <1>0, WriteLines
      <4> QED BY <4>1 DEF Lines, ToSet
    <3> QED BY <3>1, <3>2, <3>3 DEF Open, Message
  <2>2. /\ ~quiet[t] /\ file[t][Len(file[t])] # Shut
        /\ \A n \in DOMAIN file[t] : IsOf(t, n, c) => LegAt(t, n) = Leg(t)
        /\ \A i \in DOMAIN store : store[i].call = c => store[i].leg = Leg(t)
    BY <1>0, <2>1 DEF FlightOK
  <2>3. t = s => l # Start /\ l # Shut
    BY <1>0, <2>1, InFlightIs
  <2>4. Leg(t)' = Leg(t)
    BY <1>0, <2>3, WriteLines
  <2>5. ~quiet'[t] /\ file'[t][Len(file'[t])] # Shut
    BY <1>1, <1>2, <2>2, <2>3
  <2>6. ASSUME NEW n \in DOMAIN file'[t], IsOf(t, n, c)' PROVE LegAt(t, n)' = Leg(t)'
    BY <1>0, <1>4, <2>2, <2>4, <2>6, WriteLines
  <2> QED BY <2>2, <2>4, <2>5, <2>6
<1> QED BY <1>3, <1>4

\* Nothing more is written of a call that is over, and no row of a call that has one.
\* A directory that is gone stays so.
Careful ==
  /\ \A c \in Calls : c \in over \cup RowOnly /\ HasLine(c)' => HasLine(c)
  /\ \A c \in over \cup Logged : \A i \in DOMAIN store' : store'[i].call = c => i \in DOMAIN store
  /\ \A s \in Sessions : place[s] = "past" => place'[s] = "past"
  /\ \A s \in Sessions :
       place'[s] \in {"gone", "past"} => place[s] \in {"gone", "past"} \/ faults = 0 \/ Forgets

\* What a run sees of the CLI's steps: quiescent sessions stay so while it reads the files,
\* or are written; afterwards only directories disappear.
Steady ==
  /\ Longer /\ Careful /\ UNCHANGED <<saved, job, delivered, faults>>
  /\ job.stage = "parse" => \A s \in Sessions :
       /\ place'[s] = "live" /\ quiet'[s] => place[s] = "live" /\ quiet[s]
       /\ quiet[s] /\ s \notin raced' => quiet'[s] /\ Len(file'[s]) = Len(file[s])
  /\ job.stage \in {"emit", "save"} =>
       /\ UNCHANGED <<file, quiet, store, over, raced>>
       /\ \A s \in Sessions : \/ place'[s] = place[s]
                              \/ place[s] = "live" /\ place'[s] = IF quiet[s] THEN "past" ELSE "gone"

LEMMA WriteKeeps ==
  ASSUME CliOK, NEW s \in Sessions, NEW l, NEW N, MayWrite(s, l, N), Write(s, l),
         place[s] \in {"new", "live"}, place' = [place EXCEPT ![s] = "live"],
         l \in {Start, Shut} => InFlight(s) \subseteq over',
         over \subseteq over', over' \subseteq Calls,
         UNCHANGED <<store, saved, job, delivered, faults>>, job.stage \in {"idle", "parse"}
  PROVE  CliOK' /\ Steady
<1>0. FileOK /\ Written(s, l, N) /\ StoreOK
  BY DEF CliOK, MayWrite
<1>1. /\ N \in Nat /\ \A t \in Sessions : t # s => file'[t] = file[t]
      /\ FilesGrow
  BY <1>0, WriteFacts
<1>2. /\ place' \in [Sessions -> {"new", "live", "gone", "past"}] /\ place'[s] = "live"
      /\ \A t \in Sessions : t # s => place'[t] = place[t]
  BY DEF CliOK
<1>3. /\ quiet' = [quiet EXCEPT ![s] = FALSE] /\ quiet' \in [Sessions -> BOOLEAN] /\ quiet'[s] = FALSE
      /\ \A t \in Sessions : t # s => quiet'[t] = quiet[t]
      /\ raced \subseteq raced' /\ raced' \subseteq Sessions
      /\ quiet[s] /\ job.stage = "parse" => s \in raced'
  BY DEF CliOK, Write
<1>4. FileOK' /\ StoreOK' /\ FlightOK'
  <2>1. \A t \in Sessions : place[t] # "new" => place'[t] # "new"
    BY <1>2
  <2> QED BY <1>3, <2>1, WriteKeepsFile, WriteKeepsStore, WriteKeepsFlight
<1>5. CliOK'
  <2>1. \A t \in Sessions : place'[t] \in {"new", "gone"} => ~quiet'[t]
    BY <1>2, <1>3 DEF CliOK
  <2>2. \A t \in Sessions : place'[t] = "new" => file'[t] = <<>>
    BY <1>1, <1>2 DEF CliOK
  <2> QED BY <1>2, <1>3, <1>4, <2>1, <2>2 DEF CliOK
<1>6. Longer
  <2>1. Len(store) \in Nat /\ DOMAIN store = 1..Len(store)
    BY <1>0, RowFacts
  <2> QED BY <1>1, <1>3, <2>1 DEF Longer
<1>7. job.stage = "parse" => \A t \in Sessions :
        /\ place'[t] = "live" /\ quiet'[t] => place[t] = "live" /\ quiet[t]
        /\ quiet[t] /\ t \notin raced' => quiet'[t] /\ Len(file'[t]) = Len(file[t])
  BY <1>1, <1>2, <1>3
<1>8. Careful
  <2>1. ASSUME NEW c \in Calls, c \in over \cup RowOnly, HasLine(c)' PROVE HasLine(c)
    <3>1. PICK n \in DOMAIN file'[SessionOf[c]] : IsOf(SessionOf[c], n, c)'
      BY <2>1 DEF HasLine
    <3>2. SessionOf[c] \in Sessions
      BY CollectorAssumption
    <3>3. l \notin {Chunk(c), Message(c)}
      BY <2>1 DEF MayWrite
    <3>4. n \in DOMAIN file[SessionOf[c]] /\ IsOf(SessionOf[c], n, c)
      BY <1>0, <3>1, <3>2, <3>3, WriteLines
    <3> QED BY <3>4 DEF HasLine
  <2> QED BY <1>2, <2>1 DEF Careful
<1> QED BY <1>5, <1>6, <1>7, <1>8 DEF Steady

\* A session that goes on has a line, and the last is not a shutdown.
LEMMA RunningFacts ==
  ASSUME CliOK, NEW s \in Sessions, Running(s)
  PROVE  Len(file[s]) > 0 /\ file[s][Len(file[s])] # Shut /\ place[s] = "live"
<1>1. Len(file[s]) \in Nat /\ Leg(s) = LegAt(s, Len(file[s])) /\ LegAt(s, 0) = 0
  BY SessionTypes, LegFacts DEF CliOK
<1> QED BY <1>1 DEF Running

LEMMA InFlightCalls ==
  \A s : InFlight(s) \subseteq Calls
BY DEF InFlight

LEMMA ResumeKeeps ==
  ASSUME CliOK, NEW s \in Sessions, Resume(s), job.stage \in {"idle", "parse"}
  PROVE  CliOK' /\ Steady
<1> DEFINE N == Len(file[s])
<1>1. \A c : Start \notin {Chunk(c), Message(c)}
  BY DEF Start, Chunk, Message
<1>2. MayWrite(s, Start, N)
  BY <1>1 DEF MayWrite, Written, LineSet, Resume, Write
<1> QED BY <1>2, WriteKeeps, InFlightCalls DEF Resume, CliOK

LEMMA WakeKeeps ==
  ASSUME CliOK, NEW s \in Sessions, Wake(s), job.stage \in {"idle", "parse"}
  PROVE  CliOK' /\ Steady
<1> DEFINE N == Len(file[s])
<1>0. Running(s) /\ N > 0 /\ file[s][N] # Shut /\ place[s] = "live"
  BY RunningFacts DEF Wake
<1>1. (\A c : Prompt \notin {Chunk(c), Message(c)}) /\ Prompt \notin {Start, Shut}
  BY DEF Start, Shut, Prompt, Chunk, Message
<1>2. MayWrite(s, Prompt, N)
  BY <1>0, <1>1 DEF MayWrite, Written, LineSet, Wake, Write
<1>3. place' = [place EXCEPT ![s] = "live"]
  BY <1>0 DEF Wake, CliOK
<1> QED BY <1>0, <1>1, <1>2, <1>3, WriteKeeps DEF Wake, CliOK

LEMMA ShutdownKeeps ==
  ASSUME CliOK, NEW s \in Sessions, Shutdown(s), job.stage \in {"idle", "parse"}
  PROVE  CliOK' /\ Steady
<1> DEFINE N == Len(file[s])
<1>0. Running(s) /\ N > 0 /\ file[s][N] # Shut /\ place[s] = "live"
  BY RunningFacts DEF Shutdown
<1>1. \A c : Shut \notin {Chunk(c), Message(c)}
  BY DEF Shut, Chunk, Message
<1>2. MayWrite(s, Shut, N)
  BY <1>0, <1>1 DEF MayWrite, Written, LineSet, Shutdown, Write
<1>3. place' = [place EXCEPT ![s] = "live"]
  BY <1>0 DEF Shutdown, CliOK
<1> QED BY <1>0, <1>2, <1>3, WriteKeeps, InFlightCalls DEF Shutdown, CliOK

LEMMA SayKeeps ==
  ASSUME CliOK, NEW c \in Calls, Say(c), job.stage \in {"idle", "parse"}
  PROVE  CliOK' /\ Steady
<1> DEFINE s == SessionOf[c]
           N == Len(file[s])
           l == IF c \in Chunked /\ Chunk(c) \notin Lines(s) THEN Chunk(c) ELSE Message(c)
<1>0. s \in Sessions
  BY CollectorAssumption
<1>1. Running(s) /\ N > 0 /\ file[s][N] # Shut /\ place[s] = "live"
  BY <1>0, RunningFacts DEF Say
<1>2. l \in LineSet /\ l \notin Lines(s) /\ l \in {Chunk(c), Message(c)}
  BY DEF Say, LineSet
<1>3. (\A d : l \in {Chunk(d), Message(d)} => d = c) /\ l \notin {Start, Shut}
  BY DEF Start, Shut, Chunk, Message
<1>4. MayWrite(s, l, N)
  BY <1>1, <1>2, <1>3 DEF MayWrite, Written, Say, Write
<1>5. place' = [place EXCEPT ![s] = "live"]
  BY <1>0, <1>1 DEF Say, CliOK
<1>6. Write(s, l) /\ UNCHANGED <<store, saved, job, delivered, faults, over>>
  BY DEF Say
<1> HIDE DEF s, l, N
<1> QED BY <1>0, <1>1, <1>3, <1>4, <1>5, <1>6, WriteKeeps DEF CliOK

\* Without a new line nothing that is said of lines changes.
LEMMA FilesSame ==
  ASSUME FileOK, file' = file
  PROVE  /\ FileOK' /\ FilesGrow
         /\ \A s \in Sessions : Leg(s)' = Leg(s)
         /\ \A s \in Sessions : \A n \in DOMAIN file[s] : LegAt(s, n)' = LegAt(s, n)
         /\ \A s \in Sessions : \A n, c : IsOf(s, n, c)' <=> IsOf(s, n, c)
         /\ \A c : HasLine(c)' <=> HasLine(c)
         /\ \A s \in Sessions : Lines(s)' = Lines(s)
<1>1. \A s \in Sessions : Len(file[s]) \in Nat /\ DOMAIN file[s] = 1..Len(file[s])
  BY SessionTypes
<1>2. FilesGrow
  BY <1>1 DEF FilesGrow
<1>3. \A s \in Sessions : Leg(s)' = Leg(s) /\ Lines(s)' = Lines(s)
  BY DEF Leg, Count, Start, Lines
<1>4. \A s \in Sessions : \A n, c : IsOf(s, n, c)' <=> IsOf(s, n, c)
  BY DEF IsOf, Chunk, Message
<1>5. \A c : HasLine(c)' <=> HasLine(c)
  BY DEF HasLine, IsOf, Chunk, Message
<1>6. \A s \in Sessions : \A n : LegAt(s, n)' = LegAt(s, n)
  BY DEF LegAt, Start
<1>7. FileOK'
  BY <1>4, <1>6 DEF FileOK, LineSet, Start, Shut, Prompt, Chunk, Message
<1> QED BY <1>2, <1>3, <1>4, <1>5, <1>6, <1>7

LEMMA LogRowKeeps ==
  ASSUME CliOK, NEW c \in Calls, LogRow(c), job.stage \in {"idle", "parse"}
  PROVE  CliOK' /\ Steady
<1> DEFINE s == SessionOf[c]
           N == Len(store)
           x == [call |-> c, leg |-> Leg(s)]
<1>0. FileOK /\ StoreOK /\ FlightOK /\ s \in Sessions /\ file' = file
  BY CollectorAssumption DEF CliOK, LogRow
<1>1. /\ Running(s) /\ file[s][Len(file[s])] # Shut /\ place[s] = "live"
      /\ ~quiet[s] /\ c \notin over /\ c \notin Logged
  BY <1>0, RunningFacts DEF LogRow
<1>2. N \in Nat /\ DOMAIN store = 1..N /\ store \in Seq([call : Calls, leg : Nat])
  BY <1>0, RowFacts DEF StoreOK
<1>3. x \in [call : Calls, leg : Nat] /\ store' = Append(store, x)
  BY <1>0, SessionTypes DEF LogRow
<1>4. /\ store' \in Seq([call : Calls, leg : Nat]) /\ Len(store') = N + 1 /\ DOMAIN store' = 1..(N + 1)
      /\ store'[N + 1] = x /\ \A i \in 1..N : store'[i] = store[i]
  <2> HIDE DEF x
  <2> QED BY <1>2, <1>3
<1>5. \A i : i \in 1..(N + 1) <=> i \in 1..N \/ i = N + 1
  BY <1>2
<1>6. x.call = c /\ x.leg = Leg(s)
  OBVIOUS
<1>7. HasLine(c) => Open(c)
  BY <1>1 DEF Open
<1>8. \A n \in DOMAIN file[s] : IsOf(s, n, c) => LegAt(s, n) = Leg(s)
  BY <1>0, <1>1, <1>7 DEF FlightOK, HasLine
<1>9. \A i \in 1..N : store[i].call # c
  BY <1>1, <1>2 DEF Logged, ToSet
<1> HIDE DEF x, N, s
<1>10. StoreOK'
  <2>1. \A i, j \in DOMAIN store' : store'[i].call = store'[j].call => i = j
    <3>1. \A i, j \in 1..N : store[i].call = store[j].call => i = j
      BY <1>0, <1>2 DEF StoreOK
    <3> QED BY <1>4, <1>5, <1>6, <1>9, <3>1
  <2>2. ASSUME NEW i \in DOMAIN store', NEW t, t = SessionOf[store'[i].call] PROVE RowOK(i, t)'
    <3>1. t \in Sessions
      <4>1. store'[i] \in [call : Calls, leg : Nat]
        BY <1>4, ElementOfSeq
      <4> QED BY <2>2, <4>1, CollectorAssumption
    <3>2. /\ place' = place /\ Leg(t)' = Leg(t) /\ Leg(t) \in Nat
          /\ \A n \in DOMAIN file[t] : LegAt(t, n)' = LegAt(t, n)
          /\ \A n, d : IsOf(t, n, d)' <=> IsOf(t, n, d)
      BY <1>0, <3>1, FilesSame, SessionTypes DEF LogRow
    <3>3. CASE i \in 1..N
      <4>1. store'[i] = store[i] /\ RowOK(i, t)
        BY <1>0, <1>2, <1>4, <2>2, <3>3, RowFacts
      <4> QED BY <1>0, <3>2, <4>1 DEF RowOK
    <3>4. CASE i = N + 1
      <4>1. t = s /\ store'[i] = x
        BY <1>4, <1>6, <2>2, <3>4 DEF s
      <4> QED BY <1>0, <1>1, <1>6, <1>8, <3>2, <4>1 DEF RowOK
    <3> QED BY <1>4, <1>5, <3>3, <3>4
  <2>3. \A i \in DOMAIN store' : RowOK(i, SessionOf[store[i].call])'
    BY <2>2
  <2> QED BY <1>4, <2>1, <2>3 DEF StoreOK
<1>11. FlightOK'
  <2> SUFFICES ASSUME NEW d \in Calls, d \notin over', Open(d)', NEW t \in Sessions, t = SessionOf[d]
               PROVE  /\ ~quiet'[t] /\ file'[t][Len(file'[t])] # Shut
                      /\ \A n \in DOMAIN file'[t] : IsOf(t, n, d)' => LegAt(t, n)' = Leg(t)'
                      /\ \A i \in DOMAIN store' : store'[i].call = d => store'[i].leg = Leg(t)'
    BY CollectorAssumption DEF FlightOK, Shut
  <2>0. over' = over /\ quiet' = quiet
    BY DEF LogRow
  <2>1. CASE d = c
    <3>1. t = s
      BY <2>1 DEF s
    <3>2. \A i \in DOMAIN store' : store'[i].call = d => store'[i] = x
      BY <1>4, <1>5, <1>9, <2>1
    <3> QED BY <1>0, <1>1, <1>6, <1>8, <2>0, <2>1, <3>1, <3>2, FilesSame
  <2>2. CASE d # c
    <3>1. d \in Logged' <=> d \in Logged
      <4>1. d \in Logged' <=> \E i \in DOMAIN store' : store'[i].call = d
        BY DEF Logged, ToSet
      <4>2. d \in Logged <=> \E i \in DOMAIN store : store[i].call = d
        BY DEF Logged, ToSet
      <4> QED BY <1>2, <1>4, <1>5, <1>6, <2>2, <4>1, <4>2
    <3>2. Open(d)
      BY <1>0, <3>1, FilesSame DEF Open, Message
    <3>3. /\ ~quiet[t] /\ file[t][Len(file[t])] # Shut
          /\ \A n \in DOMAIN file[t] : IsOf(t, n, d) => LegAt(t, n) = Leg(t)
          /\ \A i \in DOMAIN store : store[i].call = d => store[i].leg = Leg(t)
      BY <1>0, <2>0, <3>2 DEF FlightOK
    <3>4. \A i \in DOMAIN store' : store'[i].call = d => store'[i].leg = Leg(t)
      BY <1>2, <1>4, <1>5, <1>6, <2>2, <3>3
    <3> QED BY <1>0, <2>0, <3>3, <3>4, FilesSame
  <2> QED BY <2>1, <2>2
<1>12. CliOK'
  BY <1>0, <1>10, <1>11, FilesSame DEF CliOK, LogRow
<1>13. Longer
  BY <1>0, <1>2, <1>4, FilesSame DEF Longer, LogRow
<1>14. Careful
  <2>1. \A d \in over \cup Logged : \A i \in DOMAIN store' : store'[i].call = d => i \in DOMAIN store
    BY <1>1, <1>2, <1>4, <1>5, <1>6
  <2> QED BY <1>0, <2>1, FilesSame DEF Careful, LogRow
<1> QED BY <1>0, <1>12, <1>13, <1>14 DEF Steady, LogRow

\* A step that leaves the files and the store alone.
LEMMA RestKeeps ==
  ASSUME CliOK, UNCHANGED <<file, store>>,
         place' \in [Sessions -> {"new", "live", "gone", "past"}],
         \A t \in Sessions : place[t] # "new" => place'[t] # "new",
         \A t \in Sessions : place'[t] = "new" => place[t] = "new",
         over \subseteq over', over' \subseteq Calls,
         \/ quiet' = quiet
         \/ \E s \in Sessions : quiet' = [quiet EXCEPT ![s] = TRUE] /\ InFlight(s) \subseteq over',
         raced' = raced, \A t \in Sessions : place'[t] \in {"new", "gone"} => ~quiet'[t]
  PROVE  CliOK'
<1>0. FileOK /\ StoreOK /\ FlightOK
  BY DEF CliOK
<1>1. StoreOK'
  <2>1. ASSUME NEW i \in DOMAIN store, NEW t, t = SessionOf[store[i].call] PROVE RowOK(i, t)'
    <3>1. t \in Sessions /\ RowOK(i, t)
      BY <1>0, <2>1, RowFacts
    <3>2. /\ Leg(t)' = Leg(t) /\ \A n \in DOMAIN file[t] : LegAt(t, n)' = LegAt(t, n)
          /\ \A n, d : IsOf(t, n, d)' <=> IsOf(t, n, d)
      BY <1>0, <3>1, FilesSame
    <3> QED BY <1>0, <3>1, <3>2 DEF RowOK
  <2>2. \A i \in DOMAIN store : RowOK(i, SessionOf[store[i].call])'
    BY <2>1
  <2> QED BY <1>0, <2>2 DEF StoreOK
<1>2. FlightOK'
  <2> SUFFICES ASSUME NEW d \in Calls, d \notin over', Open(d)', NEW t \in Sessions, t = SessionOf[d]
               PROVE  /\ ~quiet'[t] /\ file'[t][Len(file'[t])] # Shut
                      /\ \A n \in DOMAIN file'[t] : IsOf(t, n, d)' => LegAt(t, n)' = Leg(t)'
                      /\ \A i \in DOMAIN store' : store'[i].call = d => store'[i].leg = Leg(t)'
    BY CollectorAssumption DEF FlightOK, Shut
  <2>1. Open(d)
    BY <1>0, FilesSame DEF Open, Logged, Message
  <2>2. /\ ~quiet[t] /\ file[t][Len(file[t])] # Shut
        /\ \A n \in DOMAIN file[t] : IsOf(t, n, d) => LegAt(t, n) = Leg(t)
        /\ \A i \in DOMAIN store : store[i].call = d => store[i].leg = Leg(t)
    BY <1>0, <2>1 DEF FlightOK
  <2>3. ~quiet'[t]
    <3>1. CASE quiet' = quiet
      BY <2>2, <3>1
    <3>2. ASSUME NEW s \in Sessions, quiet' = [quiet EXCEPT ![s] = TRUE], InFlight(s) \subseteq over'
          PROVE  ~quiet'[t]
      <4>1. t # s
        BY <1>0, <2>1, <3>2, InFlightIs
      <4> QED BY <2>2, <3>2, <4>1 DEF CliOK
    <3> QED BY <3>1, <3>2
  <2> QED BY <1>0, <2>2, <2>3, FilesSame
<1>3. FileOK'
  BY <1>0, FilesSame
<1>4. quiet' \in [Sessions -> BOOLEAN]
  BY DEF CliOK
<1>5. \A t \in Sessions : place'[t] = "new" => file'[t] = <<>>
  BY DEF CliOK
<1> QED BY <1>1, <1>2, <1>3, <1>4, <1>5 DEF CliOK

LEMMA QuiesceKeeps ==
  ASSUME CliOK, NEW s \in Sessions, Quiesce(s)
  PROVE  CliOK' /\ Steady
<1>1. CliOK'
  <2>1. quiet' = [quiet EXCEPT ![s] = TRUE] /\ InFlight(s) \subseteq over' /\ over \subseteq over'
        /\ over' \subseteq Calls /\ UNCHANGED <<file, store, place, raced>>
    BY InFlightCalls DEF Quiesce, CliOK
  <2>2. \A t \in Sessions : place'[t] \in {"new", "gone"} => ~quiet'[t]
    BY DEF Quiesce, CliOK
  <2> QED BY <2>1, <2>2, RestKeeps DEF CliOK
<1>2. Longer
  <2>1. Len(store) \in Nat /\ DOMAIN store = 1..Len(store) /\ FilesGrow
    BY RowFacts, FilesSame DEF CliOK, Quiesce
  <2> QED BY <2>1 DEF Quiesce, Longer
<1>3. job.stage = "idle"
  BY DEF Quiesce, Idle
<1>4. Careful
  BY FilesSame DEF CliOK, Quiesce, Careful
<1> QED BY <1>1, <1>2, <1>3, <1>4 DEF Steady, Quiesce

LEMMA DeleteKeeps ==
  ASSUME CliOK, NEW s \in Sessions, Delete(s)
  PROVE  CliOK' /\ Steady
<1>0. /\ place' = [place EXCEPT ![s] = IF quiet[s] THEN "past" ELSE "gone"] /\ place[s] = "live"
      /\ UNCHANGED <<file, quiet, store, over, raced, saved, job, delivered, faults>>
  BY DEF Delete
<1>1. /\ place' \in [Sessions -> {"new", "live", "gone", "past"}]
      /\ place'[s] = (IF quiet[s] THEN "past" ELSE "gone")
      /\ \A t \in Sessions : t # s => place'[t] = place[t]
  BY <1>0 DEF CliOK
<1>2. CliOK'
  <2>1. \A t \in Sessions : place'[t] \in {"new", "gone"} => ~quiet'[t]
    BY <1>0, <1>1 DEF CliOK
  <2> QED BY <1>0, <1>1, <2>1, RestKeeps DEF CliOK
<1>3. Longer
  <2>1. Len(store) \in Nat /\ DOMAIN store = 1..Len(store) /\ FilesGrow
    BY <1>0, RowFacts, FilesSame DEF CliOK
  <2> QED BY <1>0, <2>1 DEF Longer
<1>4. Careful
  BY <1>0, <1>1, FilesSame DEF CliOK, Delete, Careful
<1> QED BY <1>0, <1>1, <1>2, <1>3, <1>4 DEF Steady

LEMMA AgeKeeps ==
  ASSUME CliOK, NEW s \in Sessions, Age(s)
  PROVE  CliOK' /\ Steady
<1>0. /\ place' = [place EXCEPT ![s] = "past"] /\ place[s] = "gone" /\ job = Idle
      /\ UNCHANGED <<file, quiet, store, over, raced, saved, job, delivered, faults>>
  BY DEF Age
<1>1. CliOK'
  <2>1. /\ place' \in [Sessions -> {"new", "live", "gone", "past"}] /\ place'[s] = "past"
        /\ \A t \in Sessions : t # s => place'[t] = place[t]
    BY <1>0 DEF CliOK
  <2>2. \A t \in Sessions : place'[t] \in {"new", "gone"} => ~quiet'[t]
    BY <1>0, <2>1 DEF CliOK
  <2> QED BY <1>0, <2>1, <2>2, RestKeeps DEF CliOK
<1>2. Longer
  <2>1. Len(store) \in Nat /\ DOMAIN store = 1..Len(store) /\ FilesGrow
    BY <1>0, RowFacts, FilesSame DEF CliOK
  <2> QED BY <1>0, <2>1 DEF Longer
<1>3. job.stage = "idle"
  BY <1>0 DEF Idle
<1>4. Careful
  <2>1. place'[s] = "past" /\ \A t \in Sessions : t # s => place'[t] = place[t]
    BY <1>0 DEF CliOK
  <2> QED BY <1>0, <2>1, FilesSame DEF CliOK, Careful
<1> QED BY <1>0, <1>1, <1>2, <1>3, <1>4 DEF Steady

LEMMA CliKeeps ==
  ASSUME CliOK, Cli
  PROVE  CliOK' /\ Steady
<1>1. PICK s \in Sessions :
        \/ Quiesce(s) \/ Delete(s) \/ Age(s)
        \/ /\ job.stage \in {"idle", "parse"}
           /\ \/ Resume(s) \/ Wake(s) \/ Shutdown(s)
              \/ \E c \in Calls : SessionOf[c] = s /\ (Say(c) \/ LogRow(c))
  BY DEF Cli
<1> QED BY <1>1, QuiesceKeeps, DeleteKeeps, AgeKeeps, ResumeKeeps, WakeKeeps, ShutdownKeeps,
          SayKeeps, LogRowKeeps

-----------------------------------------------------------------------------
(* The invariant, in the steps of the CLI *)

\* What is needed of a step that leaves the run and the state file alone.
LEMMA StatesKept ==
  ASSUME CliOK, Longer, NEW st, StateOK(st), NEW x, x = st
  PROVE  StateOK(x)'
BY StateKept DEF CliOK

LEMMA SteadyParse ==
  ASSUME CliOK, StateOK(saved), Steady, ParseOK PROVE ParseOK'
<1>0. /\ saved' = saved /\ job' = job /\ job.stage = "parse" /\ FileOK
      /\ FilesGrow /\ raced \subseteq raced'
  BY DEF Steady, ParseOK, CliOK, Longer
<1>1. \A s \in Sessions :
       /\ place'[s] = "live" /\ quiet'[s] => place[s] = "live" /\ quiet[s]
       /\ quiet[s] /\ s \notin raced' => quiet'[s] /\ Len(file'[s]) = Len(file[s])
  BY <1>0 DEF Steady
<1>2. \A s \in Sessions : From(saved.cursor[s]) \in Nat
  BY DEF StateOK, State, From, Cursor
<1>3. ASSUME NEW s \in Sessions, job.works[s] # NoCursor
      PROVE  s \in job.files \ job.todo /\ WorkOK(s, job.works[s], saved.cursor[s])'
  <2>1. \A w, cur : w = job.works[s] /\ cur = saved.cursor[s] => WorkOK(s, w, cur)'
    BY <1>0, <1>1, <1>2, <1>3, WorkKept DEF ParseOK
  <2> QED BY <1>0, <1>3, <2>1 DEF ParseOK
<1>4. \A s \in Sessions : place'[s] = "live" /\ quiet'[s] => s \in job'.files /\ ReadQuiet(s)'
  BY <1>0, <1>1 DEF ParseOK, ReadQuiet
<1> QED BY <1>0, <1>3, <1>4 DEF ParseOK

LEMMA SteadyEmit ==
  ASSUME CliOK, Steady, EmitOK PROVE EmitOK'
<1>0. /\ saved' = saved /\ job' = job /\ job.stage = "emit" /\ FileOK
      /\ FilesGrow /\ raced \subseteq raced' /\ Longer
  BY DEF Steady, EmitOK, CliOK, Longer
<1>1. /\ UNCHANGED <<file, quiet, store, over, raced>>
      /\ \A s \in Sessions : place'[s] = "live" => place[s] = "live"
  BY <1>0 DEF Steady
<1>2. \A s \in Sessions : From(job.st.cursor[s]) \in Nat
  BY DEF EmitOK, State, From, Cursor
<1>3. ASSUME NEW s \in Sessions, s \in job.todo
      PROVE  job.works[s] # NoCursor /\ WorkOK(s, job.works[s], job.st.cursor[s])'
  <2>1. \A w, cur : w = job.works[s] /\ cur = job.st.cursor[s] => WorkOK(s, w, cur)'
    BY <1>0, <1>1, <1>2, <1>3, WorkKept DEF EmitOK
  <2> QED BY <1>0, <1>3, <2>1 DEF EmitOK
<1>4. StateOK(job.st)'
  <2>1. \A st : st = job.st => StateOK(st)'
    BY <1>0, StateKept DEF EmitOK, CliOK
  <2> QED BY <1>0, <2>1
<1>5. ASSUME NEW i \in job.rows \ job.st.done, place'[SessionOf[store[i].call]] = "live",
             quiet[SessionOf[store[i].call]]
      PROVE  SessionOf[store[i].call] \in job.todo /\ job.works[SessionOf[store[i].call]].quiet
  <2>1. i \in DOMAIN store
    <3>1. job.st \in State /\ job.st.hwm \in Nat
      BY DEF EmitOK, State
    <3>2. i \in (job.st.hwm + 1)..Len(store)
      BY DEF EmitOK
    <3>3. Len(store) \in Nat /\ DOMAIN store = 1..Len(store)
      BY RowFacts DEF CliOK
    <3> QED BY <3>1, <3>2, <3>3
  <2>2. place[SessionOf[store[i].call]] = "live"
    BY <1>1, <1>5, <2>1, RowFacts DEF CliOK
  <2> QED BY <1>5, <2>2 DEF EmitOK
<1>6. \A s \in job.todo : s \in Sessions
  BY DEF EmitOK
<1>7. \A s \in job'.todo : job'.works[s] # NoCursor /\ WorkOK(s, job.works[s], job.st.cursor[s])'
  BY <1>0, <1>3, <1>6
<1> QED BY <1>0, <1>1, <1>4, <1>5, <1>7 DEF EmitOK

LEMMA SteadySave ==
  ASSUME CliOK, Steady, SaveOK PROVE SaveOK'
<1>0. job' = job /\ job.stage = "save" /\ Longer
  BY DEF Steady, SaveOK
<1>1. /\ UNCHANGED <<file, quiet, store, over, raced, delivered>>
      /\ \A s \in Sessions : \/ place'[s] = place[s]
                             \/ place[s] = "live" /\ place'[s] = IF quiet[s] THEN "past" ELSE "gone"
  BY <1>0 DEF Steady
<1>2. StateOK(job.st)'
  <2>1. \A st : st = job.st => StateOK(st)'
    BY <1>0, StateKept DEF SaveOK, CliOK
  <2> QED BY <1>0, <2>1
<1>3. \A i \in DOMAIN store : SessionOf[store[i].call] \in Sessions
  BY RowFacts DEF CliOK
<1>4. ASSUME NEW i \in DOMAIN store, NEW s \in Sessions, s = SessionOf[store[i].call]
      PROVE  s \in Covered \/ Delivered(store[i].call)' \/ (~quiet'[s] /\ place'[s] \in {"live", "gone"})
  <2>1. s \in Covered \/ Delivered(store[i].call) \/ (~quiet[s] /\ place[s] \in {"live", "gone"})
    BY <1>4 DEF SaveOK
  <2> QED BY <1>1, <2>1 DEF Delivered
<1> QED BY <1>0, <1>1, <1>2, <1>3, <1>4 DEF SaveOK

LEMMA SteadyKeeps ==
  ASSUME Inv, CliOK', Steady PROVE Inv'
<1>1. saved' = saved /\ job' = job /\ delivered' = delivered /\ faults' = faults /\ Longer /\ CliOK
  BY DEF Steady, Inv
<1>2. StateOK(saved)'
  <2>1. \A st : st = saved => StateOK(st)'
    BY <1>1, StateKept DEF Inv, CliOK
  <2> QED BY <1>1, <2>1
<1>3. JobOK'
  <2>1. CASE job = Idle
    BY <1>1, <2>1 DEF JobOK, Idle
  <2>2. CASE ParseOK
    BY <1>1, <2>2, SteadyParse DEF Inv, JobOK
  <2>3. CASE EmitOK
    BY <1>1, <2>3, SteadyEmit DEF JobOK
  <2>4. CASE SaveOK
    BY <1>1, <2>4, SteadySave DEF JobOK
  <2> QED BY <2>1, <2>2, <2>3, <2>4 DEF Inv, JobOK
<1> QED BY <1>1, <1>2, <1>3 DEF Inv

-----------------------------------------------------------------------------
(* The invariant, in the steps of the collector *)

LEMMA CliSame ==
  ASSUME CliOK, UNCHANGED cliVars
  PROVE  CliOK'
<1>0. UNCHANGED <<file, place, quiet, store, over, raced>>
  BY DEF cliVars
<1> QED BY <1>0, RestKeeps DEF CliOK

LEMMA RunFrame ==
  ASSUME CliOK, UNCHANGED cliVars, delivered \subseteq delivered'
  PROVE  /\ CliOK' /\ Longer /\ FilesGrow
         /\ \A st : StateOK(st) => StateOK(st)'
         /\ \A s, w, cur : s \in Sessions /\ From(cur) \in Nat /\ WorkOK(s, w, cur) => WorkOK(s, w, cur)'
<1>0. UNCHANGED <<file, place, quiet, store, over, raced>>
  BY DEF cliVars
<1>1. FilesGrow
  BY <1>0, FilesSame DEF CliOK
<1>2. Longer
  <2>1. Len(store) \in Nat /\ DOMAIN store = 1..Len(store)
    BY RowFacts DEF CliOK
  <2> QED BY <1>0, <1>1, <2>1 DEF Longer
<1>3. \A st : StateOK(st) => StateOK(st)'
  BY <1>2, StateKept DEF CliOK
<1>4. ASSUME NEW s \in Sessions, NEW w, NEW cur, From(cur) \in Nat, WorkOK(s, w, cur)
      PROVE  WorkOK(s, w, cur)'
  BY <1>0, <1>1, <1>4, WorkKept DEF CliOK
<1> QED BY <1>1, <1>2, <1>3, <1>4, CliSame

LEMMA CursorTypes ==
  ASSUME NEW st \in State, NEW s \in Sessions
  PROVE  st.cursor[s] \in Cursor \cup {NoCursor} /\ From(st.cursor[s]) \in Nat
BY DEF State, From, Cursor

LEMMA BeginKeeps ==
  ASSUME Inv, Begin PROVE Inv'
<1> DEFINE files == {s \in Sessions : place[s] = "live"}
<1>0. /\ UNCHANGED cliVars /\ saved' = saved /\ delivered' = delivered /\ faults' = faults
      /\ job' = [stage |-> "parse", st |-> saved, files |-> files, todo |-> files,
                 works |-> [s \in Sessions |-> NoCursor]]
  BY DEF Begin
<1>1. CliOK' /\ StateOK(saved)'
  <2>1. \A st : st = saved => StateOK(st)'
    BY <1>0, RunFrame DEF Inv
  <2> QED BY <1>0, <2>1, RunFrame DEF Inv
<1>2. [s \in Sessions |-> NoCursor] \in [Sessions -> Work \cup {NoCursor}]
  OBVIOUS
<1>3. /\ job'.stage = "parse"
      /\ job' \in [stage : {"parse"}, st : {saved}, files : SUBSET Sessions, todo : SUBSET files,
                   works : [Sessions -> Work \cup {NoCursor}]]
      /\ job'.files = files /\ job'.todo = files /\ \A s \in Sessions : job'.works[s] = NoCursor
  BY <1>0, <1>2
<1>4. ParseOK'
  BY <1>0, <1>3 DEF ParseOK, ReadQuiet, cliVars
<1> QED BY <1>0, <1>1, <1>4 DEF Inv, JobOK

LEMMA PrepareKeeps ==
  ASSUME Inv, NEW s \in Sessions, Prepare(s) PROVE Inv'
<1> DEFINE cur == saved.cursor[s]
           ctx == IF cur = NoCursor THEN Fresh ELSE cur.ctx
           from == IF cur = NoCursor THEN 0 ELSE cur.offset
           size == Len(file[s])
           nothing_new == cur # NoCursor /\ cur.size = size /\ ~(from < size /\ quiet[s])
           first == parse(file[s], ctx, from, size, quiet[s])
           to == IF nothing_new THEN from ELSE resume_at(first, size, quiet[s])
           p == IF to = size THEN first ELSE parse(file[s], ctx, from, to, TRUE)
           r == [offset |-> to, size |-> size, quiet |-> quiet[s], parsed |-> to > from,
                 ctx |-> [leg |-> p.leg, shut |-> p.shut, pending |-> ctx.pending],
                 messages |-> p.messages]
           w == IF place[s] # "live" THEN NoCursor ELSE r
<1>0. /\ UNCHANGED cliVars /\ saved' = saved /\ delivered' = delivered /\ faults' = faults
      /\ job.stage = "parse" /\ s \in job.todo
  BY DEF Prepare, NextOf
<1>1. ParseOK /\ StateOK(saved) /\ saved \in State
  BY <1>0 DEF Inv, JobOK, Idle, ParseOK, EmitOK, SaveOK, StateOK
<1>2. job.st = saved
  BY <1>1 DEF ParseOK
<1>3. job' = [job EXCEPT !.todo = @ \ {s}, !.works[s] = w]
  BY <1>2 DEF Prepare
<1>4. WorkOK(s, r, cur)
  BY <1>1, CursorTypes, PrepareReads DEF Inv, StateOK
<1>5. r.quiet = quiet[s]
  OBVIOUS
<1>6. (w = NoCursor /\ place[s] # "live") \/ (w = r /\ place[s] = "live")
  OBVIOUS
<1> HIDE DEF w, r, p, to, first, nothing_new, size, from, ctx
<1>7. r \in Work /\ r # NoCursor
  BY <1>4, NoCursorAssumption DEF WorkOK
<1>8. /\ job \in [stage : {"parse"}, st : {saved}, files : SUBSET Sessions, todo : SUBSET job.files,
                  works : [Sessions -> Work \cup {NoCursor}]]
      /\ w \in Work \cup {NoCursor}
  BY <1>1, <1>6, <1>7 DEF ParseOK
<1>9. /\ job' \in [stage : {"parse"}, st : {saved}, files : SUBSET Sessions, todo : SUBSET job.files,
                   works : [Sessions -> Work \cup {NoCursor}]]
      /\ job'.stage = "parse" /\ job'.files = job.files /\ job'.todo = job.todo \ {s}
      /\ job'.works[s] = w /\ \A t \in Sessions : t # s => job'.works[t] = job.works[t]
  BY <1>3, <1>8
<1>10. ASSUME NEW t \in Sessions, job'.works[t] # NoCursor
       PROVE  t \in job'.files \ job'.todo /\ WorkOK(t, job'.works[t], saved.cursor[t])
  <2>1. CASE t = s
    BY <1>0, <1>4, <1>6, <1>8, <1>9, <1>10, <2>1
  <2>2. CASE t # s
    BY <1>1, <1>9, <1>10, <2>2 DEF ParseOK
  <2> QED BY <2>1, <2>2
<1>11. ASSUME NEW t \in Sessions, job'.works[t] # NoCursor PROVE WorkOK(t, job.works[t], saved.cursor[t])'
  <2>1. \A v, c : v = job'.works[t] /\ c = saved.cursor[t] => WorkOK(t, v, c)'
    BY <1>0, <1>1, <1>10, <1>11, RunFrame, CursorTypes DEF Inv
  <2> QED BY <1>0, <2>1
<1>12. \A t \in Sessions : place'[t] = "live" /\ quiet'[t] => t \in job'.files /\ ReadQuiet(t)'
  <2> SUFFICES ASSUME NEW t \in Sessions, place[t] = "live", quiet[t]
               PROVE  t \in job'.files /\ (t \in job'.todo \/ (job'.works[t] # NoCursor /\ job'.works[t].quiet))
    BY <1>0 DEF ReadQuiet, cliVars
  <2>1. t \in job.files /\ (t \in job.todo \/ (job.works[t] # NoCursor /\ job.works[t].quiet))
    BY <1>1 DEF ParseOK, ReadQuiet
  <2> QED BY <1>5, <1>6, <1>7, <1>9, <2>1
<1>13. ParseOK'
  BY <1>0, <1>9, <1>10, <1>11, <1>12 DEF ParseOK
<1>14. CliOK' /\ StateOK(saved)'
  <2>1. \A st : st = saved => StateOK(st)'
    BY <1>0, RunFrame DEF Inv
  <2> QED BY <1>0, <2>1, RunFrame DEF Inv
<1> QED BY <1>0, <1>13, <1>14 DEF Inv, JobOK

LEMMA ReadStoreKeeps ==
  ASSUME Inv, ReadStore PROVE Inv'
<1> DEFINE todo == {s \in Sessions : job.works[s] # NoCursor}
           rows == (saved.hwm + 1)..Len(store) \ saved.done
<1>0. /\ UNCHANGED cliVars /\ saved' = saved /\ delivered' = delivered /\ faults' = faults
      /\ job.stage = "parse" /\ job.todo = {}
  BY DEF ReadStore
<1>1. ParseOK /\ StateOK(saved) /\ saved \in State /\ CliOK
  BY <1>0 DEF Inv, JobOK, Idle, ParseOK, EmitOK, SaveOK, StateOK
<1>2. /\ job.st = saved /\ job.files \in SUBSET Sessions /\ job.works \in [Sessions -> Work \cup {NoCursor}]
      /\ \A s \in Sessions : job.works[s] # NoCursor =>
           s \in job.files /\ WorkOK(s, job.works[s], saved.cursor[s])
      /\ \A s \in Sessions : place[s] = "live" /\ quiet[s] => job.works[s] # NoCursor /\ job.works[s].quiet
  BY <1>0, <1>1 DEF ParseOK, ReadQuiet
<1>3. job' = [stage |-> "emit", st |-> saved, files |-> job.files, works |-> job.works,
              todo |-> todo, top |-> Len(store), rows |-> rows]
  BY <1>2 DEF ReadStore
<1>4. todo \in SUBSET job.files /\ rows \in SUBSET Nat
  <2>1. saved.hwm \in Nat
    BY <1>1 DEF State
  <2> QED BY <1>2, <2>1
<1> HIDE DEF todo, rows
<1>5. /\ job'.stage = "emit" /\ job'.st = saved /\ job'.works = job.works /\ job'.todo = todo
      /\ job'.rows = rows /\ job'.files = job.files
      /\ job' \in [stage : {"emit"}, st : State, files : SUBSET Sessions, todo : SUBSET job.files,
                   works : [Sessions -> Work \cup {NoCursor}], top : {Len(store)}, rows : SUBSET Nat]
  BY <1>1, <1>2, <1>3, <1>4
<1>6. StateOK(saved)' /\ StateOK(job.st)' /\ CliOK'
  <2>1. \A st : st = saved => StateOK(st)'
    BY <1>0, <1>1, RunFrame
  <2> QED BY <1>0, <1>1, <1>5, <2>1, RunFrame
<1>7. /\ rows \subseteq (saved.hwm + 1)..Len(store)
      /\ (saved.hwm + 1)..Len(store) \subseteq rows \cup saved.done
  BY DEF rows
<1>8. ASSUME NEW s \in todo
      PROVE  job'.works[s] # NoCursor /\ WorkOK(s, job.works[s], job.st.cursor[s])'
  <2>1. \A v, c : v = job.works[s] /\ c = saved.cursor[s] => WorkOK(s, v, c)'
    BY <1>0, <1>1, <1>2, RunFrame, CursorTypes DEF todo
  <2> QED BY <1>5, <2>1 DEF todo
<1>9. ASSUME NEW i \in rows \ saved.done, place[SessionOf[store[i].call]] = "live", quiet[SessionOf[store[i].call]]
      PROVE  SessionOf[store[i].call] \in todo /\ job.works[SessionOf[store[i].call]].quiet
  <2>1. i \in DOMAIN store
    <3>1. saved.hwm \in Nat /\ Len(store) \in Nat /\ DOMAIN store = 1..Len(store)
      BY <1>1, RowFacts DEF State, CliOK
    <3> QED BY <1>7, <3>1
  <2>2. SessionOf[store[i].call] \in Sessions
    BY <1>1, <2>1, RowFacts DEF CliOK
  <2> QED BY <1>2, <1>9, <2>2 DEF todo
<1>10. EmitOK'
  <2>1. UNCHANGED <<file, place, quiet, store, over, raced>>
    BY <1>0 DEF cliVars
  <2> QED BY <1>5, <1>6, <1>7, <1>8, <1>9, <2>1 DEF EmitOK
<1> QED BY <1>0, <1>6, <1>10 DEF Inv, JobOK

LEMMA StoreLockedKeeps ==
  ASSUME Inv, StoreLocked PROVE Inv'
<1>1. \A st : st = saved => StateOK(st)'
  BY RunFrame DEF Inv, StoreLocked
<1> QED BY <1>1, RunFrame DEF Inv, StoreLocked, JobOK, Idle

-----------------------------------------------------------------------------
(* A session is emitted *)

LEMMA GroupsWiden ==
  ASSUME NEW s, NEW q, NEW a \in Nat, NEW b \in Nat, NEW x \in Nat, NEW y \in Nat, x <= a, b <= y,
         GroupsOK(s, q, a, b)
  PROVE  GroupsOK(s, q, x, y)
BY DEF GroupsOK, GroupOK

\* A choice of groups.
LEMMA GroupsPlaces ==
  ASSUME NEW s, NEW q, NEW a, NEW b, GroupsOK(s, q, a, b), NEW S, S \subseteq DOMAIN q
  PROVE  /\ GroupsOK(s, Places(q, S), a, b)
         /\ \A k \in S : OfCall(Places(q, S), q[k].call) # {}
         /\ \A c : OfCall(Places(q, S), c) # {} => \E k \in S : q[k].call = c
<1> DEFINE r == Places(q, S)
           n == Cardinality(S)
<1>1. q \in Seq(Group)
  BY DEF GroupsOK
<1>2. r \in Seq(Group) /\ Len(r) = n /\ n \in Nat /\ \E f : Takes(f, q, S)
  BY <1>1, PlacesFacts
<1> HIDE DEF r, n
<1>3. DOMAIN r = 1..n
  BY <1>2
<1>4. PICK f \in [1..n -> S] : /\ \A j, k \in 1..n : f[j] = f[k] => j = k
                               /\ \A k \in 1..n : r[k] = q[f[k]]
                               /\ \A i \in S : \E k \in 1..n : f[k] = i
  BY <1>2 DEF Takes, r, n
<1>5. \A k \in 1..n : f[k] \in DOMAIN q
  OBVIOUS
<1>6. GroupsOK(s, r, a, b)
  <2>1. \A k \in DOMAIN r : GroupOK(s, r[k], a, b)
    BY <1>3, <1>4, <1>5 DEF GroupsOK
  <2>2. ASSUME NEW j \in DOMAIN r, NEW k \in DOMAIN r, r[j].at = r[k].at PROVE j = k
    <3>1. f[j] = f[k]
      BY <1>3, <1>4, <1>5, <2>2 DEF GroupsOK
    <3> QED BY <1>3, <1>4, <3>1
  <2> QED BY <1>2, <2>1, <2>2 DEF GroupsOK
<1>7. \A k \in S : OfCall(r, q[k].call) # {}
  BY <1>3, <1>4 DEF OfCall
<1>8. \A c : OfCall(r, c) # {} => \E k \in S : q[k].call = c
  BY <1>3, <1>4 DEF OfCall
<1> QED BY <1>6, <1>7, <1>8 DEF r

\* What was held, and what was read now.
LEMMA MessagesOK ==
  ASSUME NEW s, NEW w, NEW cur, WorkOK(s, w, cur), cur = NoCursor \/ CursorOK(s, cur)
  PROVE  /\ GroupsOK(s, w.ctx.pending \o w.messages, 0, w.offset)
         /\ w.ctx.pending \o w.messages \in Seq(Group)
         /\ \A c : OfCall(Held(cur), c) # {} \/ OfCall(w.messages, c) # {}
                     => OfCall(w.ctx.pending \o w.messages, c) # {}
<1>1. /\ From(cur) \in Nat /\ w.offset \in Nat /\ From(cur) <= w.offset /\ w.ctx.pending = Held(cur)
      /\ GroupsOK(s, w.messages, From(cur), w.offset)
  BY DEF WorkOK, Work, From, CursorOK, Cursor
<1>2. GroupsOK(s, Held(cur), 0, From(cur))
  <2>1. CASE cur = NoCursor
    BY <2>1 DEF GroupsOK, Held
  <2>2. CASE cur # NoCursor
    BY <2>2 DEF CursorOK, Held, From
  <2> QED BY <2>1, <2>2
<1>3. GroupsOK(s, Held(cur), 0, w.offset) /\ GroupsOK(s, w.messages, 0, w.offset)
  BY <1>1, <1>2, GroupsWiden
<1>4. Apart(Held(cur), w.messages)
  <2> SUFFICES ASSUME NEW j \in DOMAIN Held(cur), NEW k \in DOMAIN w.messages
               PROVE  Held(cur)[j].at # w.messages[k].at
    BY DEF Apart
  <2>1. Held(cur)[j].at \in 0..(From(cur) - 1)
    BY <1>2 DEF GroupsOK, GroupOK
  <2>2. w.messages[k].at \in From(cur)..(w.offset - 1)
    BY <1>1 DEF GroupsOK, GroupOK
  <2> QED BY <1>1, <2>1, <2>2
<1>5. GroupsOK(s, Held(cur) \o w.messages, 0, w.offset)
      /\ \A c : OfCall(Held(cur), c) # {} \/ OfCall(w.messages, c) # {}
                     => OfCall(Held(cur) \o w.messages, c) # {}
  BY <1>1, <1>3, <1>4, GroupsConcat
<1> QED BY <1>1, <1>5 DEF GroupsOK

\* What a session holds for the next run.
LEMMA PendingOK ==
  ASSUME NEW s, NEW q, NEW b, GroupsOK(s, q, 0, b), NEW S, S \subseteq DOMAIN q
  PROVE  LET p == Places(q, LastOf(S, PendingMax))
         IN /\ GroupsOK(s, p, 0, b) /\ Len(p) \in Nat /\ Len(p) <= PendingMax
            /\ Cardinality(S) <= PendingMax => \A k \in S : OfCall(p, q[k].call) # {}
            /\ \A c : OfCall(p, c) # {} => \E k \in S : q[k].call = c
<1> DEFINE L == LastOf(S, PendingMax)
           p == Places(q, L)
<1>1. q \in Seq(Group) /\ PendingMax \in Nat
  BY CollectorAssumption DEF GroupsOK
<1>2. S \subseteq Nat /\ IsFiniteSet(S)
  <2>1. DOMAIN q = 1..Len(q) /\ Len(q) \in Nat
    BY <1>1
  <2>2. S \in SUBSET (1..Len(q)) /\ IsFiniteSet(1..Len(q))
    BY <2>1, FS_Interval
  <2> QED BY <2>1, <2>2, FS_Subset
<1>3. /\ L \subseteq S /\ IsFiniteSet(L) /\ Cardinality(L) <= PendingMax
      /\ Cardinality(S) <= PendingMax => L = S
  BY <1>1, <1>2, LastFacts
<1> HIDE DEF L
<1>4. L \subseteq DOMAIN q
  BY <1>3
<1>5. Len(p) = Cardinality(L) /\ Cardinality(L) \in Nat
  BY <1>1, <1>4, PlacesFacts
<1>6. /\ GroupsOK(s, p, 0, b)
      /\ \A k \in L : OfCall(p, q[k].call) # {}
      /\ \A c : OfCall(p, c) # {} => \E k \in L : q[k].call = c
  BY <1>4, GroupsPlaces
<1> HIDE DEF p
<1>7. /\ GroupsOK(s, p, 0, b) /\ Len(p) \in Nat /\ Len(p) <= PendingMax
      /\ Cardinality(S) <= PendingMax => \A k \in S : OfCall(p, q[k].call) # {}
      /\ \A c : OfCall(p, c) # {} => \E k \in S : q[k].call = c
  BY <1>1, <1>3, <1>5, <1>6
<1> QED BY <1>7 DEF p, L

\* What a session is emitted from, what of it is settled, and what is held.
MessagesOf(s) == job.works[s].ctx.pending \o job.works[s].messages
Ends(s, x) == Closed(x, job.works[s].ctx, job.works[s].quiet)
SettledOf(s) == {m.call : m \in {x \in ToSet(MessagesOf(s)) : Ends(s, x)}}
HeldOf(s) == {k \in DOMAIN MessagesOf(s) : ~Ends(s, MessagesOf(s)[k])}
UsedOf(s) == IF s \in Covered THEN RowsOf(s) ELSE {i \in RowsOf(s) : Ends(s, store[i])}
PendingOf(s) ==
  IF s \in Covered THEN <<>> ELSE Places(MessagesOf(s), LastOf(HeldOf(s), PendingMax))
CursorOf(s) ==
  [offset |-> job.works[s].offset, size |-> job.works[s].size,
   ctx |-> [job.works[s].ctx EXCEPT !.pending = PendingOf(s)]]

NothingToDo(s) ==
  ~job.works[s].parsed /\ RowsOf(s) = {} /\ job.works[s].ctx.pending = <<>> /\ ~job.works[s].quiet

EmitsNothing(s) == NothingToDo(s) /\ job'.st = job.st /\ delivered' = delivered
Emits(s) ==
  /\ job'.st = [cursor |-> [job.st.cursor EXCEPT ![s] = CursorOf(s)], hwm |-> job.st.hwm,
                done |-> job.st.done \cup UsedOf(s)]
  /\ delivered' = IF s \in Covered THEN delivered
                  ELSE delivered \cup ByMessage(SettledOf(s))
                                 \cup ByRow(CallsOf(UsedOf(s)) \ SettledOf(s))

JobSet ==
  [stage : {"emit"}, st : State, files : SUBSET Sessions, todo : SUBSET Sessions,
   works : [Sessions -> Work \cup {NoCursor}], top : Nat, rows : SUBSET Nat]

LEMMA EmitShape ==
  ASSUME job \in JobSet, NEW s \in Sessions, EmitSession(s)
  PROVE  /\ UNCHANGED cliVars /\ saved' = saved /\ faults' = faults /\ s \in job.todo
         /\ job' = [job EXCEPT !.todo = @ \ {s}, !.st = job'.st]
         /\ EmitsNothing(s) \/ Emits(s)
<1> USE DEF JobSet
<1>1. UNCHANGED cliVars /\ saved' = saved /\ faults' = faults /\ s \in job.todo
  BY DEF EmitSession, NextOf
<1>2. CASE NothingToDo(s)
  <2>1. job' = [job EXCEPT !.todo = @ \ {s}] /\ delivered' = delivered
    BY <1>2 DEF EmitSession, NothingToDo
  <2>2. job'.st = job.st /\ job' = [job EXCEPT !.todo = @ \ {s}, !.st = job'.st]
    BY <2>1
  <2> QED BY <1>1, <1>2, <2>1, <2>2 DEF EmitsNothing
<1>3. CASE ~NothingToDo(s)
  <2>1. /\ job' = [job EXCEPT !.todo = @ \ {s}, !.st.done = @ \cup UsedOf(s), !.st.cursor[s] = CursorOf(s)]
        /\ delivered' = IF s \in Covered THEN delivered
                        ELSE delivered \cup ByMessage(SettledOf(s))
                                       \cup ByRow(CallsOf(UsedOf(s)) \ SettledOf(s))
    BY <1>3 DEF EmitSession, NothingToDo, UsedOf, CursorOf, PendingOf, HeldOf, SettledOf, Ends, MessagesOf
  <2>2. /\ job'.st = [cursor |-> [job.st.cursor EXCEPT ![s] = CursorOf(s)], hwm |-> job.st.hwm,
                      done |-> job.st.done \cup UsedOf(s)]
        /\ job' = [job EXCEPT !.todo = @ \ {s}, !.st = job'.st]
    BY <2>1 DEF State
  <2> QED BY <1>1, <2>1, <2>2 DEF Emits
<1> QED BY <1>2, <1>3

\* What EmitOK says of the run, in the pieces that the next lemmas need.
LEMMA EmitFacts ==
  ASSUME CliOK, EmitOK
  PROVE  /\ job \in JobSet /\ job.stage = "emit" /\ job.st \in State /\ StateOK(job.st)
         /\ Len(store) \in Nat /\ DOMAIN store = 1..Len(store) /\ job.top = Len(store)
         /\ job.st.hwm \in Nat /\ job.st.done \subseteq DOMAIN store
         /\ \A i \in job.rows : i \in DOMAIN store /\ i > job.st.hwm
         /\ \A i \in DOMAIN store : i > job.st.hwm => i \in job.rows \cup job.st.done
         /\ \A i \in DOMAIN store : store[i].call \in Calls /\ SessionOf[store[i].call] \in Sessions
<1>1. Len(store) \in Nat /\ DOMAIN store = 1..Len(store)
  BY RowFacts DEF CliOK
<1>2. /\ job \in [stage : {"emit"}, st : State, files : SUBSET Sessions, todo : SUBSET job.files,
                works : [Sessions -> Work \cup {NoCursor}], top : {Len(store)}, rows : SUBSET Nat]
      /\ job.files \in SUBSET Sessions
  BY DEF EmitOK
<1>3. job \in JobSet /\ job.st \in State /\ job.stage = "emit" /\ job.top = Len(store)
  BY <1>1, <1>2 DEF JobSet
<1>4. job.st.hwm \in Nat /\ StateOK(job.st)
  BY <1>3 DEF State, EmitOK
<1>5. job.st.done \subseteq DOMAIN store
  BY <1>1, <1>4 DEF StateOK
<1>6. \A i \in job.rows : i \in DOMAIN store /\ i > job.st.hwm
  BY <1>1, <1>4 DEF EmitOK
<1>7. \A i \in DOMAIN store : i > job.st.hwm => i \in job.rows \cup job.st.done
  BY <1>1, <1>4 DEF EmitOK
<1> QED BY <1>1, <1>3, <1>4, <1>5, <1>6, <1>7, RowFacts DEF CliOK

LEMMA EmitTypes ==
  ASSUME CliOK, EmitOK, NEW s \in job.todo
  PROVE  /\ s \in Sessions /\ job.works[s] # NoCursor /\ WorkOK(s, job.works[s], job.st.cursor[s])
         /\ job.st.cursor[s] = NoCursor \/ CursorOK(s, job.st.cursor[s])
         /\ GroupsOK(s, MessagesOf(s), 0, job.works[s].offset) /\ MessagesOf(s) \in Seq(Group)
<1>1. s \in Sessions /\ StateOK(job.st)
  BY EmitFacts DEF JobSet
<1>2. /\ job.works[s] # NoCursor /\ WorkOK(s, job.works[s], job.st.cursor[s])
      /\ job.st.cursor[s] = NoCursor \/ CursorOK(s, job.st.cursor[s])
  BY <1>1 DEF EmitOK, StateOK
<1>3. GroupsOK(s, MessagesOf(s), 0, job.works[s].offset) /\ MessagesOf(s) \in Seq(Group)
  BY <1>2, MessagesOK DEF MessagesOf
<1> QED BY <1>1, <1>2, <1>3

LEMMA NewCursorOK ==
  ASSUME CliOK, EmitOK, NEW s \in job.todo
  PROVE  /\ CursorOf(s) \in Cursor /\ CursorOK(s, CursorOf(s))
         /\ CursorOf(s).offset = job.works[s].offset /\ CursorOf(s).ctx.pending = PendingOf(s)
<1>1. /\ s \in Sessions /\ WorkOK(s, job.works[s], job.st.cursor[s])
      /\ GroupsOK(s, MessagesOf(s), 0, job.works[s].offset)
  BY EmitTypes
<1>2. job.works[s] \in Work /\ job.works[s].ctx \in Context
  BY <1>1 DEF WorkOK, Work
<1>3. GroupsOK(s, PendingOf(s), 0, job.works[s].offset) /\ Len(PendingOf(s)) <= PendingMax
  <2>1. CASE s \in Covered
    BY <2>1, CollectorAssumption DEF PendingOf, GroupsOK
  <2>2. CASE s \notin Covered
    <3>1. HeldOf(s) \subseteq DOMAIN MessagesOf(s)
      BY DEF HeldOf
    <3> QED BY <1>1, <2>2, <3>1, PendingOK DEF PendingOf
  <2> QED BY <2>1, <2>2
<1>4. PendingOf(s) \in Seq(Group)
  BY <1>3 DEF GroupsOK
<1> DEFINE cur == CursorOf(s)
<1>5. /\ cur.offset = job.works[s].offset /\ cur.size = job.works[s].size
      /\ cur.ctx.pending = PendingOf(s) /\ cur.ctx.leg = job.works[s].ctx.leg
      /\ cur.ctx.shut = job.works[s].ctx.shut /\ cur \in Cursor
  BY <1>2, <1>4 DEF CursorOf, Work, Context, Cursor
<1> HIDE DEF cur
<1>6. ContextOK(s, cur.ctx, cur.offset) /\ cur.offset <= cur.size /\ cur.size <= Len(file[s])
  BY <1>1, <1>5 DEF WorkOK, ContextOK
<1>7. CursorOK(s, cur)
  BY <1>3, <1>5, <1>6 DEF CursorOK
<1> QED BY <1>5, <1>7 DEF cur

\* A row that is used is delivered, if not under its own id then under its message's.
LEMMA UsedDelivered ==
  ASSUME CliOK, EmitOK, NEW s \in job.todo, Emits(s), NEW i \in UsedOf(s), NEW c, c = store[i].call
  PROVE  i \in job.rows \ job.st.done /\ SessionOf[c] = s /\ (s \in Covered \/ Delivered(c)')
<1>1. i \in job.rows \ job.st.done /\ SessionOf[c] = s
  BY DEF UsedOf, RowsOf
<1>2. CASE s \notin Covered
  <2>1. c \in CallsOf(UsedOf(s))
    BY DEF CallsOf
  <2>2. delivered' = delivered \cup ByMessage(SettledOf(s)) \cup ByRow(CallsOf(UsedOf(s)) \ SettledOf(s))
    BY <1>2 DEF Emits
  <2>3. CASE c \in SettledOf(s)
    <3>1. [call |-> c, by |-> "message"] \in ByMessage(SettledOf(s))
      BY <2>3 DEF ByMessage
    <3> QED BY <1>1, <2>2, <3>1 DEF Delivered
  <2>4. CASE c \notin SettledOf(s)
    <3>1. [call |-> c, by |-> "row"] \in ByRow(CallsOf(UsedOf(s)) \ SettledOf(s))
      BY <2>1, <2>4 DEF ByRow
    <3> QED BY <1>1, <2>2, <3>1, <2>4 DEF Delivered
  <2> QED BY <2>3, <2>4
<1> QED BY <1>1, <1>2

LEMMA EmitState ==
  ASSUME CliOK, EmitOK, NEW s \in job.todo, Emits(s), UNCHANGED cliVars
  PROVE  StateOK(job.st)' /\ job'.st \in State /\ delivered \subseteq delivered'
<1> DEFINE done == job.st.done \cup UsedOf(s)
           st == [cursor |-> [job.st.cursor EXCEPT ![s] = CursorOf(s)], hwm |-> job.st.hwm, done |-> done]
<1>0. s \in Sessions /\ job.st \in State /\ StateOK(job.st) /\ job'.st = st
  BY EmitTypes, EmitFacts DEF Emits
<1>1. delivered \subseteq delivered'
  BY DEF Emits
<1>2. \A i \in UsedOf(s) : i \in job.rows \ job.st.done
  BY DEF UsedOf, RowsOf
<1>3. /\ done \subseteq Nat /\ job.st.hwm <= Len(store)
      /\ done \subseteq (job.st.hwm + 1)..Len(store)
  BY <1>0, <1>2, EmitFacts DEF StateOK
<1> HIDE DEF done
<1>4. st \in State
  BY <1>0, <1>3, NewCursorOK DEF State
<1>5. /\ st.hwm = job.st.hwm /\ st.done = done /\ st.cursor[s] = CursorOf(s)
      /\ \A t \in Sessions : t # s => st.cursor[t] = job.st.cursor[t]
  BY <1>0 DEF State
<1>6. ASSUME NEW t \in Sessions, st.cursor[t] # NoCursor PROVE CursorOK(t, st.cursor[t])
  BY <1>0, <1>5, <1>6, NewCursorOK DEF StateOK
<1> HIDE DEF st
<1>7. ASSUME NEW t \in Sessions, NEW c, c = st.cursor[t], c # NoCursor PROVE CursorOK(t, c)'
  BY <1>1, <1>6, <1>7, RunFrame, CursorKept DEF CliOK
<1>8. ASSUME NEW i \in DOMAIN store, RowDone(st, i), NEW c, c = store[i].call
      PROVE  SessionOf[c] \in Covered \/ Delivered(c)'
  <2>1. CASE RowDone(job.st, i)
    <3>1. SessionOf[c] \in Covered \/ Delivered(c)
      BY <1>0, <1>8, <2>1 DEF StateOK
    <3> QED BY <1>1, <3>1 DEF Delivered
  <2>2. CASE i \in UsedOf(s)
    BY <1>8, <2>2, UsedDelivered
  <2> QED BY <1>5, <1>8, <2>1, <2>2 DEF RowDone, done
<1>9. ASSUME NEW x, x = st PROVE StateOK(x)'
  <2>1. store' = store
    BY DEF cliVars
  <2>2. \A t \in Sessions : x.cursor[t] # NoCursor => CursorOK(t, x.cursor[t])'
    BY <1>7, <1>9
  <2>3. \A i \in DOMAIN store' : RowDone(x, i) => SessionOf[store'[i].call] \in Covered \/ Delivered(store[i].call)'
    <3>1. ASSUME NEW i \in DOMAIN store, RowDone(x, i)
          PROVE  SessionOf[store[i].call] \in Covered \/ Delivered(store[i].call)'
      <4>1. \A c : c = store[i].call => SessionOf[c] \in Covered \/ Delivered(c)'
        BY <1>8, <1>9, <3>1
      <4> QED BY <2>1, <4>1
    <3> QED BY <2>1, <3>1
  <2>4. x \in State /\ x.hwm <= Len(store') /\ x.done \subseteq (x.hwm + 1)..Len(store')
    BY <1>3, <1>4, <1>5, <1>9, <2>1
  <2> QED BY <2>2, <2>3, <2>4 DEF StateOK, RowDone, State, Cursor, Context, Group
<1>10. StateOK(job.st)'
  <2>1. \A x : x = job'.st => StateOK(x)'
    BY <1>0, <1>9
  <2> QED BY <2>1
<1> QED BY <1>0, <1>1, <1>4, <1>10

LEMMA EmitSessionKeeps ==
  ASSUME Inv, NEW s \in Sessions, EmitSession(s) PROVE Inv'
<1>0. CliOK /\ EmitOK /\ StateOK(saved)
  <2>1. job.stage = "emit"
    BY DEF EmitSession
  <2> QED BY <2>1 DEF Inv, JobOK, Idle, ParseOK, SaveOK
<1>1. /\ job \in JobSet /\ UNCHANGED cliVars /\ saved' = saved /\ faults' = faults /\ s \in job.todo
      /\ job' = [job EXCEPT !.todo = @ \ {s}, !.st = job'.st]
      /\ EmitsNothing(s) \/ Emits(s)
  BY <1>0, EmitFacts, EmitShape
<1>2. StateOK(job.st)' /\ job'.st \in State /\ delivered \subseteq delivered'
  <2>1. CASE EmitsNothing(s)
    <3>1. \A x : x = job.st => StateOK(x)'
      BY <1>0, <1>1, <2>1, EmitFacts, RunFrame DEF EmitsNothing
    <3>2. job'.st = job.st /\ delivered' = delivered
      BY <2>1 DEF EmitsNothing
    <3> QED BY <1>0, <3>1, <3>2, EmitFacts
  <2>2. CASE Emits(s)
    BY <1>0, <1>1, <2>2, EmitState
  <2> QED BY <1>1, <2>1, <2>2
<1>3. /\ job'.stage = "emit" /\ job'.files = job.files /\ job'.works = job.works
      /\ job'.todo = job.todo \ {s} /\ job'.top = job.top /\ job'.rows = job.rows
      /\ job' \in JobSet /\ job'.st.hwm = job.st.hwm /\ job.st.done \subseteq job'.st.done
      /\ \A t \in Sessions : t # s => job'.st.cursor[t] = job.st.cursor[t]
  <2>1. /\ job'.stage = "emit" /\ job'.files = job.files /\ job'.works = job.works
        /\ job'.todo = job.todo \ {s} /\ job'.top = job.top /\ job'.rows = job.rows
        /\ job' \in JobSet
    BY <1>1, <1>2 DEF JobSet
  <2>2. /\ job'.st.hwm = job.st.hwm /\ job.st.done \subseteq job'.st.done
        /\ \A t \in Sessions : t # s => job'.st.cursor[t] = job.st.cursor[t]
    <3>1. job.st \in State
      BY <1>0, EmitFacts
    <3> QED BY <1>1, <3>1 DEF EmitsNothing, Emits, State
  <2> QED BY <2>1, <2>2
<1>4. UNCHANGED <<file, place, quiet, store, over, raced>>
  BY <1>1 DEF cliVars
<1>5. ASSUME NEW t \in job.todo \ {s} PROVE job.works[t] # NoCursor /\ WorkOK(t, job.works[t], job.st.cursor[t])'
  <2>1. \A w, c : w = job.works[t] /\ c = job.st.cursor[t] => WorkOK(t, w, c)'
    BY <1>0, <1>1, <1>2, EmitTypes, EmitFacts, RunFrame, CursorTypes
  <2>2. t \in Sessions
    BY <1>0, EmitTypes
  <2>3. job.works[t] # NoCursor
    BY <1>0, EmitTypes
  <2> QED BY <1>3, <2>1, <2>2, <2>3
<1>6. ASSUME NEW i \in job.rows \ job'.st.done,
             place[SessionOf[store[i].call]] = "live", quiet[SessionOf[store[i].call]]
      PROVE  SessionOf[store[i].call] \in job.todo \ {s} /\ job.works[SessionOf[store[i].call]].quiet
  <2>1. SessionOf[store[i].call] \in job.todo /\ job.works[SessionOf[store[i].call]].quiet
    BY <1>0, <1>3, <1>6 DEF EmitOK
  <2>2. ASSUME SessionOf[store[i].call] = s PROVE FALSE
    <3>1. i \in RowsOf(s) /\ job.works[s].quiet
      BY <1>3, <1>6, <2>1, <2>2 DEF RowsOf
    <3>2. Emits(s)
      BY <1>1, <3>1 DEF EmitsNothing, NothingToDo
    <3>3. i \in UsedOf(s)
      BY <3>1 DEF UsedOf, Ends, Closed
    <3> QED BY <1>6, <3>2, <3>3 DEF Emits
  <2> QED BY <2>1, <2>2
<1>7. /\ job.rows \subseteq (job.st.hwm + 1)..Len(store)
      /\ (job.st.hwm + 1)..Len(store) \subseteq job.rows \cup job'.st.done
  BY <1>0, <1>3 DEF EmitOK
<1>8. job' \in [stage : {"emit"}, st : State, files : SUBSET Sessions, todo : SUBSET job'.files,
                works : [Sessions -> Work \cup {NoCursor}], top : {Len(store)}, rows : SUBSET Nat]
  <2>1. job.todo \subseteq job.files /\ job.top = Len(store)
    BY <1>0 DEF EmitOK
  <2> QED BY <1>3, <2>1 DEF JobSet
<1>9. EmitOK'
  BY <1>2, <1>3, <1>4, <1>5, <1>6, <1>7, <1>8 DEF EmitOK
<1>10. StateOK(saved)'
  <2>1. \A x : x = saved => StateOK(x)'
    BY <1>0, <1>1, <1>2, RunFrame
  <2> QED BY <1>1, <2>1
<1>11. delivered' \subseteq [call : Calls, by : {"message", "row"}]
  <2>1. \A m \in ToSet(MessagesOf(s)) : m.call \in Calls
    <3>1. \A m \in ToSet(MessagesOf(s)) : m \in Group
      BY <1>0, <1>1, EmitTypes, ElementOfSeq DEF ToSet
    <3> QED BY <3>1 DEF Group
  <2>2. SettledOf(s) \subseteq Calls
    BY <2>1 DEF SettledOf
  <2>3. CallsOf(UsedOf(s)) \subseteq Calls
    BY <1>0, EmitFacts DEF CallsOf, UsedOf, RowsOf
  <2>4. ByMessage(SettledOf(s)) \subseteq [call : Calls, by : {"message", "row"}]
        /\ ByRow(CallsOf(UsedOf(s)) \ SettledOf(s)) \subseteq [call : Calls, by : {"message", "row"}]
    BY <2>2, <2>3 DEF ByMessage, ByRow
  <2> QED BY <1>1, <2>4 DEF Inv, Emits, EmitsNothing
<1> QED BY <1>0, <1>1, <1>2, <1>9, <1>10, <1>11, RunFrame DEF Inv, JobOK

-----------------------------------------------------------------------------
(* The rest, and the state file *)

\* The mark never falls, stays within the store and passes nothing that is held.
LEMMA MarkFacts ==
  ASSUME NEW hwm \in Nat, NEW top \in Nat, hwm <= top, NEW held, held \subseteq (hwm + 1)..top
  PROVE  /\ new_hwm(hwm, top, held) \in hwm..top
         /\ \A i \in held : i > new_hwm(hwm, top, held)
<1> DEFINE b == IF held = {} THEN top ELSE Min(held) - 1
<1>1. b \in hwm..top /\ \A i \in held : i > b
  <2>1. CASE held = {}
    BY <2>1
  <2>2. CASE held # {}
    <3>1. held \subseteq Nat
      OBVIOUS
    <3>2. \E x \in held : \A y \in held : x <= y
      BY <2>2, <3>1, LeastNat
    <3>3. Min(held) \in held /\ \A y \in held : Min(held) <= y
      BY <3>2 DEF Min
    <3>4. b = Min(held) - 1
      BY <2>2
    <3> HIDE DEF b
    <3>5. Min(held) \in (hwm + 1)..top
      BY <3>3
    <3>6. b \in hwm..top
      BY <3>4, <3>5
    <3>7. \A i \in held : i > b
      BY <3>1, <3>3, <3>4, <3>5
    <3> QED BY <3>6, <3>7
  <2> QED BY <2>1, <2>2
<1> HIDE DEF b
<1>2. Max({hwm, b}) = b
  <2>1. b \in {hwm, b} /\ \A y \in {hwm, b} : b >= y
    BY <1>1
  <2>2. \A x \in {hwm, b} : (\A y \in {hwm, b} : x >= y) => x = b
    BY <1>1
  <2> QED BY <2>1, <2>2 DEF Max
<1>3. new_hwm(hwm, top, held) = b
  BY <1>2 DEF new_hwm, b
<1> QED BY <1>1, <1>3

\* The rows that are left, and those of them that the end of a run settles.
Rest == job.rows \ job.st.done
CoveredRest == {i \in Rest : SessionOf[store[i].call] \in Covered}
SettledRest == {i \in Rest \ CoveredRest : place[SessionOf[store[i].call]] = "past"}
HeldRest == Rest \ (CoveredRest \cup SettledRest)
MarkAfter == new_hwm(job.st.hwm, job.top, HeldRest)
DoneAfter == kept_done(job.st.done \cup CoveredRest \cup SettledRest, MarkAfter)

LEMMA RestShape ==
  ASSUME EmitRest
  PROVE  /\ UNCHANGED cliVars /\ saved' = saved /\ faults' = faults /\ job.stage = "emit" /\ job.todo = {}
         /\ delivered' = delivered \cup ByRow(CallsOf(SettledRest))
         /\ job' = [stage |-> "save",
                    st |-> [cursor |-> [s \in Sessions |-> IF s \in job.files THEN job.st.cursor[s]
                                                           ELSE NoCursor],
                            hwm |-> MarkAfter, done |-> DoneAfter]]
BY DEF EmitRest, Rest, CoveredRest, SettledRest, HeldRest, MarkAfter, DoneAfter

LEMMA RestFacts ==
  ASSUME CliOK, EmitOK
  PROVE  /\ MarkAfter \in Nat /\ job.st.hwm <= MarkAfter /\ MarkAfter <= Len(store)
         /\ DoneAfter \subseteq (MarkAfter + 1)..Len(store)
         /\ DoneAfter \subseteq job.st.done \cup CoveredRest \cup SettledRest
         /\ Cardinality(DoneAfter) <= DoneWindow
         /\ \A i \in DOMAIN store : i <= MarkAfter => RowDone(job.st, i) \/ i \in CoveredRest \cup SettledRest
         /\ LET all == {i \in job.st.done \cup CoveredRest \cup SettledRest : i > MarkAfter}
            IN IsFiniteSet(all) /\ (Cardinality(all) <= DoneWindow => DoneAfter = all)
<1>0. /\ Len(store) \in Nat /\ DOMAIN store = 1..Len(store) /\ job.top = Len(store)
      /\ job.st.hwm \in Nat /\ job.st.done \subseteq DOMAIN store /\ job.st.hwm <= Len(store)
      /\ \A i \in job.rows : i \in DOMAIN store /\ i > job.st.hwm
      /\ \A i \in DOMAIN store : i > job.st.hwm => i \in job.rows \cup job.st.done
  BY EmitFacts DEF StateOK
<1>1. HeldRest \subseteq (job.st.hwm + 1)..Len(store)
  BY <1>0 DEF HeldRest, Rest
<1>2. MarkAfter \in job.st.hwm..Len(store) /\ \A i \in HeldRest : i > MarkAfter
  BY <1>0, <1>1, MarkFacts DEF MarkAfter
<1>3. MarkAfter \in Nat /\ job.st.hwm <= MarkAfter /\ MarkAfter <= Len(store)
  BY <1>0, <1>2
<1> DEFINE all == {i \in job.st.done \cup CoveredRest \cup SettledRest : i > MarkAfter}
<1>4. all \subseteq 1..Len(store) /\ all \subseteq Nat /\ IsFiniteSet(all)
  <2>1. all \in SUBSET (1..Len(store))
    BY <1>0 DEF CoveredRest, SettledRest, Rest
  <2>2. IsFiniteSet(1..Len(store))
    BY <1>0, FS_Interval
  <2> HIDE DEF all
  <2>3. IsFiniteSet(all)
    BY <2>1, <2>2, FS_Subset
  <2>4. \A i \in all : i \in Nat
    BY <1>0, <2>1
  <2> QED BY <2>1, <2>3, <2>4
<1>5. \A i \in all : i > MarkAfter /\ i \in job.st.done \cup CoveredRest \cup SettledRest
  OBVIOUS
<1>6. DoneAfter = LastOf(all, DoneWindow)
  BY DEF DoneAfter, kept_done
<1> HIDE DEF all
<1>7. /\ DoneAfter \subseteq all /\ Cardinality(DoneAfter) <= DoneWindow
      /\ Cardinality(all) <= DoneWindow => DoneAfter = all
  BY <1>4, <1>6, LastFacts, CollectorAssumption
<1>8. DoneAfter \subseteq (MarkAfter + 1)..Len(store)
  BY <1>0, <1>3, <1>4, <1>5, <1>7
<1>9. \A i \in DOMAIN store : i <= MarkAfter => RowDone(job.st, i) \/ i \in CoveredRest \cup SettledRest
  <2> SUFFICES ASSUME NEW i \in DOMAIN store, i <= MarkAfter, ~(i <= job.st.hwm), i \notin job.st.done
               PROVE  i \in CoveredRest \cup SettledRest
    BY DEF RowDone
  <2>1. i \in Nat /\ i > job.st.hwm
    BY <1>0
  <2>2. i \in Rest
    BY <1>0, <2>1 DEF Rest
  <2>3. i \notin HeldRest
    BY <1>2, <1>3, <2>1
  <2> QED BY <2>2, <2>3 DEF HeldRest
<1> QED BY <1>3, <1>4, <1>5, <1>7, <1>8, <1>9 DEF all

LEMMA EmitRestKeeps ==
  ASSUME Inv, EmitRest PROVE Inv'
<1>0. job.stage = "emit" /\ CliOK /\ StateOK(saved) /\ JobOK
  BY RestShape DEF Inv
<1>1. EmitOK
  BY <1>0 DEF JobOK, Idle, ParseOK, SaveOK
<1> DEFINE cursor == [s \in Sessions |-> IF s \in job.files THEN job.st.cursor[s] ELSE NoCursor]
           st == [cursor |-> cursor, hwm |-> MarkAfter, done |-> DoneAfter]
<1>2. /\ UNCHANGED cliVars /\ saved' = saved /\ faults' = faults /\ job.todo = {}
      /\ delivered' = delivered \cup ByRow(CallsOf(SettledRest))
      /\ job' = [stage |-> "save", st |-> st]
  BY RestShape
<1>3. /\ job.st \in State /\ StateOK(job.st) /\ DOMAIN store = 1..Len(store) /\ Len(store) \in Nat
      /\ \A i \in job.rows : i \in DOMAIN store
      /\ \A i \in DOMAIN store : store[i].call \in Calls /\ SessionOf[store[i].call] \in Sessions
  BY <1>0, <1>1, EmitFacts
<1>4. /\ MarkAfter \in Nat /\ job.st.hwm <= MarkAfter /\ MarkAfter <= Len(store)
      /\ DoneAfter \subseteq (MarkAfter + 1)..Len(store)
      /\ DoneAfter \subseteq job.st.done \cup CoveredRest \cup SettledRest
      /\ Cardinality(DoneAfter) <= DoneWindow
      /\ \A i \in DOMAIN store : i <= MarkAfter => RowDone(job.st, i) \/ i \in CoveredRest \cup SettledRest
  BY <1>0, <1>1, RestFacts
<1>5. st \in State
  <2>1. cursor \in [Sessions -> Cursor \cup {NoCursor}]
    BY <1>3 DEF State
  <2>2. DoneAfter \in SUBSET Nat
    BY <1>4
  <2> HIDE DEF cursor
  <2> QED BY <1>4, <2>1, <2>2 DEF State
<1>6. st.hwm = MarkAfter /\ st.done = DoneAfter /\ \A s \in Sessions : st.cursor[s] \in {NoCursor, job.st.cursor[s]}
  OBVIOUS
<1> HIDE DEF st
<1>7. \A i \in DOMAIN store : RowDone(st, i) => RowDone(job.st, i) \/ i \in CoveredRest \cup SettledRest
  BY <1>4, <1>6 DEF RowDone
<1>8. ASSUME NEW i \in DOMAIN store, RowDone(job.st, i) \/ i \in CoveredRest \cup SettledRest,
             NEW c, c = store[i].call
      PROVE  SessionOf[c] \in Covered \/ Delivered(c)'
  <2>1. CASE RowDone(job.st, i)
    <3>1. SessionOf[c] \in Covered \/ Delivered(c)
      BY <1>3, <1>8, <2>1 DEF StateOK
    <3> QED BY <1>2, <3>1 DEF Delivered
  <2>2. CASE i \in CoveredRest
    BY <1>8, <2>2 DEF CoveredRest
  <2>3. CASE i \in SettledRest
    <3>1. c \in CallsOf(SettledRest)
      BY <1>8, <2>3 DEF CallsOf
    <3>2. [call |-> c, by |-> "row"] \in delivered'
      BY <1>2, <3>1 DEF ByRow
    <3> QED BY <3>2 DEF Delivered
  <2> QED BY <1>8, <2>1, <2>2, <2>3
<1>9. UNCHANGED <<file, place, quiet, store, over, raced>>
  BY <1>2 DEF cliVars
<1>10. ASSUME NEW x, x = st PROVE StateOK(x)'
  <2>1. \A t \in Sessions : x.cursor[t] # NoCursor => CursorOK(t, x.cursor[t])'
    <3>1. ASSUME NEW t \in Sessions, NEW c, c = x.cursor[t], c # NoCursor PROVE CursorOK(t, c)'
      <4>1. CursorOK(t, c)
        BY <1>3, <1>6, <1>10, <3>1 DEF StateOK
      <4>2. delivered \subseteq delivered'
        BY <1>2
      <4> QED BY <1>0, <1>2, <4>1, <4>2, RunFrame, CursorKept DEF CliOK
    <3> QED BY <3>1
  <2>2. \A i \in DOMAIN store' : RowDone(x, i) => SessionOf[store'[i].call] \in Covered \/ Delivered(store[i].call)'
    <3>1. ASSUME NEW i \in DOMAIN store, RowDone(x, i)
          PROVE  SessionOf[store[i].call] \in Covered \/ Delivered(store[i].call)'
      <4>1. \A c : c = store[i].call => SessionOf[c] \in Covered \/ Delivered(c)'
        BY <1>7, <1>8, <1>10, <3>1
      <4> QED BY <1>9, <4>1
    <3> QED BY <1>9, <3>1
  <2>3. x \in State /\ x.hwm <= Len(store') /\ x.done \subseteq (x.hwm + 1)..Len(store')
    BY <1>4, <1>5, <1>6, <1>9, <1>10
  <2> QED BY <2>1, <2>2, <2>3 DEF StateOK, RowDone, State, Cursor, Context, Group
<1>11. job'.stage = "save" /\ job'.st = st /\ job' \in [stage : {"save"}, st : State]
  BY <1>2, <1>5
<1>12. StateOK(job.st)'
  <2>1. \A x : x = job'.st => StateOK(x)'
    BY <1>10, <1>11
  <2> QED BY <2>1
<1>13. ASSUME NEW i \in DOMAIN store, NEW c, c = store[i].call, NEW s, s = SessionOf[c]
       PROVE  s \in Covered \/ Delivered(c)' \/ (~quiet[s] /\ place[s] \in {"live", "gone"})
  <2>1. CASE RowDone(job.st, i) \/ i \in CoveredRest \cup SettledRest
    BY <1>8, <1>13, <2>1
  <2>2. CASE ~RowDone(job.st, i) /\ i \notin CoveredRest \cup SettledRest
    <3>1. i \in Rest
      BY <1>0, <1>1, <2>2, EmitFacts DEF RowDone, Rest
    <3>2. s \in Sessions /\ place[s] # "past" /\ s \notin Covered
      BY <1>3, <1>13, <2>2, <3>1 DEF CoveredRest, SettledRest
    <3>3. place[s] # "new"
      BY <1>0, <1>13, RowFacts DEF CliOK, RowOK
    <3>4. ~(place[s] = "live" /\ quiet[s])
      BY <1>1, <1>2, <1>13, <3>1 DEF EmitOK, Rest
    <3>5. place[s] \in {"live", "gone"} /\ (place[s] = "gone" => ~quiet[s])
      BY <1>0, <3>2, <3>3 DEF CliOK
    <3> QED BY <3>4, <3>5
  <2> QED BY <2>1, <2>2
<1>14. SaveOK'
  <2>1. ASSUME NEW i \in DOMAIN store
        PROVE  SessionOf[store[i].call] \in Covered \/ Delivered(store[i].call)'
               \/ (~quiet[SessionOf[store[i].call]] /\ place[SessionOf[store[i].call]] \in {"live", "gone"})
    <3>1. \A c, s : c = store[i].call /\ s = SessionOf[c] =>
            s \in Covered \/ Delivered(c)' \/ (~quiet[s] /\ place[s] \in {"live", "gone"})
      BY <1>13
    <3> QED BY <1>9, <3>1
  <2>2. Cardinality(job'.st.done) <= DoneWindow
    BY <1>4, <1>6, <1>11
  <2> QED BY <1>9, <1>11, <1>12, <2>1, <2>2 DEF SaveOK
<1>15. StateOK(saved)'
  <2>1. \A x : x = saved => StateOK(x)'
    BY <1>0, <1>2, RunFrame
  <2> QED BY <1>2, <2>1
<1>16. delivered' \subseteq [call : Calls, by : {"message", "row"}]
  <2>1. CallsOf(SettledRest) \subseteq Calls
    BY <1>3 DEF CallsOf, SettledRest, CoveredRest, Rest
  <2> QED BY <1>2, <2>1 DEF Inv, ByRow
<1> QED BY <1>0, <1>2, <1>14, <1>15, <1>16, RunFrame DEF Inv, JobOK

LEMMA SaveKeeps ==
  ASSUME Inv, Save PROVE Inv'
<1>0. /\ UNCHANGED cliVars /\ delivered' = delivered /\ faults' = faults
      /\ saved' = job.st /\ job' = Idle /\ job.stage = "save" /\ CliOK
  BY DEF Save, Inv
<1>1. SaveOK
  BY <1>0 DEF Inv, JobOK, Idle, ParseOK, EmitOK
<1>2. StateOK(saved)'
  <2>1. \A x : x = saved' => StateOK(x)'
    BY <1>0, <1>1, RunFrame DEF SaveOK
  <2> QED BY <2>1
<1>3. Cardinality(saved'.done) <= DoneWindow
  BY <1>0, <1>1 DEF SaveOK
<1> QED BY <1>0, <1>2, <1>3, RunFrame DEF Inv, JobOK, Idle

LEMMA CrashKeeps ==
  ASSUME Inv, Crash PROVE Inv'
<1>1. \A x : x = saved => StateOK(x)'
  BY RunFrame DEF Inv, Crash
<1>2. faults' \in 0..MaxFaults
  BY CollectorAssumption DEF Crash, MayFail, Inv
<1> QED BY <1>1, <1>2, RunFrame DEF Inv, Crash, JobOK, Idle

LEMMA NoStateOK ==
  ASSUME CliOK PROVE StateOK(NoState) /\ Cardinality(NoState.done) <= DoneWindow
<1>1. /\ NoState.hwm = 0 /\ NoState.done = {} /\ \A s \in Sessions : NoState.cursor[s] = NoCursor
      /\ NoState \in State
  BY DEF NoState, State
<1>2. Len(store) \in Nat /\ DOMAIN store = 1..Len(store)
  BY RowFacts DEF CliOK
<1>3. Cardinality({}) = 0
  BY FS_EmptySet
<1> QED BY <1>1, <1>2, <1>3, CollectorAssumption DEF StateOK, RowDone

LEMMA LoseStateKeeps ==
  ASSUME Inv, LoseState PROVE Inv'
<1>1. StateOK(NoState)' /\ CliOK' /\ Cardinality(NoState.done) <= DoneWindow
  <2>1. \A x : x = NoState => StateOK(x)'
    BY NoStateOK, RunFrame DEF Inv, LoseState
  <2>2. NoState' = NoState
    BY DEF NoState
  <2> QED BY <2>1, <2>2, NoStateOK, RunFrame DEF Inv, LoseState
<1>2. faults' \in 0..MaxFaults
  BY CollectorAssumption DEF LoseState, MayFail, Inv
<1>3. StateOK(saved)'
  BY <1>1 DEF LoseState, StateOK, NoState
<1> QED BY <1>1, <1>2, <1>3 DEF Inv, LoseState, JobOK, Idle

LEMMA InitInv ==
  ASSUME Init PROVE Inv
<1>1. \A s \in Sessions : file[s] = <<>> /\ place[s] = "new" /\ quiet[s] = FALSE
  BY DEF Init
<1>2. store = <<>> /\ over = {} /\ raced = {} /\ saved = NoState /\ job = Idle /\ delivered = {} /\ faults = 0
  BY DEF Init
<1>3. FileOK
  BY <1>1 DEF Init, FileOK
<1>4. StoreOK
  BY <1>2 DEF StoreOK
<1>5. FlightOK
  <2>1. \A c \in Calls : ~HasLine(c)
    BY <1>1, CollectorAssumption DEF HasLine
  <2>2. Logged = {}
    BY <1>2 DEF Logged, ToSet
  <2> QED BY <2>1, <2>2 DEF FlightOK, Open
<1>6. CliOK
  BY <1>1, <1>2, <1>3, <1>4, <1>5 DEF Init, CliOK
<1> QED BY <1>2, <1>6, NoStateOK, CollectorAssumption DEF Inv, JobOK

-----------------------------------------------------------------------------
(* Theorems *)

LEMMA InvStep ==
  ASSUME Inv, [Next]_vars PROVE Inv'
<1>1. CASE Cli
  BY <1>1, CliKeeps, SteadyKeeps DEF Inv
<1>2. CASE Run
  BY <1>2, BeginKeeps, ReadStoreKeeps, EmitRestKeeps, SaveKeeps, PrepareKeeps, EmitSessionKeeps DEF Run
<1>3. CASE StoreLocked \/ Crash \/ LoseState
  BY <1>3, StoreLockedKeeps, CrashKeeps, LoseStateKeeps
<1>4. CASE UNCHANGED vars
  <2>1. UNCHANGED cliVars /\ saved' = saved /\ job' = job /\ delivered' = delivered /\ faults' = faults
    BY <1>4 DEF vars
  <2>2. UNCHANGED <<file, place, quiet, store, over, raced>>
    BY <2>1 DEF cliVars
  <2>3. CliOK' /\ Longer
    BY <2>1, RunFrame DEF Inv
  <2>4. Careful
    BY <2>2, FilesSame DEF Inv, CliOK, Careful
  <2>5. Steady
    BY <2>1, <2>2, <2>3, <2>4 DEF Steady
  <2> QED BY <2>3, <2>5, SteadyKeeps
<1> QED BY <1>1, <1>2, <1>3, <1>4 DEF Next

\* The inductive invariant holds whatever the sessions write while a run of
\* collect_incremental_copilot is at work, and whichever run dies.
THEOREM Invariance == Spec => []Inv
<1>1. Init => Inv
  BY InitInv
<1>2. Inv /\ [Next]_vars => Inv'
  BY InvStep
<1> QED BY <1>1, <1>2, PTL DEF Spec

\* Type correctness: the mark and the ids that are remembered stay within the store and
\* the window, and the cursors within the files.
THEOREM TypeCorrectness == Spec => []TypeOK
<1>1. Inv => TypeOK
  <2> SUFFICES ASSUME Inv PROVE TypeOK
    OBVIOUS
  <2>1. /\ CliOK /\ StateOK(saved) /\ saved \in State /\ Len(store) \in Nat
    BY RowFacts DEF Inv, StateOK, CliOK
  <2>2. /\ saved.hwm \in Nat /\ saved.hwm <= Len(store) /\ saved.done \subseteq (saved.hwm + 1)..Len(store)
        /\ saved.cursor \in [Sessions -> Cursor \cup {NoCursor}]
    BY <2>1 DEF StateOK, State
  <2>3. \A s \in Sessions : saved.cursor[s] # NoCursor =>
          /\ saved.cursor[s].offset <= saved.cursor[s].size
          /\ saved.cursor[s].size <= Len(file[s])
          /\ Len(saved.cursor[s].ctx.pending) <= PendingMax
    BY <2>1 DEF StateOK, CursorOK
  <2> QED BY <2>1, <2>2, <2>3 DEF Inv, CliOK, TypeOK
<1> QED BY <1>1, Invariance, PTL

\* Nothing waits for ever: when every session is quiescent or its rows are old, the run
\* that is about to save its state has stored every row there is, although commit_store
\* holds the mark back for open legs.
THEOREM NothingWaits == Spec => []QuietMeansDelivered
<1>1. Inv => QuietMeansDelivered
  <2> SUFFICES ASSUME Inv, job.stage = "save",
                      \A s \in Sessions : quiet[s] \/ place[s] \in {"new", "past"},
                      NEW c \in Logged, SessionOf[c] \notin Covered
               PROVE  Delivered(c)
    BY DEF QuietMeansDelivered
  <2>1. SaveOK
    BY DEF Inv, JobOK, Idle, ParseOK, EmitOK
  <2>2. PICK i \in DOMAIN store : store[i].call = c
    BY DEF Logged, ToSet
  <2>3. SessionOf[c] \in Sessions
    BY <2>2, RowFacts DEF Inv, CliOK
  <2>4. ~(~quiet[SessionOf[c]] /\ place[SessionOf[c]] \in {"live", "gone"})
    BY <2>3
  <2> QED BY <2>1, <2>2, <2>4 DEF SaveOK
<1> QED BY <1>1, Invariance, PTL

-----------------------------------------------------------------------------
(* What is held is not cut off *)

\* The messages that a session can hold are no more than its calls leave.
LEMMA HeldFew ==
  ASSUME CliOK, Roomy, NEW s \in Sessions, NEW q, NEW b \in Nat, b <= Len(file[s]), GroupsOK(s, q, 0, b),
         NEW S, S \subseteq DOMAIN q
  PROVE  Cardinality(S) <= PendingMax
<1> DEFINE M == {Message(c) : c \in Said(s)}
           D == Said(s) \cap Chunked
           C == {Chunk(c) : c \in D}
           f == [c \in Said(s) |-> Message(c)]
           g == [c \in D |-> Chunk(c)]
           h == [k \in S |-> file[s][q[k].at + 1]]
<1>0. FileOK /\ Len(file[s]) \in Nat /\ DOMAIN file[s] = 1..Len(file[s]) /\ PendingMax \in Nat
  BY SessionTypes, CollectorAssumption DEF CliOK
<1>1. IsFiniteSet(Said(s)) /\ Cardinality(Said(s)) \in Nat
  BY FS_CardinalityType DEF Roomy
<1>2. IsFiniteSet(D) /\ Cardinality(D) \in Nat
  <2>1. D \in SUBSET Said(s)
    OBVIOUS
  <2> HIDE DEF D
  <2> QED BY <1>1, <2>1, FS_Subset, FS_CardinalityType
<1>3. IsFiniteSet(M) /\ Cardinality(M) <= Cardinality(Said(s)) /\ Cardinality(M) \in Nat
  <2>1. f \in Surjection(Said(s), M)
    BY DEF Surjection
  <2> HIDE DEF f, M
  <2> QED BY <1>1, <2>1, FS_Surjection, FS_CardinalityType
<1>4. IsFiniteSet(C) /\ Cardinality(C) <= Cardinality(D) /\ Cardinality(C) \in Nat
  <2>1. g \in Surjection(D, C)
    <3> HIDE DEF D
    <3> QED BY DEF Surjection
  <2> HIDE DEF g, C, D
  <2> QED BY <1>2, <2>1, FS_Surjection, FS_CardinalityType
<1>5. IsFiniteSet(M \cup C) /\ Cardinality(M \cup C) <= Cardinality(M) + Cardinality(C)
      /\ Cardinality(M \cup C) \in Nat
  <2>1. IsFiniteSet(M \cap C)
    <3>1. (M \cap C) \in SUBSET M
      OBVIOUS
    <3> HIDE DEF M, C
    <3> QED BY <1>3, <3>1, FS_Subset
  <2> HIDE DEF M, C
  <2>2. Cardinality(M \cap C) \in Nat
    BY <2>1, FS_CardinalityType
  <2>3. IsFiniteSet(M \cup C)
        /\ Cardinality(M \cup C) = Cardinality(M) + Cardinality(C) - Cardinality(M \cap C)
    BY <1>3, <1>4, FS_Union
  <2>4. Cardinality(M \cup C) \in Nat
    BY <2>3, FS_CardinalityType
  <2> QED BY <1>3, <1>4, <2>2, <2>3, <2>4
<1>6. ASSUME NEW k \in S
      PROVE  /\ q[k].at + 1 \in 1..Len(file[s]) /\ q[k].call \in Calls
             /\ IsOf(s, q[k].at + 1, q[k].call) /\ q[k].at \in Nat
  <2>1. GroupOK(s, q[k], 0, b)
    BY DEF GroupsOK
  <2> QED BY <1>0, <2>1 DEF GroupOK, Group
<1>7. \A k \in S : h[k] \in M \cup C
  <2> SUFFICES ASSUME NEW k \in S PROVE file[s][q[k].at + 1] \in M \cup C
    OBVIOUS
  <2> DEFINE n == q[k].at + 1
             c == q[k].call
  <2>1. n \in DOMAIN file[s] /\ IsOf(s, n, c) /\ c \in Calls
    BY <1>0, <1>6
  <2>2. SessionOf[c] = s
    BY <1>0, <2>1 DEF FileOK
  <2>3. /\ file[s][n].call = c /\ c \in Calls \ RowOnly
        /\ file[s][n].type = "chunk" => c \in Chunked
    BY <1>0, <2>1, LineKinds
  <2>4. CASE file[s][n] = Message(c)
    BY <2>2, <2>3, <2>4 DEF Said
  <2>5. CASE file[s][n] = Chunk(c)
    <3>1. c \in D
      BY <2>2, <2>3, <2>5 DEF Said, Chunk
    <3> QED BY <2>5, <3>1
  <2> QED BY <2>1, <2>4, <2>5 DEF IsOf
<1>8. \A j, k \in S : h[j] = h[k] => j = k
  <2> SUFFICES ASSUME NEW j \in S, NEW k \in S, file[s][q[j].at + 1] = file[s][q[k].at + 1] PROVE j = k
    OBVIOUS
  <2>1. q[j].at + 1 \in DOMAIN file[s] /\ q[k].at + 1 \in DOMAIN file[s]
        /\ IsOf(s, q[j].at + 1, q[j].call) /\ q[j].call \in Calls
    BY <1>0, <1>6
  <2>2. q[j].at + 1 = q[k].at + 1
    BY <1>0, <2>1 DEF FileOK
  <2>3. q[j].at = q[k].at
    BY <1>6, <2>2
  <2> QED BY <2>3 DEF GroupsOK
<1>9. h \in Injection(S, M \cup C)
  <2>1. h \in [S -> M \cup C]
    <3>1. h = [k \in S |-> h[k]]
      OBVIOUS
    <3> HIDE DEF h, M, C
    <3> QED BY <1>7, <3>1
  <2> HIDE DEF h, M, C
  <2> QED BY <1>8, <2>1 DEF Injection, IsInjective
<1>10. Cardinality(S) <= Cardinality(M \cup C) /\ Cardinality(S) \in Nat
  <2> HIDE DEF h, M, C
  <2> QED BY <1>5, <1>9, FS_Injection, FS_CardinalityType
<1>11. Cardinality(Said(s)) + Cardinality(D) <= PendingMax
  BY DEF Roomy
<1> HIDE DEF M, C, D
<1> QED BY <1>0, <1>1, <1>2, <1>3, <1>4, <1>5, <1>10, <1>11

\* What was read stays read.
LEMMA HeldStays ==
  ASSUME CliOK, Longer, NEW st, StateOK(st), HeldOK(st), NEW x, x = st
  PROVE  HeldOK(x)'
<1> SUFFICES ASSUME NEW s \in Sessions \ Covered, x.cursor[s] # NoCursor,
                    NEW n \in 1..x.cursor[s].offset, NEW c \in Calls, IsOf(s, n, c)'
             PROVE  ByMsg(c) \in delivered' \/ OfCall(x.cursor[s].ctx.pending, c) # {}
  BY DEF HeldOK, ByMsg, OfCall
<1>1. n \in 1..Len(file[s])
  <2>1. x.cursor[s].offset <= Len(file[s]) /\ x.cursor[s].offset \in Nat
    <3>1. CursorOK(s, x.cursor[s])
      BY DEF StateOK
    <3> QED BY <3>1, SessionTypes DEF CursorOK, Cursor, CliOK
  <2>2. Len(file[s]) \in Nat
    BY SessionTypes DEF CliOK
  <2> QED BY <2>1, <2>2
<1>2. IsOf(s, n, c)
  BY <1>1, LinesKept DEF CliOK, Longer
<1> QED BY <1>2 DEF HeldOK, Longer

LEMMA HeldEmit ==
  ASSUME CliOK, EmitOK, Roomy, HeldOK(job.st), NEW s \in job.todo, Emits(s), UNCHANGED cliVars
  PROVE  HeldOK(job.st)'
<1> DEFINE cur == job.st.cursor[s]
           w == job.works[s]
           q == MessagesOf(s)
<1>0. s \in Sessions /\ WorkOK(s, w, cur) /\ (cur = NoCursor \/ CursorOK(s, cur))
      /\ GroupsOK(s, q, 0, w.offset) /\ q \in Seq(Group) /\ CliOK
  BY EmitTypes
<1>1. job'.st.cursor[s] = CursorOf(s) /\ \A t \in Sessions : t # s => job'.st.cursor[t] = job.st.cursor[t]
  BY <1>0, EmitFacts DEF Emits, State
<1>2. CursorOf(s).offset = w.offset /\ CursorOf(s).ctx.pending = PendingOf(s)
  BY NewCursorOK
<1>3. file' = file /\ delivered \subseteq delivered'
  BY DEF cliVars, Emits
<1>4. \A c : OfCall(Held(cur), c) # {} \/ OfCall(w.messages, c) # {} => OfCall(q, c) # {}
  BY <1>0, MessagesOK DEF MessagesOf
<1>5. ASSUME s \notin Covered, NEW c, OfCall(q, c) # {}
      PROVE  ByMsg(c) \in delivered' \/ OfCall(PendingOf(s), c) # {}
  <2>1. PICK k \in DOMAIN q : q[k].call = c
    BY <1>5 DEF OfCall
  <2>2. CASE Ends(s, q[k])
    <3>1. q[k] \in ToSet(q)
      BY DEF ToSet
    <3>2. c \in SettledOf(s)
      BY <2>1, <2>2, <3>1 DEF SettledOf
    <3> QED BY <1>5, <3>2 DEF Emits, ByMessage, ByMsg
  <2>3. CASE ~Ends(s, q[k])
    <3>1. k \in HeldOf(s) /\ HeldOf(s) \subseteq DOMAIN q
      BY <2>3 DEF HeldOf
    <3>2. w.offset \in Nat /\ w.offset <= Len(file[s])
      <4>1. w.offset \in Nat /\ w.size \in Nat /\ w.offset <= w.size /\ w.size <= Len(file[s])
        BY <1>0 DEF WorkOK, Work
      <4> QED BY <1>0, <4>1, SessionTypes DEF CliOK
    <3>3. Cardinality(HeldOf(s)) <= PendingMax
      BY <1>0, <3>1, <3>2, HeldFew
    <3>4. OfCall(PendingOf(s), q[k].call) # {}
      BY <1>0, <1>5, <3>1, <3>3, PendingOK DEF PendingOf
    <3> QED BY <2>1, <3>4
  <2> QED BY <2>2, <2>3
<1>6. ASSUME s \notin Covered, NEW n \in 1..w.offset, NEW c \in Calls, IsOf(s, n, c)
      PROVE  ByMsg(c) \in delivered' \/ OfCall(PendingOf(s), c) # {}
  <2>1. From(cur) \in Nat /\ w.offset \in Nat
    BY <1>0 DEF WorkOK, Work, From, CursorOK, Cursor
  <2>2. CASE n \in 1..From(cur)
    <3>1. cur # NoCursor /\ n \in 1..cur.offset
      BY <2>2 DEF From
    <3>2. ByMsg(c) \in delivered \/ OfCall(Held(cur), c) # {}
      BY <1>0, <1>6, <3>1 DEF HeldOK, Held
    <3> QED BY <1>3, <1>4, <1>5, <1>6, <3>2
  <2>3. CASE n \in (From(cur) + 1)..w.offset
    BY <1>0, <1>4, <1>5, <1>6, <2>3 DEF WorkOK
  <2> QED BY <2>1, <2>2, <2>3
<1> SUFFICES ASSUME NEW t \in Sessions \ Covered, job'.st.cursor[t] # NoCursor,
                    NEW n \in 1..job'.st.cursor[t].offset, NEW c \in Calls, IsOf(t, n, c)'
             PROVE  ByMsg(c) \in delivered' \/ OfCall(job'.st.cursor[t].ctx.pending, c) # {}
  BY DEF HeldOK, ByMsg, OfCall
<1>7. IsOf(t, n, c)
  BY <1>0, <1>3, FilesSame DEF CliOK
<1> QED BY <1>1, <1>2, <1>3, <1>6, <1>7 DEF HeldOK

LEMMA HeldStep ==
  ASSUME Roomy, Inv, [Next]_vars, HeldInv PROVE HeldInv'
<1>0. CliOK /\ StateOK(saved) /\ JobOK
  BY DEF Inv
<1>1. (job.stage = "emit" => EmitOK) /\ (job.stage = "save" => SaveOK) /\ (job = Idle => job.stage = "idle")
  <2>1. ASSUME job.stage = "emit" PROVE EmitOK
    BY <1>0, <2>1 DEF JobOK, Idle, ParseOK, SaveOK
  <2>2. ASSUME job.stage = "save" PROVE SaveOK
    BY <1>0, <2>2 DEF JobOK, Idle, ParseOK, EmitOK
  <2>3. Idle.stage = "idle"
    BY DEF Idle
  <2> QED BY <2>1, <2>2, <2>3
<1>2. job.stage \in {"emit", "save"} => StateOK(job.st) /\ HeldOK(job.st)
  BY <1>1, EmitFacts, <1>0 DEF SaveOK, HeldInv
<1>3. ASSUME Longer, saved' = saved PROVE HeldOK(saved)'
  <2>1. \A x : x = saved => HeldOK(x)'
    BY <1>0, <1>3, HeldStays DEF HeldInv
  <2> QED BY <1>3, <2>1
<1>4. ASSUME Longer, job.stage \in {"emit", "save"} PROVE \A x : x = job.st => HeldOK(x)'
  BY <1>0, <1>2, <1>4, HeldStays
<1>5. ASSUME Longer, saved' = saved, job' = job PROVE HeldInv'
  <2>1. job'.stage \in {"emit", "save"} => HeldOK(job.st)'
    BY <1>4, <1>5
  <2> QED BY <1>3, <1>5, <2>1 DEF HeldInv
<1>6. ASSUME Longer, saved' = saved, job'.stage \notin {"emit", "save"} PROVE HeldInv'
  BY <1>3, <1>6 DEF HeldInv
<1>7. ASSUME UNCHANGED cliVars, delivered \subseteq delivered' PROVE Longer
  BY <1>0, <1>7, RunFrame
<1>8. CASE Cli
  <2>1. Steady
    BY <1>0, <1>8, CliKeeps
  <2> QED BY <1>5, <2>1 DEF Steady
<1>9. CASE Begin \/ (\E s \in Sessions : Prepare(s)) \/ StoreLocked \/ Crash
  <2>1. UNCHANGED cliVars /\ saved' = saved /\ delivered' = delivered
    BY <1>9 DEF Begin, Prepare, StoreLocked, Crash
  <2>2. job'.stage \notin {"emit", "save"}
    <3>1. CASE Begin
      BY <3>1 DEF Begin
    <3>2. CASE StoreLocked \/ Crash
      BY <3>2 DEF StoreLocked, Crash, Idle
    <3>3. ASSUME NEW s \in Sessions, Prepare(s) PROVE job'.stage \notin {"emit", "save"}
      <4>1. job.stage = "parse"
        BY <3>3 DEF Prepare
      <4>2. ParseOK
        BY <1>0, <4>1 DEF JobOK, Idle, ParseOK, EmitOK, SaveOK
      <4>3. job'.stage = job.stage
        BY <3>3, <4>2 DEF Prepare, ParseOK
      <4> QED BY <4>1, <4>3
    <3> QED BY <1>9, <3>1, <3>2, <3>3
  <2> QED BY <1>6, <1>7, <2>1, <2>2
<1>10. CASE ReadStore
  <2>1. UNCHANGED cliVars /\ saved' = saved /\ delivered' = delivered /\ job.stage = "parse"
    BY <1>10 DEF ReadStore
  <2>2. ParseOK
    BY <1>0, <2>1 DEF JobOK, Idle, ParseOK, EmitOK, SaveOK
  <2>3. job'.st = saved
    BY <1>10, <2>2 DEF ReadStore, ParseOK
  <2>4. HeldOK(saved)'
    BY <1>3, <1>7, <2>1
  <2>5. HeldOK(job.st)'
    BY <2>1, <2>3, <2>4 DEF HeldOK
  <2> QED BY <2>4, <2>5 DEF HeldInv
<1>11. ASSUME NEW s \in Sessions, EmitSession(s) PROVE HeldInv'
  <2>1. EmitOK
    <3>1. job.stage = "emit"
      BY <1>11 DEF EmitSession
    <3> QED BY <1>1, <3>1
  <2>2. /\ UNCHANGED cliVars /\ saved' = saved /\ s \in job.todo
        /\ EmitsNothing(s) \/ Emits(s)
    BY <1>0, <1>11, <2>1, EmitFacts, EmitShape
  <2>3. delivered \subseteq delivered'
    BY <2>2 DEF EmitsNothing, Emits
  <2>4. HeldOK(job.st)'
    <3>1. CASE Emits(s)
      BY <1>0, <1>2, <2>1, <2>2, <3>1, HeldEmit DEF EmitOK
    <3>2. CASE EmitsNothing(s)
      <4>1. \A x : x = job.st => HeldOK(x)'
        BY <1>4, <1>7, <2>1, <2>2, <2>3 DEF EmitOK
      <4> QED BY <3>2, <4>1 DEF EmitsNothing
    <3> QED BY <2>2, <3>1, <3>2
  <2>5. HeldOK(saved)'
    BY <1>3, <1>7, <2>2, <2>3
  <2> QED BY <2>4, <2>5 DEF HeldInv
<1>12. CASE EmitRest
  <2>1. /\ UNCHANGED cliVars /\ saved' = saved /\ delivered \subseteq delivered' /\ job.stage = "emit"
        /\ job'.st.cursor = [s \in Sessions |-> IF s \in job.files THEN job.st.cursor[s] ELSE NoCursor]
    BY <1>12, RestShape
  <2>2. HeldOK(job.st)'
    <3>1. \A x : x = job.st => HeldOK(x)'
      BY <1>4, <1>7, <2>1
    <3>2. \A s \in Sessions : job'.st.cursor[s] \in {NoCursor, job.st.cursor[s]}
      BY <2>1
    <3>3. \A x, y : HeldOK(x)' /\ (\A s \in Sessions : y.cursor[s] \in {NoCursor, x.cursor[s]}) => HeldOK(y)'
      BY DEF HeldOK, ByMsg, OfCall
    <3>4. \A y : y = job'.st => HeldOK(y)'
      BY <3>1, <3>2, <3>3
    <3> QED BY <3>4
  <2>3. HeldOK(saved)'
    BY <1>3, <1>7, <2>1
  <2> QED BY <2>2, <2>3 DEF HeldInv
<1>13. CASE Save
  <2>1. /\ UNCHANGED cliVars /\ delivered' = delivered /\ saved' = job.st /\ job' = Idle
        /\ job.stage = "save"
    BY <1>13 DEF Save
  <2>2. \A x : x = job.st => HeldOK(x)'
    BY <1>4, <1>7, <2>1
  <2> QED BY <2>1, <2>2 DEF HeldInv, Idle
<1>14. CASE LoseState
  <2>1. job' = job /\ job = Idle /\ saved' = NoState
    BY <1>14 DEF LoseState
  <2>2. \A s \in Sessions : saved'.cursor[s] = NoCursor
    BY <2>1 DEF NoState
  <2> QED BY <1>1, <2>1, <2>2 DEF HeldInv, HeldOK
<1>15. CASE UNCHANGED vars
  BY <1>5, <1>7, <1>15 DEF vars
<1> QED BY <1>8, <1>9, <1>10, <1>11, <1>12, <1>13, <1>14, <1>15 DEF Next, Run

\* The state file passes over nothing, as long as no session has more messages and chunks
\* than are held for it (what is beyond _PENDING_MAX is cut off).
THEOREM NeverSkips ==
  ASSUME Roomy
  PROVE  Spec => []NothingSkipped
<1>1. Init => Inv /\ HeldInv
  <2> SUFFICES ASSUME Init PROVE Inv /\ HeldInv
    OBVIOUS
  <2>1. saved = NoState /\ job.stage = "idle" /\ \A s \in Sessions : saved.cursor[s] = NoCursor
    BY DEF Init, NoState, Idle
  <2> QED BY <2>1, InitInv DEF HeldInv, HeldOK
<1>2. Inv /\ HeldInv /\ [Next]_vars => Inv' /\ HeldInv'
  BY InvStep, HeldStep
<1>3. Inv /\ HeldInv => NothingSkipped
  <2> SUFFICES ASSUME Inv, HeldInv PROVE NothingSkipped
    OBVIOUS
  <2>0. CliOK /\ StateOK(saved) /\ FileOK /\ DOMAIN store = 1..Len(store)
    BY RowFacts DEF Inv, CliOK
  <2>1. \A i \in 1..Len(store) :
          (i <= saved.hwm \/ i \in saved.done) /\ SessionOf[store[i].call] \notin Covered
            => Delivered(store[i].call)
    BY <2>0 DEF StateOK, RowDone
  <2>2. ASSUME NEW s \in Sessions \ Covered, saved.cursor[s] # NoCursor,
               NEW n \in 1..saved.cursor[s].offset, file[s][n].type = "message"
        PROVE  Delivered(file[s][n].call) \/ OfCall(saved.cursor[s].ctx.pending, file[s][n].call) # {}
    <3>1. n \in DOMAIN file[s]
      <4>1. CursorOK(s, saved.cursor[s])
        BY <2>0, <2>2 DEF StateOK
      <4>2. /\ saved.cursor[s].offset \in Nat /\ saved.cursor[s].size \in Nat
            /\ saved.cursor[s].offset <= saved.cursor[s].size /\ saved.cursor[s].size <= Len(file[s])
        BY <4>1 DEF CursorOK, Cursor
      <4> QED BY <2>0, <4>2, SessionTypes
    <3>2. IsOf(s, n, file[s][n].call) /\ file[s][n].call \in Calls
      <4>1. file[s][n] \notin {Start, Shut, Prompt}
        BY <2>2 DEF Start, Shut, Prompt
      <4> QED BY <2>0, <3>1, <4>1, LineKinds
    <3>3. ByMsg(file[s][n].call) \in delivered
          \/ OfCall(saved.cursor[s].ctx.pending, file[s][n].call) # {}
      BY <2>2, <3>2 DEF HeldInv, HeldOK
    <3> QED BY <3>3 DEF Delivered, ByMsg
  <2> QED BY <2>1, <2>2 DEF NothingSkipped
<1> QED BY <1>1, <1>2, <1>3, PTL DEF Spec

-----------------------------------------------------------------------------
(* No call is counted twice *)

LEMMA RunCareful ==
  ASSUME CliOK, UNCHANGED cliVars PROVE Careful
<1>1. UNCHANGED <<file, place, quiet, store, over, raced>>
  BY DEF cliVars
<1> QED BY <1>1, FilesSame DEF CliOK, Careful

LEMMA RowsStayDone ==
  ASSUME CliOK, Longer, Careful, NEW st, NEW c, AllRowsDone(st, c), NEW x, x = st
  PROVE  AllRowsDone(x, c)'
<1>1. c \in over \cup Logged /\ \A i \in DOMAIN store : store[i].call = c => RowDone(st, i)
  BY DEF AllRowsDone
<1>2. c \in (over \cup Logged)'
  <2>1. c \in Logged => c \in Logged'
    <3> SUFFICES ASSUME NEW i \in DOMAIN store, store[i].call = c
                 PROVE  \E j \in DOMAIN store' : store'[j].call = c
      BY DEF Logged, ToSet
    <3>1. Len(store) \in Nat /\ DOMAIN store = 1..Len(store)
      BY RowFacts DEF CliOK
    <3>2. i \in DOMAIN store' /\ store'[i] = store[i]
      BY <3>1 DEF Longer
    <3> QED BY <3>2
  <2> QED BY <1>1, <2>1 DEF Longer
<1>3. ASSUME NEW i \in DOMAIN store', store'[i].call = c PROVE RowDone(x, i)
  <2>1. i \in DOMAIN store
    BY <1>1, <1>3 DEF Careful
  <2>2. store'[i] = store[i]
    <3>1. Len(store) \in Nat /\ DOMAIN store = 1..Len(store)
      BY RowFacts DEF CliOK
    <3> QED BY <2>1, <3>1 DEF Longer
  <2> QED BY <1>1, <1>3, <2>1, <2>2
<1> QED BY <1>2, <1>3 DEF AllRowsDone, RowDone

LEMMA JoinedStays ==
  ASSUME CliOK, Longer, Careful, NEW st, StateOK(st), JoinedOK(st), NEW x, x = st
  PROVE  JoinedOK(x)'
<1> SUFFICES ASSUME NEW s \in Sessions \ (Covered \cup raced'), x.cursor[s] # NoCursor,
                    NEW n \in 1..x.cursor[s].offset, NEW c \in Calls, IsOf(s, n, c)'
             PROVE  AllRowsDone(x, c)' \/ OfCall(x.cursor[s].ctx.pending, c) # {}
  BY DEF JoinedOK, OfCall
<1>1. n \in 1..Len(file[s])
  <2>1. x.cursor[s].offset <= Len(file[s]) /\ x.cursor[s].offset \in Nat
    <3>1. CursorOK(s, x.cursor[s])
      BY DEF StateOK
    <3> QED BY <3>1, SessionTypes DEF CursorOK, Cursor, CliOK
  <2>2. Len(file[s]) \in Nat
    BY SessionTypes DEF CliOK
  <2> QED BY <2>1, <2>2
<1>2. IsOf(s, n, c)
  BY <1>1, LinesKept DEF CliOK, Longer
<1>3. s \notin raced
  BY DEF Longer
<1>4. AllRowsDone(st, c) \/ OfCall(st.cursor[s].ctx.pending, c) # {}
  BY <1>2, <1>3 DEF JoinedOK
<1> QED BY <1>4, RowsStayDone

\* What is closed is over: nothing in flight is of a leg that is settled.
LEMMA ClosedIsOver ==
  ASSUME CliOK, EmitOK, NEW s \in job.todo, s \notin raced,
         NEW x, x.leg \in Nat, Ends(s, x)
  PROVE  /\ \A n \in DOMAIN file[s] : LegAt(s, n) = x.leg => n <= job.works[s].offset
         /\ \A c \in Calls \ over : SessionOf[c] = s /\ Open(c) => x.leg # Leg(s)
<1> DEFINE w == job.works[s]
           N == Len(file[s])
<1>0. s \in Sessions /\ WorkOK(s, w, job.st.cursor[s]) /\ FileOK /\ FlightOK
  BY EmitTypes DEF CliOK
<1>1. /\ w.offset \in Nat /\ w.offset <= N /\ N \in Nat /\ DOMAIN file[s] = 1..N
      /\ w.ctx.leg = LegAt(s, w.offset) /\ w.ctx.shut = ShutAt(s, w.offset)
      /\ w.quiet => quiet[s] /\ w.offset = N
      /\ Leg(s) = LegAt(s, N) /\ w.quiet \in BOOLEAN
  <2>1. w.offset \in Nat /\ w.size \in Nat /\ w.offset <= w.size /\ w.size <= N /\ w.quiet \in BOOLEAN
    BY <1>0 DEF WorkOK, Work
  <2>2. w.ctx.leg = LegAt(s, w.offset) /\ w.ctx.shut = ShutAt(s, w.offset)
    BY <1>0 DEF WorkOK, ContextOK
  <2>3. w.quiet => quiet[s] /\ w.offset = N
    BY <1>0 DEF WorkOK
  <2>4. N \in Nat /\ DOMAIN file[s] = 1..N /\ Leg(s) = LegAt(s, N)
    BY <1>0, SessionTypes
  <2> QED BY <2>1, <2>2, <2>3, <2>4
<1> HIDE DEF w
<1>2. \/ w.quiet
      \/ ~w.quiet /\ x.leg < LegAt(s, w.offset)
      \/ ~w.quiet /\ x.leg = LegAt(s, w.offset) /\ ShutAt(s, w.offset)
  BY <1>1 DEF Ends, Closed, w
<1>3. ASSUME NEW n \in DOMAIN file[s], LegAt(s, n) = x.leg PROVE n <= w.offset
  <2>1. CASE w.quiet
    BY <1>1, <2>1
  <2>2. CASE ~w.quiet
    <3>1. w.offset \in 0..Len(file[s]) /\ n \in 1..Len(file[s])
      BY <1>1
    <3> QED BY <1>0, <1>2, <1>3, <2>2, <3>1, ClosedBefore
  <2> QED BY <1>1, <2>1, <2>2
<1>4. ASSUME NEW c \in Calls \ over, SessionOf[c] = s, Open(c), x.leg = Leg(s) PROVE FALSE
  <2>1. ~quiet[s] /\ file[s][N] # Shut
    BY <1>0, <1>4 DEF FlightOK
  <2>2. ~w.quiet
    BY <1>1, <2>1
  <2>3. LegAt(s, w.offset) \in Nat /\ LegAt(s, w.offset) <= LegAt(s, N)
    BY <1>1, LegFacts
  <2>4. x.leg = LegAt(s, w.offset) /\ ShutAt(s, w.offset)
    BY <1>1, <1>2, <1>4, <2>2, <2>3
  <2>5. PICK k \in 1..w.offset : file[s][k] = Shut /\ \A j \in (k + 1)..w.offset : file[s][j] # Start
    BY <2>4 DEF ShutAt
  <2>6. w.offset = N
    <3>1. N \in DOMAIN file[s]
      BY <1>1, <2>5
    <3>2. N <= w.offset
      BY <1>1, <1>3, <1>4, <3>1
    <3> QED BY <1>1, <3>2
  <2>7. k \in DOMAIN file[s] /\ k < N
    BY <1>1, <2>1, <2>5, <2>6
  <2>8. file[s][k + 1] = Start
    BY <1>0, <2>5, <2>7 DEF FileOK
  <2>9. k + 1 \in (k + 1)..w.offset
    BY <1>1, <2>6, <2>7
  <2> QED BY <2>5, <2>8, <2>9
<1> QED BY <1>3, <1>4 DEF w

\* A line that was read is settled, or at hand.
LEMMA LinesRead ==
  ASSUME CliOK, EmitOK, JoinedOK(job.st), NEW s \in job.todo, s \notin raced, s \notin Covered,
         NEW c \in Calls, NEW n \in 1..job.works[s].offset, IsOf(s, n, c)
  PROVE  AllRowsDone(job.st, c) \/ \E k \in DOMAIN MessagesOf(s) : MessagesOf(s)[k].call = c
<1> DEFINE cur == job.st.cursor[s]
           w == job.works[s]
<1>0. s \in Sessions /\ WorkOK(s, w, cur) /\ (cur = NoCursor \/ CursorOK(s, cur))
  BY EmitTypes
<1>1. OfCall(Held(cur), c) # {} \/ OfCall(w.messages, c) # {} => OfCall(MessagesOf(s), c) # {}
  BY <1>0, MessagesOK DEF MessagesOf
<1>2. From(cur) \in Nat /\ w.offset \in Nat
  BY <1>0 DEF WorkOK, Work, From, CursorOK, Cursor
<1>3. AllRowsDone(job.st, c) \/ OfCall(MessagesOf(s), c) # {}
  <2>1. CASE n \in 1..From(cur)
    <3>1. cur # NoCursor /\ n \in 1..cur.offset
      BY <2>1 DEF From
    <3>2. AllRowsDone(job.st, c) \/ OfCall(Held(cur), c) # {}
      BY <1>0, <3>1 DEF JoinedOK, Held
    <3> QED BY <1>1, <3>2
  <2>2. CASE n \in (From(cur) + 1)..w.offset
    BY <1>0, <1>1, <2>2 DEF WorkOK
  <2> QED BY <1>2, <2>1, <2>2
<1> QED BY <1>3 DEF OfCall

\* A message that is settled is settled with its row.
LEMMA SettledJoined ==
  ASSUME CliOK, EmitOK, NEW s \in job.todo, s \notin raced, s \notin Covered,
         NEW k \in DOMAIN MessagesOf(s), Ends(s, MessagesOf(s)[k]),
         NEW c, c = MessagesOf(s)[k].call
  PROVE  /\ c \in Calls /\ SessionOf[c] = s /\ HasLine(c) /\ c \in over \cup Logged
         /\ \A i \in DOMAIN store : store[i].call = c => RowDone(job.st, i) \/ i \in UsedOf(s)
<1> DEFINE g == MessagesOf(s)[k]
           n == g.at + 1
<1>0. s \in Sessions /\ GroupOK(s, g, 0, job.works[s].offset) /\ FileOK /\ FlightOK
      /\ WorkOK(s, job.works[s], job.st.cursor[s])
  BY EmitTypes DEF GroupsOK, CliOK
<1>1. /\ c \in Calls /\ g.leg \in Nat /\ n \in DOMAIN file[s] /\ IsOf(s, n, c) /\ g.leg = LegAt(s, n)
  <2>1. g \in Group /\ g.at \in 0..(job.works[s].offset - 1) /\ IsOf(s, n, c) /\ g.leg = LegAt(s, n)
    BY <1>0 DEF GroupOK
  <2>2. job.works[s].offset \in Nat /\ job.works[s].size \in Nat
        /\ job.works[s].offset <= job.works[s].size /\ job.works[s].size <= Len(file[s])
    BY <1>0 DEF WorkOK, Work
  <2>3. Len(file[s]) \in Nat /\ DOMAIN file[s] = 1..Len(file[s])
    BY <1>0, SessionTypes
  <2> QED BY <2>1, <2>2, <2>3 DEF Group
<1> HIDE DEF g, n
<1>2. SessionOf[c] = s
  BY <1>0, <1>1 DEF FileOK
<1>3. HasLine(c)
  BY <1>1, <1>2 DEF HasLine
<1>4. Ends(s, g)
  BY DEF g
<1>5. c \in over \cup Logged
  <2> SUFFICES ASSUME c \notin over, c \notin Logged PROVE FALSE
    OBVIOUS
  <2>1. Open(c)
    BY <1>3 DEF Open
  <2>2. LegAt(s, n) = Leg(s)
    BY <1>0, <1>1, <1>2, <2>1 DEF FlightOK
  <2> QED BY <1>1, <1>2, <1>4, <2>1, <2>2, ClosedIsOver
<1>6. ASSUME NEW i \in DOMAIN store, store[i].call = c PROVE RowDone(job.st, i) \/ i \in UsedOf(s)
  <2> SUFFICES ASSUME ~RowDone(job.st, i) PROVE i \in UsedOf(s)
    OBVIOUS
  <2>1. i \in job.rows \ job.st.done
    BY EmitFacts DEF RowDone
  <2>2. i \in RowsOf(s)
    BY <1>2, <1>6, <2>1 DEF RowsOf
  <2>3. store[i].leg = LegAt(s, n)
    <3>1. RowOK(i, s)
      BY <1>2, <1>6 DEF CliOK, StoreOK
    <3> QED BY <1>1, <1>6, <3>1 DEF RowOK
  <2>4. Ends(s, store[i])
    BY <1>1, <1>4, <2>3 DEF Ends, Closed
  <2> QED BY <2>2, <2>4 DEF UsedOf
<1> QED BY <1>1, <1>2, <1>3, <1>5, <1>6

\* A row that is settled alone has no message, and will have none.
LEMMA RowAlone ==
  ASSUME CliOK, EmitOK, JoinedOK(job.st), NEW s \in job.todo, s \notin raced, s \notin Covered,
         NEW i \in UsedOf(s), NEW c, c = store[i].call, c \notin SettledOf(s)
  PROVE  c \in Calls /\ SessionOf[c] = s /\ ~HasLine(c) /\ c \in over \cup RowOnly
<1>0. /\ i \in job.rows \ job.st.done /\ i \in DOMAIN store /\ SessionOf[c] = s /\ Ends(s, store[i])
      /\ c \in Calls /\ store[i].leg \in Nat /\ RowOK(i, s) /\ s \in Sessions /\ ~(i <= job.st.hwm)
  <2>1. i \in job.rows \ job.st.done /\ SessionOf[c] = s /\ Ends(s, store[i])
    BY DEF UsedOf, RowsOf
  <2>2. i \in DOMAIN store /\ i > job.st.hwm /\ job.st.hwm \in Nat /\ DOMAIN store = 1..Len(store)
    BY <2>1, EmitFacts
  <2> QED BY <2>1, <2>2, RowFacts, EmitTypes DEF CliOK
<1>1. ~AllRowsDone(job.st, c)
  BY <1>0 DEF AllRowsDone, RowDone
<1>2. ~HasLine(c)
  <2> SUFFICES ASSUME NEW n \in DOMAIN file[s], IsOf(s, n, c) PROVE FALSE
    BY <1>0 DEF HasLine
  <2>1. store[i].leg = LegAt(s, n)
    BY <1>0 DEF RowOK
  <2>2. n <= job.works[s].offset
    BY <1>0, <2>1, ClosedIsOver
  <2>3. n \in 1..job.works[s].offset
    <3>1. Len(file[s]) \in Nat /\ DOMAIN file[s] = 1..Len(file[s])
      BY <1>0, SessionTypes DEF CliOK
    <3>2. job.works[s].offset \in Nat
      BY EmitTypes DEF WorkOK, Work
    <3> QED BY <2>2, <3>1, <3>2
  <2>4. PICK k \in DOMAIN MessagesOf(s) : MessagesOf(s)[k].call = c
    BY <1>0, <1>1, <2>3, LinesRead
  <2> DEFINE g == MessagesOf(s)[k]
  <2>5. g.leg = LegAt(s, g.at + 1) /\ IsOf(s, g.at + 1, c)
    BY <2>4, EmitTypes DEF GroupsOK, GroupOK
  <2>6. g.leg = store[i].leg
    <3>1. g.at + 1 \in DOMAIN file[s]
      <4>1. g \in Group /\ g.at \in 0..(job.works[s].offset - 1)
        BY EmitTypes DEF GroupsOK, GroupOK
      <4>2. job.works[s].offset \in Nat /\ job.works[s].size \in Nat
            /\ job.works[s].offset <= job.works[s].size /\ job.works[s].size <= Len(file[s])
        BY EmitTypes DEF WorkOK, Work
      <4>3. Len(file[s]) \in Nat /\ DOMAIN file[s] = 1..Len(file[s])
        BY <1>0, SessionTypes DEF CliOK
      <4> QED BY <4>1, <4>2, <4>3 DEF Group
    <3> QED BY <1>0, <2>5, <3>1 DEF RowOK
  <2>7. Ends(s, g)
    BY <1>0, <2>6 DEF Ends, Closed
  <2>8. g \in ToSet(MessagesOf(s))
    BY DEF ToSet
  <2>9. c \in SettledOf(s)
    BY <2>4, <2>7, <2>8 DEF SettledOf
  <2> QED BY <2>9
<1>3. c \in over \cup RowOnly
  <2> SUFFICES ASSUME c \notin over, c \notin RowOnly PROVE FALSE
    OBVIOUS
  <2>1. c \in Logged
    BY <1>0 DEF Logged, ToSet
  <2>2. Message(c) \notin Lines(SessionOf[c])
    BY <1>2 DEF HasLine, IsOf, Lines, ToSet
  <2>3. Open(c)
    BY <2>1, <2>2 DEF Open
  <2>4. store[i].leg = Leg(s)
    BY <1>0, <2>3 DEF CliOK, FlightOK
  <2> QED BY <1>0, <2>3, <2>4, ClosedIsOver
<1> QED BY <1>0, <1>2, <1>3

\* A step that delivers nothing of a call leaves it counted once.
OnceAllowed(c) ==
  /\ ByMsg(c) \in delivered' => ByMsg(c) \in delivered
  /\ ByItsRow(c) \in delivered' => ByItsRow(c) \in delivered
  /\ faults' = 0 => faults = 0 /\ (AllRowsDone(Current, c) => AllRowsDone(Current, c)')
  /\ place[SessionOf[c]] = "past" /\ (job.stage \in {"parse", "emit"} => SessionOf[c] \notin job.files)
       => (job'.stage \in {"parse", "emit"} => SessionOf[c] \notin job'.files)

LEMMA HasLineStays ==
  ASSUME CliOK, Longer, NEW c \in Calls, HasLine(c) PROVE HasLine(c)'
<1> DEFINE s == SessionOf[c]
<1>0. s \in Sessions /\ FileOK /\ FilesGrow
  BY CollectorAssumption DEF CliOK, Longer
<1>1. PICK n \in DOMAIN file[s] : IsOf(s, n, c)
  BY DEF HasLine
<1>2. n \in 1..Len(file[s])
  BY <1>0, SessionTypes
<1>3. IsOf(s, n, c)'
  BY <1>0, <1>1, <1>2, LinesKept
<1>4. n \in DOMAIN file'[s]
  <2>1. file'[s][n] = file[s][n] /\ Len(file[s]) \in Nat /\ Len(file'[s]) \in Nat /\ Len(file[s]) <= Len(file'[s])
    BY <1>0, <1>2, SessionTypes DEF FilesGrow
  <2> QED BY <1>2, <2>1
<1> QED BY <1>3, <1>4 DEF HasLine

LEMMA OnceStays ==
  ASSUME CliOK, Longer, Careful, NEW c \in Calls, Once(c), OnceAllowed(c)
  PROVE  Once(c)'
<1>1. ByMsg(c) \in delivered' => HasLine(c)' /\ (faults' = 0 => AllRowsDone(Current, c)')
  BY HasLineStays DEF Once, OnceAllowed
<1>2. ASSUME ByItsRow(c) \in delivered' PROVE Alone(c)'
  <2>1. Alone(c)
    BY <1>2 DEF Once, OnceAllowed
  <2>2. CASE ~HasLine(c) /\ c \in over \cup RowOnly
    BY <2>2 DEF Alone, Careful, Longer
  <2>3. CASE /\ place[SessionOf[c]] = "past" /\ ByMsg(c) \notin delivered
             /\ job.stage \in {"parse", "emit"} => SessionOf[c] \notin job.files
    <3>1. SessionOf[c] \in Sessions
      BY CollectorAssumption
    <3>2. /\ place'[SessionOf[c]] = "past" /\ ByMsg(c) \notin delivered'
          /\ job'.stage \in {"parse", "emit"} => SessionOf[c] \notin job'.files
      BY <2>3, <3>1 DEF Careful, OnceAllowed
    <3> QED BY <3>2 DEF Alone, ByMsg
  <2> QED BY <2>1, <2>2, <2>3 DEF Alone
<1> QED BY <1>1, <1>2 DEF Once, ByMsg, ByItsRow

LEMMA RowsDoneGrow ==
  ASSUME UNCHANGED cliVars, NEW st, NEW x, \A i \in DOMAIN store : RowDone(st, i) => RowDone(x, i),
         NEW c, AllRowsDone(st, c)
  PROVE  AllRowsDone(x, c)'
<1>1. store' = store /\ over' = over
  BY DEF cliVars
<1> QED BY <1>1 DEF AllRowsDone, Logged, RowDone

\* A session's messages and rows are settled together.
LEMMA JoinedEmit ==
  ASSUME Roomy, CliOK, EmitOK, JoinedOK(job.st), NEW s \in job.todo, Emits(s), UNCHANGED cliVars
  PROVE  /\ JoinedOK(job.st)'
         /\ \A i \in DOMAIN store : RowDone(job.st, i) \/ i \in UsedOf(s) <=> RowDone(job'.st, i)
<1> DEFINE w == job.works[s]
           q == MessagesOf(s)
<1>0. s \in Sessions /\ GroupsOK(s, q, 0, w.offset) /\ q \in Seq(Group) /\ WorkOK(s, w, job.st.cursor[s])
  BY EmitTypes
<1>1. /\ job'.st.cursor[s] = CursorOf(s) /\ \A t \in Sessions : t # s => job'.st.cursor[t] = job.st.cursor[t]
      /\ job'.st.hwm = job.st.hwm /\ job'.st.done = job.st.done \cup UsedOf(s)
  BY <1>0, EmitFacts DEF Emits, State
<1>2. CursorOf(s).offset = w.offset /\ CursorOf(s).ctx.pending = PendingOf(s)
  BY NewCursorOK
<1>3. \A i \in DOMAIN store : RowDone(job.st, i) \/ i \in UsedOf(s) <=> RowDone(job'.st, i)
  BY <1>1 DEF RowDone
<1>4. UNCHANGED <<file, store, over, raced>>
  BY DEF cliVars
<1>5. ASSUME NEW c, AllRowsDone(job.st, c), NEW x, x = job'.st PROVE AllRowsDone(x, c)'
  BY <1>3, <1>5, RowsDoneGrow
<1>6. ASSUME s \notin Covered, s \notin raced, NEW n \in 1..w.offset, NEW c \in Calls, IsOf(s, n, c),
             NEW x, x = job'.st
      PROVE  AllRowsDone(x, c)' \/ OfCall(PendingOf(s), c) # {}
  <2>1. CASE AllRowsDone(job.st, c)
    BY <1>5, <1>6, <2>1
  <2>2. ASSUME NEW k \in DOMAIN q, q[k].call = c PROVE AllRowsDone(x, c)' \/ OfCall(PendingOf(s), c) # {}
    <3>1. CASE Ends(s, q[k])
      <4>1. /\ c \in over \cup Logged
            /\ \A i \in DOMAIN store : store[i].call = c => RowDone(job.st, i) \/ i \in UsedOf(s)
        BY <1>6, <2>2, <3>1, SettledJoined
      <4>2. AllRowsDone(x, c)
        BY <1>3, <1>6, <4>1 DEF AllRowsDone
      <4> QED BY <4>2, RowsDoneGrow
    <3>2. CASE ~Ends(s, q[k])
      <4>1. k \in HeldOf(s) /\ HeldOf(s) \subseteq DOMAIN q
        BY <3>2 DEF HeldOf
      <4>2. w.offset \in Nat /\ w.offset <= Len(file[s])
        <5>1. w.offset \in Nat /\ w.size \in Nat /\ w.offset <= w.size /\ w.size <= Len(file[s])
          BY <1>0 DEF WorkOK, Work
        <5> QED BY <1>0, <5>1, SessionTypes DEF CliOK
      <4>3. Cardinality(HeldOf(s)) <= PendingMax
        BY <1>0, <4>1, <4>2, HeldFew
      <4>4. OfCall(PendingOf(s), q[k].call) # {}
        BY <1>0, <1>6, <4>1, <4>3, PendingOK DEF PendingOf
      <4> QED BY <2>2, <4>4
    <3> QED BY <3>1, <3>2
  <2> QED BY <1>6, <2>1, <2>2, LinesRead
<1>7. JoinedOK(job.st)'
  <2> SUFFICES ASSUME NEW t \in Sessions \ (Covered \cup raced), job'.st.cursor[t] # NoCursor,
                      NEW n \in 1..job'.st.cursor[t].offset, NEW c \in Calls, IsOf(t, n, c)'
               PROVE  AllRowsDone(job.st, c)' \/ OfCall(job'.st.cursor[t].ctx.pending, c) # {}
    BY <1>4 DEF JoinedOK, OfCall
  <2>1. IsOf(t, n, c)
    BY <1>4, FilesSame DEF CliOK
  <2>2. CASE t = s
    <3>1. \A x : x = job'.st => AllRowsDone(x, c)' \/ OfCall(PendingOf(s), c) # {}
      BY <1>1, <1>2, <1>6, <2>1, <2>2
    <3> QED BY <1>1, <1>2, <2>2, <3>1
  <2>3. CASE t # s
    <3>1. AllRowsDone(job.st, c) \/ OfCall(job.st.cursor[t].ctx.pending, c) # {}
      BY <1>1, <2>1, <2>3 DEF JoinedOK
    <3>2. \A x : x = job'.st /\ AllRowsDone(job.st, c) => AllRowsDone(x, c)'
      BY <1>5
    <3> QED BY <1>1, <2>3, <3>1, <3>2
  <2> QED BY <2>2, <2>3
<1> QED BY <1>3, <1>7

LEMMA OnceEmit ==
  ASSUME Roomy, CliOK, EmitOK, OnceInv, NEW s \in job.todo, Emits(s), UNCHANGED cliVars, faults' = faults,
         job' = [job EXCEPT !.todo = @ \ {s}, !.st = job'.st],
         NEW c \in Calls, SessionOf[c] \notin raced
  PROVE  Once(c)'
<1>0. /\ s \in Sessions /\ job.stage = "emit" /\ job \in JobSet /\ JoinedOK(job.st) /\ Once(c)
      /\ Longer /\ Careful /\ DOMAIN store = 1..Len(store)
  <2>1. delivered \subseteq delivered'
    BY DEF Emits
  <2> QED BY <2>1, EmitFacts, EmitTypes, RunFrame, RunCareful DEF OnceInv, EmitOK
<1>1. /\ job'.stage = "emit" /\ job'.files = job.files /\ Current = job.st /\ s \in job.files
      /\ job'.todo = job.todo \ {s}
  BY <1>0 DEF JobSet, Current, EmitOK
<1>2. \A i \in DOMAIN store : RowDone(job.st, i) \/ i \in UsedOf(s) <=> RowDone(job'.st, i)
  BY <1>0, JoinedEmit
<1>3. ASSUME NEW x, x = job'.st, AllRowsDone(job.st, c) PROVE AllRowsDone(x, c)'
  BY <1>2, <1>3, RowsDoneGrow
<1>4. ASSUME AllRowsDone(job.st, c) PROVE AllRowsDone(Current, c)'
  <2>1. \A x : x = job'.st => AllRowsDone(x, c)'
    BY <1>3, <1>4
  <2>2. Current' = job'.st
    BY <1>1 DEF Current
  <2> QED BY <2>1, <2>2
<1>5. CASE ByMsg(c) \in delivered' /\ ByMsg(c) \notin delivered
  <2>1. s \notin Covered /\ c \in SettledOf(s)
    BY <1>5 DEF Emits, ByMsg, ByMessage, ByRow
  <2>2. PICK k \in DOMAIN MessagesOf(s) : Ends(s, MessagesOf(s)[k]) /\ MessagesOf(s)[k].call = c
    BY <2>1 DEF SettledOf, ToSet
  <2>3. GroupOK(s, MessagesOf(s)[k], 0, job.works[s].offset)
    BY EmitTypes DEF GroupsOK
  <2>4. SessionOf[c] = s
    <3> DEFINE n == MessagesOf(s)[k].at + 1
    <3>1. IsOf(s, n, c) /\ MessagesOf(s)[k].at \in 0..(job.works[s].offset - 1)
      BY <2>2, <2>3 DEF GroupOK
    <3>2. job.works[s].offset \in Nat /\ job.works[s].size \in Nat
          /\ job.works[s].offset <= job.works[s].size /\ job.works[s].size <= Len(file[s])
      BY EmitTypes DEF WorkOK, Work
    <3>3. n \in DOMAIN file[s]
      BY <1>0, <3>1, <3>2, SessionTypes DEF CliOK
    <3> QED BY <1>0, <3>1, <3>3 DEF CliOK, FileOK
  <2>5. /\ HasLine(c) /\ c \in over \cup Logged
        /\ \A i \in DOMAIN store : store[i].call = c => RowDone(job.st, i) \/ i \in UsedOf(s)
    BY <2>1, <2>2, <2>4, SettledJoined
  <2>6. AllRowsDone(Current, c)'
    <3>1. \A x : x = job'.st => AllRowsDone(x, c)
      BY <1>2, <2>5 DEF AllRowsDone
    <3>2. \A x : x = job'.st => AllRowsDone(x, c)'
      BY <3>1, RowsDoneGrow
    <3>3. Current' = job'.st
      BY <1>1 DEF Current
    <3> QED BY <3>2, <3>3
  <2>7. HasLine(c)'
    BY <1>0, <2>5, HasLineStays
  <2>8. ByItsRow(c) \notin delivered'
    <3>1. ByItsRow(c) \notin ByRow(CallsOf(UsedOf(s)) \ SettledOf(s))
      BY <2>1 DEF ByItsRow, ByRow
    <3>2. ByItsRow(c) \notin ByMessage(SettledOf(s))
      BY DEF ByItsRow, ByMessage
    <3>3. ByItsRow(c) \notin delivered
      <4> SUFFICES ASSUME Alone(c) PROVE FALSE
        BY <1>0 DEF Once
      <4> QED BY <1>0, <1>1, <2>4, <2>5 DEF Alone
    <3> QED BY <3>1, <3>2, <3>3 DEF Emits
  <2> QED BY <2>6, <2>7, <2>8 DEF Once, ByMsg, ByItsRow
<1>6. CASE ByItsRow(c) \in delivered' /\ ByItsRow(c) \notin delivered /\ ~(ByMsg(c) \in delivered' /\ ByMsg(c) \notin delivered)
  <2>1. s \notin Covered /\ c \in CallsOf(UsedOf(s)) \ SettledOf(s)
    BY <1>6 DEF Emits, ByItsRow, ByMessage, ByRow
  <2>2. PICK i \in UsedOf(s) : store[i].call = c
    BY <2>1 DEF CallsOf
  <2>3. SessionOf[c] = s
    BY <2>2 DEF UsedOf, RowsOf
  <2>4. ~HasLine(c) /\ c \in over \cup RowOnly
    BY <1>0, <2>1, <2>2, <2>3, RowAlone
  <2>5. ~HasLine(c)' /\ c \in over' \cup RowOnly
    BY <1>0, <2>4 DEF Careful, Longer
  <2>6. Alone(c)'
    BY <2>5 DEF Alone
  <2>7. ByMsg(c) \notin delivered'
    BY <1>0, <1>6, <2>4 DEF Once
  <2> QED BY <2>6, <2>7 DEF Once, ByMsg, ByItsRow
<1>7. CASE (ByMsg(c) \in delivered' => ByMsg(c) \in delivered) /\ (ByItsRow(c) \in delivered' => ByItsRow(c) \in delivered)
  <2>1. AllRowsDone(Current, c) => AllRowsDone(Current, c)'
    BY <1>1, <1>4
  <2>2. job'.stage = job.stage /\ job'.files = job.files
    BY <1>0, <1>1
  <2>3. OnceAllowed(c)
    BY <1>7, <2>1, <2>2 DEF OnceAllowed
  <2> QED BY <1>0, <2>3, OnceStays
<1> QED BY <1>5, <1>6, <1>7

\* The window keeps all the ids there are.
LEMMA AllKept ==
  ASSUME Windows, CliOK, EmitOK
  PROVE  DoneAfter = {i \in job.st.done \cup CoveredRest \cup SettledRest : i > MarkAfter}
<1> DEFINE all == {i \in job.st.done \cup CoveredRest \cup SettledRest : i > MarkAfter}
           f == [i \in all |-> store[i].call]
<1>1. IsFiniteSet(all) /\ (Cardinality(all) <= DoneWindow => DoneAfter = all)
  BY RestFacts
<1>2. \A i \in all : i \in DOMAIN store /\ store[i].call \in Calls
  BY EmitFacts DEF CoveredRest, SettledRest, Rest
<1>3. f \in Injection(all, Calls)
  <2>1. f \in [all -> Calls]
    BY <1>2
  <2>2. \A i, j \in all : f[i] = f[j] => i = j
    BY <1>2 DEF CliOK, StoreOK
  <2> HIDE DEF f, all
  <2> QED BY <2>1, <2>2 DEF Injection, IsInjective
<1>4. Cardinality(all) <= Cardinality(Calls) /\ Cardinality(all) \in Nat /\ Cardinality(Calls) \in Nat
  <2> HIDE DEF f, all
  <2> QED BY <1>1, <1>3, FS_Injection, FS_CardinalityType DEF Windows
<1>5. Cardinality(Calls) <= DoneWindow /\ DoneWindow \in Nat
  BY CollectorAssumption DEF Windows
<1> HIDE DEF all
<1>6. DoneAfter = all
  BY <1>1, <1>4, <1>5
<1> QED BY <1>6 DEF all

\* The end of a run takes back nothing that was settled.
LEMMA JoinedRest ==
  ASSUME Windows, CliOK, EmitOK, JoinedOK(job.st), EmitRest
  PROVE  /\ JoinedOK(job.st)'
         /\ \A c \in Calls : AllRowsDone(job.st, c) => AllRowsDone(Current, c)'
<1>1. /\ UNCHANGED cliVars /\ job'.stage = "save"
      /\ job'.st.cursor = [s \in Sessions |-> IF s \in job.files THEN job.st.cursor[s] ELSE NoCursor]
      /\ job'.st.hwm = MarkAfter /\ job'.st.done = DoneAfter
  BY RestShape
<1>2. \A i \in DOMAIN store : RowDone(job.st, i) => RowDone(job'.st, i)
  <2> SUFFICES ASSUME NEW i \in DOMAIN store, RowDone(job.st, i), ~(i <= MarkAfter)
               PROVE  i \in DoneAfter
    BY <1>1 DEF RowDone
  <2>1. i \in Nat /\ MarkAfter \in Nat /\ job.st.hwm \in Nat /\ job.st.hwm <= MarkAfter
    BY EmitFacts, RestFacts
  <2>2. i \in job.st.done /\ i > MarkAfter
    BY <2>1 DEF RowDone
  <2> QED BY <2>2, AllKept
<1>3. ASSUME NEW c, AllRowsDone(job.st, c), NEW x, x = job'.st PROVE AllRowsDone(x, c)'
  BY <1>1, <1>2, <1>3, RowsDoneGrow
<1>4. ASSUME NEW c, AllRowsDone(job.st, c) PROVE AllRowsDone(Current, c)'
  <2>1. \A x : x = job'.st => AllRowsDone(x, c)'
    BY <1>3, <1>4
  <2>2. Current' = job'.st
    BY <1>1 DEF Current
  <2> QED BY <2>1, <2>2
<1>5. UNCHANGED <<file, place, quiet, store, over, raced>>
  BY <1>1 DEF cliVars
<1>6. JoinedOK(job.st)'
  <2> SUFFICES ASSUME NEW t \in Sessions \ (Covered \cup raced), job'.st.cursor[t] # NoCursor,
                      NEW n \in 1..job'.st.cursor[t].offset, NEW c \in Calls, IsOf(t, n, c)'
               PROVE  AllRowsDone(job.st, c)' \/ OfCall(job'.st.cursor[t].ctx.pending, c) # {}
    BY <1>5 DEF JoinedOK, OfCall
  <2>1. IsOf(t, n, c)
    BY <1>5, FilesSame DEF CliOK
  <2>2. job'.st.cursor[t] = job.st.cursor[t]
    BY <1>1
  <2>3. AllRowsDone(job.st, c) \/ OfCall(job.st.cursor[t].ctx.pending, c) # {}
    BY <2>1, <2>2 DEF JoinedOK
  <2>4. \A x : x = job'.st /\ AllRowsDone(job.st, c) => AllRowsDone(x, c)'
    BY <1>3
  <2> QED BY <2>2, <2>3, <2>4
<1> QED BY <1>4, <1>6

LEMMA OnceRest ==
  ASSUME Windows, CliOK, EmitOK, faults \in Nat, OnceInv, EmitRest, NEW c \in Calls, SessionOf[c] \notin raced
  PROVE  Once(c)'
<1>0. /\ UNCHANGED cliVars /\ faults' = faults /\ job.stage = "emit" /\ job'.stage = "save"
      /\ delivered' = delivered \cup ByRow(CallsOf(SettledRest))
  BY RestShape
<1>1. /\ JoinedOK(job.st) /\ Once(c) /\ Longer /\ Careful /\ Current = job.st
      /\ faults > 0 => \A s \in Sessions : place[s] \notin {"gone", "past"}
  BY <1>0, RunFrame, RunCareful DEF OnceInv, Current
<1>2. AllRowsDone(Current, c) => AllRowsDone(Current, c)'
  BY <1>1, JoinedRest
<1>3. ByMsg(c) \in delivered' => ByMsg(c) \in delivered
  BY <1>0 DEF ByMsg, ByRow
<1>4. CASE ByItsRow(c) \in delivered' => ByItsRow(c) \in delivered
  <2>1. OnceAllowed(c)
    BY <1>0, <1>2, <1>3, <1>4 DEF OnceAllowed
  <2> QED BY <1>1, <2>1, OnceStays
<1>5. CASE ByItsRow(c) \in delivered' /\ ByItsRow(c) \notin delivered
  <2>1. c \in CallsOf(SettledRest)
    BY <1>0, <1>5 DEF ByItsRow, ByRow
  <2>2. PICK i \in SettledRest : store[i].call = c
    BY <2>1 DEF CallsOf
  <2>3. /\ place[SessionOf[c]] = "past" /\ i \in job.rows /\ i \notin job.st.done
        /\ i \in DOMAIN store /\ i > job.st.hwm /\ job.st.hwm \in Nat /\ SessionOf[c] \in Sessions
    BY <2>2, EmitFacts DEF SettledRest, CoveredRest, Rest
  <2>4. ~RowDone(job.st, i)
    <3>1. i \in Nat
      BY <2>3, EmitFacts
    <3> QED BY <2>3, <3>1 DEF RowDone
  <2>5. ~AllRowsDone(Current, c)
    BY <1>1, <2>2, <2>3, <2>4 DEF AllRowsDone
  <2>6. ~(faults > 0)
    BY <1>1, <2>3
  <2>7. ByMsg(c) \notin delivered
    BY <1>1, <2>5, <2>6 DEF Once
  <2>8. ByMsg(c) \notin delivered'
    BY <1>3, <2>7
  <2>9. Alone(c)'
    BY <1>0, <2>3, <2>8 DEF Alone, cliVars, ByMsg
  <2> QED BY <2>8, <2>9 DEF Once, ByMsg, ByItsRow
<1> QED BY <1>4, <1>5

\* A step that delivers nothing, takes back nothing that is settled, and looks at no other
\* files.
LEMMA OnceQuiet ==
  ASSUME CliOK, Longer, Careful, OnceInv, delivered' = delivered,
         faults' = 0 => faults = 0 /\ \A c : AllRowsDone(Current, c) => AllRowsDone(Current, c)',
         \A s \in Sessions : place[s] = "past" /\ (job.stage \in {"parse", "emit"} => s \notin job.files)
           => (job'.stage \in {"parse", "emit"} => s \notin job'.files)
  PROVE  \A c \in Calls : SessionOf[c] \notin raced' => Once(c)'
<1> SUFFICES ASSUME NEW c \in Calls, SessionOf[c] \notin raced' PROVE Once(c)'
  OBVIOUS
<1>1. Once(c) /\ SessionOf[c] \in Sessions
  BY CollectorAssumption DEF OnceInv, Longer
<1>2. OnceAllowed(c)
  BY <1>1 DEF OnceAllowed
<1> QED BY <1>1, <1>2, OnceStays

LEMMA OnceStep ==
  ASSUME Windows, ~Forgets, Inv, OnceInv, [Next]_vars PROVE OnceInv'
<1>0. CliOK /\ StateOK(saved) /\ JobOK /\ faults \in Nat /\ Roomy
  BY DEF Inv, Windows
<1>1. /\ job.stage = "parse" => ParseOK
      /\ job.stage = "emit" => EmitOK
      /\ job.stage = "save" => SaveOK
      /\ job = Idle => job.stage = "idle"
  <2>1. Idle.stage = "idle"
    BY DEF Idle
  <2> QED BY <1>0, <2>1 DEF JobOK, ParseOK, EmitOK, SaveOK
<1>2. job.stage \in {"emit", "save"} => StateOK(job.st) /\ JoinedOK(job.st)
  BY <1>0, <1>1 DEF EmitOK, SaveOK, OnceInv
<1>3. ASSUME Longer, Careful, saved' = saved PROVE JoinedOK(saved)'
  <2>1. \A x : x = saved => JoinedOK(x)'
    BY <1>0, <1>3, JoinedStays DEF OnceInv
  <2> QED BY <1>3, <2>1
<1>4. ASSUME Longer, Careful, job.stage \in {"emit", "save"} PROVE \A x : x = job.st => JoinedOK(x)'
  BY <1>0, <1>2, <1>4, JoinedStays
<1>5. ASSUME Longer, Careful, Current' = Current, NEW c, AllRowsDone(Current, c)
      PROVE  AllRowsDone(Current, c)'
  <2>1. \A x : x = Current => AllRowsDone(x, c)'
    BY <1>0, <1>5, RowsStayDone
  <2> QED BY <1>5, <2>1
<1>6. ASSUME Careful, faults' = faults
      PROVE  faults' > 0 => \A s \in Sessions : place'[s] \notin {"gone", "past"}
  BY <1>0, <1>6 DEF Careful, OnceInv
<1>7. ASSUME UNCHANGED cliVars, delivered \subseteq delivered' PROVE Longer /\ Careful /\ UNCHANGED place
  BY <1>0, <1>7, RunFrame, RunCareful DEF cliVars
<1>8. ASSUME Longer, Careful, UNCHANGED <<saved, job, delivered, faults>> PROVE OnceInv'
  <2>1. Current' = Current
    BY <1>8 DEF Current
  <2>2. \A c \in Calls : SessionOf[c] \notin raced' => Once(c)'
    BY <1>0, <1>5, <1>8, <2>1, OnceQuiet
  <2>3. job'.stage \in {"emit", "save"} => JoinedOK(job.st)'
    BY <1>4, <1>8
  <2> QED BY <1>3, <1>6, <1>8, <2>2, <2>3 DEF OnceInv
<1>9. CASE Cli
  <2>1. Steady
    BY <1>0, <1>9, CliKeeps
  <2> QED BY <1>8, <2>1 DEF Steady
<1>10. CASE UNCHANGED vars
  BY <1>7, <1>8, <1>10 DEF vars
<1>11. CASE Begin \/ StoreLocked \/ \E s \in Sessions : Prepare(s)
  <2>1. /\ UNCHANGED cliVars /\ saved' = saved /\ delivered' = delivered /\ faults' = faults
        /\ job.stage \notin {"emit", "save"} /\ job'.stage \notin {"emit", "save"}
        /\ \A s \in Sessions : place[s] = "past" /\ (job.stage \in {"parse", "emit"} => s \notin job.files)
             => (job'.stage \in {"parse", "emit"} => s \notin job'.files)
    <3>1. CASE Begin
      BY <1>1, <3>1 DEF Begin
    <3>2. CASE StoreLocked
      BY <3>2 DEF StoreLocked, Idle
    <3>3. ASSUME NEW s \in Sessions, Prepare(s)
          PROVE  /\ UNCHANGED cliVars /\ saved' = saved /\ delivered' = delivered /\ faults' = faults
                 /\ job.stage = "parse" /\ job'.stage = "parse" /\ job'.files = job.files
      <4>1. job.stage = "parse" /\ ParseOK
        BY <1>1, <3>3 DEF Prepare
      <4>2. job'.stage = job.stage /\ job'.files = job.files
        BY <3>3, <4>1 DEF Prepare, ParseOK
      <4> QED BY <3>3, <4>1, <4>2 DEF Prepare
    <3> QED BY <1>11, <3>1, <3>2, <3>3
  <2>2. Longer /\ Careful /\ Current' = Current
    BY <1>7, <2>1 DEF Current
  <2>3. \A c \in Calls : SessionOf[c] \notin raced' => Once(c)'
    BY <1>0, <1>5, <2>1, <2>2, OnceQuiet
  <2> QED BY <1>3, <1>6, <2>1, <2>2, <2>3 DEF OnceInv
<1>12. CASE ReadStore
  <2>1. UNCHANGED cliVars /\ saved' = saved /\ delivered' = delivered /\ faults' = faults /\ job.stage = "parse"
    BY <1>12 DEF ReadStore
  <2>2. ParseOK
    BY <1>1, <2>1
  <2>3. job'.st = saved /\ job'.stage = "emit" /\ job'.files = job.files
    BY <1>12, <2>2 DEF ReadStore, ParseOK
  <2>4. Longer /\ Careful /\ Current' = Current
    BY <1>7, <2>1, <2>3 DEF Current
  <2>5. \A c \in Calls : SessionOf[c] \notin raced' => Once(c)'
    BY <1>0, <1>5, <2>1, <2>3, <2>4, OnceQuiet
  <2>6. JoinedOK(saved)'
    BY <1>3, <2>1, <2>4
  <2>7. JoinedOK(job.st)'
    BY <2>1, <2>3, <2>6 DEF JoinedOK, AllRowsDone, RowDone
  <2> QED BY <1>6, <2>1, <2>4, <2>5, <2>6, <2>7 DEF OnceInv
<1>13. ASSUME NEW s \in Sessions, EmitSession(s) PROVE OnceInv'
  <2>1. EmitOK /\ job.stage = "emit"
    <3>1. job.stage = "emit"
      BY <1>13 DEF EmitSession
    <3> QED BY <1>1, <3>1
  <2>2. /\ UNCHANGED cliVars /\ saved' = saved /\ faults' = faults /\ s \in job.todo
        /\ job' = [job EXCEPT !.todo = @ \ {s}, !.st = job'.st]
        /\ EmitsNothing(s) \/ Emits(s)
    BY <1>0, <1>13, <2>1, EmitFacts, EmitShape
  <2>3. delivered \subseteq delivered'
    BY <2>2 DEF EmitsNothing, Emits
  <2>4. Longer /\ Careful /\ JoinedOK(saved)' /\ raced' = raced
    BY <1>3, <1>7, <2>2, <2>3 DEF cliVars
  <2>5. CASE Emits(s)
    <3>1. JoinedOK(job.st)'
      BY <1>0, <1>2, <2>1, <2>2, <2>5, JoinedEmit
    <3>2. \A c \in Calls : SessionOf[c] \notin raced' => Once(c)'
      BY <1>0, <2>1, <2>2, <2>4, <2>5, OnceEmit
    <3> QED BY <1>6, <2>2, <2>4, <3>1, <3>2 DEF OnceInv
  <2>6. CASE EmitsNothing(s)
    <3>1. job'.st = job.st /\ delivered' = delivered
      BY <2>6 DEF EmitsNothing
    <3>2. job'.stage = job.stage /\ job'.files = job.files
      BY <1>0, <2>1, <2>2, EmitFacts DEF JobSet
    <3>3. Current' = Current
      BY <2>1, <3>1, <3>2 DEF Current
    <3>4. \A c \in Calls : SessionOf[c] \notin raced' => Once(c)'
      BY <1>0, <1>5, <2>2, <2>4, <3>1, <3>2, <3>3, OnceQuiet
    <3>5. JoinedOK(job.st)'
      BY <1>4, <2>1, <2>4, <3>1
    <3> QED BY <1>6, <2>2, <2>4, <3>4, <3>5 DEF OnceInv
  <2> QED BY <2>2, <2>5, <2>6
<1>14. CASE EmitRest
  <2>1. /\ UNCHANGED cliVars /\ saved' = saved /\ faults' = faults /\ delivered \subseteq delivered'
        /\ job.stage = "emit"
    BY <1>14, RestShape
  <2>2. Longer /\ Careful /\ JoinedOK(saved)' /\ raced' = raced /\ EmitOK
    BY <1>1, <1>3, <1>7, <2>1 DEF cliVars
  <2>3. JoinedOK(job.st)'
    BY <1>0, <1>2, <1>14, <2>1, <2>2, JoinedRest
  <2>4. \A c \in Calls : SessionOf[c] \notin raced' => Once(c)'
    BY <1>0, <1>14, <2>2, OnceRest
  <2> QED BY <1>6, <2>1, <2>2, <2>3, <2>4 DEF OnceInv
<1>15. CASE Save
  <2>1. /\ UNCHANGED cliVars /\ delivered' = delivered /\ faults' = faults /\ saved' = job.st
        /\ job.stage = "save" /\ job'.stage = "idle"
    BY <1>15 DEF Save, Idle
  <2>2. Longer /\ Careful /\ Current' = Current
    BY <1>7, <2>1 DEF Current
  <2>3. \A c \in Calls : SessionOf[c] \notin raced' => Once(c)'
    BY <1>0, <1>5, <2>1, <2>2, OnceQuiet
  <2>4. JoinedOK(saved)'
    <3>1. \A x : x = job.st => JoinedOK(x)'
      BY <1>4, <2>1, <2>2
    <3> QED BY <2>1, <3>1
  <2> QED BY <1>6, <2>1, <2>2, <2>3, <2>4 DEF OnceInv
<1>16. CASE Crash \/ LoseState
  <2>1. /\ UNCHANGED cliVars /\ delivered' = delivered /\ faults' = faults + 1 /\ MayFail
        /\ job'.stage = "idle" /\ (saved' = saved \/ saved' = NoState)
    BY <1>1, <1>16 DEF Crash, LoseState, Idle
  <2>2. Longer /\ Careful /\ UNCHANGED place /\ faults' # 0
    BY <1>0, <1>7, <2>1
  <2>3. \A s \in Sessions : place'[s] \notin {"gone", "past"}
    BY <2>1, <2>2 DEF MayFail
  <2>4. \A c \in Calls : SessionOf[c] \notin raced' => Once(c)'
    BY <1>0, <2>1, <2>2, OnceQuiet
  <2>5. JoinedOK(saved)'
    <3>1. CASE saved' = saved
      BY <1>3, <2>2, <3>1
    <3>2. CASE saved' = NoState
      <4>1. \A s \in Sessions : saved'.cursor[s] = NoCursor
        BY <3>2 DEF NoState
      <4> QED BY <4>1 DEF JoinedOK
    <3> QED BY <2>1, <3>1, <3>2
  <2> QED BY <2>1, <2>3, <2>4, <2>5 DEF OnceInv
<1> QED BY <1>9, <1>10, <1>11, <1>12, <1>13, <1>14, <1>15, <1>16 DEF Next, Run

\* emit_session and emit_store_only store no call under its message and under its row,
\* unless its session was taken up while a run was reading: as long as the state file has
\* room for what there is (_PENDING_MAX, DONE_WINDOW), and no run dies and no state is lost
\* once directories have been deleted.
THEOREM CountedOnlyOnce ==
  ASSUME Windows, ~Forgets
  PROVE  Spec => []CountedOnce
<1>1. Init => Inv /\ OnceInv
  <2> SUFFICES ASSUME Init PROVE Inv /\ OnceInv
    OBVIOUS
  <2>1. /\ saved = NoState /\ job.stage = "idle" /\ \A s \in Sessions : saved.cursor[s] = NoCursor
        /\ delivered = {} /\ faults = 0
    BY DEF Init, NoState, Idle
  <2> QED BY <2>1, InitInv DEF OnceInv, JoinedOK, Once
<1>2. Inv /\ OnceInv /\ [Next]_vars => Inv' /\ OnceInv'
  BY InvStep, OnceStep
<1>3. Inv /\ OnceInv => CountedOnce
  <2> SUFFICES ASSUME Inv, OnceInv, NEW c \in Calls, SessionOf[c] \notin raced
               PROVE  Cardinality({d \in delivered : d.call = c}) <= 1
    BY DEF CountedOnce
  <2> DEFINE D == {d \in delivered : d.call = c}
  <2>1. Once(c) /\ D \subseteq {ByMsg(c), ByItsRow(c)}
    BY DEF OnceInv, Inv, ByMsg, ByItsRow
  <2>2. ~(ByMsg(c) \in D /\ ByItsRow(c) \in D)
    BY <2>1 DEF Once, Alone
  <2>3. D = {} \/ \E d : D = {d}
    <3> HIDE DEF D
    <3> QED BY <2>1, <2>2
  <2>4. Cardinality({}) = 0 /\ \A d : Cardinality({d}) = 1
    BY FS_EmptySet, FS_Singleton
  <2> HIDE DEF D
  <2>5. Cardinality(D) <= 1
    <3>1. CASE D = {}
      BY <2>4, <3>1
    <3>2. ASSUME NEW d, D = {d} PROVE Cardinality(D) <= 1
      <4>1. Cardinality(D) = 1
        BY <2>4, <3>2
      <4> QED BY <4>1
    <3> QED BY <2>3, <3>1, <3>2
  <2> QED BY <2>5 DEF D
<1> QED BY <1>1, <1>2, <1>3, PTL DEF Spec
=============================================================================
