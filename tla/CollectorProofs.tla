-------------------------- MODULE CollectorProofs ---------------------------
(***************************************************************************)
(* The collector's cursor never passes a call that was not sent: proofs of *)
(* the type invariant and of NothingSkipped.  The parser is a recursive    *)
(* function of the line, so that its invariant, ParserInv, is shown line   *)
(* by line (RecursionOver); what a pass returns is what the cursor and the *)
(* requests of a run are made of, and Inv carries it from run to run.      *)
(***************************************************************************)
EXTENDS Collector, FiniteSetTheorems, WellFoundedInduction, TLAPS, SequenceTheorems

-----------------------------------------------------------------------------
(* Least and greatest elements, and recursive functions *)

\* A set of naturals has a least element.
LEMMA LeastNat ==
  ASSUME NEW S, S \subseteq Nat, S # {}
  PROVE  \E x \in S : \A y \in S : x <= y
<1> DEFINE less == OpToRel(<, Nat)
<1>1. \A x, y \in Nat : <<x, y>> \in less <=> x < y
  BY DEF OpToRel
<1> HIDE DEF less
<1>2. PICK x \in S : \A y \in S : ~(<<y, x>> \in less)
  BY NatLessThanWellFounded, WFMin DEF less
<1>3. \A y \in S : ~(y < x)
  BY <1>1, <1>2
<1> QED BY <1>3

\* A finite set with a total and transitive relation has a greatest element: the one that
\* the fewest elements are not below.
LEMMA GreatestOf ==
  ASSUME NEW U, IsFiniteSet(U), U # {}, NEW R,
         \A x, y \in U : <<x, y>> \in R \/ <<y, x>> \in R,
         \A x, y, z \in U : <<x, y>> \in R /\ <<y, z>> \in R => <<x, z>> \in R
  PROVE  \E x \in U : \A y \in U : <<x, y>> \in R
<1> DEFINE Above == [x \in U |-> {y \in U : <<x, y>> \notin R}]
           Rank == [x \in U |-> Cardinality(Above[x])]
<1>1. \A x \in U : Above[x] \in SUBSET U /\ IsFiniteSet(Above[x]) /\ Rank[x] = Cardinality(Above[x])
                  /\ Rank[x] \in Nat
  <2>1. \A x \in U : Above[x] \in SUBSET U
    OBVIOUS
  <2> HIDE DEF Above
  <2> QED BY <2>1, FS_Subset, FS_CardinalityType
<1> HIDE DEF Rank
<1>2. PICK x \in U : \A y \in U : Rank[x] <= Rank[y]
  <2> DEFINE S == {Rank[x] : x \in U}
  <2>1. \E n \in S : \A k \in S : n <= k
    <3>1. \A x \in U : Rank[x] \in Nat
      BY <1>1
    <3>2. S \subseteq Nat /\ S # {}
      BY <3>1
    <3> HIDE DEF S
    <3> QED BY <3>2, LeastNat
  <2> QED BY <2>1
<1>3. ASSUME NEW y \in U, <<x, y>> \notin R PROVE FALSE
  <2>1. Above[y] \subseteq Above[x] /\ Above[y] # Above[x]
    BY <1>3
  <2> HIDE DEF Above
  <2>2. Rank[y] < Rank[x]
    BY <1>1, <2>1, FS_Subset
  <2> QED BY <1>1, <1>2, <2>2
<1> QED BY <1>3

\* Induction over 0..n, for values g[k] in sets S[k].
LEMMA InductionOver ==
  ASSUME NEW n \in Nat, NEW S, NEW g, g[0] \in S[0],
         \A k \in 1..n : g[k - 1] \in S[k - 1] => g[k] \in S[k]
  PROVE  \A k \in 0..n : g[k] \in S[k]
<1> DEFINE Bad == {k \in 0..n : g[k] \notin S[k]}
<1>1. ASSUME Bad # {} PROVE FALSE
  <2>1. PICK k \in Bad : \A j \in Bad : k <= j
    <3>1. Bad \subseteq Nat
      OBVIOUS
    <3> HIDE DEF Bad
    <3> QED BY <1>1, <3>1, LeastNat
  <2>2. k # 0
    BY <2>1
  <2>3. k \in 1..n /\ k - 1 \in 0..n /\ k - 1 \notin Bad
    BY <2>1, <2>2
  <2> QED BY <2>3
<1> QED BY <1>1

\* b is in S[0], and each step of T leads from S[k - 1] to S[k].
StepsThrough(n, S, b, T) ==
  /\ n \in Nat /\ b \in S[0]
  /\ \A k \in 1..n : \A x \in S[k - 1] : T[k][x] \in S[k]

\* Recursion over 0..n: the equation of the recursive function has a solution with
\* values in S.
LEMMA RecursionOver ==
  ASSUME NEW n, NEW S, NEW b, NEW T, StepsThrough(n, S, b, T)
  PROVE  \E g : /\ g = [k \in 0..n |-> IF k = 0 THEN b ELSE T[k][g[k - 1]]]
                /\ \A k \in 0..n : g[k] \in S[k]
<1> DEFINE Solves(g, m) == /\ g = [k \in 0..m |-> g[k]] /\ g[0] = b
                           /\ \A k \in 1..m : g[k] = T[k][g[k - 1]]
           Unsolved == {m \in 0..n : \A g : ~Solves(g, m)}
<1>0. /\ n \in Nat /\ b \in S[0]
      /\ \A k \in 1..n : \A x \in S[k - 1] : T[k][x] \in S[k]
  BY DEF StepsThrough
<1>1. ASSUME Unsolved # {} PROVE FALSE
  <2>1. PICK m \in Unsolved : \A j \in Unsolved : m <= j
    <3>1. Unsolved \subseteq Nat
      BY <1>0
    <3> HIDE DEF Unsolved
    <3> QED BY <1>1, <3>1, LeastNat
  <2>2. Solves([k \in 0..0 |-> b], 0)
    OBVIOUS
  <2>3. m # 0
    <3>1. m \in 0..n /\ \A g : ~Solves(g, m)
      <4> HIDE DEF Solves
      <4> QED OBVIOUS
    <3> HIDE DEF Solves, Unsolved
    <3> QED BY <2>2, <3>1
  <2>4. m - 1 \in 0..n /\ m - 1 \notin Unsolved /\ m \in 1..n
    <3>1. m \in 0..n
      OBVIOUS
    <3>2. m \in 1..n /\ m - 1 \in 0..n /\ ~(m <= m - 1)
      BY <1>0, <2>3, <3>1
    <3> HIDE DEF Unsolved
    <3> QED BY <2>1, <3>2
  <2>5. PICK g : Solves(g, m - 1)
    BY <2>4
  <2> DEFINE h == [k \in 0..m |-> IF k = m THEN T[m][g[m - 1]] ELSE g[k]]
  <2>6. Solves(h, m)
    <3>1. h = [k \in 0..m |-> h[k]]
      OBVIOUS
    <3>2. h[0] = b
      BY <2>4, <2>5
    <3>3. ASSUME NEW k \in 1..m PROVE h[k] = T[k][h[k - 1]]
      <4>1. k - 1 \in 0..m /\ k - 1 # m /\ h[k - 1] = g[k - 1]
        BY <2>4
      <4>2. CASE k = m
        BY <4>1, <4>2
      <4>3. CASE k # m
        <5>1. k \in 1..(m - 1)
          BY <2>4, <4>3
        <5>2. g[k] = T[k][g[k - 1]]
          BY <2>5, <5>1
        <5>3. h[k] = g[k]
          BY <4>3
        <5> QED BY <4>1, <5>2, <5>3
      <4> QED BY <4>2, <4>3
    <3> HIDE DEF h
    <3> QED BY <3>1, <3>2, <3>3
  <2> HIDE DEF h
  <2> QED BY <2>1, <2>6
<1>2. PICK g : Solves(g, n)
  BY <1>0, <1>1
<1>3. \A k \in 0..n : g[k] \in S[k]
  <2>1. g[0] \in S[0]
    BY <1>0, <1>2
  <2>2. \A k \in 1..n : g[k - 1] \in S[k - 1] => g[k] \in S[k]
    BY <1>0, <1>2
  <2> QED BY <1>0, <2>1, <2>2, InductionOver
<1>4. g = [k \in 0..n |-> IF k = 0 THEN b ELSE T[k][g[k - 1]]]
  <2>1. \A k \in 0..n : g[k] = IF k = 0 THEN b ELSE T[k][g[k - 1]]
    BY <1>2
  <2>2. g = [k \in 0..n |-> g[k]]
    BY <1>2
  <2> QED BY <2>1, <2>2
<1> QED BY <1>3, <1>4

-----------------------------------------------------------------------------

Group == [id : Messages, offset : Nat, out : Outputs, best : BOOLEAN, reopened : BOOLEAN]
ClosedCall == [id : Messages, offset : Nat, out : Outputs]
Request == [id : Messages, offset : Nat, out : Outputs, mso : BOOLEAN]

\* Lines start at even offsets.
StartsBefore(o, b) == o % 2 = 0 /\ o < b

\* Line i is written to its end.
Complete(i) == ~(half /\ i = Len(lines))

\* A record of call m with at least output o.
Has(R, m, o) == \E r \in R : r.id = m /\ r.out >= o
\* The records of R that are from the file that has the name now.
Current(R) == {r \in R : r.file = file}

HasLine(R, i) == lines[i].type = "assistant" => Has(R, lines[i].id, lines[i].out)

-----------------------------------------------------------------------------
(* The parser state p after line i of a read, with offsets up to b *)

Typed(p) ==
  /\ p \in [open : SUBSET Group, closed : Seq(ClosedCall), requests : SUBSET Request]
  /\ IsFiniteSet(p.open) /\ Len(p.closed) <= ClosedWindow

Earlier(p, b) ==
  /\ \A g \in p.open : StartsBefore(g.offset, b)
  /\ \A k \in DOMAIN p.closed : StartsBefore(p.closed[k].offset, b)
  /\ \A r \in p.requests : StartsBefore(r.offset, b)

OneEach(closed) ==
  \A j, k \in DOMAIN closed : closed[j].id = closed[k].id => j = k

Unique(p) ==
  /\ \A g, h \in p.open : g.id = h.id => g = h
  /\ OneEach(p.closed)
  /\ \A r, s \in p.requests : r.id = s.id => r = s

\* An open or a closed group has at least the output that was sent of it.
Grown(p) ==
  \A r \in p.requests :
    /\ \A g \in p.open : g.id = r.id => r.out <= g.out
    /\ \A k \in DOMAIN p.closed : p.closed[k].id = r.id => r.out <= p.closed[k].out

\* Sent by an earlier run, or a request of this one.
Known(p, m, o) == Has(p.requests, m, o) \/ Has(Current(delivered), m, o)

\* What is closed is sent; what is open is sent or will be when it is closed.
Covers(p) ==
  /\ \A k \in DOMAIN p.closed : Known(p, p.closed[k].id, p.closed[k].out)
  /\ \A g \in p.open : g.best \/ Known(p, g.id, g.out)

\* The call of a line that was read is open, or sent.
ReadTo(p, i) ==
  \A j \in 1..i : Complete(j) /\ lines[j].type = "assistant" =>
    \/ Known(p, lines[j].id, lines[j].out)
    \/ \E g \in p.open : g.id = lines[j].id /\ g.out >= lines[j].out

ParserInv(p, b, i) ==
  Typed(p) /\ Earlier(p, b) /\ Unique(p) /\ Grown(p) /\ Covers(p) /\ ReadTo(p, i)

-----------------------------------------------------------------------------
(* The state *)

CursorOK(c) ==
  /\ c \in [offset : Nat, head : [file : Nat, n : 0..HeadBytes], size : Nat, mtime : Nat,
            closed : Seq(ClosedCall)]
  /\ Len(c.closed) <= ClosedWindow /\ OneEach(c.closed)
  /\ \A k \in DOMAIN c.closed : StartsBefore(c.closed[k].offset, c.offset)
  /\ c.offset <= c.size
  /\ c.mtime \in 1..file /\ c.size <= 2 * MaxLines[c.mtime]
  /\ ~present => c.mtime # file
  /\ c.head.file = IF c.size = 0 THEN 0 ELSE c.mtime

\* Of the file that has the name now: the records R have the calls of the closed
\* window and of the lines before the offset.
CursorSafe(c, R) ==
  c.mtime = file =>
    /\ c.size <= Size
    /\ \A k \in DOMAIN c.closed : Has(Current(R), c.closed[k].id, c.closed[k].out)
    /\ \A i \in 1..Len(lines) : 2 * (i - 1) < c.offset => HasLine(Current(R), i)

FileOK ==
  /\ file \in 1..Len(MaxLines) /\ present \in BOOLEAN /\ half \in BOOLEAN
  /\ lines \in Seq(Lines) /\ Len(lines) <= MaxLines[file]
  /\ half => lines # <<>>
  /\ ~present => lines = <<>>

SavedOK == saved # NoCursor => CursorOK(saved) /\ CursorSafe(saved, delivered)

\* What was found by stat is a beginning of the file that is there now.
StatOK ==
  /\ job \in [stage : {"stat"}, cur : {saved, NoCursor}, size : Nat, mtime : 1..file,
              quiescent : BOOLEAN]
  /\ job.size <= 2 * MaxLines[job.mtime]
  /\ present => /\ job.mtime = file /\ job.size <= Size
                /\ job.quiescent /\ job.size % 2 = 1 => lines[(job.size + 1) \div 2] = Junk

ParsedOK ==
  /\ job \in [stage : {"parsed", "written"}, quiescent : BOOLEAN, requests : SUBSET Records,
              cursor : {job.cursor}]
  /\ CursorOK(job.cursor)
  /\ CursorSafe(job.cursor, delivered \cup job.requests)
  /\ job.stage = "written" => job.requests \subseteq delivered

JobOK == job = Idle \/ StatOK \/ ParsedOK

Inv ==
  /\ FileOK /\ SavedOK /\ JobOK
  /\ delivered \subseteq Records /\ faults \in 0..MaxFaults

-----------------------------------------------------------------------------
(* The closed window *)

\* What Forget keeps: the entries of the other ids.
LEMMA ForgetFacts ==
  ASSUME NEW s \in Seq(ClosedCall), OneEach(s), NEW m
  PROVE  /\ Forget(s, m) \in Seq(ClosedCall)
         /\ Len(Forget(s, m)) <= Len(s)
         /\ OneEach(Forget(s, m))
         /\ \A k \in DOMAIN Forget(s, m) :
              Forget(s, m)[k].id # m /\ \E j \in DOMAIN s : Forget(s, m)[k] = s[j]
<1> DEFINE at == {k \in DOMAIN s : s[k].id = m}
<1>0. DOMAIN s = 1..Len(s) /\ Len(s) \in Nat
  OBVIOUS
<1>1. CASE at = {}
  <2>1. Forget(s, m) = s
    BY <1>1 DEF Forget
  <2>2. \A k \in DOMAIN s : s[k].id # m
    BY <1>1
  <2> QED BY <2>1, <2>2
<1>2. CASE at # {}
  <2> DEFINE i == CHOOSE k \in at : TRUE
             u == SubSeq(s, 1, i - 1)
             v == SubSeq(s, i + 1, Len(s))
             t == u \o v
  <2>1. i \in 1..Len(s) /\ s[i].id = m
    BY <1>0, <1>2
  <2>2. Forget(s, m) = t
    BY <1>2 DEF Forget, RemoveAt
  <2> HIDE DEF i
  <2>3. /\ u \in Seq(ClosedCall) /\ v \in Seq(ClosedCall)
        /\ Len(u) = i - 1 /\ Len(v) = Len(s) - i
        /\ \A k \in 1..(i - 1) : u[k] = s[k]
        /\ \A k \in 1..(Len(s) - i) : v[k] = s[i + k]
    <3>1. \A k \in 1..(i - 1) : s[k] \in ClosedCall
      BY <1>0, <2>1
    <3>2. \A k \in (i + 1)..Len(s) : s[k] \in ClosedCall
      BY <1>0, <2>1
    <3>3. 1 \in Int /\ i - 1 \in Int /\ i + 1 \in Int /\ Len(s) \in Int /\ i \in Int
      BY <1>0, <2>1
    <3>4. /\ u \in Seq(ClosedCall)
          /\ Len(u) = IF 1 <= i - 1 THEN i - 1 - 1 + 1 ELSE 0
          /\ \A k \in 1..(i - 1 - 1 + 1) : u[k] = s[1 + k - 1]
      BY <3>1, <3>3, SubSeqProperties
    <3>5. /\ v \in Seq(ClosedCall)
          /\ Len(v) = IF i + 1 <= Len(s) THEN Len(s) - (i + 1) + 1 ELSE 0
          /\ \A k \in 1..(Len(s) - (i + 1) + 1) : v[k] = s[i + 1 + k - 1]
      BY <3>2, <3>3, SubSeqProperties
    <3> HIDE DEF u, v
    <3>6. Len(u) = i - 1 /\ \A k \in 1..(i - 1) : u[k] = s[k]
      BY <2>1, <3>3, <3>4
    <3>7. Len(v) = Len(s) - i /\ \A k \in 1..(Len(s) - i) : v[k] = s[i + k]
      BY <2>1, <3>3, <3>5
    <3> QED BY <3>4, <3>5, <3>6, <3>7
  <2> HIDE DEF u, v
  <2>4. t \in Seq(ClosedCall) /\ Len(t) = Len(s) - 1
    <3>1. t \in Seq(ClosedCall) /\ Len(t) = Len(u) + Len(v)
      BY <2>3, ConcatProperties
    <3> HIDE DEF t
    <3> QED BY <1>0, <2>1, <2>3, <3>1
  <2>5. \A k \in 1..(Len(s) - 1) : t[k] = IF k < i THEN s[k] ELSE s[k + 1]
    BY <1>0, <2>1, <2>3
  <2> HIDE DEF t
  <2>6. DOMAIN t = 1..(Len(s) - 1)
    <3>1. DOMAIN t = 1..Len(t)
      BY <2>4
    <3> QED BY <2>4, <3>1
  <2>7. OneEach(t)
    <3> SUFFICES ASSUME NEW j \in 1..(Len(s) - 1), NEW k \in 1..(Len(s) - 1), t[j].id = t[k].id
                 PROVE  j = k
      BY <2>6 DEF OneEach
    <3> DEFINE At(n) == IF n < i THEN n ELSE n + 1
    <3>1. At(j) \in DOMAIN s /\ At(k) \in DOMAIN s /\ t[j] = s[At(j)] /\ t[k] = s[At(k)]
      BY <1>0, <2>1, <2>5
    <3>2. At(j) = At(k)
      BY <3>1 DEF OneEach
    <3> QED BY <2>1, <3>2
  <2>8. \A k \in DOMAIN t : t[k].id # m /\ \E j \in DOMAIN s : t[k] = s[j]
    <3> SUFFICES ASSUME NEW k \in DOMAIN t
                 PROVE  t[k].id # m /\ \E j \in DOMAIN s : t[k] = s[j]
      OBVIOUS
    <3> DEFINE j == IF k < i THEN k ELSE k + 1
    <3>1. j \in DOMAIN s /\ j # i /\ t[k] = s[j]
      BY <1>0, <2>1, <2>5, <2>6
    <3>2. s[j].id # m
      BY <1>0, <2>1, <3>1 DEF OneEach
    <3> QED BY <3>1, <3>2
  <2>9. Len(t) <= Len(s)
    BY <1>0, <2>4
  <2> QED BY <2>2, <2>4, <2>7, <2>8, <2>9
<1> QED BY <1>1, <1>2

\* What remember_closed keeps: the group, as the latest, and entries of other ids.
LEMMA RememberFacts ==
  ASSUME NEW s \in Seq(ClosedCall), OneEach(s), Len(s) <= ClosedWindow, NEW g \in Group
  PROVE  /\ remember_closed(s, g) \in Seq(ClosedCall)
         /\ Len(remember_closed(s, g)) <= ClosedWindow
         /\ OneEach(remember_closed(s, g))
         /\ \A k \in DOMAIN remember_closed(s, g) :
              \/ remember_closed(s, g)[k] = [id |-> g.id, offset |-> g.offset, out |-> g.out]
              \/ /\ remember_closed(s, g)[k].id # g.id
                 /\ \E j \in DOMAIN s : remember_closed(s, g)[k] = s[j]
<1> DEFINE f == Forget(s, g.id)
           e == [id |-> g.id, offset |-> g.offset, out |-> g.out]
           longer == Append(f, e)
<1>1. /\ f \in Seq(ClosedCall) /\ Len(f) <= Len(s) /\ OneEach(f)
      /\ \A k \in DOMAIN f : f[k].id # g.id /\ \E j \in DOMAIN s : f[k] = s[j]
  BY ForgetFacts
<1>2. remember_closed(s, g) = IF Len(longer) > ClosedWindow THEN Tail(longer) ELSE longer
  BY DEF remember_closed
<1>3. e \in ClosedCall
  BY DEF Group, ClosedCall
<1>4. ClosedWindow \in Nat
  BY WindowsAssumption
<1> HIDE DEF f
<1>5. /\ longer \in Seq(ClosedCall) /\ Len(longer) = Len(f) + 1 /\ Len(f) \in Nat
      /\ \A k \in 1..Len(f) : longer[k] = f[k]
      /\ longer[Len(f) + 1] = e
      /\ DOMAIN longer = 1..(Len(f) + 1)
      /\ DOMAIN f = 1..Len(f)
  BY <1>1, <1>3
<1>6. e.id = g.id
  OBVIOUS
<1> HIDE DEF longer, e
<1>7. OneEach(longer)
  <2> SUFFICES ASSUME NEW j \in 1..(Len(f) + 1), NEW k \in 1..(Len(f) + 1), longer[j].id = longer[k].id
               PROVE  j = k
    BY <1>5 DEF OneEach
  <2>1. CASE j \in 1..Len(f) /\ k \in 1..Len(f)
    BY <1>1, <1>5, <2>1 DEF OneEach
  <2>2. CASE j \in 1..Len(f) /\ k = Len(f) + 1
    BY <1>1, <1>5, <1>6, <2>2
  <2>3. CASE k \in 1..Len(f) /\ j = Len(f) + 1
    BY <1>1, <1>5, <1>6, <2>3
  <2> QED BY <1>5, <2>1, <2>2, <2>3
<1>8. \A k \in DOMAIN longer :
        longer[k] = e \/ (longer[k].id # g.id /\ \E j \in DOMAIN s : longer[k] = s[j])
  BY <1>1, <1>5
<1>9. CASE Len(longer) > ClosedWindow
  <2>1. /\ Tail(longer) \in Seq(ClosedCall) /\ Len(Tail(longer)) = Len(f)
        /\ DOMAIN Tail(longer) = 1..Len(f)
        /\ \A k \in 1..Len(f) : Tail(longer)[k] = longer[k + 1]
    BY <1>5
  <2>2. OneEach(Tail(longer))
    BY <1>5, <1>7, <2>1 DEF OneEach
  <2>3. \A k \in DOMAIN Tail(longer) :
          \/ Tail(longer)[k] = e
          \/ Tail(longer)[k].id # g.id /\ \E j \in DOMAIN s : Tail(longer)[k] = s[j]
    BY <1>5, <1>8, <2>1
  <2>4. Len(Tail(longer)) <= ClosedWindow
    BY <1>1, <1>4, <1>5, <2>1
  <2> QED BY <1>2, <1>9, <2>1, <2>2, <2>3, <2>4 DEF e
<1>10. CASE ~(Len(longer) > ClosedWindow)
  <2>1. Len(longer) <= ClosedWindow
    BY <1>4, <1>5, <1>10
  <2> QED BY <1>2, <1>5, <1>7, <1>8, <1>10, <2>1 DEF e
<1> QED BY <1>9, <1>10

-----------------------------------------------------------------------------
(* Closing *)

LEMMA OutputsNat == Outputs \subseteq Nat
BY WindowsAssumption DEF Outputs

\* The data of an assistant line.
LEMMA AssistantLine ==
  ASSUME FileOK, NEW j \in 1..Len(lines), lines[j].type = "assistant"
  PROVE  lines[j].id \in Messages /\ lines[j].out \in Outputs
<1>1. lines[j] \in Lines
  BY DEF FileOK
<1>2. lines[j] \in Assistant
  BY <1>1, WindowsAssumption DEF Lines, Closing, Junk
<1> QED BY <1>2 DEF Assistant, Messages, Outputs

\* A call that is known with an output is known with a smaller one.
LEMMA KnownLess ==
  ASSUME NEW p, NEW m, NEW o \in Nat, NEW n \in Nat, o >= n, Typed(p), delivered \subseteq Records,
         Known(p, m, o)
  PROVE  Known(p, m, n)
<1>1. ASSUME NEW R, NEW r \in R, r.id = m, r.out >= o, r.out \in Nat PROVE Has(R, m, n)
  BY <1>1 DEF Has
<1>2. \A r \in p.requests : r.out \in Nat
  BY OutputsNat DEF Typed, Request
<1>3. \A r \in Current(delivered) : r.out \in Nat
  BY OutputsNat DEF Current, Records
<1> QED BY <1>1, <1>2, <1>3 DEF Known, Has

\* The group that is closed next.
LEMMA EarliestGroup ==
  ASSUME NEW open \in SUBSET Group, open # {}
  PROVE  (CHOOSE g \in open : \A h \in open : g.offset <= h.offset) \in open
<1> DEFINE offsets == {g.offset : g \in open}
<1>1. offsets \subseteq Nat /\ offsets # {}
  BY DEF Group
<1>2. PICK o \in offsets : \A n \in offsets : o <= n
  <2> HIDE DEF offsets
  <2> QED BY <1>1, LeastNat
<1>3. PICK g \in open : g.offset = o
  OBVIOUS
<1>4. \A h \in open : g.offset <= h.offset
  BY <1>2, <1>3
<1> QED BY <1>4

\* One turn of close_groups keeps the parser's invariant.
LEMMA CloseOne ==
  ASSUME FileOK, delivered \subseteq Records, NEW p, NEW b, NEW i \in 0..Len(lines), NEW answered \in BOOLEAN,
         ParserInv(p, b, i), p.open # {}
  PROVE  /\ ParserInv(close_earliest(p, answered), b, i)
         /\ Cardinality(close_earliest(p, answered).open) = Cardinality(p.open) - 1
<1> DEFINE g == CHOOSE g \in p.open : \A h \in p.open : g.offset <= h.offset
           mso == answered /\ g.out <= PlaceholderMax /\ ~g.reopened
           r0 == [id |-> g.id, offset |-> g.offset, out |-> g.out, mso |-> mso]
           e == [id |-> g.id, offset |-> g.offset, out |-> g.out]
           requests == IF ~g.best THEN p.requests
                       ELSE (p.requests \ WithId(p.requests, g.id)) \cup {r0}
           closed == remember_closed(p.closed, g)
           q == close_earliest(p, answered)
<1>0. Typed(p) /\ Earlier(p, b) /\ Unique(p) /\ Grown(p) /\ Covers(p) /\ ReadTo(p, i)
  BY DEF ParserInv
<1>1. g \in p.open /\ g \in Group
  BY <1>0, EarliestGroup DEF Typed
<1>2. q = [open |-> p.open \ {g}, closed |-> closed, requests |-> requests]
  <2>1. q = finalize([p EXCEPT !.open = p.open \ {g}], g, mso)
    BY DEF close_earliest
  <2> HIDE DEF g, mso, q
  <2>2. ASSUME NEW x PROVE [p EXCEPT !.open = x]
                             = [open |-> x, closed |-> p.closed, requests |-> p.requests]
    <3>1. ASSUME NEW A, NEW B, NEW C, NEW y \in [open : A, closed : B, requests : C]
          PROVE  [y EXCEPT !.open = x] = [open |-> x, closed |-> y.closed, requests |-> y.requests]
      OBVIOUS
    <3>2. p \in [open : SUBSET Group, closed : Seq(ClosedCall), requests : SUBSET Request]
      BY <1>0 DEF Typed
    <3> QED BY <3>1, <3>2
  <2>3. [p EXCEPT !.open = p.open \ {g}]
          = [open |-> p.open \ {g}, closed |-> p.closed, requests |-> p.requests]
    BY <2>2
  <2> QED BY <2>1, <2>3 DEF finalize
<1>3. /\ closed \in Seq(ClosedCall) /\ Len(closed) <= ClosedWindow /\ OneEach(closed)
      /\ \A k \in DOMAIN closed :
           closed[k] = e \/ (closed[k].id # g.id /\ \E j \in DOMAIN p.closed : closed[k] = p.closed[j])
  BY <1>0, <1>1, RememberFacts DEF Typed, Unique
<1>4. r0 \in Request /\ r0.id = g.id /\ r0.offset = g.offset /\ r0.out = g.out
  BY <1>1 DEF Group, Request
<1>5. e.id = g.id /\ e.offset = g.offset /\ e.out = g.out
  OBVIOUS
<1> HIDE DEF g, mso, r0, e, closed
<1>6. /\ \A r \in requests : (r \in p.requests /\ (g.best => r.id # g.id)) \/ (g.best /\ r = r0)
      /\ \A r \in p.requests : r.id # g.id => r \in requests
      /\ g.best => r0 \in requests
      /\ ~g.best => requests = p.requests
  BY DEF WithId
<1> HIDE DEF requests, q
<1>7. q.open = p.open \ {g} /\ q.closed = closed /\ q.requests = requests
  BY <1>2
<1>8. p.open \subseteq Group /\ p.requests \subseteq Request /\ IsFiniteSet(p.open)
      /\ p.closed \in Seq(ClosedCall) /\ \A j \in DOMAIN p.closed : p.closed[j] \in ClosedCall
  BY <1>0 DEF Typed
<1>9. Typed(q)
  <2>1. requests \subseteq Request
    BY <1>4, <1>6, <1>8
  <2>2. IsFiniteSet(p.open \ {g})
    BY <1>8, FS_RemoveElement
  <2> QED BY <1>2, <1>3, <1>7, <1>8, <2>1, <2>2 DEF Typed
<1>10. Earlier(q, b)
  <2>1. \A k \in DOMAIN closed : StartsBefore(closed[k].offset, b)
    BY <1>0, <1>1, <1>3, <1>5 DEF Earlier
  <2>2. \A r \in requests : StartsBefore(r.offset, b)
    BY <1>0, <1>1, <1>4, <1>6 DEF Earlier
  <2>3. \A h \in p.open \ {g} : StartsBefore(h.offset, b)
    BY <1>0 DEF Earlier
  <2> QED BY <1>7, <2>1, <2>2, <2>3 DEF Earlier
<1>11. Unique(q)
  <2>1. \A r, s \in requests : r.id = s.id => r = s
    BY <1>0, <1>4, <1>6 DEF Unique
  <2>2. \A h, k \in p.open \ {g} : h.id = k.id => h = k
    BY <1>0 DEF Unique
  <2> QED BY <1>3, <1>7, <2>1, <2>2 DEF Unique
<1>12. \A h \in p.open \ {g} : h.id # g.id
  BY <1>0, <1>1 DEF Unique
<1>13. g.out \in Nat /\ \A r \in p.requests : r.out \in Nat
  BY <1>1, <1>8, OutputsNat DEF Group, Request
<1>14. \A r \in requests : r.id = g.id => r.out <= g.out
  BY <1>0, <1>1, <1>4, <1>6, <1>13 DEF Grown
<1>15. Grown(q)
  <2> SUFFICES ASSUME NEW r \in requests
               PROVE  /\ \A h \in p.open \ {g} : h.id = r.id => r.out <= h.out
                      /\ \A k \in DOMAIN closed : closed[k].id = r.id => r.out <= closed[k].out
    BY <1>7 DEF Grown
  <2>1. CASE r.id = g.id
    BY <1>3, <1>5, <1>12, <1>14, <2>1
  <2>2. CASE r.id # g.id
    <3>1. r \in p.requests
      BY <1>4, <1>6, <2>2
    <3>2. \A k \in DOMAIN closed : closed[k].id = r.id =>
            \E j \in DOMAIN p.closed : closed[k] = p.closed[j]
      BY <1>3, <1>5, <2>2
    <3> QED BY <1>0, <3>1, <3>2 DEF Grown
  <2> QED BY <2>1, <2>2
<1>16. \A m, o : o \in Nat /\ Known(p, m, o) => Known(q, m, o)
  <2> SUFFICES ASSUME NEW m, NEW o \in Nat, Has(p.requests, m, o)
               PROVE  Has(requests, m, o)
    BY <1>7 DEF Known
  <2>1. PICK r \in p.requests : r.id = m /\ r.out >= o
    BY DEF Has
  <2>2. CASE r \in requests
    BY <2>1, <2>2 DEF Has
  <2>3. CASE r \notin requests
    <3>1. g.best /\ r.id = g.id
      BY <1>6, <2>3
    <3>2. r0 \in requests /\ r.out <= g.out
      BY <1>0, <1>1, <1>6, <3>1 DEF Grown
    <3>3. r0.id = m /\ r0.out >= o
      BY <1>4, <1>13, <2>1, <3>1, <3>2
    <3> QED BY <3>2, <3>3 DEF Has
  <2> QED BY <2>2, <2>3
<1>17. Known(q, g.id, g.out)
  <2>1. CASE g.best
    <3>1. r0 \in q.requests /\ r0.id = g.id /\ r0.out >= g.out
      BY <1>4, <1>6, <1>7, <1>13, <2>1
    <3> QED BY <3>1 DEF Known, Has
  <2>2. CASE ~g.best
    BY <1>0, <1>1, <1>13, <1>16, <2>2 DEF Covers
  <2> QED BY <2>1, <2>2
<1>18. Covers(q)
  <2>1. ASSUME NEW k \in DOMAIN closed PROVE Known(q, closed[k].id, closed[k].out)
    <3>1. CASE closed[k] = e
      BY <1>5, <1>17, <3>1
    <3>2. CASE closed[k] # e
      <4>1. PICK j \in DOMAIN p.closed : closed[k] = p.closed[j]
        BY <1>3, <3>2
      <4>2. p.closed[j].out \in Nat
        BY <1>8, OutputsNat DEF ClosedCall
      <4> QED BY <1>0, <1>16, <4>1, <4>2 DEF Covers
    <3> QED BY <3>1, <3>2
  <2>2. ASSUME NEW h \in p.open, ~h.best PROVE Known(q, h.id, h.out)
    <3>1. h.out \in Nat
      BY <1>8, OutputsNat DEF Group
    <3> QED BY <1>0, <1>16, <2>2, <3>1 DEF Covers
  <2> QED BY <1>7, <2>1, <2>2 DEF Covers
<1>19. ReadTo(q, i)
  <2> SUFFICES ASSUME NEW j \in 1..i, Complete(j), lines[j].type = "assistant"
               PROVE  \/ Known(q, lines[j].id, lines[j].out)
                      \/ \E h \in p.open \ {g} : h.id = lines[j].id /\ h.out >= lines[j].out
    BY <1>7 DEF ReadTo
  <2> DEFINE l == lines[j]
  <2>1. \/ Known(p, l.id, l.out) \/ \E h \in p.open : h.id = l.id /\ h.out >= l.out
    BY <1>0 DEF ReadTo
  <2>2. l.out \in Nat
    <3>1. j \in 1..Len(lines)
      BY DEF FileOK
    <3> QED BY <3>1, AssistantLine, OutputsNat
  <2> HIDE DEF l
  <2>3. CASE Known(p, l.id, l.out)
    BY <1>16, <2>2, <2>3 DEF l
  <2>4. CASE g.id = l.id /\ g.out >= l.out
    BY <1>9, <1>13, <1>17, <2>2, <2>4, KnownLess DEF l
  <2>5. CASE \E h \in p.open \ {g} : h.id = l.id /\ h.out >= l.out
    BY <2>5 DEF l
  <2> QED BY <2>1, <2>3, <2>4, <2>5
<1>20. Cardinality(p.open \ {g}) = Cardinality(p.open) - 1
  BY <1>1, <1>8, FS_RemoveElement
<1> QED BY <1>7, <1>9, <1>10, <1>11, <1>15, <1>18, <1>19, <1>20 DEF ParserInv, q

ParserStates == [open : SUBSET Group, closed : Seq(ClosedCall), requests : SUBSET Request]

\* close_groups closes every open group and keeps the parser's invariant.
LEMMA CloseAll ==
  ASSUME FileOK, delivered \subseteq Records, NEW p, NEW b, NEW i \in 0..Len(lines),
         NEW answered \in BOOLEAN, ParserInv(p, b, i)
  PROVE  ParserInv(close_groups(p, answered), b, i) /\ close_groups(p, answered).open = {}
<1> DEFINE n == Cardinality(p.open)
           S == [k \in 0..n |-> {x \in ParserStates : ParserInv(x, b, i) /\ Cardinality(x.open) = n - k}]
           T == [k \in 1..n |-> [x \in S[k - 1] |-> close_earliest(x, answered)]]
           q == CHOOSE q : q = [k \in 0..n |-> IF k = 0 THEN p ELSE close_earliest(q[k - 1], answered)]
<1>1. close_groups(p, answered) = q[n]
  BY DEF close_groups
<1>2. p \in ParserStates /\ n \in Nat
  BY FS_CardinalityType DEF ParserInv, Typed, ParserStates
<1>3. \A x : ParserInv(x, b, i) => x \in ParserStates /\ IsFiniteSet(x.open)
  BY DEF ParserInv, Typed, ParserStates
<1> HIDE DEF n
<1>4. p \in S[0]
  BY <1>2 DEF n
<1>5. ASSUME NEW k \in 1..n, NEW x \in S[k - 1]
      PROVE  close_earliest(x, answered) \in S[k]
  <2>1. k - 1 \in 0..n /\ k \in 0..n
    BY <1>2
  <2>2. ParserInv(x, b, i) /\ Cardinality(x.open) = n - (k - 1)
    BY <2>1
  <2>3. x.open # {}
    <3>1. n - (k - 1) # 0
      BY <1>2
    <3>2. Cardinality({}) = 0
      BY FS_EmptySet
    <3> QED BY <2>2, <3>1, <3>2
  <2>4. /\ ParserInv(close_earliest(x, answered), b, i)
        /\ Cardinality(close_earliest(x, answered).open) = n - k
    BY <1>2, <2>2, <2>3, CloseOne
  <2> QED BY <1>3, <2>1, <2>4
<1>6. \A k \in 1..n : \A x \in S[k - 1] : T[k][x] = close_earliest(x, answered)
  OBVIOUS
<1> HIDE DEF S, T
<1>7. PICK g : /\ g = [k \in 0..n |-> IF k = 0 THEN p ELSE T[k][g[k - 1]]]
               /\ \A k \in 0..n : g[k] \in S[k]
  <2>1. \A k \in 1..n : \A x \in S[k - 1] : T[k][x] \in S[k]
    BY <1>5, <1>6
  <2>2. StepsThrough(n, S, p, T)
    BY <1>2, <1>4, <2>1 DEF StepsThrough
  <2> QED BY <2>2, RecursionOver
<1>8. g = [k \in 0..n |-> IF k = 0 THEN p ELSE close_earliest(g[k - 1], answered)]
  <2>1. \A k \in 1..n : k - 1 \in 0..n /\ g[k - 1] \in S[k - 1]
    BY <1>2, <1>7
  <2>2. \A k \in 0..n : (IF k = 0 THEN p ELSE T[k][g[k - 1]])
                        = (IF k = 0 THEN p ELSE close_earliest(g[k - 1], answered))
    BY <1>2, <1>6, <2>1
  <2> QED BY <1>7, <2>2
<1>9. q = [k \in 0..n |-> IF k = 0 THEN p ELSE close_earliest(q[k - 1], answered)]
  BY <1>8
<1> HIDE DEF q
<1>10. q[0] = p /\ \A k \in 1..n : q[k] = close_earliest(q[k - 1], answered)
  BY <1>2, <1>9
<1>11. \A k \in 0..n : q[k] \in S[k]
  <2>1. q[0] \in S[0]
    BY <1>4, <1>10
  <2>2. \A k \in 1..n : q[k - 1] \in S[k - 1] => q[k] \in S[k]
    BY <1>5, <1>10
  <2> QED BY <1>2, <2>1, <2>2, InductionOver
<1>12. ParserInv(q[n], b, i) /\ Cardinality(q[n].open) = n - n
  BY <1>2, <1>11 DEF S
<1>13. q[n].open = {}
  BY <1>2, <1>3, <1>12, FS_EmptySet
<1> QED BY <1>1, <1>12, <1>13

-----------------------------------------------------------------------------
(* Assistant lines *)

\* The group that an assistant line belongs to, with the output it has so far (-1 if
\* it is a new one).
LEMMA GroupForFacts ==
  ASSUME NEW p, NEW b \in Nat, NEW c \in Nat, b <= c, Typed(p), Earlier(p, b), Unique(p), Grown(p), Covers(p),
         NEW m \in Messages, NEW offset \in Nat, StartsBefore(offset, c)
  PROVE  /\ GroupFor(p, m, offset) \in [id : {m}, offset : Nat, out : Outputs \cup {-1},
                                        best : BOOLEAN, reopened : BOOLEAN]
         /\ StartsBefore(GroupFor(p, m, offset).offset, c)
         /\ \A r \in p.requests : r.id = m => r.out <= GroupFor(p, m, offset).out
         /\ \A h \in p.open : h.id = m => h.out <= GroupFor(p, m, offset).out
         /\ \/ GroupFor(p, m, offset).best
            \/ GroupFor(p, m, offset).out = -1
            \/ Known(p, m, GroupFor(p, m, offset).out)
<1> DEFINE known == WithId(p.open, m)
           past == WithId(ToSet(p.closed), m)
           sent == WithId(p.requests, m)
           Reopen(g) == [id |-> m, offset |-> g.offset, out |-> g.out,
                         best |-> FALSE, reopened |-> TRUE]
           G == GroupFor(p, m, offset)
<1>1. /\ p.open \subseteq Group /\ p.requests \subseteq Request
      /\ \A k \in DOMAIN p.closed : p.closed[k] \in ClosedCall
  BY DEF Typed
<1>2. \A g \in known : g \in p.open /\ g.id = m
  BY DEF WithId
<1>3. \A g \in past : \E k \in DOMAIN p.closed : g = p.closed[k] /\ g.id = m
  BY DEF WithId, ToSet
<1>4. \A g \in sent : g \in p.requests /\ g.id = m
  BY DEF WithId
<1>5. known = {} => \A h \in p.open : h.id # m
  BY DEF WithId
<1>6. \A o, d : StartsBefore(o, b) /\ o \in Nat => StartsBefore(o, c)
  BY DEF StartsBefore
<1>7. CASE known # {}
  <2> DEFINE g == CHOOSE g \in known : TRUE
  <2>1. g \in p.open /\ g.id = m
    BY <1>2, <1>7
  <2>2. G = g
    BY <1>7 DEF GroupFor
  <2> HIDE DEF g, G
  <2>3. g \in Group
    BY <1>1, <2>1
  <2>4. g \in [id : {m}, offset : Nat, out : Outputs \cup {-1}, best : BOOLEAN, reopened : BOOLEAN]
    BY <2>1, <2>3 DEF Group
  <2>5. StartsBefore(g.offset, c)
    BY <1>6, <2>1, <2>3 DEF Earlier, Group
  <2>6. \A r \in p.requests : r.id = m => r.out <= g.out
    BY <2>1 DEF Grown
  <2>7. \A h \in p.open : h.id = m => h.out <= g.out
    <3>1. g.out \in Nat
      BY <2>3, OutputsNat DEF Group
    <3> QED BY <2>1, <3>1 DEF Unique
  <2>8. g.best \/ Known(p, m, g.out)
    BY <2>1 DEF Covers
  <2> QED BY <2>2, <2>4, <2>5, <2>6, <2>7, <2>8 DEF G
<1>8. CASE known = {} /\ past # {}
  <2> DEFINE c0 == CHOOSE g \in past : TRUE
  <2>1. PICK k \in DOMAIN p.closed : c0 = p.closed[k] /\ c0.id = m
    BY <1>3, <1>8
  <2>2. G = Reopen(c0)
    BY <1>8 DEF GroupFor
  <2> HIDE DEF c0
  <2>3. c0 \in ClosedCall
    BY <1>1, <2>1
  <2>4. /\ G.offset = c0.offset /\ G.out = c0.out /\ G.id = m
        /\ G = [id |-> m, offset |-> c0.offset, out |-> c0.out, best |-> FALSE, reopened |-> TRUE]
    BY <2>2
  <2> HIDE DEF G
  <2>5. G \in [id : {m}, offset : Nat, out : Outputs \cup {-1}, best : BOOLEAN, reopened : BOOLEAN]
    BY <2>3, <2>4 DEF ClosedCall
  <2>6. StartsBefore(G.offset, c)
    BY <1>6, <2>1, <2>3, <2>4 DEF Earlier, ClosedCall
  <2>7. \A r \in p.requests : r.id = m => r.out <= G.out
    BY <2>1, <2>4 DEF Grown
  <2>8. Known(p, m, G.out)
    BY <2>1, <2>4 DEF Covers
  <2> QED BY <1>5, <1>8, <2>5, <2>6, <2>7, <2>8 DEF G
<1>9. CASE known = {} /\ past = {} /\ sent # {}
  <2> DEFINE r0 == CHOOSE g \in sent : TRUE
  <2>1. r0 \in p.requests /\ r0.id = m
    BY <1>4, <1>9
  <2>2. G = Reopen(r0)
    BY <1>9 DEF GroupFor
  <2> HIDE DEF r0
  <2>3. r0 \in Request /\ r0.out \in Nat
    BY <1>1, <2>1, OutputsNat DEF Request
  <2>4. /\ G.offset = r0.offset /\ G.out = r0.out /\ G.id = m
        /\ G = [id |-> m, offset |-> r0.offset, out |-> r0.out, best |-> FALSE, reopened |-> TRUE]
    BY <2>2
  <2> HIDE DEF G
  <2>5. G \in [id : {m}, offset : Nat, out : Outputs \cup {-1}, best : BOOLEAN, reopened : BOOLEAN]
    BY <2>3, <2>4 DEF Request
  <2>6. StartsBefore(G.offset, c)
    BY <1>6, <2>1, <2>3, <2>4 DEF Earlier, Request
  <2>7. \A r \in p.requests : r.id = m => r.out <= G.out
    BY <2>1, <2>3, <2>4 DEF Unique
  <2>8. Known(p, m, G.out)
    BY <2>1, <2>3, <2>4 DEF Known, Has
  <2> QED BY <1>5, <1>9, <2>5, <2>6, <2>7, <2>8 DEF G
<1>10. CASE known = {} /\ past = {} /\ sent = {}
  <2>1. G = [id |-> m, offset |-> offset, out |-> -1, best |-> FALSE, reopened |-> FALSE]
    BY <1>10 DEF GroupFor
  <2> HIDE DEF G
  <2>2. G \in [id : {m}, offset : Nat, out : Outputs \cup {-1}, best : BOOLEAN, reopened : BOOLEAN]
    BY <2>1
  <2>3. G.offset = offset /\ G.out = -1
    BY <2>1
  <2>4. \A r \in p.requests : r.id # m
    BY <1>10 DEF WithId
  <2> QED BY <1>5, <1>10, <2>2, <2>3, <2>4 DEF G
<1> QED BY <1>7, <1>8, <1>9, <1>10

\* What [y EXCEPT !.open = u, !.closed = v] is.
LEMMA OpenAndClosed ==
  ASSUME NEW y, Typed(y), NEW u, NEW v
  PROVE  [y EXCEPT !.open = u, !.closed = v] = [open |-> u, closed |-> v, requests |-> y.requests]
<1> DEFINE updated(x) == [x EXCEPT !.open = u, !.closed = v]
           result(x) == [open |-> u, closed |-> v, requests |-> x.requests]
<1>1. ASSUME NEW A, NEW B, NEW C, NEW x \in [open : A, closed : B, requests : C]
      PROVE  updated(x) = result(x)
  <2> DEFINE z == [x EXCEPT !.open = u]
  <2>1. z = [open |-> u, closed |-> x.closed, requests |-> x.requests]
    OBVIOUS
  <2>2. [x EXCEPT !.open = u, !.closed = v] = [z EXCEPT !.closed = v]
    OBVIOUS
  <2>3. z \in [open : {u}, closed : B, requests : C] /\ z.open = u /\ z.requests = x.requests
    BY <2>1
  <2> HIDE DEF z
  <2>4. [z EXCEPT !.closed = v] = [open |-> z.open, closed |-> v, requests |-> z.requests]
    BY <2>3
  <2> QED BY <2>2, <2>3, <2>4
<1>2. y \in [open : SUBSET Group, closed : Seq(ClosedCall), requests : SUBSET Request]
  BY DEF Typed
<1> HIDE DEF updated, result
<1>3. updated(y) = result(y)
  <2> DEFINE A == SUBSET Group
             B == Seq(ClosedCall)
             C == SUBSET Request
  <2>1. y \in [open : A, closed : B, requests : C]
    BY <1>2
  <2> HIDE DEF A, B, C
  <2> QED BY <1>1, <2>1
<1> QED BY <1>3 DEF updated, result

\* An assistant line keeps the parser's invariant, and is read.
LEMMA AssistantKeeps ==
  ASSUME FileOK, delivered \subseteq Records, NEW p, NEW b \in Nat, NEW i \in 1..Len(lines), b <= 2 * i,
         ParserInv(p, b, i - 1), lines[i].type = "assistant"
  PROVE  ParserInv(assistant(p, lines[i], 2 * (i - 1)), 2 * i, i)
<1> DEFINE l == lines[i]
           g == GroupFor(p, l.id, 2 * (i - 1))
           raised == l.out > g.out \/ (l.out = g.out /\ ~g.reopened)
           h == IF raised THEN [g EXCEPT !.out = l.out, !.best = TRUE] ELSE g
           rest == p.open \ WithId(p.open, l.id)
           closed == Forget(p.closed, l.id)
           q == assistant(p, l, 2 * (i - 1))
<1>0. Typed(p) /\ Earlier(p, b) /\ Unique(p) /\ Grown(p) /\ Covers(p) /\ ReadTo(p, i - 1)
  BY DEF ParserInv
<1>1. l.id \in Messages /\ l.out \in Outputs /\ l.out \in Nat
  BY AssistantLine, OutputsNat
<1>2. 2 * i \in Nat /\ 2 * (i - 1) \in Nat /\ StartsBefore(2 * (i - 1), 2 * i)
  BY DEF StartsBefore
<1>3. /\ g \in [id : {l.id}, offset : Nat, out : Outputs \cup {-1}, best : BOOLEAN, reopened : BOOLEAN]
      /\ StartsBefore(g.offset, 2 * i)
      /\ \A r \in p.requests : r.id = l.id => r.out <= g.out
      /\ \A x \in p.open : x.id = l.id => x.out <= g.out
      /\ g.best \/ g.out = -1 \/ Known(p, l.id, g.out)
  <2> HIDE DEF l
  <2> QED BY <1>0, <1>1, <1>2, GroupForFacts
<1>4. q = [open |-> rest \cup {h}, closed |-> closed, requests |-> p.requests]
  <2>1. q = [p EXCEPT !.open = rest \cup {h}, !.closed = closed]
    BY DEF assistant
  <2> HIDE DEF q, rest, h, closed
  <2> QED BY <1>0, <2>1, OpenAndClosed
<1> HIDE DEF g, l
<1>20. g.id = l.id /\ g.offset \in Nat /\ g.reopened \in BOOLEAN /\ g.out \in Int
  <2>1. g.id = l.id /\ g.offset \in Nat /\ g.reopened \in BOOLEAN /\ g.out \in Outputs \cup {-1}
    BY <1>3
  <2>2. Outputs \cup {-1} \subseteq Int
    BY OutputsNat
  <2> QED BY <2>1, <2>2
<1>5. /\ h \in Group /\ h.id = l.id /\ h.offset = g.offset
      /\ h.out >= g.out /\ h.out >= l.out /\ h.out \in Nat
      /\ h.best \/ Known(p, l.id, h.out)
  <2>1. CASE raised
    <3>1. h = [id |-> g.id, offset |-> g.offset, out |-> l.out, best |-> TRUE, reopened |-> g.reopened]
      BY <1>3, <2>1
    <3> HIDE DEF h
    <3>2. l.out >= g.out
      BY <1>1, <1>20, <2>1
    <3> QED BY <1>1, <1>20, <3>1, <3>2 DEF Group
  <2>2. CASE ~raised
    <3>1. h = g /\ g.out \in Int /\ ~(l.out > g.out)
      BY <1>3, <2>2, OutputsNat
    <3>2. g.out >= l.out /\ g.out # -1
      BY <1>1, <3>1
    <3>3. g.out \in Outputs
      BY <1>3, <3>2
    <3> HIDE DEF h
    <3>4. g.id = l.id /\ g \in Group
      BY <1>1, <1>3, <3>3 DEF Group
    <3> QED BY <1>1, <1>3, <3>1, <3>2, <3>3, <3>4, OutputsNat
  <2> QED BY <2>1, <2>2
<1>6. /\ closed \in Seq(ClosedCall) /\ Len(closed) <= Len(p.closed) /\ OneEach(closed)
      /\ \A k \in DOMAIN closed : closed[k].id # l.id /\ \E j \in DOMAIN p.closed : closed[k] = p.closed[j]
  BY <1>0, ForgetFacts DEF Typed, Unique
<1>7. \A x \in rest : x \in p.open /\ x.id # l.id
  BY DEF WithId
<1>8. \A x \in p.open : x.id # l.id => x \in rest
  BY DEF WithId
<1> HIDE DEF h, rest, closed, q, raised
<1>9. q.open = rest \cup {h} /\ q.closed = closed /\ q.requests = p.requests
  BY <1>4
<1>10. p.open \subseteq Group /\ p.requests \subseteq Request /\ IsFiniteSet(p.open)
       /\ Len(p.closed) <= ClosedWindow /\ p.closed \in Seq(ClosedCall)
  BY <1>0 DEF Typed
<1>11. Typed(q)
  <2>1. IsFiniteSet(rest \cup {h})
    <3>1. rest \subseteq p.open
      BY <1>7
    <3> QED BY <1>10, <3>1, FS_Subset, FS_AddElement
  <2>2. Len(closed) <= ClosedWindow
    <3>1. Len(closed) \in Nat /\ Len(p.closed) \in Nat /\ ClosedWindow \in Nat
      BY <1>6, <1>10, WindowsAssumption
    <3> QED BY <1>6, <1>10, <3>1
  <2>3. rest \cup {h} \subseteq Group
    BY <1>5, <1>7, <1>10
  <2> QED BY <1>4, <1>6, <1>9, <1>10, <2>1, <2>2, <2>3 DEF Typed
<1>12. \A o \in Nat : StartsBefore(o, b) => StartsBefore(o, 2 * i)
  BY DEF StartsBefore
<1>13. Earlier(q, 2 * i)
  <2>1. \A x \in rest \cup {h} : StartsBefore(x.offset, 2 * i)
    BY <1>0, <1>3, <1>5, <1>7, <1>10, <1>12 DEF Earlier, Group
  <2>2. \A k \in DOMAIN closed : StartsBefore(closed[k].offset, 2 * i)
    <3>1. \A j \in DOMAIN p.closed : p.closed[j].offset \in Nat
      <4>1. \A j \in DOMAIN p.closed : p.closed[j] \in ClosedCall
        BY <1>10
      <4> QED BY <4>1 DEF ClosedCall
    <3> QED BY <1>0, <1>6, <1>12, <3>1 DEF Earlier
  <2>3. \A r \in p.requests : StartsBefore(r.offset, 2 * i)
    BY <1>0, <1>10, <1>12 DEF Earlier, Request
  <2> QED BY <1>9, <2>1, <2>2, <2>3 DEF Earlier
<1>14. Unique(q)
  <2>1. \A x, y \in rest \cup {h} : x.id = y.id => x = y
    BY <1>0, <1>5, <1>7 DEF Unique
  <2> QED BY <1>0, <1>6, <1>9, <2>1 DEF Unique
<1>15. Grown(q)
  <2>1. ASSUME NEW r \in p.requests, r.id = l.id PROVE r.out <= h.out
    <3>1. r.out \in Nat /\ r.out <= g.out
      BY <1>3, <1>10, <2>1, OutputsNat DEF Request
    <3> QED BY <1>5, <1>20, <3>1
  <2> QED BY <1>0, <1>5, <1>6, <1>7, <1>9, <2>1 DEF Grown
<1>16. \A m, o : Known(q, m, o) <=> Known(p, m, o)
  BY <1>9 DEF Known
<1>17. Covers(q)
  BY <1>0, <1>5, <1>6, <1>7, <1>9, <1>16 DEF Covers
<1>18. ReadTo(q, i)
  <2> SUFFICES ASSUME NEW j \in 1..i, Complete(j), lines[j].type = "assistant"
               PROVE  \/ Known(p, lines[j].id, lines[j].out)
                      \/ \E x \in rest \cup {h} : x.id = lines[j].id /\ x.out >= lines[j].out
    BY <1>9, <1>16 DEF ReadTo
  <2>1. CASE j = i
    BY <1>5, <2>1 DEF l
  <2>2. CASE j # i
    <3>1. j \in 1..(i - 1)
      BY <2>2
    <3>2. \/ Known(p, lines[j].id, lines[j].out)
          \/ \E x \in p.open : x.id = lines[j].id /\ x.out >= lines[j].out
      BY <1>0, <3>1 DEF ReadTo
    <3>3. lines[j].out \in Nat
      <4>1. j \in 1..Len(lines)
        BY DEF FileOK
      <4> QED BY <4>1, AssistantLine, OutputsNat
    <3>4. ASSUME NEW x \in p.open, x.id = lines[j].id, x.out >= lines[j].out
          PROVE  \E y \in rest \cup {h} : y.id = lines[j].id /\ y.out >= lines[j].out
      <4>1. CASE x.id = l.id
        <5>1. x.out <= g.out /\ x.out \in Nat
          BY <1>3, <1>10, <4>1, OutputsNat DEF Group
        <5>2. h.out >= lines[j].out /\ h.id = lines[j].id
          BY <1>5, <1>20, <3>3, <3>4, <4>1, <5>1
        <5> QED BY <5>2
      <4>2. CASE x.id # l.id
        BY <1>8, <3>4, <4>2
      <4> QED BY <4>1, <4>2
    <3> QED BY <3>2, <3>4
  <2> QED BY <2>1, <2>2
<1> QED BY <1>11, <1>13, <1>14, <1>15, <1>17, <1>18 DEF ParserInv, q, l

-----------------------------------------------------------------------------
(* A pass of the parser *)

\* A line that asks for nothing: it is not an assistant line, it is not written to its
\* end, or its call was sent.
LEMMA SkippedLine ==
  ASSUME FileOK, NEW p, NEW b \in Nat, NEW i \in 1..Len(lines), b <= 2 * i, ParserInv(p, b, i - 1),
         Complete(i) => HasLine(Current(delivered), i)
  PROVE  ParserInv(p, 2 * i, i)
<1>1. i \in Nat
  OBVIOUS
<1>2. \A o \in Nat : StartsBefore(o, b) => StartsBefore(o, 2 * i)
  BY <1>1 DEF StartsBefore
<1>3. Earlier(p, 2 * i)
  <2>1. /\ \A g \in p.open : g.offset \in Nat
        /\ \A r \in p.requests : r.offset \in Nat
    BY DEF ParserInv, Typed, Group, Request
  <2>2. \A k \in DOMAIN p.closed : p.closed[k] \in ClosedCall
    BY DEF ParserInv, Typed
  <2>3. \A k \in DOMAIN p.closed : p.closed[k].offset \in Nat
    BY <2>2 DEF ClosedCall
  <2> QED BY <1>2, <2>1, <2>3 DEF ParserInv, Earlier
<1>4. ReadTo(p, i)
  <2> SUFFICES ASSUME NEW j \in 1..i, Complete(j), lines[j].type = "assistant"
               PROVE  \/ Known(p, lines[j].id, lines[j].out)
                      \/ \E g \in p.open : g.id = lines[j].id /\ g.out >= lines[j].out
    BY DEF ReadTo
  <2>1. CASE j = i
    BY <2>1 DEF HasLine, Known
  <2>2. CASE j # i
    <3>1. j \in 1..(i - 1)
      BY <2>2
    <3> QED BY <3>1 DEF ParserInv, ReadTo
  <2> QED BY <2>1, <2>2
<1> QED BY <1>3, <1>4 DEF ParserInv

\* Where a pass may start: the closed window was sent, as were the lines before.
BaseOK(start, closed) ==
  /\ start \in Nat /\ closed \in Seq(ClosedCall) /\ Len(closed) <= ClosedWindow /\ OneEach(closed)
  /\ \A k \in DOMAIN closed : StartsBefore(closed[k].offset, start)
  /\ \A k \in DOMAIN closed : Has(Current(delivered), closed[k].id, closed[k].out)
  /\ \A j \in 1..Len(lines) : 2 * (j - 1) < start => HasLine(Current(delivered), j)

\* The bound of the offsets after line i of a pass that starts at start.
Bound(start, i) == IF 2 * i <= start THEN start ELSE 2 * i

\* One line of a pass keeps the parser's invariant.
LEMMA LineKeeps ==
  ASSUME FileOK, delivered \subseteq Records, NEW start, NEW closed, BaseOK(start, closed),
         NEW p, NEW i \in 1..Len(lines), start < 2 * i, ParserInv(p, Bound(start, i - 1), i - 1)
  PROVE  ParserInv(line(p, Raw(i, start), 2 * (i - 1)), 2 * i, i)
<1> DEFINE l == Raw(i, start)
           q == line(p, l, 2 * (i - 1))
<1>1. start \in Nat /\ i \in Nat
  BY DEF BaseOK
<1>2. Bound(start, i - 1) \in Nat /\ Bound(start, i - 1) <= 2 * i
  BY <1>1 DEF Bound
<1>3. CASE l = Junk
  <2>1. q = p
    BY <1>3 DEF line, Junk
  <2>2. Complete(i) => HasLine(Current(delivered), i)
    <3>1. CASE 2 * (i - 1) < start
      BY <3>1 DEF BaseOK
    <3>2. CASE half /\ i = Len(lines)
      BY <3>2 DEF Complete
    <3>3. CASE lines[i] = Junk
      BY <3>3 DEF HasLine, Junk
    <3> QED BY <1>3, <3>1, <3>2, <3>3 DEF Raw
  <2> QED BY <1>2, <2>1, <2>2, SkippedLine
<1>4. CASE l = lines[i]
  <2>1. lines[i] \in Lines
    BY DEF FileOK
  <2>2. CASE lines[i].type = "assistant"
    <3>1. q = assistant(p, lines[i], 2 * (i - 1))
      BY <1>4, <2>2 DEF line
    <3> QED BY <1>2, <2>2, <3>1, AssistantKeeps
  <2>3. CASE lines[i].type # "assistant"
    <3>1. lines[i] \in Closing \cup {Junk}
      BY <2>1, <2>3 DEF Lines, Assistant
    <3>2. ParserInv(p, 2 * i, i)
      <4>1. HasLine(Current(delivered), i)
        BY <2>3 DEF HasLine
      <4> QED BY <1>2, <4>1, SkippedLine
    <3>3. CASE lines[i] = Junk
      BY <1>3, <1>4, <3>3
    <3>4. CASE lines[i].type \in {"user", "other"}
      <4>1. PICK answered \in BOOLEAN : q = close_groups(p, answered)
        <5>1. CASE lines[i].type = "user"
          BY <1>4, <5>1 DEF line
        <5>2. CASE lines[i].type = "other"
          BY <1>4, <5>2 DEF line
        <5> QED BY <3>4, <5>1, <5>2
      <4>2. i \in 0..Len(lines)
        OBVIOUS
      <4>3. ParserInv(close_groups(p, answered), 2 * i, i)
        BY <3>2, <4>2, CloseAll
      <4> QED BY <4>1, <4>3
    <3> QED BY <3>1, <3>3, <3>4, WindowsAssumption DEF Closing
  <2> QED BY <2>2, <2>3
<1>5. l = Junk \/ l = lines[i]
  BY DEF Raw
<1> QED BY <1>3, <1>4, <1>5

\* The parser's invariant holds after a pass.
LEMMA PassInv ==
  ASSUME FileOK, delivered \subseteq Records, NEW start, NEW closed, BaseOK(start, closed),
         NEW upto \in Nat
  PROVE  LET hi == Least((upto + 1) \div 2, Len(lines))
         IN /\ hi \in 0..Len(lines)
            /\ ParserInv(Parsed(start, closed, upto), Bound(start, hi), hi)
<1> DEFINE n == Len(lines)
           hi == Least((upto + 1) \div 2, n)
           base == [open |-> {}, closed |-> closed, requests |-> {}]
           S == [k \in 0..n |-> {x \in ParserStates : ParserInv(x, Bound(start, k), k)}]
           T == [k \in 1..n |-> [x \in S[k - 1] |->
                   IF 2 * k <= start THEN base ELSE line(x, Raw(k, start), 2 * (k - 1))]]
           p == CHOOSE p : p = [i \in 0..n |-> IF 2 * i <= start THEN base
                                               ELSE line(p[i - 1], Raw(i, start), 2 * (i - 1))]
<1>1. n \in Nat /\ start \in Nat
  BY DEF FileOK, BaseOK
<1>2. Parsed(start, closed, upto) = p[hi]
  BY DEF Parsed
<1>3. hi \in 0..n
  BY <1>1 DEF Least
<1>4. \A x, b, k : ParserInv(x, b, k) => x \in ParserStates
  BY DEF ParserInv, Typed, ParserStates
<1>5. ASSUME NEW k \in 0..n, 2 * k <= start PROVE base \in S[k]
  <2>1. Typed(base)
    BY FS_EmptySet DEF Typed, BaseOK
  <2>2. Earlier(base, start) /\ Unique(base) /\ Grown(base)
    BY DEF Earlier, Unique, Grown, BaseOK
  <2>3. Covers(base)
    BY DEF Covers, Known, BaseOK
  <2>4. ReadTo(base, k)
    <3> SUFFICES ASSUME NEW j \in 1..k, lines[j].type = "assistant"
                 PROVE  Known(base, lines[j].id, lines[j].out)
      BY DEF ReadTo
    <3>1. j \in 1..Len(lines) /\ 2 * (j - 1) < start
      BY <1>1, <1>5
    <3>2. HasLine(Current(delivered), j)
      BY <3>1 DEF BaseOK
    <3> QED BY <3>2 DEF HasLine, Known
  <2>5. Bound(start, k) = start
    BY <1>5 DEF Bound
  <2> HIDE DEF base
  <2>6. ParserInv(base, Bound(start, k), k)
    BY <2>1, <2>2, <2>3, <2>4, <2>5 DEF ParserInv
  <2> QED BY <1>4, <2>6
<1>6. ASSUME NEW k \in 1..n, NEW x \in S[k - 1]
      PROVE  (IF 2 * k <= start THEN base ELSE line(x, Raw(k, start), 2 * (k - 1))) \in S[k]
  <2>1. k - 1 \in 0..n /\ k \in 0..n
    BY <1>1
  <2>2. CASE 2 * k <= start
    BY <1>5, <2>1, <2>2
  <2>3. CASE ~(2 * k <= start)
    <3>1. ParserInv(x, Bound(start, k - 1), k - 1)
      BY <2>1
    <3>2. start < 2 * k /\ Bound(start, k) = 2 * k
      BY <1>1, <2>3 DEF Bound
    <3>3. ParserInv(line(x, Raw(k, start), 2 * (k - 1)), Bound(start, k), k)
      BY <3>1, <3>2, LineKeeps
    <3> QED BY <1>4, <2>1, <2>3, <3>3
  <2> QED BY <2>2, <2>3
<1>7. \A k \in 1..n : \A x \in S[k - 1] :
        T[k][x] = IF 2 * k <= start THEN base ELSE line(x, Raw(k, start), 2 * (k - 1))
  OBVIOUS
<1>8. base \in S[0]
  <2>1. 0 \in 0..n /\ 2 * 0 <= start
    BY <1>1
  <2> HIDE DEF S, base
  <2> QED BY <1>5, <2>1
<1>9. \A k \in 0..n : \A x \in S[k] : ParserInv(x, Bound(start, k), k)
  OBVIOUS
<1> HIDE DEF S, T, base, n, hi
<1>10. PICK g : /\ g = [k \in 0..n |-> IF k = 0 THEN base ELSE T[k][g[k - 1]]]
                /\ \A k \in 0..n : g[k] \in S[k]
  <2>1. \A k \in 1..n : \A x \in S[k - 1] : T[k][x] \in S[k]
    BY <1>6, <1>7
  <2>2. StepsThrough(n, S, base, T)
    BY <1>1, <1>8, <2>1 DEF StepsThrough
  <2> QED BY <2>2, RecursionOver
<1>11. g = [k \in 0..n |-> IF 2 * k <= start THEN base
                           ELSE line(g[k - 1], Raw(k, start), 2 * (k - 1))]
  <2>1. \A k \in 1..n : k - 1 \in 0..n /\ g[k - 1] \in S[k - 1]
    BY <1>1, <1>10
  <2>2. \A k \in 0..n : (IF k = 0 THEN base ELSE T[k][g[k - 1]])
          = (IF 2 * k <= start THEN base ELSE line(g[k - 1], Raw(k, start), 2 * (k - 1)))
    BY <1>1, <1>7, <2>1
  <2> QED BY <1>10, <2>2
<1>12. p = [i \in 0..n |-> IF 2 * i <= start THEN base
                           ELSE line(p[i - 1], Raw(i, start), 2 * (i - 1))]
  BY <1>11
<1> HIDE DEF p
<1>13. p[0] = base /\ \A k \in 1..n : p[k] = IF 2 * k <= start THEN base
                                       ELSE line(p[k - 1], Raw(k, start), 2 * (k - 1))
  BY <1>1, <1>12
<1>14. \A k \in 0..n : p[k] \in S[k]
  <2>1. p[0] \in S[0]
    BY <1>8, <1>13
  <2>2. \A k \in 1..n : p[k - 1] \in S[k - 1] => p[k] \in S[k]
    BY <1>6, <1>13
  <2> QED BY <1>1, <2>1, <2>2, InductionOver
<1>15. ParserInv(p[hi], Bound(start, hi), hi)
  BY <1>3, <1>9, <1>14
<1> QED BY <1>2, <1>3, <1>15 DEF hi, n

-----------------------------------------------------------------------------
(* What a run reads *)

\* A read up to offset to: its closed window and the lines before the offset are
\* requests of the read, or were sent.
ReadOK(read, to) ==
  /\ read.closed \in Seq(ClosedCall) /\ Len(read.closed) <= ClosedWindow /\ OneEach(read.closed)
  /\ read.requests \subseteq Request
  /\ \A k \in DOMAIN read.closed : StartsBefore(read.closed[k].offset, to)
  /\ \A k \in DOMAIN read.closed : Known(read, read.closed[k].id, read.closed[k].out)
  /\ \A j \in 1..Len(lines) : 2 * (j - 1) < to /\ lines[j].type = "assistant" =>
       Known(read, lines[j].id, lines[j].out)

\* Offset to may be saved after a pass up to upto: the lines in between are complete,
\* or half a line without a call, or there are none.
MayPass(start, upto, to) ==
  /\ upto \in Nat /\ to \in Nat /\ start <= to /\ to <= Size
  /\ \/ upto = to /\ (to % 2 = 1 => lines[(to + 1) \div 2] = Junk)
     \/ to = start /\ upto <= to

LEMMA PassReads ==
  ASSUME FileOK, delivered \subseteq Records, NEW start, NEW closed, BaseOK(start, closed),
         NEW upto, NEW to, MayPass(start, upto, to)
  PROVE  /\ ReadOK(close_groups(Parsed(start, closed, upto), FALSE), to)
         /\ \A g \in Parsed(start, closed, upto).open : g.offset \in Nat /\ StartsBefore(g.offset, to)
<1> DEFINE n == Len(lines)
           hi == Least((upto + 1) \div 2, n)
           first == Parsed(start, closed, upto)
           read == close_groups(first, FALSE)
<1>1. n \in Nat /\ start \in Nat /\ upto \in Nat /\ to \in Nat /\ start <= to /\ to <= Size
      /\ upto <= to
  BY DEF FileOK, BaseOK, MayPass
<1>2. Size <= 2 * n
  BY <1>1 DEF Size
<1>3. hi \in 0..n /\ 2 * hi <= upto + 1
  BY <1>1, <1>2 DEF Least
<1>4. ParserInv(first, Bound(start, hi), hi)
  BY <1>1, PassInv
<1> HIDE DEF first
<1>5. ParserInv(read, Bound(start, hi), hi) /\ read.open = {}
  BY <1>3, <1>4, CloseAll
<1>6. \A o \in Nat : StartsBefore(o, Bound(start, hi)) => StartsBefore(o, to)
  BY <1>1, <1>3 DEF StartsBefore, Bound
<1>7. /\ \A k \in DOMAIN read.closed : read.closed[k].offset \in Nat
      /\ \A g \in first.open : g.offset \in Nat
  <2>1. \A k \in DOMAIN read.closed : read.closed[k] \in ClosedCall
    <3>1. read.closed \in Seq(ClosedCall)
      BY <1>5 DEF ParserInv, Typed
    <3> HIDE DEF read
    <3> QED BY <3>1
  <2>2. \A g \in first.open : g \in Group
    BY <1>4 DEF ParserInv, Typed
  <2> QED BY <2>1, <2>2 DEF ClosedCall, Group
<1> HIDE DEF hi, read, n
<1>8. \A j \in 1..Len(lines) : 2 * (j - 1) < to /\ lines[j].type = "assistant" =>
        Known(read, lines[j].id, lines[j].out)
  <2> SUFFICES ASSUME NEW j \in 1..Len(lines), 2 * (j - 1) < to, lines[j].type = "assistant"
               PROVE  Known(read, lines[j].id, lines[j].out)
    OBVIOUS
  <2>1. CASE 2 * (j - 1) < start
    <3>1. HasLine(Current(delivered), j)
      BY <2>1 DEF BaseOK
    <3> QED BY <3>1 DEF HasLine, Known
  <2>2. CASE ~(2 * (j - 1) < start)
    <3>1. upto = to /\ (to % 2 = 1 => lines[(to + 1) \div 2] = Junk)
      BY <1>1, <2>2 DEF MayPass
    <3>2. 2 * j <= to
      <4> SUFFICES ASSUME 2 * j > to PROVE FALSE
        BY <1>1
      <4>1. to % 2 = 1 /\ (to + 1) \div 2 = j
        BY <1>1
      <4> QED BY <3>1, <4>1 DEF Junk
    <3>3. j \in 1..hi
      BY <1>1, <3>1, <3>2 DEF hi, Least, n
    <3>4. Complete(j)
      BY <1>1, <3>2 DEF Complete, Size
    <3> QED BY <1>5, <3>3, <3>4 DEF ParserInv, ReadTo
  <2> QED BY <2>1, <2>2
<1>9. ReadOK(read, to)
  <2>1. Typed(read) /\ Earlier(read, Bound(start, hi)) /\ Unique(read) /\ Covers(read)
    BY <1>5 DEF ParserInv
  <2>2. /\ read.closed \in Seq(ClosedCall) /\ Len(read.closed) <= ClosedWindow
        /\ OneEach(read.closed) /\ read.requests \subseteq Request
    BY <2>1 DEF Typed, Unique
  <2>3. \A k \in DOMAIN read.closed : StartsBefore(read.closed[k].offset, to)
    BY <1>6, <1>7, <2>1 DEF Earlier
  <2>4. \A k \in DOMAIN read.closed : Known(read, read.closed[k].id, read.closed[k].out)
    BY <2>1 DEF Covers
  <2> QED BY <1>8, <2>2, <2>3, <2>4 DEF ReadOK
<1>10. \A g \in first.open : g.offset \in Nat /\ StartsBefore(g.offset, to)
  BY <1>4, <1>6, <1>7 DEF ParserInv, Earlier
<1> QED BY <1>9, <1>10 DEF read, first

\* What _collect_file reads, and the offset it saves.
LEMMA CollectReads ==
  ASSUME FileOK, delivered \subseteq Records, NEW base, BaseOK(base.offset, base.closed),
         NEW size \in Nat, base.offset <= size, size <= Size, NEW quiescent \in BOOLEAN,
         quiescent /\ size % 2 = 1 => lines[(size + 1) \div 2] = Junk
  PROVE  /\ Collect(base, size, quiescent).offset \in Nat
         /\ Collect(base, size, quiescent).offset <= size
         /\ ReadOK(Collect(base, size, quiescent).read, Collect(base, size, quiescent).offset)
<1> DEFINE start == base.offset
           whole == 2 * (size \div 2)
           upto == IF quiescent THEN size ELSE whole
           first == Parsed(start, base.closed, upto)
           marks == IF quiescent THEN {}
                    ELSE {g.offset : g \in first.open} \cup
                         (IF whole < size /\ start < size THEN {whole} ELSE {})
           resume == CHOOSE m \in marks : \A k \in marks : m <= k
           c == Collect(base, size, quiescent)
<1> SUFFICES c.offset \in Nat /\ c.offset <= size /\ ReadOK(c.read, c.offset)
  OBVIOUS
<1>1. /\ start \in Nat /\ whole \in Nat /\ whole <= size /\ size <= whole + 1 /\ whole % 2 = 0
      /\ upto \in Nat /\ upto <= size /\ start <= size
  BY DEF BaseOK
<1>2. Size \in Nat
  BY DEF FileOK, Size
<1>3. CASE marks = {}
  <2>1. c = [offset |-> size, read |-> close_groups(first, FALSE)]
    BY <1>3 DEF Collect
  <2>2. MayPass(start, upto, size)
    <3>1. CASE quiescent
      BY <1>1, <3>1 DEF MayPass
    <3>2. CASE ~quiescent
      <4>1. ~(whole < size /\ start < size)
        BY <1>3, <3>2
      <4> HIDE DEF whole, start
      <4>2. upto = whole
        BY <3>2
      <4> HIDE DEF upto
      <4>3. (upto = size /\ size % 2 = 0) \/ (size = start /\ upto <= size)
        BY <1>1, <4>1, <4>2
      <4> QED BY <1>1, <4>3 DEF MayPass
    <3> QED BY <3>1, <3>2
  <2>3. ReadOK(close_groups(first, FALSE), size)
    <3> HIDE DEF upto
    <3> QED BY <2>2, PassReads
  <2> HIDE DEF c, first
  <2>4. c.offset = size /\ c.read = close_groups(first, FALSE)
    BY <2>1
  <2>5. ReadOK(c.read, c.offset)
    BY <2>3, <2>4
  <2>6. c.offset \in Nat /\ c.offset <= size
    BY <2>4
  <2> QED BY <2>5, <2>6
<1>4. CASE marks # {} /\ resume <= start
  <2>1. c = [offset |-> start, read |-> [closed |-> base.closed, requests |-> {}]]
    BY <1>4 DEF Collect
  <2>2. c.offset = start /\ c.read.closed = base.closed /\ c.read.requests = {}
    BY <2>1
  <2> HIDE DEF c
  <2>3. ReadOK(c.read, start)
    BY <2>2 DEF ReadOK, BaseOK, Known, HasLine
  <2> QED BY <1>1, <2>2, <2>3
<1>5. CASE marks # {} /\ ~(resume <= start)
  <2>1. c = [offset |-> resume,
             read |-> close_groups(Parsed(start, base.closed, resume), FALSE)]
    BY <1>5 DEF Collect
  <2>2. ~quiescent /\ upto = whole
    BY <1>5
  <2>3. \A g \in first.open : g.offset \in Nat /\ g.offset % 2 = 0 /\ g.offset <= size
    <3>1. CASE start <= whole
      <4>1. MayPass(start, upto, whole)
        BY <1>1, <1>2, <2>2, <3>1 DEF MayPass
      <4>2. \A g \in first.open : g.offset \in Nat /\ StartsBefore(g.offset, whole)
        <5> HIDE DEF upto, whole
        <5> QED BY <4>1, PassReads
      <4> HIDE DEF first, whole
      <4> QED BY <1>1, <4>2 DEF StartsBefore
    <3>2. CASE ~(start <= whole)
      <4>1. MayPass(start, upto, start)
        BY <1>1, <1>2, <2>2, <3>2 DEF MayPass
      <4>2. \A g \in first.open : g.offset \in Nat /\ StartsBefore(g.offset, start)
        <5> HIDE DEF upto
        <5> QED BY <4>1, PassReads
      <4> HIDE DEF first
      <4> QED BY <1>1, <4>2 DEF StartsBefore
    <3> QED BY <3>1, <3>2
  <2> HIDE DEF first
  <2>4. \A m \in marks : m \in Nat /\ m % 2 = 0 /\ m <= size
    <3> SUFFICES ASSUME NEW m \in marks PROVE m \in Nat /\ m % 2 = 0 /\ m <= size
      OBVIOUS
    <3>1. m \in {g.offset : g \in first.open} \/ m = whole
      BY <2>2
    <3> HIDE DEF whole, marks
    <3> QED BY <1>1, <2>3, <3>1
  <2> HIDE DEF marks
  <2>5. resume \in marks
    <3>1. marks \subseteq Nat
      BY <2>4
    <3>2. \E m \in marks : \A k \in marks : m <= k
      BY <1>5, <3>1, LeastNat
    <3> QED BY <3>2
  <2>6. resume \in Nat /\ resume % 2 = 0 /\ resume <= size
    BY <2>4, <2>5
  <2>7. ~(resume <= start)
    BY <1>5
  <2> HIDE DEF resume, start
  <2>8. MayPass(start, resume, resume)
    BY <1>1, <1>2, <2>6, <2>7 DEF MayPass
  <2>9. ReadOK(close_groups(Parsed(start, base.closed, resume), FALSE), resume)
    BY <2>8, PassReads DEF start
  <2> HIDE DEF c
  <2> QED BY <2>1, <2>6, <2>9
<1> QED BY <1>3, <1>4, <1>5

-----------------------------------------------------------------------------
(* Cursors and steps *)

\* What a cursor says stays true while the file stays as it is.
LEMMA SameFile ==
  ASSUME file' = file, present' = present, lines' = lines, half' = half
  PROVE  /\ \A c : CursorOK(c) => CursorOK(c)'
         /\ \A c, R : CursorSafe(c, R) => CursorSafe(c, R)'
<1>1. \A c : CursorOK(c) => CursorOK(c)'
  BY DEF CursorOK
<1>2. \A c, R : CursorSafe(c, R) => CursorSafe(c, R)'
  BY DEF CursorSafe, Size, HasLine, Has, Current
<1> QED BY <1>1, <1>2

\* It stays true when the file grows, and when there are more records.
LEMMA GrownFile ==
  ASSUME FileOK, FileOK', file' = file, present' = present, Len(lines) <= Len(lines'), Size <= Size',
         \A i \in 1..Len(lines) : lines'[i] = lines[i]
  PROVE  /\ \A c : CursorOK(c) => CursorOK(c)'
         /\ \A c, R : CursorOK(c) /\ CursorSafe(c, R) => CursorSafe(c, R)'
<1>1. \A c : CursorOK(c) => CursorOK(c)'
  BY DEF CursorOK
<1>2. ASSUME NEW c, NEW R, CursorOK(c), CursorSafe(c, R) PROVE CursorSafe(c, R)'
  <2> SUFFICES ASSUME c.mtime = file' PROVE CursorSafe(c, R)'
    BY DEF CursorSafe
  <2>1. Len(lines) \in Nat /\ Len(lines') \in Nat /\ Size \in Int /\ Size' \in Int /\ Size <= 2 * Len(lines)
    BY DEF FileOK, Size
  <2>2. /\ c.size <= Size
        /\ \A k \in DOMAIN c.closed : Has(Current(R), c.closed[k].id, c.closed[k].out)
        /\ \A i \in 1..Len(lines) : 2 * (i - 1) < c.offset => HasLine(Current(R), i)
    BY <1>2 DEF CursorSafe
  <2>3. c.offset \in Nat /\ c.size \in Nat /\ c.offset <= c.size
    BY <1>2 DEF CursorOK
  <2>4. c.size <= Size'
    BY <2>1, <2>2, <2>3
  <2>5. Current(R)' = Current(R)
    BY DEF Current
  <2>6. \A k \in DOMAIN c.closed : Has(Current(R), c.closed[k].id, c.closed[k].out)'
    BY <2>2, <2>5 DEF Has
  <2>7. ASSUME NEW i \in 1..Len(lines'), 2 * (i - 1) < c.offset PROVE HasLine(Current(R), i)'
    <3>1. i \in 1..Len(lines)
      BY <2>1, <2>2, <2>3, <2>7
    <3> QED BY <2>2, <2>5, <2>7, <3>1 DEF HasLine, Has
  <2> QED BY <2>4, <2>6, <2>7 DEF CursorSafe
<1> QED BY <1>1, <1>2

LEMMA MoreRecords == \A c, R, Q : CursorSafe(c, R) /\ R \subseteq Q => CursorSafe(c, Q)
BY DEF CursorSafe, HasLine, Has, Current

\* Claude Code's steps.
LEMMA FileSteps ==
  ASSUME Inv, AppendLine \/ EndLine \/ Delete \/ Create
  PROVE  Inv'
<1>0. FileOK /\ SavedOK /\ JobOK /\ delivered \subseteq Records /\ faults \in 0..MaxFaults
  BY DEF Inv
<1>10. saved' = saved /\ job' = job /\ delivered' = delivered /\ faults' = faults
  BY DEF AppendLine, EndLine, Delete, Create
<1>11. delivered' \subseteq Records' /\ faults' \in 0..MaxFaults
  BY <1>0, <1>10 DEF Records
<1>12. Len(lines) \in Nat /\ Len(MaxLines) \in Nat /\ Size \in Int /\ file \in Nat
  BY <1>0, WindowsAssumption DEF FileOK, Size
<1>1. CASE AppendLine \/ EndLine
  <2>1. /\ FileOK' /\ file' = file /\ present' = present /\ present
        /\ Len(lines) <= Len(lines') /\ Size <= Size'
        /\ \A i \in 1..Len(lines) : lines'[i] = lines[i]
    <3>1. CASE AppendLine
      <4>1. PICK l \in Lines, h \in BOOLEAN : lines' = Append(lines, l) /\ half' = h
        BY <3>1 DEF AppendLine
      <4>2. /\ lines \in Seq(Lines) /\ file' = file /\ present' = present /\ present /\ ~half
            /\ Len(lines) < MaxLines[file] /\ MaxLines[file] \in Nat
        BY <1>0, <3>1, WindowsAssumption DEF AppendLine, FileOK
      <4>3. /\ lines' \in Seq(Lines) /\ Len(lines') = Len(lines) + 1
            /\ \A i \in 1..Len(lines) : lines'[i] = lines[i]
        BY <4>1, <4>2
      <4>4. Size <= Size'
        BY <1>12, <4>1, <4>2, <4>3 DEF Size
      <4>5. FileOK'
        <5>1. lines' # <<>> /\ Len(lines') <= MaxLines[file]
          BY <1>12, <4>2, <4>3
        <5> QED BY <1>0, <4>1, <4>2, <4>3, <5>1 DEF FileOK
      <4> QED BY <1>12, <4>2, <4>3, <4>4, <4>5
    <3>2. CASE EndLine
      <4>1. half /\ half' = FALSE /\ file' = file /\ present' = present /\ lines' = lines
        BY <3>2 DEF EndLine
      <4>2. present
        BY <1>0, <4>1 DEF FileOK
      <4>3. Size <= Size'
        BY <1>12, <4>1 DEF Size
      <4>4. FileOK'
        BY <1>0, <4>1 DEF FileOK
      <4> QED BY <1>12, <4>1, <4>2, <4>3, <4>4
    <3> QED BY <1>1, <3>1, <3>2
  <2>2. /\ \A c : CursorOK(c) => CursorOK(c)'
        /\ \A c, R : CursorOK(c) /\ CursorSafe(c, R) => CursorSafe(c, R)'
    BY <1>0, <2>1, GrownFile
  <2>3. SavedOK'
    BY <1>0, <1>10, <2>2 DEF SavedOK
  <2>4. CASE job = Idle
    <3>1. JobOK'
      BY <1>10, <2>4 DEF JobOK, Idle
    <3> QED BY <1>11, <2>1, <2>3, <3>1 DEF Inv
  <2>5. CASE StatOK
    <3>1. /\ job.size \in Nat /\ job.mtime = file /\ job.size <= Size
          /\ job.quiescent /\ job.size % 2 = 1 => lines[(job.size + 1) \div 2] = Junk
      BY <2>1, <2>5 DEF StatOK
    <3>2. job.size <= Size' /\ Size' \in Int
      BY <1>12, <2>1, <3>1 DEF FileOK, Size
    <3>3. (job.quiescent /\ job.size % 2 = 1) => lines'[(job.size + 1) \div 2] = Junk
      <4>1. job.size % 2 = 1 => (job.size + 1) \div 2 \in 1..Len(lines)
        BY <1>12, <3>1 DEF Size
      <4> QED BY <2>1, <3>1, <4>1
    <3>4. StatOK'
      BY <1>10, <2>1, <2>5, <3>1, <3>2, <3>3 DEF StatOK, Junk
    <3> QED BY <1>11, <2>1, <2>3, <3>4 DEF Inv, JobOK
  <2>6. CASE ParsedOK
    <3>1. ParsedOK'
      BY <1>10, <2>2, <2>6 DEF ParsedOK, Records
    <3> QED BY <1>11, <2>1, <2>3, <3>1 DEF Inv, JobOK
  <2> QED BY <1>0, <2>4, <2>5, <2>6 DEF JobOK
<1>2. CASE Delete
  <2>1. /\ file' = file + 1 /\ present' = FALSE /\ lines' = <<>> /\ half' = FALSE
        /\ file < Len(MaxLines)
    BY <1>2 DEF Delete
  <2>2. FileOK'
    <3>1. file' \in 1..Len(MaxLines) /\ MaxLines[file'] \in Nat
      BY <1>12, <2>1, WindowsAssumption
    <3>2. <<>> \in Seq(Lines) /\ Len(<<>>) = 0
      OBVIOUS
    <3>3. lines' \in Seq(Lines) /\ Len(lines') = 0
      BY <2>1, <3>2
    <3>4. Len(lines') <= MaxLines[file']
      BY <3>1, <3>3
    <3>5. present' \in BOOLEAN /\ half' \in BOOLEAN /\ (~present' => lines' = <<>>)
          /\ (half' => lines' # <<>>)
      BY <2>1
    <3> QED BY <3>1, <3>3, <3>4, <3>5 DEF FileOK
  <2>3. \A c : CursorOK(c) => CursorOK(c)'
    BY <1>12, <2>1 DEF CursorOK
  <2>4. \A c, R : CursorOK(c) => CursorSafe(c, R)'
    BY <1>12, <2>1 DEF CursorOK, CursorSafe
  <2>5. SavedOK'
    BY <1>0, <1>10, <2>3, <2>4 DEF SavedOK
  <2>6. JobOK'
    <3>1. CASE job = Idle
      BY <1>10, <3>1 DEF JobOK, Idle
    <3>2. CASE StatOK
      BY <1>10, <1>12, <2>1, <3>2 DEF JobOK, StatOK
    <3>3. CASE ParsedOK
      BY <1>10, <2>3, <2>4, <3>3 DEF JobOK, ParsedOK, Records
    <3> QED BY <1>0, <3>1, <3>2, <3>3 DEF JobOK
  <2> QED BY <1>11, <2>2, <2>5, <2>6 DEF Inv
<1>3. CASE Create
  <2>1. /\ ~present /\ present' = TRUE /\ file' = file /\ lines' = lines /\ half' = half
        /\ job = Idle
    BY <1>3 DEF Create
  <2>2. FileOK'
    BY <1>0, <2>1 DEF FileOK
  <2>3. \A c : CursorOK(c) => CursorOK(c)'
    BY <2>1 DEF CursorOK
  <2>4. \A c, R : CursorSafe(c, R) => CursorSafe(c, R)'
    BY <2>1 DEF CursorSafe, Size, HasLine, Has, Current
  <2>5. SavedOK'
    BY <1>0, <1>10, <2>3, <2>4 DEF SavedOK
  <2>6. JobOK'
    BY <1>10, <2>1 DEF JobOK, Idle
  <2> QED BY <1>11, <2>2, <2>5, <2>6 DEF Inv
<1> QED BY <1>1, <1>2, <1>3

\* A cursor that is not rotated is of the file that has the name now, or it is at the
\* start of an empty one.
LEMMA NotRotated ==
  ASSUME FileOK, NEW c, CursorOK(c), NEW size \in Nat, size <= Size, ~Rotated(c, size)
  PROVE  c.offset <= size /\ (c.mtime = file \/ (c.size = 0 /\ c.offset = 0))
<1> DEFINE m == Least(Least(HeadBytes, c.size), Size)
<1>1. c.offset \in Nat /\ c.size \in Nat /\ c.offset <= c.size /\ c.mtime \in 1..file
      /\ c.head.file = IF c.size = 0 THEN 0 ELSE c.mtime
  BY DEF CursorOK
<1>2. c.offset <= size /\ HeadSha(c.size) = c.head
  BY <1>1 DEF Rotated
<1>3. HeadSha(c.size).file = IF m = 0 THEN 0 ELSE file
  BY DEF HeadSha
<1> HIDE DEF m
<1>4. CASE c.size = 0
  BY <1>1, <1>2, <1>4
<1>5. CASE c.size # 0
  <2>1. c.mtime = IF m = 0 THEN 0 ELSE file
    BY <1>1, <1>2, <1>3, <1>5
  <2>2. c.mtime # 0
    BY <1>1 DEF FileOK
  <2> QED BY <1>2, <2>1, <2>2
<1> QED BY <1>4, <1>5

\* Where a run starts to read, everything before was sent.
LEMMA BaseFacts ==
  ASSUME FileOK, SavedOK, StatOK, present
  PROVE  /\ BaseOK(Base(job.cur, job.size).offset, Base(job.cur, job.size).closed)
         /\ Base(job.cur, job.size).offset <= job.size
<1> DEFINE cur == job.cur
           size == job.size
           B == Base(cur, size)
<1>1. size \in Nat /\ size <= Size /\ cur \in {saved, NoCursor}
  BY DEF StatOK
<1>2. CASE cur = NoCursor \/ Rotated(cur, size)
  <2>1. B = [offset |-> 0, closed |-> <<>>]
    BY <1>2 DEF Base
  <2>2. <<>> \in Seq(ClosedCall) /\ Len(<<>>) = 0 /\ DOMAIN <<>> = {}
    OBVIOUS
  <2>3. BaseOK(0, <<>>)
    <3>1. Len(<<>>) <= ClosedWindow
      BY <2>2, WindowsAssumption
    <3>2. \A j \in 1..Len(lines) : ~(2 * (j - 1) < 0)
      BY DEF FileOK
    <3> QED BY <2>2, <3>1, <3>2 DEF BaseOK, OneEach
  <2> QED BY <1>1, <2>1, <2>3
<1>3. CASE cur # NoCursor /\ ~Rotated(cur, size)
  <2>1. B = [offset |-> cur.offset, closed |-> cur.closed]
    BY <1>3 DEF Base
  <2>2. CursorOK(cur) /\ CursorSafe(cur, delivered)
    <3>1. cur = saved
      BY <1>1, <1>3
    <3> QED BY <1>3, <3>1 DEF SavedOK
  <2>3. cur.offset <= size /\ (cur.mtime = file \/ (cur.size = 0 /\ cur.offset = 0))
    <3> HIDE DEF cur, size
    <3> QED BY <1>1, <1>3, <2>2, NotRotated
  <2> HIDE DEF cur, size
  <2>4. /\ cur.offset \in Nat /\ cur.closed \in Seq(ClosedCall) /\ Len(cur.closed) <= ClosedWindow
        /\ OneEach(cur.closed)
        /\ \A k \in DOMAIN cur.closed : StartsBefore(cur.closed[k].offset, cur.offset)
    BY <2>2 DEF CursorOK
  <2>5. /\ \A k \in DOMAIN cur.closed :
             Has(Current(delivered), cur.closed[k].id, cur.closed[k].out)
        /\ \A j \in 1..Len(lines) : 2 * (j - 1) < cur.offset => HasLine(Current(delivered), j)
    <3>1. CASE cur.mtime = file
      BY <2>2, <3>1 DEF CursorSafe
    <3>2. CASE cur.offset = 0
      <4>1. \A k \in DOMAIN cur.closed : cur.closed[k] \in ClosedCall
        BY <2>4
      <4>2. DOMAIN cur.closed = {}
        BY <2>4, <3>2, <4>1 DEF StartsBefore, ClosedCall
      <4>3. \A j \in 1..Len(lines) : ~(2 * (j - 1) < cur.offset)
        BY <3>2 DEF FileOK
      <4> QED BY <4>2, <4>3
    <3> QED BY <2>3, <3>1, <3>2
  <2>6. BaseOK(cur.offset, cur.closed)
    BY <2>4, <2>5 DEF BaseOK
  <2>7. B.offset = cur.offset /\ B.closed = cur.closed
    BY <2>1
  <2> HIDE DEF B
  <2>8. BaseOK(B.offset, B.closed) /\ B.offset <= size
    BY <2>3, <2>6, <2>7
  <2> QED BY <2>8 DEF B, cur, size
<1> QED BY <1>2, <1>3

\* The parser passes of a run: what it will save is covered by what it will write.
LEMMA ParseStep ==
  ASSUME Inv, Parse
  PROVE  JobOK'
<1>0. FileOK /\ SavedOK /\ JobOK /\ delivered \subseteq Records
  BY DEF Inv
<1>1. job.stage = "stat" /\ present
  BY DEF Parse
<1>2. StatOK
  BY <1>0, <1>1 DEF JobOK, Idle, ParsedOK
<1> DEFINE base == Base(job.cur, job.size)
           c == Collect(base, job.size, job.quiescent)
           requests == {[file |-> file, id |-> r.id, out |-> r.out, mso |-> r.mso] : r \in c.read.requests}
           cursor == [offset |-> c.offset, head |-> HeadSha(job.size), size |-> job.size,
                      mtime |-> job.mtime, closed |-> c.read.closed]
<1>3. job' = [stage |-> "parsed", quiescent |-> job.quiescent, requests |-> requests, cursor |-> cursor]
  BY DEF Parse
<1>4. UNCHANGED fileVars /\ delivered' = delivered /\ saved' = saved
  BY DEF Parse
<1>5. /\ job.size \in Nat /\ job.quiescent \in BOOLEAN /\ job.mtime = file
      /\ job.size <= 2 * MaxLines[file] /\ job.size <= Size
      /\ job.quiescent /\ job.size % 2 = 1 => lines[(job.size + 1) \div 2] = Junk
  BY <1>1, <1>2 DEF StatOK
<1>6. c.offset \in Nat /\ c.offset <= job.size /\ ReadOK(c.read, c.offset)
  <2>1. BaseOK(base.offset, base.closed) /\ base.offset <= job.size
    BY <1>0, <1>1, <1>2, BaseFacts
  <2> HIDE DEF base
  <2> QED BY <1>0, <1>5, <2>1, CollectReads
<1> HIDE DEF c
<1>7. requests \subseteq Records
  <2>1. c.read.requests \subseteq Request
    BY <1>6 DEF ReadOK
  <2>2. file \in 1..Len(MaxLines)
    BY <1>0 DEF FileOK
  <2> QED BY <2>1, <2>2 DEF Request, Records
<1>8. \A m, o : Known(c.read, m, o) => Has(Current(delivered \cup requests), m, o)
  <2> SUFFICES ASSUME NEW m, NEW o, Known(c.read, m, o)
               PROVE  Has(Current(delivered \cup requests), m, o)
    OBVIOUS
  <2>1. CASE Has(Current(delivered), m, o)
    BY <2>1 DEF Has, Current
  <2>2. CASE Has(c.read.requests, m, o)
    <3>1. PICK r \in c.read.requests : r.id = m /\ r.out >= o
      BY <2>2 DEF Has
    <3> DEFINE d == [file |-> file, id |-> r.id, out |-> r.out, mso |-> r.mso]
    <3>2. d \in requests /\ d.file = file /\ d.id = m /\ d.out >= o
      BY <3>1
    <3> HIDE DEF d, requests
    <3> QED BY <3>2 DEF Has, Current
  <2> QED BY <2>1, <2>2 DEF Known
<1> HIDE DEF requests
<1>9. /\ cursor.offset = c.offset /\ cursor.size = job.size /\ cursor.mtime = file
      /\ cursor.closed = c.read.closed /\ cursor.head = HeadSha(job.size)
  BY <1>5
<1>10. /\ HeadSha(job.size) \in [file : Nat, n : 0..HeadBytes]
       /\ HeadSha(job.size).file = IF job.size = 0 THEN 0 ELSE file
  <2> DEFINE m == Least(Least(HeadBytes, job.size), Size)
  <2>1. HeadBytes \in Nat /\ HeadBytes # 0 /\ Size \in Int /\ file \in Nat
    BY <1>0, WindowsAssumption DEF FileOK, Size
  <2>2. m \in 0..HeadBytes /\ (m = 0 <=> job.size = 0)
    BY <1>5, <2>1 DEF Least
  <2>3. HeadSha(job.size) = [file |-> IF m = 0 THEN 0 ELSE file, n |-> m]
    BY DEF HeadSha
  <2> HIDE DEF m
  <2> QED BY <2>1, <2>2, <2>3
<1>11. CursorOK(cursor)
  <2>1. cursor \in [offset : Nat, head : [file : Nat, n : 0..HeadBytes], size : Nat, mtime : Nat,
                    closed : Seq(ClosedCall)]
    BY <1>0, <1>5, <1>6, <1>10 DEF FileOK, ReadOK
  <2>2. /\ Len(cursor.closed) <= ClosedWindow /\ OneEach(cursor.closed)
        /\ \A k \in DOMAIN cursor.closed : StartsBefore(cursor.closed[k].offset, cursor.offset)
    BY <1>6, <1>9 DEF ReadOK
  <2>3. cursor.mtime \in 1..file /\ cursor.size <= 2 * MaxLines[cursor.mtime]
    BY <1>0, <1>5, <1>9 DEF FileOK
  <2> HIDE DEF cursor
  <2> QED BY <1>1, <1>6, <1>9, <1>10, <2>1, <2>2, <2>3 DEF CursorOK
<1>12. CursorSafe(cursor, delivered \cup requests)
  <2> HIDE DEF cursor
  <2>1. \A k \in DOMAIN cursor.closed :
          Has(Current(delivered \cup requests), cursor.closed[k].id, cursor.closed[k].out)
    BY <1>6, <1>8, <1>9 DEF ReadOK
  <2>2. \A j \in 1..Len(lines) : 2 * (j - 1) < cursor.offset =>
          HasLine(Current(delivered \cup requests), j)
    BY <1>6, <1>8, <1>9 DEF ReadOK, HasLine
  <2> QED BY <1>5, <1>9, <2>1, <2>2 DEF CursorSafe
<1> HIDE DEF cursor
<1>13. /\ job'.stage = "parsed" /\ job'.requests = requests /\ job'.cursor = cursor
       /\ job' \in [stage : {"parsed", "written"}, quiescent : BOOLEAN, requests : SUBSET Records,
                    cursor : {cursor}]
  BY <1>3, <1>5, <1>7
<1>14. CursorOK(job.cursor)' /\ CursorSafe(job.cursor, delivered \cup job.requests)'
  <2>1. /\ \A d : CursorOK(d) => CursorOK(d)'
        /\ \A d, R : CursorSafe(d, R) => CursorSafe(d, R)'
    BY <1>4, SameFile DEF fileVars
  <2> QED BY <1>4, <1>11, <1>12, <1>13, <2>1
<1>15. ParsedOK'
  BY <1>13, <1>14 DEF ParsedOK, Records
<1> QED BY <1>15 DEF JobOK

\* The steps of a run, and what may happen to it.
LEMMA RunSteps ==
  ASSUME Inv, Stat \/ SkipUnchanged \/ Parse \/ SkipFile \/ Prune \/ WriteTrace \/ SaveState \/ Crash
  PROVE  Inv'
<1>0. FileOK /\ SavedOK /\ JobOK /\ delivered \subseteq Records /\ faults \in 0..MaxFaults
  BY DEF Inv
<1>1. UNCHANGED fileVars
  BY DEF vars, Stat, SkipUnchanged, Parse, SkipFile, Prune, WriteTrace, SaveState, Crash
<1>2. FileOK'
  BY <1>0, <1>1 DEF FileOK, fileVars
<1>3. /\ \A c : CursorOK(c) => CursorOK(c)'
      /\ \A c, R : CursorSafe(c, R) => CursorSafe(c, R)'
  BY <1>1, SameFile DEF fileVars
<1>4. MaxFaults \in Nat /\ faults \in Nat
  BY <1>0, WindowsAssumption
<1>5. CASE Stat
  <2>1. PICK quiescent \in BOOLEAN, cur \in {saved, NoCursor} :
          /\ quiescent => MayBeQuiescent
          /\ cur # saved => faults < MaxFaults
          /\ faults' = IF cur # saved THEN faults + 1 ELSE faults
          /\ job' = [stage |-> "stat", cur |-> cur, size |-> Size, mtime |-> file,
                     quiescent |-> quiescent]
    BY <1>5 DEF Stat
  <2>2. present /\ saved' = saved /\ delivered' = delivered
    BY <1>5 DEF Stat
  <2>3. faults' \in 0..MaxFaults
    BY <1>0, <1>4, <2>1
  <2>4. Size \in Nat /\ Size <= 2 * MaxLines[file] /\ Size' = Size /\ file' = file /\ file \in 1..file
    BY <1>0, <1>1, WindowsAssumption DEF FileOK, Size, fileVars
  <2>5. quiescent /\ Size % 2 = 1 => lines[(Size + 1) \div 2] = Junk
    <3> SUFFICES ASSUME quiescent, Size % 2 = 1 PROVE lines[(Size + 1) \div 2] = Junk
      OBVIOUS
    <3>1. half /\ (Size + 1) \div 2 = Len(lines)
      BY <1>0 DEF FileOK, Size
    <3> QED BY <2>1, <3>1 DEF MayBeQuiescent
  <2>6. StatOK'
    <3>1. /\ job'.size = Size /\ job'.mtime = file /\ job'.quiescent = quiescent
          /\ job' \in [stage : {"stat"}, cur : {saved, NoCursor}, size : Nat, mtime : 1..file,
                       quiescent : BOOLEAN]
      BY <2>1, <2>4
    <3>2. lines' = lines
      BY <1>1 DEF fileVars
    <3> QED BY <2>2, <2>4, <2>5, <3>1, <3>2 DEF StatOK, Junk
  <2>7. SavedOK'
    BY <1>0, <1>3, <2>2 DEF SavedOK
  <2> QED BY <1>0, <1>2, <2>2, <2>3, <2>6, <2>7 DEF Inv, JobOK, Records
<1>6. CASE SkipUnchanged
  <2>1. /\ file' = file /\ present' = present /\ lines' = lines /\ half' = half
        /\ saved' = saved /\ job' = job /\ delivered' = delivered /\ faults' = faults
    BY <1>6 DEF SkipUnchanged, vars, fileVars
  <2>2. SavedOK'
    BY <1>0, <1>3, <2>1 DEF SavedOK
  <2>3. JobOK'
    <3>1. CASE job = Idle
      BY <2>1, <3>1 DEF JobOK, Idle
    <3>2. CASE job # Idle
      BY <1>6, <3>2 DEF SkipUnchanged
    <3> QED BY <3>1, <3>2
  <2> QED BY <1>0, <1>2, <2>1, <2>2, <2>3 DEF Inv, Records
<1>7. CASE Parse
  <2>1. saved' = saved /\ delivered' = delivered /\ faults' = faults
    BY <1>7 DEF Parse
  <2>2. SavedOK'
    BY <1>0, <1>3, <2>1 DEF SavedOK
  <2>3. JobOK'
    BY <1>7, ParseStep
  <2> QED BY <1>0, <1>2, <2>1, <2>2, <2>3 DEF Inv, Records
<1>8. CASE SkipFile \/ Crash
  <2>1. saved' = saved /\ delivered' = delivered /\ job' = Idle /\ faults' \in 0..MaxFaults
    BY <1>0, <1>4, <1>8 DEF SkipFile, Crash
  <2>2. SavedOK'
    BY <1>0, <1>3, <2>1 DEF SavedOK
  <2>3. JobOK'
    BY <2>1 DEF JobOK, Idle
  <2> QED BY <1>0, <1>2, <2>1, <2>2, <2>3 DEF Inv, Records
<1>9. CASE Prune
  <2>1. saved' = NoCursor /\ delivered' = delivered /\ job' = job /\ job = Idle /\ faults' = faults
    BY <1>9 DEF Prune
  <2>2. SavedOK' /\ JobOK'
    BY <2>1 DEF SavedOK, JobOK, Idle
  <2> QED BY <1>0, <1>2, <2>1, <2>2 DEF Inv, Records
<1>10. CASE WriteTrace
  <2>1. /\ job.stage = "parsed" /\ delivered' = delivered \cup job.requests /\ saved' = saved
        /\ job' = [job EXCEPT !.stage = "written"] /\ faults' = faults
    BY <1>10 DEF WriteTrace
  <2>2. ParsedOK
    BY <1>0, <2>1 DEF JobOK, Idle, StatOK
  <2>3. job.requests \subseteq Records /\ CursorOK(job.cursor)
        /\ CursorSafe(job.cursor, delivered \cup job.requests)
    BY <2>2 DEF ParsedOK
  <2>4. /\ job'.stage = "written" /\ job'.requests = job.requests /\ job'.cursor = job.cursor
        /\ job' \in [stage : {"parsed", "written"}, quiescent : BOOLEAN, requests : SUBSET Records,
                     cursor : {job.cursor}]
    BY <2>1, <2>2 DEF ParsedOK
  <2>5. delivered' \cup job'.requests = delivered \cup job.requests
    BY <2>1, <2>4
  <2>6. CursorOK(job.cursor)' /\ CursorSafe(job.cursor, delivered \cup job.requests)'
    BY <1>3, <2>3, <2>4, <2>5
  <2>7. ParsedOK'
    BY <2>1, <2>4, <2>6 DEF ParsedOK, Records
  <2>8. SavedOK'
    <3>1. \A c : CursorSafe(c, delivered) => CursorSafe(c, delivered')
      BY <2>1, MoreRecords
    <3> QED BY <1>0, <1>3, <2>1, <3>1 DEF SavedOK
  <2>9. delivered' \subseteq Records'
    BY <1>0, <2>1, <2>3 DEF Records
  <2> QED BY <1>0, <1>2, <2>1, <2>7, <2>8, <2>9 DEF Inv, JobOK
<1>11. CASE SaveState
  <2>1. /\ job.stage = "written" /\ delivered' = delivered /\ saved' = job.cursor
        /\ job' = Idle /\ faults' = faults
    BY <1>11 DEF SaveState
  <2>2. ParsedOK
    BY <1>0, <2>1 DEF JobOK, Idle, StatOK
  <2>3. CursorOK(job.cursor) /\ CursorSafe(job.cursor, delivered)
    <3>1. delivered \cup job.requests = delivered
      BY <2>1, <2>2 DEF ParsedOK
    <3> QED BY <2>2, <3>1 DEF ParsedOK
  <2>4. SavedOK'
    BY <1>3, <2>1, <2>3 DEF SavedOK
  <2>5. JobOK'
    BY <2>1 DEF JobOK, Idle
  <2> QED BY <1>0, <1>2, <2>1, <2>4, <2>5 DEF Inv, Records
<1> QED BY <1>5, <1>6, <1>7, <1>8, <1>9, <1>10, <1>11

LEMMA Preserved == Inv /\ [Next]_vars => Inv'
<1> SUFFICES ASSUME Inv, [Next]_vars PROVE Inv'
  OBVIOUS
<1>1. CASE Next
  BY <1>1, FileSteps, RunSteps DEF Next
<1>2. CASE UNCHANGED vars
  <2>1. /\ file' = file /\ present' = present /\ lines' = lines /\ half' = half
        /\ saved' = saved /\ job' = job /\ delivered' = delivered /\ faults' = faults
    BY <1>2 DEF vars, fileVars
  <2>2. FileOK'
    BY <2>1 DEF Inv, FileOK
  <2>3. /\ \A c : CursorOK(c) => CursorOK(c)'
        /\ \A c, R : CursorSafe(c, R) => CursorSafe(c, R)'
    BY <2>1, SameFile
  <2>4. SavedOK'
    BY <2>1, <2>3 DEF Inv, SavedOK
  <2>5. JobOK'
    <3>1. CASE job = Idle
      BY <2>1, <3>1 DEF JobOK, Idle
    <3>2. CASE StatOK
      BY <2>1, <3>2 DEF JobOK, StatOK, Size, Junk
    <3>3. CASE ParsedOK
      BY <2>1, <2>3, <3>3 DEF JobOK, ParsedOK, Records
    <3> QED BY <3>1, <3>2, <3>3 DEF Inv, JobOK
  <2> QED BY <2>1, <2>2, <2>4, <2>5 DEF Inv, Records
<1> QED BY <1>1, <1>2

LEMMA Starts == Init => Inv
<1> SUFFICES ASSUME Init PROVE Inv
  OBVIOUS
<1>1. Len(MaxLines) \in Nat /\ Len(MaxLines) # 0 /\ MaxFaults \in Nat
  BY WindowsAssumption
<1>2. 1 \in 1..Len(MaxLines) /\ MaxLines[1] \in Nat
  BY <1>1, WindowsAssumption
<1>3. <<>> \in Seq(Lines) /\ Len(<<>>) = 0
  OBVIOUS
<1>4. FileOK
  <2>1. lines \in Seq(Lines) /\ Len(lines) <= MaxLines[file] /\ file \in 1..Len(MaxLines)
    BY <1>2, <1>3 DEF Init
  <2> QED BY <2>1 DEF Init, FileOK
<1>5. SavedOK /\ JobOK /\ delivered \subseteq Records
  BY DEF Init, SavedOK, JobOK
<1>6. faults \in 0..MaxFaults
  BY <1>1 DEF Init
<1> QED BY <1>4, <1>5, <1>6 DEF Inv

\* At every step of a run (stat, parse, write, save, crash) and of Claude Code, the saved
\* cursor and the one a run is about to save are behind what was delivered, for the file
\* that has the name now.
THEOREM Invariance == Spec => []Inv
BY Starts, Preserved, PTL DEF Spec

-----------------------------------------------------------------------------
(* The theorems *)

\* An offset within one of the files is in Offsets.
LEMMA OffsetsBound ==
  \A f \in 1..Len(MaxLines) : \A o \in Nat : o <= 2 * MaxLines[f] => o \in Offsets
<1> DEFINE sizes == ToSet(MaxLines)
           R == {w \in sizes \X sizes : w[1] >= w[2]}
<1>1. MaxLines \in Seq(Nat) /\ MaxLines # <<>>
  BY WindowsAssumption
<1>2. /\ \A f \in 1..Len(MaxLines) : MaxLines[f] \in sizes
      /\ \A x \in sizes : x \in Nat
      /\ Len(MaxLines) \in Nat /\ Len(MaxLines) # 0
  BY <1>1 DEF ToSet
<1>3. sizes # {}
  BY <1>2
<1>4. IsFiniteSet(sizes)
  <2>1. IsFiniteSet(1..Len(MaxLines))
    BY <1>2, FS_Interval
  <2>2. MaxLines \in Surjection(1..Len(MaxLines), sizes)
    <3>1. DOMAIN MaxLines = 1..Len(MaxLines) /\ MaxLines \in [1..Len(MaxLines) -> sizes]
      BY <1>1, <1>2
    <3>2. \A x \in sizes : \E f \in 1..Len(MaxLines) : MaxLines[f] = x
      BY <3>1 DEF ToSet
    <3> HIDE DEF sizes
    <3> QED BY <3>1, <3>2 DEF Surjection
  <2> HIDE DEF sizes
  <2> QED BY <2>1, <2>2, FS_Surjection
<1> HIDE DEF sizes
<1>5. /\ \A x, y \in sizes : <<x, y>> \in R \/ <<y, x>> \in R
      /\ \A x, y, z \in sizes : <<x, y>> \in R /\ <<y, z>> \in R => <<x, z>> \in R
      /\ \A x, y \in sizes : <<x, y>> \in R => x >= y
  BY <1>2
<1> HIDE DEF R
<1>6. \E x \in sizes : \A y \in sizes : x >= y
  BY <1>3, <1>4, <1>5, GreatestOf
<1>7. Max(sizes) \in sizes /\ \A y \in sizes : Max(sizes) >= y
  BY <1>6 DEF Max
<1> QED BY <1>2, <1>7 DEF Offsets, sizes

LEMMA CursorTypes ==
  ASSUME FileOK, NEW c, CursorOK(c)
  PROVE  IsCursor(c)
<1>1. /\ c.offset \in Nat /\ c.size \in Nat /\ c.offset <= c.size /\ c.mtime \in 1..file
      /\ c.size <= 2 * MaxLines[c.mtime] /\ c.head.n \in 0..HeadBytes
      /\ c.head.file = IF c.size = 0 THEN 0 ELSE c.mtime
      /\ c.closed \in Seq(ClosedCall) /\ Len(c.closed) <= ClosedWindow
      /\ \A k \in DOMAIN c.closed : StartsBefore(c.closed[k].offset, c.offset)
  BY DEF CursorOK
<1>2. file \in 1..Len(MaxLines) /\ Len(MaxLines) \in Nat
  BY WindowsAssumption DEF FileOK
<1>3. c.mtime \in 1..Len(MaxLines) /\ MaxLines[c.mtime] \in Nat
  <2>1. c.mtime \in 1..Len(MaxLines)
    BY <1>1, <1>2
  <2> QED BY <2>1, WindowsAssumption
<1>4. \A o \in Nat : o <= c.size => o \in Offsets
  BY <1>1, <1>3, OffsetsBound
<1>5. ASSUME NEW k \in 1..Len(c.closed)
      PROVE  c.closed[k] \in [id : Messages, offset : Offsets, out : Outputs]
  <2>1. k \in DOMAIN c.closed /\ c.closed[k] \in ClosedCall
    BY <1>1
  <2>2. c.closed[k].offset \in Offsets
    BY <1>1, <1>4, <2>1 DEF StartsBefore, ClosedCall
  <2> QED BY <2>1, <2>2 DEF ClosedCall
<1> QED BY <1>1, <1>2, <1>3, <1>4, <1>5 DEF IsCursor

\* The types of the state, and the bound of the window of closed calls in the state
\* file (remember_closed), for every transcript and every window.
THEOREM TypeCorrectness == Spec => []TypeOK
<1>1. Inv => TypeOK
  <2> SUFFICES ASSUME Inv PROVE TypeOK
    OBVIOUS
  <2>0. FileOK /\ SavedOK /\ JobOK /\ delivered \subseteq Records /\ faults \in 0..MaxFaults
    BY DEF Inv
  <2>1. \A c : CursorOK(c) => IsCursor(c)
    BY <2>0, CursorTypes
  <2>2. /\ file \in 1..Len(MaxLines) /\ present \in BOOLEAN /\ half \in BOOLEAN
        /\ Len(lines) <= MaxLines[file] /\ \A i \in 1..Len(lines) : lines[i] \in Lines
    BY <2>0 DEF FileOK
  <2>3. saved = NoCursor \/ IsCursor(saved)
    BY <2>0, <2>1 DEF SavedOK
  <2>4. /\ job.stage \in {"idle", "stat", "parsed", "written"}
        /\ job.stage = "stat" => job.cur = NoCursor \/ IsCursor(job.cur)
        /\ job.stage \in {"parsed", "written"} =>
             IsCursor(job.cursor) /\ job.requests \subseteq Records
    <3>1. CASE job = Idle
      BY <3>1 DEF Idle
    <3>2. CASE StatOK
      BY <2>3, <3>2 DEF StatOK
    <3>3. CASE ParsedOK
      BY <2>1, <3>3 DEF ParsedOK
    <3> QED BY <2>0, <3>1, <3>2, <3>3 DEF JobOK
  <2> QED BY <2>0, <2>2, <2>3, <2>4 DEF TypeOK
<1> QED BY <1>1, Invariance, PTL

\* While the next run would resume at the saved offset, every call with a line before
\* it was written with at least the line's output: whatever the transcript holds, in
\* whatever half lines it grew, and wherever runs died.
THEOREM NeverSkips == Spec => []NothingSkipped
<1>1. Inv => NothingSkipped
  <2> SUFFICES ASSUME Inv, present, saved # NoCursor, ~Rotated(saved, Size),
                      NEW i \in 1..(saved.offset \div 2)
               PROVE  Sent(i)
    BY DEF NothingSkipped
  <2>1. FileOK /\ CursorOK(saved) /\ CursorSafe(saved, delivered)
    BY DEF Inv, SavedOK
  <2>2. Size \in Nat /\ Size <= 2 * Len(lines) /\ Len(lines) \in Nat
    BY <2>1 DEF FileOK, Size
  <2>3. saved.offset \in Nat /\ saved.size \in Nat /\ saved.offset <= saved.size
    BY <2>1 DEF CursorOK
  <2>4. saved.mtime = file \/ saved.offset = 0
    BY <2>1, <2>2, NotRotated
  <2>5. saved.mtime = file /\ 2 * i <= saved.offset
    BY <2>3, <2>4
  <2>6. saved.size <= Size
    BY <2>1, <2>5 DEF CursorSafe
  <2>7. i \in 1..Len(lines) /\ 2 * (i - 1) < saved.offset
    BY <2>2, <2>3, <2>5, <2>6
  <2>8. HasLine(Current(delivered), i)
    BY <2>1, <2>5, <2>7 DEF CursorSafe
  <2> QED BY <2>8 DEF Sent, HasLine, Has, Current
<1> QED BY <1>1, Invariance, PTL
=============================================================================
