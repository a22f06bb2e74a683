--------------------------- MODULE StopGraphProofs ---------------------------
(***************************************************************************)
(* Proofs about StopGraph, for every finite set of units and every         *)
(* dependency graph.                                                       *)
(*                                                                         *)
(* pending_counts is a number, and what it counts is spread over the       *)
(* parents lists of the children and over the calls of                     *)
(* on_stop_chain_finished that still walk such a list.  Outstanding(p) is  *)
(* that sum; the counts are shown to be backed by it.                      *)
(*                                                                         *)
(* The second half is about requests that come one after the other: then   *)
(* the counts are exact, and StopGraph implements OrderedStop.             *)
(***************************************************************************)
EXTENDS StopGraph, JobOpsProofs

(* Sums of a natural-valued f over a finite set S, as the size of a set    *)
(* that has f[x] elements for each x.                                      *)
Pairs(S, f) == UNION {{<< x, i >> : i \in 1 .. f[x]} : x \in S}

Total(S, f) == Cardinality(Pairs(S, f))

Frames(w) == {w[h] : h \in 1 .. Len(w)}

Event ==
    [op : {"begin"}, unit : Unit, job : JobId \cup {NoJob}]
      \cup [op : {"gc"}, units : SUBSET Unit]

Frame ==
    Event
      \cup [op : {"chains", "collect"}, units : SUBSET Unit]
      \cup [op : {"start", "finished"}, unit : Unit]
      \cup [op : {"credit"}, unit : Unit, owed : [Unit -> Nat]]
      \cup [op : {"trees"}, unit : Unit, units : SUBSET Unit]

(* The credits for p that are still to be given, ...                       *)
CreditOf(f, p) == IF f.op = "credit" THEN f.owed[p] ELSE 0

(* ... by the calls on the stack ...                                       *)
CreditSum(w, p) == Total(1 .. Len(w), [h \in 1 .. Len(w) |-> CreditOf(w[h], p)])

(* ... and by children that are not down yet.                              *)
Outstanding(p) == Total(Unit, [c \in Unit |-> owed[c][p]]) + CreditSum(work, p)

(* A chain of u is parked, or about to start or to end.                    *)
Drives(f, u) ==
    \/ f.op \in {"start", "finished"} /\ f.unit = u
    \/ f.op = "chains" /\ u \in f.units

Parked(u) == \E ph \in Phase : parked[u][ph] > 0

Busy(u) == Parked(u) \/ \E f \in Frames(work) : Drives(f, u)

(* The calls of begin_stop_tree that are to come.                          *)
Begins == {f \in Frames(work) \cup Frames(queue) : f.op = "begin"}

(* Somebody will finish job id.                                            *)
JobHeld(id) ==
    \/ \E u \in DOMAIN rootJobs : rootJobs[u] = id
    \/ \E f \in Begins : f.job = id

Shape == TypeOK /\ work \in Seq(Frame) /\ queue \in Seq(Event)

Domains == DOMAIN counts = active /\ DOMAIN rootJobs \subseteq active

OwedByActive ==
    \A c, p \in Unit : owed[c][p] > 0 => c \in active /\ c \in Dependents(p)

CountsBacked == \A p \in active : counts[p] <= Outstanding(p)

ActiveMoves == \A u \in active : counts[u] > 0 \/ Busy(u)

OnlyStops == Sound(reg) /\ \A id \in Installed(reg) : reg.jobs[id].kind = "Stop"

ClientsHeld ==
    \A c \in Waiter :
        asked[c] # NoUnit /\ c \notin answered =>
            \E id \in On(reg, c) : JobHeld(id)

GraphInv == Domains /\ OwedByActive /\ CountsBacked /\ ActiveMoves

StopInv == Shape /\ GraphInv /\ OnlyStops /\ ClientsHeld

-----------------------------------------------------------------------------
(* Sums. *)

LEMMA PairsMembers ==
    ASSUME NEW S, NEW f
    PROVE  \A e : e \in Pairs(S, f) <=> \E x \in S : \E i \in 1 .. f[x] : e = << x, i >>
  BY DEF Pairs

LEMMA TotalSame ==
    ASSUME NEW S, NEW f, NEW g, \A x \in S : f[x] = g[x]
    PROVE  Pairs(S, f) = Pairs(S, g) /\ Total(S, f) = Total(S, g)
<1>1. Pairs(S, f) = Pairs(S, g)
  BY DEF Pairs
<1> QED BY <1>1 DEF Total

(* One column of the set.                                                  *)
LEMMA Column ==
    ASSUME NEW x, NEW n \in Nat
    PROVE  LET C == {<< x, i >> : i \in 1 .. n}
           IN  IsFiniteSet(C) /\ Cardinality(C) = n
<1> DEFINE C == {<< x, i >> : i \in 1 .. n}
           b == [i \in 1 .. n |-> << x, i >>]
<1>1. IsFiniteSet(1 .. n) /\ Cardinality(1 .. n) = n
  BY FS_Interval
<1>2. b \in Bijection(1 .. n, C)
  BY DEF Bijection, Injection, Surjection, IsInjective
<1>3. ExistsBijection(1 .. n, C)
  BY <1>2 DEF ExistsBijection
<1> HIDE DEF C
<1>4. IsFiniteSet(C) /\ Cardinality(C) = n
  BY <1>1, <1>3, FS_Bijection
<1> QED BY <1>4 DEF C

LEMMA PairsFinite ==
    ASSUME NEW S, IsFiniteSet(S), NEW f, \A x \in S : f[x] \in Nat
    PROVE  IsFiniteSet(Pairs(S, f)) /\ Total(S, f) \in Nat
<1> DEFINE F == {{<< x, i >> : i \in 1 .. f[x]} : x \in S}
           g == [x \in S |-> {<< x, i >> : i \in 1 .. f[x]}]
<1>1. g \in Surjection(S, F)
  BY DEF Surjection
<1>2. IsFiniteSet(F)
  <2> HIDE DEF F, g
  <2> QED BY <1>1, FS_Surjection
<1>3. ASSUME NEW T \in F PROVE IsFiniteSet(T)
  <2>1. PICK x \in S : T = {<< x, i >> : i \in 1 .. f[x]}
    OBVIOUS
  <2> QED BY <2>1, Column
<1>4. Pairs(S, f) = UNION F
  BY DEF Pairs
<1> HIDE DEF F
<1>5. IsFiniteSet(Pairs(S, f))
  BY <1>2, <1>3, <1>4, FS_UNION
<1> QED BY <1>5, FS_CardinalityType DEF Total

LEMMA TotalPositive ==
    ASSUME NEW S, IsFiniteSet(S), NEW f, \A x \in S : f[x] \in Nat,
           Total(S, f) # 0
    PROVE  \E x \in S : f[x] > 0
<1>1. Pairs(S, f) # {}
  BY FS_EmptySet DEF Total
<1>2. PICK x \in S : \E i \in 1 .. f[x] : TRUE
  BY <1>1, PairsMembers
<1> QED BY <1>2

(* Taking one summand out.                                                 *)
LEMMA TotalSplit ==
    ASSUME NEW S, IsFiniteSet(S), NEW x \in S, NEW f, \A y \in S : f[y] \in Nat
    PROVE  Total(S, f) = Total(S \ {x}, f) + f[x]
<1> DEFINE A == Pairs(S \ {x}, f)
           B == {<< x, i >> : i \in 1 .. f[x]}
<1>1. IsFiniteSet(S \ {x}) /\ f[x] \in Nat /\ \A y \in S \ {x} : f[y] \in Nat
  BY FS_RemoveElement
<1>2. IsFiniteSet(A) /\ Cardinality(A) \in Nat
  BY <1>1, PairsFinite, FS_CardinalityType
<1>3. IsFiniteSet(B) /\ Cardinality(B) = f[x]
  BY <1>1, Column
<1>4. Pairs(S, f) = A \cup B
  BY DEF Pairs
<1>5. A \cap B = {}
  BY DEF Pairs
<1> HIDE DEF A, B
<1>6. Cardinality(A \cup B) = Cardinality(A) + f[x]
  <2>1. Cardinality(A \cup B) = Cardinality(A) + Cardinality(B) - Cardinality(A \cap B)
    BY <1>2, <1>3, FS_Union
  <2>2. Cardinality(A \cap B) = 0
    BY <1>5, FS_EmptySet
  <2> QED BY <1>1, <1>2, <1>3, <2>1, <2>2
<1> QED BY <1>4, <1>6 DEF Total, A

(* The sum of a sum.                                                       *)
LEMMA TotalSum ==
    ASSUME NEW S, IsFiniteSet(S), NEW f, NEW g, NEW h,
           \A x \in S : f[x] \in Nat /\ g[x] \in Nat /\ h[x] = f[x] + g[x]
    PROVE  Total(S, h) = Total(S, f) + Total(S, g)
<1> DEFINE A == Pairs(S, f)
           B == Pairs(S, g)
           U == UNION {{<< x, i >> : i \in f[x] + 1 .. f[x] + g[x]} : x \in S}
           b == [e \in B |-> << e[1], e[2] + f[e[1]] >>]
<1>1. IsFiniteSet(A) /\ IsFiniteSet(B) /\ Cardinality(A) \in Nat /\ Cardinality(B) \in Nat
  BY PairsFinite, FS_CardinalityType
<1>2. \A e : e \in A <=> \E x \in S : \E i \in 1 .. f[x] : e = << x, i >>
  BY PairsMembers
<1>3. \A e : e \in B <=> \E x \in S : \E i \in 1 .. g[x] : e = << x, i >>
  BY PairsMembers
<1>4. \A e : e \in U <=> \E x \in S : \E i \in f[x] + 1 .. f[x] + g[x] : e = << x, i >>
  OBVIOUS
<1>5. \A e : e \in Pairs(S, h) <=> \E x \in S : \E i \in 1 .. h[x] : e = << x, i >>
  BY PairsMembers
<1> HIDE DEF A, B, U
<1>6. b \in [B -> U]
  <2> SUFFICES ASSUME NEW e \in B PROVE << e[1], e[2] + f[e[1]] >> \in U
    OBVIOUS
  <2>1x. PICK x \in S : \E i \in 1 .. g[x] : e = << x, i >>
    BY <1>3
  <2>1. PICK i \in 1 .. g[x] : e = << x, i >>
    BY <2>1x
  <2>2. i + f[x] \in f[x] + 1 .. f[x] + g[x]
    OBVIOUS
  <2> QED BY <2>1, <2>2, <1>4
<1>7. ASSUME NEW d \in B, NEW e \in B, b[d] = b[e] PROVE d = e
  <2>1x. PICK x \in S : \E i \in 1 .. g[x] : d = << x, i >>
    BY <1>3
  <2>1. PICK i \in 1 .. g[x] : d = << x, i >>
    BY <2>1x
  <2>2x. PICK y \in S : \E j \in 1 .. g[y] : e = << y, j >>
    BY <1>3
  <2>2. PICK j \in 1 .. g[y] : e = << y, j >>
    BY <2>2x
  <2>3. x = y /\ i + f[x] = j + f[y]
    BY <1>7, <2>1, <2>2
  <2>4. i = j
    BY <2>3
  <2> QED BY <2>1, <2>2, <2>3, <2>4
<1>8. ASSUME NEW t \in U PROVE \E e \in B : b[e] = t
  <2>1x. PICK x \in S : \E i \in f[x] + 1 .. f[x] + g[x] : t = << x, i >>
    BY <1>4
  <2>1. PICK i \in f[x] + 1 .. f[x] + g[x] : t = << x, i >>
    BY <2>1x
  <2>2. i - f[x] \in 1 .. g[x] /\ (i - f[x]) + f[x] = i
    OBVIOUS
  <2>3. << x, i - f[x] >> \in B
    BY <2>2, <1>3
  <2>4. b[<< x, i - f[x] >>] = t
    BY <2>1, <2>2, <2>3
  <2> QED BY <2>3, <2>4
<1>9. ExistsBijection(B, U)
  <2> HIDE DEF b
  <2>1. b \in Bijection(B, U)
    BY <1>6, <1>7, <1>8 DEF Bijection, Injection, Surjection, IsInjective
  <2> QED BY <2>1 DEF ExistsBijection
<1>10. IsFiniteSet(U) /\ Cardinality(U) = Cardinality(B)
  BY <1>1, <1>9, FS_Bijection
<1>11. A \cap U = {}
  <2> SUFFICES ASSUME NEW e \in A, e \in U PROVE FALSE
    OBVIOUS
  <2>1x. PICK x \in S : \E i \in 1 .. f[x] : e = << x, i >>
    BY <1>2
  <2>1. PICK i \in 1 .. f[x] : e = << x, i >>
    BY <2>1x
  <2>2x. PICK y \in S : \E j \in f[y] + 1 .. f[y] + g[y] : e = << y, j >>
    BY <1>4
  <2>2. PICK j \in f[y] + 1 .. f[y] + g[y] : e = << y, j >>
    BY <2>2x
  <2>3. x = y /\ i = j
    BY <2>1, <2>2
  <2> QED BY <2>3
<1>12. Pairs(S, h) = A \cup U
  <2>1. ASSUME NEW x \in S, NEW i
        PROVE  i \in 1 .. h[x] <=> i \in 1 .. f[x] \/ i \in f[x] + 1 .. f[x] + g[x]
    OBVIOUS
  <2>2. ASSUME NEW e PROVE e \in Pairs(S, h) <=> e \in A \/ e \in U
    BY <1>2, <1>4, <1>5, <2>1
  <2> QED BY <2>2
<1>13. Cardinality(A \cup U) = Cardinality(A) + Cardinality(B)
  BY <1>1, <1>10, <1>11, FS_Union, FS_EmptySet
<1> QED BY <1>12, <1>13 DEF Total, A, B

(* How often the members of A occur in A.                                  *)
LEMMA TotalOccurs ==
    ASSUME NEW S, IsFiniteSet(S), NEW A \in SUBSET S, NEW f,
           \A x \in S : f[x] = Occurs(x, A)
    PROVE  Total(S, f) = Cardinality(A)
<1> DEFINE b == [x \in A |-> << x, 1 >>]
           P == Pairs(S, f)
<1>1. \A e : e \in P <=> \E x \in A : e = << x, 1 >>
  BY PairsMembers DEF Occurs
<1> HIDE DEF P
<1>2. b \in Bijection(A, P)
  BY <1>1 DEF Bijection, Injection, Surjection, IsInjective
<1>3. IsFiniteSet(A)
  BY FS_Subset
<1>4. ExistsBijection(A, P)
  BY <1>2 DEF ExistsBijection
<1> QED BY <1>3, <1>4, FS_Bijection DEF Total, P

-----------------------------------------------------------------------------
(* The call stack and the event queue. *)

LEMMA FramesAppend ==
    ASSUME NEW X, NEW w \in Seq(X), NEW f \in X
    PROVE  /\ Append(w, f) \in Seq(X)
           /\ Frames(Append(w, f)) = Frames(w) \cup {f}
<1>1. /\ Append(w, f) \in Seq(X) /\ Len(Append(w, f)) = Len(w) + 1
      /\ \A h \in 1 .. Len(w) : Append(w, f)[h] = w[h]
      /\ Append(w, f)[Len(w) + 1] = f
  BY AppendProperties
<1> DEFINE v == Append(w, f)
<1> HIDE DEF v
<1>2. ASSUME NEW g PROVE g \in Frames(v) <=> g \in Frames(w) \cup {f}
  BY <1>1 DEF Frames, v
<1> QED BY <1>1, <1>2 DEF v

LEMMA FramesEmpty == Frames(<< >>) = {} /\ \A p : CreditSum(<< >>, p) = 0
<1>1. Len(<< >>) = 0 /\ 1 .. 0 = {}
  OBVIOUS
<1>2. Frames(<< >>) = {}
  BY <1>1 DEF Frames
<1>3. ASSUME NEW p PROVE CreditSum(<< >>, p) = 0
  <2>1. Pairs(1 .. Len(<< >>), [h \in 1 .. Len(<< >>) |-> CreditOf(<< >>[h], p)]) = {}
    BY <1>1 DEF Pairs
  <2> QED BY <2>1, FS_EmptySet DEF CreditSum, Total
<1> QED BY <1>2, <1>3

LEMMA CreditOfNat ==
    ASSUME NEW f \in Frame, NEW p \in Unit
    PROVE  CreditOf(f, p) \in Nat
  BY DEF CreditOf, Frame, Event

LEMMA CreditAppend ==
    ASSUME NEW w \in Seq(Frame), NEW f \in Frame, NEW p \in Unit
    PROVE  /\ CreditSum(w, p) \in Nat
           /\ CreditSum(Append(w, f), p) = CreditSum(w, p) + CreditOf(f, p)
<1> DEFINE v == Append(w, f)
           n == Len(w)
           a == [h \in 1 .. n |-> CreditOf(w[h], p)]
           b == [h \in 1 .. n + 1 |-> CreditOf(v[h], p)]
<1>1. /\ v \in Seq(Frame) /\ Len(v) = n + 1 /\ v[n + 1] = f /\ n \in Nat
      /\ \A h \in 1 .. n : v[h] = w[h]
  BY AppendProperties
<1> HIDE DEF v, n
<1>2. /\ \A h \in 1 .. n : a[h] \in Nat /\ a[h] = b[h]
      /\ \A h \in 1 .. n + 1 : b[h] \in Nat
      /\ b[n + 1] = CreditOf(f, p)
  BY <1>1, CreditOfNat DEF n
<1>3. IsFiniteSet(1 .. n) /\ IsFiniteSet(1 .. n + 1) /\ (1 .. n + 1) \ {n + 1} = 1 .. n
  <2>1. n \in Int /\ n + 1 \in Int /\ 1 \in Int
    BY <1>1
  <2>2. (1 .. n + 1) \ {n + 1} = 1 .. n
    BY <1>1
  <2> QED BY <2>1, <2>2, FS_Interval
<1>4. CreditSum(w, p) = Total(1 .. n, a) /\ CreditSum(v, p) = Total(1 .. n + 1, b)
  BY <1>1 DEF CreditSum, n
<1> HIDE DEF a, b
<1>5. Total(1 .. n, a) \in Nat /\ Total(1 .. n, a) = Total(1 .. n, b)
  BY <1>2, <1>3, PairsFinite, TotalSame
<1>6. n + 1 \in 1 .. n + 1
  BY <1>1
<1>7. Total(1 .. n + 1, b) = Total((1 .. n + 1) \ {n + 1}, b) + b[n + 1]
  BY <1>2, <1>3, <1>6, TotalSplit
<1> QED BY <1>2, <1>3, <1>4, <1>5, <1>7 DEF v

LEMMA CreditSumNat ==
    ASSUME NEW w \in Seq(Frame), NEW p \in Unit
    PROVE  CreditSum(w, p) \in Nat
<1>1. [op |-> "start", unit |-> p] \in Frame
  BY DEF Frame
<1> QED BY <1>1, CreditAppend

(* The stack as the callers of the running frame and that frame, ...       *)
LEMMA StackIs ==
    ASSUME work \in Seq(Frame)
    PROVE  /\ Callers \in Seq(Frame)
           /\ Idle => Callers = << >> /\ Len(work) = 0
           /\ ~Idle => Top \in Frame /\ work = Append(Callers, Top)
                       /\ Len(work) = Len(Callers) + 1
<1>1. CASE Idle
  BY <1>1 DEF Idle, Callers
<1>2. CASE ~Idle
  <2>1. Len(work) \in Nat /\ Len(work) >= 1
    BY <1>2 DEF Idle
  <2>2. /\ Callers \in Seq(Frame) /\ Len(Callers) = Len(work) - 1
        /\ \A h \in 1 .. Len(work) - 1 : Callers[h] = work[h]
    <3> DEFINE n == Len(work) - 1
    <3>1. 1 \in Int /\ n \in Int /\ n >= 0 /\ \A i \in 1 .. n : work[i] \in Frame
      BY <2>1
    <3>2. Callers = SubSeq(work, 1, n)
      BY <1>2 DEF Callers
    <3> HIDE DEF n
    <3>3. /\ SubSeq(work, 1, n) \in Seq(Frame)
          /\ Len(SubSeq(work, 1, n)) = IF 1 <= n THEN n - 1 + 1 ELSE 0
          /\ \A i \in 1 .. n - 1 + 1 : SubSeq(work, 1, n)[i] = work[1 + i - 1]
      BY <3>1, SubSeqProperties
    <3>4. Len(Callers) = n /\ \A i \in 1 .. n : Callers[i] = work[i]
      BY <3>1, <3>2, <3>3
    <3> QED BY <3>2, <3>3, <3>4 DEF n
  <2>3. Top \in Frame
    BY <2>1 DEF Top
  <2> DEFINE v == Append(Callers, Top)
  <2>4. /\ v \in Seq(Frame) /\ Len(v) = Len(work)
        /\ \A h \in 1 .. Len(work) : v[h] = work[h]
    BY <2>1, <2>2, <2>3, AppendProperties DEF Top
  <2> HIDE DEF v
  <2>5. v = work
    BY <2>4, SeqEqual
  <2> QED BY <1>2, <2>1, <2>2, <2>3, <2>5 DEF v
<1> QED BY <1>1, <1>2

(* ... with what they owe.                                                 *)
LEMMA StackBase ==
    ASSUME work \in Seq(Frame)
    PROVE  /\ Callers \in Seq(Frame)
           /\ Idle => Frames(work) = {} /\ Frames(Callers) = {}
           /\ Idle => \A p \in Unit : CreditSum(work, p) = 0 /\ CreditSum(Callers, p) = 0
           /\ ~Idle => /\ Top \in Frame
                       /\ Frames(work) = Frames(Callers) \cup {Top}
                       /\ \A p \in Unit : CreditSum(work, p) =
                                            CreditSum(Callers, p) + CreditOf(Top, p)
           /\ \A p \in Unit : CreditSum(Callers, p) \in Nat
<1>1. CASE Idle
  <2>1. work = << >> /\ Callers = << >> /\ Callers \in Seq(Frame)
    BY <1>1, StackIs DEF Idle
  <2> QED BY <1>1, <2>1, FramesEmpty
<1>2. CASE ~Idle
  BY <1>2, StackIs, FramesAppend, CreditAppend, CreditSumNat
<1> QED BY <1>1, <1>2

(* What Return leaves on the stack, by the number of calls it makes.       *)
LEMMA ReturnNone ==
    ASSUME work \in Seq(Frame), Return(<< >>)
    PROVE  /\ work' \in Seq(Frame)
           /\ Frames(work') = Frames(Callers)
           /\ \A p \in Unit : CreditSum(work', p) = CreditSum(Callers, p)
<1>1. Callers \in Seq(Frame)
  BY StackBase
<1>2. work' = Callers
  BY <1>1, ConcatEmptySeq DEF Return
<1> QED BY <1>1, <1>2

LEMMA ReturnOne ==
    ASSUME work \in Seq(Frame), NEW f \in Frame, Return(<< f >>)
    PROVE  /\ work' \in Seq(Frame)
           /\ Frames(work') = Frames(Callers) \cup {f}
           /\ \A p \in Unit : CreditSum(work', p) = CreditSum(Callers, p) + CreditOf(f, p)
<1>1. Callers \in Seq(Frame)
  BY StackBase
<1>2. work' = Append(Callers, f)
  BY <1>1, AppendIsConcat DEF Return
<1> QED BY <1>1, <1>2, FramesAppend, CreditAppend

LEMMA ReturnTwo ==
    ASSUME work \in Seq(Frame), NEW f \in Frame, NEW g \in Frame,
           Return(<< f, g >>)
    PROVE  /\ work' \in Seq(Frame)
           /\ Frames(work') = Frames(Callers) \cup {f, g}
           /\ \A p \in Unit : CreditSum(work', p) =
                CreditSum(Callers, p) + CreditOf(f, p) + CreditOf(g, p)
<1>1. Callers \in Seq(Frame)
  BY StackBase
<1> DEFINE v == Append(Callers, f)
<1>2. /\ v \in Seq(Frame) /\ Frames(v) = Frames(Callers) \cup {f}
      /\ \A p \in Unit : CreditSum(v, p) = CreditSum(Callers, p) + CreditOf(f, p)
  BY <1>1, FramesAppend, CreditAppend
<1>3. work' = Append(v, g)
  <2> DEFINE c == Callers
  <2>1. work' = c \o << f, g >> /\ c \in Seq(Frame)
    BY <1>1 DEF Return
  <2> HIDE DEF c
  <2>2. c \o << f, g >> = Append(Append(c, f), g)
    BY <2>1
  <2> QED BY <2>1, <2>2 DEF c
<1> HIDE DEF v
<1> QED BY <1>2, <1>3, FramesAppend, CreditAppend

-----------------------------------------------------------------------------
(* What the steps do to stack and queue. *)

(* No credit, no chain and no begin_stop_tree is lost.                     *)
Carried ==
    /\ work' \in Seq(Frame) /\ queue' \in Seq(Event)
    /\ \A p \in Unit : CreditSum(work', p) = CreditSum(work, p)
    /\ \A u \in Unit : (\E f \in Frames(work) : Drives(f, u))
                         => \E f \in Frames(work') : Drives(f, u)
    /\ Begins \subseteq Begins'

LEMMA EventsAreFrames == Event \subseteq Frame
  BY DEF Frame

LEMMA QueueAppend ==
    ASSUME queue \in Seq(Event), NEW e \in Event, queue' = Append(queue, e)
    PROVE  queue' \in Seq(Event) /\ Frames(queue') = Frames(queue) \cup {e}
  BY FramesAppend

LEMMA TakeIs ==
    ASSUME Shape, Take
    PROVE  /\ work = << >> /\ queue \in Seq(Event)
           /\ \E e \in Event :
                /\ work' \in Seq(Frame) /\ Len(work') = 1 /\ Frames(work') = {e}
                /\ work' = Append(<< >>, e)
                /\ \A p \in Unit : CreditSum(work', p) = 0
                /\ queue' \in Seq(Event) /\ Len(queue') = Len(queue) - 1
                /\ Frames(queue) = {e} \cup Frames(queue')
<1>1. /\ work = << >> /\ queue \in Seq(Event) /\ queue # << >>
      /\ work' = << Head(queue) >> /\ queue' = Tail(queue)
  BY DEF Take, Idle, Shape
<1>2. /\ Head(queue) \in Event /\ queue' \in Seq(Event)
      /\ Len(queue') = Len(queue) - 1 /\ Len(queue) \in Nat \ {0}
      /\ \A i \in 1 .. Len(queue) - 1 : queue'[i] = queue[i + 1]
      /\ Head(queue) = queue[1]
  BY <1>1
<1>3. Frames(queue) = {Head(queue)} \cup Frames(queue')
  <2>1. ASSUME NEW f \in Frames(queue) PROVE f = Head(queue) \/ f \in Frames(queue')
    <3>1. PICK i \in 1 .. Len(queue) : f = queue[i]
      BY DEF Frames
    <3>2. CASE i = 1
      BY <1>2, <3>1, <3>2
    <3>3. CASE i # 1
      <4>1. i - 1 \in 1 .. Len(queue) - 1 /\ (i - 1) + 1 = i
        BY <1>2, <3>3
      <4>2. f = queue'[i - 1] /\ i - 1 \in 1 .. Len(queue')
        BY <1>2, <3>1, <4>1
      <4> QED BY <4>2 DEF Frames
    <3> QED BY <3>2, <3>3
  <2>2. ASSUME NEW f \in Frames(queue') PROVE f \in Frames(queue)
    <3>1. PICK i \in 1 .. Len(queue') : f = queue'[i]
      BY DEF Frames
    <3>2. i + 1 \in 1 .. Len(queue) /\ f = queue[i + 1]
      BY <1>2, <3>1
    <3> QED BY <3>2 DEF Frames
  <2>3. Head(queue) \in Frames(queue)
    BY <1>2 DEF Frames
  <2> QED BY <2>1, <2>2, <2>3
<1> DEFINE e == Head(queue)
<1>4. work' = Append(<< >>, e) /\ e \in Frame /\ << >> \in Seq(Frame)
  BY <1>1, <1>2, EventsAreFrames
<1>5. /\ work' \in Seq(Frame) /\ Frames(work') = {e}
      /\ \A p \in Unit : CreditSum(work', p) = 0 + CreditOf(e, p)
  <2> HIDE DEF e
  <2>1. PICK w \in Seq(Frame) : w = << >> /\ work' = Append(w, e)
    BY <1>4
  <2>2. Append(w, e) \in Seq(Frame) /\ Frames(Append(w, e)) = Frames(w) \cup {e}
    BY <1>4, FramesAppend
  <2>3. \A p \in Unit : CreditSum(Append(w, e), p) = CreditSum(w, p) + CreditOf(e, p)
    BY <1>4, CreditAppend
  <2>4. Frames(w) = {} /\ \A p \in Unit : CreditSum(w, p) = 0
    BY <2>1, FramesEmpty
  <2> QED BY <2>1, <2>2, <2>3, <2>4
<1>6. \A p \in Unit : CreditOf(e, p) = 0
  BY <1>2 DEF CreditOf, Event
<1> HIDE DEF e
<1>7. Len(work') = 1
  BY <1>1
<1>8. e \in Event /\ Frames(queue) = {e} \cup Frames(queue')
  BY <1>2, <1>3 DEF e
<1>9. \A p \in Unit : CreditSum(work', p) = 0
  BY <1>5, <1>6
<1> QED BY <1>1, <1>2, <1>4, <1>5, <1>7, <1>8, <1>9

LEMMA TakeCarried ==
    ASSUME Shape, Take
    PROVE  Carried
<1>1. PICK e \in Event :
        /\ work' \in Seq(Frame) /\ Frames(work') = {e}
        /\ \A p \in Unit : CreditSum(work', p) = 0
        /\ queue' \in Seq(Event)
        /\ Frames(queue) = {e} \cup Frames(queue')
  BY TakeIs
<1>2. Frames(work) = {} /\ \A p \in Unit : CreditSum(work, p) = 0
  BY TakeIs, FramesEmpty
<1>3. Begins \subseteq Begins'
  BY <1>1, <1>2 DEF Begins
<1> QED BY <1>1, <1>2, <1>3 DEF Carried

(* A frame that is neither a begin nor a credit nor a chain's returns, or  *)
(* is replaced by f and g, which take over its units.                      *)
LEMMA OneCarried ==
    ASSUME Shape, ~Idle, Top.op # "begin", NEW f \in Frame, Return(<< f >>),
           queue' = queue,
           \A p \in Unit : CreditOf(f, p) = CreditOf(Top, p),
           \A u \in Unit : Drives(Top, u) => Drives(f, u)
    PROVE  Carried
<1>1. work \in Seq(Frame) /\ queue \in Seq(Event)
  BY DEF Shape
<1>2. /\ work' \in Seq(Frame) /\ Frames(work') = Frames(Callers) \cup {f}
      /\ \A p \in Unit : CreditSum(work', p) = CreditSum(Callers, p) + CreditOf(f, p)
  BY <1>1, ReturnOne
<1>3. /\ Frames(work) = Frames(Callers) \cup {Top}
      /\ \A p \in Unit : CreditSum(work, p) = CreditSum(Callers, p) + CreditOf(Top, p)
  BY <1>1, StackBase
<1>4. Begins \subseteq Begins'
  BY <1>2, <1>3 DEF Begins
<1> QED BY <1>1, <1>2, <1>3, <1>4 DEF Carried

LEMMA TwoCarried ==
    ASSUME Shape, ~Idle, Top.op # "begin", NEW f \in Frame, NEW g \in Frame,
           Return(<< f, g >>), queue' = queue,
           \A p \in Unit : CreditOf(Top, p) = 0 /\ CreditOf(f, p) = 0 /\ CreditOf(g, p) = 0,
           \A u \in Unit : Drives(Top, u) => Drives(f, u) \/ Drives(g, u)
    PROVE  Carried
<1>1. work \in Seq(Frame) /\ queue \in Seq(Event)
  BY DEF Shape
<1>2. /\ work' \in Seq(Frame) /\ Frames(work') = Frames(Callers) \cup {f, g}
      /\ \A p \in Unit : CreditSum(work', p) =
           CreditSum(Callers, p) + CreditOf(f, p) + CreditOf(g, p)
  BY <1>1, ReturnTwo
<1>3. /\ Frames(work) = Frames(Callers) \cup {Top}
      /\ \A p \in Unit : CreditSum(work, p) = CreditSum(Callers, p) + CreditOf(Top, p)
      /\ \A p \in Unit : CreditSum(Callers, p) \in Nat
  BY <1>1, StackBase
<1>4. \A p \in Unit : CreditSum(work', p) = CreditSum(work, p)
  BY <1>2, <1>3
<1>5. Begins \subseteq Begins'
  BY <1>2, <1>3 DEF Begins
<1> QED BY <1>1, <1>2, <1>3, <1>4, <1>5 DEF Carried

LEMMA NoneCarried ==
    ASSUME Shape, ~Idle, Top.op # "begin", Return(<< >>),
           queue' \in Seq(Event), Frames(queue) \subseteq Frames(queue'),
           \A p \in Unit : CreditOf(Top, p) = 0,
           \A u \in Unit : ~Drives(Top, u)
    PROVE  Carried
<1>1. work \in Seq(Frame)
  BY DEF Shape
<1>2. /\ work' \in Seq(Frame) /\ Frames(work') = Frames(Callers)
      /\ \A p \in Unit : CreditSum(work', p) = CreditSum(Callers, p)
  BY <1>1, ReturnNone
<1>3. /\ Frames(work) = Frames(Callers) \cup {Top}
      /\ \A p \in Unit : CreditSum(work, p) = CreditSum(Callers, p) + CreditOf(Top, p)
      /\ \A p \in Unit : CreditSum(Callers, p) \in Nat
  BY <1>1, StackBase
<1>4. \A p \in Unit : CreditSum(work', p) = CreditSum(work, p)
  BY <1>2, <1>3
<1>5. Begins \subseteq Begins'
  BY <1>2, <1>3 DEF Begins
<1> QED BY <1>2, <1>3, <1>4, <1>5 DEF Carried

(* The loops of the handlers. *)
LEMMA LoopCarried ==
    ASSUME Shape,
           NextLeaf \/ NextTree \/ TreesDone \/ Collect \/ NextCollected \/ CreditsDone
    PROVE  Carried
<1>1. work \in Seq(Frame) /\ queue \in Seq(Event) /\ after \subseteq Unit
  BY DEF Shape, TypeOK
<1>2. ~Idle
  BY DEF NextLeaf, NextTree, TreesDone, Collect, NextCollected, CreditsDone,
         Running, Idle
<1>3. Top \in Frame
  BY <1>1, <1>2, StackBase
<1>4. CASE NextLeaf
  <2>1. Top.op = "chains" /\ queue' = queue
    BY <1>4 DEF NextLeaf, Running
  <2>2. Top \in [op : {"chains", "collect"}, units : SUBSET Unit]
    BY <1>3, <2>1 DEF Frame, Event
  <2>3. CASE Top.units = {} /\ Return(<< >>)
    BY <1>1, <1>2, <2>1, <2>3, NoneCarried DEF CreditOf, Drives
  <2>4. ASSUME NEW u \in Top.units,
               Return(<< [Top EXCEPT !.units = @ \ {u}],
                         [op |-> "start", unit |-> u] >>)
        PROVE  Carried
    <3> DEFINE f == [Top EXCEPT !.units = @ \ {u}]
               g == [op |-> "start", unit |-> u]
    <3>1. f \in Frame /\ f.op = "chains" /\ f.units = Top.units \ {u}
      BY <2>1, <2>2 DEF Frame
    <3>2. g \in Frame /\ g.op = "start" /\ g.unit = u
      BY <2>2 DEF Frame
    <3>3. Return(<< f, g >>)
      BY <2>4
    <3> HIDE DEF f, g
    <3> QED BY <1>2, <2>1, <3>1, <3>2, <3>3, TwoCarried DEF CreditOf, Drives
  <2> QED BY <1>4, <2>3, <2>4 DEF NextLeaf
<1>5. ASSUME NEW u \in Top.units, Top.op \in {"trees", "collect"}, queue' = queue,
             Return(<< [Top EXCEPT !.units = @ \ {u}], StopTree(u, NoJob) >>)
      PROVE  Carried
  <2>1. \/ Top \in [op : {"chains", "collect"}, units : SUBSET Unit]
        \/ Top \in [op : {"trees"}, unit : Unit, units : SUBSET Unit]
    BY <1>3, <1>5 DEF Frame, Event
  <2> DEFINE f == [Top EXCEPT !.units = @ \ {u}]
             g == StopTree(u, NoJob)
  <2>2. f \in Frame /\ f.op = Top.op
    BY <2>1 DEF Frame
  <2>3. g \in Frame /\ g.op = "begin"
    BY <2>1 DEF Frame, Event, StopTree
  <2>4. Return(<< f, g >>)
    BY <1>5
  <2> HIDE DEF f, g
  <2> QED BY <1>2, <1>5, <2>2, <2>3, <2>4, TwoCarried DEF CreditOf, Drives
<1>6. CASE NextTree
  BY <1>5, <1>6 DEF NextTree, Running
<1>7. CASE NextCollected
  <2>1. CASE Top.units = {} /\ Return(<< >>)
    BY <1>1, <1>2, <1>7, <2>1, NoneCarried DEF NextCollected, Running, CreditOf, Drives
  <2> QED BY <1>5, <1>7, <2>1 DEF NextCollected, Running
<1>8. CASE TreesDone
  <2>1. Top.op = "trees" /\ Return(<< >>)
    BY <1>8 DEF TreesDone, Running
  <2> DEFINE e == [op |-> "gc", units |-> Pulled(Top.unit)]
  <2>2. e \in Event
    BY DEF Event, Pulled
  <2>3. queue' = queue \/ queue' = Append(queue, e)
    BY <1>8 DEF TreesDone
  <2> HIDE DEF e
  <2>4. queue' \in Seq(Event) /\ Frames(queue) \subseteq Frames(queue')
    BY <1>1, <2>2, <2>3, QueueAppend
  <2> QED BY <1>2, <2>1, <2>4, NoneCarried DEF CreditOf, Drives
<1>9. CASE Collect
  <2>1. Top.op = "gc" /\ queue' = queue
    BY <1>9 DEF Collect, Running
  <2>2. Top.units \subseteq Unit
    BY <1>3, <2>1 DEF Frame, Event
  <2> DEFINE f == [op |-> "collect", units |-> {u \in Top.units : IsUnneeded(u)}]
  <2>3. f \in Frame /\ f.op = "collect" /\ Return(<< f >>)
    BY <1>9, <2>2 DEF Frame, Collect
  <2> HIDE DEF f
  <2> QED BY <1>2, <2>1, <2>3, OneCarried DEF CreditOf, Drives
<1>10. CASE CreditsDone
  <2>1. Top.op = "credit" /\ queue' = queue /\ \A p \in Unit : Top.owed[p] = 0
    BY <1>10 DEF CreditsDone, Running
  <2>2. Top.unit \in Unit
    BY <1>3, <2>1 DEF Frame, Event
  <2> DEFINE f == [op |-> "trees", unit |-> Top.unit,
                   units |-> IF Top.unit \in after THEN PropagatesTo[Top.unit] ELSE {}]
  <2>3. f \in Frame /\ f.op = "trees" /\ Return(<< f >>)
    BY <1>10, <2>2, StopGraphAssumption DEF Frame, CreditsDone
  <2> HIDE DEF f
  <2> QED BY <1>2, <2>1, <2>3, OneCarried DEF CreditOf, Drives
<1> QED BY <1>4, <1>6, <1>7, <1>8, <1>9, <1>10

-----------------------------------------------------------------------------
(* Jobs and clients. *)

LEMMA FinishClients ==
    ASSUME OnlyStops, ClientsHeld, NEW id \in JobId, FinishJob(id),
           \A j \in JobId \ {id} : JobHeld(j) => JobHeld(j)'
    PROVE  OnlyStops' /\ ClientsHeld'
<1>1. Sound(reg) /\ reg' = Finish(reg, id) /\ asked' = asked
      /\ answered' = answered \cup Woken(reg, id)
  BY DEF OnlyStops, FinishJob
<1>2. Sound(reg') /\ Evolves(reg, reg') /\ reg'.nextId = reg.nextId
  BY <1>1, FinishSound
<1>3. OnlyStops'
  <2>1. ASSUME NEW j \in Installed(reg') PROVE reg'.jobs[j].kind = "Stop"
    BY <1>1 DEF OnlyStops, Finish, Without, Installed
  <2> QED BY <1>2, <2>1 DEF OnlyStops
<1>4. ClientsHeld'
  <2> SUFFICES ASSUME NEW c \in Waiter, asked'[c] # NoUnit, c \notin answered'
               PROVE  \E j \in On(reg', c) : JobHeld(j)'
    BY DEF ClientsHeld
  <2>1. PICK j \in On(reg, c) : JobHeld(j)
    BY <1>1 DEF ClientsHeld
  <2>2. j # id
    BY <1>1, <2>1 DEF On, Woken
  <2>3. j \in JobId
    BY <1>1 DEF On, Sound, IsRegistry
  <2>4. j \in On(reg', c)
    BY <1>1, <2>1, <2>2 DEF On, Finish, Without, Installed
  <2> QED BY <2>1, <2>2, <2>3, <2>4
<1> QED BY <1>3, <1>4

LEMMA QuietClients ==
    ASSUME OnlyStops, ClientsHeld, FinishNoJob,
           \A j \in JobId : JobHeld(j) => JobHeld(j)'
    PROVE  OnlyStops' /\ ClientsHeld'
<1>1. reg' = reg /\ asked' = asked /\ answered' = answered
  BY DEF FinishNoJob, clients
<1>2. \A c \in Waiter : \A j \in On(reg, c) : j \in JobId
  BY DEF On, OnlyStops, Sound, IsRegistry
<1> QED BY <1>1, <1>2 DEF OnlyStops, ClientsHeld

(* A stop of a unit that has a job shares it: nobody is superseded.        *)
LEMMA RequestClients ==
    ASSUME OnlyStops, ClientsHeld, NEW c \in Waiter, NEW u \in Unit,
           RequestStop(c, u), asked \in [Waiter -> Unit \cup {NoUnit}],
           NEW id, id = CreatedId(reg, u, "Stop", "Replace")
    PROVE  /\ OnlyStops'
           /\ id \in JobId
           /\ (\A j \in JobId : JobHeld(j) => JobHeld(j)') /\ JobHeld(id)'
                => ClientsHeld'
<1> DEFINE a == Create(reg, u, "Stop", "Replace")
           b == SetState(a, id, "Running")
<1>1. /\ Sound(reg) /\ reg.nextId < MaxId /\ reg' = AddWaiter(b, id, c)
      /\ answered' = answered /\ asked' = [asked EXCEPT ![c] = u]
      /\ \A j \in Installed(reg) : reg.jobs[j].kind = "Stop"
  BY DEF OnlyStops, RequestStop, IdsRemain, SetRunning
<1>2. MergeKinds("Stop", "Stop") = "Stop"
  BY DEF MergeKinds
<1>3. HasJob(reg, u) => /\ reg.byUnit[u] \in Installed(reg)
                        /\ Merges(reg, u, "Stop")
  BY <1>1, <1>2 DEF Merges, HasJob, Sound, IndexSound
<1>4. ~Refuses(reg, u, "Stop", "Replace")
  BY DEF Refuses
<1>5. /\ id # NoJob
      /\ Superseded(reg, u, "Stop", "Replace") = {}
  <2>1. reg.nextId # NoJob /\ \A j \in Installed(reg) : j # NoJob
    BY <1>1, JobIdIsNat DEF Sound, IsRegistry
  <2> QED BY <1>3, <1>4, <2>1 DEF CreatedId, Superseded, Merges
<1>6. \A j \in Installed(a) : a.jobs[j].kind = "Stop"
  <2>1. IsRegistry(reg)
    BY <1>1 DEF Sound
  <2>2. CASE HasJob(reg, u)
    <3> DEFINE k == reg.byUnit[u]
    <3>1. a = [reg EXCEPT !.jobs[k].kind = "Stop"]
      BY <1>1, <1>2, <1>3, <2>1, <2>2 DEF Create, Refuses, IsRegistry, Installed
    <3> HIDE DEF a, k
    <3> QED BY <1>1, <2>1, <3>1 DEF Installed, IsRegistry, Job
  <2>3. CASE ~HasJob(reg, u)
    <3>1. a = Install(reg, u, "Stop")
      BY <2>3, <1>4 DEF Create, Merges
    <3> HIDE DEF a
    <3> QED BY <1>1, <3>1 DEF Install, With, Installed
  <2> QED BY <2>2, <2>3
<1>7. Sound(a) /\ id \in Installed(a) /\ Wakes(reg, a, {})
  <2>1. "Stop" \in Kind /\ "Replace" \in Mode
    BY DEF Kind, Mode
  <2>2. Sound(a) /\ (id # NoJob => id \in Installed(a))
    BY <1>1, <2>1, CreateSound
  <2>3. Wakes(reg, a, {})
    BY <1>1, <1>5, <2>1, CreateWakes
  <2> QED BY <1>5, <2>2, <2>3
<1> HIDE DEF a
<1>8. /\ Sound(b) /\ Installed(b) = Installed(a) /\ SameClients(a, b)
      /\ \A j \in Installed(b) : b.jobs[j].kind = "Stop"
  <2>1. Sound(b) /\ Installed(b) = Installed(a) /\ SameClients(a, b)
    BY <1>7, SetStateSound, SameInstalled, FieldsKeepClients DEF State
  <2>2. \A j \in Installed(a) : b.jobs[j].kind = a.jobs[j].kind
    BY <1>7 DEF SetState, Installed, Sound, IsRegistry, Job
  <2> QED BY <1>6, <2>1, <2>2
<1> HIDE DEF b
<1>9. /\ Sound(reg') /\ Installed(reg') = Installed(b)
      /\ \A j \in Installed(reg') : reg'.jobs[j].kind = "Stop"
  <2>1. Sound(reg') /\ Installed(reg') = Installed(b)
    BY <1>1, <1>8, AddWaiterSound, SameInstalled
  <2>2. \A j \in Installed(b) : reg'.jobs[j].kind = b.jobs[j].kind
    BY <1>1, <1>8 DEF AddWaiter, Installed, Sound, IsRegistry, Job
  <2> QED BY <1>8, <2>1, <2>2
<1>10. /\ id \in JobId
       /\ \A x \in Waiter : On(b, x) \subseteq On(reg', x)
       /\ id \in On(reg', c)
  <2>1. id \in Installed(b) /\ id \in JobId
    BY <1>7, <1>8 DEF Sound, IsRegistry
  <2> QED BY <1>1, <1>8, <2>1, AddWaiterAttaches
<1>11. \A x \in Waiter : On(reg, x) \subseteq On(b, x)
  <2>1. PICK gone \in JobId \cup {NoJob} :
          /\ {} = Woken(reg, gone)
          /\ \A x \in Waiter : On(a, x) = On(reg, x) \ {gone}
    BY <1>7 DEF Wakes
  <2>2. \A x \in Waiter : gone \notin On(reg, x)
    BY <2>1 DEF Woken, On
  <2> QED BY <1>8, <2>1, <2>2 DEF SameClients
<1>12. ASSUME \A j \in JobId : JobHeld(j) => JobHeld(j)', JobHeld(id)'
       PROVE  ClientsHeld'
  <2> SUFFICES ASSUME NEW x \in Waiter, asked'[x] # NoUnit, x \notin answered'
               PROVE  \E j \in On(reg', x) : JobHeld(j)'
    BY DEF ClientsHeld
  <2>1. CASE x = c
    BY <1>10, <1>12, <2>1
  <2>2. CASE x # c
    <3>1. PICK j \in On(reg, x) : JobHeld(j)
      BY <1>1, <2>2 DEF ClientsHeld
    <3>2. j \in JobId
      BY <1>1 DEF On, Sound, IsRegistry
    <3> QED BY <1>10, <1>11, <1>12, <3>1, <3>2
  <2> QED BY <2>1, <2>2
<1>13. OnlyStops'
  BY <1>9 DEF OnlyStops
<1> QED BY <1>10, <1>12, <1>13

-----------------------------------------------------------------------------
(* The steps. *)

(* A step that leaves the graph and the chains alone.                      *)
LEMMA CarriedKept ==
    ASSUME Shape, GraphInv, Carried,
           UNCHANGED << parked, active, counts, owed, rootJobs >>
    PROVE  GraphInv' /\ \A j \in JobId : JobHeld(j) => JobHeld(j)'
<1>1. Domains' /\ OwedByActive'
  BY DEF GraphInv, Domains, OwedByActive
<1>2. CountsBacked'
  <2> SUFFICES ASSUME NEW p \in active' PROVE counts'[p] <= Outstanding(p)'
    BY DEF CountsBacked
  <2>1. p \in active /\ p \in Unit
    BY DEF Shape, TypeOK
  <2>2. Outstanding(p)' = Outstanding(p)
    BY <2>1 DEF Outstanding, Carried
  <2> QED BY <2>1, <2>2 DEF GraphInv, CountsBacked
<1>3. ActiveMoves'
  <2> SUFFICES ASSUME NEW u \in active' PROVE counts'[u] > 0 \/ Busy(u)'
    BY DEF ActiveMoves
  <2>1. u \in active /\ u \in Unit
    BY DEF Shape, TypeOK
  <2>2. Busy(u) => Busy(u)'
    BY <2>1 DEF Busy, Parked, Carried
  <2> QED BY <2>1, <2>2 DEF GraphInv, ActiveMoves
<1>4. ASSUME NEW j \in JobId, JobHeld(j) PROVE JobHeld(j)'
  BY <1>4 DEF JobHeld, Carried
<1> QED BY <1>1, <1>2, <1>3, <1>4 DEF GraphInv

LEMMA QuietStep ==
    ASSUME StopInv,
           \/ Take \/ NextLeaf \/ NextTree \/ TreesDone \/ Collect
           \/ NextCollected \/ CreditsDone \/ (\E u \in Unit : Restart(u))
    PROVE  StopInv'
<1>1. Shape /\ GraphInv /\ OnlyStops /\ ClientsHeld
  BY DEF StopInv
<1>2. Carried
  <2>1. CASE \E u \in Unit : Restart(u)
    BY <1>1, <2>1 DEF Restart, Carried, Begins, Shape
  <2> QED BY <1>1, <2>1, TakeCarried, LoopCarried
<1>3. UNCHANGED << parked, active, counts, owed, rootJobs >> /\ FinishNoJob
  BY DEF Take, NextLeaf, NextTree, TreesDone, Collect, NextCollected,
         CreditsDone, Restart, graph, FinishNoJob
<1>4. GraphInv' /\ OnlyStops' /\ ClientsHeld'
  BY <1>1, <1>2, <1>3, CarriedKept, QuietClients
<1>5. TypeOK'
  <2>1. after' \subseteq Unit
    BY <1>1 DEF Take, NextLeaf, NextTree, TreesDone, Collect, NextCollected,
                CreditsDone, Restart, graph, Shape, TypeOK
  <2>2. /\ status' \in [Unit -> {"NeverStarted", "Started", "Stopping", "Stopped"}]
        /\ restarts' \in 0 .. MaxRestarts
    <3>1. CASE \E u \in Unit : Restart(u)
      BY <1>1, <3>1, StopGraphAssumption DEF Restart, Shape, TypeOK
    <3>2. CASE status' = status /\ restarts' = restarts
      BY <1>1, <3>2 DEF Shape, TypeOK
    <3> QED BY <3>1, <3>2 DEF Take, NextLeaf, NextTree, TreesDone, Collect,
                              NextCollected, CreditsDone
  <2> QED BY <1>1, <1>3, <2>1, <2>2 DEF Shape, TypeOK, FinishNoJob, clients
<1> QED BY <1>2, <1>4, <1>5 DEF StopInv, Shape, Carried

LEMMA RequestStep ==
    ASSUME StopInv, NEW c \in Waiter, NEW u \in Unit, RequestStop(c, u)
    PROVE  StopInv'
<1>1. Shape /\ GraphInv /\ OnlyStops /\ ClientsHeld /\ TypeOK
  BY DEF StopInv, Shape
<1>2. PICK id : id = CreatedId(reg, u, "Stop", "Replace")
  OBVIOUS
<1>3. /\ OnlyStops' /\ id \in JobId
      /\ (\A j \in JobId : JobHeld(j) => JobHeld(j)') /\ JobHeld(id)' => ClientsHeld'
  BY <1>1, <1>2, RequestClients DEF TypeOK
<1> DEFINE e == [op |-> "begin", unit |-> u, job |-> id]
<1>4. e \in Event /\ e.op = "begin" /\ e.job = id
  BY <1>3 DEF Event
<1>5. queue' = Append(queue, e) /\ work' = work
  BY <1>2 DEF RequestStop, StopTree
<1> HIDE DEF e
<1>6. queue' \in Seq(Event) /\ Frames(queue') = Frames(queue) \cup {e}
  BY <1>1, <1>4, <1>5, QueueAppend DEF Shape
<1>7. Carried /\ e \in Begins'
  BY <1>1, <1>4, <1>5, <1>6 DEF Carried, Begins, Shape
<1>8. UNCHANGED << parked, active, counts, owed, rootJobs >>
  BY DEF RequestStop, graph
<1>9. GraphInv' /\ ClientsHeld'
  BY <1>1, <1>3, <1>4, <1>7, <1>8, CarriedKept DEF JobHeld
<1>10. TypeOK'
  <2>1. IsRegistry(reg')
    BY <1>3 DEF OnlyStops, Sound
  <2> QED BY <1>1, <1>8, <2>1 DEF RequestStop, graph, TypeOK
<1> QED BY <1>3, <1>7, <1>9, <1>10 DEF StopInv, Shape, Carried

(* begin_stop_tree returns at once, with or without a job to finish.       *)
LEMMA BeginReturns ==
    ASSUME StopInv, Running("begin"), Return(<< >>), rootJobs' = rootJobs,
           UNCHANGED << status, parked, active, counts, owed, after, queue, restarts >>,
           IF Top.job # NoJob THEN FinishJob(Top.job) ELSE FinishNoJob
    PROVE  StopInv'
<1>1. /\ Shape /\ GraphInv /\ OnlyStops /\ ClientsHeld /\ TypeOK
      /\ work \in Seq(Frame) /\ ~Idle /\ Top.op = "begin"
  BY DEF StopInv, Shape, Running, Idle
<1>2. /\ Top \in Frame /\ Frames(work) = Frames(Callers) \cup {Top}
      /\ \A p \in Unit : CreditSum(work, p) = CreditSum(Callers, p) + CreditOf(Top, p)
      /\ \A p \in Unit : CreditSum(Callers, p) \in Nat
  BY <1>1, StackBase
<1>3. /\ work' \in Seq(Frame) /\ Frames(work') = Frames(Callers)
      /\ \A p \in Unit : CreditSum(work', p) = CreditSum(Callers, p)
  BY <1>1, ReturnNone
<1>4. Top.job \in JobId \cup {NoJob}
  BY <1>1, <1>2 DEF Frame, Event
<1>5. PICK id : id = Top.job
  OBVIOUS
<1>6. Begins \ {Top} \subseteq Begins'
  BY <1>2, <1>3 DEF Begins
<1>7. ASSUME NEW j \in JobId \ {id}, JobHeld(j) PROVE JobHeld(j)'
  <2>1. CASE \E f \in Begins : f.job = j
    <3>1. PICK f \in Begins : f.job = j
      BY <2>1
    <3>2. f # Top
      BY <1>5, <1>7, <3>1
    <3> QED BY <1>6, <3>1, <3>2 DEF JobHeld
  <2> QED BY <1>7, <2>1 DEF JobHeld
<1>8. OnlyStops' /\ ClientsHeld'
  <2>1. CASE id # NoJob
    <3>1. id \in JobId /\ FinishJob(id)
      BY <1>4, <1>5, <2>1
    <3> QED BY <1>1, <1>7, <3>1, FinishClients
  <2>2. CASE id = NoJob
    <3>1. FinishNoJob /\ \A j \in JobId : j # id
      BY <1>5, <2>2, JobIdIsNat
    <3> QED BY <1>1, <1>7, <3>1, QuietClients
  <2> QED BY <2>1, <2>2
<1>9. GraphInv'
  <2>1. Domains' /\ OwedByActive'
    BY <1>1 DEF GraphInv, Domains, OwedByActive
  <2>2. \A p \in Unit : CreditSum(work', p) = CreditSum(work, p)
    BY <1>1, <1>2, <1>3 DEF CreditOf
  <2>3. ASSUME NEW p \in active PROVE Outstanding(p)' = Outstanding(p)
    BY <1>1, <2>2 DEF Outstanding, TypeOK
  <2>4. CountsBacked'
    BY <1>1, <2>3 DEF GraphInv, CountsBacked
  <2>5. ASSUME NEW u \in active PROVE Busy(u) => Busy(u)'
    BY <1>1, <1>2, <1>3 DEF Busy, Parked, Drives
  <2>6. ActiveMoves'
    BY <1>1, <2>5 DEF GraphInv, ActiveMoves
  <2> QED BY <2>1, <2>4, <2>6 DEF GraphInv
<1>10. TypeOK'
  <2>1. IsRegistry(reg') /\ asked' = asked
    BY <1>8 DEF OnlyStops, Sound, FinishJob, FinishNoJob, clients
  <2>2. answered' \subseteq Waiter
    <3>1. Woken(reg, Top.job) \subseteq Waiter
      BY <1>1 DEF Woken, TypeOK, IsRegistry, Job
    <3> QED BY <1>1, <3>1 DEF FinishJob, FinishNoJob, clients, TypeOK
  <2> QED BY <1>1, <2>1, <2>2 DEF TypeOK
<1> QED BY <1>1, <1>3, <1>8, <1>9, <1>10 DEF StopInv, Shape

LEMMA BeginStep ==
    ASSUME StopInv, BeginDuplicate \/ BeginEmpty
    PROVE  StopInv'
<1>1. CASE BeginDuplicate
  BY <1>1, BeginReturns DEF BeginDuplicate, graph
<1>2. CASE BeginEmpty
  <2>1. /\ Top.unit \notin active /\ DOMAIN rootJobs \subseteq active
        /\ rootJobs \in [DOMAIN rootJobs -> JobId]
    BY <1>2 DEF BeginEmpty, StopInv, GraphInv, Domains, Shape, TypeOK
  <2>2. Top.unit \notin DOMAIN rootJobs
    BY <2>1
  <2>3. Without(RootJobs, Top.unit) = rootJobs
    <3>1. CASE Top.job = NoJob
      BY <2>1, <2>2, <3>1 DEF RootJobs, Without
    <3>2. CASE Top.job # NoJob
      BY <2>1, <2>2, <3>2 DEF RootJobs, Without, With
    <3> QED BY <3>1, <3>2
  <2>4. IF Top.job # NoJob THEN FinishJob(Top.job) ELSE FinishNoJob
    <3>1. CASE Top.job = NoJob
      BY <1>2, <2>2, <3>1 DEF BeginEmpty, FinishRoot, RootJobs
    <3>2. CASE Top.job # NoJob
      <4>1. Top.unit \in DOMAIN RootJobs /\ RootJobs[Top.unit] = Top.job
        BY <3>2 DEF RootJobs, With
      <4> QED BY <1>2, <3>2, <4>1 DEF BeginEmpty, FinishRoot
    <3> QED BY <3>1, <3>2
  <2>5. rootJobs' = rootJobs
    BY <1>2, <2>3 DEF BeginEmpty, FinishRoot
  <2> QED BY <1>2, <2>4, <2>5, BeginReturns DEF BeginEmpty
<1> QED BY <1>1, <1>2

(* The edges that a tree adds for one parent, counted from either end.     *)
LEMMA NewEdges ==
    ASSUME NEW act \in SUBSET Unit, NEW p \in Unit
    PROVE  LET n == Cardinality(RequiredBy[p] \cap act)
                      + Cardinality(PartOfBy[p] \cap act)
                      + Cardinality(BoundBy[p] \cap act)
           IN  /\ Total(Unit, [c \in Unit |-> IF c \in act THEN Edges(c, p) ELSE 0]) = n
               /\ n \in Nat
<1> DEFINE A == RequiredBy[p] \cap act
           B == PartOfBy[p] \cap act
           C == BoundBy[p] \cap act
           a == [c \in Unit |-> Occurs(c, A)]
           b == [c \in Unit |-> Occurs(c, B)]
           d == [c \in Unit |-> Occurs(c, C)]
           ab == [c \in Unit |-> a[c] + b[c]]
           e == [c \in Unit |-> IF c \in act THEN Edges(c, p) ELSE 0]
<1>1. IsFiniteSet(Unit) /\ A \in SUBSET Unit /\ B \in SUBSET Unit /\ C \in SUBSET Unit
  BY StopGraphAssumption
<1>2. \A c \in Unit : e[c] = ab[c] + d[c]
  BY DEF Edges, Occurs
<1>3. /\ \A c \in Unit : a[c] \in Nat /\ b[c] \in Nat /\ d[c] \in Nat /\ ab[c] \in Nat
      /\ \A c \in Unit : ab[c] = a[c] + b[c]
      /\ \A c \in Unit : a[c] = Occurs(c, A) /\ b[c] = Occurs(c, B) /\ d[c] = Occurs(c, C)
  BY DEF Occurs
<1>4. Cardinality(A) \in Nat /\ Cardinality(B) \in Nat /\ Cardinality(C) \in Nat
  BY <1>1, FS_Subset, FS_CardinalityType
<1> HIDE DEF A, B, C, a, b, d, ab, e
<1>5. Total(Unit, a) = Cardinality(A)
  BY <1>1, <1>3, TotalOccurs
<1>6. Total(Unit, b) = Cardinality(B)
  BY <1>1, <1>3, TotalOccurs
<1>7. Total(Unit, d) = Cardinality(C)
  BY <1>1, <1>3, TotalOccurs
<1>8. Total(Unit, ab) = Total(Unit, a) + Total(Unit, b)
  BY <1>1, <1>3, TotalSum
<1>9. Total(Unit, e) = Total(Unit, ab) + Total(Unit, d)
  BY <1>1, <1>2, <1>3, TotalSum
<1>10. Total(Unit, e) = Cardinality(A) + Cardinality(B) + Cardinality(C)
  BY <1>4, <1>5, <1>6, <1>7, <1>8, <1>9
<1> QED BY <1>4, <1>10 DEF A, B, C, e

LEMMA MembersProps ==
    ASSUME NEW root \in Unit, Members(root) # {}
    PROVE  Members(root) \subseteq Unit /\ root \in Members(root)
  BY DEF Members

(* The sums before and after: what a tree adds to the count of a member is *)
(* what its children now owe it.                                           *)
LEMMA TreeSums ==
    ASSUME StopInv, BeginTree, NEW p \in Unit
    PROVE  LET members == Members(Top.unit)
               old == IF p \in active THEN counts[p] ELSE 0
           IN  \E k \in Nat :
                 /\ Outstanding(p) \in Nat /\ old \in Nat
                 /\ Outstanding(p)' = Outstanding(p) + k
                 /\ p \in active \cup members => counts'[p] = old + k
                 /\ p \notin members => k = 0
<1>1. /\ Shape /\ GraphInv /\ OnlyStops /\ ClientsHeld /\ TypeOK
      /\ work \in Seq(Frame) /\ ~Idle /\ Top.op = "begin"
  BY DEF StopInv, Shape, BeginTree, Running, Idle
<1>2. /\ Top \in Frame /\ Frames(work) = Frames(Callers) \cup {Top}
      /\ \A q \in Unit : CreditSum(work, q) = CreditSum(Callers, q) + CreditOf(Top, q)
      /\ \A q \in Unit : CreditSum(Callers, q) \in Nat
  BY <1>1, StackBase
<1>3. Top.unit \in Unit /\ Top.job \in JobId \cup {NoJob}
  BY <1>1, <1>2 DEF Frame, Event
<1> DEFINE members == Members(Top.unit)
           act == active \cup members
           new == [q \in DOMAIN counts \cup members |-> CountWith(members, q)]
           f   == [op |-> "chains", units |-> {u \in members : new[u] = 0}]
<1>4. /\ Top.unit \notin active /\ members # {}
      /\ rootJobs' = RootJobs /\ active' = act /\ counts' = new
      /\ owed' = [c \in Unit |-> [q \in Unit |->
                    owed[c][q] + IF c \in act /\ q \in members THEN Edges(c, q) ELSE 0]]
      /\ after' = after \cup {u \in members : PropagatesTo[u] # {}}
      /\ Return(<< f >>)
      /\ UNCHANGED << status, parked, queue, restarts >> /\ FinishNoJob
  BY DEF BeginTree, FinishNoJob
<1>5. members \subseteq Unit /\ Top.unit \in members /\ act \subseteq Unit
  BY <1>1, <1>3, <1>4, MembersProps DEF TypeOK
<1> HIDE DEF members
<1>6. f \in Frame /\ f.op = "chains" /\ f.units = {u \in members : new[u] = 0}
  BY <1>5 DEF Frame
<1> HIDE DEF f
<1>7. /\ work' \in Seq(Frame) /\ Frames(work') = Frames(Callers) \cup {f}
      /\ \A q \in Unit : CreditSum(work', q) = CreditSum(Callers, q) + CreditOf(f, q)
  BY <1>1, <1>4, <1>6, ReturnOne
<1>8. \A q \in Unit : CreditSum(work', q) = CreditSum(work, q)
                      /\ CreditSum(work, q) \in Nat
  BY <1>1, <1>2, <1>6, <1>7 DEF CreditOf
<1> DEFINE old == IF p \in active THEN counts[p] ELSE 0
           o == [c \in Unit |-> owed[c][p]]
           e == [c \in Unit |-> IF c \in act /\ p \in members THEN Edges(c, p) ELSE 0]
           g == [c \in Unit |-> owed'[c][p]]
           n == Cardinality(RequiredBy[p] \cap act)
                  + Cardinality(PartOfBy[p] \cap act)
                  + Cardinality(BoundBy[p] \cap act)
           k == IF p \in members THEN n ELSE 0
<1>9. IsFiniteSet(Unit) /\ DOMAIN counts = active /\ old \in Nat
  BY <1>1, StopGraphAssumption DEF GraphInv, Domains, TypeOK
<1>10. \A c \in Unit : o[c] \in Nat /\ e[c] \in Nat /\ g[c] = o[c] + e[c]
  BY <1>1, <1>4 DEF TypeOK, Edges, Occurs
<1>11. n \in Nat /\ k \in Nat
  BY <1>5, NewEdges
<1>12. Total(Unit, e) = k
  <2>1. CASE p \in members
    <3>1. e = [c \in Unit |-> IF c \in act THEN Edges(c, p) ELSE 0]
      BY <2>1
    <3> QED BY <1>5, <2>1, <3>1, NewEdges
  <2>2. CASE p \notin members
    <3>1. \A c \in Unit : e[c] = Occurs(c, {})
      BY <2>2 DEF Occurs
    <3> HIDE DEF e
    <3>2. Total(Unit, e) = Cardinality({})
      BY <1>9, <3>1, TotalOccurs
    <3> QED BY <2>2, <3>2, FS_EmptySet
  <2> QED BY <2>1, <2>2
<1>13. p \in act => counts'[p] = old + k
  <2>1. Cardinality(RequiredBy[p] \cap act) \in Nat
        /\ Cardinality(PartOfBy[p] \cap act) \in Nat
        /\ Cardinality(BoundBy[p] \cap act) \in Nat
    BY <1>5, <1>9, StopGraphAssumption, FS_Subset, FS_CardinalityType
  <2> QED BY <1>4, <1>9, <2>1 DEF CountWith
<1>14. Outstanding(p) = Total(Unit, o) + CreditSum(work, p)
       /\ Outstanding(p)' = Total(Unit, g) + CreditSum(work', p)
  BY DEF Outstanding
<1> HIDE DEF o, e, g, n, new
<1>15. Total(Unit, g) = Total(Unit, o) + Total(Unit, e) /\ Total(Unit, o) \in Nat
  BY <1>9, <1>10, TotalSum, PairsFinite
<1>16. Outstanding(p) \in Nat /\ Outstanding(p)' = Outstanding(p) + k
  BY <1>8, <1>11, <1>12, <1>14, <1>15
<1> QED BY <1>9, <1>11, <1>13, <1>16 DEF members

LEMMA TreeStep ==
    ASSUME StopInv, BeginTree
    PROVE  StopInv'
<1>1. /\ Shape /\ GraphInv /\ OnlyStops /\ ClientsHeld /\ TypeOK
      /\ work \in Seq(Frame) /\ ~Idle /\ Top.op = "begin"
  BY DEF StopInv, Shape, BeginTree, Running, Idle
<1>2. /\ Top \in Frame /\ Frames(work) = Frames(Callers) \cup {Top}
      /\ \A p \in Unit : CreditSum(work, p) = CreditSum(Callers, p) + CreditOf(Top, p)
      /\ \A p \in Unit : CreditSum(Callers, p) \in Nat
  BY <1>1, StackBase
<1>3. Top.unit \in Unit /\ Top.job \in JobId \cup {NoJob}
  BY <1>1, <1>2 DEF Frame, Event
<1> DEFINE members == Members(Top.unit)
           act == active \cup members
           new == [p \in DOMAIN counts \cup members |-> CountWith(members, p)]
           f   == [op |-> "chains", units |-> {u \in members : new[u] = 0}]
<1>4. /\ Top.unit \notin active /\ members # {}
      /\ rootJobs' = RootJobs /\ active' = act /\ counts' = new
      /\ owed' = [c \in Unit |-> [p \in Unit |->
                    owed[c][p] + IF c \in act /\ p \in members THEN Edges(c, p) ELSE 0]]
      /\ after' = after \cup {u \in members : PropagatesTo[u] # {}}
      /\ Return(<< f >>)
      /\ UNCHANGED << status, parked, queue, restarts >> /\ FinishNoJob
  BY DEF BeginTree, FinishNoJob
<1>5. members \subseteq Unit /\ Top.unit \in members /\ act \subseteq Unit
  BY <1>1, <1>3, <1>4, MembersProps DEF TypeOK
<1> HIDE DEF members
<1>6. f \in Frame /\ f.op = "chains" /\ f.units = {u \in members : new[u] = 0}
  BY <1>5 DEF Frame
<1> HIDE DEF f
<1>7. /\ work' \in Seq(Frame) /\ Frames(work') = Frames(Callers) \cup {f}
      /\ \A p \in Unit : CreditSum(work', p) = CreditSum(Callers, p) + CreditOf(f, p)
  BY <1>1, <1>4, <1>6, ReturnOne
<1>8. \A p \in Unit : CreditSum(work', p) = CreditSum(work, p)
                      /\ CreditSum(work, p) \in Nat
  BY <1>1, <1>2, <1>6, <1>7 DEF CreditOf
<1>9. ASSUME NEW p \in act
      PROVE  /\ new[p] \in Nat
             /\ p \notin members => new[p] = counts[p] /\ p \in active
             /\ Outstanding(p)' \in Nat
             /\ new[p] <= Outstanding(p)'
  <2> DEFINE old == IF p \in active THEN counts[p] ELSE 0
  <2>1. p \in Unit
    BY <1>5
  <2>2. PICK k \in Nat : /\ Outstanding(p) \in Nat /\ old \in Nat
                         /\ Outstanding(p)' = Outstanding(p) + k
                         /\ counts'[p] = old + k
                         /\ p \notin members => k = 0
    BY <2>1, TreeSums DEF members
  <2>3. old <= Outstanding(p)
    BY <1>1, <2>2 DEF GraphInv, CountsBacked
  <2>4. new[p] = old + k
    BY <1>4, <2>2
  <2> HIDE DEF new
  <2> QED BY <2>2, <2>3, <2>4
<1>10. DOMAIN new = act /\ DOMAIN counts = active
  BY <1>1 DEF GraphInv, Domains
<1>11. /\ RootJobs \in [DOMAIN RootJobs -> JobId]
       /\ DOMAIN RootJobs \subseteq act
       /\ \A u \in DOMAIN rootJobs : u \in DOMAIN RootJobs /\ RootJobs[u] = rootJobs[u]
       /\ Top.job # NoJob => Top.unit \in DOMAIN RootJobs /\ RootJobs[Top.unit] = Top.job
  <2>1. /\ rootJobs \in [DOMAIN rootJobs -> JobId] /\ DOMAIN rootJobs \subseteq active
        /\ Top.unit \notin DOMAIN rootJobs
    BY <1>1, <1>4 DEF TypeOK, GraphInv, Domains
  <2> QED BY <1>3, <1>5, <2>1 DEF RootJobs, With
<1>12. TypeOK'
  <2>1. counts' \in [DOMAIN counts' -> Nat] /\ DOMAIN counts' \subseteq Unit
    BY <1>4, <1>5, <1>9, <1>10
  <2>2. owed' \in [Unit -> [Unit -> Nat]]
    BY <1>1, <1>4 DEF TypeOK, Edges, Occurs
  <2>3. /\ rootJobs' \in [DOMAIN rootJobs' -> JobId]
        /\ DOMAIN rootJobs' \subseteq Unit
    BY <1>4, <1>5, <1>11
  <2>4. active' \subseteq Unit /\ after' \subseteq Unit
    BY <1>1, <1>4, <1>5 DEF TypeOK
  <2> HIDE DEF new
  <2> QED BY <1>1, <1>4, <2>1, <2>2, <2>3, <2>4 DEF TypeOK, FinishNoJob, clients
<1>13. GraphInv'
  <2>1. Domains'
    BY <1>4, <1>10, <1>11 DEF Domains
  <2>2. OwedByActive'
    <3> SUFFICES ASSUME NEW c \in Unit, NEW p \in Unit, owed'[c][p] > 0
                 PROVE  c \in active' /\ c \in Dependents(p)
      BY DEF OwedByActive
    <3>1. CASE owed[c][p] > 0
      BY <1>1, <1>4, <3>1 DEF GraphInv, OwedByActive
    <3>2. CASE ~(owed[c][p] > 0)
      <4>1. owed[c][p] = 0
        BY <1>1, <3>2 DEF TypeOK
      <4> DEFINE n == IF c \in act /\ p \in members THEN Edges(c, p) ELSE 0
      <4>3. owed'[c][p] = owed[c][p] + n /\ n \in Nat
        BY <1>4 DEF Edges, Occurs
      <4>2. c \in act /\ p \in members /\ Edges(c, p) > 0
        <5> HIDE DEF act
        <5> QED BY <4>1, <4>3
      <4> QED BY <1>4, <4>2 DEF Edges, Occurs, Dependents
    <3> QED BY <3>1, <3>2
  <2>3. CountsBacked'
    BY <1>4, <1>9 DEF CountsBacked
  <2>4. ActiveMoves'
    <3> SUFFICES ASSUME NEW u \in act PROVE new[u] > 0 \/ Busy(u)'
      BY <1>4 DEF ActiveMoves
    <3>1. CASE u \in members
      <4>1. CASE new[u] = 0
        BY <1>6, <1>7, <3>1, <4>1 DEF Busy, Drives
      <4> HIDE DEF new
      <4> QED BY <1>9, <4>1
    <3>2. CASE u \notin members
      <4>1. u \in active /\ new[u] = counts[u]
        BY <1>9, <3>2
      <4>2. Busy(u) => Busy(u)'
        BY <1>1, <1>2, <1>4, <1>7 DEF Busy, Parked, Drives
      <4> HIDE DEF new
      <4> QED BY <1>1, <4>1, <4>2 DEF GraphInv, ActiveMoves
    <3> QED BY <3>1, <3>2
  <2> QED BY <2>1, <2>2, <2>3, <2>4 DEF GraphInv
<1>14. ASSUME NEW j \in JobId, JobHeld(j) PROVE JobHeld(j)'
  <2>1. CASE \E u \in DOMAIN rootJobs : rootJobs[u] = j
    BY <1>4, <1>11, <2>1 DEF JobHeld
  <2>2. ASSUME NEW b \in Begins, b.job = j PROVE JobHeld(j)'
    <3>1. CASE b = Top
      <4>1. Top.job = j /\ Top.job # NoJob
        BY <2>2, <3>1, JobIdIsNat
      <4> QED BY <1>4, <1>11, <4>1 DEF JobHeld
    <3>2. CASE b # Top
      <4>1. b \in Begins'
        BY <1>2, <1>4, <1>7, <3>2 DEF Begins
      <4> QED BY <2>2, <4>1 DEF JobHeld
    <3> QED BY <3>1, <3>2
  <2> QED BY <1>14, <2>1, <2>2 DEF JobHeld
<1>15. OnlyStops' /\ ClientsHeld'
  BY <1>1, <1>4, <1>14, QuietClients
<1> QED BY <1>1, <1>4, <1>7, <1>12, <1>13, <1>15 DEF StopInv, Shape

(* A step of u's chain parks it again or calls on_stop_chain_finished.     *)
Chains == [Unit -> [Phase -> Nat]]

Moved(u) ==
    /\ parked' \in Chains
    /\ status' \in [Unit -> {"NeverStarted", "Started", "Stopping", "Stopped"}]
    /\ \A v \in Unit \ {u} : parked'[v] = parked[v]
    /\ \/ Return(<< >>) /\ Parked(u)'
       \/ Return(Finished(u))

LEMMA ParkProps ==
    ASSUME NEW p \in Chains, NEW u \in Unit, NEW ph \in Phase
    PROVE  /\ Park(p, u, ph) \in Chains
           /\ Park(p, u, ph)[u][ph] > 0
           /\ \A v \in Unit \ {u} : Park(p, u, ph)[v] = p[v]
  BY DEF Park, Chains

LEMMA UnparkProps ==
    ASSUME parked \in Chains, NEW u \in Unit, NEW ph \in Phase, parked[u][ph] > 0
    PROVE  /\ Unpark(u, ph) \in Chains
           /\ \A v \in Unit \ {u} : Unpark(u, ph)[v] = parked[v]
  BY DEF Unpark, Chains

LEMMA PostMoves ==
    ASSUME TypeOK, NEW u \in Unit, NEW p \in Chains, NEW st,
           st \in [Unit -> {"NeverStarted", "Started", "Stopping", "Stopped"}],
           \A v \in Unit \ {u} : p[v] = parked[v],
           PostPhase(u, p, st) \/ Finalize(u, p)
    PROVE  Moved(u)
<1>1. CASE Finalize(u, p)
  BY <1>1 DEF Finalize, Moved, TypeOK
<1>2. CASE u \in ExecStopPost /\ status' = st
           /\ parked' = Park(p, u, "post") /\ Return(<< >>)
  <2>1. "post" \in Phase
    BY DEF Phase
  <2>2. /\ parked' \in Chains /\ parked'[u]["post"] > 0
        /\ \A v \in Unit \ {u} : parked'[v] = parked[v]
    BY <1>2, <2>1, ParkProps
  <2> QED BY <1>2, <2>1, <2>2 DEF Moved, Parked
<1> QED BY <1>1, <1>2 DEF PostPhase

LEMMA TermMoves ==
    ASSUME TypeOK, NEW u \in Unit, NEW p \in Chains,
           \A v \in Unit \ {u} : p[v] = parked[v], TermPhase(u, p)
    PROVE  Moved(u)
<1> DEFINE st == [status EXCEPT ![u] = IF @ = "Stopped" THEN @ ELSE "Stopping"]
<1>1. st \in [Unit -> {"NeverStarted", "Started", "Stopping", "Stopped"}]
  BY DEF TypeOK
<1>2. CASE status' = st /\ parked' = Park(p, u, "main") /\ Return(<< >>)
  <2>1. "main" \in Phase
    BY DEF Phase
  <2>2. /\ parked' \in Chains /\ parked'[u]["main"] > 0
        /\ \A v \in Unit \ {u} : parked'[v] = parked[v]
    BY <1>2, <2>1, ParkProps
  <2> QED BY <1>1, <1>2, <2>1, <2>2 DEF Moved, Parked
<1>3. CASE PostPhase(u, p, st)
  <2> HIDE DEF st
  <2> QED BY <1>1, <1>3, PostMoves
<1> QED BY <1>2, <1>3 DEF TermPhase

LEMMA StartMoves ==
    ASSUME Shape, StartChain, NEW u, u = Top.unit
    PROVE  u \in Unit /\ Moved(u)
<1>1. TypeOK /\ work \in Seq(Frame) /\ ~Idle /\ Top.op = "start" /\ parked \in Chains
  BY DEF Shape, StartChain, Running, Idle, TypeOK, Chains
<1>2. Top \in Frame
  BY <1>1, StackBase
<1>3. u \in Unit
  BY <1>1, <1>2 DEF Frame, Event
<1>4. CASE StartService(u)
  <2>1. CASE parked' = Park(parked, u, "exec") /\ status' = status /\ Return(<< >>)
    <3>1. "exec" \in Phase
      BY DEF Phase
    <3>2. /\ parked' \in Chains /\ parked'[u]["exec"] > 0
          /\ \A v \in Unit \ {u} : parked'[v] = parked[v]
      BY <1>1, <1>3, <2>1, <3>1, ParkProps
    <3>3. status' \in [Unit -> {"NeverStarted", "Started", "Stopping", "Stopped"}]
      BY <1>1, <2>1 DEF TypeOK
    <3> QED BY <1>3, <2>1, <3>1, <3>2, <3>3 DEF Moved, Parked
  <2>2. CASE TermPhase(u, parked)
    BY <1>1, <1>3, <2>2, TermMoves
  <2> QED BY <1>4, <2>1, <2>2 DEF StartService
<1>5. CASE StopInline(u)
  BY <1>1, <1>3, <1>5 DEF StopInline, Moved, TypeOK
<1> QED BY <1>3, <1>4, <1>5 DEF StartChain

LEMMA AdvanceMoves ==
    ASSUME Shape, NEW u \in Unit, Advance(u)
    PROVE  Moved(u) /\ Idle
<1>1. /\ TypeOK /\ parked \in Chains /\ "exec" \in Phase /\ "main" \in Phase
      /\ "post" \in Phase /\ Idle
      /\ status \in [Unit -> {"NeverStarted", "Started", "Stopping", "Stopped"}]
  BY DEF Shape, TypeOK, Chains, Phase, Advance
<1>2. CASE parked[u]["exec"] > 0 /\ TermPhase(u, Unpark(u, "exec"))
  BY <1>1, <1>2, UnparkProps, TermMoves
<1>3. CASE parked[u]["main"] > 0 /\ PostPhase(u, Unpark(u, "main"), status)
  BY <1>1, <1>3, UnparkProps, PostMoves
<1>4. CASE parked[u]["post"] > 0 /\ Finalize(u, Unpark(u, "post"))
  BY <1>1, <1>4, UnparkProps, PostMoves
<1> QED BY <1>1, <1>2, <1>3, <1>4 DEF Advance

(* A chain that goes on: the rest of the stack and the other chains stay.  *)
LEMMA ChainGoesOn ==
    ASSUME StopInv, NEW u \in Unit, Moved(u),
           Idle \/ (~Idle /\ Top.op = "start" /\ Top.unit = u),
           UNCHANGED << graph, queue, reg, clients, restarts >>
    PROVE  StopInv'
<1>1. /\ Shape /\ GraphInv /\ OnlyStops /\ ClientsHeld /\ TypeOK
      /\ work \in Seq(Frame) /\ queue \in Seq(Event)
  BY DEF StopInv, Shape
<1>2. UNCHANGED << active, counts, owed, after, rootJobs >> /\ FinishNoJob
  BY DEF graph, FinishNoJob
<1>3. /\ \A f \in Frames(work) : f \in Frames(Callers) \/ (f.op = "start" /\ f.unit = u)
      /\ \A p \in Unit : CreditSum(work, p) = CreditSum(Callers, p)
      /\ \A p \in Unit : CreditSum(Callers, p) \in Nat
  <2>1. CASE Idle
    BY <1>1, <2>1, StackBase
  <2>2. CASE ~Idle
    BY <1>1, <2>2, StackBase DEF CreditOf
  <2> QED BY <2>1, <2>2
<1>4. /\ work' \in Seq(Frame) /\ Frames(Callers) \subseteq Frames(work')
      /\ \A p \in Unit : CreditSum(work', p) = CreditSum(work, p)
      /\ Busy(u)'
  <2>1. CASE Return(<< >>) /\ Parked(u)'
    BY <1>1, <1>3, <2>1, ReturnNone DEF Busy
  <2>2. CASE Return(Finished(u))
    <3> DEFINE f == [op |-> "finished", unit |-> u]
    <3>1. f \in Frame /\ f.op = "finished" /\ f.unit = u /\ Return(<< f >>)
      BY <2>2 DEF Frame, Finished
    <3> HIDE DEF f
    <3>2. /\ work' \in Seq(Frame) /\ Frames(work') = Frames(Callers) \cup {f}
          /\ \A p \in Unit : CreditSum(work', p) = CreditSum(Callers, p) + CreditOf(f, p)
      BY <1>1, <3>1, ReturnOne
    <3>3. Busy(u)'
      BY <3>1, <3>2 DEF Busy, Drives
    <3> QED BY <1>3, <3>1, <3>2, <3>3 DEF CreditOf
  <2> QED BY <2>1, <2>2 DEF Moved
<1>5. ASSUME NEW v \in Unit, Busy(v) PROVE Busy(v)'
  <2>1. CASE v = u
    BY <1>4, <2>1
  <2>2. CASE v # u /\ Parked(v)
    BY <2>2 DEF Moved, Parked, Busy
  <2>3. ASSUME v # u, NEW f \in Frames(work), Drives(f, v) PROVE Busy(v)'
    BY <1>3, <1>4, <2>3 DEF Drives, Busy
  <2> QED BY <1>5, <2>1, <2>2, <2>3 DEF Busy
<1>6. GraphInv'
  <2>1. Domains' /\ OwedByActive'
    BY <1>1, <1>2 DEF GraphInv, Domains, OwedByActive
  <2>2. ASSUME NEW p \in active PROVE Outstanding(p)' = Outstanding(p)
    BY <1>1, <1>2, <1>4 DEF Outstanding, TypeOK
  <2>3. CountsBacked'
    BY <1>1, <1>2, <2>2 DEF GraphInv, CountsBacked
  <2>4. ActiveMoves'
    BY <1>1, <1>2, <1>5 DEF GraphInv, ActiveMoves, TypeOK
  <2> QED BY <2>1, <2>3, <2>4 DEF GraphInv
<1>7. ASSUME NEW j \in JobId, JobHeld(j) PROVE JobHeld(j)'
  <2>1. Begins \subseteq Begins'
    BY <1>3, <1>4 DEF Begins
  <2> QED BY <1>2, <1>7, <2>1 DEF JobHeld
<1>8. OnlyStops' /\ ClientsHeld'
  BY <1>1, <1>2, <1>7, QuietClients
<1>9. TypeOK'
  BY <1>1, <1>2 DEF TypeOK, Moved, Chains, clients
<1> QED BY <1>1, <1>4, <1>6, <1>8, <1>9 DEF StopInv, Shape

LEMMA ChainStep ==
    ASSUME StopInv, StartChain \/ (\E u \in Unit : Advance(u))
    PROVE  StopInv'
<1>1. Shape
  BY DEF StopInv
<1>2. CASE StartChain
  <2>1. PICK u : u = Top.unit
    OBVIOUS
  <2>2. u \in Unit /\ Moved(u)
    BY <1>1, <1>2, <2>1, StartMoves
  <2>3. ~Idle /\ Top.op = "start" /\ UNCHANGED << graph, queue, reg, clients, restarts >>
    BY <1>2 DEF StartChain, Running, Idle
  <2> QED BY <2>1, <2>2, <2>3, ChainGoesOn
<1>3. ASSUME NEW u \in Unit, Advance(u) PROVE StopInv'
  <2>1. Moved(u) /\ Idle
    BY <1>1, <1>3, AdvanceMoves
  <2>2. UNCHANGED << graph, queue, reg, clients, restarts >>
    BY <1>3 DEF Advance
  <2> QED BY <2>1, <2>2, ChainGoesOn
<1> QED BY <1>2, <1>3

(* on_stop_chain_finished, up to the loop over the parents: what the unit  *)
(* owes moves from the graph to the stack.                                 *)
LEMMA FinishedBacked ==
    ASSUME StopInv, ChainFinished, NEW u, u = Top.unit,
           NEW f, f = [op |-> "credit", unit |-> u, owed |-> owed[u]],
           NEW p \in Unit
    PROVE  Outstanding(p)' = Outstanding(p)
<1>1. /\ TypeOK /\ work \in Seq(Frame) /\ ~Idle /\ Top.op = "finished"
      /\ owed' = [owed EXCEPT ![u] = [q \in Unit |-> 0]] /\ Return(<< f >>)
  BY DEF StopInv, Shape, ChainFinished, Running, Idle
<1>2. /\ Top \in Frame
      /\ CreditSum(work, p) = CreditSum(Callers, p) + CreditOf(Top, p)
      /\ CreditSum(Callers, p) \in Nat
  BY <1>1, StackBase
<1>3. u \in Unit /\ owed \in [Unit -> [Unit -> Nat]]
  BY <1>1, <1>2 DEF Frame, Event, TypeOK
<1>4. f \in Frame /\ f.op = "credit" /\ f.owed = owed[u]
  BY <1>3 DEF Frame
<1>5. CreditSum(work', p) = CreditSum(Callers, p) + CreditOf(f, p)
  BY <1>1, <1>4, ReturnOne
<1>6. CreditSum(work', p) = CreditSum(work, p) + owed[u][p] /\ CreditSum(work, p) \in Nat
  BY <1>1, <1>2, <1>4, <1>5 DEF CreditOf
<1> DEFINE o == [c \in Unit |-> owed[c][p]]
           g == [c \in Unit |-> owed'[c][p]]
<1>7. /\ \A c \in Unit : o[c] \in Nat /\ g[c] \in Nat
      /\ \A c \in Unit \ {u} : g[c] = o[c]
      /\ g[u] = 0 /\ o[u] = owed[u][p]
  BY <1>1, <1>3
<1>8. Outstanding(p) = Total(Unit, o) + CreditSum(work, p)
      /\ Outstanding(p)' = Total(Unit, g) + CreditSum(work', p)
  BY DEF Outstanding
<1> HIDE DEF o, g
<1>9. /\ Total(Unit, o) = Total(Unit \ {u}, o) + o[u]
      /\ Total(Unit, g) = Total(Unit \ {u}, g) + g[u]
      /\ Total(Unit \ {u}, g) = Total(Unit \ {u}, o)
      /\ Total(Unit \ {u}, o) \in Nat
  <2>1. IsFiniteSet(Unit) /\ IsFiniteSet(Unit \ {u})
    BY StopGraphAssumption, FS_RemoveElement
  <2>2. Total(Unit, o) = Total(Unit \ {u}, o) + o[u]
    BY <1>3, <1>7, <2>1, TotalSplit
  <2>3. Total(Unit, g) = Total(Unit \ {u}, g) + g[u]
    BY <1>3, <1>7, <2>1, TotalSplit
  <2>4. Total(Unit \ {u}, g) = Total(Unit \ {u}, o)
    BY <1>7, TotalSame
  <2>5. Total(Unit \ {u}, o) \in Nat
    BY <1>7, <2>1, PairsFinite
  <2> QED BY <2>2, <2>3, <2>4, <2>5
<1> QED BY <1>3, <1>6, <1>7, <1>8, <1>9

LEMMA FinishedStep ==
    ASSUME StopInv, ChainFinished
    PROVE  StopInv'
<1>1. /\ Shape /\ GraphInv /\ OnlyStops /\ ClientsHeld /\ TypeOK
      /\ work \in Seq(Frame) /\ ~Idle /\ Top.op = "finished"
  BY DEF StopInv, Shape, ChainFinished, Running, Idle
<1>2. Top \in Frame /\ Frames(work) = Frames(Callers) \cup {Top}
  BY <1>1, StackBase
<1>3. PICK u : u = Top.unit
  OBVIOUS
<1>4. PICK f : f = [op |-> "credit", unit |-> u, owed |-> owed[u]]
  OBVIOUS
<1>5. /\ active' = active \ {u} /\ counts' = Without(counts, u)
      /\ owed' = [owed EXCEPT ![u] = [p \in Unit |-> 0]]
      /\ FinishRoot(u, rootJobs) /\ Return(<< f >>)
      /\ UNCHANGED << status, parked, after, queue, restarts >>
  BY <1>3, <1>4 DEF ChainFinished
<1>6. u \in Unit /\ f \in Frame /\ f.op = "credit"
  BY <1>1, <1>2, <1>3, <1>4 DEF Frame, Event, TypeOK
<1>7. work' \in Seq(Frame) /\ Frames(work') = Frames(Callers) \cup {f}
  BY <1>1, <1>5, <1>6, ReturnOne
<1>8. /\ DOMAIN counts' = active' /\ counts' \in [active' -> Nat]
      /\ \A p \in active' : counts'[p] = counts[p]
  BY <1>1, <1>5 DEF Without, GraphInv, Domains, TypeOK
<1>9. /\ DOMAIN rootJobs' \subseteq active' /\ rootJobs' \in [DOMAIN rootJobs' -> JobId]
      /\ \A v \in DOMAIN rootJobs \ {u} : v \in DOMAIN rootJobs' /\ rootJobs'[v] = rootJobs[v]
  <2>1. rootJobs' = Without(rootJobs, u)
    BY <1>5 DEF FinishRoot
  <2> QED BY <1>1, <1>5, <2>1 DEF Without, GraphInv, Domains, TypeOK
<1>10. GraphInv'
  <2>1. Domains'
    BY <1>8, <1>9 DEF Domains
  <2>2. OwedByActive'
    BY <1>1, <1>5, <1>6 DEF GraphInv, OwedByActive, TypeOK
  <2>3. ASSUME NEW p \in active' PROVE counts'[p] <= Outstanding(p)'
    <3>1. p \in active /\ p \in Unit
      BY <1>1, <1>5 DEF TypeOK
    <3>2. Outstanding(p)' = Outstanding(p)
      BY <1>3, <1>4, <3>1, FinishedBacked
    <3> QED BY <1>1, <1>8, <3>1, <3>2 DEF GraphInv, CountsBacked
  <2>4. ASSUME NEW v \in active' PROVE counts'[v] > 0 \/ Busy(v)'
    <3>1. v \in active /\ v # u
      BY <1>5
    <3>2. Busy(v) => Busy(v)'
      BY <1>1, <1>2, <1>3, <1>5, <1>7, <3>1 DEF Busy, Parked, Drives
    <3> QED BY <1>1, <1>8, <3>1, <3>2 DEF GraphInv, ActiveMoves
  <2> QED BY <2>1, <2>2, <2>3, <2>4 DEF GraphInv, CountsBacked, ActiveMoves
<1>11. Begins \subseteq Begins'
  BY <1>1, <1>2, <1>5, <1>7 DEF Begins
<1>12. OnlyStops' /\ ClientsHeld' /\ asked' = asked /\ answered' \subseteq Waiter
  <2>1. CASE u \in DOMAIN rootJobs
    <3>1. PICK id : id = rootJobs[u]
      OBVIOUS
    <3>2. id \in JobId /\ FinishJob(id)
      BY <1>1, <1>5, <2>1, <3>1 DEF FinishRoot, TypeOK
    <3>3. ASSUME NEW j \in JobId \ {id}, JobHeld(j) PROVE JobHeld(j)'
      BY <1>9, <1>11, <3>1, <3>3 DEF JobHeld
    <3>4. OnlyStops' /\ ClientsHeld'
      BY <1>1, <3>2, <3>3, FinishClients
    <3>5. Woken(reg, id) \subseteq Waiter
      BY <1>1 DEF Woken, TypeOK, IsRegistry, Job
    <3> QED BY <1>1, <3>2, <3>4, <3>5 DEF FinishJob, TypeOK
  <2>2. CASE u \notin DOMAIN rootJobs
    <3>1. FinishNoJob
      BY <1>5, <2>2 DEF FinishRoot
    <3>2. ASSUME NEW j \in JobId, JobHeld(j) PROVE JobHeld(j)'
      BY <1>9, <1>11, <2>2, <3>2 DEF JobHeld
    <3> QED BY <1>1, <3>1, <3>2, QuietClients DEF FinishNoJob, clients, TypeOK
  <2> QED BY <2>1, <2>2
<1>13. TypeOK'
  <2>1. /\ IsRegistry(reg') /\ active' \subseteq Unit
        /\ owed' \in [Unit -> [Unit -> Nat]]
    BY <1>1, <1>5, <1>12 DEF OnlyStops, Sound, TypeOK
  <2> QED BY <1>1, <1>5, <1>8, <1>9, <1>12, <2>1 DEF TypeOK
<1> QED BY <1>1, <1>5, <1>7, <1>10, <1>12, <1>13 DEF StopInv, Shape

(* One credit: the parent's count and what is outstanding for it drop      *)
(* together.                                                               *)
LEMMA CreditIs ==
    ASSUME StopInv, Credit
    PROVE  \E p \in Unit, n \in Nat, f \in Frame, g \in Frame :
             /\ f.op = "credit" /\ g.op = "start" /\ g.unit = p
             /\ IF Due(p, n) THEN Return(<< f, g >>) ELSE Return(<< f >>)
             /\ p \in active => (n = 0 /\ counts[p] = 0) \/ n = counts[p] - 1
             /\ DOMAIN counts' = active /\ counts' \in [active -> Nat]
             /\ \A q \in active \ {p} : counts'[q] = counts[q]
             /\ p \in active => counts'[p] = n
             /\ work' \in Seq(Frame)
             /\ Frames(Callers) \cup {f} \subseteq Frames(work')
             /\ Due(p, n) => g \in Frames(work')
             /\ \A q \in Unit \ {p} : Outstanding(q)' = Outstanding(q)
             /\ Outstanding(p)' = Outstanding(p) - 1
             /\ Outstanding(p) \in Nat /\ Outstanding(p) > 0
<1>1. /\ Shape /\ GraphInv /\ OnlyStops /\ ClientsHeld /\ TypeOK
      /\ work \in Seq(Frame) /\ ~Idle /\ Top.op = "credit"
  BY DEF StopInv, Shape, Credit, Running, Idle
<1>2. /\ Top \in Frame /\ Frames(work) = Frames(Callers) \cup {Top}
      /\ \A q \in Unit : CreditSum(work, q) = CreditSum(Callers, q) + CreditOf(Top, q)
      /\ \A q \in Unit : CreditSum(Callers, q) \in Nat
  BY <1>1, StackBase
<1>3. Top \in [op : {"credit"}, unit : Unit, owed : [Unit -> Nat]]
  BY <1>1, <1>2 DEF Frame, Event
<1>4. /\ UNCHANGED << status, parked, active, owed, after, rootJobs, queue, restarts >>
      /\ FinishNoJob
  BY DEF Credit, FinishNoJob
<1> DEFINE Left(p) == IF p \in DOMAIN counts /\ counts[p] > 0 THEN counts[p] - 1 ELSE 0
           Rest(p) == [Top EXCEPT !.owed[p] = @ - 1]
           Start(p) == [op |-> "start", unit |-> p]
<1>5. PICK p \in Unit :
        /\ Top.owed[p] > 0
        /\ IF p \in DOMAIN counts
           THEN counts' = [counts EXCEPT ![p] = Left(p)] ELSE counts' = counts
        /\ Return(IF Due(p, Left(p)) THEN << Rest(p), Start(p) >> ELSE << Rest(p) >>)
  BY DEF Credit
<1>6. PICK n, f, g : n = Left(p) /\ f = Rest(p) /\ g = Start(p)
  OBVIOUS
<1> HIDE DEF Left, Rest, Start
<1>7. /\ n \in Nat /\ DOMAIN counts = active
      /\ p \in active => \/ n = 0 /\ counts[p] = 0
                         \/ n = counts[p] - 1
  BY <1>1, <1>6 DEF Left, TypeOK, GraphInv, Domains
<1>8. /\ f \in Frame /\ f.op = "credit" /\ f.owed \in [Unit -> Nat]
      /\ f.owed[p] = Top.owed[p] - 1
      /\ \A q \in Unit \ {p} : f.owed[q] = Top.owed[q]
  <2>1. f \in [op : {"credit"}, unit : Unit, owed : [Unit -> Nat]]
    BY <1>3, <1>5, <1>6 DEF Rest
  <2> QED BY <1>3, <1>6, <2>1 DEF Rest, Frame
<1>9. g \in Frame /\ g.op = "start" /\ g.unit = p
  BY <1>6 DEF Start, Frame
<1>10. IF Due(p, n) THEN Return(<< f, g >>) ELSE Return(<< f >>)
  BY <1>5, <1>6
<1>11. /\ work' \in Seq(Frame)
       /\ Frames(Callers) \cup {f} \subseteq Frames(work')
       /\ Due(p, n) => g \in Frames(work')
       /\ \A q \in Unit : CreditSum(work', q) = CreditSum(Callers, q) + CreditOf(f, q)
  <2>1. CASE Due(p, n)
    <3>1. /\ work' \in Seq(Frame) /\ Frames(work') = Frames(Callers) \cup {f, g}
          /\ \A q \in Unit : CreditSum(work', q) =
               CreditSum(Callers, q) + CreditOf(f, q) + CreditOf(g, q)
      BY <1>1, <1>8, <1>9, <1>10, <2>1, ReturnTwo
    <3>2. \A q \in Unit : CreditOf(g, q) = 0 /\ CreditOf(f, q) \in Nat
      BY <1>8, <1>9 DEF CreditOf
    <3> QED BY <1>2, <3>1, <3>2
  <2>2. CASE ~Due(p, n)
    BY <1>1, <1>8, <1>10, <2>2, ReturnOne
  <2> QED BY <2>1, <2>2
<1>12. /\ \A q \in Unit : Total(Unit, [c \in Unit |-> owed[c][q]]) \in Nat
       /\ \A q \in Unit \ {p} : Outstanding(q)' = Outstanding(q)
       /\ Outstanding(p)' = Outstanding(p) - 1
       /\ Outstanding(p) \in Nat /\ Outstanding(p) > 0
  <2>1. ASSUME NEW q \in Unit PROVE Total(Unit, [c \in Unit |-> owed[c][q]]) \in Nat
    <3> DEFINE o == [c \in Unit |-> owed[c][q]]
    <3>1. IsFiniteSet(Unit) /\ \A c \in Unit : o[c] \in Nat
      BY <1>1, StopGraphAssumption DEF TypeOK
    <3> HIDE DEF o
    <3>2. Total(Unit, o) \in Nat
      BY <3>1, PairsFinite
    <3> QED BY <3>2 DEF o
  <2>2. ASSUME NEW q \in Unit
        PROVE  /\ CreditOf(f, q) \in Nat /\ CreditOf(Top, q) \in Nat
               /\ q # p => CreditOf(f, q) = CreditOf(Top, q)
               /\ q = p => CreditOf(f, q) = CreditOf(Top, q) - 1 /\ CreditOf(Top, q) > 0
    BY <1>3, <1>5, <1>8 DEF CreditOf
  <2>3. ASSUME NEW q \in Unit
        PROVE  Outstanding(q) = Total(Unit, [c \in Unit |-> owed[c][q]]) + CreditSum(work, q)
               /\ Outstanding(q)' = Total(Unit, [c \in Unit |-> owed[c][q]]) + CreditSum(work', q)
    BY <1>4 DEF Outstanding
  <2>4. ASSUME NEW q \in Unit \ {p} PROVE Outstanding(q)' = Outstanding(q)
    <3>1. CreditSum(work', q) = CreditSum(work, q)
      BY <1>2, <1>11, <2>2
    <3> QED BY <2>3, <3>1
  <2> DEFINE o == Total(Unit, [c \in Unit |-> owed[c][p]])
  <2>6. /\ o \in Nat /\ Outstanding(p) = o + CreditSum(work, p)
        /\ Outstanding(p)' = o + CreditSum(work', p)
    BY <2>1, <2>3
  <2> HIDE DEF o
  <2>5. Outstanding(p)' = Outstanding(p) - 1 /\ Outstanding(p) \in Nat /\ Outstanding(p) > 0
    <3>1. /\ CreditSum(work, p) = CreditSum(Callers, p) + CreditOf(Top, p)
          /\ CreditSum(work', p) = CreditSum(Callers, p) + CreditOf(f, p)
          /\ CreditSum(Callers, p) \in Nat /\ CreditOf(Top, p) \in Nat
          /\ CreditOf(f, p) = CreditOf(Top, p) - 1 /\ CreditOf(Top, p) > 0
      BY <1>2, <1>11, <2>2
    <3> QED BY <2>6, <3>1
  <2> QED BY <2>1, <2>4, <2>5
<1>13. /\ DOMAIN counts' = active /\ counts' \in [active -> Nat]
       /\ \A q \in active \ {p} : counts'[q] = counts[q]
       /\ p \in active => counts'[p] = n
  BY <1>1, <1>5, <1>6, <1>7 DEF TypeOK
<1> QED BY <1>7, <1>8, <1>9, <1>10, <1>11, <1>12, <1>13

LEMMA CreditStep ==
    ASSUME StopInv, Credit
    PROVE  StopInv'
<1>1. /\ Shape /\ GraphInv /\ OnlyStops /\ ClientsHeld /\ TypeOK
      /\ work \in Seq(Frame) /\ ~Idle /\ Top.op = "credit"
  BY DEF StopInv, Shape, Credit, Running, Idle
<1>2. Frames(work) = Frames(Callers) \cup {Top} /\ DOMAIN counts = active
  BY <1>1, StackBase DEF GraphInv, Domains
<1>3. /\ UNCHANGED << status, parked, active, owed, after, rootJobs, queue, restarts >>
      /\ FinishNoJob
  BY DEF Credit, FinishNoJob
<1>4. PICK p \in Unit, n \in Nat, f \in Frame, g \in Frame :
        /\ f.op = "credit" /\ g.op = "start" /\ g.unit = p
        /\ p \in active => (n = 0 /\ counts[p] = 0) \/ n = counts[p] - 1
        /\ DOMAIN counts' = active /\ counts' \in [active -> Nat]
        /\ \A q \in active \ {p} : counts'[q] = counts[q]
        /\ p \in active => counts'[p] = n
        /\ work' \in Seq(Frame)
        /\ Frames(Callers) \cup {f} \subseteq Frames(work')
        /\ Due(p, n) => g \in Frames(work')
        /\ \A q \in Unit \ {p} : Outstanding(q)' = Outstanding(q)
        /\ Outstanding(p)' = Outstanding(p) - 1
        /\ Outstanding(p) \in Nat /\ Outstanding(p) > 0
  BY CreditIs
<1>5. GraphInv'
  <2>1. Domains' /\ OwedByActive'
    BY <1>1, <1>3, <1>4 DEF GraphInv, Domains, OwedByActive
  <2>2. ASSUME NEW q \in active PROVE counts'[q] <= Outstanding(q)'
    <3>1. q \in Unit /\ counts[q] \in Nat /\ counts[q] <= Outstanding(q)
      BY <1>1, <1>2, <1>4 DEF GraphInv, CountsBacked, TypeOK
    <3>2. CASE q = p
      BY <1>4, <3>1, <3>2
    <3>3. CASE q # p
      BY <1>4, <3>1, <3>3
    <3> QED BY <3>2, <3>3
  <2>3. ASSUME NEW q \in active PROVE counts'[q] > 0 \/ Busy(q)'
    <3>1. Busy(q) => Busy(q)'
      BY <1>1, <1>2, <1>3, <1>4 DEF Busy, Parked, Drives
    <3>2. CASE q # p
      BY <1>1, <1>4, <3>1, <3>2 DEF GraphInv, ActiveMoves
    <3>3. CASE q = p /\ n = 0
      <4>1. g \in Frames(work')
        BY <1>2, <1>4, <3>3 DEF Due
      <4> QED BY <1>4, <3>3, <4>1 DEF Busy, Drives
    <3>4. CASE q = p /\ n # 0
      BY <1>4, <3>4
    <3> QED BY <3>2, <3>3, <3>4
  <2> QED BY <1>3, <2>1, <2>2, <2>3 DEF GraphInv, CountsBacked, ActiveMoves
<1>6. ASSUME NEW j \in JobId, JobHeld(j) PROVE JobHeld(j)'
  <2>1. Begins \subseteq Begins'
    BY <1>1, <1>2, <1>3, <1>4 DEF Begins
  <2> QED BY <1>3, <1>6, <2>1 DEF JobHeld
<1>7. OnlyStops' /\ ClientsHeld'
  BY <1>1, <1>3, <1>6, QuietClients
<1>8. TypeOK'
  BY <1>1, <1>3, <1>4 DEF TypeOK, FinishNoJob, clients
<1> QED BY <1>1, <1>3, <1>4, <1>5, <1>7, <1>8 DEF StopInv, Shape

-----------------------------------------------------------------------------
(* The theorems. *)

LEMMA InitInductive == Init => StopInv
<1> SUFFICES ASSUME Init PROVE StopInv
  OBVIOUS
<1>1. TypeOK
  BY EmptySound, StopGraphAssumption DEF Init, TypeOK, Phase, Sound
<1>2. Shape
  BY <1>1 DEF Init, Shape
<1>3. GraphInv
  <2>1. active = {} /\ counts = << >> /\ rootJobs = << >>
        /\ owed = [c \in Unit |-> [p \in Unit |-> 0]]
    BY DEF Init
  <2>2. Domains
    BY <2>1 DEF Domains
  <2> QED BY <2>1, <2>2 DEF GraphInv, OwedByActive, CountsBacked, ActiveMoves
<1>4. OnlyStops
  BY EmptySound DEF Init, OnlyStops, EmptyRegistry, Installed
<1>5. ClientsHeld
  BY DEF Init, ClientsHeld
<1> QED BY <1>2, <1>3, <1>4, <1>5 DEF StopInv

LEMMA NextInductive == StopInv /\ [Next]_vars => StopInv'
<1> SUFFICES ASSUME StopInv, [Next]_vars PROVE StopInv'
  OBVIOUS
<1>1. CASE UNCHANGED vars
  <2>1. UNCHANGED << status, parked, active, counts, owed, after, rootJobs, work,
                     queue, reg, asked, answered, restarts >>
    BY <1>1 DEF vars, graph, clients
  <2> QED BY <2>1 DEF StopInv, Shape, TypeOK, GraphInv, Domains, OwedByActive,
                      CountsBacked, Outstanding, ActiveMoves, Busy, Parked,
                      OnlyStops, ClientsHeld, JobHeld, Begins
<1>2. CASE Dispatch
  BY <1>2, QuietStep, BeginStep, TreeStep, ChainStep, FinishedStep, CreditStep DEF Dispatch
<1>3. CASE \E u \in Unit : Advance(u)
  BY <1>3, ChainStep
<1>4. CASE \E c \in Waiter, u \in Unit : RequestStop(c, u)
  BY <1>4, RequestStep
<1>5. CASE \E u \in Unit : Restart(u)
  BY <1>5, QuietStep
<1> QED BY <1>1, <1>2, <1>3, <1>4, <1>5 DEF Next, AllDone

(* The stop graph and its chains keep their types, and the counts never    *)
(* go below zero: the saturating subtraction of on_stop_chain_finished     *)
(* and the pid keys of the chains map lose nothing that the types need.    *)
THEOREM StopTypes == Spec => []TypeOK
<1>1. StopInv => TypeOK
  BY DEF StopInv, Shape
<1> QED BY InitInductive, NextInductive, <1>1, PTL DEF Spec

(* No group of units depends on itself: begin_stop_tree starts only chains *)
(* of units that wait for nobody, so that a cycle of Requires=, PartOf=    *)
(* and BindsTo= would never start.                                         *)
Acyclic ==
    \A S \in SUBSET Unit : S # {} => \E u \in S : Dependents(u) \cap S = {}

(* At rest nothing is on the stack and no chain is parked, so that every   *)
(* unit in the graph waits for another one in it.                          *)
LEMMA RestIsDone ==
    ASSUME Acyclic, StopInv
    PROVE  NothingForgotten
<1> SUFFICES ASSUME Idle, queue = << >>, \A u \in Unit, ph \in Phase : parked[u][ph] = 0
             PROVE  /\ active = {} /\ rootJobs = << >>
                    /\ \A c \in Waiter : asked[c] # NoUnit => c \in answered
  BY DEF NothingForgotten
<1>1. /\ TypeOK /\ GraphInv /\ ClientsHeld /\ work \in Seq(Frame) /\ IsFiniteSet(Unit)
  BY StopGraphAssumption DEF StopInv, Shape
<1>2. Frames(work) = {} /\ Frames(queue) = {} /\ \A p \in Unit : CreditSum(work, p) = 0
  BY <1>1, StackBase, FramesEmpty
<1>3. ASSUME NEW p \in active PROVE \E c \in active : c \in Dependents(p)
  <2> DEFINE o == [c \in Unit |-> owed[c][p]]
  <2>1. p \in Unit /\ \A c \in Unit : o[c] \in Nat /\ o[c] = owed[c][p]
    BY <1>1 DEF TypeOK
  <2>2. ~Busy(p)
    BY <1>2, <2>1 DEF Busy, Parked
  <2>3. counts[p] > 0 /\ counts[p] \in Nat /\ counts[p] <= Outstanding(p)
    BY <1>1, <2>2 DEF GraphInv, ActiveMoves, CountsBacked, Domains, TypeOK
  <2>4. Outstanding(p) = Total(Unit, o) + 0
    BY <1>2, <2>1 DEF Outstanding
  <2> HIDE DEF o
  <2>5. Total(Unit, o) \in Nat
    BY <1>1, <2>1, PairsFinite
  <2>6. Total(Unit, o) # 0
    <3>1. Outstanding(p) = Total(Unit, o)
      BY <2>4, <2>5
    <3> QED BY <2>3, <3>1
  <2>7. PICK c \in Unit : o[c] > 0
    BY <1>1, <2>1, <2>6, TotalPositive
  <2> QED BY <1>1, <2>1, <2>7 DEF GraphInv, OwedByActive
<1>4. active = {}
  <2>1. active \in SUBSET Unit
    BY <1>1 DEF TypeOK
  <2> QED BY <1>3, <2>1 DEF Acyclic
<1>5. DOMAIN rootJobs = {} /\ rootJobs = << >>
  <2>1. DOMAIN rootJobs = {} /\ rootJobs = [x \in {} |-> rootJobs[x]]
    BY <1>1, <1>4 DEF GraphInv, Domains, TypeOK
  <2>2. << >> = [x \in {} |-> rootJobs[x]]
    OBVIOUS
  <2> QED BY <2>1, <2>2
<1>6. \A id : ~JobHeld(id)
  BY <1>2, <1>5 DEF JobHeld, Begins
<1>7. \A c \in Waiter : asked[c] # NoUnit => c \in answered
  BY <1>1, <1>6 DEF ClientsHeld
<1> QED BY <1>4, <1>5, <1>7

(* Whatever requests, restarts, timeouts and propagated stops came in      *)
(* between: when the dispatcher is idle, its queue is empty and no chain   *)
(* is parked, the graph holds no unit and no root job and every client of  *)
(* systemctl stop has its answer.                                          *)
THEOREM NothingIsForgotten ==
    ASSUME Acyclic
    PROVE  Spec => []NothingForgotten
<1>1. StopInv => NothingForgotten
  BY RestIsDone
<1> QED BY InitInductive, NextInductive, <1>1, PTL DEF Spec

-----------------------------------------------------------------------------
(* Requests one after the other: whoever begins to stop has no dependent   *)
(* left that is up, each unit has one chain, and answers are true.         *)

(* Stops that come up in the course of another one, by PropagatesStopTo=   *)
(* or StopWhenUnneeded=, are of units that nothing depends on.  A tree of  *)
(* more units may take in units that are being stopped already, and start  *)
(* their chains again.                                                     *)
ApartFromTrees ==
    \A t \in Unneeded \cup UNION {PropagatesTo[u] : u \in Unit} : Dependents(t) = {}

DrivenIn(w, u) == \E f \in Frames(w) : Drives(f, u)

(* No two calls on the stack are about one chain, ...                      *)
Once(w) ==
    \A h, k \in 1 .. Len(w) : \A u \in Unit : Drives(w[h], u) /\ Drives(w[k], u) => h = k

(* ... and on_stop_chain_finished begins at once.                          *)
NoneFinished(w) == \A f \in Frames(w) : f.op # "finished"

Tidy(w) ==
    /\ Once(w)
    /\ \A h \in 1 .. Len(w) : w[h].op = "finished" => h = Len(w)

(* What is counted for p is what is outstanding, and nothing is for a unit *)
(* that is not in the graph.                                               *)
Exact ==
    \A p \in Unit : IF p \in active THEN Outstanding(p) <= counts[p]
                    ELSE Outstanding(p) = 0

(* A unit in the graph waits for every dependent that is up.               *)
DependentsCounted ==
    \A p \in active : \A c \in Dependents(p) :
        status[c] \in Down \/ (c \in active /\ owed[c][p] > 0)

(* A unit is at work once, and only when it waits for nobody.              *)
OneAtWork ==
    /\ OneChain
    /\ \A u \in Unit : Busy(u) => u \in active /\ counts[u] = 0
    /\ \A u \in Unit : DrivenIn(work, u) => ~Parked(u)

(* Units in the graph are up until their chain is finished.                *)
UpToTheEnd ==
    /\ \A f \in Frames(work) : f.op = "finished" => status[f.unit] \in Down
    /\ \A u \in active : status[u] \in Down =>
         \E f \in Frames(work) : f.op = "finished" /\ f.unit = u

(* A unit whose process was told to terminate says so.                     *)
StopShows ==
    \A u \in Unit : parked[u]["main"] > 0 \/ parked[u]["post"] > 0 => status[u] = "Stopping"

(* A requested stop begins on an empty graph; every other one is of a unit *)
(* that nothing depends on.                                                *)
BeginsApart ==
    /\ \A f \in Begins : IF f.job = NoJob THEN Dependents(f.unit) = {}
                         ELSE active = {} /\ Len(work) + Len(queue) = 1
    /\ \A f \in Frames(work) : f.op \in {"trees", "collect"} =>
         \A u \in f.units : Dependents(u) = {}

NoRequests == \A f \in Begins : f.job = NoJob

GraphSerial ==
    /\ Tidy(work) /\ Exact /\ DependentsCounted
    /\ OneAtWork /\ UpToTheEnd /\ StopShows /\ BeginsApart

(* The job of a client is one of the unit it asked for, and whoever holds  *)
(* its id holds it for that unit.                                          *)
HeldFor(r, id, u) ==
    /\ id \in JobId /\ id < r.nextId
    /\ id \in Installed(r) => r.jobs[id].unit = u

JobsMatch ==
    /\ \A u \in DOMAIN rootJobs : HeldFor(reg, rootJobs[u], u)
    /\ \A f \in Begins : f.job # NoJob => HeldFor(reg, f.job, f.unit)
    /\ \A c \in Waiter : \A id \in On(reg, c) : asked[c] = reg.jobs[id].unit

SerialInv == StopInv /\ GraphSerial /\ JobsMatch

-----------------------------------------------------------------------------
(* The stack. *)

LEMMA OnceAppend ==
    ASSUME NEW w \in Seq(Frame), NEW f \in Frame
    PROVE  /\ Once(Append(w, f)) <=>
                Once(w) /\ \A u \in Unit : Drives(f, u) => ~DrivenIn(w, u)
           /\ Tidy(Append(w, f)) <=> Once(Append(w, f)) /\ NoneFinished(w)
           /\ \A u \in Unit : DrivenIn(Append(w, f), u) <=> DrivenIn(w, u) \/ Drives(f, u)
<1> DEFINE v == Append(w, f)
<1>1. /\ Len(v) = Len(w) + 1 /\ v[Len(v)] = f /\ Len(w) \in Nat
      /\ \A h \in 1 .. Len(w) : v[h] = w[h]
  BY AppendProperties
<1>2. Frames(v) = Frames(w) \cup {f}
  BY FramesAppend
<1> HIDE DEF v
<1>3. ASSUME Once(v) PROVE Once(w) /\ \A u \in Unit : Drives(f, u) => ~DrivenIn(w, u)
  <2>1. Once(w)
    BY <1>1, <1>3 DEF Once
  <2>2. ASSUME NEW u \in Unit, Drives(f, u), NEW h \in 1 .. Len(w), Drives(w[h], u) PROVE FALSE
    BY <1>1, <1>3, <2>2 DEF Once
  <2> QED BY <2>1, <2>2 DEF DrivenIn, Frames
<1>4. ASSUME Once(w), \A u \in Unit : Drives(f, u) => ~DrivenIn(w, u) PROVE Once(v)
  <2> SUFFICES ASSUME NEW h \in 1 .. Len(v), NEW k \in 1 .. Len(v), NEW u \in Unit,
                      Drives(v[h], u), Drives(v[k], u)
               PROVE  h = k
    BY DEF Once
  <2>1. \A i \in 1 .. Len(w) : Drives(w[i], u) => DrivenIn(w, u)
    BY DEF DrivenIn, Frames
  <2>2. CASE h = Len(v)
    BY <1>1, <1>4, <2>1, <2>2
  <2>3. CASE k = Len(v)
    BY <1>1, <1>4, <2>1, <2>3
  <2>4. CASE h # Len(v) /\ k # Len(v)
    <3>1. h \in 1 .. Len(w) /\ k \in 1 .. Len(w)
      BY <1>1, <2>4
    <3> QED BY <1>1, <1>4, <3>1 DEF Once
  <2> QED BY <2>2, <2>3, <2>4
<1>5. (\A h \in 1 .. Len(v) : v[h].op = "finished" => h = Len(v)) <=> NoneFinished(w)
  <2>1. ASSUME NoneFinished(w), NEW h \in 1 .. Len(v), v[h].op = "finished" PROVE h = Len(v)
    <3>1. CASE h \in 1 .. Len(w)
      BY <1>1, <2>1, <3>1 DEF NoneFinished, Frames
    <3>2. CASE h \notin 1 .. Len(w)
      BY <1>1, <3>2
    <3> QED BY <3>1, <3>2
  <2>2. ASSUME \A h \in 1 .. Len(v) : v[h].op = "finished" => h = Len(v),
               NEW i \in 1 .. Len(w)
        PROVE  w[i].op # "finished"
    BY <1>1, <2>2
  <2> QED BY <2>1, <2>2 DEF NoneFinished, Frames
<1>6. \A u \in Unit : DrivenIn(v, u) <=> DrivenIn(w, u) \/ Drives(f, u)
  BY <1>2 DEF DrivenIn
<1> QED BY <1>3, <1>4, <1>5, <1>6 DEF Tidy, v

LEMMA OnceEmpty == Once(<< >>) /\ Tidy(<< >>) /\ NoneFinished(<< >>)
                   /\ \A u \in Unit : ~DrivenIn(<< >>, u)
  BY FramesEmpty DEF Once, Tidy, NoneFinished, DrivenIn

LEMMA TidyAlone ==
    ASSUME NEW w \in Seq(Frame), Once(w), NoneFinished(w)
    PROVE  Tidy(w)
  BY DEF Tidy, NoneFinished, Frames

(* What Tidy says about the callers and the running frame.                 *)
LEMMA TidyCallers ==
    ASSUME work \in Seq(Frame), Tidy(work)
    PROVE  /\ Once(Callers) /\ NoneFinished(Callers)
           /\ Idle => \A u \in Unit : ~DrivenIn(work, u) /\ ~DrivenIn(Callers, u)
           /\ ~Idle => \A u \in Unit :
                /\ Drives(Top, u) => ~DrivenIn(Callers, u)
                /\ DrivenIn(work, u) <=> DrivenIn(Callers, u) \/ Drives(Top, u)
<1>1. CASE Idle
  <2>1. work = << >> /\ Callers = << >>
    BY <1>1, StackIs DEF Idle
  <2> QED BY <1>1, <2>1, OnceEmpty
<1>2. CASE ~Idle
  <2> DEFINE c == Callers
             t == Top
  <2>1. c \in Seq(Frame) /\ t \in Frame /\ work = Append(c, t)
    BY <1>2, StackIs
  <2> HIDE DEF c, t
  <2>2. /\ Once(Append(c, t)) /\ Tidy(Append(c, t))
        /\ \A u \in Unit : DrivenIn(work, u) <=> DrivenIn(c, u) \/ Drives(t, u)
    BY <2>1, OnceAppend DEF Tidy
  <2>3. /\ Once(c) /\ NoneFinished(c) /\ \A u \in Unit : Drives(t, u) => ~DrivenIn(c, u)
    BY <2>1, <2>2, OnceAppend
  <2> QED BY <1>2, <2>2, <2>3 DEF c, t
<1> QED BY <1>1, <1>2

LEMMA TidyNone ==
    ASSUME work \in Seq(Frame), Tidy(work), Return(<< >>)
    PROVE  /\ Tidy(work') /\ Frames(work') = Frames(Callers) /\ NoneFinished(work')
           /\ \A u \in Unit : DrivenIn(work', u) <=> DrivenIn(Callers, u)
<1>1. Callers \in Seq(Frame) /\ work' = Callers
  BY StackBase, ConcatEmptySeq DEF Return
<1>2. Once(Callers) /\ NoneFinished(Callers)
  BY TidyCallers
<1> QED BY <1>1, <1>2, TidyAlone

LEMMA TidyOne ==
    ASSUME work \in Seq(Frame), Tidy(work), NEW f \in Frame, Return(<< f >>),
           \A u \in Unit : Drives(f, u) => ~DrivenIn(Callers, u)
    PROVE  /\ Tidy(work') /\ Frames(work') = Frames(Callers) \cup {f}
           /\ \A u \in Unit : DrivenIn(work', u) <=> DrivenIn(Callers, u) \/ Drives(f, u)
<1> DEFINE c == Callers
<1>1. c \in Seq(Frame) /\ work' = Append(c, f)
  BY StackBase, AppendIsConcat DEF Return
<1>2. Once(c) /\ NoneFinished(c) /\ \A u \in Unit : Drives(f, u) => ~DrivenIn(c, u)
  BY TidyCallers
<1>3. Frames(work') = Frames(c) \cup {f}
  BY ReturnOne
<1> HIDE DEF c
<1>4. Tidy(work') /\ \A u \in Unit : DrivenIn(work', u) <=> DrivenIn(c, u) \/ Drives(f, u)
  BY <1>1, <1>2, OnceAppend
<1> QED BY <1>3, <1>4 DEF c

LEMMA TidyTwo ==
    ASSUME work \in Seq(Frame), Tidy(work), NEW f \in Frame, NEW g \in Frame,
           Return(<< f, g >>), f.op # "finished",
           \A u \in Unit : Drives(f, u) \/ Drives(g, u) => ~DrivenIn(Callers, u),
           \A u \in Unit : ~(Drives(f, u) /\ Drives(g, u))
    PROVE  /\ Tidy(work') /\ Frames(work') = Frames(Callers) \cup {f, g}
           /\ \A u \in Unit : DrivenIn(work', u) <=>
                DrivenIn(Callers, u) \/ Drives(f, u) \/ Drives(g, u)
<1> DEFINE c == Callers
           v == Append(c, f)
<1>1. c \in Seq(Frame) /\ work' = c \o << f, g >>
  BY StackBase DEF Return
<1>2. Once(c) /\ NoneFinished(c)
      /\ \A u \in Unit : Drives(f, u) \/ Drives(g, u) => ~DrivenIn(c, u)
  BY TidyCallers
<1>3. Frames(work') = Frames(c) \cup {f, g}
  BY ReturnTwo
<1> HIDE DEF c
<1>4. v \in Seq(Frame) /\ work' = Append(v, g) /\ Frames(v) = Frames(c) \cup {f}
  BY <1>1, FramesAppend
<1>5. Once(v) /\ \A u \in Unit : DrivenIn(v, u) <=> DrivenIn(c, u) \/ Drives(f, u)
  BY <1>1, <1>2, OnceAppend
<1>6. NoneFinished(v)
  BY <1>2, <1>4 DEF NoneFinished
<1> HIDE DEF v
<1>7. \A u \in Unit : Drives(g, u) => ~DrivenIn(v, u)
  BY <1>2, <1>5
<1>8. Tidy(work') /\ \A u \in Unit : DrivenIn(work', u) <=> DrivenIn(v, u) \/ Drives(g, u)
  BY <1>4, <1>5, <1>6, <1>7, OnceAppend
<1> QED BY <1>3, <1>5, <1>8 DEF c

-----------------------------------------------------------------------------
(* Trees that begin. *)

(* Whatever these calls and events begin is of one unit.                   *)
Leafy(S) ==
    /\ \A f \in S : f.op = "begin" => f.job = NoJob /\ Dependents(f.unit) = {}
    /\ \A f \in S : f.op \in {"trees", "collect"} => \A u \in f.units : Dependents(u) = {}

(* While the dispatcher is at work no request is waiting.                  *)
LEMMA CallersLeafy ==
    ASSUME Shape, BeginsApart, ~Idle
    PROVE  Leafy(Frames(Callers)) /\ Leafy(Frames(queue))
<1>1. /\ work \in Seq(Frame) /\ queue \in Seq(Event) /\ Len(work) = Len(Callers) + 1
      /\ Callers \in Seq(Frame)
  BY StackIs DEF Shape
<1>2. Frames(work) = Frames(Callers) \cup {Top}
  BY <1>1, StackBase
<1>3. ASSUME NEW f \in Frames(Callers) \cup Frames(queue), f.op = "begin"
      PROVE  f.job = NoJob
  <2>1. f \in Begins
    BY <1>2, <1>3 DEF Begins
  <2> SUFFICES ASSUME Len(work) + Len(queue) = 1 PROVE FALSE
    BY <2>1 DEF BeginsApart
  <2>2. Len(Callers) = 0 /\ Len(queue) = 0
    BY <1>1
  <2> QED BY <1>3, <2>2 DEF Frames
<1>4. ASSUME NEW f \in Frames(Callers) \cup Frames(queue), f.op = "begin"
      PROVE  f.job = NoJob /\ Dependents(f.unit) = {}
  <2>1. f \in Begins
    BY <1>2, <1>4 DEF Begins
  <2> QED BY <1>3, <1>4, <2>1 DEF BeginsApart
<1>5. \A f \in Frames(queue) : f \in Event
  BY <1>1 DEF Frames
<1>6. \A f \in Frames(queue) : f.op \notin {"trees", "collect"}
  BY <1>5 DEF Event
<1> QED BY <1>2, <1>4, <1>6 DEF BeginsApart, Leafy

(* A step of the dispatcher that moves no chain.                           *)
Kept ==
    /\ Tidy(work') /\ NoneFinished(work) /\ NoneFinished(work')
    /\ \A u \in Unit : DrivenIn(work', u) <=> DrivenIn(work, u)
    /\ Leafy(Frames(work')) /\ Leafy(Frames(queue'))

LEMMA TopNotFinished ==
    ASSUME work \in Seq(Frame), Tidy(work), ~Idle, Top.op # "finished"
    PROVE  NoneFinished(work)
  BY TidyCallers, StackBase DEF NoneFinished

LEMMA KeptNone ==
    ASSUME Shape, Tidy(work), BeginsApart, ~Idle, Top.op # "finished", Return(<< >>),
           Leafy(Frames(queue')), \A u \in Unit : ~Drives(Top, u)
    PROVE  Kept
<1>1. work \in Seq(Frame)
  BY DEF Shape
<1>2. /\ Tidy(work') /\ Frames(work') = Frames(Callers) /\ NoneFinished(work')
      /\ \A u \in Unit : DrivenIn(work', u) <=> DrivenIn(Callers, u)
  BY <1>1, TidyNone
<1>3. NoneFinished(work) /\ \A u \in Unit : DrivenIn(work, u) <=> DrivenIn(Callers, u)
  BY <1>1, TopNotFinished, TidyCallers
<1> QED BY <1>2, <1>3, CallersLeafy DEF Kept

LEMMA KeptOne ==
    ASSUME Shape, Tidy(work), BeginsApart, ~Idle, Top.op # "finished",
           NEW f \in Frame, f.op # "finished", Leafy({f}),
           Return(<< f >>), queue' = queue,
           \A u \in Unit : Drives(f, u) <=> Drives(Top, u)
    PROVE  Kept
<1>1. work \in Seq(Frame)
  BY DEF Shape
<1>2. /\ NoneFinished(Callers) /\ NoneFinished(work)
      /\ \A u \in Unit : DrivenIn(work, u) <=> DrivenIn(Callers, u) \/ Drives(Top, u)
      /\ \A u \in Unit : Drives(f, u) => ~DrivenIn(Callers, u)
  BY <1>1, TopNotFinished, TidyCallers
<1>3. /\ Tidy(work') /\ Frames(work') = Frames(Callers) \cup {f}
      /\ \A u \in Unit : DrivenIn(work', u) <=> DrivenIn(Callers, u) \/ Drives(f, u)
  BY <1>1, <1>2, TidyOne
<1>4. Leafy(Frames(work')) /\ Leafy(Frames(queue')) /\ NoneFinished(work')
  BY <1>2, <1>3, CallersLeafy DEF Leafy, NoneFinished
<1> QED BY <1>2, <1>3, <1>4 DEF Kept

LEMMA KeptTwo ==
    ASSUME Shape, Tidy(work), BeginsApart, ~Idle, Top.op # "finished",
           NEW f \in Frame, NEW g \in Frame, f.op # "finished", g.op # "finished",
           Leafy({f, g}), Return(<< f, g >>), queue' = queue,
           \A u \in Unit : Drives(f, u) \/ Drives(g, u) <=> Drives(Top, u),
           \A u \in Unit : ~(Drives(f, u) /\ Drives(g, u))
    PROVE  Kept
<1>1. work \in Seq(Frame)
  BY DEF Shape
<1>2. /\ NoneFinished(Callers) /\ NoneFinished(work)
      /\ \A u \in Unit : DrivenIn(work, u) <=> DrivenIn(Callers, u) \/ Drives(Top, u)
      /\ \A u \in Unit : Drives(f, u) \/ Drives(g, u) => ~DrivenIn(Callers, u)
  BY <1>1, TopNotFinished, TidyCallers
<1>3. /\ Tidy(work') /\ Frames(work') = Frames(Callers) \cup {f, g}
      /\ \A u \in Unit : DrivenIn(work', u) <=>
           DrivenIn(Callers, u) \/ Drives(f, u) \/ Drives(g, u)
  BY <1>1, <1>2, TidyTwo
<1>4. Leafy(Frames(work')) /\ Leafy(Frames(queue')) /\ NoneFinished(work')
  BY <1>2, <1>3, CallersLeafy DEF Leafy, NoneFinished
<1> QED BY <1>2, <1>3, <1>4 DEF Kept

LEMMA LoopKept ==
    ASSUME ApartFromTrees, Shape, Tidy(work), BeginsApart,
           NextLeaf \/ NextTree \/ TreesDone \/ Collect \/ NextCollected \/ CreditsDone
    PROVE  Kept
<1>1. work \in Seq(Frame) /\ queue \in Seq(Event) /\ after \subseteq Unit
  BY DEF Shape, TypeOK
<1>2. ~Idle
  BY DEF NextLeaf, NextTree, TreesDone, Collect, NextCollected, CreditsDone,
         Running, Idle
<1>3. Top \in Frame /\ Top \in Frames(work) /\ Leafy(Frames(queue))
  BY <1>1, <1>2, StackBase, CallersLeafy
<1>4. CASE NextLeaf
  <2>1. Top.op = "chains" /\ queue' = queue
    BY <1>4 DEF NextLeaf, Running
  <2>2. Top \in [op : {"chains", "collect"}, units : SUBSET Unit]
    BY <1>3, <2>1 DEF Frame, Event
  <2>3. CASE Top.units = {} /\ Return(<< >>)
    BY <1>2, <1>3, <2>1, <2>3, KeptNone DEF Drives
  <2>4. ASSUME NEW u \in Top.units,
               Return(<< [Top EXCEPT !.units = @ \ {u}],
                         [op |-> "start", unit |-> u] >>)
        PROVE  Kept
    <3> DEFINE f == [Top EXCEPT !.units = @ \ {u}]
               g == [op |-> "start", unit |-> u]
    <3>1. f \in Frame /\ f.op = "chains" /\ f.units = Top.units \ {u}
      BY <2>1, <2>2 DEF Frame
    <3>2. g \in Frame /\ g.op = "start" /\ g.unit = u
      BY <2>2 DEF Frame
    <3>3. Return(<< f, g >>)
      BY <2>4
    <3> HIDE DEF f, g
    <3>4. Leafy({f, g})
      BY <3>1, <3>2 DEF Leafy
    <3>5. /\ \A v \in Unit : Drives(f, v) \/ Drives(g, v) <=> Drives(Top, v)
          /\ \A v \in Unit : ~(Drives(f, v) /\ Drives(g, v))
      BY <2>1, <2>4, <3>1, <3>2 DEF Drives
    <3> QED BY <1>2, <2>1, <3>1, <3>2, <3>3, <3>4, <3>5, KeptTwo
  <2> QED BY <1>4, <2>3, <2>4 DEF NextLeaf
<1>5. ASSUME NEW u \in Top.units, Top.op \in {"trees", "collect"}, queue' = queue,
             Return(<< [Top EXCEPT !.units = @ \ {u}], StopTree(u, NoJob) >>)
      PROVE  Kept
  <2>1. \/ Top \in [op : {"chains", "collect"}, units : SUBSET Unit]
        \/ Top \in [op : {"trees"}, unit : Unit, units : SUBSET Unit]
    BY <1>3, <1>5 DEF Frame, Event
  <2> DEFINE f == [Top EXCEPT !.units = @ \ {u}]
             g == StopTree(u, NoJob)
  <2>2. f \in Frame /\ f.op = Top.op /\ f.units = Top.units \ {u}
    BY <2>1 DEF Frame
  <2>3. g \in Frame /\ g.op = "begin" /\ g.unit = u /\ g.job = NoJob
    BY <2>1 DEF Frame, Event, StopTree
  <2>4. Return(<< f, g >>)
    BY <1>5
  <2> HIDE DEF f, g
  <2>5. \A v \in Top.units : Dependents(v) = {}
    BY <1>3, <1>5 DEF BeginsApart
  <2>6. Leafy({f, g})
    BY <1>5, <2>2, <2>3, <2>5 DEF Leafy
  <2> QED BY <1>2, <1>5, <2>2, <2>3, <2>4, <2>6, KeptTwo DEF Drives
<1>6. CASE NextTree
  BY <1>5, <1>6 DEF NextTree, Running
<1>7. CASE NextCollected
  <2>1. CASE Top.units = {} /\ Return(<< >>)
    BY <1>2, <1>3, <1>7, <2>1, KeptNone DEF NextCollected, Running, Drives
  <2> QED BY <1>5, <1>7, <2>1 DEF NextCollected, Running
<1>8. CASE TreesDone
  <2>1. Top.op = "trees" /\ Return(<< >>)
    BY <1>8 DEF TreesDone, Running
  <2> DEFINE e == [op |-> "gc", units |-> Pulled(Top.unit)]
  <2>2. e \in Event /\ e.op = "gc"
    BY DEF Event, Pulled
  <2>3. queue' = queue \/ queue' = Append(queue, e)
    BY <1>8 DEF TreesDone
  <2> HIDE DEF e
  <2>4. Leafy(Frames(queue'))
    <3>1. CASE queue' = queue
      BY <1>3, <3>1
    <3>2. CASE queue' = Append(queue, e)
      <4>1. Frames(queue') = Frames(queue) \cup {e}
        BY <1>1, <2>2, <3>2, QueueAppend
      <4> QED BY <1>3, <2>2, <4>1 DEF Leafy
    <3> QED BY <2>3, <3>1, <3>2
  <2> QED BY <1>2, <2>1, <2>4, KeptNone DEF Drives
<1>9. CASE Collect
  <2>1. Top.op = "gc" /\ queue' = queue
    BY <1>9 DEF Collect, Running
  <2>2. Top.units \subseteq Unit
    BY <1>3, <2>1 DEF Frame, Event
  <2> DEFINE f == [op |-> "collect", units |-> {u \in Top.units : IsUnneeded(u)}]
  <2>3. f \in Frame /\ f.op = "collect" /\ Return(<< f >>) /\ f.units \subseteq Unneeded
    BY <1>9, <2>2 DEF Frame, Collect, IsUnneeded
  <2> HIDE DEF f
  <2>4. Leafy({f})
    BY <2>3 DEF Leafy, ApartFromTrees
  <2> QED BY <1>2, <2>1, <2>3, <2>4, KeptOne DEF Drives
<1>10. CASE CreditsDone
  <2>1. Top.op = "credit" /\ queue' = queue
    BY <1>10 DEF CreditsDone, Running
  <2>2. Top.unit \in Unit
    BY <1>3, <2>1 DEF Frame, Event
  <2> DEFINE f == [op |-> "trees", unit |-> Top.unit,
                   units |-> IF Top.unit \in after THEN PropagatesTo[Top.unit] ELSE {}]
  <2>3. /\ f \in Frame /\ f.op = "trees" /\ Return(<< f >>)
        /\ f.units \subseteq PropagatesTo[Top.unit]
    BY <1>10, <2>2, StopGraphAssumption DEF Frame, CreditsDone
  <2> HIDE DEF f
  <2>4. \A v \in f.units : Dependents(v) = {}
    BY <2>2, <2>3 DEF ApartFromTrees
  <2>5. Leafy({f})
    BY <2>3, <2>4 DEF Leafy
  <2> QED BY <1>2, <2>1, <2>3, <2>5, KeptOne DEF Drives
<1> QED BY <1>4, <1>6, <1>7, <1>8, <1>9, <1>10

-----------------------------------------------------------------------------
(* Steps that move no chain. *)

LEMMA QuietSerial ==
    ASSUME Shape, GraphSerial, UNCHANGED << status, parked, active, counts, owed >>,
           \A p \in Unit : CreditSum(work', p) = CreditSum(work, p),
           Tidy(work'), NoneFinished(work), NoneFinished(work'),
           \A u \in Unit : DrivenIn(work', u) <=> DrivenIn(work, u),
           BeginsApart'
    PROVE  GraphSerial'
<1>1. Exact'
  <2> SUFFICES ASSUME NEW p \in Unit
               PROVE  IF p \in active THEN Outstanding(p)' <= counts[p]
                      ELSE Outstanding(p)' = 0
    BY DEF Exact
  <2>1. Outstanding(p)' = Outstanding(p)
    BY DEF Outstanding
  <2> QED BY <2>1 DEF GraphSerial, Exact
<1>2. DependentsCounted'
  BY DEF GraphSerial, DependentsCounted
<1>3. OneAtWork'
  <2>1. \A u \in Unit : /\ Parked(u)' <=> Parked(u)
                        /\ Busy(u)' <=> Busy(u)
    BY DEF Busy, Parked, DrivenIn
  <2>2. OneChain'
    BY DEF GraphSerial, OneAtWork, OneChain
  <2> QED BY <2>1, <2>2 DEF GraphSerial, OneAtWork
<1>4. UpToTheEnd'
  BY DEF GraphSerial, UpToTheEnd, NoneFinished
<1>5. StopShows'
  BY DEF GraphSerial, StopShows
<1> QED BY <1>1, <1>2, <1>3, <1>4, <1>5 DEF GraphSerial

LEMMA LoopSerial ==
    ASSUME ApartFromTrees, Shape, GraphSerial,
           NextLeaf \/ NextTree \/ TreesDone \/ Collect \/ NextCollected \/ CreditsDone
    PROVE  GraphSerial' /\ NoRequests'
<1>1. Kept /\ Carried
  BY LoopKept, LoopCarried DEF GraphSerial
<1>2. UNCHANGED << status, parked, active, counts, owed >>
  BY DEF NextLeaf, NextTree, TreesDone, Collect, NextCollected, CreditsDone, graph
<1>3. BeginsApart' /\ NoRequests'
  BY <1>1 DEF Kept, Leafy, BeginsApart, NoRequests, Begins
<1> QED BY <1>1, <1>2, <1>3, QuietSerial DEF Kept, Carried

(* begin_stop_tree returns without a tree.                                 *)
LEMMA BeginReturnsSerial ==
    ASSUME Shape, GraphSerial, BeginDuplicate \/ BeginEmpty
    PROVE  GraphSerial' /\ NoRequests'
<1>1. /\ ~Idle /\ Top.op = "begin" /\ Return(<< >>) /\ work \in Seq(Frame)
      /\ UNCHANGED << status, parked, active, counts, owed, queue >>
      /\ Tidy(work) /\ BeginsApart
  BY DEF BeginDuplicate, BeginEmpty, Running, Idle, graph, GraphSerial, Shape
<1>2. Leafy(Frames(queue))
  BY <1>1, CallersLeafy
<1>3. Kept
  BY <1>1, <1>2, KeptNone DEF Drives
<1>4. \A p \in Unit : CreditSum(work', p) = CreditSum(work, p)
  <2>1. /\ \A p \in Unit : CreditSum(work', p) = CreditSum(Callers, p)
        /\ \A p \in Unit : CreditSum(work, p) = CreditSum(Callers, p) + CreditOf(Top, p)
        /\ \A p \in Unit : CreditSum(Callers, p) \in Nat
    BY <1>1, ReturnNone, StackBase
  <2> QED BY <1>1, <2>1 DEF CreditOf
<1>5. BeginsApart' /\ NoRequests'
  BY <1>3 DEF Kept, Leafy, BeginsApart, NoRequests, Begins
<1> QED BY <1>1, <1>3, <1>4, <1>5, QuietSerial DEF Kept

LEMMA TakeSerial ==
    ASSUME Shape, GraphSerial, Take
    PROVE  GraphSerial'
<1>1. PICK e \in Event :
        /\ work' \in Seq(Frame) /\ Len(work') = 1 /\ Frames(work') = {e}
        /\ work' = Append(<< >>, e)
        /\ \A p \in Unit : CreditSum(work', p) = 0
        /\ queue' \in Seq(Event) /\ Len(queue') = Len(queue) - 1
        /\ Frames(queue) = {e} \cup Frames(queue')
  BY TakeIs
<1>2. /\ work = << >> /\ Frames(work) = {} /\ \A p \in Unit : CreditSum(work, p) = 0
      /\ Len(work) = 0 /\ Len(queue) \in Nat
      /\ UNCHANGED << status, parked, active, counts, owed >>
  BY TakeIs, FramesEmpty DEF Take, graph
<1>3. e \in Frame /\ e.op \in {"begin", "gc"} /\ \A u \in Unit : ~Drives(e, u)
  BY EventsAreFrames DEF Event, Drives
<1>4. /\ Tidy(work') /\ NoneFinished(work) /\ NoneFinished(work')
      /\ \A u \in Unit : DrivenIn(work', u) <=> DrivenIn(work, u)
  <2>0. << >> \in Seq(Frame)
    OBVIOUS
  <2>1. PICK w \in Seq(Frame) : w = << >> /\ work' = Append(w, e)
    BY <1>1, <2>0
  <2>2. Once(w) /\ NoneFinished(w) /\ \A u \in Unit : ~DrivenIn(w, u)
    BY <2>1, OnceEmpty
  <2>3. /\ Tidy(work') /\ \A u \in Unit : DrivenIn(work', u) <=> DrivenIn(w, u) \/ Drives(e, u)
    BY <1>3, <2>1, <2>2, OnceAppend
  <2> QED BY <1>1, <1>2, <1>3, <2>2, <2>3, OnceEmpty DEF NoneFinished
<1>5. BeginsApart'
  <2>1. Begins' = Begins
    BY <1>1, <1>2 DEF Begins
  <2>2. Len(work') + Len(queue') = Len(work) + Len(queue)
    BY <1>1, <1>2
  <2>3. BeginsApart /\ active' = active
    BY <1>2 DEF GraphSerial
  <2> QED BY <1>1, <1>3, <2>1, <2>2, <2>3 DEF BeginsApart
<1> QED BY <1>1, <1>2, <1>4, <1>5, QuietSerial

(* Clients come when all is over.                                          *)
LEMMA RequestSerial ==
    ASSUME ~Overlap, StopInv, GraphSerial, NEW c \in Waiter, NEW u \in Unit, RequestStop(c, u)
    PROVE  GraphSerial'
<1>1. /\ Shape /\ work = << >> /\ queue = << >> /\ active = {}
      /\ UNCHANGED << status, parked, active, counts, owed, work >>
  BY DEF StopInv, RequestStop, Settled, graph
<1>2. PICK e : e = StopTree(u, CreatedId(reg, u, "Stop", "Replace"))
  OBVIOUS
<1>3. /\ queue' = Append(<< >>, e) /\ Len(queue') = 1 /\ Frames(queue') = {e}
  BY <1>1, <1>2 DEF RequestStop, Frames
<1>4. Frames(work) = {} /\ Len(work) = 0
  BY <1>1, FramesEmpty
<1>5. BeginsApart'
  <2>1. Begins' \subseteq {e} /\ Frames(work') = {} /\ active' = {}
    BY <1>1, <1>3, <1>4 DEF Begins
  <2>2. e.job # NoJob
    <3>1. CreatedId(reg, u, "Stop", "Replace") \in JobId
      BY RequestClients DEF StopInv, Shape, TypeOK
    <3> QED BY <1>2, <3>1, JobIdIsNat DEF StopTree
  <2> QED BY <1>1, <1>3, <1>4, <2>1, <2>2 DEF BeginsApart
<1>6. Tidy(work) /\ NoneFinished(work)
  BY <1>4 DEF GraphSerial, NoneFinished
<1> QED BY <1>1, <1>5, <1>6, QuietSerial

LEMMA RestartSerial ==
    ASSUME ~Overlap, Shape, GraphSerial, NEW u \in Unit, Restart(u)
    PROVE  GraphSerial'
<1>1. /\ work = << >> /\ queue = << >> /\ active = {}
      /\ UNCHANGED << parked, active, counts, owed, work, queue >>
  BY DEF Restart, Settled, graph
<1>2. Frames(work) = {}
  BY <1>1, FramesEmpty
<1>3. Tidy(work)' /\ Exact' /\ OneAtWork' /\ BeginsApart'
  BY <1>1 DEF GraphSerial, Tidy, Once, Exact, Outstanding, OneAtWork, OneChain, Busy, Parked,
              DrivenIn, BeginsApart, Begins
<1>4. DependentsCounted' /\ UpToTheEnd'
  BY <1>1, <1>2 DEF DependentsCounted, UpToTheEnd
<1>5. StopShows'
  BY <1>1 DEF GraphSerial, StopShows, Restart, Down
<1> QED BY <1>3, <1>4, <1>5 DEF GraphSerial

-----------------------------------------------------------------------------
(* Units that wait for nobody. *)

LEMMA OutstandingIs ==
    ASSUME Shape, NEW p \in Unit
    PROVE  /\ Outstanding(p) \in Nat
           /\ \A c \in Unit : owed[c][p] <= Outstanding(p) /\ owed[c][p] \in Nat
<1> DEFINE o == [c \in Unit |-> owed[c][p]]
<1>1. IsFiniteSet(Unit) /\ \A c \in Unit : o[c] \in Nat /\ o[c] = owed[c][p]
  BY StopGraphAssumption DEF Shape, TypeOK
<1>2. Outstanding(p) = Total(Unit, o) + CreditSum(work, p)
  BY DEF Outstanding
<1> HIDE DEF o
<1>3. Total(Unit, o) \in Nat /\ CreditSum(work, p) \in Nat
  BY <1>1, PairsFinite, CreditSumNat DEF Shape
<1>4. ASSUME NEW c \in Unit PROVE o[c] <= Total(Unit, o)
  <2>1. IsFiniteSet(Unit \ {c})
    BY <1>1, FS_RemoveElement
  <2>2. Total(Unit \ {c}, o) \in Nat
    BY <1>1, <2>1, PairsFinite
  <2>3. Total(Unit, o) = Total(Unit \ {c}, o) + o[c]
    BY <1>1, TotalSplit
  <2> QED BY <1>1, <2>2, <2>3
<1>5. ASSUME NEW c \in Unit PROVE owed[c][p] <= Outstanding(p) /\ owed[c][p] \in Nat
  BY <1>1, <1>2, <1>3, <1>4
<1> QED BY <1>2, <1>3, <1>5

(* deactivate_unit is never refused, and nobody's ExecStop= command runs   *)
(* while a dependent is up.                                                *)
LEMMA DependentsAreDown ==
    ASSUME Shape, GraphSerial, NEW u \in active, counts[u] = 0
    PROVE  \A c \in Dependents(u) : c \in Unit /\ status[c] \in Down
<1>1. u \in Unit /\ Outstanding(u) <= 0 /\ Dependents(u) \subseteq Unit
  BY StopGraphAssumption DEF Shape, TypeOK, GraphSerial, Exact, Dependents
<1>2. \A c \in Unit : owed[c][u] = 0
  BY <1>1, OutstandingIs
<1> QED BY <1>1, <1>2 DEF GraphSerial, DependentsCounted

-----------------------------------------------------------------------------
(* Chains. *)

Statuses == [Unit -> {"NeverStarted", "Started", "Stopping", "Stopped"}]

(* What a step makes of u's only chain.                                    *)
ChainEffect(u) ==
    /\ \A v \in Unit \ {u} : parked'[v] = parked[v] /\ status'[v] = status[v]
    /\ \/ /\ Return(<< >>) /\ status'[u] \notin Down
          /\ parked'[u]["exec"] + parked'[u]["main"] + parked'[u]["post"] = 1
          /\ (parked'[u]["exec"] = 1 /\ status'[u] = status[u]) \/ status'[u] = "Stopping"
       \/ /\ Return(Finished(u)) /\ status'[u] = "Stopped"
          /\ \A ph \in Phase : parked'[u][ph] = 0

LEMMA ParkAlone ==
    ASSUME NEW p \in Chains, NEW u \in Unit, \A ph \in Phase : p[u][ph] = 0, NEW ph \in Phase
    PROVE  /\ Park(p, u, ph)[u][ph] = 1
           /\ \A h \in Phase \ {ph} : Park(p, u, ph)[u][h] = 0
           /\ Park(p, u, ph)[u]["exec"] + Park(p, u, ph)[u]["main"]
                + Park(p, u, ph)[u]["post"] = 1
           /\ \A v \in Unit \ {u} : Park(p, u, ph)[v] = p[v]
<1>1. /\ Park(p, u, ph)[u][ph] = 1
      /\ \A h \in Phase \ {ph} : Park(p, u, ph)[u][h] = 0
      /\ \A v \in Unit \ {u} : Park(p, u, ph)[v] = p[v]
  BY DEF Park, Chains
<1>2. Park(p, u, ph)[u]["exec"] + Park(p, u, ph)[u]["main"] + Park(p, u, ph)[u]["post"] = 1
  <2> DEFINE q == Park(p, u, ph)[u]
  <2>1. q[ph] = 1 /\ \A h \in Phase \ {ph} : q[h] = 0
    BY <1>1
  <2> SUFFICES q["exec"] + q["main"] + q["post"] = 1
    OBVIOUS
  <2> HIDE DEF q
  <2>2. CASE ph = "exec"
    <3>1. "main" \in Phase \ {ph} /\ "post" \in Phase \ {ph}
      BY <2>2 DEF Phase
    <3>2. q["exec"] = 1 /\ q["main"] = 0 /\ q["post"] = 0
      BY <2>1, <2>2, <3>1
    <3> QED BY <3>2
  <2>3. CASE ph = "main"
    <3>1. "exec" \in Phase \ {ph} /\ "post" \in Phase \ {ph}
      BY <2>3 DEF Phase
    <3>2. q["exec"] = 0 /\ q["main"] = 1 /\ q["post"] = 0
      BY <2>1, <2>3, <3>1
    <3> QED BY <3>2
  <2>4. CASE ph = "post"
    <3>1. "exec" \in Phase \ {ph} /\ "main" \in Phase \ {ph}
      BY <2>4 DEF Phase
    <3>2. q["exec"] = 0 /\ q["main"] = 0 /\ q["post"] = 1
      BY <2>1, <2>4, <3>1
    <3> QED BY <3>2
  <2>5. ph \in {"exec", "main", "post"}
    BY DEF Phase
  <2> QED BY <2>2, <2>3, <2>4, <2>5
<1> QED BY <1>1, <1>2

LEMMA PostEffect ==
    ASSUME TypeOK, NEW u \in Unit, NEW p \in Chains, \A ph \in Phase : p[u][ph] = 0,
           \A v \in Unit \ {u} : p[v] = parked[v],
           NEW st \in Statuses, st[u] = "Stopping", \A v \in Unit \ {u} : st[v] = status[v],
           PostPhase(u, p, st) \/ Finalize(u, p)
    PROVE  ChainEffect(u)
<1>1. CASE Finalize(u, p)
  BY <1>1 DEF Finalize, ChainEffect, TypeOK
<1>2. CASE status' = st /\ parked' = Park(p, u, "post") /\ Return(<< >>)
  <2>1. "post" \in Phase
    BY DEF Phase
  <2>2. /\ parked'[u]["exec"] + parked'[u]["main"] + parked'[u]["post"] = 1
        /\ \A v \in Unit \ {u} : parked'[v] = p[v]
    BY <1>2, <2>1, ParkAlone
  <2> QED BY <1>2, <2>2 DEF ChainEffect, Down
<1> QED BY <1>1, <1>2 DEF PostPhase

LEMMA TermEffect ==
    ASSUME TypeOK, NEW u \in Unit, NEW p \in Chains, \A ph \in Phase : p[u][ph] = 0,
           \A v \in Unit \ {u} : p[v] = parked[v], status[u] \notin Down, TermPhase(u, p)
    PROVE  ChainEffect(u)
<1> DEFINE st == [status EXCEPT ![u] = IF @ = "Stopped" THEN @ ELSE "Stopping"]
<1>1. st \in Statuses /\ st[u] = "Stopping" /\ \A v \in Unit \ {u} : st[v] = status[v]
  BY DEF TypeOK, Statuses, Down
<1>2. CASE status' = st /\ parked' = Park(p, u, "main") /\ Return(<< >>)
  <2>1. "main" \in Phase
    BY DEF Phase
  <2>2. /\ parked'[u]["exec"] + parked'[u]["main"] + parked'[u]["post"] = 1
        /\ \A v \in Unit \ {u} : parked'[v] = p[v]
    BY <1>2, <2>1, ParkAlone
  <2> HIDE DEF st
  <2> QED BY <1>1, <1>2, <2>2 DEF ChainEffect, Down
<1>3. CASE PostPhase(u, p, st)
  <2> HIDE DEF st
  <2> QED BY <1>1, <1>3, PostEffect
<1> QED BY <1>2, <1>3 DEF TermPhase

LEMMA StartEffect ==
    ASSUME Shape, StartChain, NEW u \in Unit, u = Top.unit, ~Parked(u), status[u] \notin Down,
           \A c \in Dependents(u) : status[c] \in Down
    PROVE  ChainEffect(u)
<1>1. TypeOK /\ parked \in Chains /\ \A ph \in Phase : parked[u][ph] = 0
  BY DEF Shape, TypeOK, Chains, Parked
<1>2. CASE StartService(u)
  <2>1. CASE parked' = Park(parked, u, "exec") /\ status' = status /\ Return(<< >>)
    <3>1. "exec" \in Phase
      BY DEF Phase
    <3>2. /\ parked'[u]["exec"] = 1
          /\ parked'[u]["exec"] + parked'[u]["main"] + parked'[u]["post"] = 1
          /\ \A v \in Unit \ {u} : parked'[v] = parked[v]
      BY <1>1, <2>1, <3>1, ParkAlone
    <3> QED BY <2>1, <3>2 DEF ChainEffect
  <2>2. CASE TermPhase(u, parked)
    BY <1>1, <2>2, TermEffect
  <2> QED BY <1>2, <2>1, <2>2 DEF StartService
<1>3. CASE StopInline(u)
  <2>1. \A c \in Dependents(u) : status[c] # "Started"
    BY DEF Down
  <2>2. status' = [status EXCEPT ![u] = "Stopped"] /\ parked' = parked /\ Return(Finished(u))
    BY <1>3, <2>1 DEF StopInline
  <2> QED BY <1>1, <2>2 DEF ChainEffect, TypeOK
<1> QED BY <1>2, <1>3 DEF StartChain

LEMMA AdvanceEffect ==
    ASSUME Shape, OneChain, StopShows, NEW u \in Unit, Advance(u), status[u] \notin Down
    PROVE  ChainEffect(u)
<1>1. /\ TypeOK /\ parked \in Chains /\ status \in Statuses
      /\ parked[u]["exec"] \in Nat /\ parked[u]["main"] \in Nat /\ parked[u]["post"] \in Nat
      /\ parked[u]["exec"] + parked[u]["main"] + parked[u]["post"] <= 1
  BY DEF Shape, TypeOK, Chains, Phase, OneChain, Statuses
<1>2. ASSUME NEW ph \in Phase, parked[u][ph] > 0
      PROVE  /\ Unpark(u, ph) \in Chains
             /\ \A h \in Phase : Unpark(u, ph)[u][h] = 0
             /\ \A v \in Unit \ {u} : Unpark(u, ph)[v] = parked[v]
  <2>1. /\ Unpark(u, ph) \in Chains
        /\ \A v \in Unit \ {u} : Unpark(u, ph)[v] = parked[v]
    BY <1>1, <1>2, UnparkProps
  <2>2. \A h \in Phase : Unpark(u, ph)[u][h] = IF h = ph THEN parked[u][h] - 1 ELSE parked[u][h]
    BY <1>1 DEF Unpark, Chains
  <2>3. parked[u][ph] = 1 /\ \A h \in Phase \ {ph} : parked[u][h] = 0
    <3>1. ph \in {"exec", "main", "post"} /\ Phase = {"exec", "main", "post"}
      BY DEF Phase
    <3>2. CASE ph = "exec"
      <4>1. parked[u]["exec"] = 1 /\ parked[u]["main"] = 0 /\ parked[u]["post"] = 0
        BY <1>1, <1>2, <3>2
      <4> QED BY <3>1, <3>2, <4>1
    <3>3. CASE ph = "main"
      <4>1. parked[u]["exec"] = 0 /\ parked[u]["main"] = 1 /\ parked[u]["post"] = 0
        BY <1>1, <1>2, <3>3
      <4> QED BY <3>1, <3>3, <4>1
    <3>4. CASE ph = "post"
      <4>1. parked[u]["exec"] = 0 /\ parked[u]["main"] = 0 /\ parked[u]["post"] = 1
        BY <1>1, <1>2, <3>4
      <4> QED BY <3>1, <3>4, <4>1
    <3> QED BY <3>1, <3>2, <3>3, <3>4
  <2> QED BY <2>1, <2>2, <2>3
<1>3. "exec" \in Phase /\ "main" \in Phase /\ "post" \in Phase
  BY DEF Phase
<1>4. CASE parked[u]["exec"] > 0 /\ TermPhase(u, Unpark(u, "exec"))
  BY <1>1, <1>2, <1>3, <1>4, TermEffect
<1>5. CASE parked[u]["main"] > 0 /\ PostPhase(u, Unpark(u, "main"), status)
  BY <1>1, <1>2, <1>3, <1>5, PostEffect DEF StopShows
<1>6. CASE parked[u]["post"] > 0 /\ Finalize(u, Unpark(u, "post"))
  BY <1>1, <1>2, <1>3, <1>6, PostEffect DEF StopShows
<1> QED BY <1>4, <1>5, <1>6 DEF Advance

(* The units in the graph are up while no chain is finishing.              *)
LEMMA ActiveUp ==
    ASSUME GraphSerial, NoneFinished(work), NEW u \in active
    PROVE  status[u] \notin Down
  BY DEF GraphSerial, UpToTheEnd, NoneFinished

(* With a unit in the graph no requested stop is waiting.                  *)
LEMMA BeginsLeafy ==
    ASSUME GraphSerial, active # {}
    PROVE  Leafy(Frames(work)) /\ \A f \in Begins : f.job = NoJob /\ Dependents(f.unit) = {}
  BY DEF GraphSerial, BeginsApart, Begins, Leafy

LEMMA ChainSerial ==
    ASSUME StopInv, GraphSerial, TypeOK', NEW u \in active, counts[u] = 0, ChainEffect(u),
           Idle \/ (~Idle /\ Top.op = "start" /\ Top.unit = u),
           UNCHANGED << graph, queue >>
    PROVE  GraphSerial' /\ NoRequests'
<1>1. /\ Shape /\ TypeOK /\ work \in Seq(Frame) /\ u \in Unit /\ active \subseteq Unit
      /\ Tidy(work)
      /\ UNCHANGED << active, counts, owed, queue >>
  BY DEF StopInv, Shape, TypeOK, graph, GraphSerial
<1>2. /\ NoneFinished(work) /\ ~DrivenIn(Callers, u) /\ NoneFinished(Callers)
      /\ \A v \in Unit \ {u} : DrivenIn(work, v) <=> DrivenIn(Callers, v)
      /\ Frames(Callers) \subseteq Frames(work)
      /\ \A p \in Unit : CreditSum(Callers, p) = CreditSum(work, p) /\ CreditSum(work, p) \in Nat
  <2>1. CASE Idle
    BY <1>1, <2>1, StackBase, TidyCallers DEF NoneFinished
  <2>2. CASE ~Idle
    <3>1. /\ Top.op = "start" /\ Top.unit = u /\ Drives(Top, u)
          /\ \A v \in Unit \ {u} : ~Drives(Top, v)
          /\ \A p \in Unit : CreditOf(Top, p) = 0
      BY <2>2 DEF Drives, CreditOf
    <3>2. NoneFinished(work)
      BY <1>1, <2>2, <3>1, TopNotFinished
    <3>3. \A p \in Unit : CreditSum(Callers, p) = CreditSum(work, p) /\ CreditSum(work, p) \in Nat
      BY <1>1, <2>2, <3>1, StackBase
    <3> QED BY <1>1, <2>2, <3>1, <3>2, <3>3, StackBase, TidyCallers
  <2> QED BY <2>1, <2>2
<1> DEFINE f == [op |-> "finished", unit |-> u]
           Over == Return(Finished(u)) /\ status'[u] = "Stopped"
                   /\ \A ph \in Phase : parked'[u][ph] = 0
           Goes == /\ Return(<< >>) /\ status'[u] \notin Down
                   /\ parked'[u]["exec"] + parked'[u]["main"] + parked'[u]["post"] = 1
                   /\ (parked'[u]["exec"] = 1 /\ status'[u] = status[u]) \/ status'[u] = "Stopping"
<1>3. /\ Over \/ Goes
      /\ \A v \in Unit \ {u} : parked'[v] = parked[v] /\ status'[v] = status[v]
  BY DEF ChainEffect
<1>4. f \in Frame /\ f.op = "finished" /\ f.unit = u /\ Finished(u) = << f >>
  BY <1>1 DEF Frame, Finished
<1> HIDE DEF f, Over, Goes
<1>5. ASSUME Goes
      PROVE  /\ Tidy(work') /\ Frames(work') = Frames(Callers)
             /\ \A v \in Unit : DrivenIn(work', v) <=> DrivenIn(Callers, v)
             /\ \A p \in Unit : CreditSum(work', p) = CreditSum(work, p)
  BY <1>1, <1>2, <1>5, TidyNone, ReturnNone DEF Goes
<1>6. ASSUME Over
      PROVE  /\ Tidy(work') /\ Frames(work') = Frames(Callers) \cup {f}
             /\ \A v \in Unit : DrivenIn(work', v) <=> DrivenIn(Callers, v) \/ v = u
             /\ \A p \in Unit : CreditSum(work', p) = CreditSum(work, p)
  <2>1. Return(<< f >>) /\ \A v \in Unit : Drives(f, v) <=> v = u
    BY <1>4, <1>6 DEF Over, Drives
  <2>2. /\ Tidy(work') /\ Frames(work') = Frames(Callers) \cup {f}
        /\ \A v \in Unit : DrivenIn(work', v) <=> DrivenIn(Callers, v) \/ Drives(f, v)
    BY <1>1, <1>2, <1>4, <2>1, TidyOne
  <2>3. \A p \in Unit : CreditSum(work', p) = CreditSum(Callers, p) + CreditOf(f, p)
    BY <1>1, <1>4, <2>1, ReturnOne
  <2> QED BY <1>2, <1>4, <2>1, <2>2, <2>3 DEF CreditOf
<1>7. Tidy(work')
  BY <1>3, <1>5, <1>6
<1>8. Exact'
  <2> SUFFICES ASSUME NEW p \in Unit
               PROVE  IF p \in active THEN Outstanding(p)' <= counts[p]
                      ELSE Outstanding(p)' = 0
    BY <1>1 DEF Exact
  <2>1. Outstanding(p)' = Outstanding(p)
    BY <1>1, <1>3, <1>5, <1>6 DEF Outstanding
  <2> QED BY <2>1 DEF GraphSerial, Exact
<1>9. DependentsCounted'
  <2> SUFFICES ASSUME NEW p \in active, NEW c \in Dependents(p)
               PROVE  status'[c] \in Down \/ (c \in active /\ owed[c][p] > 0)
    BY <1>1 DEF DependentsCounted
  <2>1. c \in Unit
    BY <1>1, StopGraphAssumption DEF Dependents
  <2>2. status[u] \notin Down
    BY <1>2, ActiveUp
  <2> QED BY <1>3, <2>1, <2>2 DEF GraphSerial, DependentsCounted
<1>10. ASSUME NEW v \in Unit
       PROVE  /\ parked'[v]["exec"] + parked'[v]["main"] + parked'[v]["post"] <= 1
              /\ Busy(v)' => v \in active /\ counts[v] = 0
              /\ DrivenIn(work', v) => ~Parked(v)'
  <2>1. CASE v = u
    <3>1. CASE Over
      <4>1. /\ parked'[u]["exec"] = 0 /\ parked'[u]["main"] = 0 /\ parked'[u]["post"] = 0
            /\ ~Parked(u)'
        BY <3>1 DEF Over, Phase, Parked
      <4> QED BY <2>1, <4>1
    <3>2. CASE Goes
      <4>1. ~DrivenIn(work', u)
        BY <1>1, <1>2, <1>5, <3>2
      <4> QED BY <2>1, <3>2, <4>1 DEF Goes
    <3> QED BY <1>3, <3>1, <3>2
  <2>2. CASE v # u
    <3>1. parked'[v] = parked[v] /\ (Parked(v)' <=> Parked(v))
      BY <1>3, <2>2 DEF Parked
    <3>2. DrivenIn(work', v) <=> DrivenIn(work, v)
      BY <1>2, <1>3, <1>5, <1>6, <2>2
    <3>3. Busy(v)' <=> Busy(v)
      BY <3>1, <3>2 DEF Busy, DrivenIn
    <3> QED BY <3>1, <3>2, <3>3 DEF GraphSerial, OneAtWork, OneChain
  <2> QED BY <2>1, <2>2
<1>11. OneAtWork'
  BY <1>1, <1>10 DEF OneAtWork, OneChain
<1>12. UpToTheEnd'
  <2>1. ASSUME NEW g \in Frames(work'), g.op = "finished" PROVE status'[g.unit] \in Down
    <3>1. Over /\ g = f
      BY <1>2, <1>3, <1>5, <1>6, <2>1 DEF NoneFinished
    <3> QED BY <1>4, <3>1 DEF Over, Down
  <2>2. ASSUME NEW v \in active, status'[v] \in Down
        PROVE  \E g \in Frames(work') : g.op = "finished" /\ g.unit = v
    <3>1. v \in Unit /\ status[v] \notin Down
      BY <1>1, <1>2, ActiveUp
    <3>2. v = u /\ Over
      BY <1>3, <2>2, <3>1 DEF Goes
    <3> QED BY <1>4, <1>6, <3>2
  <2> QED BY <1>1, <2>1, <2>2 DEF UpToTheEnd
<1>13. StopShows'
  <2> SUFFICES ASSUME NEW v \in Unit, parked'[v]["main"] > 0 \/ parked'[v]["post"] > 0
               PROVE  status'[v] = "Stopping"
    BY DEF StopShows
  <2>1. CASE v = u
    <3>1. CASE Over
      BY <2>1, <3>1 DEF Over, Phase
    <3>2. CASE Goes
      <4>1. /\ parked'[u]["exec"] \in Nat /\ parked'[u]["main"] \in Nat
            /\ parked'[u]["post"] \in Nat
        BY <1>1 DEF TypeOK, Phase
      <4> QED BY <2>1, <3>2, <4>1 DEF Goes
    <3> QED BY <1>3, <3>1, <3>2
  <2>2. CASE v # u
    BY <1>3, <2>2 DEF GraphSerial, StopShows
  <2> QED BY <2>1, <2>2
<1>14. BeginsApart' /\ NoRequests'
  <2>1. \A g \in Frames(work') : g \in Frames(work) \/ g.op = "finished"
    BY <1>2, <1>3, <1>4, <1>5, <1>6
  <2>2. Begins' \subseteq Begins
    BY <1>1, <2>1 DEF Begins
  <2> QED BY <1>1, <2>1, <2>2, BeginsLeafy DEF BeginsApart, NoRequests, Leafy
<1> QED BY <1>7, <1>8, <1>9, <1>11, <1>12, <1>13, <1>14 DEF GraphSerial

LEMMA ChainStepSerial ==
    ASSUME StopInv, GraphSerial, NEW u \in Unit,
           (StartChain /\ u = Top.unit) \/ Advance(u)
    PROVE  /\ GraphSerial' /\ NoRequests' /\ ChainEffect(u) /\ u \in active
           /\ status[u] \notin Down
           /\ \A c \in Dependents(u) : c \in Unit /\ status[c] \in Down
<1>1. /\ Shape /\ work \in Seq(Frame) /\ Tidy(work) /\ UNCHANGED << graph, queue >>
      /\ OneAtWork /\ StopShows
  BY DEF StopInv, Shape, GraphSerial, StartChain, Advance
<1>2. TypeOK'
  BY ChainStep DEF StopInv, Shape
<1>3. CASE StartChain /\ u = Top.unit
  <2>1. ~Idle /\ Top.op = "start" /\ Top \in Frames(work) /\ Drives(Top, u)
    BY <1>1, <1>3, StackBase DEF StartChain, Running, Idle, Drives
  <2>2. u \in active /\ counts[u] = 0 /\ ~Parked(u)
    BY <1>1, <2>1 DEF OneAtWork, Busy, DrivenIn
  <2>3. status[u] \notin Down
    BY <1>1, <2>1, <2>2, TopNotFinished, ActiveUp
  <2>4. \A c \in Dependents(u) : c \in Unit /\ status[c] \in Down
    BY <1>1, <2>2, DependentsAreDown
  <2>5. ChainEffect(u)
    BY <1>1, <1>3, <2>2, <2>3, <2>4, StartEffect
  <2> QED BY <1>1, <1>2, <1>3, <2>1, <2>2, <2>3, <2>4, <2>5, ChainSerial
<1>4. CASE Advance(u)
  <2>1. Idle /\ Frames(work) = {}
    BY <1>1, <1>4, StackBase DEF Advance
  <2>2. Parked(u)
    BY <1>4 DEF Advance, Parked, Phase
  <2>3. u \in active /\ counts[u] = 0
    BY <1>1, <2>2 DEF OneAtWork, Busy
  <2>4. status[u] \notin Down
    BY <2>1, <2>3, ActiveUp DEF NoneFinished
  <2>5. \A c \in Dependents(u) : c \in Unit /\ status[c] \in Down
    BY <1>1, <2>3, DependentsAreDown
  <2>6. ChainEffect(u)
    BY <1>1, <1>4, <2>4, AdvanceEffect DEF OneAtWork
  <2> QED BY <1>1, <1>2, <2>1, <2>3, <2>4, <2>5, <2>6, ChainSerial
<1> QED BY <1>3, <1>4

LEMMA FinishedSerial ==
    ASSUME StopInv, GraphSerial, ChainFinished
    PROVE  GraphSerial' /\ NoRequests' /\ status[Top.unit] \in Down
<1>1. /\ Shape /\ TypeOK /\ work \in Seq(Frame) /\ Tidy(work) /\ ~Idle /\ Top.op = "finished"
      /\ GraphInv
  BY DEF StopInv, Shape, GraphSerial, ChainFinished, Running, Idle
<1>2. Top \in Frame /\ Top \in Frames(work) /\ Frames(work) = Frames(Callers) \cup {Top}
  BY <1>1, StackBase
<1>3. PICK u : u = Top.unit
  OBVIOUS
<1>4. PICK f : f = [op |-> "credit", unit |-> u, owed |-> owed[u]]
  OBVIOUS
<1>5. /\ active' = active \ {u} /\ counts' = Without(counts, u)
      /\ owed' = [owed EXCEPT ![u] = [p \in Unit |-> 0]] /\ Return(<< f >>)
      /\ UNCHANGED << status, parked, queue >>
  BY <1>3, <1>4 DEF ChainFinished
<1>6. u \in Unit /\ f \in Frame /\ f.op = "credit" /\ Drives(Top, u)
  BY <1>1, <1>2, <1>3, <1>4 DEF Frame, Event, TypeOK, Drives
<1>7. /\ u \in active /\ counts[u] = 0 /\ ~Parked(u) /\ status[u] \in Down
  BY <1>1, <1>2, <1>3, <1>6 DEF GraphSerial, OneAtWork, Busy, DrivenIn, UpToTheEnd
<1>8. /\ NoneFinished(Callers) /\ ~DrivenIn(Callers, u)
      /\ \A v \in Unit \ {u} : DrivenIn(work, v) <=> DrivenIn(Callers, v)
  BY <1>1, <1>3, <1>6, TidyCallers DEF Drives
<1>9. /\ Tidy(work') /\ Frames(work') = Frames(Callers) \cup {f}
      /\ \A v \in Unit : DrivenIn(work', v) <=> DrivenIn(Callers, v)
  BY <1>1, <1>5, <1>6, TidyOne DEF Drives
<1>10. \A p \in active' : p \in active /\ p # u /\ counts'[p] = counts[p]
  BY <1>1, <1>5 DEF Without, GraphInv, Domains
<1>11. Exact'
  <2> SUFFICES ASSUME NEW p \in Unit
               PROVE  IF p \in active' THEN Outstanding(p)' <= counts'[p]
                      ELSE Outstanding(p)' = 0
    BY DEF Exact
  <2>1. Outstanding(p)' = Outstanding(p) /\ Outstanding(p) \in Nat
    BY <1>1, <1>3, <1>4, FinishedBacked, OutstandingIs
  <2>2. IF p \in active THEN Outstanding(p) <= counts[p] ELSE Outstanding(p) = 0
    BY DEF GraphSerial, Exact
  <2>3. p \notin active' => p \notin active \/ p = u
    BY <1>5
  <2> QED BY <1>7, <1>10, <2>1, <2>2, <2>3
<1>12. DependentsCounted'
  <2> SUFFICES ASSUME NEW p \in active', NEW c \in Dependents(p)
               PROVE  status[c] \in Down \/ (c \in active' /\ owed'[c][p] > 0)
    BY <1>5 DEF DependentsCounted
  <2>1. p \in active /\ p \in Unit
    BY <1>1, <1>10 DEF TypeOK
  <2>2. CASE c = u
    BY <1>7, <2>2
  <2>3. CASE c # u
    <3>1. status[c] \in Down \/ (c \in active /\ owed[c][p] > 0)
      BY <2>1 DEF GraphSerial, DependentsCounted
    <3> QED BY <1>1, <1>5, <2>3, <3>1 DEF TypeOK
  <2> QED BY <2>2, <2>3
<1>13. OneAtWork'
  <2>1. OneChain'
    BY <1>5 DEF GraphSerial, OneAtWork, OneChain
  <2>2. ASSUME NEW v \in Unit
        PROVE  /\ Busy(v)' => v \in active' /\ counts'[v] = 0
               /\ DrivenIn(work', v) => ~Parked(v)'
    <3>1. Parked(v)' <=> Parked(v)
      BY <1>5 DEF Parked
    <3>2. CASE v = u
      <4>1. ~Busy(v)'
        BY <1>7, <1>8, <1>9, <3>1, <3>2 DEF Busy, DrivenIn
      <4> QED BY <1>6, <1>8, <1>9, <3>2, <4>1
    <3>3. CASE v # u
      <4>1. (Busy(v)' <=> Busy(v)) /\ (DrivenIn(work', v) <=> DrivenIn(work, v))
        BY <1>8, <1>9, <3>1, <3>3 DEF Busy, DrivenIn
      <4>2. Busy(v) => v \in active' /\ counts'[v] = counts[v]
        BY <1>5, <1>10, <3>3 DEF GraphSerial, OneAtWork
      <4> QED BY <3>1, <4>1, <4>2 DEF GraphSerial, OneAtWork
    <3> QED BY <3>2, <3>3
  <2> QED BY <2>1, <2>2 DEF OneAtWork
<1>14. UpToTheEnd'
  <2>1. NoneFinished(work')
    BY <1>6, <1>8, <1>9 DEF NoneFinished
  <2>2. ASSUME NEW v \in active', status[v] \in Down PROVE FALSE
    <3>1. v \in active /\ v # u
      BY <1>10
    <3>2. PICK g \in Frames(work) : g.op = "finished" /\ g.unit = v
      BY <2>2, <3>1 DEF GraphSerial, UpToTheEnd
    <3> QED BY <1>2, <1>3, <1>8, <3>1, <3>2 DEF NoneFinished
  <2> QED BY <1>5, <2>1, <2>2 DEF UpToTheEnd, NoneFinished
<1>15. StopShows'
  BY <1>5 DEF GraphSerial, StopShows
<1>16. BeginsApart' /\ NoRequests'
  <2>1. \A g \in Frames(work') : g \in Frames(work) \/ g.op = "credit"
    BY <1>2, <1>6, <1>9
  <2>2. Begins' \subseteq Begins
    BY <1>5, <2>1 DEF Begins
  <2> QED BY <1>7, <2>1, <2>2, BeginsLeafy DEF BeginsApart, NoRequests, Leafy
<1> QED BY <1>3, <1>7, <1>9, <1>11, <1>12, <1>13, <1>14, <1>15, <1>16 DEF GraphSerial

LEMMA CreditSerial ==
    ASSUME StopInv, GraphSerial, Credit
    PROVE  GraphSerial' /\ NoRequests'
<1>1. /\ Shape /\ TypeOK /\ work \in Seq(Frame) /\ Tidy(work) /\ ~Idle /\ Top.op = "credit"
      /\ GraphInv /\ DOMAIN counts = active
      /\ UNCHANGED << status, parked, active, owed, queue >>
  BY DEF StopInv, Shape, GraphSerial, Credit, Running, Idle, GraphInv, Domains
<1>2. Frames(work) = Frames(Callers) \cup {Top} /\ NoneFinished(work)
      /\ \A v \in Unit : DrivenIn(work, v) <=> DrivenIn(Callers, v)
  BY <1>1, StackBase, TopNotFinished, TidyCallers DEF Drives
<1>3. PICK p \in Unit, n \in Nat, f \in Frame, g \in Frame :
        /\ f.op = "credit" /\ g.op = "start" /\ g.unit = p
        /\ IF Due(p, n) THEN Return(<< f, g >>) ELSE Return(<< f >>)
        /\ p \in active => (n = 0 /\ counts[p] = 0) \/ n = counts[p] - 1
        /\ \A q \in active \ {p} : counts'[q] = counts[q]
        /\ p \in active => counts'[p] = n
        /\ \A q \in Unit \ {p} : Outstanding(q)' = Outstanding(q)
        /\ Outstanding(p)' = Outstanding(p) - 1
        /\ Outstanding(p) \in Nat /\ Outstanding(p) > 0
  BY CreditIs
<1>4. /\ p \in active /\ counts[p] \in Nat /\ counts[p] > 0 /\ n = counts[p] - 1
      /\ Outstanding(p) <= counts[p]
  <2>1. p \in active /\ Outstanding(p) <= counts[p] /\ counts[p] \in Nat
    BY <1>1, <1>3 DEF GraphSerial, Exact, TypeOK
  <2> QED BY <1>3, <2>1
<1>5. ~Busy(p) /\ ~Parked(p) /\ ~DrivenIn(work, p) /\ ~DrivenIn(Callers, p)
  BY <1>2, <1>4 DEF GraphSerial, OneAtWork, Busy, DrivenIn
<1>6. /\ Tidy(work')
      /\ \A h \in Frames(work') : h \in Frames(Callers) \/ h.op \in {"credit", "start"}
      /\ \A v \in Unit : DrivenIn(work', v) <=> DrivenIn(work, v) \/ (n = 0 /\ v = p)
  <2>1. CASE n = 0
    <3>1. Return(<< f, g >>)
      BY <1>1, <1>3, <1>4, <2>1 DEF Due
    <3>2. \A v \in Unit : ~Drives(f, v) /\ (Drives(g, v) <=> v = p)
      BY <1>3 DEF Drives
    <3>3. /\ Tidy(work') /\ Frames(work') = Frames(Callers) \cup {f, g}
          /\ \A u \in Unit : DrivenIn(work', u) <=>
               DrivenIn(Callers, u) \/ Drives(f, u) \/ Drives(g, u)
      BY <1>1, <1>3, <1>5, <3>1, <3>2, TidyTwo
    <3> QED BY <1>2, <1>3, <2>1, <3>2, <3>3
  <2>2. CASE n # 0
    <3>1. Return(<< f >>)
      BY <1>3, <2>2 DEF Due
    <3>2. \A v \in Unit : ~Drives(f, v)
      BY <1>3 DEF Drives
    <3>3. /\ Tidy(work') /\ Frames(work') = Frames(Callers) \cup {f}
          /\ \A u \in Unit : DrivenIn(work', u) <=> DrivenIn(Callers, u) \/ Drives(f, u)
      BY <1>1, <3>1, <3>2, TidyOne
    <3> QED BY <1>2, <1>3, <2>2, <3>2, <3>3
  <2> QED BY <2>1, <2>2
<1>7. Exact'
  <2> SUFFICES ASSUME NEW q \in Unit
               PROVE  IF q \in active THEN Outstanding(q)' <= counts'[q]
                      ELSE Outstanding(q)' = 0
    BY <1>1 DEF Exact
  <2>1. CASE q = p
    BY <1>3, <1>4, <2>1
  <2>2. CASE q # p
    BY <1>3, <2>2 DEF GraphSerial, Exact
  <2> QED BY <2>1, <2>2
<1>8. DependentsCounted' /\ StopShows'
  BY <1>1 DEF GraphSerial, DependentsCounted, StopShows
<1>9. OneAtWork'
  <2>1. OneChain'
    BY <1>1 DEF GraphSerial, OneAtWork, OneChain
  <2>2. ASSUME NEW v \in Unit
        PROVE  /\ Busy(v)' => v \in active /\ counts'[v] = 0
               /\ DrivenIn(work', v) => ~Parked(v)'
    <3>1. (Parked(v)' <=> Parked(v)) /\ (Busy(v)' <=> Parked(v) \/ DrivenIn(work', v))
      BY <1>1 DEF Parked, Busy, DrivenIn
    <3>2. CASE v = p
      BY <1>3, <1>4, <1>5, <1>6, <3>1, <3>2
    <3>3. CASE v # p
      <4>1. (Busy(v)' <=> Busy(v)) /\ (DrivenIn(work', v) <=> DrivenIn(work, v))
        BY <1>6, <3>1, <3>3 DEF Busy, DrivenIn
      <4> QED BY <1>3, <3>1, <3>3, <4>1 DEF GraphSerial, OneAtWork
    <3> QED BY <3>2, <3>3
  <2> QED BY <1>1, <2>1, <2>2 DEF OneAtWork
<1>10. UpToTheEnd'
  <2>1. NoneFinished(work')
    BY <1>2, <1>6 DEF NoneFinished
  <2> QED BY <1>1, <1>2, <2>1 DEF GraphSerial, UpToTheEnd, NoneFinished
<1>11. BeginsApart' /\ NoRequests'
  <2>1. Begins' \subseteq Begins
    BY <1>1, <1>2, <1>6 DEF Begins
  <2> QED BY <1>1, <1>2, <1>4, <1>6, <2>1, BeginsLeafy DEF BeginsApart, NoRequests, Leafy
<1> QED BY <1>6, <1>7, <1>8, <1>9, <1>10, <1>11 DEF GraphSerial

-----------------------------------------------------------------------------
(* begin_stop_tree *)

(* The members of a tree are up, and take their dependents along.          *)
LEMMA MembersClosed ==
    ASSUME NEW root \in Unit, NEW u \in Members(root)
    PROVE  /\ u \in Unit /\ status[u] \notin Down
           /\ \A c \in Dependents(u) : c \in Members(root) \/ status[c] \in Down
<1>1. u \in Unit /\ status[u] \notin Down
  BY DEF Members
<1>2. ASSUME NEW c \in Dependents(u), status[c] \notin Down PROVE c \in Members(root)
  <2>1. c \in Unit
    BY <1>1, StopGraphAssumption DEF Dependents
  <2> DEFINE up     == {v \in Unit : status[v] \notin Down}
             closed == {S \in SUBSET up :
                          root \in S /\ \A v \in S : Dependents(v) \cap up \subseteq S}
  <2>2. /\ root \in up /\ \A S \in closed : u \in S
        /\ Members(root) = {v \in up : root \in up /\ \A S \in closed : v \in S}
    BY DEF Members
  <2>3. c \in up
    BY <1>2, <2>1
  <2>4. ASSUME NEW S \in closed PROVE c \in S
    BY <2>2, <2>3
  <2> HIDE DEF up, closed
  <2> QED BY <2>2, <2>3, <2>4
<1> QED BY <1>1, <1>2

LEMMA MembersRoot ==
    ASSUME NEW root \in Unit
    PROVE  Members(root) = {} => status[root] \in Down
  BY DEF Members

LEMMA MembersAlone ==
    ASSUME NEW root \in Unit, Dependents(root) = {}
    PROVE  Members(root) \subseteq {root}
<1> SUFFICES ASSUME NEW u \in Members(root), u # root PROVE FALSE
  OBVIOUS
<1> DEFINE up     == {v \in Unit : status[v] \notin Down}
           closed == {S \in SUBSET up :
                        root \in S /\ \A v \in S : Dependents(v) \cap up \subseteq S}
<1>1. root \in up /\ \A S \in closed : u \in S
  BY DEF Members
<1>2. {root} \in closed
  BY <1>1
<1> QED BY <1>1, <1>2

LEMMA TreeSerial ==
    ASSUME StopInv, GraphSerial, BeginTree
    PROVE  GraphSerial' /\ NoRequests'
<1>1. /\ Shape /\ TypeOK /\ work \in Seq(Frame) /\ Tidy(work) /\ ~Idle /\ Top.op = "begin"
      /\ GraphInv /\ DOMAIN counts = active /\ BeginsApart
  BY DEF StopInv, Shape, GraphSerial, BeginTree, Running, Idle, GraphInv, Domains
<1>2. /\ Top \in Frame /\ Frames(work) = Frames(Callers) \cup {Top}
      /\ NoneFinished(work) /\ NoneFinished(Callers)
      /\ \A v \in Unit : DrivenIn(work, v) <=> DrivenIn(Callers, v)
      /\ Leafy(Frames(Callers)) /\ Leafy(Frames(queue))
  BY <1>1, StackBase, TopNotFinished, TidyCallers, CallersLeafy DEF Drives
<1>3. Top.unit \in Unit
  BY <1>1, <1>2 DEF Frame, Event
<1> DEFINE members == Members(Top.unit)
           act == active \cup members
           new == [p \in DOMAIN counts \cup members |-> CountWith(members, p)]
           f   == [op |-> "chains", units |-> {u \in members : new[u] = 0}]
<1>4. /\ Top.unit \notin active /\ members # {} /\ active' = act /\ counts' = new
      /\ owed' = [c \in Unit |-> [p \in Unit |->
                    owed[c][p] + IF c \in act /\ p \in members THEN Edges(c, p) ELSE 0]]
      /\ Return(<< f >>)
      /\ UNCHANGED << status, parked, queue >>
  BY DEF BeginTree
<1>5. members \subseteq Unit /\ act \subseteq Unit
  BY <1>1, <1>3, <1>4, MembersProps DEF TypeOK
<1>6. \A u \in members : /\ status[u] \notin Down
                         /\ \A c \in Dependents(u) : c \in members \/ status[c] \in Down
  BY <1>3, MembersClosed
<1>7. members \cap active = {}
  <2>1. CASE Top.job = NoJob
    <3>1. Top \in Begins /\ Dependents(Top.unit) = {}
      BY <1>1, <1>2, <2>1 DEF Begins, BeginsApart
    <3> QED BY <1>3, <1>4, <3>1, MembersAlone
  <2>2. CASE Top.job # NoJob
    <3>1. Top \in Begins /\ active = {}
      BY <1>1, <1>2, <2>2 DEF Begins, BeginsApart
    <3> QED BY <3>1
  <2> QED BY <2>1, <2>2
<1>8. ASSUME NEW p \in Unit
      PROVE  /\ IF p \in active' THEN Outstanding(p)' <= counts'[p]
                ELSE Outstanding(p)' = 0
             /\ p \in active => counts'[p] = counts[p]
  <2> DEFINE old == IF p \in active THEN counts[p] ELSE 0
  <2>1. PICK k \in Nat : /\ Outstanding(p) \in Nat /\ old \in Nat
                         /\ Outstanding(p)' = Outstanding(p) + k
                         /\ p \in active \cup members => counts'[p] = old + k
                         /\ p \notin members => k = 0
    BY TreeSums
  <2>2. IF p \in active THEN Outstanding(p) <= counts[p] ELSE Outstanding(p) = 0
    BY DEF GraphSerial, Exact
  <2> HIDE DEF members
  <2>3. CASE p \in members
    BY <1>4, <1>7, <2>1, <2>2, <2>3
  <2>4. CASE p \notin members
    BY <1>4, <2>1, <2>2, <2>4
  <2> QED BY <2>3, <2>4
<1> HIDE DEF members
<1>9. f \in Frame /\ f.op = "chains" /\ f.units = {u \in members : counts'[u] = 0}
  BY <1>4, <1>5 DEF Frame
<1> HIDE DEF f, new
<1>10. \A u \in f.units : u \in Unit /\ ~Busy(u) /\ ~Parked(u) /\ ~DrivenIn(Callers, u)
  BY <1>2, <1>5, <1>7, <1>9 DEF GraphSerial, OneAtWork, Busy, DrivenIn
<1>11. \A v \in Unit : Drives(f, v) <=> v \in f.units
  BY <1>9 DEF Drives
<1>12. /\ Tidy(work') /\ Frames(work') = Frames(Callers) \cup {f}
       /\ \A v \in Unit : DrivenIn(work', v) <=> DrivenIn(work, v) \/ v \in f.units
  BY <1>1, <1>2, <1>4, <1>9, <1>10, <1>11, TidyOne
<1>13. Exact'
  BY <1>8 DEF Exact
<1>14. DependentsCounted'
  <2> SUFFICES ASSUME NEW p \in act, NEW c \in Dependents(p), status[c] \notin Down
               PROVE  c \in act /\ owed'[c][p] > 0
    BY <1>4 DEF DependentsCounted
  <2>1. p \in Unit /\ c \in Unit
    BY <1>5, StopGraphAssumption DEF Dependents
  <2> DEFINE n == IF c \in act /\ p \in members THEN Edges(c, p) ELSE 0
  <2>2. owed'[c][p] = owed[c][p] + n /\ owed[c][p] \in Nat /\ n \in Nat
    BY <1>1, <1>4, <2>1 DEF TypeOK, Edges, Occurs
  <2>3. CASE p \in members
    <3>1. c \in act
      BY <1>6, <2>3
    <3>2. Edges(c, p) > 0
      BY DEF Edges, Occurs, Dependents
    <3> HIDE DEF act
    <3> QED BY <2>2, <2>3, <3>1, <3>2
  <2>4. CASE p \notin members
    <3>1. c \in active /\ owed[c][p] > 0
      BY <2>4 DEF GraphSerial, DependentsCounted
    <3> HIDE DEF n
    <3> QED BY <2>2, <3>1
  <2> QED BY <2>3, <2>4
<1>15. OneAtWork'
  <2>1. OneChain'
    BY <1>4 DEF GraphSerial, OneAtWork, OneChain
  <2>2. ASSUME NEW v \in Unit
        PROVE  /\ Busy(v)' => v \in active' /\ counts'[v] = 0
               /\ DrivenIn(work', v) => ~Parked(v)'
    <3>1. (Parked(v)' <=> Parked(v)) /\ (Busy(v)' <=> Parked(v) \/ DrivenIn(work', v))
      BY <1>4 DEF Parked, Busy, DrivenIn
    <3>2. CASE v \in f.units
      BY <1>4, <1>9, <1>10, <3>1, <3>2
    <3>3. CASE v \notin f.units
      <4>1. (Busy(v)' <=> Busy(v)) /\ (DrivenIn(work', v) <=> DrivenIn(work, v))
        BY <1>12, <3>1, <3>3 DEF Busy, DrivenIn
      <4> QED BY <1>4, <1>8, <3>1, <4>1 DEF GraphSerial, OneAtWork
    <3> QED BY <3>2, <3>3
  <2> QED BY <2>1, <2>2 DEF OneAtWork
<1>16. UpToTheEnd'
  <2>1. NoneFinished(work')
    BY <1>2, <1>9, <1>12 DEF NoneFinished
  <2>2. \A u \in act : status[u] \notin Down
    BY <1>2, <1>6, ActiveUp
  <2> QED BY <1>4, <2>1, <2>2 DEF UpToTheEnd, NoneFinished
<1>17. StopShows'
  BY <1>4 DEF GraphSerial, StopShows
<1>18. BeginsApart' /\ NoRequests'
  BY <1>2, <1>4, <1>9, <1>12 DEF BeginsApart, NoRequests, Begins, Leafy
<1> QED BY <1>12, <1>13, <1>14, <1>15, <1>16, <1>17, <1>18 DEF GraphSerial

-----------------------------------------------------------------------------
(* Jobs. *)

LEMMA HeldForEvolves ==
    ASSUME NEW r, NEW s, Sound(r), Sound(s), Evolves(r, s), NEW id, NEW u, HeldFor(r, id, u)
    PROVE  HeldFor(s, id, u)
<1>1. id \in Nat /\ r.nextId \in Nat /\ s.nextId \in Nat
  BY JobIdIsNat DEF HeldFor, Sound, IsRegistry
<1> QED BY <1>1 DEF HeldFor, Evolves

(* Who is answered with the job that is held for u asked for u.            *)
LEMMA WokenAsked ==
    ASSUME OnlyStops, JobsMatch, NEW id, NEW u, HeldFor(reg, id, u), NEW c \in Woken(reg, id)
    PROVE  c \in Waiter /\ asked[c] = u
<1>1. id \in Installed(reg) /\ c \in reg.jobs[id].waiters /\ c \in Waiter
  BY DEF Woken, OnlyStops, Sound, IsRegistry, Job
<1> QED BY <1>1 DEF JobsMatch, On, HeldFor

LEMMA JobsStep ==
    ASSUME OnlyStops, JobsMatch, (\E id : FinishJob(id)) \/ FinishNoJob,
           \A u \in DOMAIN rootJobs' : HeldFor(reg, rootJobs'[u], u),
           \A f \in Begins' : f.job # NoJob => HeldFor(reg, f.job, f.unit)
    PROVE  JobsMatch'
<1>1. /\ Sound(reg) /\ Sound(reg') /\ Evolves(reg, reg') /\ asked' = asked
      /\ \A c \in Waiter : \A id \in On(reg', c) :
           id \in On(reg, c) /\ reg'.jobs[id].unit = reg.jobs[id].unit
  <2>1. CASE FinishNoJob
    BY <2>1, EvolvesReflexive DEF FinishNoJob, clients, OnlyStops
  <2>2. ASSUME NEW id, FinishJob(id)
        PROVE  /\ Sound(reg') /\ Evolves(reg, reg') /\ asked' = asked
               /\ \A c \in Waiter : \A j \in On(reg', c) :
                    j \in On(reg, c) /\ reg'.jobs[j].unit = reg.jobs[j].unit
    <3>1. reg' = Finish(reg, id) /\ asked' = asked /\ Sound(reg)
      BY <2>2 DEF FinishJob, OnlyStops
    <3>2. Sound(reg') /\ Evolves(reg, reg')
      BY <3>1, FinishSound
    <3>3. ASSUME NEW c \in Waiter, NEW j \in On(reg', c)
          PROVE  j \in On(reg, c) /\ reg'.jobs[j].unit = reg.jobs[j].unit
      BY <3>1 DEF On, Finish, Without, Installed
    <3> QED BY <3>1, <3>2, <3>3
  <2> QED BY <2>1, <2>2 DEF OnlyStops
<1>2. \A u \in DOMAIN rootJobs' : HeldFor(reg', rootJobs'[u], u)
  BY <1>1, HeldForEvolves
<1>3. \A f \in Begins' : f.job # NoJob => HeldFor(reg', f.job, f.unit)
  BY <1>1, HeldForEvolves
<1>4. \A c \in Waiter : \A id \in On(reg', c) : asked'[c] = reg'.jobs[id].unit
  BY <1>1 DEF JobsMatch
<1> QED BY <1>2, <1>3, <1>4 DEF JobsMatch

LEMMA RequestJobs ==
    ASSUME ~Overlap, StopInv, JobsMatch, NEW c \in Waiter, NEW u \in Unit, RequestStop(c, u)
    PROVE  JobsMatch'
<1>1. PICK id : id = CreatedId(reg, u, "Stop", "Replace")
  OBVIOUS
<1>2. /\ Sound(reg) /\ reg.nextId < MaxId /\ asked \in [Waiter -> Unit \cup {NoUnit}]
      /\ asked[c] = NoUnit /\ asked' = [asked EXCEPT ![c] = u] /\ rootJobs' = rootJobs
      /\ work = << >> /\ queue = << >> /\ work' = work
      /\ OnlyStops /\ ClientsHeld
  BY DEF StopInv, Shape, TypeOK, OnlyStops, RequestStop, IdsRemain, Settled, graph
<1> DEFINE a == Create(reg, u, "Stop", "Replace")
           b == SetState(a, id, "Running")
<1>3. reg' = AddWaiter(b, id, c) /\ queue' = Append(<< >>, StopTree(u, id))
  BY <1>1, <1>2 DEF RequestStop, SetRunning
<1>4. id \in JobId /\ id # NoJob
  BY <1>1, <1>2, RequestClients, JobIdIsNat
<1>5. "Stop" \in Kind /\ "Replace" \in Mode /\ "Running" \in State
  BY DEF Kind, Mode, State
<1>6. Sound(a) /\ Evolves(reg, a) /\ id \in Installed(a) /\ a.jobs[id].unit = u
  BY <1>1, <1>2, <1>4, <1>5, CreateSound
<1>7. \A x \in Waiter : On(a, x) \subseteq On(reg, x)
  <2>1. PICK ws : Wakes(reg, a, ws)
    BY <1>2, <1>5, CreateWakes
  <2> HIDE DEF a
  <2> QED BY <2>1 DEF Wakes
<1> HIDE DEF a
<1>8. /\ Sound(b) /\ Evolves(a, b) /\ Installed(b) = Installed(a) /\ SameClients(a, b)
  BY <1>5, <1>6, SetStateSound, SameInstalled, FieldsKeepClients
<1>9. b.jobs[id].unit = u
  BY <1>6 DEF SetState, Installed, Sound, IsRegistry, Job
<1> HIDE DEF b
<1>10. /\ Sound(reg') /\ Evolves(b, reg') /\ Installed(reg') = Installed(b)
       /\ \A x \in Waiter : On(reg', x) = IF x = c THEN On(b, x) \cup {id} ELSE On(b, x)
  <2>1. id \in Installed(b)
    BY <1>6, <1>8
  <2> QED BY <1>3, <1>8, <2>1, AddWaiterSound, SameInstalled, AddWaiterAttaches
<1>11. reg'.jobs[id].unit = u
  BY <1>3, <1>6, <1>8, <1>9 DEF AddWaiter, Installed, Sound, IsRegistry, Job
<1>12. Evolves(reg, reg')
  <2>1. Evolves(reg, b)
    BY <1>2, <1>6, <1>8, EvolvesTransitive
  <2> QED BY <1>2, <1>8, <1>10, <2>1, EvolvesTransitive
<1>13. ASSUME NEW x \in Waiter, NEW j \in On(reg', x) PROVE asked'[x] = reg'.jobs[j].unit
  <2>1. CASE x = c /\ j = id
    BY <1>2, <1>11, <2>1
  <2>2. CASE ~(x = c /\ j = id)
    <3>1. j \in On(reg, x) /\ j \in Installed(reg)
      BY <1>7, <1>8, <1>10, <2>2 DEF SameClients, On
    <3>2. asked[x] = reg.jobs[j].unit
      BY <3>1 DEF JobsMatch
    <3>3. reg.jobs[j].unit \in Unit /\ j \in JobId /\ reg.nextId \in JobId /\ j < reg.nextId
      BY <1>2, <3>1 DEF Sound, IsRegistry, IdsBelow, Job
    <3>4. x # c
      BY <1>2, <3>2, <3>3, StopGraphAssumption
    <3>5. reg'.jobs[j].unit = reg.jobs[j].unit
      <4>1. j \in Installed(reg') /\ ~(j >= reg.nextId)
        BY <3>3, JobIdIsNat DEF On
      <4> QED BY <1>12, <4>1 DEF Evolves
    <3> QED BY <1>2, <3>2, <3>4, <3>5
  <2> QED BY <2>1, <2>2
<1>14. ASSUME NEW f \in Begins' PROVE HeldFor(reg', f.job, f.unit)
  <2>1. f = StopTree(u, id)
    BY <1>2, <1>3 DEF Begins, Frames
  <2>2. id < reg'.nextId
    BY <1>6, <1>8, <1>10 DEF Sound, IdsBelow
  <2> QED BY <1>4, <1>11, <2>1, <2>2 DEF HeldFor, StopTree
<1>15. \A v \in DOMAIN rootJobs' : HeldFor(reg', rootJobs'[v], v)
  BY <1>2, <1>10, <1>12, HeldForEvolves DEF JobsMatch
<1> QED BY <1>13, <1>14, <1>15 DEF JobsMatch

(* Whoever is answered asked for a unit that is down.                      *)
LEMMA AnswersTrue ==
    ASSUME StopInv, GraphSerial, JobsMatch, BeginDuplicate \/ BeginEmpty \/ ChainFinished
    PROVE  /\ (\E id : FinishJob(id)) \/ FinishNoJob
           /\ \A v \in DOMAIN rootJobs' : v \in DOMAIN rootJobs /\ rootJobs'[v] = rootJobs[v]
           /\ asked' = asked
           /\ \E C \in SUBSET Waiter :
                /\ answered' = answered \cup C
                /\ \A c \in C : asked[c] \in Unit /\ status[asked[c]] \in Down
<1>1. /\ TypeOK /\ work \in Seq(Frame) /\ ~Idle /\ OnlyStops /\ Domains
      /\ Top.op \in {"begin", "finished"}
  BY DEF StopInv, Shape, BeginDuplicate, BeginEmpty, ChainFinished, Running, Idle, GraphInv
<1>2. PICK u : u = Top.unit
  OBVIOUS
<1>3. Top \in Frames(work) /\ u \in Unit
  <2>1. Top \in Frame /\ Top \in Frames(work)
    BY <1>1, StackBase
  <2> QED BY <1>1, <1>2, <2>1 DEF Frame, Event
<1>4. ASSUME NEW id, FinishJob(id), HeldFor(reg, id, u), status[u] \in Down
      PROVE  /\ asked' = asked
             /\ \E C \in SUBSET Waiter :
                  /\ answered' = answered \cup C
                  /\ \A c \in C : asked[c] \in Unit /\ status[asked[c]] \in Down
  <2>1. asked' = asked /\ answered' = answered \cup Woken(reg, id)
    BY <1>4 DEF FinishJob
  <2>2. \A c \in Woken(reg, id) : c \in Waiter /\ asked[c] = u
    BY <1>1, <1>4, WokenAsked
  <2> QED BY <1>3, <1>4, <2>1, <2>2
<1>5. ASSUME FinishNoJob
      PROVE  /\ asked' = asked
             /\ \E C \in SUBSET Waiter :
                  /\ answered' = answered \cup C
                  /\ \A c \in C : asked[c] \in Unit /\ status[asked[c]] \in Down
  <2>1. PICK C \in SUBSET Waiter : C = {}
    OBVIOUS
  <2>2. asked' = asked /\ answered' = answered \cup C
    BY <1>5, <2>1 DEF FinishNoJob, clients
  <2> QED BY <2>1, <2>2
<1>6. CASE BeginDuplicate
  <2>1. Top.op = "begin" /\ u \in active /\ rootJobs' = rootJobs
        /\ IF Top.job # NoJob THEN FinishJob(Top.job) ELSE FinishNoJob
    BY <1>2, <1>6 DEF BeginDuplicate, Running, graph
  <2>2. Top.job = NoJob
    BY <1>3, <2>1 DEF GraphSerial, BeginsApart, Begins
  <2> QED BY <1>5, <2>1, <2>2
<1>7. CASE BeginEmpty
  <2>1. /\ Top.op = "begin" /\ u \notin active /\ Members(u) = {}
        /\ FinishRoot(u, RootJobs)
    BY <1>2, <1>7 DEF BeginEmpty, Running
  <2>2. status[u] \in Down
    BY <1>3, <2>1, MembersRoot
  <2>3. u \notin DOMAIN rootJobs
    BY <1>1, <2>1 DEF Domains
  <2>4. CASE Top.job = NoJob
    <3>1. rootJobs' = Without(rootJobs, u) /\ FinishNoJob
      BY <2>1, <2>3, <2>4 DEF FinishRoot, RootJobs
    <3> QED BY <1>5, <3>1 DEF Without
  <2>5. CASE Top.job # NoJob
    <3>1. rootJobs' = Without(With(rootJobs, u, Top.job), u) /\ FinishJob(Top.job)
      BY <1>2, <2>1, <2>5 DEF FinishRoot, RootJobs, With
    <3>2. HeldFor(reg, Top.job, u)
      BY <1>2, <1>3, <2>1, <2>5 DEF JobsMatch, Begins
    <3>3. \A v \in DOMAIN rootJobs' : v \in DOMAIN rootJobs /\ rootJobs'[v] = rootJobs[v]
      BY <3>1 DEF Without, With
    <3> QED BY <1>4, <2>2, <3>1, <3>2, <3>3
  <2> QED BY <2>4, <2>5
<1>8. CASE ChainFinished
  <2>1. status[u] \in Down /\ FinishRoot(u, rootJobs)
    BY <1>2, <1>8, FinishedSerial DEF ChainFinished
  <2>2. \A v \in DOMAIN rootJobs' : v \in DOMAIN rootJobs /\ rootJobs'[v] = rootJobs[v]
    BY <2>1 DEF FinishRoot, Without
  <2>3. CASE u \in DOMAIN rootJobs
    <3>1. FinishJob(rootJobs[u]) /\ HeldFor(reg, rootJobs[u], u)
      BY <2>1, <2>3 DEF FinishRoot, JobsMatch
    <3> QED BY <1>4, <2>1, <2>2, <3>1
  <2>4. CASE u \notin DOMAIN rootJobs
    <3>1. FinishNoJob
      BY <2>1, <2>4 DEF FinishRoot
    <3> QED BY <1>5, <2>2, <3>1
  <2> QED BY <2>3, <2>4
<1> QED BY <1>6, <1>7, <1>8

-----------------------------------------------------------------------------
(* The invariant. *)

LEMMA InitSerial == Init => SerialInv
<1> SUFFICES ASSUME Init PROVE SerialInv
  OBVIOUS
<1>1. /\ StopInv /\ work = << >> /\ queue = << >> /\ active = {} /\ rootJobs = << >>
      /\ owed = [c \in Unit |-> [p \in Unit |-> 0]]
      /\ parked = [u \in Unit |-> [ph \in Phase |-> 0]]
      /\ reg = EmptyRegistry
  BY InitInductive DEF Init
<1>2. /\ Frames(work) = {} /\ Frames(queue) = {} /\ Tidy(work)
      /\ \A p \in Unit : CreditSum(work, p) = 0
  BY <1>1, FramesEmpty, OnceEmpty
<1>3. Exact
  <2> SUFFICES ASSUME NEW p \in Unit PROVE Outstanding(p) = 0
    BY <1>1 DEF Exact
  <2> DEFINE o == [c \in Unit |-> owed[c][p]]
  <2>1. IsFiniteSet(Unit) /\ \A c \in Unit : o[c] \in Nat /\ o[c] = 0
    BY <1>1, StopGraphAssumption
  <2>2. Outstanding(p) = Total(Unit, o) + 0
    BY <1>2 DEF Outstanding
  <2> HIDE DEF o
  <2>3. Total(Unit, o) \in Nat /\ Total(Unit, o) = 0
    BY <2>1, PairsFinite, TotalPositive
  <2> QED BY <2>2, <2>3
<1>4. OneAtWork /\ StopShows
  BY <1>1, <1>2 DEF OneAtWork, OneChain, Busy, Parked, DrivenIn, StopShows, Phase
<1>5. DependentsCounted /\ UpToTheEnd /\ BeginsApart
  BY <1>1, <1>2 DEF DependentsCounted, UpToTheEnd, BeginsApart, Begins
<1>6. JobsMatch
  <2>1. DOMAIN rootJobs = {}
    BY <1>1
  <2>2. \A c \in Waiter : On(reg, c) = {}
    BY <1>1, EmptySound DEF On
  <2> QED BY <1>2, <2>1, <2>2 DEF JobsMatch, Begins
<1> QED BY <1>1, <1>2, <1>3, <1>4, <1>5, <1>6 DEF SerialInv, GraphSerial

LEMMA NextSerial ==
    ASSUME ~Overlap, ApartFromTrees
    PROVE  SerialInv /\ [Next]_vars => SerialInv'
<1> SUFFICES ASSUME SerialInv, [Next]_vars PROVE SerialInv'
  OBVIOUS
<1>1. StopInv /\ StopInv' /\ Shape /\ GraphSerial /\ JobsMatch /\ OnlyStops
  BY NextInductive DEF SerialInv, StopInv
<1>2. ASSUME FinishNoJob, rootJobs' = rootJobs, NoRequests' \/ Begins' = Begins
      PROVE  JobsMatch'
  BY <1>1, <1>2, JobsStep DEF JobsMatch, NoRequests
<1>3. CASE UNCHANGED vars
  <2>1. UNCHANGED << status, parked, active, counts, owed, after, rootJobs, work,
                     queue, reg, asked, answered, restarts >>
    BY <1>3 DEF vars, graph, clients
  <2>2. GraphSerial'
    BY <1>1, <2>1 DEF GraphSerial, Tidy, Once, Exact, Outstanding, DependentsCounted, OneAtWork,
                      OneChain, Busy, Parked, DrivenIn, UpToTheEnd, StopShows, BeginsApart, Begins
  <2>3. FinishNoJob /\ Begins' = Begins
    BY <2>1 DEF FinishNoJob, clients, Begins
  <2> QED BY <1>1, <1>2, <2>1, <2>2, <2>3 DEF SerialInv
<1>4. CASE Take
  <2>1. GraphSerial' /\ rootJobs' = rootJobs /\ FinishNoJob
    BY <1>1, <1>4, TakeSerial DEF Take, graph, FinishNoJob
  <2>2. Begins' = Begins
    <3>1. PICK e \in Event : Frames(work') = {e} /\ Frames(queue) = {e} \cup Frames(queue')
      BY <1>1, <1>4, TakeIs
    <3>2. Frames(work) = {}
      BY <1>1, <1>4, TakeIs, FramesEmpty
    <3> QED BY <3>1, <3>2 DEF Begins
  <2> QED BY <1>1, <1>2, <2>1, <2>2 DEF SerialInv
<1>5. CASE NextLeaf \/ NextTree \/ TreesDone \/ Collect \/ NextCollected \/ CreditsDone
  <2>1. GraphSerial' /\ NoRequests'
    BY <1>1, <1>5, LoopSerial
  <2>2. rootJobs' = rootJobs /\ FinishNoJob
    BY <1>5 DEF NextLeaf, NextTree, TreesDone, Collect, NextCollected, CreditsDone, graph,
                FinishNoJob
  <2> QED BY <1>1, <1>2, <2>1, <2>2 DEF SerialInv
<1>6. CASE BeginDuplicate \/ BeginEmpty \/ ChainFinished
  <2>1. GraphSerial' /\ NoRequests'
    BY <1>1, <1>6, BeginReturnsSerial, FinishedSerial
  <2>2. /\ (\E id : FinishJob(id)) \/ FinishNoJob
        /\ \A v \in DOMAIN rootJobs' : v \in DOMAIN rootJobs /\ rootJobs'[v] = rootJobs[v]
    BY <1>1, <1>6, AnswersTrue
  <2>3. JobsMatch'
    BY <1>1, <2>1, <2>2, JobsStep DEF JobsMatch, NoRequests
  <2> QED BY <1>1, <2>1, <2>3 DEF SerialInv
<1>7. CASE BeginTree
  <2>1. GraphSerial' /\ NoRequests' /\ FinishNoJob
    BY <1>1, <1>7, TreeSerial DEF BeginTree, FinishNoJob
  <2>2. \A u \in DOMAIN rootJobs' : HeldFor(reg, rootJobs'[u], u)
    <3>1. rootJobs' = RootJobs /\ ~Idle /\ Top.op = "begin" /\ work \in Seq(Frame)
      BY <1>1, <1>7 DEF BeginTree, Running, Idle, Shape
    <3>2. Top \in Begins
      BY <3>1, StackBase DEF Begins
    <3> QED BY <1>1, <3>1, <3>2 DEF RootJobs, With, JobsMatch
  <2>3. JobsMatch'
    BY <1>1, <2>1, <2>2, JobsStep DEF NoRequests
  <2> QED BY <1>1, <2>1, <2>3 DEF SerialInv
<1>8. CASE StartChain \/ \E u \in Unit : Advance(u)
  <2>1. GraphSerial' /\ NoRequests'
    <3>1. CASE StartChain
      BY <1>1, <3>1, StartMoves, ChainStepSerial
    <3> QED BY <1>1, <1>8, <3>1, ChainStepSerial
  <2>2. rootJobs' = rootJobs /\ FinishNoJob
    BY <1>8 DEF StartChain, Advance, graph, FinishNoJob
  <2> QED BY <1>1, <1>2, <2>1, <2>2 DEF SerialInv
<1>9. CASE Credit
  <2>1. GraphSerial' /\ NoRequests' /\ rootJobs' = rootJobs /\ FinishNoJob
    BY <1>1, <1>9, CreditSerial DEF Credit, FinishNoJob
  <2> QED BY <1>1, <1>2, <2>1 DEF SerialInv
<1>10. ASSUME NEW c \in Waiter, NEW u \in Unit, RequestStop(c, u) PROVE SerialInv'
  BY <1>1, <1>10, RequestSerial, RequestJobs DEF SerialInv
<1>11. ASSUME NEW u \in Unit, Restart(u) PROVE SerialInv'
  <2>1. GraphSerial'
    BY <1>1, <1>11, RestartSerial
  <2>2. rootJobs' = rootJobs /\ FinishNoJob /\ Begins' = Begins
    BY <1>11 DEF Restart, graph, FinishNoJob, Begins
  <2> QED BY <1>1, <1>2, <2>1, <2>2 DEF SerialInv
<1> QED BY <1>3, <1>4, <1>5, <1>6, <1>7, <1>8, <1>9, <1>10, <1>11
        DEF Next, Dispatch, AllDone

-----------------------------------------------------------------------------
(* Stops that do not overlap. *)

(* Each unit has one chain at most, so that its ExecStop= commands are run *)
(* once per stop: no unit is a leaf of two trees and none becomes due      *)
(* twice.                                                                  *)
THEOREM OneChainEach ==
    ASSUME ~Overlap, ApartFromTrees
    PROVE  Spec => []OneChain
<1>1. SerialInv => OneChain
  BY DEF SerialInv, GraphSerial, OneAtWork
<1> QED BY InitSerial, NextSerial, <1>1, PTL DEF Spec

(* The three things a client can see of a unit.                            *)
LEMMA PhaseIs ==
    ASSUME NEW u
    PROVE  /\ status[u] \in Down => PhaseOf(u) = "down"
           /\ status[u] \notin Down =>
                PhaseOf(u) = IF status[u] = "Stopping" \/ parked[u]["exec"] > 0
                             THEN "stopping" ELSE "up"
  BY DEF PhaseOf

Shown == [u \in Unit |-> PhaseOf(u)]

LEMMA SameShown ==
    ASSUME status' = status, parked' = parked
    PROVE  Shown' = Shown
  BY DEF Shown, PhaseOf

(* A step of a chain shows as the begin or the end of one stop.            *)
LEMMA ChainShows ==
    ASSUME StopInv, StopInv', GraphSerial, NEW u \in Unit,
           (StartChain /\ u = Top.unit) \/ Advance(u)
    PROVE  Ordered!Begin(u) \/ Ordered!End(u) \/ UNCHANGED << Shown, asked, answered >>
<1>1. /\ ChainEffect(u) /\ status[u] \notin Down
      /\ \A c \in Dependents(u) : c \in Unit /\ status[c] \in Down
      /\ UNCHANGED << asked, answered >>
  BY ChainStepSerial DEF StartChain, Advance, clients
<1>2. \A v \in Unit : Shown[v] = PhaseOf(v) /\ Shown'[v] = PhaseOf(v)'
  BY DEF Shown
<1>3. \A v \in Unit \ {u} : Shown'[v] = Shown[v]
  BY <1>1, <1>2 DEF ChainEffect, PhaseOf
<1>4. Shown[u] \in {"up", "stopping"}
  BY <1>1, <1>2, PhaseIs
<1>5. \A c \in [v \in Unit |-> Dependents(v)][u] : Shown[c] = "down"
  BY <1>1, <1>2, PhaseIs
<1>6. CASE status'[u] = "Stopped"
  <2>1. PhaseOf(u)' = "down"
    BY <1>6 DEF PhaseOf, Down
  <2>2. Shown' = [Shown EXCEPT ![u] = "down"]
    BY <1>2, <1>3, <2>1 DEF Shown
  <2> QED BY <1>1, <1>4, <1>5, <2>2 DEF Ordered!End, Ordered!DependentsDown, Shown
<1>7. CASE /\ status'[u] \notin Down
           /\ (parked'[u]["exec"] = 1 /\ status'[u] = status[u]) \/ status'[u] = "Stopping"
  <2>1. PhaseOf(u)' = "stopping"
    BY <1>7 DEF PhaseOf
  <2>2. Shown' = [Shown EXCEPT ![u] = "stopping"]
    BY <1>2, <1>3, <2>1 DEF Shown
  <2>3. CASE Shown[u] = "up"
    BY <1>1, <1>5, <2>2, <2>3 DEF Ordered!Begin, Ordered!DependentsDown, Shown
  <2>4. CASE Shown[u] = "stopping"
    <3>1. Shown' = Shown
      BY <2>2, <2>4 DEF Shown
    <3> QED BY <1>1, <3>1
  <2> QED BY <1>4, <2>3, <2>4
<1> QED BY <1>1, <1>6, <1>7 DEF ChainEffect

LEMMA RestartShows ==
    ASSUME ~Overlap, StopInv, GraphSerial, NEW u \in Unit, Restart(u)
    PROVE  \E U \in SUBSET Unit : Ordered!Start(U)
<1> DEFINE U == {v \in {u} \cup Pulled(u) : status[v] \in Down}
<1>1. /\ active = {} /\ UNCHANGED << parked, asked, answered >>
      /\ status' = [v \in Unit |-> IF v \in {u} \cup Pulled(u) /\ status[v] \in Down
                                   THEN "Started" ELSE status[v]]
      /\ parked \in [Unit -> [Phase -> Nat]]
  BY DEF Restart, Settled, clients, StopInv, Shape, TypeOK
<1>2. U \in SUBSET Unit
  BY DEF Pulled
<1>3. ASSUME NEW v \in Unit
      PROVE  /\ v \in U => PhaseOf(v) = "down" /\ PhaseOf(v)' = "up"
             /\ v \notin U => PhaseOf(v)' = PhaseOf(v)
  <2>1. parked[v]["exec"] = 0
    <3>1. ~Parked(v)
      BY <1>1 DEF GraphSerial, OneAtWork, Busy
    <3> QED BY <1>1, <3>1 DEF Parked, Phase
  <2>2. CASE v \in U
    <3>1. status[v] \in Down /\ status'[v] = "Started" /\ parked'[v]["exec"] = 0
      BY <1>1, <2>1, <2>2
    <3> QED BY <2>2, <3>1 DEF PhaseOf, Down
  <2>3. CASE v \notin U
    <3>1. status'[v] = status[v] /\ parked'[v] = parked[v]
      BY <1>1, <2>3
    <3> QED BY <2>3, <3>1 DEF PhaseOf
  <2> QED BY <2>2, <2>3
<1> HIDE DEF U
<1>4. Shown' = [v \in Unit |-> IF v \in U THEN "up" ELSE Shown[v]]
  BY <1>3 DEF Shown
<1>5. \A v \in U : Shown[v] = "down"
  BY <1>2, <1>3 DEF Shown
<1>6. Ordered!Start(U)
  BY <1>1, <1>4, <1>5 DEF Ordered!Start, Shown
<1> QED BY <1>2, <1>6

(* The graph, its chains and the jobs implement OrderedStop: dependents    *)
(* are down before anything is done to a unit and still are when it goes   *)
(* down, and answers are true.  That everyone is answered is a matter of   *)
(* fairness and stays a hypothesis, the property StopAnswered.             *)
THEOREM StopsAreOrdered ==
    ASSUME ~Overlap, ApartFromTrees
    PROVE  Spec /\ StopAnswered => StopsInOrder
<1>1. ASSUME Init PROVE Ordered!Init
  <2>1. Shown = [u \in Unit |-> "up"]
    BY <1>1 DEF Init, Shown, PhaseOf, Down, Phase
  <2> QED BY <1>1, <2>1 DEF Init, Ordered!Init, Shown
<1>2. ASSUME SerialInv, [Next]_vars
      PROVE  [Ordered!Next]_(Ordered!vars)
  <2>1. StopInv /\ StopInv' /\ GraphSerial /\ JobsMatch /\ Shape
    BY <1>2, NextInductive DEF SerialInv, StopInv
  <2> SUFFICES Ordered!Next \/ UNCHANGED << Shown, asked, answered >>
    BY DEF Ordered!vars, Shown
  <2>2. CASE UNCHANGED << status, parked, asked, answered >>
    BY <2>2, SameShown
  <2>3. CASE BeginDuplicate \/ BeginEmpty \/ ChainFinished
    <3>1. Shown' = Shown
      BY <2>3, SameShown DEF BeginDuplicate, BeginEmpty, ChainFinished
    <3>2. PICK C \in SUBSET Waiter :
            /\ answered' = answered \cup C /\ asked' = asked
            /\ \A c \in C : asked[c] \in Unit /\ status[asked[c]] \in Down
      BY <2>1, <2>3, AnswersTrue
    <3>3. \A c \in C : asked[c] # NoUnit /\ Shown[asked[c]] = "down"
      BY <3>2, PhaseIs, StopGraphAssumption DEF Shown
    <3>4. Ordered!Answer(C)
      BY <3>1, <3>2, <3>3 DEF Ordered!Answer, Shown
    <3> QED BY <3>4 DEF Ordered!Next
  <2>4. ASSUME NEW u \in Unit, (StartChain /\ u = Top.unit) \/ Advance(u)
        PROVE  Ordered!Next \/ UNCHANGED << Shown, asked, answered >>
    BY <2>1, <2>4, ChainShows DEF Ordered!Next
  <2>5. CASE StartChain
    BY <2>1, <2>4, <2>5, StartMoves
  <2>6. ASSUME NEW u \in Unit, Restart(u) PROVE Ordered!Next
    BY <2>1, <2>6, RestartShows DEF Ordered!Next
  <2>7. ASSUME NEW c \in Waiter, NEW u \in Unit, RequestStop(c, u) PROVE Ordered!Next
    <3>1. Shown' = Shown
      BY <2>7, SameShown DEF RequestStop
    <3>2. Ordered!Ask(c, u)
      BY <2>7, <3>1 DEF RequestStop, Ordered!Ask, Shown
    <3> QED BY <3>2 DEF Ordered!Next
  <2> QED BY <1>2, <2>2, <2>3, <2>4, <2>5, <2>6, <2>7
          DEF Next, Dispatch, AllDone, vars, clients, Take, BeginTree, NextLeaf,
              Credit, CreditsDone, NextTree, TreesDone, Collect, NextCollected
<1> QED BY InitSerial, NextSerial, <1>1, <1>2, PTL
        DEF Spec, StopsInOrder, StopAnswered, Ordered!Spec, Ordered!EveryoneAnswered
=============================================================================
