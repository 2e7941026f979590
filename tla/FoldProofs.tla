----------------------------- MODULE FoldProofs -----------------------------
(* What the proofs about folds over sequences rest on.  FoldLeft is defined by *)
(* a recursion over the subsets of a sequence's domain, from which Max is      *)
(* taken out; its value is what a solution of that recursion, which FoldExists *)
(* shows to exist, has for 1..n.  Also what inserting does to a sequence, and  *)
(* what a sort by insertion, which is such a fold, keeps of it.                *)
EXTENDS SequencesExt, SequenceTheorems, FiniteSetTheorems, NaturalsInduction, WellFoundedInduction,
        TLAPS

CONSTANT Op(_, _, _)    \* under a context, what an element does to what was made so far

\* A sequence cut short.
LEMMA ShortType ==
    ASSUME NEW S, NEW s \in Seq(S), NEW m \in Nat, m < Len(s)
    PROVE  SubSeq(s, 1, m) \in Seq(S)
BY SubSeqProperties

\* Induction over the numbers up to n, for a set instead of a formula.
LEMMA Reaches ==
    ASSUME NEW n \in Nat, NEW G, 0 \in G, \A k \in 1..n : k - 1 \in G => k \in G
    PROVE  \A k \in 0..n : k \in G
<1> DEFINE T == {k \in 0..n : k \notin G}
<1> SUFFICES ASSUME T # {}
             PROVE  FALSE
  OBVIOUS
<1>1. PICK m \in T : \A k \in T : ~(k < m)
  <2>1. T \subseteq Nat
    OBVIOUS
  <2>2. \E m \in T : \A k \in T : ~(<<k, m>> \in OpToRel(<, Nat))
    <3> HIDE DEF T
    <3> QED
      BY <2>1, NatLessThanWellFounded, WFMin
  <2> QED
    BY <2>1, <2>2 DEF OpToRel
<1>2. m \in 0..n /\ m \notin G
  OBVIOUS
<1>3. m # 0
  BY <1>2
<1>4. m \in 1..n /\ m - 1 \in 0..n /\ m - 1 < m
  BY <1>2, <1>3
<1>5. m - 1 \notin T
  BY <1>1, <1>4
<1>6. m - 1 \in G
  BY <1>4, <1>5
<1> QED
  BY <1>2, <1>4, <1>6

LEMMA ReachesLast ==
    ASSUME NEW n \in Nat, NEW G, 0 \in G, \A k \in 1..n : k - 1 \in G => k \in G
    PROVE  n \in G
BY Reaches

\* What Max gives for the sets of numbers a fold takes apart.
LEMMA MaxOfPart ==
    ASSUME NEW n \in Nat, NEW s \in SUBSET (1..n), s # {}
    PROVE  Max(s) \in s /\ \A i \in s : i <= Max(s)
<1> DEFINE G == {k \in 0..n : \A t \in SUBSET (1..k) :
                                 t # {} => \E x \in t : \A y \in t : x >= y}
<1>1. 0 \in G
  <2>1. 1..0 = {} /\ 0 \in 0..n
    OBVIOUS
  <2> QED
    BY <2>1
<1>2. ASSUME NEW k \in 1..n, k - 1 \in G
      PROVE  k \in G
  <2> SUFFICES ASSUME NEW t \in SUBSET (1..k), t # {}
               PROVE  \E x \in t : \A y \in t : x >= y
    OBVIOUS
  <2>1. CASE k \in t
    BY <2>1
  <2>2. CASE k \notin t
    <3>1. t \in SUBSET (1..(k - 1))
      BY <2>2
    <3> QED
      BY <1>2, <3>1
  <2> QED
    BY <2>1, <2>2
<1>3. n \in G
  <2> HIDE DEF G
  <2> QED
    BY <1>1, <1>2, ReachesLast
<1>4. \E x \in s : \A y \in s : x >= y
  BY <1>3
<1> QED
  BY <1>4 DEF Max

LEMMA MinOfPart ==
    ASSUME NEW n \in Nat, NEW s \in SUBSET (1..n), s # {}
    PROVE  Min(s) \in s /\ \A i \in s : Min(s) <= i
<1> DEFINE G == {k \in 0..n : \A t \in SUBSET (1..k) :
                                 t # {} => \E x \in t : \A y \in t : x =< y}
<1>1. 0 \in G
  <2>1. 1..0 = {} /\ 0 \in 0..n
    OBVIOUS
  <2> QED
    BY <2>1
<1>2. ASSUME NEW k \in 1..n, k - 1 \in G
      PROVE  k \in G
  <2> SUFFICES ASSUME NEW t \in SUBSET (1..k), t # {}
               PROVE  \E x \in t : \A y \in t : x =< y
    OBVIOUS
  <2>1. CASE t \subseteq {k}
    <3>1. t = {k}
      BY <2>1, Zenon
    <3> QED
      BY <3>1
  <2>2. CASE ~(t \subseteq {k})
    <3>1. t \ {k} \in SUBSET (1..(k - 1)) /\ t \ {k} # {}
      BY <2>2
    <3>2. PICK x \in t \ {k} : \A y \in t \ {k} : x =< y
      BY <1>2, <3>1
    <3> QED
      BY <3>2
  <2> QED
    BY <2>1, <2>2
<1>3. n \in G
  <2> HIDE DEF G
  <2> QED
    BY <1>1, <1>2, ReachesLast
<1>4. \E x \in s : \A y \in s : x =< y
  BY <1>3
<1> QED
  BY <1>4 DEF Min

\* Taking the last element away leaves a part.
LEMMA PartLess ==
    ASSUME NEW n \in Nat
    PROVE  \A t \in SUBSET (1..n) : t # {} => Max(t) \in 1..n /\ t \ {Max(t)} \in SUBSET (1..n)
BY MaxOfPart, Zenon

\* Of the first k elements the k-th comes off first.
LEMMA UpTo ==
    ASSUME NEW n \in Nat
    PROVE  /\ 1..0 = {}
           /\ \A k \in 1..n : /\ 1..k \in SUBSET (1..n) /\ 1..k # {}
                             /\ Max(1..k) = k /\ (1..k) \ {Max(1..k)} = 1..(k - 1)
<1>1. 1..0 = {}
  OBVIOUS
<1>2. ASSUME NEW k \in 1..n
      PROVE  /\ 1..k \in SUBSET (1..n) /\ 1..k # {}
             /\ Max(1..k) = k /\ (1..k) \ {Max(1..k)} = 1..(k - 1)
  <2>1. 1..k \in SUBSET (1..n) /\ 1..k # {} /\ k \in 1..k
    OBVIOUS
  <2>2. Max(1..k) \in 1..k /\ \A i \in 1..k : i <= Max(1..k)
    BY <2>1, MaxOfPart, Zenon
  <2>3. Max(1..k) = k
    BY <2>1, <2>2
  <2> QED
    BY <2>1, <2>3
<1> QED
  BY <1>1, <1>2

\* g solves the recursion of a fold with values in T over n elements, where step[i]
\* is what the i-th of them does to a value.
IsFold(n, T, base, step, g) ==
    /\ g \in [SUBSET (1..n) -> T]
    /\ g[{}] = base
    /\ \A s \in SUBSET (1..n) : s # {} => g[s] = step[Max(s)][g[s \ {Max(s)}]]

\* The recursion a fold stands for has a solution.
LEMMA FoldExists ==
    ASSUME NEW n \in Nat, NEW T, NEW base \in T, NEW step \in [1..n -> [T -> T]]
    PROVE  \E g : IsFold(n, T, base, step, g)
<1> DEFINE Solves(g, k) ==
             \A s \in SUBSET (1..k) :
                g[s] = IF s = {} THEN base ELSE step[Max(s)][g[s \ {Max(s)}]]
           G == {k \in 0..n : \E g \in [SUBSET (1..k) -> T] : Solves(g, k)}
<1>1. 0 \in G
  <2> DEFINE h == [s \in SUBSET (1..0) |-> base]
  <2>1. h \in [SUBSET (1..0) -> T] /\ 0 \in 0..n
    OBVIOUS
  <2>2. \A s \in SUBSET (1..0) : s = {} /\ h[s] = base
    OBVIOUS
  <2>3. Solves(h, 0)
    BY <2>2
  <2> HIDE DEF h
  <2> QED
    BY <2>1, <2>3
<1>2. ASSUME NEW k \in 1..n, k - 1 \in G
      PROVE  k \in G
  <2>1. PICK g \in [SUBSET (1..(k - 1)) -> T] : Solves(g, k - 1)
    BY <1>2
  <2> DEFINE h == [s \in SUBSET (1..k) |-> IF k \in s THEN step[k][g[s \ {k}]] ELSE g[s]]
  <2>2. \A s \in SUBSET (1..k) : k \in s => s \ {k} \in SUBSET (1..(k - 1)) /\ Max(s) = k
    <3> TAKE s \in SUBSET (1..k)
    <3> HAVE k \in s
    <3>1. k \in Nat /\ s # {}
      OBVIOUS
    <3>2. Max(s) \in s /\ \A i \in s : i <= Max(s)
      BY <3>1, MaxOfPart, Zenon
    <3> HIDE DEF Solves
    <3>3. Max(s) \in 1..k /\ k <= Max(s)
      BY <3>2
    <3> QED
      BY <3>3
  <2>3. \A s \in SUBSET (1..k) : k \notin s => s \in SUBSET (1..(k - 1))
    OBVIOUS
  <2>4. h \in [SUBSET (1..k) -> T]
    BY <2>2, <2>3
  <2>5. Solves(h, k)
    <3> TAKE s \in SUBSET (1..k)
    <3>1. CASE s = {}
      BY <3>1, <2>1, <2>3
    <3>2. CASE k \in s
      <4>1. h[s \ {k}] = g[s \ {k}]
        BY <3>2, <2>2
      <4> QED
        BY <3>2, <2>2, <4>1
    <3>3. CASE s # {} /\ k \notin s
      <4>0. k \in Nat
        OBVIOUS
      <4>1. s \in SUBSET (1..(k - 1)) /\ Max(s) \in s
        BY <3>3, <2>3, <4>0, MaxOfPart, Zenon
      <4>2. h[s] = g[s] /\ h[s \ {Max(s)}] = g[s \ {Max(s)}]
        BY <3>3, <4>1
      <4>3. g[s] = step[Max(s)][g[s \ {Max(s)}]]
        BY <3>3, <2>1, <4>1
      <4> QED
        BY <3>3, <4>2, <4>3
    <3> QED
      BY <3>1, <3>2, <3>3
  <2>6. \E f \in [SUBSET (1..k) -> T] : Solves(f, k)
    <3> HIDE DEF h, Solves
    <3> QED
      BY <2>4, <2>5, Zenon
  <2>7. k \in 0..n
    OBVIOUS
  <2> HIDE DEF Solves
  <2> QED
    BY <2>6, <2>7
<1>3. n \in G
  <2> HIDE DEF G
  <2>1. \A k \in 1..n : k - 1 \in G => k \in G
    BY <1>2
  <2>2. \A k \in 0..n : k \in G
    BY <1>1, <2>1, Reaches, Zenon
  <2> QED
    BY <2>2
<1>4. PICK g \in [SUBSET (1..n) -> T] : Solves(g, n)
  BY <1>3
<1>5. {} \in SUBSET (1..n)
  OBVIOUS
<1>6. IsFold(n, T, base, step, g)
  BY <1>4, <1>5 DEF IsFold
<1> QED
  BY <1>6

-----------------------------------------------------------------------------
(* Insertion.                                                                *)

Members(s) == {s[i] : i \in DOMAIN s}

\* A relation of every two members, in either order.
Pairwise(R, s) == \A i, j \in DOMAIN s : i # j => <<s[i], s[j]>> \in R

\* out is s with x behind the first m.
Inserted(S, s, x, m, out) ==
    /\ out \in Seq(S) /\ Len(out) = Len(s) + 1
    /\ \A i \in 1..m : out[i] = s[i]
    /\ out[m + 1] = x
    /\ \A i \in (m + 2)..(Len(s) + 1) : out[i] = s[i - 1]

Insertion(s, x, m) == SubSeq(s, 1, m) \o <<x>> \o SubSeq(s, m + 1, Len(s))

LEMMA InsertsAt ==
    ASSUME NEW S, NEW s \in Seq(S), NEW x \in S, NEW m \in 0..Len(s)
    PROVE  Inserted(S, s, x, m, Insertion(s, x, m))
<1> DEFINE a == SubSeq(s, 1, m)
           b == SubSeq(s, m + 1, Len(s))
<1>1. a \in Seq(S) /\ Len(a) = m /\ \A i \in 1..m : a[i] = s[i]
  BY SubSeqProperties
<1>2. b \in Seq(S) /\ Len(b) = Len(s) - m /\ \A i \in 1..(Len(s) - m) : b[i] = s[m + i]
  BY SubSeqProperties
<1> DEFINE out == Insertion(s, x, m)
<1>3. out = (a \o <<x>>) \o b
  BY DEF Insertion
<1> HIDE DEF out
<1> HIDE DEF a, b
<1> DEFINE c == a \o <<x>>
<1>4. c \in Seq(S) /\ Len(c) = m + 1 /\ c[m + 1] = x /\ \A i \in 1..m : c[i] = s[i]
  BY <1>1, ConcatProperties
<1>5. out = c \o b
  BY <1>3
<1> HIDE DEF c
<1>6. /\ c \o b \in Seq(S) /\ Len(c \o b) = Len(s) + 1
      /\ \A i \in 1..(m + 1) : (c \o b)[i] = c[i]
      /\ \A i \in (m + 2)..(Len(s) + 1) : (c \o b)[i] = b[i - (m + 1)]
  BY <1>2, <1>4, ConcatProperties
<1>7. \A i \in (m + 2)..(Len(s) + 1) : b[i - (m + 1)] = s[i - 1]
  <2> TAKE i \in (m + 2)..(Len(s) + 1)
  <2>1. i - (m + 1) \in 1..(Len(s) - m) /\ m + (i - (m + 1)) = i - 1
    OBVIOUS
  <2> QED
    BY <1>2, <2>1
<1>8. /\ out \in Seq(S) /\ Len(out) = Len(s) + 1
      /\ \A i \in 1..(m + 1) : out[i] = c[i]
      /\ \A i \in (m + 2)..(Len(s) + 1) : out[i] = b[i - (m + 1)]
  BY <1>5, <1>6, Zenon
<1>9. (\A i \in 1..m : out[i] = s[i]) /\ out[m + 1] = x
  BY <1>4, <1>8
<1>10. \A i \in (m + 2)..(Len(s) + 1) : out[i] = s[i - 1]
  BY <1>7, <1>8
<1> QED
  BY <1>8, <1>9, <1>10, Zenon DEF Inserted, out

LEMMA InsertedAdds ==
    ASSUME NEW S, NEW s \in Seq(S), NEW x \in S, NEW m \in 0..Len(s),
           NEW out, Inserted(S, s, x, m, out)
    PROVE  Members(out) = Members(s) \union {x}
<1>1. /\ out \in Seq(S) /\ Len(out) = Len(s) + 1
      /\ \A i \in 1..m : out[i] = s[i]
      /\ out[m + 1] = x
      /\ \A i \in (m + 2)..(Len(s) + 1) : out[i] = s[i - 1]
  BY Zenon DEF Inserted
<1>2. Len(s) \in Nat /\ DOMAIN s = 1..Len(s) /\ DOMAIN out = 1..(Len(s) + 1)
  BY <1>1
<1>3. ASSUME NEW i \in DOMAIN out
      PROVE  out[i] \in Members(s) \union {x}
  <2>1. \/ i \in 1..m /\ out[i] = s[i]
        \/ i = m + 1 /\ out[i] = x
        \/ i - 1 \in (m + 1)..Len(s) /\ out[i] = s[i - 1]
    BY <1>1, <1>2
  <2> QED
    BY <1>2, <2>1 DEF Members
<1>4. x \in Members(out)
  BY <1>1, <1>2 DEF Members
<1>5. ASSUME NEW i \in DOMAIN s
      PROVE  s[i] \in Members(out)
  <2>1. CASE i \in 1..m
    BY <1>1, <1>2, <2>1 DEF Members
  <2>2. CASE i \notin 1..m
    <3>1. i + 1 \in (m + 2)..(Len(s) + 1) /\ i + 1 - 1 = i /\ i + 1 \in DOMAIN out
      BY <1>2, <2>2
    <3>2. out[i + 1] = s[i]
      BY <1>1, <3>1
    <3> QED
      BY <3>1, <3>2 DEF Members
  <2> QED
    BY <2>1, <2>2
<1> QED
  BY <1>3, <1>4, <1>5 DEF Members


\* What holds of every two members of s, and of x with each of them, holds of every
\* two when x is among them.
LEMMA InsertedApart ==
    ASSUME NEW S, NEW s \in Seq(S), NEW x \in S, NEW m \in 0..Len(s),
           NEW out, Inserted(S, s, x, m, out), NEW R, Pairwise(R, s),
           \A y \in Members(s) : <<x, y>> \in R /\ <<y, x>> \in R
    PROVE  Pairwise(R, out)
<1>1. /\ out \in Seq(S) /\ Len(out) = Len(s) + 1
      /\ \A i \in 1..m : out[i] = s[i]
      /\ out[m + 1] = x
      /\ \A i \in (m + 2)..(Len(s) + 1) : out[i] = s[i - 1]
  BY Zenon DEF Inserted
<1>2. Len(s) \in Nat /\ DOMAIN s = 1..Len(s) /\ DOMAIN out = 1..(Len(s) + 1)
  BY <1>1
<1> DEFINE at(i) == IF i <= m THEN i ELSE i - 1
<1>3. \A i \in DOMAIN out : i # m + 1 => at(i) \in DOMAIN s /\ out[i] = s[at(i)]
  BY <1>1, <1>2
<1>4. \A i, j \in DOMAIN out : i # m + 1 /\ j # m + 1 /\ i # j => at(i) # at(j)
  BY <1>2
<1> HIDE DEF at
<1>5. ASSUME NEW i \in DOMAIN out, NEW j \in DOMAIN out, i # j
      PROVE  <<out[i], out[j]>> \in R
  <2>1. CASE i # m + 1 /\ j # m + 1
    BY <1>3, <1>4, <1>5, <2>1 DEF Pairwise
  <2>2. CASE i = m + 1
    <3>1. j # m + 1 /\ out[j] \in Members(s)
      BY <1>3, <1>5, <2>2 DEF Members
    <3> QED
      BY <1>1, <2>2, <3>1
  <2>3. CASE j = m + 1
    <3>1. i # m + 1 /\ out[i] \in Members(s)
      BY <1>3, <1>5, <2>3 DEF Members
    <3> QED
      BY <1>1, <2>3, <3>1
  <2> QED
    BY <2>1, <2>2, <2>3
<1> QED
  BY <1>5 DEF Pairwise

\* A part of 1..n is as large as the count says when it has no gap.
LEMMA Prefix ==
    ASSUME NEW n \in Nat, NEW D \in SUBSET (1..n),
           \A i \in D : \A j \in 1..n : j < i => j \in D
    PROVE  Cardinality(D) \in 0..n /\ D = 1..Cardinality(D)
<1>1. IsFiniteSet(1..n) /\ Cardinality(1..n) = n
  BY FS_Interval
<1>2. \E m \in 0..n : D = 1..m
  <2> DEFINE U == {k \in 1..(n + 1) : k \notin D}
  <2>1. n + 1 \in U /\ U \subseteq Nat
    OBVIOUS
  <2>2. PICK k \in U : \A j \in U : k <= j
    <3>1. U \in SUBSET (1..(n + 1)) /\ U # {} /\ n + 1 \in Nat
      BY <2>1
    <3> HIDE DEF U
    <3> QED
      BY <3>1, MinOfPart
  <2>3. k \in 1..(n + 1) /\ k \notin D /\ k - 1 \in 0..n
    OBVIOUS
  <2>4. \A j \in 1..(k - 1) : j \in D
    BY <2>2, <2>3
  <2>5. \A j \in D : j < k
    BY <2>3
  <2>6. D \subseteq 1..(k - 1)
    BY <2>3, <2>5
  <2>7. D = 1..(k - 1)
    BY <2>4, <2>6
  <2> QED
    BY <2>3, <2>7
<1>3. PICK m \in 0..n : D = 1..m
  BY <1>2
<1>4. Cardinality(1..m) = m
  BY <1>3, FS_Interval
<1> QED
  BY <1>3, <1>4

LEMMA PartSize ==
    ASSUME NEW S, NEW s \in Seq(S), NEW D \in SUBSET DOMAIN s
    PROVE  IsFiniteSet(D) /\ Cardinality(D) \in 0..Len(s)
<1>1. DOMAIN s = 1..Len(s) /\ Len(s) \in Nat
  OBVIOUS
<1> DEFINE n == Len(s)
<1>2. n \in Nat /\ D \in SUBSET (1..n)
  BY <1>1
<1> HIDE DEF n
<1>3. IsFiniteSet(1..n) /\ Cardinality(1..n) = n
  BY <1>2, FS_Interval
<1>4. IsFiniteSet(D) /\ Cardinality(D) <= n /\ Cardinality(D) \in Nat
  BY <1>2, <1>3, FS_Subset, FS_CardinalityType
<1> QED
  BY <1>2, <1>4 DEF n

-----------------------------------------------------------------------------
(* Folds.                                                                    *)

Folded(d, base, s) == FoldLeft(LAMBDA out, x : Op(d, out, x), base, s)

Keeps(d, T, S) == \A out \in T, x \in S : Op(d, out, x) \in T

\* What there is after each of the elements.
IsRun(d, base, s, run) ==
    /\ run[0] = base /\ run[Len(s)] = Folded(d, base, s)
    /\ \A k \in 1..Len(s) : run[k] = Op(d, run[k - 1], s[k])

\* A fold goes through its sequence one element after the other.
THEOREM FoldRuns ==
    ASSUME NEW d, NEW S, NEW s \in Seq(S), NEW T, NEW base \in T, Keeps(d, T, S)
    PROVE  \E run : IsRun(d, base, s, run) /\ \A k \in 0..Len(s) : run[k] \in T
<1> DEFINE n == Len(s)
           Solves(g) == g = [t \in SUBSET DOMAIN s |->
                               IF t = {} THEN base ELSE Op(d, g[t \ {Max(t)}], s[Max(t)])]
           step == [i \in 1..n |-> [out \in T |-> Op(d, out, s[i])]]
           c == CHOOSE g : Solves(g)
           run == [k \in 0..n |-> c[1..k]]
<1>1. n \in Nat /\ DOMAIN s = 1..n /\ \A i \in 1..n : s[i] \in S
  OBVIOUS
<1>2. step \in [1..n -> [T -> T]]
  <2> HIDE DEF n
  <2> QED
    BY <1>1 DEF Keeps
<1>3. PICK g : IsFold(n, T, base, step, g)
  <2> HIDE DEF step, n
  <2> QED
    BY <1>1, <1>2, FoldExists
<1>4. \A t \in SUBSET (1..n) : t # {} => g[t] = Op(d, g[t \ {Max(t)}], s[Max(t)])
  BY <1>1, <1>3, PartLess DEF IsFold
<1>5. Solves(g)
  BY <1>1, <1>3, <1>4 DEF IsFold
<1>6. Solves(c)
  <2> HIDE DEF Solves
  <2> QED
    BY <1>5
<1>7. Folded(d, base, s) = c[DOMAIN s]
  BY Zenon DEF Folded, FoldLeft, MapThenFoldSet
<1> HIDE DEF c
<1>8. run[0] = base /\ run[n] = c[DOMAIN s]
  BY <1>1, <1>6, UpTo
<1>9. ASSUME NEW k \in 1..n
      PROVE  run[k] = Op(d, run[k - 1], s[k])
  <2>1. c[1..k] = Op(d, c[1..(k - 1)], s[k])
    BY <1>1, <1>6, UpTo
  <2> QED
    BY <1>1, <2>1
<1> HIDE DEF run
<1>10. \A k \in 0..n : run[k] \in T
  <2> DEFINE G == {k \in 0..n : run[k] \in T}
  <2>1. 0 \in G /\ \A k \in 1..n : k - 1 \in G => k \in G
    BY <1>1, <1>8, <1>9 DEF Keeps
  <2>2. \A k \in 0..n : k \in G
    <3> HIDE DEF G, n
    <3> QED
      BY <1>1, <2>1, Reaches
  <2> QED
    BY <2>2
<1> QED
  BY <1>7, <1>8, <1>9, <1>10 DEF IsRun

\* What every element keeps, the fold keeps.
THEOREM FoldType ==
    ASSUME NEW d, NEW S, NEW s \in Seq(S), NEW T, NEW base \in T, Keeps(d, T, S)
    PROVE  Folded(d, base, s) \in T
<1>1. PICK run : IsRun(d, base, s, run) /\ \A k \in 0..Len(s) : run[k] \in T
  BY FoldRuns
<1>2. Len(s) \in 0..Len(s)
  OBVIOUS
<1> QED
  BY <1>1, <1>2 DEF IsRun

\* What holds at the start and is kept by every element holds at the end; G has the
\* pairs <<how many elements, what they made>> of which it holds.
THEOREM FoldReaches ==
    ASSUME NEW d, NEW S, NEW s \in Seq(S), NEW T, NEW base \in T, Keeps(d, T, S),
           NEW G, <<0, base>> \in G,
           \A k \in 1..Len(s), out \in T : <<k - 1, out>> \in G => <<k, Op(d, out, s[k])>> \in G
    PROVE  <<Len(s), Folded(d, base, s)>> \in G
<1>1. PICK run : IsRun(d, base, s, run) /\ \A k \in 0..Len(s) : run[k] \in T
  BY FoldRuns
<1> DEFINE n == Len(s)
           H == {k \in 0..n : <<k, run[k]>> \in G}
<1>2. n \in Nat /\ n \in 0..n
  OBVIOUS
<1>3. 0 \in H
  BY <1>1, <1>2 DEF IsRun
<1>4. ASSUME NEW k \in 1..n, k - 1 \in H
      PROVE  k \in H
  <2>1. run[k] = Op(d, run[k - 1], s[k])
    BY <1>1 DEF IsRun
  <2>2. k - 1 \in 0..n /\ k \in 0..n
    BY <1>2
  <2>3. run[k - 1] \in T /\ <<k - 1, run[k - 1]>> \in G
    BY <1>1, <1>4, <2>2
  <2> QED
    BY <2>1, <2>2, <2>3
<1>5. n \in H
  <2> HIDE DEF H, n
  <2> QED
    BY <1>2, <1>3, <1>4, ReachesLast
<1>6. run[n] = Folded(d, base, s)
  BY <1>1 DEF IsRun
<1> QED
  BY <1>5, <1>6

Inserts(d, S) ==
    \A out \in Seq(S), x \in S : \E m \in 0..Len(out) : Inserted(S, out, x, m, Op(d, out, x))

\* A sort by insertion, of whatever order, has the members of its sequence, and what
\* holds of every two of them.
THEOREM SortsMembers ==
    ASSUME NEW d, NEW S, NEW s \in Seq(S), Inserts(d, S), NEW R, Pairwise(R, s)
    PROVE  /\ Folded(d, <<>>, s) \in Seq(S) /\ Len(Folded(d, <<>>, s)) = Len(s)
           /\ Members(Folded(d, <<>>, s)) = Members(s)
           /\ Pairwise(R, Folded(d, <<>>, s))
<1> DEFINE T == Seq(S)
           E(k) == {s[i] : i \in 1..k}
           Good(k, out) == Len(out) = k /\ Members(out) = E(k) /\ Pairwise(R, out)
           G == {p \in (0..Len(s)) \X T : Good(p[1], p[2])}
<1>1. Keeps(d, T, S)
  BY DEF Keeps, Inserts, Inserted
<1>2. <<>> \in T /\ <<0, <<>>>> \in G
  <2>1. Members(<<>>) = {} /\ E(0) = {} /\ Pairwise(R, <<>>)
    BY DEF Members, Pairwise
  <2>2. 0 \in 0..Len(s) /\ <<>> \in T /\ Len(<<>>) = 0
    OBVIOUS
  <2>3. Good(0, <<>>)
    BY <2>1, <2>2
  <2> HIDE DEF Good, T
  <2> QED
    BY <2>2, <2>3
<1>3. ASSUME NEW k \in 1..Len(s), NEW out \in T, <<k - 1, out>> \in G
      PROVE  <<k, Op(d, out, s[k])>> \in G
  <2> DEFINE next == Op(d, out, s[k])
  <2>1. s[k] \in S /\ k \in DOMAIN s /\ k \in 0..Len(s)
    OBVIOUS
  <2>2. Good(k - 1, out)
    BY <1>3
  <2>3. PICK m \in 0..Len(out) : Inserted(S, out, s[k], m, next)
    <3> HIDE DEF next
    <3> QED
      BY <2>1 DEF Inserts, next
  <2>4. next \in T /\ Len(next) = k
    BY <2>2, <2>3 DEF Inserted
  <2>5. Members(next) = E(k)
    <3>1. Members(next) = Members(out) \union {s[k]}
      BY <2>1, <2>3, InsertedAdds
    <3>2. E(k) = E(k - 1) \union {s[k]}
      OBVIOUS
    <3> HIDE DEF next, E
    <3> QED
      BY <2>2, <3>1, <3>2
  <2>6. Pairwise(R, next)
    <3>1. \A y \in E(k - 1) : <<s[k], y>> \in R /\ <<y, s[k]>> \in R
      <4> SUFFICES ASSUME NEW i \in 1..(k - 1)
                   PROVE  <<s[k], s[i]>> \in R /\ <<s[i], s[k]>> \in R
        OBVIOUS
      <4>1. i \in DOMAIN s /\ i # k
        OBVIOUS
      <4> QED
        BY <2>1, <4>1 DEF Pairwise
    <3> HIDE DEF next, E
    <3>2. \A y \in Members(out) : <<s[k], y>> \in R /\ <<y, s[k]>> \in R
      BY <2>2, <3>1
    <3> QED
      BY <2>1, <2>2, <2>3, <3>2, InsertedApart
  <2>7. Good(k, next)
    BY <2>4, <2>5, <2>6
  <2> HIDE DEF next, Good
  <2> QED
    BY <2>1, <2>4, <2>7 DEF next
<1>4. <<Len(s), Folded(d, <<>>, s)>> \in G
  <2> HIDE DEF G, T
  <2> QED
    BY <1>1, <1>2, <1>3, FoldReaches
<1>5. E(Len(s)) = Members(s)
  BY DEF Members
<1> DEFINE last == Folded(d, <<>>, s)
<1>6. last \in T /\ Good(Len(s), last)
  <2> HIDE DEF last, Good, T
  <2> QED
    BY <1>4 DEF last
<1> QED
  BY <1>5, <1>6
=============================================================================
