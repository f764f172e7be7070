----------------------------- MODULE NatLemmas ------------------------------
(***************************************************************************)
(* The least-number principle stated of sets, so that a proof may argue    *)
(* from a least counterexample, and what it says of Max; induction over    *)
(* naturals and over sequences, as facts about sets; the values of the     *)
(* library's folds and of FlattenSeq, step by step; and that what is       *)
(* compared by a key can be put in order.                                  *)
(***************************************************************************)
EXTENDS Integers, SequencesExt, FiniteSetTheorems, SequenceTheorems, TLAPS

\* Every set of naturals that is not empty has a least element: the intervals
\* below its elements are finite, and strict inclusion of finite sets is
\* well-founded.
LEMMA LeastNatural ==
  ASSUME NEW S \in SUBSET Nat, S # {}
  PROVE  \E m \in S : \A k \in S : m <= k
<1> DEFINE Below(i) == {j \in Nat : j < i}
           T == {Below(i) : i \in S}
<1>1. T \subseteq FiniteSubsetsOf(Nat)
  <2> SUFFICES ASSUME NEW i \in S PROVE Below(i) \in FiniteSubsetsOf(Nat)
    OBVIOUS
  <2>1. Below(i) \in SUBSET Nat /\ i \in Nat /\ \A j \in Below(i) : j <= i
    OBVIOUS
  <2>2. IsFiniteSet(Below(i))
    BY <2>1, FS_BoundedSetOfNaturals
  <2> QED
    BY <2>1, <2>2 DEF FiniteSubsetsOf
<1>2. T # {}
  OBVIOUS
<1>3. PICK B \in T : \A C \in T : <<C, B>> \notin StrictSubsetOrdering(Nat)
  BY <1>1, <1>2, FS_StrictSubsetOrderingWellFounded, WFMin
<1>4. PICK m \in S : B = Below(m)
  OBVIOUS
<1>5. ASSUME NEW k \in S, k < m PROVE FALSE
  <2>1. Below(k) \in T /\ Below(k) \in SUBSET Nat /\ B \in SUBSET Nat
    BY <1>4
  <2>2. Below(k) \subseteq B /\ Below(k) # B
    <3>1. k \in B /\ k \notin Below(k)
      BY <1>4, <1>5
    <3> QED
      BY <3>1, <1>4, <1>5
  <2>3. <<Below(k), B>> \in StrictSubsetOrdering(Nat)
    BY <2>1, <2>2 DEF StrictSubsetOrdering
  <2> QED
    BY <1>3, <2>1, <2>3
<1> QED
  BY <1>5

\* A bounded set of naturals that is not empty holds its Max: the distances of
\* its elements to the bound have a least one.
LEMMA MaxExists ==
  ASSUME NEW n \in Nat, NEW S \in SUBSET (1 .. n), S # {}
  PROVE  Max(S) \in S /\ \A i \in S : i <= Max(S)
<1> DEFINE T == {d \in Nat : \E i \in S : d = n - i}
<1>1. T \in SUBSET Nat /\ T # {}
  <2>1. PICK i \in S : TRUE
    OBVIOUS
  <2>2. n - i \in T
    BY <2>1
  <2> QED
    BY <2>2
<1>2. PICK d \in T : \A e \in T : d <= e
  BY <1>1, LeastNatural
<1>3. PICK m \in S : d = n - m
  BY <1>2
<1>4. \A i \in S : m >= i
  <2> SUFFICES ASSUME NEW i \in S PROVE m >= i
    OBVIOUS
  <2>1. n - i \in T /\ i \in Nat /\ m \in Nat
    OBVIOUS
  <2>2. d <= n - i
    BY <2>1, <1>2
  <2> HIDE DEF T
  <2> QED
    BY <2>1, <2>2, <1>3
<1> QED
  BY <1>4 DEF Max

\* The Max of a set that holds its bound is the bound.
LEMMA MaxIsBound ==
  ASSUME NEW n \in Nat, NEW S \in SUBSET (1 .. n), n \in S
  PROVE  Max(S) = n
<1>1. \A x \in S : n >= x
  OBVIOUS
<1>2. \A x \in S : (\A y \in S : x >= y) => x = n
  OBVIOUS
<1> QED
  BY <1>1, <1>2 DEF Max

\* With 0 added a bounded set holds its Max even if it is empty.
LEMMA MaxOrZero ==
  ASSUME NEW n \in Nat, NEW S \in SUBSET (1 .. n)
  PROVE  /\ Max(S \cup {0}) \in S \cup {0} /\ Max(S \cup {0}) \in 0 .. n
         /\ \A i \in S : i <= Max(S \cup {0})
         /\ \A m \in S \cup {0} : (\A i \in S : i <= m) => Max(S \cup {0}) = m
<1> DEFINE T == S \cup {0}
<1>0. T \subseteq 0 .. n /\ \A i \in S : i \in 1 .. n
  OBVIOUS
<1>1. \E m \in T : \A i \in T : m >= i
  <2>1. CASE S = {}
    BY <2>1
  <2>2. CASE S # {}
    <3>1. PICK m \in S : \A i \in S : i <= m
      BY <2>2, MaxExists
    <3>2. m \in 1 .. n /\ \A i \in S : m >= i
      BY <1>0, <3>1
    <3> QED
      BY <3>2
  <2> QED
    BY <2>1, <2>2
<1>2. Max(T) \in T /\ \A i \in T : Max(T) >= i
  BY <1>1 DEF Max
<1> HIDE DEF T
<1>3. \A m \in S \cup {0} : (\A i \in S : i <= m) => Max(T) = m
  <2> SUFFICES ASSUME NEW m \in S \cup {0}, \A i \in S : i <= m PROVE Max(T) = m
    BY DEF T
  <2>0. m \in T
    BY DEF T
  <2>1. m \in 0 .. n /\ Max(T) \in 0 .. n /\ Max(T) >= m
    BY <1>0, <1>2, <2>0
  <2>2. Max(T) \in S => Max(T) <= m
    OBVIOUS
  <2>3. Max(T) = 0 \/ Max(T) \in S
    BY <1>2 DEF T
  <2> QED
    BY <2>1, <2>2, <2>3
<1>4. Max(T) \in 0 .. n /\ \A i \in S : i <= Max(T)
  <2>1. \A i \in S : i \in T
    BY DEF T
  <2> QED
    BY <1>0, <1>2, <2>1
<1> QED
  BY <1>2, <1>3, <1>4 DEF T

\* The smaller and the larger of two.
LEMMA MinExists ==
  ASSUME NEW S \in SUBSET Nat, S # {}
  PROVE  Min(S) \in S /\ \A k \in S : Min(S) <= k
<1>1. \E m \in S : \A k \in S : m <= k
  BY LeastNatural
<1> QED
  BY <1>1 DEF Min

LEMMA MinOfTwo ==
  ASSUME NEW a \in Int, NEW b \in Int
  PROVE  Min({a, b}) = IF a <= b THEN a ELSE b
<1> DEFINE m == IF a <= b THEN a ELSE b
<1>1. \A x \in {a, b} : (\A y \in {a, b} : x <= y) <=> x = m
  OBVIOUS
<1>2. m \in {a, b}
  OBVIOUS
<1> HIDE DEF m
<1>3. Min({a, b}) = m
  BY <1>1, <1>2 DEF Min
<1> QED
  BY <1>3 DEF m

LEMMA MaxOfTwo ==
  ASSUME NEW a \in Int, NEW b \in Int
  PROVE  Max({a, b}) = IF a <= b THEN b ELSE a
<1> DEFINE m == IF a <= b THEN b ELSE a
<1>1. \A x \in {a, b} : (\A y \in {a, b} : x >= y) <=> x = m
  OBVIOUS
<1>2. m \in {a, b}
  OBVIOUS
<1> HIDE DEF m
<1>3. Max({a, b}) = m
  BY <1>1, <1>2 DEF Max
<1> QED
  BY <1>3 DEF m

\* Induction up to a bound, of a set.
LEMMA BoundedInduction ==
  ASSUME NEW n \in Nat, NEW S, 0 \in S,
         \A i \in 0 .. n : i # n /\ i \in S => i + 1 \in S
  PROVE  \A i \in 0 .. n : i \in S
<1> DEFINE T == {i \in 0 .. n : i \notin S}
<1> SUFFICES ASSUME T # {} PROVE FALSE
  OBVIOUS
<1>1. PICK m \in T : \A k \in T : m <= k
  <2>1. T \in SUBSET Nat
    OBVIOUS
  <2> QED
    BY <2>1, LeastNatural
<1>2. m \in Nat /\ m # 0 /\ m - 1 \in 0 .. n /\ m - 1 # n /\ m \in 0 .. n /\ m \notin S
  OBVIOUS
<1>3. m - 1 \in S
  BY <1>1, <1>2
<1> QED
  BY <1>2, <1>3

\* The values that the steps make of a first one.
IsRun(g, n, V, base, step) == /\ g \in [0 .. n -> V] /\ g[0] = base
                              /\ \A i \in 1 .. n : g[i] = step[<<g[i - 1], i>>]

\* A function is defined by its value at 0 and what each step makes of a value.
LEMMA RecursiveFunction ==
  ASSUME NEW n \in Nat, NEW V, NEW base \in V, NEW step \in [V \X (1 .. n) -> V]
  PROVE  \E g : IsRun(g, n, V, base, step)
<1> DEFINE Runs(g, k) == /\ g \in [0 .. k -> V] /\ g[0] = base
                         /\ \A i \in 1 .. k : g[i] = step[<<g[i - 1], i>>]
           S == {k \in Nat : \E g : Runs(g, k)}
<1>1. 0 \in S
  <2> DEFINE g == [i \in 0 .. 0 |-> base]
  <2>1. Runs(g, 0)
    OBVIOUS
  <2> QED
    BY <2>1
<1>2. ASSUME NEW k \in 0 .. n, k # n, k \in S PROVE k + 1 \in S
  <2>1. PICK g : Runs(g, k)
    BY <1>2
  <2>2. k \in Nat /\ k + 1 \in 1 .. n
    BY <1>2
  <2> DEFINE v == step[<<g[k], k + 1>>]
             h == [i \in 0 .. k + 1 |-> IF i = k + 1 THEN v ELSE g[i]]
  <2>3. g[k] \in V
    BY <2>1, <2>2
  <2>4. v \in V
    BY <2>2, <2>3
  <2> HIDE DEF v
  <2>5. h \in [0 .. k + 1 -> V] /\ h[0] = base /\ h[k + 1] = v /\ \A i \in 0 .. k : h[i] = g[i]
    BY <2>1, <2>2, <2>4
  <2> HIDE DEF h
  <2>6. \A i \in 1 .. k + 1 : h[i] = step[<<h[i - 1], i>>]
    <3> SUFFICES ASSUME NEW i \in 1 .. k + 1 PROVE h[i] = step[<<h[i - 1], i>>]
      OBVIOUS
    <3>1. i - 1 \in 0 .. k /\ h[i - 1] = g[i - 1]
      BY <2>2, <2>5
    <3>2. CASE i = k + 1
      <4>1. i - 1 = k
        BY <2>2, <3>2
      <4> QED
        BY <2>5, <3>1, <3>2, <4>1 DEF v
    <3>3. CASE i # k + 1
      <4>1. i \in 1 .. k /\ i \in 0 .. k
        BY <2>2, <3>3
      <4> QED
        BY <2>1, <2>5, <3>1, <4>1
    <3> QED
      BY <3>2, <3>3
  <2>7. Runs(h, k + 1)
    BY <2>5, <2>6
  <2> HIDE DEF Runs
  <2> QED
    BY <2>2, <2>7
<1> HIDE DEF S
<1>3. n \in S
  BY <1>1, <1>2, BoundedInduction
<1> QED
  BY <1>3 DEF S, IsRun
-----------------------------------------------------------------------------
(* Sequences *)

\* Two runs that start alike and step alike are alike.
LEMMA RunsAgree ==
  ASSUME NEW n \in Nat, NEW g, NEW h, g[0] = h[0],
         \A i \in 1 .. n : g[i - 1] = h[i - 1] => g[i] = h[i]
  PROVE  \A i \in 0 .. n : g[i] = h[i]
<1> DEFINE S == {i \in 0 .. n : g[i] = h[i]}
<1>1. 0 \in S
  OBVIOUS
<1>2. ASSUME NEW i \in 0 .. n, i # n, i \in S PROVE i + 1 \in S
  <2>1. i + 1 \in 1 .. n /\ (i + 1) - 1 = i /\ g[i] = h[i]
    BY <1>2
  <2> QED
    BY <2>1
<1> HIDE DEF S
<1>3. \A i \in 0 .. n : i \in S
  BY <1>1, <1>2, BoundedInduction
<1> QED
  BY <1>3 DEF S

\* Equality of sequences, element by element.
LEMMA SameSequence ==
  ASSUME NEW E, NEW F, NEW s \in Seq(E), NEW t \in Seq(F), Len(s) = Len(t),
         \A i \in 1 .. Len(s) : s[i] = t[i]
  PROVE  s = t
  OBVIOUS

LEMMA ConcatAppend ==
  ASSUME NEW E, NEW s \in Seq(E), NEW t \in Seq(E), NEW x \in E
  PROVE  s \o Append(t, x) = Append(s \o t, x)
<1> DEFINE u == s \o Append(t, x)
           v == Append(s \o t, x)
<1>1. u \in Seq(E) /\ v \in Seq(E) /\ Len(u) = Len(v)
  OBVIOUS
<1>2. \A i \in 1 .. Len(u) : u[i] = v[i]
  OBVIOUS
<1> HIDE DEF u, v
<1>3. u = v
  BY <1>1, <1>2, SameSequence
<1> QED
  BY <1>3 DEF u, v

\* A prefix that is one element longer.
LEMMA PrefixAppend ==
  ASSUME NEW E, NEW s \in Seq(E), NEW i \in 0 .. Len(s), i # Len(s)
  PROVE  /\ SubSeq(s, 1, i) \in Seq(E) /\ s[i + 1] \in E
         /\ SubSeq(s, 1, i + 1) = Append(SubSeq(s, 1, i), s[i + 1])
<1>1. i + 1 \in 1 .. Len(s)
  OBVIOUS
<1> QED
  BY <1>1

\* A piece of one element, and of two.
LEMMA ShortPieces ==
  ASSUME NEW E, NEW s \in Seq(E), NEW i \in 1 .. Len(s)
  PROVE  /\ SubSeq(s, i, i) = <<s[i]>>
         /\ i + 1 \in 1 .. Len(s) => SubSeq(s, i, i + 1) = <<s[i], s[i + 1]>>
<1>1. SubSeq(s, i, i) = <<s[i]>>
  <2> DEFINE a == SubSeq(s, i, i)
             b == <<s[i]>>
  <2>1. a \in Seq(E) /\ Len(a) = 1 /\ a[1] = s[i] /\ b \in Seq(E) /\ Len(b) = 1 /\ b[1] = s[i]
    OBVIOUS
  <2> HIDE DEF a, b
  <2>2. \A k \in 1 .. Len(a) : a[k] = b[k]
    BY <2>1
  <2>3. a = b
    BY <2>1, <2>2, SameSequence
  <2> QED
    BY <2>3 DEF a, b
<1>2. ASSUME i + 1 \in 1 .. Len(s) PROVE SubSeq(s, i, i + 1) = <<s[i], s[i + 1]>>
  <2> DEFINE a == SubSeq(s, i, i + 1)
             b == <<s[i], s[i + 1]>>
  <2>1. a \in Seq(E) /\ Len(a) = 2 /\ a[1] = s[i] /\ a[2] = s[i + 1]
    BY <1>2
  <2>2. b \in Seq(E) /\ Len(b) = 2 /\ b[1] = s[i] /\ b[2] = s[i + 1]
    BY <1>2
  <2> HIDE DEF a, b
  <2>3. \A k \in 1 .. Len(a) : a[k] = b[k]
    BY <2>1, <2>2
  <2>4. a = b
    BY <2>1, <2>2, <2>3, SameSequence
  <2> QED
    BY <2>4 DEF a, b
<1> QED
  BY <1>1, <1>2

\* The two parts of a concatenation.
LEMMA ConcatParts ==
  ASSUME NEW E, NEW s \in Seq(E), NEW t \in Seq(E)
  PROVE  /\ SubSeq(s \o t, 1, Len(s)) = s
         /\ SubSeq(s \o t, Len(s) + 1, Len(s \o t)) = t
<1> DEFINE w == s \o t
           p == SubSeq(w, 1, Len(s))
           q == SubSeq(w, Len(s) + 1, Len(w))
<1>1. Len(s) \in Nat /\ Len(t) \in Nat
  OBVIOUS
<1>2. /\ w \in Seq(E) /\ Len(w) = Len(s) + Len(t)
      /\ \A i \in 1 .. Len(s) + Len(t) : w[i] = IF i <= Len(s) THEN s[i] ELSE t[i - Len(s)]
  BY ConcatProperties
<1> HIDE DEF w
<1>3. \A i \in 1 .. Len(w) : w[i] \in E
  BY <1>2
<1>4. p \in Seq(E) /\ Len(p) = Len(s) /\ \A i \in 1 .. Len(s) : p[i] = w[i]
  BY <1>1, <1>2, <1>3, SubSeqProperties
<1>5. q \in Seq(E) /\ Len(q) = Len(t) /\ \A i \in 1 .. Len(t) : q[i] = w[Len(s) + i]
  BY <1>1, <1>2, <1>3, SubSeqProperties
<1> HIDE DEF p, q
<1>6. p = s
  <2>1. \A i \in 1 .. Len(s) : p[i] = s[i]
    BY <1>1, <1>2, <1>4
  <2> QED
    BY <1>1, <1>4, <2>1, SameSequence
<1>7. q = t
  <2>1. \A i \in 1 .. Len(t) : q[i] = t[i]
    <3> SUFFICES ASSUME NEW i \in 1 .. Len(t) PROVE q[i] = t[i]
      OBVIOUS
    <3>1. Len(s) + i \in 1 .. Len(s) + Len(t) /\ ~(Len(s) + i <= Len(s)) /\ (Len(s) + i) - Len(s) = i
      BY <1>1
    <3> QED
      BY <1>2, <1>5, <3>1
  <2> QED
    BY <1>1, <1>5, <2>1, SameSequence
<1> QED
  BY <1>6, <1>7 DEF w, p, q

\* Induction over sequences, of a set.
LEMMA SequenceInduction ==
  ASSUME NEW E, NEW P, <<>> \in P,
         \A s \in Seq(E), x \in E : s \in P => Append(s, x) \in P
  PROVE  \A s \in Seq(E) : s \in P
<1> SUFFICES ASSUME NEW s \in Seq(E) PROVE s \in P
  OBVIOUS
<1> DEFINE n == Len(s)
           S == {i \in 0 .. n : SubSeq(s, 1, i) \in P}
<1>0. n \in Nat
  OBVIOUS
<1>1. 0 \in S
  <2>1. SubSeq(s, 1, 0) = <<>> /\ 0 \in 0 .. n
    OBVIOUS
  <2> QED
    BY <2>1
<1>2. ASSUME NEW i \in 0 .. n, i # n, i \in S PROVE i + 1 \in S
  <2>1. /\ SubSeq(s, 1, i) \in Seq(E) /\ s[i + 1] \in E
        /\ SubSeq(s, 1, i + 1) = Append(SubSeq(s, 1, i), s[i + 1])
    BY <1>2, PrefixAppend
  <2>2. i + 1 \in 0 .. n /\ SubSeq(s, 1, i) \in P
    BY <1>0, <1>2
  <2>3. SubSeq(s, 1, i + 1) \in P
    BY <2>1, <2>2
  <2> QED
    BY <2>2, <2>3
<1>3. n \in S
  <2> HIDE DEF S
  <2>1. \A i \in 0 .. n : i \in S
    BY <1>0, <1>1, <1>2, BoundedInduction
  <2> QED
    BY <1>0, <2>1
<1>4. SubSeq(s, 1, n) = s
  OBVIOUS
<1> QED
  BY <1>3, <1>4
-----------------------------------------------------------------------------
(* Folds *)

\* The Max of the first k naturals, and of a set that holds a bound.
LEMMA MaxOfInterval ==
  ASSUME NEW k \in Nat, k # 0
  PROVE  Max(1 .. k) = k /\ (1 .. k) \ {k} = 1 .. (k - 1) /\ 1 .. k # {}
<1>1. k \in 1 .. k /\ 1 .. k \in SUBSET (1 .. k)
  OBVIOUS
<1>2. Max(1 .. k) = k
  BY <1>1, MaxIsBound
<1> QED
  BY <1>1, <1>2

\* The function by which MapThenFoldSet goes through the places of a sequence of n elements, with
\* values in V.
IsFold(iter, n, V, base, step) ==
  /\ iter \in [SUBSET (1 .. n) -> V]
  /\ iter[{}] = base
  /\ \A s \in SUBSET (1 .. n) : s # {} => /\ Max(s) \in 1 .. n
                                          /\ iter[s] = step[<<iter[s \ {Max(s)}], Max(s)>>]

LEMMA FoldExists ==
  ASSUME NEW n \in Nat, NEW V, NEW base \in V, NEW step \in [V \X (1 .. n) -> V]
  PROVE  \E iter : IsFold(iter, n, V, base, step)
<1> DEFINE Runs(iter, k) ==
             /\ iter \in [SUBSET (1 .. k) -> V] /\ iter[{}] = base
             /\ \A s \in SUBSET (1 .. k) : s # {} => iter[s] = step[<<iter[s \ {Max(s)}], Max(s)>>]
           S == {k \in Nat : \E iter : Runs(iter, k)}
<1>1. 0 \in S
  <2> DEFINE iter == [s \in SUBSET (1 .. 0) |-> base]
  <2>1. 1 .. 0 = {}
    OBVIOUS
  <2>2. Runs(iter, 0)
    BY <2>1
  <2> QED
    BY <2>2
<1>2. ASSUME NEW k \in 0 .. n, k # n, k \in S PROVE k + 1 \in S
  <2>1. PICK it : Runs(it, k)
    BY <1>2
  <2> DEFINE m == k + 1
             h == [s \in SUBSET (1 .. m) |-> IF m \in s THEN step[<<it[s \ {m}], m>>] ELSE it[s]]
  <2>2. m \in Nat /\ m \in 1 .. n /\ m \notin 1 .. k /\ 1 .. m = (1 .. k) \cup {m}
    BY <1>2
  <2> HIDE DEF m
  <2>3. \A s \in SUBSET (1 .. m) : s \ {m} \in SUBSET (1 .. k) /\ (m \notin s => s \in SUBSET (1 .. k))
    BY <2>2
  <2>4. \A s \in SUBSET (1 .. m) : m \in s => Max(s) = m
    BY <2>2, MaxIsBound
  <2>5. h \in [SUBSET (1 .. m) -> V]
    <3> SUFFICES ASSUME NEW s \in SUBSET (1 .. m)
                 PROVE  (IF m \in s THEN step[<<it[s \ {m}], m>>] ELSE it[s]) \in V
      OBVIOUS
    <3>1. it[s \ {m}] \in V /\ (m \notin s => it[s] \in V)
      BY <2>1, <2>3
    <3> QED
      BY <2>2, <3>1
  <2>6. h[{}] = base
    BY <2>1
  <2>7. ASSUME NEW s \in SUBSET (1 .. m), s # {} PROVE h[s] = step[<<h[s \ {Max(s)}], Max(s)>>]
    <3>1. CASE m \in s
      <4>1. h[s] = step[<<it[s \ {m}], m>>] /\ h[s \ {m}] = it[s \ {m}]
        BY <3>1
      <4> QED
        BY <2>4, <3>1, <4>1
    <3>2. CASE m \notin s
      <4>1. s \in SUBSET (1 .. k)
        BY <2>3, <3>2
      <4>2. it[s] = step[<<it[s \ {Max(s)}], Max(s)>>]
        BY <2>1, <2>7, <4>1
      <4>3. h[s] = it[s] /\ h[s \ {Max(s)}] = it[s \ {Max(s)}]
        BY <3>2
      <4> QED
        BY <4>2, <4>3
    <3> QED
      BY <3>1, <3>2
  <2>8. Runs(h, m)
    BY <2>5, <2>6, <2>7
  <2> HIDE DEF Runs, h
  <2> QED
    BY <2>2, <2>8 DEF m
<1> HIDE DEF S
<1>3. n \in S
  BY <1>1, <1>2, BoundedInduction
<1>4. PICK iter : Runs(iter, n)
  BY <1>3 DEF S
<1>5. \A s \in SUBSET (1 .. n) : s # {} => Max(s) \in 1 .. n
  BY MaxExists
<1> QED
  BY <1>4, <1>5 DEF IsFold

(* Flattening *)

\* FlattenSeq puts the sequences together one by one.
LEMMA FlattenRun ==
  ASSUME NEW E, NEW ss \in Seq(Seq(E))
  PROVE  \E g : /\ g[0] = <<>>
                /\ \A i \in 1 .. Len(ss) : g[i] = g[i - 1] \o ss[i]
                /\ FlattenSeq(ss) = g[Len(ss)]
<1> DEFINE n == Len(ss)
           V == Seq(E)
           step == [p \in V \X (1 .. n) |-> p[1] \o ss[p[2]]]
           F(f) == [i \in 1 .. n |-> IF i = 1 THEN ss[i] ELSE f[i - 1] \o ss[i]]
           flatten == CHOOSE f : f = F(f)
<1>1. n \in Nat /\ <<>> \in V /\ \A i \in 1 .. n : ss[i] \in V
  OBVIOUS
<1>2. step \in [V \X (1 .. n) -> V]
  <2>1. \A v \in V, i \in 1 .. n : v \o ss[i] \in V
    OBVIOUS
  <2> HIDE DEF V, n
  <2> QED
    BY <2>1
<1>3. \A v \in V, i \in 1 .. n : step[<<v, i>>] = v \o ss[i]
  OBVIOUS
<1> HIDE DEF step
<1>4. PICK g : g \in [0 .. n -> V] /\ g[0] = <<>> /\ \A i \in 1 .. n : g[i] = step[<<g[i - 1], i>>]
  <2> HIDE DEF V, n
  <2>1. PICK g : IsRun(g, n, V, <<>>, step)
    BY <1>1, <1>2, RecursiveFunction
  <2> QED
    BY <2>1 DEF IsRun
<1>5. \A i \in 1 .. n : g[i] = g[i - 1] \o ss[i]
  <2> HIDE DEF V
  <2> SUFFICES ASSUME NEW i \in 1 .. n PROVE g[i] = g[i - 1] \o ss[i]
    OBVIOUS
  <2>1. i - 1 \in 0 .. n
    BY <1>1
  <2>2. g[i - 1] \in V
    BY <1>4, <2>1
  <2> QED
    BY <1>3, <1>4, <2>2
<1>6. \E f : f = F(f)
  <2> DEFINE h == [i \in 1 .. n |-> g[i]]
  <2>1. \A i \in 1 .. n : h[i] = IF i = 1 THEN ss[i] ELSE h[i - 1] \o ss[i]
    <3> SUFFICES ASSUME NEW i \in 1 .. n PROVE h[i] = IF i = 1 THEN ss[i] ELSE h[i - 1] \o ss[i]
      OBVIOUS
    <3>1. h[i] = g[i - 1] \o ss[i]
      BY <1>5
    <3>2. CASE i = 1
      <4>1. g[i - 1] = <<>> /\ ss[i] \in Seq(E)
        BY <1>4, <3>2
      <4>2. <<>> \o ss[i] = ss[i]
        BY <4>1
      <4> QED
        BY <3>1, <3>2, <4>1, <4>2
    <3>3. CASE i # 1
      <4>1. i - 1 \in 1 .. n
        BY <1>1, <3>3
      <4> QED
        BY <3>1, <3>3, <4>1
    <3> QED
      BY <3>2, <3>3
  <2>2. h = F(h)
    BY <2>1
  <2> HIDE DEF h, F
  <2> QED
    BY <2>2
<1>7. flatten = F(flatten)
  <2> HIDE DEF F
  <2> QED
    BY <1>6
<1>8. FlattenSeq(ss) = IF n = 0 THEN ss ELSE flatten[n]
  BY DEF FlattenSeq
<1> HIDE DEF flatten
<1>9. \A i \in 1 .. n : flatten[i] = IF i = 1 THEN ss[i] ELSE flatten[i - 1] \o ss[i]
  BY <1>7
<1> DEFINE h == [k \in 0 .. n |-> IF k = 0 THEN <<>> ELSE flatten[k]]
<1>10. h[0] = <<>> /\ \A i \in 1 .. n : h[i] = h[i - 1] \o ss[i]
  <2>1. h[0] = <<>>
    OBVIOUS
  <2> SUFFICES ASSUME NEW i \in 1 .. n PROVE h[i] = h[i - 1] \o ss[i]
    BY <2>1
  <2>2. i \in 0 .. n /\ i - 1 \in 0 .. n /\ i # 0
    BY <1>1
  <2>3. h[i] = flatten[i]
    BY <2>2
  <2>4. CASE i = 1
    <3>1. h[i - 1] = <<>> /\ ss[i] \in Seq(E) /\ h[i] = ss[i]
      BY <1>9, <2>2, <2>3, <2>4
    <3>2. <<>> \o ss[i] = ss[i]
      BY <3>1
    <3> QED
      BY <3>1, <3>2
  <2>5. CASE i # 1
    <3>1. h[i - 1] = flatten[i - 1]
      BY <2>2, <2>5
    <3> QED
      BY <1>9, <2>3, <2>5, <3>1
  <2> QED
    BY <2>4, <2>5
<1>11. FlattenSeq(ss) = h[n]
  <2>1. n = 0 => ss = <<>>
    OBVIOUS
  <2>2. n \in 0 .. n
    BY <1>1
  <2> QED
    BY <1>8, <2>1, <2>2
<1> HIDE DEF h
<1> QED
  BY <1>10, <1>11 DEF n

\* Of nothing.
LEMMA FlattenNil == FlattenSeq(<<>>) = <<>>
<1>1. <<>> \in Seq(Seq({})) /\ Len(<<>>) = 0
  OBVIOUS
<1> QED
  BY <1>1, FlattenRun

\* One more sequence.
LEMMA FlattenAppend ==
  ASSUME NEW E, NEW ss \in Seq(Seq(E)), NEW s \in Seq(E)
  PROVE  FlattenSeq(Append(ss, s)) = FlattenSeq(ss) \o s
<1> DEFINE n == Len(ss)
           u == Append(ss, s)
<1>1. n \in Nat /\ u \in Seq(Seq(E)) /\ Len(u) = n + 1 /\ u[n + 1] = s /\ \A i \in 1 .. n : u[i] = ss[i]
  OBVIOUS
<1>2. PICK g : /\ g[0] = <<>>
               /\ \A i \in 1 .. Len(u) : g[i] = g[i - 1] \o u[i]
               /\ FlattenSeq(u) = g[Len(u)]
  BY <1>1, FlattenRun
<1>3. PICK h : /\ h[0] = <<>>
               /\ \A i \in 1 .. n : h[i] = h[i - 1] \o ss[i]
               /\ FlattenSeq(ss) = h[n]
  BY FlattenRun
<1> HIDE DEF n, u
<1>4. ASSUME NEW i \in 1 .. n, g[i - 1] = h[i - 1] PROVE g[i] = h[i]
  <2>1. i \in 1 .. Len(u)
    BY <1>1
  <2>2. g[i] = g[i - 1] \o u[i]
    BY <1>2, <2>1
  <2>3. h[i] = h[i - 1] \o ss[i]
    BY <1>3
  <2>4. u[i] = ss[i]
    BY <1>1
  <2> QED
    BY <1>4, <2>2, <2>3, <2>4
<1>5. g[n] = h[n]
  <2>1. g[0] = h[0] /\ n \in Nat
    BY <1>1, <1>2, <1>3
  <2>2. \A i \in 0 .. n : g[i] = h[i]
    BY <2>1, <1>4, RunsAgree, ZenonT(30)
  <2> QED
    BY <1>1, <2>2
<1>6. n + 1 \in 1 .. Len(u) /\ (n + 1) - 1 = n
  BY <1>1
<1>7. g[n + 1] = g[n] \o s
  BY <1>1, <1>2, <1>6
<1> QED
  BY <1>1, <1>2, <1>3, <1>5, <1>7 DEF u

LEMMA FlattenType ==
  ASSUME NEW E, NEW ss \in Seq(Seq(E)) PROVE FlattenSeq(ss) \in Seq(E)
<1> DEFINE P == {ts \in Seq(Seq(E)) : FlattenSeq(ts) \in Seq(E)}
           S == Seq(E)
<1>1. <<>> \in P
  <2>1. <<>> \in Seq(Seq(E)) /\ <<>> \in Seq(E)
    OBVIOUS
  <2> QED
    BY <2>1, FlattenNil
<1>2. ASSUME NEW ts \in Seq(S), NEW s \in S, ts \in P PROVE Append(ts, s) \in P
  <2>1. FlattenSeq(Append(ts, s)) = FlattenSeq(ts) \o s /\ FlattenSeq(ts) \in Seq(E)
    BY <1>2, FlattenAppend
  <2>2. FlattenSeq(ts) \o s \in Seq(E) /\ Append(ts, s) \in Seq(Seq(E))
    BY <2>1
  <2> QED
    BY <2>1, <2>2
<1> HIDE DEF P, S
<1>3. \A ts \in Seq(S) : ts \in P
  BY <1>1, <1>2, SequenceInduction
<1> QED
  BY <1>3 DEF P, S

LEMMA FlattenConcat ==
  ASSUME NEW E, NEW ss \in Seq(Seq(E)), NEW tt \in Seq(Seq(E))
  PROVE  FlattenSeq(ss \o tt) = FlattenSeq(ss) \o FlattenSeq(tt)
<1> DEFINE S == Seq(E)
           a == FlattenSeq(ss)
           P == {ts \in Seq(S) : FlattenSeq(ss \o ts) = a \o FlattenSeq(ts)}
<1>0. a \in Seq(E)
  BY FlattenType
<1>1. <<>> \in P
  <2>1. ss \o <<>> = ss /\ a \o <<>> = a /\ <<>> \in Seq(S)
    BY <1>0
  <2> QED
    BY <2>1, FlattenNil
<1>2. ASSUME NEW ts \in Seq(S), NEW s \in S, ts \in P PROVE Append(ts, s) \in P
  <2>1. /\ ss \o ts \in Seq(S) /\ Append(ts, s) \in Seq(S)
        /\ ss \o Append(ts, s) = Append(ss \o ts, s)
    <3> HIDE DEF S
    <3>1. ss \in Seq(S)
      BY DEF S
    <3> QED
      BY <3>1, ConcatAppend
  <2>2. /\ FlattenSeq(Append(ss \o ts, s)) = FlattenSeq(ss \o ts) \o s
        /\ FlattenSeq(Append(ts, s)) = FlattenSeq(ts) \o s
    BY <2>1, FlattenAppend
  <2>3. FlattenSeq(ts) \in Seq(E)
    BY FlattenType
  <2> HIDE DEF a
  <2>4. FlattenSeq(ss \o ts) = a \o FlattenSeq(ts)
    BY <1>2
  <2>5. (a \o FlattenSeq(ts)) \o s = a \o (FlattenSeq(ts) \o s)
    BY <1>0, <2>3, ConcatAssociative, SMTT(30)
  <2> QED
    BY <2>1, <2>2, <2>4, <2>5
<1> HIDE DEF P, S, a
<1>3. \A ts \in Seq(S) : ts \in P
  BY <1>1, <1>2, SequenceInduction
<1> QED
  BY <1>3 DEF P, S, a

\* A piece of a sequence of sequences, cut in two.
LEMMA FlattenSplit ==
  ASSUME NEW E, NEW ss \in Seq(Seq(E)),
         NEW a \in Nat, NEW b \in Nat, NEW c \in Nat, a <= b, b <= c, c <= Len(ss)
  PROVE  /\ SubSeq(ss, a + 1, c) \in Seq(Seq(E))
         /\ FlattenSeq(SubSeq(ss, a + 1, c))
              = FlattenSeq(SubSeq(ss, a + 1, b)) \o FlattenSeq(SubSeq(ss, b + 1, c))
<1> DEFINE S == Seq(E)
<1>1. a + 1 \in 1 .. Len(ss) + 1 /\ b \in (a + 1) - 1 .. Len(ss) /\ c \in b .. Len(ss)
  OBVIOUS
<1>2. ss \in Seq(S)
  OBVIOUS
<1>3. \A i \in 1 .. Len(ss) : ss[i] \in S
  OBVIOUS
<1> HIDE DEF S
<1>4. SubSeq(ss, a + 1, b) \o SubSeq(ss, b + 1, c) = SubSeq(ss, a + 1, c)
  BY <1>1, <1>2, ConcatAdjacentSubSeq
<1>5. SubSeq(ss, a + 1, b) \in Seq(S) /\ SubSeq(ss, b + 1, c) \in Seq(S) /\ SubSeq(ss, a + 1, c) \in Seq(S)
  BY <1>1, <1>3, SubSeqProperties
<1> QED
  BY <1>4, <1>5, FlattenConcat DEF S

LEMMA FlattenEmpties ==
  ASSUME NEW E, NEW ss \in Seq(Seq(E)), \A i \in 1 .. Len(ss) : ss[i] = <<>>
  PROVE  FlattenSeq(ss) = <<>>
<1>1. PICK g : /\ g[0] = <<>>
               /\ \A i \in 1 .. Len(ss) : g[i] = g[i - 1] \o ss[i]
               /\ FlattenSeq(ss) = g[Len(ss)]
  BY FlattenRun
<1>2. \A i \in 1 .. Len(ss) : g[i - 1] = <<>> => g[i] = <<>>
  <2>1. <<>> \o <<>> = <<>>
    OBVIOUS
  <2> QED
    BY <1>1, <2>1
<1> DEFINE h == [i \in 0 .. Len(ss) |-> <<>>]
<1>3. Len(ss) \in Nat
  OBVIOUS
<1>4. g[0] = h[0] /\ \A i \in 1 .. Len(ss) : g[i - 1] = h[i - 1] => g[i] = h[i]
  BY <1>1, <1>2, <1>3
<1>5. h[Len(ss)] = <<>>
  BY <1>3
<1> HIDE DEF h
<1>6. \A i \in 0 .. Len(ss) : g[i] = h[i]
  BY <1>3, <1>4, RunsAgree, ZenonT(30)
<1> QED
  BY <1>1, <1>3, <1>5, <1>6

LEMMA FlattenSingles ==
  ASSUME NEW E, NEW s \in Seq(E), NEW ss \in Seq(Seq(E)), Len(ss) = Len(s),
         \A i \in 1 .. Len(s) : ss[i] = <<s[i]>>
  PROVE  FlattenSeq(ss) = s
<1>1. PICK g : /\ g[0] = <<>>
               /\ \A i \in 1 .. Len(ss) : g[i] = g[i - 1] \o ss[i]
               /\ FlattenSeq(ss) = g[Len(ss)]
  BY FlattenRun
<1> DEFINE h == [i \in 0 .. Len(s) |-> SubSeq(s, 1, i)]
<1>2. Len(s) \in Nat /\ Len(ss) = Len(s)
  OBVIOUS
<1>3. h[0] = <<>> /\ h[Len(s)] = s
  OBVIOUS
<1>4. ASSUME NEW i \in 1 .. Len(s) PROVE h[i] = h[i - 1] \o <<s[i]>>
  <2> DEFINE k == i - 1
  <2>1. k \in 0 .. Len(s) /\ k # Len(s) /\ k + 1 = i
    BY <1>2
  <2> HIDE DEF k
  <2>2. SubSeq(s, 1, k) \in Seq(E) /\ s[k + 1] \in E /\ SubSeq(s, 1, k + 1) = Append(SubSeq(s, 1, k), s[k + 1])
    BY <2>1, PrefixAppend
  <2>3. Append(SubSeq(s, 1, k), s[k + 1]) = SubSeq(s, 1, k) \o <<s[k + 1]>>
    BY <2>2, AppendIsConcat
  <2>4. h[i] = SubSeq(s, 1, k + 1) /\ h[i - 1] = SubSeq(s, 1, k)
    BY <1>2, <2>1 DEF k
  <2> QED
    BY <2>1, <2>2, <2>3, <2>4
<1> HIDE DEF h
<1>5. \A i \in 1 .. Len(s) : g[i - 1] = h[i - 1] => g[i] = h[i]
  BY <1>1, <1>2, <1>4
<1>6. \A i \in 0 .. Len(s) : g[i] = h[i]
  <2>1. Len(s) \in Nat
    BY <1>2
  <2>2. g[0] = h[0] /\ \A i \in 1 .. Len(s) : g[i - 1] = h[i - 1] => g[i] = h[i]
    BY <1>1, <1>3, <1>5
  <2> QED
    BY <2>1, <2>2, RunsAgree, ZenonT(30)
<1> QED
  BY <1>1, <1>2, <1>3, <1>6

\* Pieces of at most one element.
LEMMA FlattenShort ==
  ASSUME NEW E, NEW ss \in Seq(Seq(E)), \A i \in 1 .. Len(ss) : Len(ss[i]) <= 1
  PROVE  Len(FlattenSeq(ss)) <= Len(ss)
<1> DEFINE n == Len(ss)
           S == {i \in 0 .. n : Len(FlattenSeq(SubSeq(ss, 1, i))) <= i}
           T == Seq(E)
<1>0. n \in Nat /\ SubSeq(ss, 1, n) = ss
  OBVIOUS
<1>1. 0 \in S
  <2>1. SubSeq(ss, 1, 0) = <<>> /\ 0 \in 0 .. n /\ Len(<<>>) <= 0
    OBVIOUS
  <2> QED
    BY <2>1, FlattenNil
<1>2. ASSUME NEW i \in 0 .. n, i # n, i \in S PROVE i + 1 \in S
  <2> DEFINE p == SubSeq(ss, 1, i)
  <2>1. p \in Seq(T) /\ ss[i + 1] \in T /\ SubSeq(ss, 1, i + 1) = Append(p, ss[i + 1])
    <3> HIDE DEF T
    <3>1. ss \in Seq(T)
      BY DEF T
    <3> QED
      BY <1>2, <3>1, PrefixAppend
  <2>2. Len(FlattenSeq(p)) <= i
    BY <1>2
  <2>3. i \in Nat /\ i + 1 \in 1 .. n /\ i + 1 \in 0 .. n
    <3>1. n \in Nat /\ i \in 0 .. n /\ i # n
      BY <1>0, <1>2
    <3> HIDE DEF n, S
    <3> QED
      BY <3>1
  <2>4. Len(ss[i + 1]) <= 1
    BY <2>3
  <2> HIDE DEF p
  <2>5. FlattenSeq(Append(p, ss[i + 1])) = FlattenSeq(p) \o ss[i + 1] /\ FlattenSeq(p) \in Seq(E)
    BY <2>1, FlattenAppend, FlattenType
  <2>6. Len(FlattenSeq(p) \o ss[i + 1]) = Len(FlattenSeq(p)) + Len(ss[i + 1])
        /\ Len(FlattenSeq(p)) \in Nat /\ Len(ss[i + 1]) \in Nat
    BY <2>1, <2>5
  <2>7. Len(FlattenSeq(p)) + Len(ss[i + 1]) <= i + 1
    BY <2>2, <2>3, <2>4, <2>6
  <2>8. Len(FlattenSeq(SubSeq(ss, 1, i + 1))) <= i + 1
    BY <2>1, <2>5, <2>6, <2>7
  <2> QED
    BY <2>3, <2>8
<1> HIDE DEF S
<1>3. n \in S
  <2>1. \A i \in 0 .. n : i \in S
    BY <1>0, <1>1, <1>2, BoundedInduction
  <2> QED
    BY <1>0, <2>1
<1> QED
  BY <1>0, <1>3 DEF S

\* Where each of the joined sequences begins.
BeginsAt(off, ss) ==
  /\ off \in [0 .. Len(ss) -> Nat] /\ off[0] = 0
  /\ \A i \in 1 .. Len(ss) : off[i] = off[i - 1] + Len(ss[i])
  /\ Len(FlattenSeq(ss)) = off[Len(ss)]
  /\ \A i \in 0 .. Len(ss) : off[i] <= off[Len(ss)]
  /\ \A i \in 1 .. Len(ss) : \A n \in 1 .. Len(ss[i]) : FlattenSeq(ss)[off[i - 1] + n] = ss[i][n]

LEMMA FlattenPlaces ==
  ASSUME NEW E, NEW ss \in Seq(Seq(E))
  PROVE  \E off : BeginsAt(off, ss)
<1> DEFINE S == Seq(E)
           P == {ts \in Seq(S) : \E off : BeginsAt(off, ts)}
<1>1. <<>> \in P
  <2> DEFINE off == [i \in 0 .. 0 |-> 0]
  <2>1. <<>> \in Seq(S) /\ Len(<<>>) = 0
    OBVIOUS
  <2>2. off \in [0 .. 0 -> Nat] /\ off[0] = 0
    OBVIOUS
  <2> HIDE DEF off
  <2>3. BeginsAt(off, <<>>)
    BY <2>1, <2>2, FlattenNil DEF BeginsAt
  <2> QED
    BY <2>1, <2>3
<1>2. ASSUME NEW ts \in Seq(S), NEW s \in S, ts \in P PROVE Append(ts, s) \in P
  <2> DEFINE n == Len(ts)
             us == Append(ts, s)
             t == FlattenSeq(ts)
             u == FlattenSeq(us)
  <2>1. n \in Nat /\ us \in Seq(S) /\ Len(us) = n + 1 /\ us[n + 1] = s /\ \A i \in 1 .. n : us[i] = ts[i]
    OBVIOUS
  <2>2. t \in Seq(E) /\ u = t \o s
    BY FlattenType, FlattenAppend
  <2>3. PICK off : BeginsAt(off, ts)
    BY <1>2
  <2> HIDE DEF t, u
  <2>4. Len(u) = Len(t) + Len(s) /\ (\A i \in 1 .. Len(t) : u[i] = t[i])
        /\ \A i \in 1 .. Len(s) : u[Len(t) + i] = s[i]
    BY <2>2
  <2>5. Len(t) = off[n] /\ Len(t) \in Nat /\ Len(s) \in Nat
    BY <2>2, <2>3 DEF BeginsAt, t
  <2> HIDE DEF n, us
  <2> DEFINE g == [i \in 0 .. n + 1 |-> IF i <= n THEN off[i] ELSE off[n] + Len(s)]
  <2>6. off \in [0 .. n -> Nat]
    BY <2>3 DEF BeginsAt, n
  <2>7. g \in [0 .. n + 1 -> Nat] /\ g[0] = 0 /\ g[n + 1] = off[n] + Len(s) /\ \A i \in 0 .. n : g[i] = off[i]
    <3>1. off[0] = 0 /\ n \in 0 .. n
      BY <2>1, <2>3 DEF BeginsAt
    <3> QED
      BY <2>1, <2>5, <2>6, <3>1
  <2> HIDE DEF g
  <2>8. \A i \in 1 .. n + 1 : g[i] = g[i - 1] + Len(us[i])
    <3> SUFFICES ASSUME NEW i \in 1 .. n + 1 PROVE g[i] = g[i - 1] + Len(us[i])
      OBVIOUS
    <3>1. CASE i = n + 1
      BY <2>1, <2>7, <3>1
    <3>2. CASE i # n + 1
      <4>1. i \in 1 .. n /\ i \in 0 .. n /\ i - 1 \in 0 .. n
        BY <2>1, <3>2
      <4>2. off[i] = off[i - 1] + Len(ts[i])
        BY <2>3, <4>1 DEF BeginsAt, n
      <4> QED
        BY <2>1, <2>7, <4>1, <4>2
    <3> QED
      BY <3>1, <3>2
  <2>9. \A i \in 0 .. n + 1 : g[i] <= g[n + 1]
    <3> SUFFICES ASSUME NEW i \in 0 .. n + 1 PROVE g[i] <= g[n + 1]
      OBVIOUS
    <3>1. CASE i = n + 1
      BY <2>1, <2>7, <3>1
    <3>2. CASE i # n + 1
      <4>1. i \in 0 .. n
        BY <2>1, <3>2
      <4>2. off[i] <= off[n]
        BY <2>3, <4>1 DEF BeginsAt, n
      <4> QED
        BY <2>1, <2>5, <2>6, <2>7, <4>1, <4>2
    <3> QED
      BY <3>1, <3>2
  <2>10. \A i \in 1 .. n + 1 : \A k \in 1 .. Len(us[i]) : u[g[i - 1] + k] = us[i][k]
    <3> SUFFICES ASSUME NEW i \in 1 .. n + 1, NEW k \in 1 .. Len(us[i]) PROVE u[g[i - 1] + k] = us[i][k]
      OBVIOUS
    <3>1. CASE i = n + 1
      <4>1. us[i] = s /\ g[i - 1] = off[n]
        BY <2>1, <2>7, <3>1
      <4> QED
        BY <2>4, <2>5, <4>1
    <3>2. CASE i # n + 1
      <4>1. i \in 1 .. n /\ i - 1 \in 0 .. n /\ i \in 0 .. n
        BY <2>1, <3>2
      <4>2. us[i] = ts[i] /\ g[i - 1] = off[i - 1]
        BY <2>1, <2>7, <4>1
      <4>3. off[i] = off[i - 1] + Len(ts[i]) /\ off[i] <= off[n] /\ t[off[i - 1] + k] = ts[i][k]
        BY <2>3, <4>1, <4>2 DEF BeginsAt, n, t
      <4>4. ts[i] \in Seq(E)
        BY <4>1 DEF n
      <4>5. off[i - 1] \in Nat /\ off[n] \in Nat /\ Len(ts[i]) \in Nat /\ k \in 1 .. Len(ts[i])
        <5>1. off[i - 1] \in Nat /\ off[n] \in Nat
          <6>1. n \in 0 .. n
            BY <2>1
          <6> QED
            BY <2>6, <4>1, <6>1
        <5>2. Len(ts[i]) \in Nat
          BY <4>4
        <5> QED
          BY <4>2, <5>1, <5>2
      <4>6. off[i - 1] + k \in 1 .. Len(t)
        <5>1. \A x, l, m \in Nat : \A y \in 1 .. l : x + l <= m => x + y \in 1 .. m
          OBVIOUS
        <5>2. off[i - 1] + Len(ts[i]) <= Len(t)
          BY <2>5, <4>3
        <5> QED
          BY <2>5, <4>5, <5>1, <5>2
      <4> QED
        BY <2>4, <4>2, <4>3, <4>6
    <3> QED
      BY <3>1, <3>2
  <2>11. BeginsAt(g, us)
    BY <2>1, <2>4, <2>5, <2>7, <2>8, <2>9, <2>10 DEF BeginsAt, u
  <2> QED
    BY <2>1, <2>11 DEF us
<1> HIDE DEF P
<1>3. \A ts \in Seq(S) : ts \in P
  BY <1>1, <1>2, SequenceInduction
<1> QED
  BY <1>3 DEF P

-----------------------------------------------------------------------------
(* Sorting *)

\* Numbers can be put into the order of any strict total order, here a set of pairs.
LEMMA SortingExists ==
  ASSUME NEW n \in Nat, NEW B,
         \A i, j \in 1 .. n : i # j => <<i, j>> \in B \/ <<j, i>> \in B,
         \A i, j, k \in 1 .. n : <<i, j>> \in B /\ <<j, k>> \in B => <<i, k>> \in B
  PROVE  \E p \in [1 .. n -> 1 .. n] : /\ \A i \in 1 .. n : \E j \in 1 .. n : p[j] = i
                                       /\ \A i, j \in 1 .. n : i < j => <<p[i], p[j]>> \in B
<1> DEFINE Sorts(p, k) == /\ p \in [1 .. k -> 1 .. k]
                          /\ \A i \in 1 .. k : \E j \in 1 .. k : p[j] = i
                          /\ \A i, j \in 1 .. k : i < j => <<p[i], p[j]>> \in B
           S == {k \in 0 .. n : \E p : Sorts(p, k)}
<1>1. 0 \in S
  <2>1. 1 .. 0 = {} /\ 0 \in 0 .. n
    OBVIOUS
  <2>2. Sorts([i \in 1 .. 0 |-> i], 0)
    BY <2>1
  <2> QED
    BY <2>1, <2>2
<1>2. ASSUME NEW k \in 0 .. n, k # n, k \in S PROVE k + 1 \in S
  <2>1. PICK p : Sorts(p, k)
    BY <1>2
  <2> DEFINE e == k + 1
             J == {j \in 1 .. k : <<p[j], e>> \in B}
             m == Max(J \cup {0})
             q == [i \in 1 .. e |-> IF i <= m THEN p[i] ELSE IF i = m + 1 THEN e ELSE p[i - 1]]
  <2>2. e \in 1 .. n /\ k \in Nat /\ e = k + 1 /\ 1 .. k \subseteq 1 .. n /\ e \notin 1 .. k
    BY <1>2
  <2>3. m \in J \cup {0} /\ m \in 0 .. k /\ \A j \in J : j <= m
    <3> HIDE DEF m
    <3>1. J \in SUBSET (1 .. k)
      OBVIOUS
    <3> HIDE DEF J
    <3> QED
      BY <2>2, <3>1, MaxOrZero DEF m
  <2> HIDE DEF m, e
  <2>4. \A j \in 1 .. k : p[j] \in 1 .. k /\ p[j] \in 1 .. n /\ p[j] # e
    BY <2>1, <2>2
  <2>5. ASSUME NEW j \in 1 .. k, j <= m PROVE <<p[j], e>> \in B
    <3>1. m \in 1 .. k /\ <<p[m], e>> \in B
      BY <2>3, <2>5
    <3>2. CASE j = m
      BY <3>1, <3>2
    <3>3. CASE j < m
      <4>1. <<p[j], p[m]>> \in B
        BY <2>1, <3>1, <3>3
      <4> QED
        BY <2>2, <2>4, <3>1, <4>1
    <3> QED
      BY <2>3, <2>5, <3>2, <3>3
  <2>6. ASSUME NEW j \in 1 .. k, m < j PROVE <<e, p[j]>> \in B
    <3>1. j \notin J
      BY <2>2, <2>3, <2>6
    <3>2. <<p[j], e>> \notin B
      BY <3>1
    <3> QED
      BY <2>2, <2>4, <3>2
  <2>7. \A i \in 1 .. e : /\ i <= m => i \in 1 .. k /\ q[i] = p[i]
                          /\ i = m + 1 => q[i] = e
                          /\ ~(i <= m) /\ i # m + 1 => i - 1 \in 1 .. k /\ m < i - 1 /\ q[i] = p[i - 1]
    BY <2>2, <2>3
  <2>8. q \in [1 .. e -> 1 .. e]
    <3>1. \A i \in 1 .. e : q[i] \in 1 .. e
      BY <2>2, <2>4, <2>7
    <3> QED
      BY <3>1
  <2>9. ASSUME NEW i \in 1 .. e PROVE \E j \in 1 .. e : q[j] = i
    <3>1. CASE i = e
      <4>1. m + 1 \in 1 .. e
        BY <2>2, <2>3
      <4> QED
        BY <2>7, <3>1, <4>1
    <3>2. CASE i # e
      <4>1. PICK j \in 1 .. k : p[j] = i
        BY <2>1, <2>2, <3>2
      <4>2. CASE j <= m
        <5>1. j \in 1 .. e /\ q[j] = p[j]
          BY <2>2, <2>7, <4>2
        <5> QED
          BY <4>1, <5>1
      <4>3. CASE ~(j <= m)
        <5>1. j + 1 \in 1 .. e /\ ~(j + 1 <= m) /\ j + 1 # m + 1 /\ (j + 1) - 1 = j
          BY <2>2, <2>3, <4>3
        <5>2. q[j + 1] = p[j]
          BY <2>7, <5>1
        <5> QED
          BY <4>1, <5>1, <5>2
      <4> QED
        BY <4>2, <4>3
    <3> QED
      BY <3>1, <3>2
  <2> HIDE DEF q, J
  <2>10. ASSUME NEW i \in 1 .. e, NEW j \in 1 .. e, i < j PROVE <<q[i], q[j]>> \in B
    <3>1. CASE j <= m
      <4>1. i <= m /\ i \in 1 .. k /\ j \in 1 .. k
        BY <2>2, <2>3, <2>10, <3>1
      <4>2. q[i] = p[i] /\ q[j] = p[j]
        BY <2>7, <3>1, <4>1
      <4> QED
        BY <2>1, <2>10, <4>1, <4>2
    <3>2. CASE j = m + 1
      <4>1. i <= m
        BY <2>2, <2>3, <2>10, <3>2
      <4>2. q[i] = p[i] /\ q[j] = e /\ i \in 1 .. k
        BY <2>7, <3>2, <4>1
      <4> QED
        BY <2>5, <4>1, <4>2
    <3>3. CASE ~(j <= m) /\ j # m + 1
      <4>1. q[j] = p[j - 1] /\ j - 1 \in 1 .. k /\ m < j - 1
        BY <2>7, <3>3
      <4>2. CASE i <= m
        <5>1. q[i] = p[i] /\ i \in 1 .. k /\ i < j - 1
          BY <2>2, <2>3, <2>7, <4>1, <4>2
        <5> QED
          BY <2>1, <4>1, <5>1
      <4>3. CASE i = m + 1
        <5>1. q[i] = e
          BY <2>7, <4>3
        <5> QED
          BY <2>6, <4>1, <5>1
      <4>4. CASE ~(i <= m) /\ i # m + 1
        <5>1. q[i] = p[i - 1] /\ i - 1 \in 1 .. k /\ i - 1 < j - 1
          BY <2>2, <2>7, <2>10, <4>4
        <5> QED
          BY <2>1, <4>1, <5>1
      <4> QED
        BY <4>2, <4>3, <4>4
    <3> QED
      BY <3>1, <3>2, <3>3
  <2>11. e \in 0 .. n
    BY <2>2
  <2>12. \A i \in 1 .. e : \E j \in 1 .. e : q[j] = i
    BY <2>9
  <2>13. \A i, j \in 1 .. e : i < j => <<q[i], q[j]>> \in B
    BY <2>10
  <2>14. Sorts(q, e)
    BY <2>8, <2>12, <2>13
  <2> HIDE DEF Sorts
  <2> QED
    BY <2>11, <2>14 DEF e
<1> HIDE DEF S
<1>3. n \in S
  <2>1. \A i \in 0 .. n : i \in S
    BY <1>1, <1>2, BoundedInduction
  <2> QED
    BY <2>1
<1> QED
  BY <1>3 DEF S
=============================================================================
