--------------------------- MODULE FileToolsProofs ---------------------------
(***************************************************************************)
(* Proofs about FileTools, for any texts, limits and edits.                *)
(***************************************************************************)
EXTENDS FileTools, NatLemmas

Char == DOMAIN Width
Text == Seq(Char)

-----------------------------------------------------------------------------
(* Texts and lines *)

\* ByteLength adds up the characters one by one.
LEMMA ByteLengthRun ==
  ASSUME NEW t \in Text
  PROVE  \E g : /\ g[0] = 0
                /\ \A i \in 1 .. Len(t) : g[i] = g[i - 1] + Width[t[i]]
                /\ ByteLength(t) = g[Len(t)]
<1> DEFINE n == Len(t)
           Step(v, i) == v + Width[t[i]]
           Fold(f) == [s \in SUBSET (1 .. n) |-> IF s = {} THEN 0 ELSE Step(f[s \ {Max(s)}], Max(s))]
           step == [p \in (Nat) \X (1 .. n) |-> Step(p[1], p[2])]
           iter == CHOOSE f : f = Fold(f)
<1>1. n \in Nat /\ DOMAIN t = 1 .. n /\ 0 \in Nat
  BY DEF Text
<1>2. step \in [(Nat) \X (1 .. n) -> Nat]
  <2>1. \A v \in Nat, i \in 1 .. n : Step(v, i) \in Nat
    BY WidthAssumption DEF Text, Char
  <2> HIDE DEF Step, n
  <2> QED
    BY <2>1
<1>3. \A v \in Nat, i \in 1 .. n : step[<<v, i>>] = Step(v, i)
  OBVIOUS
<1>4. iter = Fold(iter)
  <2> HIDE DEF step, n, Step
  <2>1. PICK f : IsFold(f, n, Nat, 0, step)
    BY <1>1, <1>2, FoldExists
  <2>2. ASSUME NEW s \in SUBSET (1 .. n), s # {} PROVE f[s] = Step(f[s \ {Max(s)}], Max(s))
    <3>1. f[s \ {Max(s)}] \in Nat
      BY <2>1 DEF IsFold
    <3> QED
      BY <1>3, <2>1, <2>2, <3>1 DEF IsFold
  <2>3. f = Fold(f)
    BY <2>1, <2>2 DEF IsFold
  <2> QED
    BY <2>3
<1>5. ByteLength(t) = iter[1 .. n]
  BY <1>1 DEF ByteLength, FoldLeft, MapThenFoldSet
<1> HIDE DEF iter, Step, n
<1>6. ASSUME NEW i \in 1 .. n PROVE iter[1 .. i] = Step(iter[1 .. (i - 1)], i)
  <2>1. Max(1 .. i) = i /\ (1 .. i) \ {i} = 1 .. (i - 1) /\ 1 .. i # {}
    <3>1. i \in Nat /\ i # 0
      BY <1>1
    <3> QED
      BY <3>1, MaxOfInterval
  <2>2. 1 .. i \in SUBSET (1 .. n)
    BY <1>1
  <2>3. iter[1 .. i] = Fold(iter)[1 .. i]
    BY <1>4
  <2> QED
    BY <2>1, <2>2, <2>3
<1>7. iter[1 .. 0] = 0
  BY <1>4
<1> DEFINE g == [k \in 0 .. n |-> iter[1 .. k]]
<1>8. g[0] = 0 /\ g[n] = iter[1 .. n] /\ \A i \in 1 .. n : g[i] = Step(g[i - 1], i)
  BY <1>1, <1>6, <1>7
<1> HIDE DEF g
<1> QED
  BY <1>5, <1>8 DEF n, Step

\* Of nothing.
LEMMA ByteLengthNil ==
  ByteLength(<<>>) = 0
<1>1. <<>> \in Text /\ Len(<<>>) = 0
  BY DEF Text
<1> QED
  BY <1>1, ByteLengthRun, ZenonT(30)

\* One more character.
LEMMA ByteLengthAppend ==
  ASSUME NEW t \in Text, NEW c \in Char
  PROVE  ByteLength(Append(t, c)) = ByteLength(t) + Width[c]
<1> DEFINE n == Len(t)
           u == Append(t, c)
<1>1. n \in Nat /\ u \in Text /\ Len(u) = n + 1 /\ u[n + 1] = c /\ \A i \in 1 .. n : u[i] = t[i]
  BY DEF Text
<1>2. PICK g : /\ g[0] = 0
               /\ \A i \in 1 .. Len(u) : g[i] = g[i - 1] + Width[u[i]]
               /\ ByteLength(u) = g[Len(u)]
  BY <1>1, ByteLengthRun
<1>3. PICK h : /\ h[0] = 0
               /\ \A i \in 1 .. n : h[i] = h[i - 1] + Width[t[i]]
               /\ ByteLength(t) = h[n]
  BY ByteLengthRun
<1> HIDE DEF n, u
<1>4. ASSUME NEW i \in 1 .. n, g[i - 1] = h[i - 1] PROVE g[i] = h[i]
  <2>1. i \in 1 .. Len(u)
    BY <1>1
  <2>2. g[i] = g[i - 1] + Width[u[i]]
    BY <1>2, <2>1
  <2>3. h[i] = h[i - 1] + Width[t[i]]
    BY <1>3
  <2>4. u[i] = t[i]
    BY <1>1
  <2> QED
    BY <1>4, <2>2, <2>3, <2>4
<1>5. g[n] = h[n]
  <2>1. g[0] = h[0] /\ n \in Nat
    BY <1>1, <1>2, <1>3
  <2>2. \A i \in 0 .. n : g[i] = h[i]
    BY <2>1, <1>4, RunsAgree, ZenonT(30)
  <2> QED
    BY <1>1, <2>2
<1>6. n + 1 \in 1 .. Len(u) /\ (n + 1) - 1 = n
  BY <1>1
<1>7. g[n + 1] = g[n] + Width[c]
  BY <1>1, <1>2, <1>6
<1> QED
  BY <1>1, <1>2, <1>3, <1>5, <1>7 DEF u

\* A line more, or a longer one.
LEMMA SplitStep ==
  ASSUME NEW ls \in Seq(Text) \ {<<>>}, NEW c \in Char
  PROVE  /\ Append(ls, <<>>) \in Seq(Text) \ {<<>>}
         /\ [ls EXCEPT ![Len(ls)] = Append(ls[Len(ls)], c)] \in Seq(Text) \ {<<>>}
<1>1. Len(ls) \in 1 .. Len(ls) /\ <<>> \in Text /\ ls \in Seq(Text)
  BY DEF Text
<1>2. ls[Len(ls)] \in Text
  BY <1>1
<1>3. Append(ls[Len(ls)], c) \in Text
  BY <1>2 DEF Text
<1>4. Append(ls, <<>>) \in Seq(Text) /\ Len(Append(ls, <<>>)) # 0
  BY <1>1
<1> DEFINE ms == [ls EXCEPT ![Len(ls)] = Append(ls[Len(ls)], c)]
<1>5. ms \in Seq(Text) /\ Len(ms) = Len(ls) /\ Len(ls) # 0
  BY <1>1, <1>3
<1>6. \A s \in Seq(Text) : Len(s) # 0 => s # <<>>
  OBVIOUS
<1> HIDE DEF ms
<1> QED
  BY <1>4, <1>5, <1>6 DEF ms

\* Split goes through the characters: LF opens a line, any other goes to the last.
LEMMA SplitRun ==
  ASSUME NEW t \in Text
  PROVE  \E g : /\ g[0] = << <<>> >>
                /\ \A i \in 1 .. Len(t) : g[i] = IF t[i] = LF THEN Append(g[i - 1], <<>>) ELSE [g[i - 1] EXCEPT ![Len(g[i - 1])] = Append(g[i - 1][Len(g[i - 1])], t[i])]
                /\ Split(t) = g[Len(t)]
<1> DEFINE n == Len(t)
           Step(v, i) == IF t[i] = LF THEN Append(v, <<>>) ELSE [v EXCEPT ![Len(v)] = Append(v[Len(v)], t[i])]
           Fold(f) == [s \in SUBSET (1 .. n) |-> IF s = {} THEN << <<>> >> ELSE Step(f[s \ {Max(s)}], Max(s))]
           step == [p \in ((Seq(Text) \ {<<>>})) \X (1 .. n) |-> Step(p[1], p[2])]
           iter == CHOOSE f : f = Fold(f)
<1>1. n \in Nat /\ DOMAIN t = 1 .. n /\ << <<>> >> \in (Seq(Text) \ {<<>>})
  BY DEF Text
<1>2. step \in [((Seq(Text) \ {<<>>})) \X (1 .. n) -> (Seq(Text) \ {<<>>})]
  <2>1. \A v \in (Seq(Text) \ {<<>>}), i \in 1 .. n : Step(v, i) \in (Seq(Text) \ {<<>>})
    BY SplitStep DEF Text
  <2> HIDE DEF Step, n
  <2> QED
    BY <2>1
<1>3. \A v \in (Seq(Text) \ {<<>>}), i \in 1 .. n : step[<<v, i>>] = Step(v, i)
  OBVIOUS
<1>4. iter = Fold(iter)
  <2> HIDE DEF step, n, Step
  <2>1. PICK f : IsFold(f, n, (Seq(Text) \ {<<>>}), << <<>> >>, step)
    BY <1>1, <1>2, FoldExists
  <2>2. ASSUME NEW s \in SUBSET (1 .. n), s # {} PROVE f[s] = Step(f[s \ {Max(s)}], Max(s))
    <3>1. f[s \ {Max(s)}] \in (Seq(Text) \ {<<>>})
      BY <2>1 DEF IsFold
    <3> QED
      BY <1>3, <2>1, <2>2, <3>1 DEF IsFold
  <2>3. f = Fold(f)
    BY <2>1, <2>2 DEF IsFold
  <2> QED
    BY <2>3
<1>5. Split(t) = iter[1 .. n]
  BY <1>1 DEF Split, FoldLeft, MapThenFoldSet
<1> HIDE DEF iter, Step, n
<1>6. ASSUME NEW i \in 1 .. n PROVE iter[1 .. i] = Step(iter[1 .. (i - 1)], i)
  <2>1. Max(1 .. i) = i /\ (1 .. i) \ {i} = 1 .. (i - 1) /\ 1 .. i # {}
    <3>1. i \in Nat /\ i # 0
      BY <1>1
    <3> QED
      BY <3>1, MaxOfInterval
  <2>2. 1 .. i \in SUBSET (1 .. n)
    BY <1>1
  <2>3. iter[1 .. i] = Fold(iter)[1 .. i]
    BY <1>4
  <2> QED
    BY <2>1, <2>2, <2>3
<1>7. iter[1 .. 0] = << <<>> >>
  BY <1>4
<1> DEFINE g == [k \in 0 .. n |-> iter[1 .. k]]
<1>8. g[0] = << <<>> >> /\ g[n] = iter[1 .. n] /\ \A i \in 1 .. n : g[i] = Step(g[i - 1], i)
  BY <1>1, <1>6, <1>7
<1> HIDE DEF g
<1> QED
  BY <1>5, <1>8 DEF n, Step

\* Of nothing.
LEMMA SplitNil ==
  Split(<<>>) = << <<>> >>
<1>1. <<>> \in Text /\ Len(<<>>) = 0
  BY DEF Text
<1> QED
  BY <1>1, SplitRun, ZenonT(30)

\* One more character.
LEMMA SplitAppend ==
  ASSUME NEW t \in Text, NEW c \in Char
  PROVE  Split(Append(t, c)) = IF c = LF THEN Append(Split(t), <<>>) ELSE [Split(t) EXCEPT ![Len(Split(t))] = Append(Split(t)[Len(Split(t))], c)]
<1> DEFINE n == Len(t)
           u == Append(t, c)
<1>1. n \in Nat /\ u \in Text /\ Len(u) = n + 1 /\ u[n + 1] = c /\ \A i \in 1 .. n : u[i] = t[i]
  BY DEF Text
<1>2. PICK g : /\ g[0] = << <<>> >>
               /\ \A i \in 1 .. Len(u) : g[i] = IF u[i] = LF THEN Append(g[i - 1], <<>>) ELSE [g[i - 1] EXCEPT ![Len(g[i - 1])] = Append(g[i - 1][Len(g[i - 1])], u[i])]
               /\ Split(u) = g[Len(u)]
  BY <1>1, SplitRun
<1>3. PICK h : /\ h[0] = << <<>> >>
               /\ \A i \in 1 .. n : h[i] = IF t[i] = LF THEN Append(h[i - 1], <<>>) ELSE [h[i - 1] EXCEPT ![Len(h[i - 1])] = Append(h[i - 1][Len(h[i - 1])], t[i])]
               /\ Split(t) = h[n]
  BY SplitRun
<1> HIDE DEF n, u
<1>4. ASSUME NEW i \in 1 .. n, g[i - 1] = h[i - 1] PROVE g[i] = h[i]
  <2>1. i \in 1 .. Len(u)
    BY <1>1
  <2>2. g[i] = IF u[i] = LF THEN Append(g[i - 1], <<>>) ELSE [g[i - 1] EXCEPT ![Len(g[i - 1])] = Append(g[i - 1][Len(g[i - 1])], u[i])]
    BY <1>2, <2>1
  <2>3. h[i] = IF t[i] = LF THEN Append(h[i - 1], <<>>) ELSE [h[i - 1] EXCEPT ![Len(h[i - 1])] = Append(h[i - 1][Len(h[i - 1])], t[i])]
    BY <1>3
  <2>4. u[i] = t[i]
    BY <1>1
  <2> QED
    BY <1>4, <2>2, <2>3, <2>4
<1>5. g[n] = h[n]
  <2>1. g[0] = h[0] /\ n \in Nat
    BY <1>1, <1>2, <1>3
  <2>2. \A i \in 0 .. n : g[i] = h[i]
    BY <2>1, <1>4, RunsAgree, ZenonT(30)
  <2> QED
    BY <1>1, <2>2
<1>6. n + 1 \in 1 .. Len(u) /\ (n + 1) - 1 = n
  BY <1>1
<1>7. g[n + 1] = IF c = LF THEN Append(g[n], <<>>) ELSE [g[n] EXCEPT ![Len(g[n])] = Append(g[n][Len(g[n])], c)]
  BY <1>1, <1>2, <1>6
<1> QED
  BY <1>1, <1>2, <1>3, <1>5, <1>7 DEF u

\* Joining more lines to a first one.
Joined(l, ms) == FoldLeft(LAMBDA t, line : t \o <<LF>> \o line, l, ms)

\* Texts can be put together, with a newline between them.
LEMMA Concat ==
  ASSUME NEW t \in Text, NEW u \in Text
  PROVE  t \o u \in Text /\ <<LF>> \in Text /\ t \o <<LF>> \o u \in Text
  BY WidthAssumption DEF Text, Char

\* Lines are joined one by one.
LEMMA JoinedRun ==
  ASSUME NEW l \in Text, NEW ms \in Seq(Text)
  PROVE  \E g : /\ g[0] = l
                /\ \A i \in 1 .. Len(ms) : g[i] = g[i - 1] \o <<LF>> \o ms[i]
                /\ Joined(l, ms) = g[Len(ms)]
<1> DEFINE n == Len(ms)
           Step(v, i) == v \o <<LF>> \o ms[i]
           Fold(f) == [s \in SUBSET (1 .. n) |-> IF s = {} THEN l ELSE Step(f[s \ {Max(s)}], Max(s))]
           step == [p \in (Text) \X (1 .. n) |-> Step(p[1], p[2])]
           iter == CHOOSE f : f = Fold(f)
<1>1. n \in Nat /\ DOMAIN ms = 1 .. n /\ l \in Text
  BY DEF Text
<1>2. step \in [(Text) \X (1 .. n) -> Text]
  <2>1. \A v \in Text, i \in 1 .. n : Step(v, i) \in Text
    BY Concat
  <2> HIDE DEF Step, n
  <2> QED
    BY <2>1
<1>3. \A v \in Text, i \in 1 .. n : step[<<v, i>>] = Step(v, i)
  OBVIOUS
<1>4. iter = Fold(iter)
  <2> HIDE DEF step, n, Step
  <2>1. PICK f : IsFold(f, n, Text, l, step)
    BY <1>1, <1>2, FoldExists
  <2>2. ASSUME NEW s \in SUBSET (1 .. n), s # {} PROVE f[s] = Step(f[s \ {Max(s)}], Max(s))
    <3>1. f[s \ {Max(s)}] \in Text
      BY <2>1 DEF IsFold
    <3> QED
      BY <1>3, <2>1, <2>2, <3>1 DEF IsFold
  <2>3. f = Fold(f)
    BY <2>1, <2>2 DEF IsFold
  <2> QED
    BY <2>3
<1>5. Joined(l, ms) = iter[1 .. n]
  BY <1>1 DEF Joined, FoldLeft, MapThenFoldSet
<1> HIDE DEF iter, Step, n
<1>6. ASSUME NEW i \in 1 .. n PROVE iter[1 .. i] = Step(iter[1 .. (i - 1)], i)
  <2>1. Max(1 .. i) = i /\ (1 .. i) \ {i} = 1 .. (i - 1) /\ 1 .. i # {}
    <3>1. i \in Nat /\ i # 0
      BY <1>1
    <3> QED
      BY <3>1, MaxOfInterval
  <2>2. 1 .. i \in SUBSET (1 .. n)
    BY <1>1
  <2>3. iter[1 .. i] = Fold(iter)[1 .. i]
    BY <1>4
  <2> QED
    BY <2>1, <2>2, <2>3
<1>7. iter[1 .. 0] = l
  BY <1>4
<1> DEFINE g == [k \in 0 .. n |-> iter[1 .. k]]
<1>8. g[0] = l /\ g[n] = iter[1 .. n] /\ \A i \in 1 .. n : g[i] = Step(g[i - 1], i)
  BY <1>1, <1>6, <1>7
<1> HIDE DEF g
<1> QED
  BY <1>5, <1>8 DEF n, Step

\* Of nothing.
LEMMA JoinedNil ==
  ASSUME NEW l \in Text  PROVE  Joined(l, <<>>) = l
<1>1. <<>> \in Seq(Text) /\ Len(<<>>) = 0
  BY DEF Text
<1> QED
  BY <1>1, JoinedRun, ZenonT(30)

\* One more line.
LEMMA JoinedAppend ==
  ASSUME NEW l \in Text, NEW ms \in Seq(Text), NEW m \in Text
  PROVE  Joined(l, Append(ms, m)) = Joined(l, ms) \o <<LF>> \o m
<1> DEFINE n == Len(ms)
           u == Append(ms, m)
<1>1. n \in Nat /\ u \in Seq(Text) /\ Len(u) = n + 1 /\ u[n + 1] = m /\ \A i \in 1 .. n : u[i] = ms[i]
  BY DEF Text
<1>2. PICK g : /\ g[0] = l
               /\ \A i \in 1 .. Len(u) : g[i] = g[i - 1] \o <<LF>> \o u[i]
               /\ Joined(l, u) = g[Len(u)]
  BY <1>1, JoinedRun
<1>3. PICK h : /\ h[0] = l
               /\ \A i \in 1 .. n : h[i] = h[i - 1] \o <<LF>> \o ms[i]
               /\ Joined(l, ms) = h[n]
  BY JoinedRun
<1> HIDE DEF n, u
<1>4. ASSUME NEW i \in 1 .. n, g[i - 1] = h[i - 1] PROVE g[i] = h[i]
  <2>1. i \in 1 .. Len(u)
    BY <1>1
  <2>2. g[i] = g[i - 1] \o <<LF>> \o u[i]
    BY <1>2, <2>1
  <2>3. h[i] = h[i - 1] \o <<LF>> \o ms[i]
    BY <1>3
  <2>4. u[i] = ms[i]
    BY <1>1
  <2> QED
    BY <1>4, <2>2, <2>3, <2>4
<1>5. g[n] = h[n]
  <2>1. g[0] = h[0] /\ n \in Nat
    BY <1>1, <1>2, <1>3
  <2>2. \A i \in 0 .. n : g[i] = h[i]
    BY <2>1, <1>4, RunsAgree, ZenonT(30)
  <2> QED
    BY <1>1, <2>2
<1>6. n + 1 \in 1 .. Len(u) /\ (n + 1) - 1 = n
  BY <1>1
<1>7. g[n + 1] = g[n] \o <<LF>> \o m
  BY <1>1, <1>2, <1>6
<1> QED
  BY <1>1, <1>2, <1>3, <1>5, <1>7 DEF u

\* What Join makes of a line, and of one line more.
LEMMA JoinOne ==
  ASSUME NEW l \in Text PROVE Join(<<l>>) = l
<1>1. Head(<<l>>) = l /\ Tail(<<l>>) = <<>>
  OBVIOUS
<1> QED
  BY <1>1, JoinedNil DEF Join, Joined

LEMMA JoinAppend ==
  ASSUME NEW ls \in Seq(Text), ls # <<>>, NEW l \in Text
  PROVE  Join(Append(ls, l)) = Join(ls) \o <<LF>> \o l
<1>1. /\ Head(Append(ls, l)) = Head(ls) /\ Tail(Append(ls, l)) = Append(Tail(ls), l)
      /\ Head(ls) \in Text /\ Tail(ls) \in Seq(Text)
  OBVIOUS
<1>2. Joined(Head(ls), Append(Tail(ls), l)) = Joined(Head(ls), Tail(ls)) \o <<LF>> \o l
  BY <1>1, JoinedAppend
<1> QED
  BY <1>1, <1>2 DEF Join, Joined

\* Induction over lists of lines that hold one at least.
LEMMA LinesInduction ==
  ASSUME NEW E, NEW P, \A l \in E : <<l>> \in P,
         \A ls \in Seq(E), l \in E : ls # <<>> /\ ls \in P => Append(ls, l) \in P
  PROVE  \A ls \in Seq(E) : ls # <<>> => ls \in P
<1> DEFINE Q == P \cup {<<>>}
<1>1. ASSUME NEW ls \in Seq(E), NEW l \in E, ls \in Q PROVE Append(ls, l) \in Q
  <2>1. CASE ls = <<>>
    <3>1. Append(ls, l) = <<l>>
      BY <2>1
    <3> QED
      BY <3>1
  <2>2. CASE ls # <<>>
    BY <1>1, <2>2
  <2> QED
    BY <2>1, <2>2
<1>2. <<>> \in Q
  OBVIOUS
<1>3. \A ls \in Seq(E) : ls \in Q
  <2> HIDE DEF Q
  <2> QED
    BY <1>1, <1>2, SequenceInduction
<1> QED
  BY <1>3

LEMMA JoinType ==
  ASSUME NEW ls \in Seq(Text), ls # <<>> PROVE Join(ls) \in Text
<1> DEFINE P == {ms \in Seq(Text) : Join(ms) \in Text}
<1>1. ASSUME NEW l \in Text PROVE <<l>> \in P
  <2>1. <<l>> \in Seq(Text) /\ Join(<<l>>) \in Text
    BY JoinOne
  <2> QED
    BY <2>1
<1>2. ASSUME NEW ms \in Seq(Text), NEW l \in Text, ms # <<>>, ms \in P PROVE Append(ms, l) \in P
  <2>1. Join(ms) \o <<LF>> \o l \in Text /\ Append(ms, l) \in Seq(Text)
    BY <1>2, Concat
  <2>2. Join(Append(ms, l)) \in Text
    BY <1>2, <2>1, JoinAppend
  <2> QED
    BY <2>1, <2>2
<1>3. \A ms \in Seq(Text) : ms # <<>> => ms \in P
  <2> HIDE DEF P
  <2> QED
    BY <1>1, <1>2, LinesInduction
<1> QED
  BY <1>3

\* A text without LF.
Line == {l \in Text : \A i \in 1 .. Len(l) : l[i] # LF}

LEMMA LineAppend ==
  ASSUME NEW l \in Text, NEW c \in Char
  PROVE  Append(l, c) \in Line <=> l \in Line /\ c # LF
<1>1. /\ Append(l, c) \in Text /\ Len(Append(l, c)) = Len(l) + 1 /\ Append(l, c)[Len(l) + 1] = c
      /\ \A i \in 1 .. Len(l) : Append(l, c)[i] = l[i]
  BY DEF Text
<1>2. 1 .. Len(l) + 1 = (1 .. Len(l)) \cup {Len(l) + 1} /\ Len(l) \in Nat
  BY DEF Text
<1>3. (\A i \in 1 .. Len(l) + 1 : Append(l, c)[i] # LF) <=> (\A i \in 1 .. Len(l) : l[i] # LF) /\ c # LF
  <2> DEFINE u == Append(l, c)
             k == Len(l) + 1
  <2>1. u[k] = c /\ \A i \in 1 .. Len(l) : u[i] = l[i]
    BY <1>1
  <2> HIDE DEF u
  <2> QED
    BY <1>2, <2>1
<1> QED
  BY <1>1, <1>3 DEF Line

LEMMA EmptyLine == <<>> \in Line
  BY DEF Line, Text

\* The lines of a text: one at least, and none has an LF.
LEMMA SplitLines ==
  ASSUME NEW t \in Text PROVE Split(t) \in Seq(Line) /\ Split(t) # <<>>
<1> DEFINE P == {u \in Text : Split(u) \in Seq(Line) /\ Split(u) # <<>>}
<1>1. <<>> \in P
  <2>1. <<>> \in Text
    BY DEF Text
  <2>2. << <<>> >> \in Seq(Line) /\ << <<>> >> # <<>>
    BY EmptyLine
  <2>3. Split(<<>>) \in Seq(Line) /\ Split(<<>>) # <<>>
    BY <2>2, SplitNil
  <2> QED
    BY <2>1, <2>3
<1>2. ASSUME NEW u \in Seq(Char), NEW c \in Char, u \in P PROVE Append(u, c) \in P
  <2> DEFINE ls == Split(u)
  <2>1. /\ ls \in Seq(Line) /\ Len(ls) \in 1 .. Len(ls) /\ u \in Text /\ Append(u, c) \in Text
        /\ ls[Len(ls)] \in Line /\ ls # <<>>
    <3>1. ls \in Seq(Line) /\ ls # <<>>
      BY <1>2
    <3> HIDE DEF ls
    <3> QED
      BY <3>1 DEF Text
  <2> HIDE DEF ls
  <2>2. CASE c = LF
    <3>1. Split(Append(u, c)) = Append(ls, <<>>)
      BY <2>1, <2>2, SplitAppend DEF ls
    <3> QED
      BY <2>1, <3>1, EmptyLine
  <2>3. CASE c # LF
    <3> DEFINE l == Append(ls[Len(ls)], c)
               ms == [ls EXCEPT ![Len(ls)] = l]
    <3>1. Split(Append(u, c)) = ms
      BY <2>1, <2>3, SplitAppend DEF ls
    <3>2. ls[Len(ls)] \in Text
      BY <2>1 DEF Line
    <3>3. l \in Line
      BY <2>1, <2>3, <3>2, LineAppend
    <3> HIDE DEF l
    <3>4. ms \in Seq(Line) /\ Len(ms) = Len(ls)
      BY <2>1, <3>3
    <3>5. ms # <<>>
      BY <2>1, <3>4
    <3> QED
      BY <2>1, <3>1, <3>4, <3>5
  <2> QED
    BY <2>2, <2>3
<1>3. \A u \in Seq(Char) : u \in P
  <2> HIDE DEF P
  <2> QED
    BY <1>1, <1>2, SequenceInduction
<1> QED
  BY <1>3 DEF Text
\* A line's characters go to the last line.
LEMMA SplitLine ==
  ASSUME NEW t \in Text, NEW l \in Line
  PROVE  Split(t \o l) = [Split(t) EXCEPT ![Len(Split(t))] = Split(t)[Len(Split(t))] \o l]
<1> DEFINE ls == Split(t)
           k == Len(ls)
           P == {u \in Text : u \in Line => Split(t \o u) = [ls EXCEPT ![k] = ls[k] \o u]}
<1>1. ls \in Seq(Text) /\ ls # <<>> /\ k \in 1 .. Len(ls) /\ ls[k] \in Text /\ t \in Seq(Char)
  <2>1. ls \in Seq(Line) /\ ls # <<>>
    BY SplitLines
  <2>2. ls \in Seq(Text)
    BY <2>1 DEF Line
  <2> HIDE DEF ls
  <2> QED
    BY <2>1, <2>2 DEF Text
<1> HIDE DEF ls
<1>2. <<>> \in P
  <2>1. t \o <<>> = t /\ ls[k] \o <<>> = ls[k] /\ <<>> \in Text
    BY <1>1 DEF Text
  <2>2. [ls EXCEPT ![k] = ls[k]] = ls
    BY <1>1
  <2> QED
    BY <2>1, <2>2 DEF ls
<1>3. ASSUME NEW u \in Seq(Char), NEW c \in Char, u \in P PROVE Append(u, c) \in P
  <2>0. Append(u, c) \in Text
    BY DEF Text
  <2> SUFFICES ASSUME Append(u, c) \in Line
               PROVE  Split(t \o Append(u, c)) = [ls EXCEPT ![k] = ls[k] \o Append(u, c)]
    BY <2>0
  <2>1. u \in Text /\ u \in Line /\ c # LF
    BY LineAppend DEF Text
  <2>2. t \o Append(u, c) = Append(t \o u, c) /\ t \o u \in Text
        /\ ls[k] \o Append(u, c) = Append(ls[k] \o u, c)
    <3>1. t \in Seq(Char) /\ u \in Seq(Char) /\ ls[k] \in Seq(Char)
      BY <1>1, <2>1 DEF Text
    <3>2. t \o Append(u, c) = Append(t \o u, c)
      BY <3>1, ConcatAppend
    <3>3. ls[k] \o Append(u, c) = Append(ls[k] \o u, c)
      <4> DEFINE w == ls[k]
      <4> HIDE DEF w
      <4>1. w \in Seq(Char)
        BY <3>1 DEF w
      <4>2. w \o Append(u, c) = Append(w \o u, c)
        BY <3>1, <4>1, ConcatAppend
      <4> QED
        BY <4>2 DEF w
    <3> QED
      BY <3>1, <3>2, <3>3 DEF Text
  <2> DEFINE ms == [ls EXCEPT ![k] = ls[k] \o u]
  <2>3. Split(t \o u) = ms
    BY <1>3, <2>1
  <2>4. Len(ms) = k /\ ms[k] = ls[k] \o u
    BY <1>1, <2>1
  <2>5. Split(Append(t \o u, c)) = [ms EXCEPT ![k] = Append(ms[k], c)]
    <3> DEFINE v == t \o u
    <3>1. Split(Append(v, c)) = [Split(v) EXCEPT ![Len(Split(v))] = Append(Split(v)[Len(Split(v))], c)]
      BY <2>1, <2>2, SplitAppend
    <3>2. Split(v) = ms /\ Len(ms) = k
      BY <2>3, <2>4
    <3> HIDE DEF v, ms
    <3> QED
      BY <3>1, <3>2 DEF v
  <2>6. [ms EXCEPT ![k] = Append(ms[k], c)] = [ls EXCEPT ![k] = Append(ls[k] \o u, c)]
    BY <1>1, <2>4
  <2> QED
    BY <2>2, <2>5, <2>6
<1>4. \A u \in Seq(Char) : u \in P
  <2> HIDE DEF P
  <2> QED
    BY <1>2, <1>3, SequenceInduction
<1> QED
  BY <1>4 DEF Line, Text, ls

LEMMA SplitOne ==
  ASSUME NEW l \in Line PROVE Split(l) = <<l>>
<1>1. <<>> \in Text /\ l \in Text /\ <<>> \o l = l
  BY DEF Line, Text
<1>2. [<< <<>> >> EXCEPT ![1] = l] = <<l>>
  OBVIOUS
<1> DEFINE e == << <<>> >>
<1>3. Split(<<>> \o l) = [e EXCEPT ![1] = <<>> \o l]
  <2>1. Len(e) = 1 /\ e[1] = <<>> /\ Split(<<>>) = e
    BY SplitNil
  <2> HIDE DEF e
  <2>2. Split(<<>> \o l) = [Split(<<>>) EXCEPT ![Len(Split(<<>>))] = Split(<<>>)[Len(Split(<<>>))] \o l]
    BY <1>1, SplitLine
  <2> QED
    BY <2>1, <2>2
<1> QED
  BY <1>1, <1>2, <1>3

\* Split undoes Join.
LEMMA SplitJoin ==
  ASSUME NEW ls \in Seq(Line), ls # <<>> PROVE Split(Join(ls)) = ls
<1> DEFINE P == {ms \in Seq(Line) : Split(Join(ms)) = ms}
<1>0. \A l \in Line : l \in Text
  BY DEF Line
<1>1. ASSUME NEW l \in Line PROVE <<l>> \in P
  <2>1. <<l>> \in Seq(Line) /\ Join(<<l>>) = l /\ Split(l) = <<l>>
    BY <1>0, JoinOne, SplitOne
  <2> QED
    BY <2>1
<1>2. ASSUME NEW ms \in Seq(Line), NEW l \in Line, ms # <<>>, ms \in P PROVE Append(ms, l) \in P
  <2> DEFINE t == Join(ms)
  <2>1. ms \in Seq(Text) /\ l \in Text /\ Split(t) = ms
    BY <1>0, <1>2
  <2>2. t \in Text
    BY <1>2, <2>1, JoinType
  <2> HIDE DEF t
  <2>3. Append(t, LF) \in Text /\ t \o <<LF>> \o l = Append(t, LF) \o l /\ LF \in Char
    <3>1. LF \in Char
      BY WidthAssumption DEF Char
    <3> HIDE DEF Char
    <3>2. Append(t, LF) \in Text
      BY <2>2, <3>1 DEF Text
    <3>3. t \o <<LF>> = Append(t, LF)
      BY <2>2, <3>1 DEF Text
    <3> QED
      BY <3>1, <3>2, <3>3
  <2>4. Split(Append(t, LF)) = Append(ms, <<>>)
    BY <2>1, <2>2, <2>3, SplitAppend
  <2> DEFINE ns == Append(ms, <<>>)
             k == Len(ms) + 1
  <2>5. /\ Len(ns) = k /\ ns[k] = <<>> /\ <<>> \o l = l /\ ns \in Seq(Text)
        /\ \A i \in 1 .. k : i # k => ns[i] = ms[i]
    <3>1. ms \in Seq(Text) /\ <<>> \in Text
      BY <2>1 DEF Text
    <3> QED
      BY <2>1, <3>1 DEF Text
  <2>6. Split(Append(t, LF) \o l) = [ns EXCEPT ![k] = l]
    <3> DEFINE v == Append(t, LF)
    <3>1. Split(v \o l) = [Split(v) EXCEPT ![Len(Split(v))] = Split(v)[Len(Split(v))] \o l]
      BY <2>3, SplitLine
    <3>2. Split(v) = ns
      BY <2>4
    <3> HIDE DEF v, ns, k
    <3> QED
      BY <2>5, <3>1, <3>2 DEF v
  <2>7. [ns EXCEPT ![k] = l] = Append(ms, l)
    <3> DEFINE a == [ns EXCEPT ![k] = l]
               b == Append(ms, l)
    <3>1. b \in Seq(Text) /\ Len(b) = k /\ b[k] = l /\ \A i \in 1 .. k : i # k => b[i] = ms[i]
      BY <2>1
    <3> HIDE DEF ns
    <3>2. a \in Seq(Text) /\ Len(a) = k /\ a[k] = l /\ \A i \in 1 .. k : i # k => a[i] = ms[i]
      BY <2>1, <2>5
    <3> HIDE DEF k, a, b
    <3>3. \A i \in 1 .. k : a[i] = b[i]
      BY <3>1, <3>2
    <3>4. a = b
      BY <3>1, <3>2, <3>3, SameSequence
    <3> QED
      BY <3>4 DEF a, b
  <2>8. Join(Append(ms, l)) = t \o <<LF>> \o l
    BY <1>2, <2>1, JoinAppend DEF t
  <2>9. Append(ms, l) \in Seq(Line)
    OBVIOUS
  <2> QED
    BY <2>3, <2>6, <2>7, <2>8, <2>9
<1>3. \A ms \in Seq(Line) : ms # <<>> => ms \in P
  <2> HIDE DEF P
  <2> QED
    BY <1>1, <1>2, LinesInduction
<1> QED
  BY <1>3

\* The bytes of two texts together.
LEMMA ByteLengthType ==
  ASSUME NEW t \in Text PROVE ByteLength(t) \in Nat
<1> DEFINE P == {u \in Text : ByteLength(u) \in Nat}
<1>1. <<>> \in P
  BY ByteLengthNil DEF Text
<1>2. ASSUME NEW u \in Seq(Char), NEW c \in Char, u \in P PROVE Append(u, c) \in P
  <2>1. u \in Text /\ Append(u, c) \in Text /\ Width[c] \in Nat /\ ByteLength(u) \in Nat
    BY <1>2, WidthAssumption DEF Text, Char
  <2>2. ByteLength(Append(u, c)) \in Nat
    BY <2>1, ByteLengthAppend
  <2> QED
    BY <2>1, <2>2
<1>3. \A u \in Seq(Char) : u \in P
  <2> HIDE DEF P
  <2> QED
    BY <1>1, <1>2, SequenceInduction
<1> QED
  BY <1>3 DEF Text

LEMMA ByteLengthConcat ==
  ASSUME NEW t \in Text, NEW u \in Text
  PROVE  ByteLength(t \o u) = ByteLength(t) + ByteLength(u)
<1> DEFINE P == {v \in Text : ByteLength(t \o v) = ByteLength(t) + ByteLength(v)}
<1>1. <<>> \in P
  <2>1. t \o <<>> = t /\ <<>> \in Text
    BY DEF Text
  <2> QED
    BY <2>1, ByteLengthNil, ByteLengthType
<1>2. ASSUME NEW v \in Seq(Char), NEW c \in Char, v \in P PROVE Append(v, c) \in P
  <2>1. v \in Text /\ Append(v, c) \in Text /\ Width[c] \in Nat /\ t \o v \in Text
        /\ t \o Append(v, c) = Append(t \o v, c)
    BY WidthAssumption, ConcatAppend DEF Text, Char
  <2>2. ByteLength(Append(t \o v, c)) = ByteLength(t \o v) + Width[c]
        /\ ByteLength(Append(v, c)) = ByteLength(v) + Width[c]
    BY <2>1, ByteLengthAppend
  <2>3. ByteLength(t) \in Nat /\ ByteLength(v) \in Nat
    BY <2>1, ByteLengthType
  <2>4. ByteLength(t \o v) = ByteLength(t) + ByteLength(v)
    BY <1>2
  <2>5. ByteLength(t \o Append(v, c)) = ByteLength(t) + ByteLength(Append(v, c))
    BY <2>1, <2>2, <2>3, <2>4
  <2> QED
    BY <2>1, <2>5
<1>3. \A v \in Seq(Char) : v \in P
  <2> HIDE DEF P
  <2> QED
    BY <1>1, <1>2, SequenceInduction
<1> QED
  BY <1>3 DEF Text

LEMMA NewlineBytes == ByteLength(<<LF>>) = 1
<1>1. <<LF>> = Append(<<>>, LF) /\ <<>> \in Text /\ LF \in Char
  BY WidthAssumption DEF Text, Char
<1>2. ByteLength(Append(<<>>, LF)) = ByteLength(<<>>) + Width[LF]
  BY <1>1, ByteLengthAppend
<1>3. Width[LF] = 1 /\ ByteLength(<<>>) = 0
  BY ByteLengthNil, WidthAssumption
<1> QED
  BY <1>1, <1>2, <1>3

LEMMA JoinBytes ==
  ASSUME NEW ls \in Seq(Text), ls # <<>>, NEW l \in Text
  PROVE  /\ ByteLength(Join(ls)) \in Nat /\ ByteLength(l) \in Nat
         /\ ByteLength(Join(Append(ls, l))) = ByteLength(Join(ls)) + 1 + ByteLength(l)
<1>1. Join(ls) \in Text /\ <<LF>> \in Text /\ Join(ls) \o <<LF>> \in Text
  BY JoinType, Concat
<1>2. ByteLength(Join(ls) \o <<LF>> \o l) = ByteLength(Join(ls)) + 1 + ByteLength(l)
  BY <1>1, ByteLengthConcat, NewlineBytes
<1> QED
  BY <1>1, <1>2, JoinAppend, ByteLengthType

\* Of lines joined the lines and the bytes count.
LEMMA JoinFits ==
  ASSUME NEW ls \in Seq(Line), ls # <<>>
  PROVE  Fits(Join(ls)) <=> Len(ls) <= MaxLines /\ ByteLength(Join(ls)) <= MaxBytes
  BY SplitJoin DEF Fits

-----------------------------------------------------------------------------
(* What truncateHead takes *)

Takings == [out : Seq(Text), bytes : Nat, over : BOOLEAN]

LEMMA TakeType ==
  ASSUME NEW v \in Takings, NEW l \in Text PROVE Take(v, l) \in Takings
<1>1. ByteLength(l) \in Nat /\ Append(v.out, l) \in Seq(Text) /\ v.bytes \in Nat
  BY ByteLengthType DEF Takings
<1> DEFINE b == ByteLength(l) + IF v.out = <<>> THEN 0 ELSE 1
<1>2. v.bytes + b \in Nat
  BY <1>1
<1>3. [v EXCEPT !.over = TRUE] \in Takings
  BY DEF Takings
<1>4. [v EXCEPT !.out = Append(v.out, l), !.bytes = v.bytes + b] \in Takings
  BY <1>1, <1>2 DEF Takings
<1> QED
  BY <1>3, <1>4 DEF Take

\* What the loop takes of lines.
Taken(ls) == FoldLeft(Take, NothingTaken, ls)

\* The lines are taken one by one.
LEMMA TakenRun ==
  ASSUME NEW ls \in Seq(Text)
  PROVE  \E g : /\ g[0] = NothingTaken
                /\ \A i \in 1 .. Len(ls) : g[i] = Take(g[i - 1], ls[i])
                /\ Taken(ls) = g[Len(ls)]
<1> DEFINE n == Len(ls)
           Step(v, i) == Take(v, ls[i])
           Fold(f) == [s \in SUBSET (1 .. n) |-> IF s = {} THEN NothingTaken ELSE Step(f[s \ {Max(s)}], Max(s))]
           step == [p \in (Takings) \X (1 .. n) |-> Step(p[1], p[2])]
           iter == CHOOSE f : f = Fold(f)
<1>1. n \in Nat /\ DOMAIN ls = 1 .. n /\ NothingTaken \in Takings
  BY DEF Takings, NothingTaken
<1>2. step \in [(Takings) \X (1 .. n) -> Takings]
  <2>1. \A v \in Takings, i \in 1 .. n : Step(v, i) \in Takings
    BY TakeType
  <2> HIDE DEF Step, n
  <2> QED
    BY <2>1
<1>3. \A v \in Takings, i \in 1 .. n : step[<<v, i>>] = Step(v, i)
  OBVIOUS
<1>4. iter = Fold(iter)
  <2> HIDE DEF step, n, Step
  <2>1. PICK f : IsFold(f, n, Takings, NothingTaken, step)
    BY <1>1, <1>2, FoldExists
  <2>2. ASSUME NEW s \in SUBSET (1 .. n), s # {} PROVE f[s] = Step(f[s \ {Max(s)}], Max(s))
    <3>1. f[s \ {Max(s)}] \in Takings
      BY <2>1 DEF IsFold
    <3> QED
      BY <1>3, <2>1, <2>2, <3>1 DEF IsFold
  <2>3. f = Fold(f)
    BY <2>1, <2>2 DEF IsFold
  <2> QED
    BY <2>3
<1>5. Taken(ls) = iter[1 .. n]
  BY <1>1 DEF Taken, FoldLeft, MapThenFoldSet
<1> HIDE DEF iter, Step, n
<1>6. ASSUME NEW i \in 1 .. n PROVE iter[1 .. i] = Step(iter[1 .. (i - 1)], i)
  <2>1. Max(1 .. i) = i /\ (1 .. i) \ {i} = 1 .. (i - 1) /\ 1 .. i # {}
    <3>1. i \in Nat /\ i # 0
      BY <1>1
    <3> QED
      BY <3>1, MaxOfInterval
  <2>2. 1 .. i \in SUBSET (1 .. n)
    BY <1>1
  <2>3. iter[1 .. i] = Fold(iter)[1 .. i]
    BY <1>4
  <2> QED
    BY <2>1, <2>2, <2>3
<1>7. iter[1 .. 0] = NothingTaken
  BY <1>4
<1> DEFINE g == [k \in 0 .. n |-> iter[1 .. k]]
<1>8. g[0] = NothingTaken /\ g[n] = iter[1 .. n] /\ \A i \in 1 .. n : g[i] = Step(g[i - 1], i)
  BY <1>1, <1>6, <1>7
<1> HIDE DEF g
<1> QED
  BY <1>5, <1>8 DEF n, Step

\* Of nothing.
LEMMA TakenNil ==
  Taken(<<>>) = NothingTaken
<1>1. <<>> \in Seq(Text) /\ Len(<<>>) = 0
  BY DEF Takings, NothingTaken
<1> QED
  BY <1>1, TakenRun, ZenonT(30)

\* One more line.
LEMMA TakenAppend ==
  ASSUME NEW ls \in Seq(Text), NEW l \in Text
  PROVE  Taken(Append(ls, l)) = Take(Taken(ls), l)
<1> DEFINE n == Len(ls)
           u == Append(ls, l)
<1>1. n \in Nat /\ u \in Seq(Text) /\ Len(u) = n + 1 /\ u[n + 1] = l /\ \A i \in 1 .. n : u[i] = ls[i]
  BY DEF Takings, NothingTaken
<1>2. PICK g : /\ g[0] = NothingTaken
               /\ \A i \in 1 .. Len(u) : g[i] = Take(g[i - 1], u[i])
               /\ Taken(u) = g[Len(u)]
  BY <1>1, TakenRun
<1>3. PICK h : /\ h[0] = NothingTaken
               /\ \A i \in 1 .. n : h[i] = Take(h[i - 1], ls[i])
               /\ Taken(ls) = h[n]
  BY TakenRun
<1> HIDE DEF n, u
<1>4. ASSUME NEW i \in 1 .. n, g[i - 1] = h[i - 1] PROVE g[i] = h[i]
  <2>1. i \in 1 .. Len(u)
    BY <1>1
  <2>2. g[i] = Take(g[i - 1], u[i])
    BY <1>2, <2>1
  <2>3. h[i] = Take(h[i - 1], ls[i])
    BY <1>3
  <2>4. u[i] = ls[i]
    BY <1>1
  <2> QED
    BY <1>4, <2>2, <2>3, <2>4
<1>5. g[n] = h[n]
  <2>1. g[0] = h[0] /\ n \in Nat
    BY <1>1, <1>2, <1>3
  <2>2. \A i \in 0 .. n : g[i] = h[i]
    BY <2>1, <1>4, RunsAgree, ZenonT(30)
  <2> QED
    BY <1>1, <2>2
<1>6. n + 1 \in 1 .. Len(u) /\ (n + 1) - 1 = n
  BY <1>1
<1>7. g[n + 1] = Take(g[n], l)
  BY <1>1, <1>2, <1>6
<1> QED
  BY <1>1, <1>2, <1>3, <1>5, <1>7 DEF u

\* The bytes that the lines taken so far make.
Bytes(ls) == IF ls = <<>> THEN 0 ELSE ByteLength(Join(ls))

\* One more line costs a newline, but for the first.
LEMMA BytesAppend ==
  ASSUME NEW ls \in Seq(Text), NEW l \in Text
  PROVE  /\ Bytes(ls) \in Nat
         /\ Bytes(Append(ls, l)) = Bytes(ls) + (ByteLength(l) + IF ls = <<>> THEN 0 ELSE 1)
<1>1. ByteLength(l) \in Nat /\ Append(ls, l) # <<>>
  BY ByteLengthType
<1>2. CASE ls = <<>>
  <2>1. Append(ls, l) = <<l>>
    BY <1>2
  <2> QED
    BY <1>1, <1>2, <2>1, JoinOne DEF Bytes
<1>3. CASE ls # <<>>
  BY <1>1, <1>3, JoinBytes DEF Bytes
<1> QED
  BY <1>2, <1>3

\* The lines taken are the first ones, as many as the limits let through.
Takes(ls, v) ==
  LET m == Len(v.out)
  IN  /\ v \in Takings /\ m <= Len(ls) /\ m <= MaxLines
      /\ v.out = SubSeq(ls, 1, m)
      /\ v.bytes = Bytes(v.out) /\ v.bytes <= MaxBytes
      /\ v.over => /\ m < Len(ls) /\ m < MaxLines
                   /\ Bytes(SubSeq(ls, 1, m + 1)) > MaxBytes
      /\ ~v.over => m = Len(ls) \/ m = MaxLines

LEMMA TakenLines ==
  ASSUME NEW ls \in Seq(Text) PROVE Takes(ls, Taken(ls))
<1> DEFINE P == {ms \in Seq(Text) : Takes(ms, Taken(ms))}
<1>1. <<>> \in P
  <2>1. Taken(<<>>) = NothingTaken
    BY TakenNil
  <2>2. NothingTaken \in Takings /\ NothingTaken.out = <<>> /\ NothingTaken.bytes = 0 /\ ~NothingTaken.over
    BY DEF Takings, NothingTaken
  <2>3. SubSeq(<<>>, 1, 0) = <<>> /\ Len(<<>>) = 0 /\ Bytes(<<>>) = 0 /\ <<>> \in Seq(Text)
    BY DEF Bytes
  <2>4. 0 <= MaxLines /\ 0 <= MaxBytes
    BY LimitsAssumption
  <2> DEFINE v == NothingTaken
             none == <<>>
  <2>5. /\ v \in Takings /\ v.out = none /\ v.bytes = 0 /\ ~v.over
        /\ SubSeq(none, 1, 0) = none /\ Len(none) = 0 /\ Bytes(none) = 0
    BY <2>2, <2>3
  <2> HIDE DEF v, none
  <2>6. Takes(none, v)
    BY <2>4, <2>5 DEF Takes
  <2> QED
    BY <2>1, <2>3, <2>6 DEF v, none
<1>2. ASSUME NEW ms \in Seq(Text), NEW l \in Text, ms \in P PROVE Append(ms, l) \in P
  <2> DEFINE ns == Append(ms, l)
             v == Taken(ms)
             m == Len(v.out)
  <2>1. ns \in Seq(Text) /\ Len(ns) = Len(ms) + 1 /\ ns[Len(ms) + 1] = l /\ Len(ms) \in Nat
    OBVIOUS
  <2>2. Taken(ns) = Take(v, l)
    BY TakenAppend
  <2>3. Takes(ms, v)
    BY <1>2
  <2> HIDE DEF v
  <2>4. v \in Takings /\ m <= Len(ms) /\ m \in Nat /\ v.out \in Seq(Text) /\ v.bytes \in Nat
        /\ ByteLength(l) \in Nat
    BY <2>3, ByteLengthType DEF Takes, Takings
  <2> HIDE DEF m
  <2>5. \A k \in 0 .. Len(ms) : SubSeq(ns, 1, k) = SubSeq(ms, 1, k)
    OBVIOUS
  <2> HIDE DEF ns
  <2>6. Takes(ms, v) /\ v.out = SubSeq(ns, 1, m)
    BY <2>3, <2>4, <2>5 DEF Takes, m
  <2>9. m \in Nat /\ MaxLines \in Nat
    BY <2>4, LimitsAssumption
  <2>7. CASE v.over \/ m >= MaxLines
    <3>1. Take(v, l) = v
      BY <2>7 DEF Take, m
    <3>2. v.over => Bytes(SubSeq(ns, 1, m + 1)) > MaxBytes /\ m < Len(ms) /\ m < MaxLines
      <4> SUFFICES ASSUME v.over PROVE Bytes(SubSeq(ns, 1, m + 1)) > MaxBytes /\ m < Len(ms) /\ m < MaxLines
        OBVIOUS
      <4>1. m < Len(ms) /\ Bytes(SubSeq(ms, 1, m + 1)) > MaxBytes /\ m < MaxLines
        BY <2>3 DEF Takes, m
      <4> QED
        <5>1. m + 1 \in 0 .. Len(ms)
          BY <2>1, <2>4, <4>1
        <5>2. SubSeq(ns, 1, m + 1) = SubSeq(ms, 1, m + 1)
          BY <2>5, <5>1
        <5> QED
          BY <4>1, <5>2
    <3>3. ~v.over => m = MaxLines
      BY <2>3, <2>4, <2>7, LimitsAssumption DEF Takes, m
    <3>4. Takes(ns, v)
      BY <2>1, <2>3, <2>4, <2>6, <3>2, <3>3 DEF Takes, m
    <3> QED
      BY <2>1, <2>2, <3>1, <3>4 DEF ns
  <2>8. CASE ~v.over /\ m < MaxLines
    <3>1. m = Len(ms) /\ v.out = ms
      <4>1. m = Len(ms)
        BY <2>3, <2>4, <2>8, LimitsAssumption DEF Takes, m
      <4> QED
        BY <4>1, <2>3 DEF Takes, m
    <3> DEFINE b == ByteLength(l) + IF v.out = <<>> THEN 0 ELSE 1
    <3>2. Bytes(ns) = v.bytes + b /\ b \in Nat
      BY <2>3, <2>4, <3>1, BytesAppend DEF Takes, ns
    <3>3. SubSeq(ns, 1, m + 1) = ns
      BY <2>1, <3>1
    <3>4. Take(v, l) = IF v.bytes + b > MaxBytes THEN [v EXCEPT !.over = TRUE]
                       ELSE [v EXCEPT !.out = Append(v.out, l), !.bytes = v.bytes + b]
      BY <2>4, <2>8, LimitsAssumption DEF Take, m
    <3>5. CASE v.bytes + b > MaxBytes
      <4> DEFINE w == [v EXCEPT !.over = TRUE]
      <4>1. w \in Takings /\ w.out = v.out /\ w.bytes = v.bytes /\ w.over
        BY <2>4 DEF Takings
      <4>2. Take(v, l) = w
        BY <3>4, <3>5
      <4> HIDE DEF w, b
      <4>4. Len(w.out) = m /\ w.bytes = Bytes(w.out) /\ w.bytes <= MaxBytes /\ w.out = SubSeq(ns, 1, m)
        BY <2>3, <2>6, <4>1 DEF Takes, m
      <4>6. Bytes(SubSeq(ns, 1, m + 1)) > MaxBytes
        BY <3>2, <3>3, <3>5
      <4>7. m < Len(ns) /\ m <= MaxLines /\ m <= Len(ns)
        BY <2>1, <2>8, <2>9, <3>1
      <4>5. Bytes(SubSeq(ns, 1, m + 1)) > MaxBytes /\ m < Len(ns) /\ m <= MaxLines /\ m <= Len(ns)
        BY <4>6, <4>7
      <4>3. Takes(ns, w)
        BY <2>8, <4>1, <4>4, <4>5 DEF Takes
      <4> QED
        BY <2>1, <2>2, <4>2, <4>3 DEF ns
    <3>6. CASE ~(v.bytes + b > MaxBytes)
      <4> DEFINE w == [v EXCEPT !.out = Append(v.out, l), !.bytes = v.bytes + b]
      <4>0. v.bytes + b \in Nat
        BY <2>4
      <4>1. w.out = Append(v.out, l) /\ w.bytes = v.bytes + b /\ w.over = v.over
        BY <2>4 DEF Takings
      <4>2. Take(v, l) = w
        BY <3>4, <3>6
      <4>3. w \in Takings
        BY <2>4, <4>2, TakeType
      <4> HIDE DEF w, b
      <4>4. w.out = ns /\ w.bytes = Bytes(ns) /\ ~w.over
        BY <2>8, <3>1, <3>2, <4>1 DEF ns
      <4>5. Len(ns) <= MaxLines /\ Bytes(ns) <= MaxBytes
        BY <2>1, <2>4, <2>8, <3>1, <3>2, <3>6, <4>0, LimitsAssumption
      <4>6. SubSeq(ns, 1, Len(ns)) = ns /\ Len(ns) \in Nat
        BY <2>1, <3>1, <3>3
      <4>7. Takes(ns, w)
        BY <4>3, <4>4, <4>5, <4>6 DEF Takes
      <4> QED
        BY <2>1, <2>2, <4>2, <4>7 DEF ns
    <3> QED
      BY <3>5, <3>6
  <2> QED
    BY <2>7, <2>8, <2>9
<1>3. \A ms \in Seq(Text) : ms \in P
  <2> HIDE DEF P
  <2> QED
    BY <1>1, <1>2, SequenceInduction
<1> QED
  BY <1>3

\* The lines that fit are those taken: of a longer start of the lines the bytes or the lines are too many.
LEMMA BytesGrow ==
  ASSUME NEW ls \in Seq(Text), NEW k \in 0 .. Len(ls), NEW n \in 0 .. Len(ls), k <= n
  PROVE  Bytes(SubSeq(ls, 1, k)) <= Bytes(SubSeq(ls, 1, n)) /\ Bytes(SubSeq(ls, 1, n)) \in Nat
<1> DEFINE b(i) == Bytes(SubSeq(ls, 1, i))
           d == n - k
           S == {i \in Nat : k + i <= Len(ls) => b(k) <= b(k + i)}
<1>0. d \in Nat /\ k + d = n /\ Len(ls) \in Nat /\ k \in Nat
  OBVIOUS
<1>1. \A i \in 0 .. Len(ls) : b(i) \in Nat /\ SubSeq(ls, 1, i) \in Seq(Text)
  <2> SUFFICES ASSUME NEW i \in 0 .. Len(ls) PROVE b(i) \in Nat /\ SubSeq(ls, 1, i) \in Seq(Text)
    OBVIOUS
  <2>1. SubSeq(ls, 1, i) \in Seq(Text)
    OBVIOUS
  <2>2. SubSeq(ls, 1, i) # <<>> => ByteLength(Join(SubSeq(ls, 1, i))) \in Nat
    BY <2>1, JoinType, ByteLengthType
  <2> QED
    BY <2>1, <2>2 DEF Bytes
<1>2. \A i \in 0 .. Len(ls) : i # Len(ls) => b(i) <= b(i + 1)
  <2> SUFFICES ASSUME NEW i \in 0 .. Len(ls), i # Len(ls) PROVE b(i) <= b(i + 1)
    OBVIOUS
  <2>1. ls[i + 1] \in Text /\ SubSeq(ls, 1, i) \in Seq(Text)
        /\ SubSeq(ls, 1, i + 1) = Append(SubSeq(ls, 1, i), ls[i + 1])
    BY PrefixAppend
  <2>2. ByteLength(ls[i + 1]) \in Nat
    BY <2>1, ByteLengthType
  <2> DEFINE p == SubSeq(ls, 1, i)
             l == ls[i + 1]
  <2> HIDE DEF p, l
  <2>3. Bytes(p) \in Nat /\ Bytes(Append(p, l)) = Bytes(p) + (ByteLength(l) + IF p = <<>> THEN 0 ELSE 1)
    BY <2>1, BytesAppend DEF p, l
  <2>4. Bytes(p) <= Bytes(Append(p, l))
    BY <2>2, <2>3 DEF l
  <2> QED
    BY <2>1, <2>4 DEF p, l
<1> HIDE DEF b
<1>3. 0 \in S
  BY <1>0, <1>1
<1>4. ASSUME NEW i \in 0 .. d, i # d, i \in S PROVE i + 1 \in S
  <2>1. CASE k + (i + 1) <= Len(ls)
    <3>1. k + i \in 0 .. Len(ls) /\ k + i # Len(ls) /\ k + (i + 1) = (k + i) + 1 /\ k + i <= Len(ls)
          /\ (k + i) + 1 \in 0 .. Len(ls) /\ i + 1 \in Nat
      BY <1>0, <2>1
    <3>2. b(k) <= b(k + i) /\ b(k + i) <= b((k + i) + 1)
      BY <1>2, <1>4, <3>1
    <3>3. b(k) \in Nat /\ b(k + i) \in Nat /\ b((k + i) + 1) \in Nat
      BY <1>1, <3>1
    <3>4. b(k) <= b((k + i) + 1)
      BY <3>2, <3>3
    <3> QED
      BY <3>1, <3>4
  <2>2. CASE ~(k + (i + 1) <= Len(ls))
    BY <2>2
  <2> QED
    BY <2>1, <2>2
<1> HIDE DEF S
<1>5. \A i \in 0 .. d : i \in S
  BY <1>0, <1>3, <1>4, BoundedInduction
<1>6. d \in S
  BY <1>0, <1>5
<1>7. b(k) <= b(n)
  BY <1>0, <1>6 DEF S
<1> QED
  BY <1>1, <1>7 DEF b

\* The first line alone costs no newline.
LEMMA BytesOne ==
  ASSUME NEW ls \in Seq(Text), 1 \in 1 .. Len(ls)
  PROVE  Bytes(SubSeq(ls, 1, 1)) = ByteLength(ls[1])
<1> DEFINE p == SubSeq(ls, 1, 1)
           l == ls[1]
<1>1. Len(p) = 1 /\ p[1] = l /\ l \in Text /\ p \in Seq(Text)
  OBVIOUS
<1> HIDE DEF p, l
<1>2. p = <<l>> /\ p # <<>>
  <2>1. Len(<<l>>) = 1 /\ <<l>>[1] = l /\ <<l>> \in Seq(Text)
    BY <1>1
  <2>2. \A i \in 1 .. 1 : p[i] = <<l>>[i]
    BY <1>1
  <2>3. p = <<l>>
    BY <1>1, <2>1, <2>2, SameSequence
  <2> QED
    BY <2>1, <2>3
<1>3. Join(<<l>>) = l
  BY <1>1, JoinOne
<1> QED
  BY <1>2, <1>3 DEF Bytes, p, l

\* What the loop takes of the lines of a page is all that fits, one line at least if the first does.
LEMMA TakenFits ==
  ASSUME NEW ls \in Seq(Line), ls # <<>>
  PROVE  LET m == Len(Taken(ls).out)
             fitting == {n \in DOMAIN ls : Fits(Join(SubSeq(ls, 1, n)))}
         IN  /\ m \in 0 .. Len(ls) /\ Taken(ls).out = SubSeq(ls, 1, m)
             /\ m # 0 => m = Max(fitting)
             /\ ~Fits(Join(ls)) => m # Len(ls)
             /\ Fits(Join(ls)) => Len(ls) = Max(fitting)
             /\ ByteLength(ls[1]) <= MaxBytes => m # 0
<1> DEFINE v == Taken(ls)
           m == Len(v.out)
           fitting == {n \in DOMAIN ls : Fits(Join(SubSeq(ls, 1, n)))}
           b(n) == Bytes(SubSeq(ls, 1, n))
<1>1. ls \in Seq(Text) /\ Len(ls) \in Nat /\ Len(ls) # 0 /\ DOMAIN ls = 1 .. Len(ls)
  BY DEF Line
<1>2. Takes(ls, v)
  BY <1>1, TakenLines
<1>3. MaxLines \in Nat /\ MaxLines # 0 /\ MaxBytes \in Nat
  BY LimitsAssumption
<1>4. m \in Nat /\ m <= Len(ls) /\ m <= MaxLines /\ v.out = SubSeq(ls, 1, m)
  BY <1>2 DEF Takes, Takings
<1>5. \A n \in 1 .. Len(ls) : Fits(Join(SubSeq(ls, 1, n))) <=> n <= MaxLines /\ b(n) <= MaxBytes
  <2> SUFFICES ASSUME NEW n \in 1 .. Len(ls)
               PROVE  Fits(Join(SubSeq(ls, 1, n))) <=> n <= MaxLines /\ b(n) <= MaxBytes
    OBVIOUS
  <2> DEFINE p == SubSeq(ls, 1, n)
  <2>1. p \in Seq(Line) /\ Len(p) = n
    OBVIOUS
  <2>2. p # <<>>
    BY <2>1
  <2> HIDE DEF p
  <2>3. Fits(Join(p)) <=> n <= MaxLines /\ Bytes(p) <= MaxBytes
    BY <2>1, <2>2, JoinFits DEF Bytes
  <2> QED
    BY <2>3 DEF p
<1>6. \A k, n \in 0 .. Len(ls) : k <= n => b(k) <= b(n) /\ b(n) \in Nat
  BY <1>1, BytesGrow
<1>7. b(m) <= MaxBytes
  BY <1>2, <1>4 DEF Takes
<1>8. \A n \in 1 .. Len(ls) : n > m => ~Fits(Join(SubSeq(ls, 1, n)))
  <2> SUFFICES ASSUME NEW n \in 1 .. Len(ls), n > m, n <= MaxLines, b(n) <= MaxBytes PROVE FALSE
    BY <1>5
  <2>1. v.over
    BY <1>1, <1>2, <1>3, <1>4 DEF Takes
  <2>2. b(m + 1) > MaxBytes /\ m < Len(ls)
    BY <1>2, <2>1 DEF Takes
  <2>3. m + 1 \in 0 .. Len(ls) /\ n \in 0 .. Len(ls) /\ m + 1 <= n
    BY <1>1, <1>4, <2>2
  <2>4. b(m + 1) <= b(n) /\ b(n) \in Nat /\ b(m + 1) \in Nat
    BY <1>6, <2>3
  <2> HIDE DEF b
  <2> QED
    BY <1>3, <2>2, <2>4
<1>9. SubSeq(ls, 1, Len(ls)) = ls
  BY <1>1
<1>10. m # 0 => m \in 1 .. Len(ls) /\ Fits(Join(SubSeq(ls, 1, m)))
  BY <1>1, <1>4, <1>5, <1>7
<1>11. \A k \in fitting : (\A n \in fitting : n <= k) => Max(fitting) = k
  <2>1. fitting \subseteq 1 .. Len(ls)
    BY <1>1
  <2> SUFFICES ASSUME NEW k \in fitting, \A n \in fitting : n <= k PROVE Max(fitting) = k
    OBVIOUS
  <2> HIDE DEF fitting
  <2>2. fitting \in SUBSET (1 .. k) /\ k \in Nat
    BY <1>1, <2>1
  <2> QED
    BY <2>2, MaxIsBound
<1>12. m # 0 => m = Max(fitting)
  <2> SUFFICES ASSUME m # 0 PROVE m = Max(fitting)
    OBVIOUS
  <2>1. m \in fitting
    BY <1>1, <1>10
  <2>2. \A n \in fitting : n <= m
    BY <1>1, <1>4, <1>8
  <2> QED
    BY <1>11, <2>1, <2>2
<1>13. ~Fits(Join(ls)) => m # Len(ls)
  BY <1>1, <1>9, <1>10
<1>14. Fits(Join(ls)) => Len(ls) = Max(fitting)
  <2>1. \A n \in fitting : n <= Len(ls)
    BY <1>1
  <2>2. Fits(Join(ls)) => Len(ls) \in fitting
    <3>1. Len(ls) \in DOMAIN ls
      BY <1>1
    <3>2. Join(SubSeq(ls, 1, Len(ls))) = Join(ls)
      BY <1>9
    <3> QED
      BY <3>1, <3>2
  <2> QED
    BY <1>11, <2>1, <2>2
<1>15. ByteLength(ls[1]) <= MaxBytes => m # 0
  <2> SUFFICES ASSUME ByteLength(ls[1]) <= MaxBytes, m = 0 PROVE FALSE
    OBVIOUS
  <2>1. 1 \in 1 .. Len(ls)
    BY <1>1
  <2>2. b(1) = ByteLength(ls[1])
    BY <1>1, <2>1, BytesOne
  <2>3. 1 \in 1 .. Len(ls) /\ 1 > m /\ 1 <= MaxLines
    BY <1>1, <1>3
  <2> QED
    BY <1>5, <1>8, <2>2, <2>3
<1> QED
  BY <1>4, <1>12, <1>13, <1>14, <1>15
-----------------------------------------------------------------------------
(* Reading page by page *)

\* What is cut of lines that are not none: nothing, all if the first is too long, or the end.
LEMMA CutLines ==
  ASSUME NEW ls \in Seq(Line), ls # <<>>
  PROVE  LET cut == TruncateHead(Join(ls))
             n == Len(Taken(ls).out)
             fitting == {k \in DOMAIN ls : Fits(Join(SubSeq(ls, 1, k)))}
         IN  \/ /\ ~cut.firstTooLong /\ ~cut.truncated /\ Len(ls) = Max(fitting)
             \/ /\ cut.firstTooLong /\ cut.truncated /\ ByteLength(ls[1]) > MaxBytes
             \/ /\ ~cut.firstTooLong /\ cut.truncated /\ cut.lines = n
                /\ Split(cut.content) = SubSeq(ls, 1, n)
                /\ n \in 1 .. Len(ls) - 1 /\ n = Max(fitting)
<1> DEFINE t == Join(ls)
           cut == TruncateHead(t)
           n == Len(Taken(ls).out)
           fitting == {k \in DOMAIN ls : Fits(Join(SubSeq(ls, 1, k)))}
<1>1. Split(t) = ls
  BY SplitJoin
<1>2. FoldLeft(Take, NothingTaken, Split(t)) = Taken(ls)
  BY <1>1 DEF Taken
<1>3. /\ n \in 0 .. Len(ls) /\ Taken(ls).out = SubSeq(ls, 1, n)
      /\ n # 0 => n = Max(fitting)
      /\ ~Fits(t) => n # Len(ls)
      /\ Fits(t) => Len(ls) = Max(fitting)
      /\ ByteLength(ls[1]) <= MaxBytes => n # 0
  BY TakenFits
<1>4. ByteLength(ls[1]) \in Nat /\ MaxBytes \in Nat
  <2>1. ls[1] \in Text
    BY DEF Line
  <2> QED
    BY <2>1, ByteLengthType, LimitsAssumption
<1> HIDE DEF t, fitting
<1>5. CASE Fits(t)
  <2>1. cut = Whole(t)
    BY <1>5 DEF TruncateHead
  <2>2. ~cut.firstTooLong /\ ~cut.truncated
    BY <2>1 DEF Whole
  <2> QED
    BY <1>3, <1>5, <2>2 DEF t, fitting
<1>6. CASE ~Fits(t) /\ ByteLength(ls[1]) > MaxBytes
  <2>1. cut.firstTooLong /\ cut.truncated
    BY <1>1, <1>6 DEF TruncateHead
  <2> QED
    BY <1>6, <2>1 DEF t
<1>7. CASE ~Fits(t) /\ ~(ByteLength(ls[1]) > MaxBytes)
  <2>1. ByteLength(ls[1]) <= MaxBytes
    BY <1>4, <1>7
  <2>2. n # 0 /\ n # Len(ls) /\ n = Max(fitting) /\ n \in 1 .. Len(ls) - 1
    BY <1>3, <1>7, <2>1
  <2>3. cut.content = Join(Taken(ls).out) /\ cut.truncated /\ ~cut.firstTooLong /\ cut.lines = n
    BY <1>1, <1>2, <1>7 DEF TruncateHead
  <2> DEFINE p == SubSeq(ls, 1, n)
  <2>4. p \in Seq(Line) /\ Len(p) = n
    BY <2>2
  <2> HIDE DEF p
  <2>5. p # <<>>
    BY <2>2, <2>4
  <2>6. Split(cut.content) = p
    BY <1>3, <2>3, <2>4, <2>5, SplitJoin DEF p
  <2> QED
    BY <2>2, <2>3, <2>6 DEF t, p, fitting
<1> QED
  BY <1>5, <1>6, <1>7

\* The lines asked for: from the one after start, to the limit or to the end.
LEMMA SelectedLines ==
  ASSUME NEW ls \in Seq(Line), NEW start \in Nat, start < Len(ls), NEW limit \in Nat
  PROVE  LET asked == Selected(ls, start, limit)
         IN  /\ asked \in Seq(Line) /\ asked # <<>>
             /\ start + Len(asked) <= Len(ls)
             /\ limit = 0 => start + Len(asked) = Len(ls)
             /\ \A n \in 0 .. Len(asked) : SubSeq(asked, 1, n) = SubSeq(ls, start + 1, start + n)
<1> DEFINE last == IF limit = 0 THEN Len(ls) ELSE Min({start + limit, Len(ls)})
           asked == SubSeq(ls, start + 1, last)
           k == last - start
<1>1. last \in start + 1 .. Len(ls) /\ (limit = 0 => last = Len(ls))
  <2>1. Len(ls) \in Nat /\ start + limit \in Nat
    OBVIOUS
  <2>2. CASE limit = 0
    BY <2>1, <2>2
  <2>3. CASE limit # 0
    <3>1. Min({start + limit, Len(ls)}) = IF start + limit <= Len(ls) THEN start + limit ELSE Len(ls)
      BY <2>1, MinOfTwo
    <3> QED
      BY <2>1, <2>3, <3>1
  <2> QED
    BY <2>2, <2>3
<1> HIDE DEF last
<1>2. k \in Nat /\ k # 0 /\ start + k = last
  BY <1>1
<1>3. asked \in Seq(Line) /\ Len(asked) = k /\ \A i \in 1 .. k : asked[i] = ls[start + i]
  BY <1>1
<1> HIDE DEF asked, k
<1>4. asked # <<>>
  BY <1>2, <1>3
<1>5. ASSUME NEW n \in 0 .. k PROVE SubSeq(asked, 1, n) = SubSeq(ls, start + 1, start + n)
  <2> DEFINE a == SubSeq(asked, 1, n)
             b == SubSeq(ls, start + 1, start + n)
  <2>0. start + n <= Len(ls)
    BY <1>1, <1>2
  <2>1. a \in Seq(Line) /\ Len(a) = n /\ \A i \in 1 .. n : a[i] = asked[i]
    BY <1>2, <1>3
  <2>2. b \in Seq(Line) /\ Len(b) = n /\ \A i \in 1 .. n : b[i] = ls[start + i]
    BY <2>0, SMTT(30)
  <2>3. \A i \in 1 .. n : asked[i] = ls[start + i]
    BY <1>2, <1>3
  <2> HIDE DEF a, b
  <2>4. a = b
    BY <2>1, <2>2, <2>3, SameSequence
  <2> QED
    BY <2>4 DEF a, b
<1>6. Selected(ls, start, limit) = asked
  BY DEF Selected, asked, last
<1> QED
  BY <1>1, <1>2, <1>3, <1>4, <1>5, <1>6

\* How many of the lines fit on a page.
Fitting(lines) == {k \in DOMAIN lines : Fits(Join(SubSeq(lines, 1, k)))}

\* A page: the lines it shows follow the offset, and its status says truly how it ends.
PageTold(p, asked, ls, from) ==
  /\ p.lines \in Seq(Line) /\ p.next \in Nat
  /\ Len(p.lines) # 0 => /\ p.lines = SubSeq(ls, from + 1, from + Len(p.lines))
                         /\ from + Len(p.lines) <= Len(ls)
                         /\ Len(p.lines) = Max(Fitting(asked))
  /\ \/ /\ p.status = "more" /\ Len(p.lines) # 0
        /\ p.next = from + Len(p.lines) + 1 /\ from + Len(p.lines) < Len(ls)
     \/ /\ p.status = "end" /\ Len(p.lines) # 0
        /\ p.next = 0 /\ from + Len(p.lines) = Len(ls)
     \/ /\ p.status = "too long" /\ Len(p.lines) = 0
        /\ p.next = 0 /\ from < Len(ls) /\ ByteLength(ls[from + 1]) > MaxBytes
     \/ /\ p.status = "beyond" /\ Len(p.lines) = 0
        /\ p.next = 0 /\ from >= Len(ls)

LEMMA PageRight ==
  ASSUME text \in Text, NEW offset \in Nat, NEW limit \in Nat
  PROVE  LET lines == Split(text)
             start == Max({0, offset - 1})
         IN  /\ start = (IF offset = 0 THEN 0 ELSE offset - 1)
             /\ PageTold(Page(offset, limit), Selected(lines, start, limit), lines, start)
<1> DEFINE lines == Split(text)
           start == Max({0, offset - 1})
           asked == Selected(lines, start, limit)
           cut == TruncateHead(Join(asked))
           page == Page(offset, limit)
           k == Len(Taken(asked).out)
<1>1. lines \in Seq(Line) /\ Len(lines) \in Nat
  BY SplitLines
<1>2. start = (IF offset = 0 THEN 0 ELSE offset - 1) /\ start \in Nat
  <2>1. start = IF 0 <= offset - 1 THEN offset - 1 ELSE 0
    BY MaxOfTwo
  <2> QED
    BY <2>1
<1>3. page = IF start >= Len(lines) THEN [status |-> "beyond", lines |-> <<>>, next |-> 0]
             ELSE IF cut.firstTooLong THEN [status |-> "too long", lines |-> <<>>, next |-> 0]
             ELSE IF cut.truncated
             THEN [status |-> "more", lines |-> Split(cut.content), next |-> start + cut.lines + 1]
             ELSE IF limit # 0 /\ start + Len(asked) < Len(lines)
             THEN [status |-> "more", lines |-> asked, next |-> start + Len(asked) + 1]
             ELSE [status |-> "end", lines |-> asked, next |-> 0]
  BY DEF Page, NextOffset
<1>4. <<>> \in Seq(Line) /\ Len(<<>>) = 0
  OBVIOUS
<1> HIDE DEF lines, start, page
<1>5. CASE start >= Len(lines)
  <2>1. page.status = "beyond" /\ page.lines = <<>> /\ page.next = 0
    BY <1>3, <1>5
  <2> QED
    BY <1>2, <1>4, <1>5, <2>1 DEF PageTold, lines, start, page
<1>6. CASE ~(start >= Len(lines))
  <2>1. /\ asked \in Seq(Line) /\ asked # <<>> /\ Len(asked) \in Nat /\ Len(asked) # 0
        /\ start + Len(asked) <= Len(lines)
        /\ limit = 0 => start + Len(asked) = Len(lines)
        /\ \A n \in 0 .. Len(asked) : SubSeq(asked, 1, n) = SubSeq(lines, start + 1, start + n)
    <3>1. start < Len(lines)
      BY <1>1, <1>2, <1>6
    <3>2. asked \in Seq(Line) => Len(asked) \in Nat /\ (asked # <<>> => Len(asked) # 0)
      OBVIOUS
    <3> QED
      BY <1>1, <1>2, <3>1, <3>2, SelectedLines
  <2>2. \/ ~cut.firstTooLong /\ ~cut.truncated /\ Len(asked) = Max(Fitting(asked))
        \/ cut.firstTooLong /\ cut.truncated /\ ByteLength(asked[1]) > MaxBytes
        \/ /\ ~cut.firstTooLong /\ cut.truncated /\ cut.lines = k
           /\ Split(cut.content) = SubSeq(asked, 1, k)
           /\ k \in 1 .. Len(asked) - 1 /\ k = Max(Fitting(asked))
    BY <2>1, CutLines DEF Fitting
  <2>3. SubSeq(asked, 1, Len(asked)) = asked
    BY <2>1
  <2>4. start < Len(lines)
    BY <1>1, <1>2, <1>6
  <2> HIDE DEF asked, cut, k
  <2>5. CASE cut.firstTooLong
    <3>1. page.status = "too long" /\ page.lines = <<>> /\ page.next = 0
      BY <1>3, <1>6, <2>5
    <3>2. asked[1] = lines[start + 1]
      <4>1. 1 \in 0 .. Len(asked) /\ start + 1 \in 1 .. Len(lines)
        BY <1>1, <1>2, <2>1
      <4>2. SubSeq(asked, 1, 1) = SubSeq(lines, start + 1, start + 1)
        BY <2>1, <4>1
      <4>3. SubSeq(asked, 1, 1)[1] = asked[1]
        BY <2>1, <4>1
      <4>4. SubSeq(lines, start + 1, start + 1)[1] = lines[start + 1]
        BY <1>1, <1>2, <4>1
      <4> QED
        BY <4>2, <4>3, <4>4
    <3>3. ByteLength(lines[start + 1]) > MaxBytes
      BY <2>2, <2>5, <3>2
    <3>4. page.lines \in Seq(Line) /\ Len(page.lines) = 0 /\ page.next \in Nat
      <4>1. page.lines = <<>> /\ page.next = 0
        BY <3>1
      <4> HIDE DEF PageTold
      <4> QED
        BY <1>4, <4>1
    <3>5. PageTold(page, asked, lines, start)
      BY <2>4, <3>1, <3>3, <3>4 DEF PageTold
    <3> QED
      BY <1>2, <3>5 DEF lines, start, page, asked
  <2>6. CASE ~cut.firstTooLong /\ cut.truncated
    <3>1. page.status = "more" /\ page.lines = SubSeq(asked, 1, k) /\ page.next = start + k + 1
          /\ k \in 1 .. Len(asked) - 1 /\ k = Max(Fitting(asked))
      BY <1>3, <1>6, <2>2, <2>6
    <3>2. k \in Nat /\ k # 0 /\ k \in 0 .. Len(asked) /\ start + k < Len(lines) /\ start + k <= Len(lines)
          /\ start + k + 1 \in Nat
      BY <1>1, <1>2, <2>1, <3>1
    <3>3. page.lines \in Seq(Line) /\ Len(page.lines) = k
      <4>1. SubSeq(asked, 1, k) \in Seq(Line) /\ Len(SubSeq(asked, 1, k)) = k
        BY <2>1, <3>2
      <4> QED
        BY <3>1, <4>1
    <3>4. page.lines = SubSeq(lines, start + 1, start + k)
      BY <2>1, <3>1, <3>2
    <3> QED
      BY <1>2, <3>1, <3>2, <3>3, <3>4 DEF PageTold, lines, start, page, asked
  <2>7. CASE ~cut.firstTooLong /\ ~cut.truncated
    <3> DEFINE n == Len(asked)
    <3>1. n = Max(Fitting(asked)) /\ page.lines = asked /\ page.lines = SubSeq(lines, start + 1, start + n)
      <4>1. n \in 0 .. n
        BY <2>1
      <4> QED
        BY <1>3, <1>6, <2>1, <2>2, <2>3, <2>7, <4>1
    <3>2. \/ /\ page.status = "more" /\ page.next = start + n + 1 /\ start + n < Len(lines)
          \/ /\ page.status = "end" /\ page.next = 0 /\ start + n = Len(lines)
      <4>1. CASE limit # 0 /\ start + n < Len(lines)
        BY <1>3, <1>6, <2>7, <4>1
      <4>2. CASE ~(limit # 0 /\ start + n < Len(lines))
        <5>1. start + n = Len(lines)
          BY <1>1, <1>2, <2>1, <4>2
        <5> QED
          BY <1>3, <1>6, <2>7, <4>2, <5>1
      <4> QED
        BY <4>1, <4>2
    <3>3. start + n + 1 \in Nat /\ 0 \in Nat /\ n # 0 /\ start + n <= Len(lines)
      BY <1>2, <2>1
    <3> QED
      BY <1>2, <2>1, <3>1, <3>2, <3>3 DEF PageTold, lines, start, page, asked
  <2> QED
    BY <2>5, <2>6, <2>7
<1> QED
  BY <1>5, <1>6

\* Between two pages: what is seen are the lines from the first one asked for up to the next offset.
PagesInv ==
  LET lines == Split(text)
      reached == first + Len(seen)
  IN  /\ text \in Text /\ first \in Nat \ {0} /\ seen \in Seq(Line) /\ next \in Nat
      /\ call = None => seen = <<>> /\ next = 0
      /\ seen # <<>> => seen = SubSeq(lines, first, reached - 1) /\ reached <= Len(lines) + 1
      /\ next # 0 => next = reached /\ reached <= Len(lines)
      /\ PagesExact

Reading == tool = "read" => PagesInv

LEMMA ReadingInit == Init => Reading
<1> SUFFICES ASSUME Init, tool = "read" PROVE PagesInv
  BY DEF Reading
<1>1. text \in Text
  BY CallsAssumption DEF Init, Text, Char
<1>2. call = None /\ seen = <<>> /\ first = 1 /\ next = 0 /\ <<>> \in Seq(Line)
  BY DEF Init
<1>3. PagesExact
  BY <1>2 DEF PagesExact, Done
<1> QED
  BY <1>1, <1>2, <1>3 DEF PagesInv

\* A page that begins where the reading has come to takes it on.
LEMMA ReadingShow ==
  ASSUME tool = "read", PagesInv, NEW offset \in Nat, NEW limit \in Limits, Show(offset, limit),
         first' \in Nat \ {0}, seen # <<>> => first' = first /\ offset <= Len(Split(text)),
         Max({0, offset - 1}) = first' + Len(seen) - 1
  PROVE  PagesInv'
<1> DEFINE lines == Split(text)
           start == Max({0, offset - 1})
           page == Page(offset, limit)
           asked == Selected(lines, start, limit)
           n == Len(page.lines)
           reached == first' + Len(seen')
<1>1. limit \in Nat /\ text \in Text /\ seen \in Seq(Line) /\ Len(seen) \in Nat
  <2>1. limit \in Nat
    BY CallsAssumption
  <2> QED
    BY <2>1 DEF PagesInv
<1>2. PageTold(page, asked, lines, start)
  BY <1>1, PageRight
<1>0. start \in Nat
  BY <1>1, PageRight
<1>3. /\ call' = [error |-> "none", offset |-> offset, limit |-> limit, page |-> page]
      /\ seen' = seen \o page.lines
      /\ next' = page.next /\ text' = text /\ tool' = tool
  BY DEF Show
<1>4. lines \in Seq(Line) /\ Len(lines) \in Nat
  BY <1>1, SplitLines
<1> HIDE DEF lines, start, page, asked
<1>5. page.lines \in Seq(Line) /\ n \in Nat /\ page.next \in Nat
  <2>1. PageTold(page, asked, lines, start)
    BY <1>2
  <2>2. page.lines \in Seq(Line)
    BY <2>1 DEF PageTold
  <2>3. page.next \in Nat
    BY <2>1 DEF PageTold
  <2> QED
    BY <2>2, <2>3
<1>12. /\ n # 0 => page.lines = SubSeq(lines, start + 1, start + n) /\ start + n <= Len(lines)
       /\ page.status = "more" => page.next = start + n + 1 /\ start + n < Len(lines)
       /\ page.status = "end" => page.next = 0 /\ start + n = Len(lines)
       /\ page.status = "too long" => page.next = 0 /\ n = 0 /\ ByteLength(lines[start + 1]) > MaxBytes
       /\ page.status = "beyond" => page.next = 0 /\ n = 0 /\ start >= Len(lines)
       /\ page.status \in {"more", "end", "too long", "beyond"}
  BY <1>2 DEF PageTold
<1>6. seen' \in Seq(Line) /\ Len(seen') = Len(seen) + n /\ reached = start + n + 1 /\ start + 1 = first' + Len(seen)
  <2>1. Len(seen) + n \in Nat /\ first' \in Nat /\ start = first' + Len(seen) - 1
    BY <1>0, <1>1, <1>5 DEF start
  <2>2. seen \o page.lines \in Seq(Line) /\ Len(seen \o page.lines) = Len(seen) + n
    BY <1>1, <1>5, ConcatProperties
  <2> QED
    BY <1>1, <1>0, <1>2, <1>3, <1>5, <2>1, <2>2, SMTT(30)
<1>13. first' \in Nat /\ first' # 0 /\ start = first' + Len(seen) - 1
  <2>1. first' \in Nat /\ first' # 0
    OBVIOUS
  <2> QED
    BY <2>1 DEF start
<1>7. seen' # <<>> => seen' = SubSeq(lines, first', reached - 1) /\ reached <= Len(lines) + 1
  <2> SUFFICES ASSUME seen' # <<>> PROVE seen' = SubSeq(lines, first', reached - 1) /\ reached <= Len(lines) + 1
    OBVIOUS
  <2>1. seen # <<>> => seen = SubSeq(lines, first', start) /\ start <= Len(lines)
    <3> SUFFICES ASSUME seen # <<>> PROVE seen = SubSeq(lines, first', start) /\ start <= Len(lines)
      OBVIOUS
    <3>1. first' = first /\ first \in Nat /\ first + Len(seen) - 1 = start
      BY <1>1, <1>0, <1>2, <1>6 DEF PagesInv
    <3> QED
      BY <1>1, <1>0, <1>2, <1>4, <1>6, <3>1 DEF PagesInv, lines
  <2>2. CASE n = 0
    <3>1. page.lines = <<>> /\ seen' = seen
      BY <1>1, <1>3, <1>5, <2>2
    <3>2. reached - 1 = start /\ reached = start + 1
      BY <1>0, <1>6, <2>2
    <3>3. seen = SubSeq(lines, first', start) /\ start <= Len(lines)
      BY <2>1, <3>1
    <3>4. reached <= Len(lines) + 1
      BY <1>0, <1>4, <3>2, <3>3
    <3> HIDE DEF reached
    <3> QED
      BY <3>1, <3>2, <3>3, <3>4
  <2>3. CASE n # 0
    <3>1. page.lines = SubSeq(lines, start + 1, start + n) /\ start + n <= Len(lines)
      BY <1>12, <2>3
    <3>2. reached - 1 = start + n /\ reached <= Len(lines) + 1
      BY <1>0, <1>2, <1>4, <1>5, <1>6, <3>1, SMTT(30)
    <3>3. CASE seen = <<>>
      <4>1. first' = start + 1 /\ seen' = page.lines
        BY <1>1, <1>0, <1>2, <1>3, <1>5, <1>6, <3>3
      <4> QED
        BY <3>1, <3>2, <4>1
    <3>4. CASE seen # <<>>
      <4>0. first' \in Nat \ {0} /\ start = first' + Len(seen) - 1 /\ Len(seen) \in Nat /\ start <= Len(lines)
        BY <1>1, <1>13, <2>1, <3>4
      <4>1. first' \in 1 .. Len(lines) + 1 /\ start \in first' - 1 .. Len(lines) /\ start + n \in start .. Len(lines)
        <5>1. \A f, m \in Nat : f # 0 /\ f + m - 1 <= Len(lines) /\ start = f + m - 1
                                => f \in 1 .. Len(lines) + 1 /\ start \in f - 1 .. Len(lines)
          BY <1>0, <1>4
        <5>2. start + n \in start .. Len(lines)
          BY <1>0, <1>4, <1>5, <3>1
        <5> QED
          BY <1>13, <4>0, <5>1, <5>2
      <4>2. SubSeq(lines, first', start) \o SubSeq(lines, start + 1, start + n) = SubSeq(lines, first', start + n)
        BY <1>4, <4>1, ConcatAdjacentSubSeq
      <4> QED
        BY <1>3, <2>1, <3>1, <3>2, <3>4, <4>2
    <3> QED
      BY <3>3, <3>4
  <2> QED
    BY <2>2, <2>3
<1>8. next' # 0 => next' = reached /\ reached <= Len(lines)
  <2> SUFFICES ASSUME page.next # 0 PROVE page.next = reached /\ reached <= Len(lines)
    BY <1>3
  <2>1. page.next = start + n + 1 /\ start + n < Len(lines)
    BY <1>12
  <2> QED
    BY <1>0, <1>4, <1>5, <1>6, <2>1, SMTT(30)
<1>9. seen' = SubSeq(lines, first', reached - 1)
  <2>1. CASE seen' = <<>>
    <3>1. reached - 1 = first' - 1 /\ first' \in Nat
      BY <1>6, <2>1
    <3>2. SubSeq(lines, first', first' - 1) = <<>>
      <4>1. \A k \in Nat : SubSeq(lines, k, k - 1) = <<>>
        BY SubSeqEmpty
      <4> QED
        BY <3>1, <4>1
    <3> QED
      BY <2>1, <3>1, <3>2
  <2> QED
    BY <1>7, <2>1
<1>10. PagesExact'
  <2>1. /\ page.status = "more" => next' = reached
        /\ page.status = "end" => reached = Len(lines) + 1
        /\ page.status = "too long" => ByteLength(lines[reached]) > MaxBytes
        /\ page.status = "beyond" => first' > Len(lines)
        /\ page.status \in {"more", "end", "too long", "beyond"}
    <3>1. page.status = "beyond" => first' > Len(lines)
      <4> SUFFICES ASSUME page.status = "beyond" PROVE first' > Len(lines)
        OBVIOUS
      <4>1. start >= Len(lines) /\ n = 0
        BY <1>12
      <4>2. seen = <<>>
        <5> SUFFICES ASSUME seen # <<>> PROVE FALSE
          OBVIOUS
        <5>1. offset <= Len(lines)
          BY DEF lines
        <5>2. start = IF offset = 0 THEN 0 ELSE offset - 1
          BY <1>1, PageRight DEF start
        <5>3. Len(lines) # 0
          BY <1>1, <1>4, SplitLines DEF lines
        <5> QED
          BY <1>4, <4>1, <5>1, <5>2, <5>3
      <4> QED
        BY <1>0, <1>4, <1>6, <1>13, <4>1, <4>2
    <3>2. page.status = "end" => reached = Len(lines) + 1
      BY <1>0, <1>4, <1>5, <1>6, <1>12
    <3>3. page.status = "too long" => reached = start + 1
      <4>1. n = 0 => reached = start + 1
        BY <1>0, <1>6
      <4> QED
        BY <1>12, <4>1
    <3>4. page.status = "more" => page.next = reached
      BY <1>6, <1>12
    <3> QED
      BY <1>3, <1>12, <3>1, <3>2, <3>3, <3>4
  <2>2. n # 0 => n = Max({k \in DOMAIN asked : Fits(Join(SubSeq(asked, 1, k)))})
    BY <1>2 DEF PageTold, Fitting
  <2>3. Split(text') = lines /\ call'.page = page /\ call'.offset = offset /\ call'.limit = limit
    BY <1>3 DEF lines
  <2>4. Selected(lines, Max({0, call'.offset - 1}), call'.limit) = asked
    BY <2>3 DEF asked, start
  <2>5. CASE page.status = "more"
    BY <1>9, <2>1, <2>2, <2>3, <2>4, <2>5 DEF PagesExact, Done
  <2>6. CASE page.status = "end"
    BY <1>9, <2>1, <2>2, <2>3, <2>4, <2>6 DEF PagesExact, Done
  <2>7. CASE page.status = "too long"
    BY <1>9, <2>1, <2>2, <2>3, <2>4, <2>7 DEF PagesExact, Done
  <2>8. CASE page.status = "beyond"
    BY <1>9, <2>1, <2>2, <2>3, <2>4, <2>8 DEF PagesExact, Done
  <2> QED
    BY <2>1, <2>5, <2>6, <2>7, <2>8
<1>11. call' # None
  <2>1. \A l \in Line : l \in Seq(DOMAIN Width)
    BY DEF Line, Text, Char
  <2>2. page \in [status : {"more", "end", "too long", "beyond"}, lines : Seq(Seq(DOMAIN Width)), next : Nat]
    <3>1. page.lines \in Seq(Seq(DOMAIN Width))
      BY <1>5, <2>1
    <3>2. page = [status |-> page.status, lines |-> page.lines, next |-> page.next]
      BY DEF page, Page
    <3> QED
      BY <1>5, <1>12, <3>1, <3>2
  <2>3. call' \in [error : {"none"}, offset : Nat, limit : Nat,
                   page : [status : {"more", "end", "too long", "beyond"},
                           lines : Seq(Seq(DOMAIN Width)), next : Nat]]
    BY <1>1, <1>3, <2>2
  <2> QED
    BY <2>3, CallsAssumption
<1> QED
  BY <1>1, <1>3, <1>5, <1>6, <1>7, <1>8, <1>10, <1>11 DEF PagesInv, lines

LEMMA ReadingNext == Reading /\ [Next]_vars => Reading'
<1> SUFFICES ASSUME Reading, [Next]_vars, tool' = "read" PROVE PagesInv'
  BY DEF Reading
<1>1. CASE UNCHANGED vars
  BY <1>1 DEF vars, Reading, PagesInv, PagesExact, Done
<1>2. ASSUME NEW limit \in Limits, NEW offset \in 0 .. Len(Split(text)) + 1, Read(offset, limit)
      PROVE  PagesInv'
  <2>1. PagesInv /\ tool = "read" /\ seen = <<>> /\ Show(offset, limit) /\ first' = Max({1, offset})
    BY <1>2 DEF Read, Show, Reading, PagesInv
  <2>2. offset \in Nat /\ Len(seen) = 0
    BY <2>1, SplitLines DEF PagesInv
  <2>3. first' = (IF offset = 0 THEN 1 ELSE offset) /\ Max({0, offset - 1}) = IF offset = 0 THEN 0 ELSE offset - 1
    <3>1. Max({1, offset}) = (IF 1 <= offset THEN offset ELSE 1)
          /\ Max({0, offset - 1}) = IF 0 <= offset - 1 THEN offset - 1 ELSE 0
      BY <2>2, MaxOfTwo
    <3> QED
      BY <2>1, <2>2, <3>1
  <2>4. first' \in Nat \ {0} /\ Max({0, offset - 1}) = first' + Len(seen) - 1
    BY <2>2, <2>3
  <2> QED
    BY <2>1, <2>2, <2>4, ReadingShow
<1>3. ASSUME NEW limit \in Limits, ReadOn(limit) PROVE PagesInv'
  <2>1. PagesInv /\ tool = "read" /\ next # 0 /\ Show(next, limit) /\ first' = first
    BY <1>3 DEF ReadOn, Show, Reading
  <2>2. next \in Nat /\ next = first + Len(seen) /\ first \in Nat \ {0} /\ Len(seen) \in Nat
    BY <2>1 DEF PagesInv
  <2>3. Max({0, next - 1}) = next - 1
    <3>1. Max({0, next - 1}) = IF 0 <= next - 1 THEN next - 1 ELSE 0
      BY <2>2, MaxOfTwo
    <3> QED
      BY <2>1, <2>2, <3>1
  <2>4. Max({0, next - 1}) = first' + Len(seen) - 1
    BY <2>1, <2>2, <2>3
  <2> QED
    <3>1. next <= Len(Split(text))
      BY <2>1, <2>2 DEF PagesInv
    <3> QED
      BY <2>1, <2>2, <2>4, <3>1, ReadingShow
<1>4. ASSUME NEW error \in {"aborted", "unreadable"}, ReadFails(error) PROVE PagesInv'
  <2>1. call' = [error |-> error] /\ UNCHANGED <<text, seen, first, next, tool>> /\ tool = "read"
    BY <1>4 DEF ReadFails
  <2>2. call' # None
    <3>1. call' \in [error : {"aborted", "unreadable"}]
      BY <2>1
    <3> QED
      BY <3>1, CallsAssumption
  <2>3. PagesExact'
    BY <2>1 DEF PagesExact, Done
  <2> QED
    BY <2>1, <2>2, <2>3 DEF Reading, PagesInv
<1>5. tool' = tool
  BY DEF Next, vars, Read, ReadOn, ReadFails, Show, Edit, TellChange, Bash
<1> QED
  BY <1>1, <1>2, <1>3, <1>4, <1>5 DEF Next, Edit, TellChange, Bash

\* Reading on where each page says to shows the file whole, as many lines at a time as the limits
\* let through: PagesExact holds for every text, limit and way of asking (read's pages and their
\* continuation offsets).
THEOREM ReadsWhole == Spec => []PagesExact
<1>1. Spec => []Reading
  BY ReadingInit, ReadingNext, PTL DEF Spec
<1>2. Reading => PagesExact
  BY DEF Reading, PagesInv, PagesExact, Done
<1> QED
  BY <1>1, <1>2, PTL

-----------------------------------------------------------------------------
(* The end of a text *)

\* The lines of a text make the text.
LEMMA JoinSplit ==
  ASSUME NEW t \in Text PROVE Join(Split(t)) = t
<1> DEFINE P == {u \in Text : Join(Split(u)) = u}
<1>1. <<>> \in P
  <2>1. <<>> \in Text /\ Join(<< <<>> >>) = <<>>
    <3>1. <<>> \in Text
      BY DEF Text
    <3> QED
      BY <3>1, JoinOne
  <2> QED
    BY <2>1, SplitNil
<1>2. ASSUME NEW u \in Seq(Char), NEW c \in Char, u \in P PROVE Append(u, c) \in P
  <2> DEFINE ls == Split(u)
             k == Len(ls)
             last == ls[k]
             front == SubSeq(ls, 1, k - 1)
             longer == [ls EXCEPT ![k] = Append(last, c)]
  <2>1. u \in Text /\ Append(u, c) \in Text
    BY DEF Text
  <2>2. ls \in Seq(Text) /\ ls # <<>> /\ k \in Nat /\ k # 0 /\ k \in 1 .. k
    <3>1. ls \in Seq(Line) /\ ls # <<>>
      BY <2>1, SplitLines
    <3>2. \A l \in Line : l \in Text
      BY DEF Line
    <3> HIDE DEF ls
    <3>3. ls \in Seq(Text) /\ ls # <<>>
      BY <3>1, <3>2
    <3> QED
      BY <3>3
  <2>3. last \in Text /\ Append(last, c) \in Text /\ <<c>> \in Text
    BY <2>2 DEF Text
  <2>4. Split(Append(u, c)) = IF c = LF THEN Append(ls, <<>>) ELSE longer
    BY <2>1, SplitAppend
  <2> HIDE DEF ls
  <2>5. CASE c = LF
    <3>1. Join(Append(ls, <<>>)) = Join(ls) \o <<LF>> \o <<>>
      <4>1. <<>> \in Text
        BY DEF Text
      <4> QED
        BY <2>2, <4>1, JoinAppend
    <3>2. Join(ls) = u
      BY <1>2 DEF ls
    <3>3. u \o <<LF>> \o <<>> = Append(u, LF)
      BY <2>5
    <3> QED
      BY <2>1, <2>4, <2>5, <3>1, <3>2, <3>3
  <2>6. CASE c # LF
    <3>1. front \in Seq(Text) /\ Len(front) = k - 1
      <4>1. k - 1 \in 0 .. Len(ls)
        BY <2>2
      <4>2. \A j \in 0 .. Len(ls) : SubSeq(ls, 1, j) \in Seq(Text) /\ Len(SubSeq(ls, 1, j)) = j
        BY <2>2
      <4> QED
        BY <4>1, <4>2
    <3>2. ls = Append(front, last) /\ longer = Append(front, Append(last, c))
      <4> DEFINE a == Append(front, last)
                 b == Append(front, Append(last, c))
      <4>1. a \in Seq(Text) /\ b \in Seq(Text) /\ Len(a) = k /\ Len(b) = k
            /\ (\A i \in 1 .. k : a[i] = ls[i])
        BY <2>2, <2>3, <3>1
      <4>2. longer \in Seq(Text) /\ Len(longer) = k /\ \A i \in 1 .. k : longer[i] = b[i]
        BY <2>2, <2>3, <3>1
      <4> HIDE DEF a, b, longer, front, last, k
      <4>3. ls = a
        BY <2>2, <4>1, SameSequence DEF k
      <4>4. longer = b
        BY <4>1, <4>2, SameSequence
      <4> QED
        BY <4>3, <4>4 DEF a, b
    <3> HIDE DEF longer, last, front
    <3>3. Join(longer) = Append(Join(ls), c)
      <4>1. CASE front = <<>>
        <5>1. ls = <<last>> /\ longer = <<Append(last, c)>>
          BY <2>3, <3>2, <4>1
        <5> QED
          BY <2>3, <5>1, JoinOne
      <4>2. CASE front # <<>>
        <5>1. Join(ls) = Join(front) \o <<LF>> \o last
              /\ Join(longer) = Join(front) \o <<LF>> \o Append(last, c)
          BY <2>3, <3>1, <3>2, <4>2, JoinAppend
        <5>2. Join(front) \in Text
          BY <3>1, <4>2, JoinType
        <5>3. Join(front) \o <<LF>> \in Text
          BY <5>2, Concat
        <5> DEFINE p == Join(front) \o <<LF>>
        <5> HIDE DEF p
        <5>4. p \in Seq(Char) /\ last \in Seq(Char) /\ c \in Char
          BY <2>3, <5>3 DEF p, Text
        <5>5. p \o Append(last, c) = Append(p \o last, c)
          BY <5>4, ConcatAppend
        <5> QED
          BY <5>1, <5>5 DEF p
      <4> QED
        BY <4>1, <4>2
    <3> QED
      BY <1>2, <2>1, <2>4, <2>6, <3>3 DEF ls
  <2> QED
    BY <2>5, <2>6
<1> HIDE DEF P
<1>3. \A u \in Seq(Char) : u \in P
  BY <1>1, <1>2, SequenceInduction
<1> QED
  BY <1>3 DEF P, Text

\* One more line at the front costs as much as one at the end.
LEMMA BytesCons ==
  ASSUME NEW ls \in Seq(Text), NEW l \in Text
  PROVE  Bytes(<<l>> \o ls) = Bytes(ls) + (ByteLength(l) + IF ls = <<>> THEN 0 ELSE 1)
<1> DEFINE b == ByteLength(l)
           P == {ms \in Seq(Text) : Bytes(<<l>> \o ms) = Bytes(ms) + (b + IF ms = <<>> THEN 0 ELSE 1)}
<1>0. b \in Nat /\ <<l>> \in Seq(Text)
  BY ByteLengthType
<1> HIDE DEF b
<1>1. <<>> \in P
  <2>1. <<l>> \o <<>> = Append(<<>>, l) /\ <<>> \in Seq(Text)
    OBVIOUS
  <2>2. Bytes(Append(<<>>, l)) = Bytes(<<>>) + (b + 0)
    BY <2>1, BytesAppend DEF b
  <2> QED
    BY <2>1, <2>2
<1>2. ASSUME NEW ms \in Seq(Text), NEW m \in Text, ms \in P PROVE Append(ms, m) \in P
  <2> DEFINE p == <<l>> \o ms
             q == Append(ms, m)
  <2>1. p \in Seq(Text) /\ <<l>> \o Append(ms, m) = Append(p, m) /\ q \in Seq(Text)
    BY <1>0, ConcatAppend
  <2>2. p # <<>> /\ q # <<>>
    <3>1. Len(p) = 1 + Len(ms) /\ Len(q) = Len(ms) + 1 /\ Len(ms) \in Nat
      OBVIOUS
    <3> QED
      BY <3>1
  <2> HIDE DEF p, q
  <2>3. ByteLength(m) \in Nat /\ Bytes(ms) \in Nat
    BY ByteLengthType, BytesAppend
  <2>4. Bytes(Append(p, m)) = Bytes(p) + (ByteLength(m) + 1)
    BY <2>1, <2>2, BytesAppend
  <2>5. Bytes(q) = Bytes(ms) + (ByteLength(m) + IF ms = <<>> THEN 0 ELSE 1)
    BY BytesAppend DEF q
  <2>6. Bytes(p) = Bytes(ms) + (b + IF ms = <<>> THEN 0 ELSE 1)
    BY <1>2 DEF p
  <2>7. Bytes(Append(p, m)) = Bytes(q) + (b + 1)
    BY <1>0, <2>3, <2>4, <2>5, <2>6
  <2> QED
    BY <2>1, <2>2, <2>7 DEF q
<1> HIDE DEF P
<1>3. \A ms \in Seq(Text) : ms \in P
  BY <1>1, <1>2, SequenceInduction
<1> QED
  BY <1>3 DEF P, b

LEMMA ReverseSeq ==
  ASSUME NEW S, NEW s \in Seq(S)
  PROVE  /\ Reverse(s) \in Seq(S) /\ Len(Reverse(s)) = Len(s)
         /\ \A i \in 1 .. Len(s) : Reverse(s)[i] = s[Len(s) - i + 1]
         /\ Reverse(Reverse(s)) = s
<1> DEFINE r == Reverse(s)
<1>1. r \in Seq(S) /\ Len(r) = Len(s) /\ \A i \in 1 .. Len(s) : r[i] = s[Len(s) - i + 1]
  <2>1. \A i \in 1 .. Len(s) : s[(Len(s) - i) + 1] \in S /\ (Len(s) - i) + 1 = Len(s) - i + 1
    OBVIOUS
  <2> QED
    BY <2>1 DEF Reverse
<1>2. Reverse(r) = s
  <2> HIDE DEF r
  <2>1. \A i \in 1 .. Len(s) : r[(Len(s) - i) + 1] = s[i]
    <3> SUFFICES ASSUME NEW i \in 1 .. Len(s) PROVE r[(Len(s) - i) + 1] = s[i]
      OBVIOUS
    <3>1. (Len(s) - i) + 1 \in 1 .. Len(s) /\ Len(s) - ((Len(s) - i) + 1) + 1 = i
      OBVIOUS
    <3> QED
      BY <1>1, <3>1
  <2>2. Reverse(r) = [i \in 1 .. Len(s) |-> s[i]]
    BY <1>1, <2>1 DEF Reverse
  <2> QED
    BY <2>2
<1> QED
  BY <1>1, <1>2

\* The lines make as many bytes in either order.
LEMMA BytesReverse ==
  ASSUME NEW ls \in Seq(Text) PROVE Bytes(Reverse(ls)) = Bytes(ls)
<1> DEFINE P == {ms \in Seq(Text) : Bytes(Reverse(ms)) = Bytes(ms)}
<1>1. <<>> \in P
  <2>1. Reverse(<<>>) = <<>> /\ <<>> \in Seq(Text)
    BY DEF Reverse
  <2> QED
    BY <2>1
<1>2. ASSUME NEW ms \in Seq(Text), NEW m \in Text, ms \in P PROVE Append(ms, m) \in P
  <2> DEFINE q == Append(ms, m)
             r == Reverse(ms)
             a == Reverse(q)
             b == <<m>> \o r
  <2>1. q \in Seq(Text) /\ Len(q) = Len(ms) + 1 /\ q[Len(ms) + 1] = m /\ Len(ms) \in Nat
        /\ \A i \in 1 .. Len(ms) : q[i] = ms[i]
    OBVIOUS
  <2>2. r \in Seq(Text) /\ Len(r) = Len(ms) /\ \A i \in 1 .. Len(ms) : r[i] = ms[Len(ms) - i + 1]
    BY ReverseSeq
  <2> HIDE DEF q, r
  <2>3. a \in Seq(Text) /\ Len(a) = Len(ms) + 1 /\ \A i \in 1 .. Len(ms) + 1 : a[i] = q[Len(ms) + 1 - i + 1]
    BY <2>1, ReverseSeq
  <2>4. b \in Seq(Text) /\ Len(b) = Len(ms) + 1
        /\ \A i \in 1 .. Len(ms) + 1 : b[i] = IF i = 1 THEN m ELSE r[i - 1]
    <3>1. <<m>> \in Seq(Text) /\ Len(<<m>>) = 1 /\ <<m>>[1] = m
      OBVIOUS
    <3>2. b \in Seq(Text) /\ Len(b) = 1 + Len(ms) /\ \A i \in 1 .. 1 + Len(ms) : b[i] = IF i <= 1 THEN <<m>>[i] ELSE r[i - 1]
      BY <2>2, <3>1, ConcatProperties
    <3> QED
      BY <2>1, <3>1, <3>2
  <2>5. \A i \in 1 .. Len(ms) + 1 : a[i] = b[i]
    <3> SUFFICES ASSUME NEW i \in 1 .. Len(ms) + 1 PROVE a[i] = b[i]
      OBVIOUS
    <3>1. CASE i = 1
      <4>1. Len(ms) + 1 - i + 1 = Len(ms) + 1
        BY <2>1, <3>1
      <4>2. a[i] = q[Len(ms) + 1] /\ b[i] = m
        BY <2>3, <2>4, <3>1, <4>1
      <4> QED
        BY <2>1, <4>2
    <3>2. CASE i # 1
      <4>1. i - 1 \in 1 .. Len(ms) /\ Len(ms) + 1 - i + 1 \in 1 .. Len(ms)
            /\ Len(ms) - (i - 1) + 1 = Len(ms) + 1 - i + 1
        BY <2>1, <3>2
      <4>2. a[i] = ms[Len(ms) + 1 - i + 1] /\ b[i] = r[i - 1]
        BY <2>1, <2>3, <2>4, <3>2, <4>1
      <4> QED
        BY <2>2, <4>1, <4>2
    <3> QED
      BY <3>1, <3>2
  <2> HIDE DEF a, b
  <2>6. a = b
    BY <2>3, <2>4, <2>5, SameSequence
  <2>7. Bytes(b) = Bytes(r) + (ByteLength(m) + IF r = <<>> THEN 0 ELSE 1)
    BY <2>2, BytesCons DEF b
  <2>8. Bytes(q) = Bytes(ms) + (ByteLength(m) + IF ms = <<>> THEN 0 ELSE 1)
    BY BytesAppend DEF q
  <2>9. Bytes(r) = Bytes(ms) /\ (r = <<>> <=> ms = <<>>)
    BY <1>2, <2>2 DEF r
  <2> QED
    BY <2>1, <2>6, <2>7, <2>8, <2>9 DEF a, q
<1> HIDE DEF P
<1>3. \A ms \in Seq(Text) : ms \in P
  BY <1>1, <1>2, SequenceInduction
<1> QED
  BY <1>3 DEF P

\* The last n lines, and what of the reversed lines they are.
LastLines(ls, n) == SubSeq(ls, Len(ls) - n + 1, Len(ls))

LEMMA LastReversed ==
  ASSUME NEW ls \in Seq(Line), NEW n \in 1 .. Len(ls)
  PROVE  /\ LastLines(ls, n) \in Seq(Line) /\ Len(LastLines(ls, n)) = n
         /\ Reverse(SubSeq(Reverse(ls), 1, n)) = LastLines(ls, n)
         /\ Fits(Join(LastLines(ls, n))) <=> n <= MaxLines /\ Bytes(SubSeq(Reverse(ls), 1, n)) <= MaxBytes
<1> DEFINE r == Reverse(ls)
           p == SubSeq(r, 1, n)
           q == Reverse(p)
           t == LastLines(ls, n)
<1>0. n \in Nat /\ Len(ls) \in Nat /\ n # 0 /\ n <= Len(ls)
  OBVIOUS
<1>1. r \in Seq(Line) /\ Len(r) = Len(ls) /\ \A i \in 1 .. Len(ls) : r[i] = ls[Len(ls) - i + 1]
  BY ReverseSeq
<1> HIDE DEF r
<1>2. p \in Seq(Line) /\ Len(p) = n /\ \A i \in 1 .. n : p[i] = r[i]
  BY <1>0, <1>1
<1> HIDE DEF p
<1>3. q \in Seq(Line) /\ Len(q) = n /\ \A i \in 1 .. n : q[i] = p[n - i + 1]
  BY <1>2, ReverseSeq
<1>4. t \in Seq(Line) /\ Len(t) = n /\ \A i \in 1 .. n : t[i] = ls[Len(ls) - n + i]
  <2> DEFINE m == Len(ls) - n
  <2>1. m \in Nat /\ m + 1 \in 1 .. Len(ls) /\ m + n = Len(ls)
    BY <1>0
  <2>2. t = SubSeq(ls, m + 1, Len(ls))
    BY DEF LastLines
  <2> HIDE DEF m, t
  <2>3. \A i \in (m + 1) .. Len(ls) : ls[i] \in Line
    BY <2>1
  <2>4. t \in Seq(Line) /\ Len(t) = (IF m + 1 <= Len(ls) THEN Len(ls) - (m + 1) + 1 ELSE 0)
        /\ \A i \in 1 .. Len(ls) - (m + 1) + 1 : t[i] = ls[(m + 1) + i - 1]
    BY <1>0, <2>1, <2>2, <2>3, SubSeqProperties
  <2>5. Len(ls) - (m + 1) + 1 = n /\ m + 1 <= Len(ls)
    BY <1>0, <2>1
  <2>6. \A i \in 1 .. n : (m + 1) + i - 1 = m + i
    BY <1>0, <2>1
  <2>7. \A i \in 1 .. n : t[i] = ls[m + i]
    BY <2>4, <2>5, <2>6
  <2> QED
    BY <2>4, <2>5, <2>7 DEF m
<1>5. \A i \in 1 .. n : q[i] = t[i]
  <2> SUFFICES ASSUME NEW i \in 1 .. n PROVE q[i] = t[i]
    OBVIOUS
  <2>1. n - i + 1 \in 1 .. n /\ n - i + 1 \in 1 .. Len(ls) /\ Len(ls) - (n - i + 1) + 1 = Len(ls) - n + i
    BY <1>0
  <2> HIDE DEF q, t
  <2>2. q[i] = p[n - i + 1] /\ p[n - i + 1] = r[n - i + 1]
    BY <1>2, <1>3, <2>1
  <2>3. r[n - i + 1] = ls[Len(ls) - n + i]
    BY <1>1, <2>1
  <2> QED
    BY <1>4, <2>2, <2>3
<1>6. q = t
  <2> HIDE DEF q, t
  <2> QED
    BY <1>3, <1>4, <1>5, SameSequence
<1>7. Bytes(t) = Bytes(p)
  <2>1. p \in Seq(Text)
    BY <1>2 DEF Line
  <2> QED
    BY <1>6, <2>1, BytesReverse
<1> HIDE DEF t, q
<1>8. t # <<>>
  BY <1>0, <1>4
<1>9. Fits(Join(t)) <=> n <= MaxLines /\ Bytes(p) <= MaxBytes
  <2>1. Bytes(t) = ByteLength(Join(t))
    BY <1>8 DEF Bytes
  <2> QED
    BY <1>4, <1>7, <1>8, <2>1, JoinFits
<1> QED
  BY <1>4, <1>6, <1>9 DEF t, q, p, r

\* The bytes before character i.
Offset(t, i) == ByteLength(SubSeq(t, 1, i - 1))

\* A buffer holds the bytes of the characters in order; those with place 1 begin a character.
BufferOf(t, buf) ==
  /\ buf \in Seq(Nat \X Nat) /\ Len(buf) = ByteLength(t)
  /\ \A k \in 1 .. Len(buf) : /\ buf[k][1] \in 1 .. Len(t)
                              /\ buf[k][2] = 1 => k = Offset(t, buf[k][1]) + 1
  /\ \A i \in 1 .. Len(t) : /\ Offset(t, i) + 1 \in 1 .. Len(buf)
                            /\ buf[Offset(t, i) + 1] = <<i, 1>>

LEMMA BufferAppend ==
  ASSUME NEW t \in Text, NEW c \in Char
  PROVE  Buffer(Append(t, c)) = Buffer(t) \o [b \in 1 .. Width[c] |-> <<Len(t) + 1, b>>]
<1> DEFINE E == Nat \X Nat
           bytes(n, d) == [b \in 1 .. Width[d] |-> <<n, b>>]
           u == Append(t, c)
           s == [n \in DOMAIN t |-> bytes(n, t[n])]
           r == [n \in DOMAIN u |-> bytes(n, u[n])]
           x == bytes(Len(t) + 1, c)
<1>1. /\ DOMAIN t = 1 .. Len(t) /\ DOMAIN u = 1 .. Len(t) + 1 /\ Len(t) \in Nat /\ u[Len(t) + 1] = c
      /\ \A n \in 1 .. Len(t) : t[n] \in Char /\ u[n] = t[n]
  BY DEF Text
<1>2. \A n \in Nat, d \in Char : bytes(n, d) \in Seq(E)
  <2> SUFFICES ASSUME NEW n \in Nat, NEW d \in Char PROVE bytes(n, d) \in Seq(E)
    OBVIOUS
  <2>1. Width[d] \in Nat /\ \A b \in 1 .. Width[d] : <<n, b>> \in E
    BY WidthAssumption DEF Char
  <2> HIDE DEF E
  <2> QED
    BY <2>1
<1> HIDE DEF u, E, bytes
<1>3. s \in Seq(Seq(E)) /\ Len(s) = Len(t) /\ \A n \in 1 .. Len(t) : s[n] = bytes(n, t[n])
  BY <1>1, <1>2
<1>4. x \in Seq(E)
  BY <1>1, <1>2
<1>5. r \in Seq(Seq(E)) /\ Len(r) = Len(t) + 1 /\ r[Len(t) + 1] = x
      /\ \A n \in 1 .. Len(t) : r[n] = s[n]
  <2>1. \A n \in 1 .. Len(t) + 1 : u[n] \in Char
    BY <1>1
  <2>2. r \in Seq(Seq(E)) /\ Len(r) = Len(t) + 1
    <3>1. r = [n \in 1 .. Len(t) + 1 |-> bytes(n, u[n])]
      BY <1>1
    <3>2. \A n \in 1 .. Len(t) + 1 : bytes(n, u[n]) \in Seq(E)
      BY <1>1, <1>2, <2>1
    <3> QED
      BY <1>1, <3>1, <3>2
  <2> QED
    BY <1>1, <2>2
<1> HIDE DEF s, r, x
<1>6. r = Append(s, x)
  <2> DEFINE w == Append(s, x)
             S == Seq(E)
  <2>1. w \in Seq(S) /\ Len(w) = Len(t) + 1 /\ w[Len(t) + 1] = x /\ \A n \in 1 .. Len(t) : w[n] = s[n]
    BY <1>3, <1>4
  <2>2. \A n \in 1 .. Len(t) + 1 : n # Len(t) + 1 => n \in 1 .. Len(t)
    BY <1>1
  <2> HIDE DEF w, S
  <2>3. \A n \in 1 .. Len(t) + 1 : w[n] = r[n]
    BY <1>5, <2>1, <2>2
  <2>4. r \in Seq(S)
    BY <1>5 DEF S
  <2>5. w = r
    BY <1>5, <2>1, <2>3, <2>4, SameSequence
  <2> QED
    BY <2>5 DEF w
<1>7. FlattenSeq(r) = FlattenSeq(s) \o x
  BY <1>3, <1>4, <1>6, FlattenAppend
<1>8. Buffer(t) = FlattenSeq(s) /\ Buffer(u) = FlattenSeq(r)
  BY DEF Buffer, s, r, bytes
<1> QED
  BY <1>7, <1>8 DEF u, x, bytes

LEMMA OffsetOfPrefix ==
  ASSUME NEW t \in Text, NEW c \in Char
  PROVE  /\ \A i \in 1 .. Len(t) : Offset(Append(t, c), i) = Offset(t, i)
         /\ Offset(Append(t, c), Len(t) + 1) = ByteLength(t)
<1> DEFINE u == Append(t, c)
<1>1. \A j \in 0 .. Len(t) : SubSeq(u, 1, j) = SubSeq(t, 1, j)
  BY DEF Text
<1>2. Len(t) \in Nat /\ SubSeq(t, 1, Len(t)) = t
  BY DEF Text
<1>3. \A i \in 1 .. Len(t) : i - 1 \in 0 .. Len(t)
  BY <1>2
<1>4. (Len(t) + 1) - 1 = Len(t) /\ Len(t) \in 0 .. Len(t)
  BY <1>2
<1> HIDE DEF u
<1> QED
  BY <1>1, <1>2, <1>3, <1>4 DEF Offset, u

LEMMA BufferBytes ==
  ASSUME NEW t \in Text PROVE BufferOf(t, Buffer(t))
<1> DEFINE P == {u \in Text : BufferOf(u, Buffer(u))}
<1>1. <<>> \in P
  <2> DEFINE none == <<>>
  <2>0. none \in Text /\ none \in Seq(Nat \X Nat) /\ Len(none) = 0 /\ ByteLength(none) = 0
    BY ByteLengthNil DEF Text
  <2>1. Buffer(none) = none
    <3>1. [n \in DOMAIN none |-> [b \in 1 .. Width[none[n]] |-> <<n, b>>]] = none
      OBVIOUS
    <3> QED
      BY <3>1, FlattenNil DEF Buffer
  <2> HIDE DEF none
  <2>2. BufferOf(none, none)
    BY <2>0 DEF BufferOf
  <2> QED
    BY <2>0, <2>1, <2>2 DEF none
<1>2. ASSUME NEW u \in Seq(Char), NEW c \in Char, u \in P PROVE Append(u, c) \in P
  <2> DEFINE v == Append(u, c)
             buf == Buffer(u)
             new == Buffer(v)
             w == Width[c]
             m == Len(u)
             x == [b \in 1 .. w |-> <<m + 1, b>>]
             n == Len(buf)
  <2>1. u \in Text /\ v \in Text /\ m \in Nat /\ Len(v) = m + 1
    BY DEF Text
  <2>2. new = buf \o x
    BY <2>1, BufferAppend
  <2>3. w \in Nat /\ w # 0
    BY WidthAssumption DEF Char
  <2>4. BufferOf(u, buf)
    BY <1>2
  <2>5. ByteLength(v) = ByteLength(u) + w
    BY <2>1, ByteLengthAppend
  <2>6. (\A i \in 1 .. m : Offset(v, i) = Offset(u, i)) /\ Offset(v, m + 1) = ByteLength(u)
    BY <2>1, OffsetOfPrefix
  <2> HIDE DEF v, buf, new, w, m
  <2>7. buf \in Seq(Nat \X Nat) /\ n = ByteLength(u) /\ n \in Nat
    BY <2>4 DEF BufferOf
  <2>8. x \in Seq(Nat \X Nat) /\ Len(x) = w /\ \A b \in 1 .. w : x[b] = <<m + 1, b>>
    <3>1. m + 1 \in Nat /\ \A b \in 1 .. w : <<m + 1, b>> \in Nat \X Nat
      BY <2>1, <2>3
    <3> QED
      BY <2>3, <3>1
  <2> HIDE DEF x
  <2>9. new \in Seq(Nat \X Nat) /\ Len(new) = n + w
        /\ (\A k \in 1 .. n + w : new[k] = IF k <= n THEN buf[k] ELSE x[k - n])
    BY <2>2, <2>7, <2>8, ConcatProperties
  <2> HIDE DEF n
  <2>10. \A k \in 1 .. n : /\ buf[k][1] \in 1 .. m
                           /\ buf[k][2] = 1 => k = Offset(u, buf[k][1]) + 1
    BY <2>4 DEF BufferOf, n, m
  <2>11. \A i \in 1 .. m : Offset(u, i) + 1 \in 1 .. n /\ buf[Offset(u, i) + 1] = <<i, 1>>
    BY <2>4 DEF BufferOf, n, m
  <2>12. ASSUME NEW k \in 1 .. n + w
         PROVE  new[k][1] \in 1 .. m + 1 /\ (new[k][2] = 1 => k = Offset(v, new[k][1]) + 1)
    <3>1. CASE k <= n
      <4>1. k \in 1 .. n /\ new[k] = buf[k]
        BY <2>7, <2>9, <3>1
      <4>2. buf[k][1] \in 1 .. m /\ buf[k][1] \in 1 .. m + 1
        BY <2>1, <2>10, <4>1
      <4> QED
        BY <2>6, <2>10, <4>1, <4>2
    <3>2. CASE ~(k <= n)
      <4>1. k - n \in 1 .. w /\ new[k] = x[k - n]
        BY <2>3, <2>7, <2>9, <3>2, SMTT(30)
      <4>2. new[k] = <<m + 1, k - n>>
        BY <2>8, <4>1
      <4>3. new[k][1] = m + 1 /\ new[k][2] = k - n
        BY <4>2
      <4>4. k - n = 1 => k = n + 1
        BY <2>7
      <4>5. m + 1 \in 1 .. m + 1 /\ Offset(v, m + 1) = n
        BY <2>1, <2>6, <2>7
      <4> QED
        BY <4>3, <4>4, <4>5
    <3> QED
      BY <3>1, <3>2
  <2>13. ASSUME NEW i \in 1 .. m + 1
         PROVE  Offset(v, i) + 1 \in 1 .. n + w /\ new[Offset(v, i) + 1] = <<i, 1>>
    <3>1. CASE i = m + 1
      <4>1. Offset(v, i) + 1 = n + 1 /\ n + 1 \in 1 .. n + w /\ ~(n + 1 <= n) /\ (n + 1) - n = 1 /\ 1 \in 1 .. w
        BY <2>3, <2>6, <2>7, <3>1
      <4>2. new[n + 1] = x[1]
        BY <2>9, <4>1
      <4> QED
        BY <2>8, <3>1, <4>1, <4>2
    <3>2. CASE i # m + 1
      <4>1. i \in 1 .. m
        BY <2>1, <3>2
      <4>2. Offset(v, i) = Offset(u, i) /\ Offset(u, i) + 1 \in 1 .. n /\ buf[Offset(u, i) + 1] = <<i, 1>>
        BY <2>6, <2>11, <4>1
      <4>3. Offset(u, i) + 1 \in 1 .. n + w /\ Offset(u, i) + 1 <= n
        BY <2>3, <2>7, <4>2
      <4> QED
        BY <2>9, <4>2, <4>3
    <3> QED
      BY <3>1, <3>2
  <2>14. BufferOf(v, new)
    BY <2>1, <2>5, <2>7, <2>9, <2>12, <2>13 DEF BufferOf
  <2> QED
    BY <2>1, <2>14 DEF v, new
<1> HIDE DEF P
<1>3. \A u \in Seq(Char) : u \in P
  BY <1>1, <1>2, SequenceInduction
<1> QED
  BY <1>3 DEF P, Text

\* What is cut from the end of a text is the longest end of whole characters that the bytes allow.
LEMMA CutEnd ==
  ASSUME NEW t \in Text, ByteLength(t) > MaxBytes
  PROVE  LET cut == TruncateStringToBytesFromEnd(t)
         IN  \E j \in 1 .. Len(t) + 1 :
               /\ cut = SubSeq(t, j, Len(t)) /\ ByteLength(cut) <= MaxBytes
               /\ \A i \in 1 .. j - 1 : ByteLength(SubSeq(t, i, Len(t))) > MaxBytes
<1> DEFINE buf == Buffer(t)
           n == Len(buf)
           m == Len(t)
           from == n - MaxBytes + 1
           starts == {k \in from .. n : buf[k][2] = 1} \cup {n + 1}
           start == CharacterStart(buf, from)
           cut == TruncateStringToBytesFromEnd(t)
<1>1. BufferOf(t, buf)
  BY BufferBytes
<1> HIDE DEF buf
<1>2. n = ByteLength(t) /\ n \in Nat /\ MaxBytes \in Nat /\ MaxBytes # 0 /\ n > MaxBytes /\ m \in Nat /\ t \in Seq(Char)
  BY <1>1, LimitsAssumption DEF BufferOf, Text
<1>3. /\ \A k \in 1 .. n : buf[k][1] \in 1 .. m /\ (buf[k][2] = 1 => k = Offset(t, buf[k][1]) + 1)
      /\ \A i \in 1 .. m : Offset(t, i) + 1 \in 1 .. n /\ buf[Offset(t, i) + 1] = <<i, 1>>
  BY <1>1 DEF BufferOf
<1>4. \A i \in 1 .. m : /\ Offset(t, i) \in Nat /\ ByteLength(SubSeq(t, i, m)) \in Nat
                        /\ Offset(t, i) + ByteLength(SubSeq(t, i, m)) = n
  <2> SUFFICES ASSUME NEW i \in 1 .. m
               PROVE  /\ Offset(t, i) \in Nat /\ ByteLength(SubSeq(t, i, m)) \in Nat
                      /\ Offset(t, i) + ByteLength(SubSeq(t, i, m)) = n
    OBVIOUS
  <2> DEFINE p == SubSeq(t, 1, i - 1)
             q == SubSeq(t, i, m)
  <2>1. p \in Text /\ q \in Text
    BY <1>2 DEF Text
  <2>2. p \o q = t
    <3>1. 1 \in 1 .. Len(t) + 1 /\ i - 1 \in (1 - 1) .. Len(t) /\ m \in i - 1 .. Len(t) /\ (i - 1) + 1 = i
      BY <1>2
    <3>2. SubSeq(t, 1, i - 1) \o SubSeq(t, (i - 1) + 1, m) = SubSeq(t, 1, m)
      BY <1>2, <3>1, ConcatAdjacentSubSeq
    <3>3. SubSeq(t, 1, m) = t
      BY <1>2
    <3> QED
      BY <3>1, <3>2, <3>3
  <2> HIDE DEF p, q
  <2>3. ByteLength(p) + ByteLength(q) = n /\ ByteLength(p) \in Nat /\ ByteLength(q) \in Nat
    BY <1>2, <2>1, <2>2, ByteLengthConcat, ByteLengthType
  <2> QED
    BY <2>3 DEF p, q, Offset
<1>5. start \in starts /\ \A k \in starts : start <= k
  <2>1. from \in Nat /\ starts \in SUBSET Nat /\ n + 1 \in starts
    BY <1>2
  <2>2. start = Min(starts)
    BY DEF CharacterStart
  <2> HIDE DEF starts, start
  <2> QED
    BY <2>1, <2>2, MinExists
<1>6. cut = IF start > n THEN <<>> ELSE SubSeq(t, buf[start][1], m)
  <2>1. ~(n <= MaxBytes)
    BY <1>2
  <2> QED
    BY <2>1 DEF TruncateStringToBytesFromEnd, buf
<1>7. from \in Nat /\ from >= 2 /\ from + MaxBytes = n + 1
  BY <1>2
<1> HIDE DEF start, cut, n, m, from
<1>8. \A i \in 1 .. m : Offset(t, i) + 1 < start => ByteLength(SubSeq(t, i, m)) > MaxBytes
  <2> SUFFICES ASSUME NEW i \in 1 .. m, Offset(t, i) + 1 < start, ~(ByteLength(SubSeq(t, i, m)) > MaxBytes)
               PROVE  FALSE
    OBVIOUS
  <2> DEFINE k == Offset(t, i) + 1
  <2>1. k \in 1 .. n /\ buf[k][2] = 1 /\ Offset(t, i) \in Nat /\ ByteLength(SubSeq(t, i, m)) \in Nat
        /\ Offset(t, i) + ByteLength(SubSeq(t, i, m)) = n
    BY <1>3, <1>4
  <2>2. k >= from
    BY <1>2, <1>7, <2>1
  <2>3. k \in from .. n
    BY <1>7, <2>1, <2>2
  <2>4. start <= k
    BY <1>5, <2>1, <2>3
  <2>5. start \in Nat
    BY <1>2, <1>5, <1>7
  <2> QED
    BY <2>1, <2>4, <2>5
<1>9. CASE start = n + 1
  <2>1. cut = <<>> /\ SubSeq(t, m + 1, m) = <<>> /\ m + 1 \in 1 .. m + 1 /\ (m + 1) - 1 = m
    BY <1>2, <1>6, <1>9
  <2>2. ByteLength(<<>>) = 0
    BY ByteLengthNil
  <2>3. \A i \in 1 .. m : ByteLength(SubSeq(t, i, m)) > MaxBytes
    <3> SUFFICES ASSUME NEW i \in 1 .. m PROVE ByteLength(SubSeq(t, i, m)) > MaxBytes
      OBVIOUS
    <3>1. Offset(t, i) + 1 \in 1 .. n
      BY <1>3
    <3>2. Offset(t, i) + 1 < n + 1
      BY <1>2, <1>4, <3>1
    <3> QED
      BY <1>8, <1>9, <3>2
  <2>4. /\ cut = SubSeq(t, m + 1, m) /\ ByteLength(cut) <= MaxBytes
        /\ \A i \in 1 .. (m + 1) - 1 : ByteLength(SubSeq(t, i, m)) > MaxBytes
    BY <1>2, <2>1, <2>2, <2>3
  <2> QED
    BY <2>1, <2>4 DEF m, cut
<1>10. CASE start # n + 1
  <2> DEFINE j == buf[start][1]
  <2>1. start \in from .. n /\ buf[start][2] = 1 /\ start \in 1 .. n /\ ~(start > n)
    BY <1>2, <1>5, <1>7, <1>10
  <2>2. j \in 1 .. m /\ start = Offset(t, j) + 1
    BY <1>3, <2>1
  <2>3. cut = SubSeq(t, j, m)
    BY <1>6, <2>1
  <2> HIDE DEF j
  <2>4. ByteLength(cut) <= MaxBytes
    <3>1. Offset(t, j) \in Nat /\ ByteLength(cut) \in Nat /\ Offset(t, j) + ByteLength(cut) = n
      BY <1>4, <2>2, <2>3
    <3>2. Offset(t, j) + 1 >= from
      BY <1>7, <2>1, <2>2
    <3> QED
      BY <1>2, <1>7, <3>1, <3>2
  <2>5. \A i \in 1 .. j - 1 : ByteLength(SubSeq(t, i, m)) > MaxBytes
    <3> SUFFICES ASSUME NEW i \in 1 .. j - 1 PROVE ByteLength(SubSeq(t, i, m)) > MaxBytes
      OBVIOUS
    <3>1. i \in 1 .. m /\ i - 1 \in 0 .. m /\ j - 1 \in 0 .. m /\ i <= j - 1
      BY <1>2, <2>2
    <3>2. Offset(t, i) < Offset(t, j)
      <4>1. i \in 0 .. m /\ i <= j - 1
        BY <1>2, <3>1
      <4>2. ByteLength(SubSeq(t, 1, i)) = Offset(t, i) + Width[t[i]] /\ Width[t[i]] \in Nat \ {0}
        <5> DEFINE p == SubSeq(t, 1, i - 1)
                   c == t[i]
        <5>1. i - 1 \in 0 .. Len(t) /\ i - 1 # Len(t) /\ (i - 1) + 1 = i
          BY <1>2, <3>1 DEF m
        <5>2. p \in Seq(Char) /\ c \in Char /\ SubSeq(t, 1, i) = Append(p, c)
          BY <1>2, <5>1, PrefixAppend
        <5> HIDE DEF p, c
        <5>3. ByteLength(Append(p, c)) = ByteLength(p) + Width[c]
          BY <5>2, ByteLengthAppend DEF Text
        <5>4. Width[c] \in Nat \ {0}
          BY <5>2, WidthAssumption DEF Char
        <5> QED
          BY <5>2, <5>3, <5>4 DEF Offset, p, c
      <4>3. ByteLength(SubSeq(t, 1, i)) <= Offset(t, j)
        <5> DEFINE p == SubSeq(t, 1, i)
                   q == SubSeq(t, i + 1, j - 1)
        <5>1. p \in Text /\ q \in Text
          BY <1>2, <2>2, <3>1 DEF Text, m
        <5>2. 1 \in 1 .. Len(t) + 1 /\ i \in (1 - 1) .. Len(t) /\ j - 1 \in i .. Len(t)
          BY <1>2, <3>1 DEF m
        <5>3. p \o q = SubSeq(t, 1, j - 1)
          BY <1>2, <5>2, ConcatAdjacentSubSeq
        <5> HIDE DEF p, q
        <5>4. ByteLength(SubSeq(t, 1, j - 1)) = ByteLength(p) + ByteLength(q)
              /\ ByteLength(p) \in Nat /\ ByteLength(q) \in Nat
          BY <5>1, <5>3, ByteLengthConcat, ByteLengthType
        <5> QED
          BY <5>4 DEF Offset, p
      <4>4. Offset(t, i) \in Nat /\ Offset(t, j) \in Nat
        BY <1>4, <2>2, <3>1
      <4> QED
        BY <4>2, <4>3, <4>4
    <3>3. Offset(t, i) + 1 < start
      BY <1>4, <2>2, <3>1, <3>2
    <3> QED
      BY <1>8, <3>1, <3>3
  <2>6. j \in 1 .. m + 1
    BY <1>2, <2>2
  <2> QED
    BY <2>3, <2>4, <2>5, <2>6 DEF m, cut
<1> QED
  BY <1>9, <1>10

\* Everything that the tail shows.
LEMMA TailShown ==
  ASSUME NEW t \in Text
  PROVE  LET lines == Split(t)
             cut == TruncateTail(t)
             n == cut.lines
             line == Last(lines)
         IN  /\ cut.totalLines = Len(lines) /\ n \in 1 .. Len(lines)
             /\ cut.partial =>
                  /\ n = 1 /\ ByteLength(line) > MaxBytes
                  /\ cut.content = TruncateStringToBytesFromEnd(line)
             /\ ~cut.partial =>
                  /\ cut.content = Join(LastLines(lines, n)) /\ Fits(cut.content)
                  /\ n = Len(lines) \/ ~Fits(Join(LastLines(lines, n + 1)))
             /\ cut.partial \in BOOLEAN
<1> DEFINE lines == Split(t)
           k == Len(lines)
           line == Last(lines)
           rev == Reverse(lines)
           v == Taken(rev)
           m == Len(v.out)
           short == v.over /\ v.out = <<>>
           out == IF short THEN <<TruncateStringToBytesFromEnd(line)>> ELSE Reverse(v.out)
           cut == TruncateTail(t)
<1>1. lines \in Seq(Line) /\ lines # <<>>
  BY SplitLines
<1>2. Join(lines) = t
  BY JoinSplit
<1> HIDE DEF lines
<1>3. k \in Nat /\ k # 0 /\ line \in Line
  BY <1>1 DEF Last
<1>4. rev \in Seq(Line) /\ Len(rev) = k /\ \A i \in 1 .. k : rev[i] = lines[k - i + 1]
  BY <1>1, ReverseSeq
<1> HIDE DEF rev
<1>5. Takes(rev, v)
  <2>1. rev \in Seq(Text)
    BY <1>4 DEF Line
  <2> QED
    BY <2>1, TakenLines
<1> HIDE DEF v
<1>6. v \in Takings /\ v.over \in BOOLEAN /\ v.out \in Seq(Text) /\ m \in Nat /\ m <= k /\ m <= MaxLines
      /\ v.out = SubSeq(rev, 1, m) /\ v.bytes = Bytes(v.out) /\ v.bytes <= MaxBytes
  BY <1>4, <1>5 DEF Takes, Takings
<1>7. v.over => m < k /\ m < MaxLines /\ Bytes(SubSeq(rev, 1, m + 1)) > MaxBytes
  BY <1>4, <1>5 DEF Takes
<1>8. ~v.over => m = k \/ m = MaxLines
  BY <1>4, <1>5 DEF Takes
<1>9. MaxLines \in Nat /\ MaxLines # 0 /\ MaxBytes \in Nat
  BY LimitsAssumption
<1>10. cut = IF Fits(t) THEN Whole(t)
             ELSE [content |-> Join(out), truncated |-> TRUE, by |-> LimitHit([v EXCEPT !.out = out]),
                   totalLines |-> k, lines |-> Len(out), partial |-> short, firstTooLong |-> FALSE]
  BY DEF TruncateTail, v, rev, lines, Taken
<1>11. CASE Fits(t)
  <2>1. cut.totalLines = k /\ cut.lines = k /\ cut.content = t /\ cut.partial = FALSE
    BY <1>10, <1>11 DEF Whole, lines
  <2>2. LastLines(lines, k) = lines
    <3>1. k - k + 1 = 1 /\ SubSeq(lines, 1, k) = lines
      BY <1>1, <1>3
    <3> QED
      BY <3>1 DEF LastLines
  <2>3. k \in 1 .. k
    BY <1>3
  <2> QED
    BY <1>2, <1>11, <2>1, <2>2, <2>3 DEF lines
<1>12. CASE ~Fits(t) /\ short
  <2>1. m = 0
    BY <1>12
  <2>2. Bytes(SubSeq(rev, 1, 1)) > MaxBytes
    BY <1>7, <1>12, <2>1
  <2>3. rev[1] = line /\ 1 \in 1 .. Len(rev) /\ rev \in Seq(Text)
    <3>1. k - 1 + 1 = k /\ 1 \in 1 .. k
      BY <1>3
    <3>2. rev[1] = lines[k]
      BY <1>4, <3>1
    <3>3. rev \in Seq(Text)
      BY <1>4 DEF Line
    <3> QED
      BY <1>4, <3>1, <3>2, <3>3 DEF Last
  <2>4. ByteLength(line) > MaxBytes
    BY <2>2, <2>3, BytesOne
  <2>5. line \in Text
    BY <1>3 DEF Line
  <2> DEFINE end == TruncateStringToBytesFromEnd(line)
  <2>6. end \in Text
    <3>1. PICK j \in 1 .. Len(line) + 1 : end = SubSeq(line, j, Len(line))
      BY <2>4, <2>5, CutEnd
    <3> QED
      BY <2>5, <3>1 DEF Text
  <2>7. out = <<end>>
    BY <1>12
  <2> HIDE DEF end
  <2>8. Len(<<end>>) = 1 /\ Join(<<end>>) = end
    BY <2>6, JoinOne
  <2> HIDE DEF out, short
  <2>9. cut.totalLines = k /\ cut.lines = 1 /\ cut.content = end /\ cut.partial
    BY <1>10, <1>12, <2>7, <2>8
  <2>10. 1 \in 1 .. k
    BY <1>3
  <2> QED
    BY <1>12, <1>10, <2>4, <2>9, <2>10 DEF lines, end, short
<1>13. CASE ~Fits(t) /\ ~short
  <2>1. m # 0
    <3> SUFFICES ASSUME m = 0 PROVE FALSE
      OBVIOUS
    <3>1. v.out = <<>>
      BY <1>6
    <3>2. ~v.over
      BY <1>13, <3>1
    <3> QED
      BY <1>3, <1>8, <1>9, <3>2
  <2>2. m \in 1 .. Len(lines)
    BY <1>3, <1>6, <2>1
  <2> DEFINE last == LastLines(lines, m)
  <2>3. /\ last \in Seq(Line) /\ Len(last) = m /\ Reverse(SubSeq(rev, 1, m)) = last
        /\ Fits(Join(last)) <=> m <= MaxLines /\ Bytes(SubSeq(rev, 1, m)) <= MaxBytes
    BY <1>1, <2>2, LastReversed DEF rev
  <2>4. out = last
    BY <1>6, <1>13, <2>3
  <2>5. Fits(Join(last))
    BY <1>6, <2>3
  <2>6. m = k \/ ~Fits(Join(LastLines(lines, m + 1)))
    <3> SUFFICES ASSUME m # k PROVE ~Fits(Join(LastLines(lines, m + 1)))
      OBVIOUS
    <3>1. m + 1 \in 1 .. Len(lines)
      BY <1>3, <1>6, <2>2
    <3>2. Fits(Join(LastLines(lines, m + 1))) <=> m + 1 <= MaxLines /\ Bytes(SubSeq(rev, 1, m + 1)) <= MaxBytes
      BY <1>1, <3>1, LastReversed DEF rev
    <3>3. CASE v.over
      <4>1. SubSeq(rev, 1, m + 1) \in Seq(Text)
        BY <1>4, <3>1 DEF Line
      <4>2. Bytes(SubSeq(rev, 1, m + 1)) \in Nat
        BY <4>1, JoinType, ByteLengthType DEF Bytes
      <4> QED
        BY <1>7, <1>9, <3>2, <3>3, <4>2
    <3>4. CASE ~v.over
      BY <1>6, <1>8, <1>9, <3>2, <3>4
    <3> QED
      BY <3>3, <3>4
  <2> HIDE DEF out, last, short
  <2>7. cut.totalLines = k /\ cut.lines = m /\ cut.content = Join(last) /\ cut.partial = FALSE
    BY <1>10, <1>13, <2>3, <2>4
  <2> QED
    BY <2>2, <2>5, <2>6, <2>7 DEF lines, last
<1> QED
  BY <1>11, <1>12, <1>13

\* The longest end of a line that fits is one only.
LEMMA LongestEnd ==
  ASSUME NEW l \in Line, ByteLength(l) > MaxBytes
  PROVE  TruncateStringToBytesFromEnd(l) =
           CHOOSE t \in Suffixes(l) : Fits(t) /\ \A u \in Suffixes(l) : Fits(u) => Len(u) <= Len(t)
<1> DEFINE m == Len(l)
           end(i) == SubSeq(l, i, m)
           cut == TruncateStringToBytesFromEnd(l)
           longest(t) == Fits(t) /\ \A u \in Suffixes(l) : Fits(u) => Len(u) <= Len(t)
<1>1. l \in Text /\ l \in Seq(Char) /\ m \in Nat /\ end(m + 1) = <<>>
  <2>1. l \in Text
    BY DEF Line
  <2>2. l \in Seq(Char)
    BY <2>1 DEF Text
  <2> QED
    BY <2>1, <2>2
<1>2. PICK j \in 1 .. m + 1 : /\ cut = end(j) /\ ByteLength(cut) <= MaxBytes
                              /\ \A i \in 1 .. j - 1 : ByteLength(end(i)) > MaxBytes
  BY <1>1, CutEnd
<1>3. \A i \in 1 .. m + 1 : end(i) \in Line /\ Len(end(i)) = m - i + 1
  <2> SUFFICES ASSUME NEW i \in 1 .. m + 1 PROVE end(i) \in Line /\ Len(end(i)) = m - i + 1
    OBVIOUS
  <2>1. \A n \in 1 .. m : l[n] \in Char /\ l[n] # LF
    BY <1>1 DEF Line
  <2>2. end(i) \in Seq(Char) /\ Len(end(i)) = m - i + 1 /\ \A n \in 1 .. m - i + 1 : end(i)[n] = l[i + n - 1]
    BY <1>1, <2>1
  <2>3. \A n \in 1 .. m - i + 1 : i + n - 1 \in 1 .. m
    BY <1>1
  <2> HIDE DEF end
  <2>4. \A n \in 1 .. Len(end(i)) : end(i)[n] # LF
    BY <2>1, <2>2, <2>3
  <2> QED
    BY <2>2, <2>4 DEF Line, Text
<1>4. Suffixes(l) = {end(i) : i \in 1 .. m + 1}
  <2>1. 1 .. m + 1 = (1 .. m) \cup {m + 1}
    BY <1>1
  <2>2. Suffixes(l) = {end(i) : i \in 1 .. m} \cup {end(m + 1)}
    BY <1>1 DEF Suffixes
  <2> HIDE DEF end
  <2> QED
    BY <2>1, <2>2
<1>5. \A i \in 1 .. m + 1 : Fits(end(i)) <=> ByteLength(end(i)) <= MaxBytes
  <2>1. 1 <= MaxLines
    BY LimitsAssumption
  <2> SUFFICES ASSUME NEW i \in 1 .. m + 1 PROVE Fits(end(i)) <=> ByteLength(end(i)) <= MaxBytes
    OBVIOUS
  <2> DEFINE e == end(i)
  <2>2. e \in Line
    BY <1>3
  <2> HIDE DEF e
  <2>3. Split(e) = <<e>> /\ Len(<<e>>) = 1
    BY <2>2, SplitOne
  <2>4. Fits(e) <=> ByteLength(e) <= MaxBytes
    BY <2>1, <2>3 DEF Fits
  <2> QED
    BY <2>4 DEF e
<1> HIDE DEF end, cut
<1>6. cut \in Suffixes(l) /\ longest(cut)
  <2>1. \A i \in 1 .. m + 1 : Fits(end(i)) => Len(end(i)) <= Len(cut)
    <3> SUFFICES ASSUME NEW i \in 1 .. m + 1, Fits(end(i)) PROVE Len(end(i)) <= Len(cut)
      OBVIOUS
    <3>1. ByteLength(end(i)) <= MaxBytes /\ ByteLength(end(i)) \in Nat /\ MaxBytes \in Nat
      <4>1. end(i) \in Text
        BY <1>3 DEF Line
      <4> QED
        BY <1>5, <4>1, ByteLengthType, LimitsAssumption
    <3>2. i \notin 1 .. j - 1
      <4> SUFFICES ASSUME i \in 1 .. j - 1 PROVE FALSE
        OBVIOUS
      <4>1. ByteLength(end(i)) > MaxBytes
        BY <1>2
      <4> QED
        BY <3>1, <4>1
    <3>3. j <= i
      BY <1>1, <3>2
    <3> QED
      BY <1>1, <1>2, <1>3, <3>3
  <2> QED
    BY <1>2, <1>4, <1>5, <2>1
<1>7. \A t \in Suffixes(l) : longest(t) => t = cut
  <2> SUFFICES ASSUME NEW i \in 1 .. m + 1, longest(end(i)) PROVE end(i) = cut
    BY <1>4
  <2>1. Len(end(i)) <= Len(cut) /\ Len(cut) <= Len(end(i))
    <3>1. end(i) \in Suffixes(l)
      BY <1>4
    <3> QED
      BY <1>6, <3>1
  <2>2. i = j
    BY <1>1, <1>2, <1>3, <2>1
  <2> QED
    BY <1>2, <2>2
<1> HIDE DEF longest
<1>8. cut = CHOOSE t \in Suffixes(l) : longest(t)
  BY <1>6, <1>7
<1> QED
  BY <1>8 DEF cut, longest

\* A command's output is shown from its end, as much as the limits let through, under the right
\* numbers: TailMaximal holds of every output (bash's notice of what it left out).
THEOREM TailsMaximal == Spec => []TailMaximal
<1> DEFINE Inv == tool = "bash" => text \in Text /\ TailMaximal
<1>1. Init => Inv
  <2> SUFFICES ASSUME Init, tool = "bash" PROVE text \in Text /\ TailMaximal
    OBVIOUS
  <2>1. text \in Text
    BY CallsAssumption DEF Init, Text, Char
  <2> QED
    BY <2>1 DEF Init, TailMaximal, Done
<1>2. Inv /\ [Next]_vars => Inv'
  <2> SUFFICES ASSUME Inv, [Next]_vars, tool' = "bash" PROVE text' \in Text /\ TailMaximal'
    OBVIOUS
  <2>1. CASE UNCHANGED vars
    BY <2>1 DEF vars, TailMaximal, Done
  <2>2. ASSUME NEW reply \in {"done", "failed", "rejected"}, NEW aborted \in BOOLEAN,
               NEW timedOut \in BOOLEAN, Bash(reply, aborted, timedOut)
        PROVE  text' \in Text /\ TailMaximal'
    <3> DEFINE lines == Split(text)
               cut == TruncateTail(text)
               n == cut.lines
               line == Last(lines)
    <3>1. text \in Text /\ tool = "bash" /\ text' = text /\ tool' = tool
      BY <2>2 DEF Bash
    <3>2. CASE reply = "rejected"
      <4>1. call'.error \in {"aborted", "timed out", "rejected"}
        BY <2>2, <3>2 DEF Bash
      <4> QED
        BY <3>1, <4>1 DEF TailMaximal, Done
    <3>3. CASE reply # "rejected"
      <4>1. call'.shown = cut.content /\ call'.partial = cut.partial
            /\ call'.from = cut.totalLines - n + 1 /\ call'.to = cut.totalLines
        BY <2>2, <3>3 DEF Bash
      <4>2. /\ cut.totalLines = Len(lines) /\ n \in 1 .. Len(lines)
            /\ cut.partial =>
                 /\ n = 1 /\ ByteLength(line) > MaxBytes
                 /\ cut.content = TruncateStringToBytesFromEnd(line)
            /\ ~cut.partial =>
                 /\ cut.content = Join(LastLines(lines, n)) /\ Fits(cut.content)
                 /\ n = Len(lines) \/ ~Fits(Join(LastLines(lines, n + 1)))
            /\ cut.partial \in BOOLEAN
        BY <3>1, TailShown
      <4>3. lines \in Seq(Line) /\ lines # <<>>
        BY <3>1, SplitLines
      <4> HIDE DEF lines, cut
      <4>4. Len(lines) \in Nat /\ Len(lines) # 0 /\ line \in Line
        BY <4>3 DEF Last
      <4>5. call'.to = Len(lines) /\ call'.to - call'.from + 1 = n
        BY <4>1, <4>2, <4>4
      <4>6. CASE cut.partial
        <5>1. ~Fits(line)
          <6>1. line \in Text
            BY <4>4 DEF Line
          <6>2. ByteLength(line) \in Nat /\ MaxBytes \in Nat
            BY <6>1, ByteLengthType, LimitsAssumption
          <6> QED
            BY <4>2, <4>6, <6>2 DEF Fits
        <5>2. call'.shown = CHOOSE t \in Suffixes(line) :
                              Fits(t) /\ \A u \in Suffixes(line) : Fits(u) => Len(u) <= Len(t)
          BY <4>1, <4>2, <4>4, <4>6, LongestEnd
        <5> QED
          BY <3>1, <4>1, <4>2, <4>5, <4>6, <5>1, <5>2 DEF TailMaximal, Done, lines
      <4>7. CASE ~cut.partial
        BY <3>1, <4>1, <4>2, <4>5, <4>7 DEF TailMaximal, Done, LastLines, lines
      <4> QED
        BY <4>2, <4>6, <4>7
    <3> QED
      BY <3>2, <3>3
  <2>3. tool' = tool
    BY DEF Next, vars, Read, ReadOn, ReadFails, Show, Edit, TellChange, Bash
  <2> QED
    BY <2>1, <2>2, <2>3 DEF Next, Read, ReadOn, ReadFails, Show, Edit, TellChange
<1>3. Inv => TailMaximal
  BY DEF TailMaximal, Done
<1> QED
  BY <1>1, <1>2, <1>3, PTL DEF Spec

-----------------------------------------------------------------------------
(* Line endings *)

\* One more character of a text whose CR LFs become LF.
Unify(t, c) == IF c = LF /\ t # <<>> /\ Last(t) = CR THEN Append(Front(t), LF) ELSE Append(t, c)

Unified(t) == FoldLeft(LAMBDA u, c : IF c = LF /\ u # <<>> /\ Last(u) = CR THEN Append(Front(u), LF)
                                                                         ELSE Append(u, c), <<>>, t)

LEMMA UnifyType ==
  ASSUME NEW t \in Text, NEW c \in Char PROVE Unify(t, c) \in Text
<1>1. Append(t, c) \in Text /\ LF \in Char /\ t \in Seq(Char)
  BY WidthAssumption DEF Text, Char
<1>2. t # <<>> => Front(t) \in Seq(Char)
  BY <1>1 DEF Front
<1> QED
  BY <1>1, <1>2 DEF Unify, Text

\* The characters are taken one by one.
LEMMA UnifiedRun ==
  ASSUME NEW t \in Text
  PROVE  \E g : /\ g[0] = <<>>
                /\ \A i \in 1 .. Len(t) : g[i] = IF t[i] = LF /\ g[i - 1] # <<>> /\ Last(g[i - 1]) = CR THEN Append(Front(g[i - 1]), LF) ELSE Append(g[i - 1], t[i])
                /\ Unified(t) = g[Len(t)]
<1> DEFINE n == Len(t)
           Step(v, i) == IF t[i] = LF /\ v # <<>> /\ Last(v) = CR THEN Append(Front(v), LF) ELSE Append(v, t[i])
           Fold(f) == [s \in SUBSET (1 .. n) |-> IF s = {} THEN <<>> ELSE Step(f[s \ {Max(s)}], Max(s))]
           step == [p \in (Text) \X (1 .. n) |-> Step(p[1], p[2])]
           iter == CHOOSE f : f = Fold(f)
<1>1. n \in Nat /\ DOMAIN t = 1 .. n /\ <<>> \in Text
  BY DEF Text
<1>2. step \in [(Text) \X (1 .. n) -> Text]
  <2>1. \A v \in Text, i \in 1 .. n : Step(v, i) \in Text
    BY UnifyType DEF Text, Unify
  <2> HIDE DEF Step, n
  <2> QED
    BY <2>1
<1>3. \A v \in Text, i \in 1 .. n : step[<<v, i>>] = Step(v, i)
  OBVIOUS
<1>4. iter = Fold(iter)
  <2> HIDE DEF step, n, Step
  <2>1. PICK f : IsFold(f, n, Text, <<>>, step)
    BY <1>1, <1>2, FoldExists
  <2>2. ASSUME NEW s \in SUBSET (1 .. n), s # {} PROVE f[s] = Step(f[s \ {Max(s)}], Max(s))
    <3>1. f[s \ {Max(s)}] \in Text
      BY <2>1 DEF IsFold
    <3> QED
      BY <1>3, <2>1, <2>2, <3>1 DEF IsFold
  <2>3. f = Fold(f)
    BY <2>1, <2>2 DEF IsFold
  <2> QED
    BY <2>3
<1>5. Unified(t) = iter[1 .. n]
  BY <1>1 DEF Unified, FoldLeft, MapThenFoldSet
<1> HIDE DEF iter, Step, n
<1>6. ASSUME NEW i \in 1 .. n PROVE iter[1 .. i] = Step(iter[1 .. (i - 1)], i)
  <2>1. Max(1 .. i) = i /\ (1 .. i) \ {i} = 1 .. (i - 1) /\ 1 .. i # {}
    <3>1. i \in Nat /\ i # 0
      BY <1>1
    <3> QED
      BY <3>1, MaxOfInterval
  <2>2. 1 .. i \in SUBSET (1 .. n)
    BY <1>1
  <2>3. iter[1 .. i] = Fold(iter)[1 .. i]
    BY <1>4
  <2> QED
    BY <2>1, <2>2, <2>3
<1>7. iter[1 .. 0] = <<>>
  BY <1>4
<1> DEFINE g == [k \in 0 .. n |-> iter[1 .. k]]
<1>8. g[0] = <<>> /\ g[n] = iter[1 .. n] /\ \A i \in 1 .. n : g[i] = Step(g[i - 1], i)
  BY <1>1, <1>6, <1>7
<1> HIDE DEF g
<1> QED
  BY <1>5, <1>8 DEF n, Step

\* Of nothing.
LEMMA UnifiedNil ==
  Unified(<<>>) = <<>>
<1>1. <<>> \in Text /\ Len(<<>>) = 0
  BY DEF Text
<1> QED
  BY <1>1, UnifiedRun, ZenonT(30)

\* One more character.
LEMMA UnifiedAppend ==
  ASSUME NEW t \in Text, NEW c \in Char
  PROVE  Unified(Append(t, c)) = IF c = LF /\ Unified(t) # <<>> /\ Last(Unified(t)) = CR THEN Append(Front(Unified(t)), LF) ELSE Append(Unified(t), c)
<1> DEFINE n == Len(t)
           u == Append(t, c)
<1>1. n \in Nat /\ u \in Text /\ Len(u) = n + 1 /\ u[n + 1] = c /\ \A i \in 1 .. n : u[i] = t[i]
  BY DEF Text
<1>2. PICK g : /\ g[0] = <<>>
               /\ \A i \in 1 .. Len(u) : g[i] = IF u[i] = LF /\ g[i - 1] # <<>> /\ Last(g[i - 1]) = CR THEN Append(Front(g[i - 1]), LF) ELSE Append(g[i - 1], u[i])
               /\ Unified(u) = g[Len(u)]
  BY <1>1, UnifiedRun
<1>3. PICK h : /\ h[0] = <<>>
               /\ \A i \in 1 .. n : h[i] = IF t[i] = LF /\ h[i - 1] # <<>> /\ Last(h[i - 1]) = CR THEN Append(Front(h[i - 1]), LF) ELSE Append(h[i - 1], t[i])
               /\ Unified(t) = h[n]
  BY UnifiedRun
<1> HIDE DEF n, u
<1>4. ASSUME NEW i \in 1 .. n, g[i - 1] = h[i - 1] PROVE g[i] = h[i]
  <2>1. i \in 1 .. Len(u)
    BY <1>1
  <2>2. g[i] = IF u[i] = LF /\ g[i - 1] # <<>> /\ Last(g[i - 1]) = CR THEN Append(Front(g[i - 1]), LF) ELSE Append(g[i - 1], u[i])
    BY <1>2, <2>1
  <2>3. h[i] = IF t[i] = LF /\ h[i - 1] # <<>> /\ Last(h[i - 1]) = CR THEN Append(Front(h[i - 1]), LF) ELSE Append(h[i - 1], t[i])
    BY <1>3
  <2>4. u[i] = t[i]
    BY <1>1
  <2> QED
    BY <1>4, <2>2, <2>3, <2>4
<1>5. g[n] = h[n]
  <2>1. g[0] = h[0] /\ n \in Nat
    BY <1>1, <1>2, <1>3
  <2>2. \A i \in 0 .. n : g[i] = h[i]
    BY <2>1, <1>4, RunsAgree, ZenonT(30)
  <2> QED
    BY <1>1, <2>2
<1>6. n + 1 \in 1 .. Len(u) /\ (n + 1) - 1 = n
  BY <1>1
<1>7. g[n + 1] = IF c = LF /\ g[n] # <<>> /\ Last(g[n]) = CR THEN Append(Front(g[n]), LF) ELSE Append(g[n], c)
  BY <1>1, <1>2, <1>6
<1> QED
  BY <1>1, <1>2, <1>3, <1>5, <1>7 DEF u

LEMMA UnifiedType ==
  ASSUME NEW t \in Text PROVE Unified(t) \in Text
<1> DEFINE P == {u \in Text : Unified(u) \in Text}
<1>1. <<>> \in P
  <2>1. <<>> \in Text
    BY DEF Text
  <2> QED
    BY <2>1, UnifiedNil
<1>2. ASSUME NEW u \in Seq(Char), NEW c \in Char, u \in P PROVE Append(u, c) \in P
  <2>1. u \in Text /\ Append(u, c) \in Text /\ Unified(u) \in Text
    BY <1>2 DEF Text
  <2>2. Unified(Append(u, c)) = Unify(Unified(u), c)
    BY <2>1, UnifiedAppend DEF Unify
  <2> QED
    BY <2>1, <2>2, UnifyType
<1> HIDE DEF P
<1>3. \A u \in Seq(Char) : u \in P
  BY <1>1, <1>2, SequenceInduction
<1> QED
  BY <1>3 DEF P, Text

\* What is restored with an ending, character by character.
LEMMA RestoreAppend ==
  ASSUME NEW u \in Text, NEW c \in Char, NEW e \in Text
  PROVE  /\ RestoreLineEndings(<<>>, e) = <<>>
         /\ RestoreLineEndings(u, e) \in Text
         /\ RestoreLineEndings(Append(u, c), e) = RestoreLineEndings(u, e) \o IF c = LF THEN e ELSE <<c>>
<1> DEFINE piece(d) == IF d = LF THEN e ELSE <<d>>
           v == Append(u, c)
           s == [n \in DOMAIN u |-> piece(u[n])]
           r == [n \in DOMAIN v |-> piece(v[n])]
           x == piece(c)
<1>1. /\ DOMAIN u = 1 .. Len(u) /\ DOMAIN v = 1 .. Len(u) + 1 /\ Len(u) \in Nat /\ v[Len(u) + 1] = c
      /\ \A n \in 1 .. Len(u) : u[n] \in Char /\ v[n] = u[n]
  BY DEF Text
<1>2. \A d \in Char : piece(d) \in Seq(Char)
  BY DEF Text
<1> HIDE DEF v, piece
<1>3. s \in Seq(Seq(Char)) /\ Len(s) = Len(u) /\ \A n \in 1 .. Len(u) : s[n] = piece(u[n])
  BY <1>1, <1>2
<1>4. x \in Seq(Char)
  BY <1>2
<1>5. r \in Seq(Seq(Char)) /\ Len(r) = Len(u) + 1 /\ r[Len(u) + 1] = x
      /\ \A n \in 1 .. Len(u) : r[n] = s[n]
  <2>1. \A n \in 1 .. Len(u) + 1 : v[n] \in Char
    BY <1>1
  <2>2. r = [n \in 1 .. Len(u) + 1 |-> piece(v[n])]
    BY <1>1
  <2>3. r \in Seq(Seq(Char)) /\ Len(r) = Len(u) + 1
    BY <1>1, <1>2, <2>1, <2>2
  <2> QED
    BY <1>1, <2>3
<1> HIDE DEF s, r, x
<1>6. r = Append(s, x)
  <2> DEFINE w == Append(s, x)
             S == Seq(Char)
  <2>1. w \in Seq(S) /\ Len(w) = Len(u) + 1 /\ w[Len(u) + 1] = x /\ \A n \in 1 .. Len(u) : w[n] = s[n]
    BY <1>3, <1>4
  <2>2. \A n \in 1 .. Len(u) + 1 : n # Len(u) + 1 => n \in 1 .. Len(u)
    BY <1>1
  <2> HIDE DEF w, S
  <2>3. \A n \in 1 .. Len(u) + 1 : w[n] = r[n]
    BY <1>5, <2>1, <2>2
  <2>4. r \in Seq(S)
    BY <1>5 DEF S
  <2>5. w = r
    BY <1>5, <2>1, <2>3, <2>4, SameSequence
  <2> QED
    BY <2>5 DEF w
<1>7. FlattenSeq(r) = FlattenSeq(s) \o x /\ FlattenSeq(s) \in Seq(Char)
  BY <1>3, <1>4, <1>6, FlattenAppend, FlattenType
<1>8. RestoreLineEndings(u, e) = FlattenSeq(s) /\ RestoreLineEndings(v, e) = FlattenSeq(r)
  BY DEF RestoreLineEndings, s, r, piece
<1>9. RestoreLineEndings(<<>>, e) = <<>>
  <2> DEFINE none == <<>>
  <2>1. [n \in DOMAIN none |-> IF none[n] = LF THEN e ELSE <<none[n]>>] = none
    OBVIOUS
  <2> QED
    BY <2>1, FlattenNil DEF RestoreLineEndings
<1> QED
  BY <1>7, <1>8, <1>9 DEF v, x, piece, Text

\* Texts without a CR.
Unix == Seq(Char \ {CR})

\* The two line endings.
Endings == {<<LF>>, <<CR, LF>>}

LEMMA EndingsType == /\ \A e \in Endings : e \in Text
                     /\ LF \in Char /\ CR \in Char /\ LF # CR
                     /\ \A u \in Unix : u \in Text /\ u \in Seq(Char)
<1>1. LF \in Char /\ CR \in Char /\ LF # CR
  BY WidthAssumption, CharsAssumption DEF Char
<1>2. \A e \in Endings : e \in Text
  BY <1>1, SMTT(30) DEF Endings, Text
<1>3. \A u \in Unix : u \in Text /\ u \in Seq(Char)
  BY DEF Unix, Text
<1> QED
  BY <1>1, <1>2, <1>3

\* A normalized text has no CR.
LEMMA NormalizeType ==
  ASSUME NEW t \in Text PROVE NormalizeToLF(t) \in Unix
<1> DEFINE u == Unified(t)
<1>1. u \in Text
  BY UnifiedType
<1>2. NormalizeToLF(t) = [n \in DOMAIN u |-> IF u[n] = CR THEN LF ELSE u[n]]
  BY DEF NormalizeToLF, Unified
<1> HIDE DEF u
<1>3. \A n \in 1 .. Len(u) : (IF u[n] = CR THEN LF ELSE u[n]) \in Char \ {CR}
  BY <1>1, EndingsType DEF Text
<1>4. DOMAIN u = 1 .. Len(u) /\ Len(u) \in Nat
  BY <1>1 DEF Text
<1> QED
  BY <1>2, <1>3, <1>4 DEF Unix

\* A text without a CR comes back from either line ending.
LEMMA RestoreNormalize ==
  ASSUME NEW u \in Unix, NEW e \in Endings
  PROVE  NormalizeToLF(RestoreLineEndings(u, e)) = u
<1> DEFINE R(w) == RestoreLineEndings(w, e)
           P == {w \in Unix : Unified(R(w)) = w}
           D == Char \ {CR}
<1>0. e \in Text /\ LF \in D /\ CR \in Char /\ LF # CR
  BY EndingsType
<1>1. <<>> \in P
  <2>1. <<>> \in Unix /\ <<>> \in Text
    BY DEF Unix, Text
  <2> QED
    BY <1>0, <2>1, RestoreAppend, UnifiedNil
<1>2. ASSUME NEW w \in Seq(D), NEW c \in D, w \in P PROVE Append(w, c) \in P
  <2> DEFINE r == R(w)
  <2>1. w \in Text /\ c \in Char /\ w \in Unix /\ Append(w, c) \in Unix /\ Append(w, c) \in Text
    <3>1. w \in Seq(D) /\ Append(w, c) \in Seq(D)
      OBVIOUS
    <3> QED
      BY <3>1, EndingsType DEF Unix
  <2>2. r \in Text /\ R(Append(w, c)) = r \o IF c = LF THEN e ELSE <<c>>
    BY <1>0, <2>1, RestoreAppend
  <2>3. Unified(r) = w
    BY <1>2
  <2> HIDE DEF R, r
  <2>4. w # <<>> => Last(w) # CR
    BY DEF Last
  <2>5. \A d \in Char : d # CR => Unified(Append(r, d)) = Append(w, d)
    <3> SUFFICES ASSUME NEW d \in Char, d # CR PROVE Unified(Append(r, d)) = Append(w, d)
      OBVIOUS
    <3>1. Unified(Append(r, d)) = IF d = LF /\ Unified(r) # <<>> /\ Last(Unified(r)) = CR
                                  THEN Append(Front(Unified(r)), LF) ELSE Append(Unified(r), d)
      BY <2>2, UnifiedAppend
    <3> QED
      BY <2>3, <2>4, <3>1
  <2>6. CASE c = LF /\ e = <<CR, LF>>
    <3> DEFINE q == Append(r, CR)
               m == Append(w, CR)
    <3>1. R(Append(w, c)) = Append(q, LF) /\ q \in Text
      <4>1. r \in Seq(Char) /\ q \in Seq(Char)
        BY <1>0, <2>2 DEF Text
      <4>2. r \o <<CR, LF>> = Append(q, LF)
        BY <1>0, <4>1
      <4> QED
        BY <2>2, <2>6, <4>1, <4>2 DEF Text
    <3>2. Unified(q) = m
      <4>1. Unified(q) = IF CR = LF /\ Unified(r) # <<>> /\ Last(Unified(r)) = CR
                         THEN Append(Front(Unified(r)), LF) ELSE Append(Unified(r), CR)
        BY <1>0, <2>2, UnifiedAppend
      <4> QED
        BY <1>0, <2>3, <4>1
    <3>3. m # <<>> /\ Last(m) = CR /\ Front(m) = w
      <4>1. w \in Seq(Char)
        BY <2>1 DEF Text
      <4>2. Len(m) = Len(w) + 1 /\ m[Len(w) + 1] = CR /\ Len(w) \in Nat
        BY <4>1
      <4>3. SubSeq(m, 1, Len(w)) = w /\ Len(m) - 1 = Len(w)
        BY <4>1, <4>2
      <4> QED
        BY <4>2, <4>3 DEF Last, Front
    <3> HIDE DEF q, m
    <3>4. Unified(Append(q, LF)) = IF LF = LF /\ Unified(q) # <<>> /\ Last(Unified(q)) = CR
                                   THEN Append(Front(Unified(q)), LF) ELSE Append(Unified(q), LF)
      BY <1>0, <3>1, UnifiedAppend
    <3>5. Unified(Append(q, LF)) = Append(w, LF)
      BY <3>2, <3>3, <3>4
    <3> QED
      BY <2>1, <2>6, <3>1, <3>5
  <2>7. CASE ~(c = LF /\ e = <<CR, LF>>)
    <3>1. R(Append(w, c)) = Append(r, c)
      <4>1. (IF c = LF THEN e ELSE <<c>>) = <<c>>
        BY <2>7 DEF Endings
      <4>2. r \o <<c>> = Append(r, c)
        BY <2>1, <2>2 DEF Text
      <4> QED
        BY <2>2, <4>1, <4>2
    <3>2. Unified(Append(r, c)) = Append(w, c)
      BY <2>1, <2>5
    <3> QED
      BY <2>1, <3>1, <3>2
  <2> QED
    BY <2>6, <2>7
<1> HIDE DEF P, D
<1>3. \A w \in Seq(D) : w \in P
  BY <1>1, <1>2, SequenceInduction
<1>4. Unified(R(u)) = u
  BY <1>3 DEF P, D, Unix
<1>5. NormalizeToLF(R(u)) = [n \in DOMAIN u |-> IF u[n] = CR THEN LF ELSE u[n]]
  <2> HIDE DEF R
  <2> QED
    BY <1>4 DEF NormalizeToLF, Unified
<1>6. [n \in DOMAIN u |-> IF u[n] = CR THEN LF ELSE u[n]] = u
  BY DEF Unix
<1> QED
  BY <1>5, <1>6

\* Where one character, or two, occur.
LEMMA OccursOne ==
  ASSUME NEW t \in Text, NEW c \in Char
  PROVE  Occurrences(t, <<c>>) = {i \in 0 .. Len(t) - 1 : t[i + 1] = c}
<1>1. Len(<<c>>) = 1 /\ Len(t) \in Nat
  BY DEF Text
<1>2. \A i \in 0 .. Len(t) - 1 : SubSeq(t, i + 1, i + 1) = <<t[i + 1]>>
  <2>1. \A i \in 0 .. Len(t) - 1 : i + 1 \in 1 .. Len(t)
    BY <1>1
  <2> QED
    BY <2>1, ShortPieces DEF Text
<1>3. \A i \in 0 .. Len(t) - 1 : SubSeq(t, i + 1, i + 1) = <<c>> <=> t[i + 1] = c
  BY <1>2
<1> QED
  BY <1>1, <1>3 DEF Occurrences

LEMMA OccursTwo ==
  ASSUME NEW t \in Text, NEW c \in Char, NEW d \in Char
  PROVE  Occurrences(t, <<c, d>>) = {i \in 0 .. Len(t) - 2 : t[i + 1] = c /\ t[i + 2] = d}
<1>1. Len(<<c, d>>) = 2 /\ Len(t) \in Nat
  BY DEF Text
<1>2. \A i \in 0 .. Len(t) - 2 : SubSeq(t, i + 1, i + 2) = <<t[i + 1], t[i + 2]>>
  <2>1. \A i \in 0 .. Len(t) - 2 : i + 1 \in 1 .. Len(t) /\ (i + 1) + 1 \in 1 .. Len(t) /\ (i + 1) + 1 = i + 2
    BY <1>1
  <2>2. \A k \in 1 .. Len(t) : k + 1 \in 1 .. Len(t) => SubSeq(t, k, k + 1) = <<t[k], t[k + 1]>>
    BY ShortPieces DEF Text
  <2> QED
    BY <2>1, <2>2
<1>3. \A i \in 0 .. Len(t) - 2 : SubSeq(t, i + 1, i + 2) = <<c, d>> <=> t[i + 1] = c /\ t[i + 2] = d
  BY <1>2
<1> QED
  BY <1>1, <1>3 DEF Occurrences

\* The ending that was restored is the one that is found.
LEMMA RestoreDetect ==
  ASSUME NEW u \in Unix, NEW e \in Endings
  PROVE  LET t == RestoreLineEndings(u, e)
         IN  /\ t \in Text
             /\ LF \in Range(t) => DetectLineEnding(t) = e
             /\ LF \notin Range(t) => t = u /\ LF \notin Range(u)
<1> DEFINE R(w) == RestoreLineEndings(w, e)
           D == Char \ {CR}
           \* every LF follows a CR
           Follows(t) == \A k \in 1 .. Len(t) : t[k] = LF => k - 1 \in 1 .. Len(t) /\ t[k - 1] = CR
           P == {w \in Unix : /\ e = <<LF>> => R(w) = w
                              /\ e = <<CR, LF>> => Follows(R(w))
                              /\ (\A k \in 1 .. Len(w) : w[k] # LF) => R(w) = w
                              /\ (\E k \in 1 .. Len(w) : w[k] = LF) => \E k \in 1 .. Len(R(w)) : R(w)[k] = LF}
<1>0. e \in Text /\ LF \in D /\ CR \in Char /\ LF # CR /\ LF \in Char
  BY EndingsType
<1>1. <<>> \in P
  <2>1. <<>> \in Unix /\ <<>> \in Text /\ Len(<<>>) = 0
    BY DEF Unix, Text
  <2>2. R(<<>>) = <<>>
    BY <1>0, <2>1, RestoreAppend
  <2> QED
    BY <2>1, <2>2
<1>2. ASSUME NEW w \in Seq(D), NEW c \in D, w \in P PROVE Append(w, c) \in P
  <2> DEFINE r == R(w)
             v == Append(w, c)
             x == IF c = LF THEN e ELSE <<c>>
             q == R(v)
  <2>1. w \in Text /\ c \in Char /\ w \in Unix /\ v \in Unix /\ v \in Text
    <3>1. w \in Seq(D) /\ Append(w, c) \in Seq(D)
      OBVIOUS
    <3> QED
      BY <3>1, EndingsType DEF Unix
  <2>2. r \in Text /\ q = r \o x /\ q \in Text
    BY <1>0, <2>1, RestoreAppend
  <2>3. /\ e = <<LF>> => r = w
        /\ e = <<CR, LF>> => Follows(r)
        /\ (\A k \in 1 .. Len(w) : w[k] # LF) => r = w
        /\ (\E k \in 1 .. Len(w) : w[k] = LF) => \E k \in 1 .. Len(r) : r[k] = LF
    BY <1>2
  <2>4. /\ Len(v) = Len(w) + 1 /\ v[Len(w) + 1] = c /\ Len(w) \in Nat /\ \A k \in 1 .. Len(w) : v[k] = w[k]
        /\ \A t \in Text, d \in Char : t \o <<d>> = Append(t, d)
    BY DEF Text
  <2>5. x \in Text /\ r \in Seq(Char)
    BY <1>0, <2>1, <2>2 DEF Text
  <2> HIDE DEF R, r, v, q, D, P
  <2>6. /\ Len(q) = Len(r) + Len(x) /\ Len(r) \in Nat /\ Len(x) \in Nat
        /\ \A k \in 1 .. Len(r) + Len(x) : q[k] = IF k <= Len(r) THEN r[k] ELSE x[k - Len(r)]
    <3>1. x \in Seq(Char)
      BY <2>5 DEF Text
    <3> HIDE DEF x
    <3> QED
      BY <2>2, <2>5, <3>1, ConcatProperties
  <2>7. e = <<LF>> \/ c # LF => x = <<c>>
    OBVIOUS
  <2>8. (r = w /\ x = <<c>>) => q = v
    BY <2>1, <2>2, <2>4 DEF v
  <2>9. e = <<LF>> => q = v
    BY <2>3, <2>7, <2>8
  <2>10. ASSUME \A k \in 1 .. Len(v) : v[k] # LF PROVE q = v
    <3>1. c # LF /\ \A k \in 1 .. Len(w) : w[k] # LF
      <4>1. Len(w) + 1 \in 1 .. Len(v) /\ \A k \in 1 .. Len(w) : k \in 1 .. Len(v)
        BY <2>4
      <4> QED
        BY <2>4, <2>10, <4>1
    <3> QED
      BY <2>3, <2>7, <2>8, <3>1
  <2>11. ASSUME NEW k \in 1 .. Len(v), v[k] = LF PROVE \E m \in 1 .. Len(q) : q[m] = LF
    <3>1. CASE k \in 1 .. Len(w)
      <4>1. PICK m \in 1 .. Len(r) : r[m] = LF
        BY <2>3, <2>4, <2>11, <3>1
      <4>2. m \in 1 .. Len(r) + Len(x) /\ m <= Len(r)
        BY <2>6
      <4> QED
        BY <2>6, <4>1, <4>2
    <3>2. CASE k \notin 1 .. Len(w)
      <4>1. c = LF /\ x = e
        BY <2>4, <2>11, <3>2
      <4>2. Len(e) # 0 /\ Len(e) \in Nat /\ e[Len(e)] = LF
        <5>1. CASE e = <<LF>>
          <6>1. Len(e) = 1
            BY <5>1
          <6> QED
            BY <5>1, <6>1
        <5>2. CASE e = <<CR, LF>>
          <6>1. Len(e) = 2
            BY <5>2
          <6> QED
            BY <5>2, <6>1
        <5> QED
          BY <5>1, <5>2 DEF Endings
      <4>3. Len(r) + Len(e) \in 1 .. Len(r) + Len(x) /\ ~(Len(r) + Len(e) <= Len(r)) /\ (Len(r) + Len(e)) - Len(r) = Len(e)
        BY <2>6, <4>1, <4>2
      <4>4. q[Len(r) + Len(e)] = e[Len(e)]
        BY <2>6, <4>1, <4>3
      <4> QED
        BY <2>6, <4>2, <4>3, <4>4
    <3> QED
      BY <3>1, <3>2
  <2>12. ASSUME e = <<CR, LF>> PROVE Follows(q)
    <3> SUFFICES ASSUME NEW k \in 1 .. Len(q), q[k] = LF PROVE k - 1 \in 1 .. Len(q) /\ q[k - 1] = CR
      OBVIOUS
    <3>1. CASE k <= Len(r)
      <4>1. k \in 1 .. Len(r) /\ r[k] = LF
        BY <2>6, <3>1
      <4>2. k - 1 \in 1 .. Len(r) /\ r[k - 1] = CR
        BY <2>3, <2>12, <4>1
      <4>3. k - 1 \in 1 .. Len(r) + Len(x) /\ k - 1 <= Len(r)
        BY <2>6, <4>2
      <4> QED
        BY <2>6, <4>2, <4>3
    <3>2. CASE ~(k <= Len(r))
      <4>1. x[k - Len(r)] = LF /\ k - Len(r) \in 1 .. Len(x)
        BY <2>6, <3>2
      <4>2. c = LF /\ x = <<CR, LF>>
        <5> SUFFICES ASSUME c # LF PROVE FALSE
          BY <2>12
        <5>1. x = <<c>> /\ Len(<<c>>) = 1
          BY <2>7
        <5>2. k - Len(r) = 1
          BY <2>6, <4>1, <5>1
        <5> QED
          BY <4>1, <5>1, <5>2
      <4>3. Len(x) = 2 /\ x[1] = CR /\ x[2] = LF
        BY <4>2
      <4>4. k - Len(r) = 2
        BY <1>0, <2>6, <4>1, <4>3, SMTT(30)
      <4>5. k - 1 \in 1 .. Len(r) + Len(x) /\ ~(k - 1 <= Len(r)) /\ (k - 1) - Len(r) = 1
        BY <2>6, <4>3, <4>4
      <4>6. q[k - 1] = x[1]
        BY <2>6, <4>5
      <4> QED
        BY <2>6, <4>3, <4>5, <4>6
    <3> QED
      BY <3>1, <3>2
  <2> HIDE DEF Follows
  <2> QED
    BY <2>1, <2>9, <2>10, <2>11, <2>12 DEF P, q, v
<1> HIDE DEF P, D, R
<1>3. \A w \in Seq(D) : w \in P
  BY <1>1, <1>2, SequenceInduction
<1> DEFINE t == R(u)
<1>4. /\ e = <<LF>> => t = u
      /\ e = <<CR, LF>> => Follows(t)
      /\ (\A k \in 1 .. Len(u) : u[k] # LF) => t = u
      /\ (\E k \in 1 .. Len(u) : u[k] = LF) => \E k \in 1 .. Len(t) : t[k] = LF
  BY <1>3 DEF P, D, Unix
<1>5. t \in Text /\ u \in Text
  <2>1. u \in Text
    BY EndingsType
  <2> QED
    BY <1>0, <2>1, RestoreAppend DEF R
<1> HIDE DEF t
<1>6. Len(t) \in Nat /\ Len(u) \in Nat /\ DOMAIN t = 1 .. Len(t) /\ DOMAIN u = 1 .. Len(u)
  BY <1>5 DEF Text
<1>7. (LF \in Range(t) <=> \E k \in 1 .. Len(t) : t[k] = LF)
      /\ (LF \in Range(u) <=> \E k \in 1 .. Len(u) : u[k] = LF)
  BY <1>6 DEF Range
<1>8. LF \notin Range(t) => t = u /\ LF \notin Range(u)
  BY <1>4, <1>7
<1>9. ASSUME LF \in Range(t) PROVE DetectLineEnding(t) = e
  <2> DEFINE ones == Occurrences(t, <<LF>>)
             twos == Occurrences(t, <<CR, LF>>)
  <2>1. ones = {i \in 0 .. Len(t) - 1 : t[i + 1] = LF}
    BY <1>0, <1>5, OccursOne
  <2>2. twos = {i \in 0 .. Len(t) - 2 : t[i + 1] = CR /\ t[i + 2] = LF}
    BY <1>0, <1>5, OccursTwo
  <2> HIDE DEF ones, twos
  <2>3. ones \in SUBSET Nat /\ twos \in SUBSET Nat
    BY <1>6, <2>1, <2>2
  <2>4. ones # {}
    <3>1. PICK k \in 1 .. Len(t) : t[k] = LF
      BY <1>7, <1>9
    <3>2. k - 1 \in 0 .. Len(t) - 1 /\ (k - 1) + 1 = k
      BY <1>6
    <3> QED
      BY <2>1, <3>1, <3>2
  <2>5. DetectLineEnding(t) = IF IndexOf(t, <<LF>>) # -1 /\ IndexOf(t, <<CR, LF>>) # -1
                                 /\ IndexOf(t, <<CR, LF>>) < IndexOf(t, <<LF>>)
                              THEN <<CR, LF>> ELSE <<LF>>
    BY DEF DetectLineEnding
  <2>6. IndexOf(t, <<LF>>) = Min(ones)
    BY <2>4 DEF IndexOf, ones
  <2>7. IndexOf(t, <<CR, LF>>) = IF twos = {} THEN -1 ELSE Min(twos)
    BY DEF IndexOf, twos
  <2>8. CASE e = <<LF>>
    <3>1. t = u /\ \A k \in 1 .. Len(t) : t[k] # CR
      BY <1>4, <2>8 DEF Unix
    <3>2. \A i \in 0 .. Len(t) - 2 : i + 1 \in 1 .. Len(t)
      BY <1>6
    <3>3. twos = {}
      BY <2>2, <3>1, <3>2
    <3> QED
      BY <2>5, <2>7, <2>8, <3>3
  <2>9. CASE e = <<CR, LF>>
    <3> DEFINE i == Min(ones)
    <3>1. i \in ones /\ i \in Nat
      BY <2>3, <2>4, MinExists
    <3> HIDE DEF i
    <3>2. i + 1 \in 1 .. Len(t) /\ t[i + 1] = LF
      BY <1>6, <2>1, <3>1
    <3>3. (i + 1) - 1 \in 1 .. Len(t) /\ t[(i + 1) - 1] = CR
      BY <1>4, <2>9, <3>2
    <3>4. i \in 1 .. Len(t) /\ t[i] = CR /\ (i - 1) + 1 = i /\ (i - 1) + 2 = i + 1
      BY <3>1, <3>3
    <3>5. i - 1 \in twos
      <4>1. i - 1 \in 0 .. Len(t) - 2
        BY <1>6, <3>2, <3>4
      <4> QED
        BY <2>2, <3>2, <3>4, <4>1
    <3>6. Min(twos) \in twos /\ Min(twos) <= i - 1 /\ Min(twos) \in Nat
      BY <2>3, <3>5, MinExists
    <3>7. Min(twos) # -1 /\ i # -1 /\ Min(twos) < i /\ twos # {}
      BY <3>1, <3>5, <3>6
    <3> QED
      BY <2>5, <2>6, <2>7, <2>9, <3>7 DEF i
  <2> QED
    BY <2>8, <2>9 DEF Endings
<1> QED
  BY <1>5, <1>8, <1>9 DEF t, R

\* A text restored with an ending has that ending on every line, and none if it has no line to end.
LEMMA RestoredUniform ==
  ASSUME NEW u \in Unix, NEW e \in Endings
  PROVE  Uniform(RestoreLineEndings(u, e))
<1> DEFINE t == RestoreLineEndings(u, e)
<1>1. NormalizeToLF(t) = u
  BY RestoreNormalize
<1>2. LF \in Range(t) => DetectLineEnding(t) = e
  BY RestoreDetect
<1>3. LF \notin Range(t) => t = u /\ LF \notin Range(u)
  BY RestoreDetect
<1>4. DetectLineEnding(t) \in Endings
  BY DEF DetectLineEnding, Endings
<1>0. t = RestoreLineEndings(u, e)
  OBVIOUS
<1> HIDE DEF t
<1>5. ASSUME LF \in Range(t) PROVE Uniform(t)
  BY <1>0, <1>1, <1>2, <1>5 DEF Uniform
<1>6. ASSUME LF \notin Range(t) PROVE Uniform(t)
  <2> DEFINE s == RestoreLineEndings(u, DetectLineEnding(t))
  <2>1. LF \notin Range(s) => s = u
    BY <1>4, RestoreDetect
  <2>2. LF \in Range(s) => FALSE
    <3> SUFFICES ASSUME LF \in Range(s) PROVE FALSE
      OBVIOUS
    <3>1. [n \in DOMAIN u |-> IF u[n] = LF THEN DetectLineEnding(t) ELSE <<u[n]>>]
            = [n \in DOMAIN u |-> IF u[n] = LF THEN e ELSE <<u[n]>>]
      BY <1>3, <1>6 DEF Range
    <3>2. s = t
      BY <3>1 DEF RestoreLineEndings, t
    <3> QED
      BY <1>6, <3>2
  <2>3. s = u
    BY <2>1, <2>2
  <2> HIDE DEF s
  <2>4. RestoreLineEndings(NormalizeToLF(t), DetectLineEnding(t)) = s
    BY <1>1 DEF s
  <2> QED
    BY <1>3, <1>6, <2>3, <2>4 DEF Uniform
<1>7. Uniform(t)
  BY <1>5, <1>6
<1> QED
  BY <1>7 DEF t

-----------------------------------------------------------------------------
(* Replacing *)

\* A place in a text and what comes there.
Matches == [index : Nat, length : Nat, newText : Unix]

End(m) == m.index + m.length

\* Places in the order of the text, no two of which overlap.
Apart(base, ms) == /\ \A n \in 1 .. Len(ms) : End(ms[n]) <= Len(base)
                   /\ \A n, k \in 1 .. Len(ms) : n < k => End(ms[n]) <= ms[k].index

\* The last match is replaced first.
LEMMA SpliceRun ==
  ASSUME NEW base, NEW ms \in Seq(Matches)
  PROVE  \E g : /\ g[0] = base
                /\ \A i \in 1 .. Len(ms) : g[i] = Splice(g[i - 1], ms[(Len(ms) - i) + 1])
                /\ SpliceAll(base, ms) = g[Len(ms)]
<1> DEFINE n == Len(ms)
           rev == Reverse(ms)
           Step(v, i) == Splice(v, rev[i])
           Fold(f, k) == [s \in SUBSET (1 .. k) |-> IF s = {} THEN base ELSE Step(f[s \ {Max(s)}], Max(s))]
           S == {k \in 0 .. n : \E f : f = Fold(f, k)}
           iter == CHOOSE f : f = Fold(f, n)
<1>1. n \in Nat /\ DOMAIN rev = 1 .. n /\ \A i \in 1 .. n : rev[i] = ms[(Len(ms) - i) + 1]
  BY DEF Reverse
<1>2. SpliceAll(base, ms) = iter[1 .. n]
  <2> HIDE DEF rev
  <2>1. SpliceAll(base, ms) = FoldLeft(Splice, base, rev)
    BY DEF SpliceAll, rev
  <2> QED
    BY <1>1, <2>1 DEF FoldLeft, MapThenFoldSet
<1> HIDE DEF Step, n, rev
<1>3. 0 \in S
  <2>1. 1 .. 0 = {} /\ 0 \in 0 .. n
    BY <1>1
  <2> DEFINE f == [s \in SUBSET (1 .. 0) |-> base]
  <2>2. f = Fold(f, 0)
    BY <2>1
  <2> QED
    BY <2>1, <2>2
<1>4. ASSUME NEW k \in 0 .. n, k # n, k \in S PROVE k + 1 \in S
  <2>1. PICK f : f = Fold(f, k)
    BY <1>4
  <2> DEFINE m == k + 1
             h == [s \in SUBSET (1 .. m) |-> IF m \in s THEN Step(f[s \ {m}], m) ELSE f[s]]
  <2>2. m \in 0 .. n /\ m \in Nat /\ m \notin 1 .. k /\ 1 .. m = (1 .. k) \cup {m}
    <3>1. n \in Nat /\ k \in 0 .. n /\ k # n
      BY <1>1, <1>4
    <3> QED
      BY <3>1
  <2> HIDE DEF m
  <2>3. \A s \in SUBSET (1 .. m) : s \ {m} \in SUBSET (1 .. k) /\ (m \notin s => s \in SUBSET (1 .. k))
    BY <2>2
  <2>4. \A s \in SUBSET (1 .. m) : m \in s => Max(s) = m
    BY <2>2, MaxIsBound
  <2>5. h[{}] = base
    BY <2>1
  <2>6. ASSUME NEW s \in SUBSET (1 .. m), s # {} PROVE h[s] = Step(h[s \ {Max(s)}], Max(s))
    <3>1. CASE m \in s
      <4>1. h[s] = Step(f[s \ {m}], m) /\ h[s \ {m}] = f[s \ {m}]
        BY <3>1
      <4> QED
        BY <2>4, <3>1, <4>1
    <3>2. CASE m \notin s
      <4>1. s \in SUBSET (1 .. k)
        BY <2>3, <3>2
      <4>2. f[s] = Step(f[s \ {Max(s)}], Max(s))
        BY <2>1, <2>6, <4>1
      <4>3. h[s] = f[s] /\ h[s \ {Max(s)}] = f[s \ {Max(s)}]
        BY <3>2
      <4> QED
        BY <4>2, <4>3
    <3> QED
      BY <3>1, <3>2
  <2>7. h = Fold(h, m)
    <3>1. \A s \in SUBSET (1 .. m) : h[s] = IF s = {} THEN base ELSE Step(h[s \ {Max(s)}], Max(s))
      BY <2>5, <2>6
    <3>2. h = [s \in SUBSET (1 .. m) |-> h[s]]
      OBVIOUS
    <3> HIDE DEF h
    <3> QED
      BY <3>1, <3>2
  <2> HIDE DEF Fold, h
  <2> QED
    BY <2>2, <2>7 DEF m
<1>5. iter = Fold(iter, n)
  <2> HIDE DEF S, Fold
  <2>1. \A k \in 0 .. n : k \in S
    BY <1>1, <1>3, <1>4, BoundedInduction
  <2>2. n \in S
    BY <1>1, <2>1
  <2> QED
    BY <2>2 DEF S
<1> HIDE DEF iter
<1>6. ASSUME NEW i \in 1 .. n PROVE iter[1 .. i] = Step(iter[1 .. (i - 1)], i)
  <2>1. Max(1 .. i) = i /\ (1 .. i) \ {i} = 1 .. (i - 1) /\ 1 .. i # {}
    <3>1. i \in Nat /\ i # 0
      BY <1>1
    <3> QED
      BY <3>1, MaxOfInterval
  <2>2. 1 .. i \in SUBSET (1 .. n)
    BY <1>1
  <2>3. iter[1 .. i] = Fold(iter, n)[1 .. i]
    BY <1>5
  <2> QED
    BY <2>1, <2>2, <2>3
<1>7. iter[1 .. 0] = base
  BY <1>5
<1> DEFINE g == [k \in 0 .. n |-> iter[1 .. k]]
<1>8. g[0] = base /\ g[n] = iter[1 .. n] /\ \A i \in 1 .. n : g[i] = Step(g[i - 1], i)
  BY <1>1, <1>6, <1>7
<1> HIDE DEF g
<1>9. \A i \in 1 .. n : Step(g[i - 1], i) = Splice(g[i - 1], ms[(Len(ms) - i) + 1])
  BY <1>1 DEF Step
<1> QED
  BY <1>2, <1>8, <1>9 DEF n

\* A match that lies in the text is replaced.
LEMMA SpliceType ==
  ASSUME NEW u \in Unix, NEW m \in Matches, End(m) <= Len(u)
  PROVE  /\ Splice(u, m) \in Unix /\ m.index <= Len(Splice(u, m))
         /\ Splice(u, m) = SubSeq(u, 1, m.index) \o m.newText \o SubSeq(u, End(m) + 1, Len(u))
<1> DEFINE D == Char \ {CR}
           a == SubSeq(u, 1, m.index)
           c == SubSeq(u, End(m) + 1, Len(u))
           b == m.newText
<1>1. m.index \in Nat /\ m.length \in Nat /\ b \in Seq(D) /\ End(m) \in Nat /\ m.index <= End(m)
      /\ End(m) = m.index + m.length
  BY DEF Matches, End, Unix
<1>2. Len(u) \in Nat /\ u \in Seq(D) /\ \A i \in 1 .. Len(u) : u[i] \in D
  BY DEF Unix
<1> HIDE DEF D, b
<1>3. a \in Seq(D) /\ Len(a) = m.index
  <2>1. \A i \in 1 .. m.index : u[i] \in D
    BY <1>1, <1>2
  <2> QED
    BY <1>1, <2>1, SubSeqProperties
<1>4. c \in Seq(D)
  <2>1. \A i \in End(m) + 1 .. Len(u) : u[i] \in D
    BY <1>1, <1>2
  <2> QED
    BY <1>1, <1>2, <2>1, SubSeqProperties
<1>5. Splice(u, m) = a \o b \o c
  BY <1>1 DEF Splice, b
<1> HIDE DEF a, c
<1>6. (a \o b) \o c \in Seq(D) /\ m.index <= Len((a \o b) \o c)
  BY <1>1, <1>3, <1>4
<1> QED
  BY <1>5, <1>6 DEF Unix, D, a, b, c

\* Where the matches that are still to be replaced have to lie, after i of them.
Bound(base, ms, i) == IF i = 0 THEN Len(base) ELSE ms[(Len(ms) - i) + 1].index

LEMMA BoundSteps ==
  ASSUME NEW base \in Unix, NEW ms \in Seq(Matches), Apart(base, ms), NEW i \in 1 .. Len(ms)
  PROVE  LET m == ms[(Len(ms) - i) + 1]
         IN  /\ m \in Matches /\ (Len(ms) - i) + 1 \in 1 .. Len(ms)
             /\ Bound(base, ms, i) = m.index
             /\ End(m) <= Bound(base, ms, i - 1) /\ Bound(base, ms, i - 1) <= Len(base)
             /\ Bound(base, ms, i - 1) \in Nat
<1> DEFINE n == Len(ms)
           k == (Len(ms) - i) + 1
<1>1. n \in Nat /\ k \in 1 .. n /\ Len(base) \in Nat
  BY DEF Unix
<1>2. \A j \in 1 .. n : ms[j] \in Matches /\ ms[j].index \in Nat /\ ms[j].length \in Nat
                         /\ ms[j].index <= End(ms[j]) /\ End(ms[j]) \in Nat
  <2>1. \A m \in Matches : m.index \in Nat /\ m.length \in Nat /\ m.index <= End(m) /\ End(m) \in Nat
    BY DEF Matches, End
  <2>2. \A j \in 1 .. n : ms[j] \in Matches
    OBVIOUS
  <2> QED
    BY <2>1, <2>2
<1>3. Bound(base, ms, i) = ms[k].index
  BY <1>1 DEF Bound
<1>4. CASE i = 1
  BY <1>1, <1>2, <1>3, <1>4 DEF Bound, Apart
<1>5. CASE i # 1
  <2>1. k + 1 \in 1 .. n /\ k < k + 1 /\ (Len(ms) - (i - 1)) + 1 = k + 1 /\ i - 1 # 0
    BY <1>1, <1>5
  <2>2. Bound(base, ms, i - 1) = ms[k + 1].index
    BY <2>1 DEF Bound
  <2>3. End(ms[k]) <= ms[k + 1].index /\ End(ms[k + 1]) <= Len(base)
    BY <1>1, <2>1 DEF Apart
  <2>4. ms[k + 1].index \in Nat /\ ms[k + 1].index <= Len(base)
    BY <1>1, <1>2, <2>1, <2>3
  <2> QED
    BY <1>1, <1>2, <1>3, <2>2, <2>3, <2>4
<1> QED
  BY <1>4, <1>5

\* What all the matches make of a text without a CR is one.
LEMMA SpliceAllType ==
  ASSUME NEW base \in Unix, NEW ms \in Seq(Matches), Apart(base, ms)
  PROVE  SpliceAll(base, ms) \in Unix
<1> DEFINE n == Len(ms)
<1>1. n \in Nat
  OBVIOUS
<1>2. PICK g : /\ g[0] = base
               /\ \A i \in 1 .. n : g[i] = Splice(g[i - 1], ms[(n - i) + 1])
               /\ SpliceAll(base, ms) = g[n]
  BY SpliceRun
<1> DEFINE S == {i \in 0 .. n : g[i] \in Unix /\ Bound(base, ms, i) <= Len(g[i])}
<1>3. 0 \in S
  BY <1>1, <1>2 DEF Bound, Unix
<1>4. ASSUME NEW i \in 0 .. n, i # n, i \in S PROVE i + 1 \in S
  <2> DEFINE j == i + 1
             m == ms[(n - j) + 1]
  <2>1. j \in 1 .. n /\ j - 1 = i /\ j \in 0 .. n
    BY <1>1, <1>4
  <2>2. g[i] \in Unix /\ Bound(base, ms, i) <= Len(g[i])
    BY <1>4
  <2> HIDE DEF j
  <2>3. m \in Matches /\ Bound(base, ms, j) = m.index /\ End(m) <= Bound(base, ms, i)
        /\ Bound(base, ms, i) \in Nat
    BY <2>1, BoundSteps
  <2>4. g[j] = Splice(g[i], m)
    BY <1>2, <2>1
  <2> HIDE DEF m
  <2>5. End(m) <= Len(g[i])
    <3>1. End(m) \in Nat /\ Len(g[i]) \in Nat
      BY <2>2, <2>3 DEF Matches, End, Unix
    <3> QED
      BY <2>2, <2>3, <3>1
  <2>6. Splice(g[i], m) \in Unix /\ m.index <= Len(Splice(g[i], m))
    BY <2>2, <2>3, <2>5, SpliceType
  <2>7. j \in S
    BY <2>1, <2>3, <2>4, <2>6
  <2> QED
    BY <2>7 DEF j
<1> HIDE DEF S
<1>5. \A i \in 0 .. n : i \in S
  BY <1>1, <1>3, <1>4, BoundedInduction
<1> QED
  BY <1>1, <1>2, <1>5 DEF S

-----------------------------------------------------------------------------
(* Finding the old texts *)

LEMMA IndexFound ==
  ASSUME NEW t \in Text, NEW part \in Text
  PROVE  /\ IndexOf(t, part) = -1 <=> Occurrences(t, part) = {}
         /\ IndexOf(t, part) # -1 => /\ IndexOf(t, part) \in Occurrences(t, part)
                                     /\ IndexOf(t, part) \in Nat
                                     /\ IndexOf(t, part) + Len(part) <= Len(t)
<1> DEFINE O == Occurrences(t, part)
<1>1. Len(t) \in Nat /\ Len(part) \in Nat
  BY DEF Text
<1>2. O \in SUBSET Nat /\ \A i \in O : i + Len(part) <= Len(t)
  BY <1>1 DEF Occurrences
<1>3. IndexOf(t, part) = IF O = {} THEN -1 ELSE Min(O)
  BY DEF IndexOf
<1> HIDE DEF O
<1>4. O # {} => Min(O) \in O
  BY <1>2, MinExists
<1>5. O # {} => Min(O) \in Nat /\ Min(O) # -1
  <2>1. \A k \in O : k \in Nat /\ k # -1
    BY <1>2
  <2> QED
    BY <1>4, <2>1
<1>6. IndexOf(t, part) = -1 <=> O = {}
  BY <1>3, <1>5
<1>7. IndexOf(t, part) # -1 => IndexOf(t, part) \in O /\ IndexOf(t, part) \in Nat
                               /\ IndexOf(t, part) + Len(part) <= Len(t)
  BY <1>2, <1>3, <1>4, <1>5
<1> QED
  BY <1>6, <1>7 DEF O

\* The normal form of a text has no more characters, and no CR if the text has none.
LEMMA FuzzyType ==
  ASSUME NEW u \in Unix
  PROVE  NormalizeForFuzzyMatch(u) \in Unix /\ Len(NormalizeForFuzzyMatch(u)) <= Len(u)
<1> DEFINE D == Char \ {CR}
           Gone(n) == u[n] \in Blanks /\ \E m \in n .. Len(u) + 1 : /\ m > Len(u) \/ u[m] = LF
                                                                   /\ \A k \in n .. m - 1 : u[k] \in Blanks
           pieces == [n \in DOMAIN u |-> IF Gone(n) THEN <<>> ELSE <<Plain[u[n]]>>]
<1>1. NormalizeForFuzzyMatch(u) = FlattenSeq(pieces)
  BY DEF NormalizeForFuzzyMatch
<1> HIDE DEF Gone
<1>2. DOMAIN u = 1 .. Len(u) /\ Len(u) \in Nat /\ \A n \in 1 .. Len(u) : u[n] \in D
  BY DEF Unix
<1>3. \A c \in D : Plain[c] \in D
  BY CharsAssumption DEF Char
<1> HIDE DEF D
<1>4. \A n \in 1 .. Len(u) : (IF Gone(n) THEN <<>> ELSE <<Plain[u[n]]>>) \in Seq(D)
  <2>1. \A c \in D : <<c>> \in Seq(D) /\ <<>> \in Seq(D)
    OBVIOUS
  <2> QED
    BY <1>2, <1>3, <2>1
<1>5. pieces \in Seq(Seq(D)) /\ Len(pieces) = Len(u)
  BY <1>2, <1>4
<1>6. \A n \in 1 .. Len(u) : pieces[n] = <<>> \/ pieces[n] = <<Plain[u[n]]>>
  BY <1>2
<1> HIDE DEF pieces
<1>7. \A n \in 1 .. Len(pieces) : Len(pieces[n]) <= 1
  <2> SUFFICES ASSUME NEW n \in 1 .. Len(pieces) PROVE Len(pieces[n]) <= 1
    OBVIOUS
  <2>1. Len(<<>>) = 0 /\ Len(<<Plain[u[n]]>>) = 1
    OBVIOUS
  <2>2. pieces[n] = <<>> \/ pieces[n] = <<Plain[u[n]]>>
    BY <1>5, <1>6
  <2> DEFINE k == Len(pieces[n])
  <2>3. k = 0 \/ k = 1
    BY <2>1, <2>2
  <2> HIDE DEF k
  <2>4. k <= 1
    BY <2>3
  <2> QED
    BY <2>4 DEF k
<1>8. FlattenSeq(pieces) \in Seq(D) /\ Len(FlattenSeq(pieces)) <= Len(pieces)
  BY <1>5, <1>7, FlattenType, FlattenShort
<1> QED
  BY <1>1, <1>5, <1>8 DEF Unix, D

\* What is found lies in the text; an old text that is there as it is is found there.
LEMMA FoundIn ==
  ASSUME NEW base \in Unix, NEW old \in Unix
  PROVE  LET f == FuzzyFindText(base, old)
         IN  /\ f.index # -1 => f.index \in Nat /\ f.length \in Nat /\ f.index + f.length <= Len(base)
             /\ f.index # -1 => f.length \in {Len(old), Len(NormalizeForFuzzyMatch(old))}
             /\ Occurrences(base, old) # {} =>
                  f = [index |-> IndexOf(base, old), length |-> Len(old), fuzzy |-> FALSE]
<1> DEFINE f == FuzzyFindText(base, old)
           nb == NormalizeForFuzzyMatch(base)
           no == NormalizeForFuzzyMatch(old)
<1>1. base \in Text /\ old \in Text /\ \A u \in Unix : u \in Text /\ Len(u) \in Nat
  BY EndingsType DEF Unix
<1>2. nb \in Unix /\ no \in Unix /\ Len(nb) <= Len(base)
  BY FuzzyType
<1>3. f = IF IndexOf(base, old) # -1 THEN [index |-> IndexOf(base, old), length |-> Len(old), fuzzy |-> FALSE]
          ELSE IF IndexOf(nb, no) # -1 THEN [index |-> IndexOf(nb, no), length |-> Len(no), fuzzy |-> TRUE]
          ELSE [index |-> -1, length |-> 0, fuzzy |-> FALSE]
  BY DEF FuzzyFindText
<1> HIDE DEF f, nb, no
<1>4. /\ IndexOf(base, old) # -1 => IndexOf(base, old) \in Nat /\ IndexOf(base, old) + Len(old) <= Len(base)
      /\ IndexOf(base, old) = -1 <=> Occurrences(base, old) = {}
  BY <1>1, IndexFound
<1>5. IndexOf(nb, no) # -1 => IndexOf(nb, no) \in Nat /\ IndexOf(nb, no) + Len(no) <= Len(nb)
  BY <1>1, <1>2, IndexFound
<1>6. Len(old) \in Nat /\ Len(no) \in Nat /\ Len(nb) \in Nat /\ Len(base) \in Nat
  BY <1>1, <1>2
<1>7. f.index # -1 => f.index \in Nat /\ f.length \in Nat /\ f.index + f.length <= Len(base)
                      /\ f.length \in {Len(old), Len(no)}
  <2>1. CASE IndexOf(base, old) # -1
    <3>1. f.index = IndexOf(base, old) /\ f.length = Len(old)
      BY <1>3, <2>1
    <3> QED
      BY <1>4, <1>6, <2>1, <3>1
  <2>2. CASE IndexOf(base, old) = -1 /\ IndexOf(nb, no) # -1
    <3>1. f.index = IndexOf(nb, no) /\ f.length = Len(no)
      BY <1>3, <2>2
    <3> QED
      BY <1>2, <1>5, <1>6, <2>2, <3>1
  <2>3. CASE IndexOf(base, old) = -1 /\ IndexOf(nb, no) = -1
    BY <1>3, <2>3
  <2> QED
    BY <2>1, <2>2, <2>3
<1>8. Occurrences(base, old) # {} => f = [index |-> IndexOf(base, old), length |-> Len(old), fuzzy |-> FALSE]
  BY <1>3, <1>4
<1> QED
  BY <1>7, <1>8 DEF f, no

\* Match a comes before match b.
Before(ms, a, b) == \/ ms[a].index < ms[b].index
                    \/ ms[a].index = ms[b].index /\ a < b

\* The sorted matches are the matches, each once, in their order.
LEMMA SortedMatches ==
  ASSUME NEW ms \in Seq(Matches)
  PROVE  \E p \in [1 .. Len(ms) -> 1 .. Len(ms)] :
           /\ \A i \in 1 .. Len(ms) : \E j \in 1 .. Len(ms) : p[j] = i
           /\ \A i, j \in 1 .. Len(ms) : i < j => Before(ms, p[i], p[j])
           /\ Sorted(ms) = [i \in 1 .. Len(ms) |-> ms[p[i]]]
<1> DEFINE n == Len(ms)
           B == {q \in (1 .. n) \X (1 .. n) : Before(ms, q[1], q[2])}
           Orders(p) == /\ p \in Bijection(DOMAIN ms, DOMAIN ms)
                        /\ \A i, j \in DOMAIN ms : i < j => Before(ms, p[i], p[j])
           order == CHOOSE p : Orders(p)
<1>1. n \in Nat /\ DOMAIN ms = 1 .. n /\ \A i \in 1 .. n : ms[i].index \in Nat
  <2>1. \A m \in Matches : m.index \in Nat
    BY DEF Matches
  <2> QED
    BY <2>1
<1>2. Sorted(ms) = [i \in DOMAIN ms |-> ms[order[i]]]
  BY DEF Sorted, Before
<1> HIDE DEF n
<1>3. \A i, j \in 1 .. n : <<i, j>> \in B <=> Before(ms, i, j)
  OBVIOUS
<1>4. \A i, j \in 1 .. n : i # j => Before(ms, i, j) \/ Before(ms, j, i)
  BY <1>1 DEF Before
<1>5. \A i, j, k \in 1 .. n : Before(ms, i, j) /\ Before(ms, j, k) => Before(ms, i, k)
  BY <1>1 DEF Before
<1>6. \A i \in 1 .. n : ~Before(ms, i, i)
  BY <1>1 DEF Before
<1> HIDE DEF B
<1>7. PICK p \in [1 .. n -> 1 .. n] : /\ \A i \in 1 .. n : \E j \in 1 .. n : p[j] = i
                                      /\ \A i, j \in 1 .. n : i < j => <<p[i], p[j]>> \in B
  <2>1. \A i, j \in 1 .. n : i # j => <<i, j>> \in B \/ <<j, i>> \in B
    BY <1>3, <1>4
  <2>2. \A i, j, k \in 1 .. n : <<i, j>> \in B /\ <<j, k>> \in B => <<i, k>> \in B
    BY <1>3, <1>5
  <2> QED
    BY <1>1, <2>1, <2>2, SortingExists
<1>8. \A i, j \in 1 .. n : i < j => Before(ms, p[i], p[j])
  BY <1>3, <1>7
<1>9. p \in Bijection(DOMAIN ms, DOMAIN ms)
  <2>1. \A i, j \in 1 .. n : p[i] = p[j] => i = j
    <3> SUFFICES ASSUME NEW i \in 1 .. n, NEW j \in 1 .. n, p[i] = p[j], i # j PROVE FALSE
      OBVIOUS
    <3>1. Before(ms, p[i], p[j]) \/ Before(ms, p[j], p[i])
      BY <1>1, <1>8
    <3>2. p[i] \in 1 .. n
      BY <1>7
    <3> QED
      BY <1>6, <3>1, <3>2
  <2> QED
    BY <1>1, <1>7, <2>1 DEF Bijection, Injection, Surjection, IsInjective
<1>10. Orders(p)
  BY <1>1, <1>8, <1>9
<1>11. Orders(order)
  <2> HIDE DEF Orders
  <2> QED
    BY <1>10
<1> HIDE DEF order
<1>12. order \in [1 .. n -> 1 .. n] /\ \A i \in 1 .. n : \E j \in 1 .. n : order[j] = i
  BY <1>1, <1>11 DEF Bijection, Injection, Surjection
<1> QED
  BY <1>1, <1>2, <1>11, <1>12 DEF n

\* The matches of the edits.
Placed(base, edits) ==
  [n \in DOMAIN edits |-> [index |-> FuzzyFindText(base, edits[n].oldText).index,
                           length |-> FuzzyFindText(base, edits[n].oldText).length,
                           newText |-> edits[n].newText]]

UnixChanges == [oldText : Unix, newText : Unix]

Failures == [ok : {FALSE}, error : {"no edits", "empty oldText", "not found", "duplicate", "overlap", "no change"}]

\* Matches that do not overlap their neighbours in their order lie apart.
LEMMA SortedApart ==
  ASSUME NEW base \in Unix, NEW ms \in Seq(Matches), \A n \in 1 .. Len(ms) : End(ms[n]) <= Len(base)
  PROVE  LET s == Sorted(ms)
         IN  /\ s \in Seq(Matches) /\ Len(s) = Len(ms)
             /\ \/ Apart(base, s)
                \/ \E n \in 2 .. Len(s) : s[n - 1].index + s[n - 1].length > s[n].index
<1> DEFINE s == Sorted(ms)
           L == Len(ms)
<1>1. PICK p \in [1 .. L -> 1 .. L] :
        /\ \A i \in 1 .. L : \E j \in 1 .. L : p[j] = i
        /\ \A i, j \in 1 .. L : i < j => Before(ms, p[i], p[j])
        /\ s = [i \in 1 .. L |-> ms[p[i]]]
  BY SortedMatches
<1>2. L \in Nat /\ L = Len(ms) /\ \A n \in 1 .. L : ms[n] \in Matches
  OBVIOUS
<1> HIDE DEF s, L
<1>3. \A i \in 1 .. L : s[i] = ms[p[i]] /\ p[i] \in 1 .. L
  BY <1>1
<1>4. s \in Seq(Matches) /\ Len(s) = L
  <2>1. \A i \in 1 .. L : ms[p[i]] \in Matches
    BY <1>2, <1>3
  <2> QED
    BY <1>1, <1>2, <2>1
<1>5. \A i \in 1 .. L : /\ End(s[i]) <= Len(base) /\ s[i].index \in Nat /\ End(s[i]) \in Int
                        /\ End(s[i]) = s[i].index + s[i].length
  <2>1. \A m \in Matches : m.index \in Nat /\ End(m) \in Int /\ End(m) = m.index + m.length
    BY DEF Matches, End
  <2>2. \A i \in 1 .. L : s[i] \in Matches
    BY <1>4
  <2>3. \A i \in 1 .. L : End(s[i]) <= Len(base)
    BY <1>2, <1>3
  <2> QED
    BY <2>1, <2>2, <2>3
<1>6. \A i, j \in 1 .. L : i < j => s[i].index <= s[j].index
  <2> SUFFICES ASSUME NEW i \in 1 .. L, NEW j \in 1 .. L, i < j PROVE s[i].index <= s[j].index
    OBVIOUS
  <2>1. Before(ms, p[i], p[j])
    BY <1>1
  <2>2. s[i].index < s[j].index \/ s[i].index = s[j].index
    BY <1>3, <2>1 DEF Before
  <2>3. s[i].index \in Nat /\ s[j].index \in Nat
    BY <1>5
  <2> QED
    BY <2>2, <2>3
<1>7. ASSUME ~\E n \in 2 .. Len(s) : s[n - 1].index + s[n - 1].length > s[n].index
      PROVE  Apart(base, s)
  <2>1. \A n \in 2 .. L : End(s[n - 1]) <= s[n].index
    <3> SUFFICES ASSUME NEW n \in 2 .. L PROVE End(s[n - 1]) <= s[n].index
      OBVIOUS
    <3>1. n \in 1 .. L /\ n - 1 \in 1 .. L
      BY <1>2
    <3>2. ~(s[n - 1].index + s[n - 1].length > s[n].index)
      BY <1>4, <1>7
    <3>3. /\ End(s[n - 1]) = s[n - 1].index + s[n - 1].length /\ End(s[n - 1]) \in Int
          /\ s[n].index \in Nat
      BY <1>5, <3>1
    <3> QED
      BY <3>2, <3>3
  <2>2. ASSUME NEW i \in 1 .. L, NEW j \in 1 .. L, i < j PROVE End(s[i]) <= s[j].index
    <3>1. i + 1 \in 2 .. L /\ i + 1 \in 1 .. L /\ (i + 1) - 1 = i
      BY <1>2, <2>2
    <3>2. End(s[i]) <= s[i + 1].index
      BY <2>1, <3>1
    <3>3. s[i + 1].index <= s[j].index
      <4>1. CASE i + 1 = j
        BY <1>5, <4>1
      <4>2. CASE i + 1 # j
        <5>1. i + 1 < j
          BY <2>2, <4>2
        <5> QED
          BY <1>6, <3>1, <5>1
      <4> QED
        BY <4>1, <4>2
    <3>4. End(s[i]) \in Int /\ s[i + 1].index \in Int /\ s[j].index \in Int
      BY <1>5, <3>1
    <3> QED
      BY <3>2, <3>3, <3>4
  <2> QED
    BY <1>4, <1>5, <2>2 DEF Apart
<1> QED
  BY <1>4, <1>7 DEF s, L

\* An edit whose text is not in the text, or more than once.
Wrong(base, edits) == \E n \in DOMAIN edits : \/ FuzzyFindText(base, edits[n].oldText).index = -1
                                              \/ CountOccurrences(base, edits[n].oldText) > 1

\* Without such an edit the matches are replaced, which lie in the text.
LEMMA ReplaceInCases ==
  ASSUME NEW base \in Unix, NEW edits \in Seq(UnixChanges)
  PROVE  LET r == ReplaceIn(base, edits)
             found == Placed(base, edits)
         IN  /\ Wrong(base, edits) => r \in Failures
             /\ ~Wrong(base, edits) => /\ r = ReplaceMatches(base, Sorted(found))
                                       /\ found \in Seq(Matches) /\ Len(found) = Len(edits)
                                       /\ \A n \in 1 .. Len(found) : End(found[n]) <= Len(base)
<1> DEFINE r == ReplaceIn(base, edits)
           found == Placed(base, edits)
           find == [n \in DOMAIN edits |-> FuzzyFindText(base, edits[n].oldText)]
           wrong == {n \in DOMAIN edits :
                       find[n].index = -1 \/ CountOccurrences(base, edits[n].oldText) > 1}
<1>1. Len(edits) \in Nat /\ DOMAIN edits = 1 .. Len(edits)
      /\ \A n \in 1 .. Len(edits) : edits[n].oldText \in Unix /\ edits[n].newText \in Unix
  <2>1. \A c \in UnixChanges : c.oldText \in Unix /\ c.newText \in Unix
    BY DEF UnixChanges
  <2> QED
    BY <2>1
<1>2. r = IF wrong # {} THEN Failure(IF find[Min(wrong)].index = -1 THEN "not found" ELSE "duplicate")
          ELSE ReplaceMatches(base, Sorted([n \in DOMAIN edits |->
                 [index |-> find[n].index, length |-> find[n].length, newText |-> edits[n].newText]]))
  BY DEF ReplaceIn
<1>3. [n \in DOMAIN edits |->
        [index |-> find[n].index, length |-> find[n].length, newText |-> edits[n].newText]] = found
  BY DEF Placed
<1>4. \A n \in 1 .. Len(edits) : find[n] = FuzzyFindText(base, edits[n].oldText)
  BY <1>1
<1>5. \A n \in 1 .. Len(edits) : found[n] = [index |-> find[n].index, length |-> find[n].length,
                                              newText |-> edits[n].newText]
  BY <1>1 DEF Placed
<1>6. DOMAIN found = 1 .. Len(edits) /\ found = [n \in 1 .. Len(edits) |-> found[n]]
  BY <1>1 DEF Placed
<1>7. r = IF wrong # {} THEN Failure(IF find[Min(wrong)].index = -1 THEN "not found" ELSE "duplicate")
          ELSE ReplaceMatches(base, Sorted(found))
  BY <1>2, <1>3
<1>8. wrong # {} <=> Wrong(base, edits)
  BY <1>1, <1>4 DEF Wrong
<1> HIDE DEF find, found, r, wrong
<1>9. CASE Wrong(base, edits)
  <2>1. r = Failure("not found") \/ r = Failure("duplicate")
    BY <1>7, <1>8, <1>9
  <2>2. Failure("not found") \in Failures /\ Failure("duplicate") \in Failures
    BY DEF Failure, Failures
  <2>3. r \in Failures
    BY <2>1, <2>2
  <2> QED
    BY <1>9, <2>3 DEF r
<1>10. CASE ~Wrong(base, edits)
  <2>1. \A n \in 1 .. Len(edits) : find[n].index # -1
    BY <1>1, <1>4, <1>10 DEF Wrong
  <2>2. \A n \in 1 .. Len(edits) : /\ find[n].index \in Nat /\ find[n].length \in Nat
                                   /\ find[n].index + find[n].length <= Len(base)
    BY <1>1, <1>4, <2>1, FoundIn
  <2>3. ASSUME NEW n \in 1 .. Len(edits) PROVE found[n] \in Matches /\ End(found[n]) <= Len(base)
    <3>1. found[n] = [index |-> find[n].index, length |-> find[n].length, newText |-> edits[n].newText]
      BY <1>5
    <3>2. /\ find[n].index \in Nat /\ find[n].length \in Nat /\ edits[n].newText \in Unix
          /\ find[n].index + find[n].length <= Len(base)
      BY <1>1, <2>2
    <3>3. found[n].index = find[n].index /\ found[n].length = find[n].length
      BY <3>1
    <3>4. found[n] \in Matches
      BY <3>1, <3>2 DEF Matches
    <3> QED
      BY <3>2, <3>3, <3>4 DEF End
  <2>4. found \in Seq(Matches) /\ Len(found) = Len(edits)
    BY <1>1, <1>6, <2>3
  <2>5. r = ReplaceMatches(base, Sorted(found))
    BY <1>7, <1>8, <1>10
  <2> QED
    BY <1>10, <2>3, <2>4, <2>5 DEF r, found
<1> QED
  BY <1>9, <1>10

\* Edits that apply replace their matches, which lie apart.
LEMMA ReplaceInOutcome ==
  ASSUME NEW base \in Unix, NEW edits \in Seq(UnixChanges)
  PROVE  LET r == ReplaceIn(base, edits)
             found == Placed(base, edits)
         IN  \/ r \in Failures
             \/ /\ r.ok = TRUE /\ r.new = SpliceAll(base, Sorted(found)) /\ r.new \in Unix
                /\ found \in Seq(Matches) /\ Len(found) = Len(edits)
                /\ Sorted(found) \in Seq(Matches) /\ Apart(base, Sorted(found))
<1> DEFINE r == ReplaceIn(base, edits)
           found == Placed(base, edits)
           ms == Sorted(found)
<1>1. Wrong(base, edits) => r \in Failures
  BY ReplaceInCases
<1>2. ASSUME ~Wrong(base, edits)
      PROVE  /\ r = ReplaceMatches(base, ms) /\ found \in Seq(Matches) /\ Len(found) = Len(edits)
             /\ \A n \in 1 .. Len(found) : End(found[n]) <= Len(base)
  BY <1>2, ReplaceInCases
<1>3. CASE ~Wrong(base, edits)
  <2>1. /\ ms \in Seq(Matches)
        /\ \/ Apart(base, ms)
           \/ \E n \in 2 .. Len(ms) : ms[n - 1].index + ms[n - 1].length > ms[n].index
    BY <1>2, <1>3, SortedApart
  <2>2. r = ReplaceMatches(base, ms) /\ found \in Seq(Matches) /\ Len(found) = Len(edits)
    BY <1>2, <1>3
  <2> HIDE DEF r, ms, found
  <2>3. r = IF \E n \in 2 .. Len(ms) : ms[n - 1].index + ms[n - 1].length > ms[n].index
            THEN Failure("overlap")
            ELSE IF SpliceAll(base, ms) = base THEN Failure("no change")
            ELSE [ok |-> TRUE, base |-> base, new |-> SpliceAll(base, ms)]
    BY <2>2 DEF ReplaceMatches
  <2>4. Failure("overlap") \in Failures /\ Failure("no change") \in Failures
    BY DEF Failure, Failures
  <2>5. CASE r \in Failures
    BY <2>5 DEF r
  <2>6. CASE r \notin Failures
    <3>1. ~\E n \in 2 .. Len(ms) : ms[n - 1].index + ms[n - 1].length > ms[n].index
      BY <2>3, <2>4, <2>6
    <3>2. r = [ok |-> TRUE, base |-> base, new |-> SpliceAll(base, ms)]
      BY <2>3, <2>4, <2>6
    <3>3. Apart(base, ms)
      BY <2>1, <3>1
    <3>4. SpliceAll(base, ms) \in Unix
      BY <2>1, <3>3, SpliceAllType
    <3>5. r.ok = TRUE /\ r.new = SpliceAll(base, ms)
      BY <3>2
    <3> QED
      BY <2>1, <2>2, <3>3, <3>4, <3>5 DEF r, found, ms
  <2> QED
    BY <2>5, <2>6
<1> QED
  BY <1>1, <1>3

-----------------------------------------------------------------------------
(* A call of the edit tool *)

UnixEdits(edits) == [n \in DOMAIN edits |-> [oldText |-> NormalizeToLF(edits[n].oldText),
                                             newText |-> NormalizeToLF(edits[n].newText)]]

LEMMA UnixEditsType ==
  ASSUME NEW edits \in Seq(Changes)
  PROVE  UnixEdits(edits) \in Seq(UnixChanges) /\ Len(UnixEdits(edits)) = Len(edits)
<1>1. \A c \in Changes : c.oldText \in Text /\ c.newText \in Text
  BY DEF Changes, Text, Char
<1>2. DOMAIN edits = 1 .. Len(edits) /\ Len(edits) \in Nat /\ \A n \in 1 .. Len(edits) : edits[n] \in Changes
  OBVIOUS
<1>3. \A n \in 1 .. Len(edits) : [oldText |-> NormalizeToLF(edits[n].oldText),
                                  newText |-> NormalizeToLF(edits[n].newText)] \in UnixChanges
  BY <1>1, <1>2, NormalizeType DEF UnixChanges
<1> QED
  BY <1>2, <1>3 DEF UnixEdits

\* The text the edits apply to.
BaseOf(content, edits) ==
  IF \E n \in DOMAIN edits : FuzzyFindText(content, UnixEdits(edits)[n].oldText).fuzzy
  THEN NormalizeForFuzzyMatch(content) ELSE content

LEMMA AppliedOutcome ==
  ASSUME NEW content \in Unix, NEW edits \in Seq(Changes)
  PROVE  LET r == ApplyEditsToNormalizedContent(content, edits)
             base == BaseOf(content, edits)
             found == Placed(base, UnixEdits(edits))
         IN  \/ r \in Failures
             \/ /\ r.ok = TRUE /\ r.new = SpliceAll(base, Sorted(found)) /\ r.new \in Unix
                /\ found \in Seq(Matches) /\ Len(found) = Len(edits)
                /\ Sorted(found) \in Seq(Matches) /\ Apart(base, Sorted(found))
                /\ \A n \in DOMAIN edits : UnixEdits(edits)[n].oldText # <<>>
<1> DEFINE r == ApplyEditsToNormalizedContent(content, edits)
           base == BaseOf(content, edits)
           unix == UnixEdits(edits)
           found == Placed(base, unix)
<1>1. unix \in Seq(UnixChanges) /\ Len(unix) = Len(edits)
  BY UnixEditsType
<1>2. DOMAIN unix = DOMAIN edits
  BY DEF UnixEdits
<1>3. r = IF \E n \in DOMAIN unix : unix[n].oldText = <<>> THEN Failure("empty oldText")
          ELSE ReplaceIn(base, unix)
  BY <1>2 DEF ApplyEditsToNormalizedContent, BaseOf, UnixEdits
<1>4. base \in Unix
  BY FuzzyType DEF BaseOf
<1> HIDE DEF r, unix, base
<1>5. CASE \E n \in DOMAIN unix : unix[n].oldText = <<>>
  <2>1. r \in Failures
    BY <1>3, <1>5 DEF Failure, Failures
  <2> QED
    BY <2>1 DEF r
<1>6. CASE ~\E n \in DOMAIN unix : unix[n].oldText = <<>>
  <2>1. r = ReplaceIn(base, unix)
    BY <1>3, <1>6
  <2>2. \/ r \in Failures
        \/ /\ r.ok = TRUE /\ r.new = SpliceAll(base, Sorted(found)) /\ r.new \in Unix
           /\ found \in Seq(Matches) /\ Len(found) = Len(unix)
           /\ Sorted(found) \in Seq(Matches) /\ Apart(base, Sorted(found))
    BY <1>1, <1>4, <2>1, ReplaceInOutcome
  <2>3. \A n \in DOMAIN edits : unix[n].oldText # <<>>
    BY <1>2, <1>6
  <2> QED
    BY <1>1, <2>2, <2>3 DEF r, base, unix, found
<1> QED
  BY <1>5, <1>6

LEMMA StripBomType ==
  ASSUME NEW content \in Text
  PROVE  /\ StripBom(content).text \in Text /\ StripBom(content).bom \in {<<>>, <<BOM>>}
         /\ StripBom(content).bom \in Text
         /\ DetectLineEnding(StripBom(content).text) \in Endings
<1>1. content # <<>> => Tail(content) \in Seq(Char)
  BY DEF Text
<1>2. <<BOM>> \in Text /\ <<>> \in Text
  BY CharsAssumption DEF Char, Text
<1>3. StripBom(content).text \in Text /\ StripBom(content).bom \in {<<>>, <<BOM>>}
  BY <1>1 DEF StripBom, Text
<1>4. DetectLineEnding(StripBom(content).text) \in Endings
  BY DEF DetectLineEnding, Endings
<1> QED
  BY <1>2, <1>3, <1>4

\* A call fails, or makes a text with the mark and the line endings of the one it was given.
LEMMA EditedOutcome ==
  ASSUME NEW content \in Text, NEW edits \in Seq(Changes)
  PROVE  LET o == EditedFile(content, edits)
             file == StripBom(content)
             r == ApplyEditsToNormalizedContent(NormalizeToLF(file.text), edits)
         IN  /\ o \in Outcomes
             /\ o.ok => /\ o.content = file.bom \o RestoreLineEndings(r.new, DetectLineEnding(file.text))
                        /\ r.ok = TRUE /\ r.new \in Unix
<1> DEFINE o == EditedFile(content, edits)
           file == StripBom(content)
           e == DetectLineEnding(file.text)
           r == ApplyEditsToNormalizedContent(NormalizeToLF(file.text), edits)
           c == file.bom \o RestoreLineEndings(r.new, e)
<1>1. file.text \in Text /\ file.bom \in Text /\ e \in Endings
  BY StripBomType
<1>2. NormalizeToLF(file.text) \in Unix
  BY <1>1, NormalizeType
<1>3. r \in Failures \/ (r.ok = TRUE /\ r.new \in Unix)
  BY <1>2, AppliedOutcome
<1>4. o = IF edits = <<>> THEN Failure("no edits")
          ELSE IF r.ok THEN [ok |-> TRUE, content |-> c] ELSE r
  BY DEF EditedFile, Outcome, Restored
<1>5. Failure("no edits") \in Failures /\ \A f \in Failures : f.ok = FALSE /\ f \in Outcomes
  BY DEF Failure, Failures, Outcomes
<1> HIDE DEF o, r, c, file, e
<1>6. o \in Failures \/ (r.ok = TRUE /\ r.new \in Unix /\ o = [ok |-> TRUE, content |-> c])
  BY <1>3, <1>4, <1>5
<1>7. CASE o \in Failures
  <2>1. o \in Outcomes /\ o.ok = FALSE
    BY <1>5, <1>7
  <2> QED
    BY <2>1 DEF o
<1>8. CASE r.ok = TRUE /\ r.new \in Unix /\ o = [ok |-> TRUE, content |-> c]
  <2>1. RestoreLineEndings(r.new, e) \in Text
    BY <1>1, <1>8, RestoreDetect
  <2>2. c \in Text
    BY <1>1, <2>1, Concat DEF c
  <2>3. o \in Outcomes /\ o.content = c
    BY <1>8, <2>2 DEF Outcomes, Text, Char
  <2> QED
    BY <1>8, <2>3 DEF o, c, r, file, e
<1> QED
  BY <1>6, <1>7, <1>8

\* The file is as it was until a call is made, and then what the call has made of it.
EditInv ==
  tool = "edit" =>
    /\ before \in Text
    /\ call = None => text = before
    /\ call # None => /\ call.edits \in Seq(Changes)
                      /\ call.outcome = EditedFile(before, call.edits)
                      /\ text = IF call.outcome.ok THEN call.outcome.content ELSE before

LEMMA EditInit == Init => EditInv
<1> SUFFICES ASSUME Init, tool = "edit" PROVE EditInv
  BY DEF EditInv
<1>1. before \in Text
  BY CallsAssumption DEF Init, Text, Char
<1> QED
  BY <1>1 DEF Init, EditInv

LEMMA ArgumentsType ==
  ASSUME NEW input \in EditInputs PROVE PrepareEditArguments(input) \in Seq(Changes)
<1>1. input.edits \in Seq(Changes) /\ (input.own = None \/ input.own \in Changes)
  BY CallsAssumption
<1> QED
  BY <1>1 DEF PrepareEditArguments

LEMMA EditStep == EditInv /\ [Next]_vars => EditInv'
<1> SUFFICES ASSUME EditInv, [Next]_vars, tool' = "edit" PROVE EditInv'
  BY DEF EditInv
<1>1. ASSUME NEW input \in EditInputs, Edit(input) PROVE EditInv'
  <2> DEFINE edits == PrepareEditArguments(input)
             o == EditedFile(before, edits)
  <2>1. before \in Text /\ text = before /\ before' = before
    BY <1>1 DEF Edit, EditInv
  <2>2. edits \in Seq(Changes)
    BY ArgumentsType
  <2>3. o \in Outcomes
    BY <2>1, <2>2, EditedOutcome
  <2>4. call' = [edits |-> edits, outcome |-> o] /\ text' = IF o.ok THEN o.content ELSE before
    BY <1>1, <2>1 DEF Edit
  <2> HIDE DEF edits, o
  <2>5. call' # None
    <3>1. [edits |-> edits, outcome |-> o] \in [edits : Seq(Changes), outcome : Outcomes]
      BY <2>2, <2>3
    <3>2. None \notin [edits : Seq(Changes), outcome : Outcomes]
      BY CallsAssumption
    <3> QED
      BY <2>4, <3>1, <3>2
  <2>6. call'.edits = edits /\ call'.outcome = o
    BY <2>4
  <2>7. o = EditedFile(before, edits)
    BY DEF o
  <2> QED
    BY <2>1, <2>2, <2>4, <2>5, <2>6, <2>7 DEF EditInv
<1>2. ASSUME ~\E input \in EditInputs : Edit(input) PROVE EditInv'
  <2>1. UNCHANGED vars
    BY <1>2 DEF Next, Read, ReadOn, ReadFails, Show, TellChange, Bash
  <2> QED
    BY <2>1 DEF EditInv, vars
<1> QED
  BY <1>1, <1>2

\* What an edit makes of a file.
AppliedTo(file) == ApplyEditsToNormalizedContent(NormalizeToLF(file.text), call.edits)

LEMMA EditInvText ==
  ASSUME EditInv, Edited
  PROVE  LET file == StripBom(before)
             r == AppliedTo(file)
             e == DetectLineEnding(file.text)
         IN  /\ before \in Text /\ call.edits \in Seq(Changes)
             /\ r.ok = TRUE /\ r.new \in Unix /\ e \in Endings
             /\ Mark = file.bom /\ SubSeq(text, 1, Len(Mark)) = Mark
             /\ Rest = RestoreLineEndings(r.new, e)
<1> DEFINE file == StripBom(before)
           e == DetectLineEnding(file.text)
           r == AppliedTo(file)
           t == RestoreLineEndings(r.new, e)
<1>1. before \in Text /\ call.edits \in Seq(Changes) /\ call.outcome = EditedFile(before, call.edits)
      /\ call.outcome.ok /\ text = call.outcome.content
  BY DEF EditInv, Edited, Done
<1>2. text = file.bom \o t /\ r.new \in Unix /\ r.ok = TRUE
  BY <1>1, EditedOutcome DEF AppliedTo
<1>3. e \in Endings /\ file.bom \in Text
  BY <1>1, StripBomType
<1> HIDE DEF r, e, file
<1>4. t \in Text
  BY <1>2, <1>3, RestoreDetect
<1> HIDE DEF t
<1>5. Mark = file.bom
  BY DEF Mark, file
<1>6. SubSeq(text, 1, Len(Mark)) = Mark /\ Rest = t
  <2>1. file.bom \in Seq(Char) /\ t \in Seq(Char)
    BY <1>3, <1>4 DEF Text
  <2>2. /\ SubSeq(file.bom \o t, 1, Len(file.bom)) = file.bom
        /\ SubSeq(file.bom \o t, Len(file.bom) + 1, Len(file.bom \o t)) = t
    BY <2>1, ConcatParts
  <2> QED
    BY <1>2, <1>5, <2>2 DEF Rest
<1> QED
  BY <1>1, <1>2, <1>3, <1>5, <1>6 DEF file, e, r, t

\* The mark and every line ending are kept.
LEMMA EditInvLines == EditInv => LineEndingsKept
<1> SUFFICES ASSUME EditInv, Edited PROVE LineEndingsKept
  BY DEF LineEndingsKept
<1> DEFINE e == DetectLineEnding(StripBom(before).text)
           u == AppliedTo(StripBom(before)).new
<1>1. /\ u \in Unix /\ e \in Endings /\ SubSeq(text, 1, Len(Mark)) = Mark
      /\ Rest = RestoreLineEndings(u, e)
  BY EditInvText
<1> HIDE DEF u, e
<1>2. Uniform(Rest) /\ (LF \in Range(Rest) => DetectLineEnding(Rest) = e)
  BY <1>1, RestoreDetect, RestoredUniform
<1> QED
  BY <1>1, <1>2 DEF LineEndingsKept, e

\* After an edit the byte-order mark is there if it was there, and every line of the file ends as its
\* first line ended before.
THEOREM LinesKept == Spec => []LineEndingsKept
<1>1. Spec => []EditInv
  BY EditInit, EditStep, PTL DEF Spec
<1> QED
  BY <1>1, EditInvLines, PTL

-----------------------------------------------------------------------------
(* All replacements at once *)

\* For each character of a text, and its end, what is there after the replacements.
PiecesOf(ps, base, ms) ==
  /\ ps \in Seq(Unix) /\ Len(ps) = Len(base) + 1 /\ ps[Len(base) + 1] = <<>>
  /\ \A n \in 1 .. Len(ms) :
       /\ ms[n].length # 0 /\ ps[ms[n].index + 1] = ms[n].newText
       /\ \A j \in ms[n].index + 2 .. End(ms[n]) : ps[j] = <<>>
  /\ \A j \in 1 .. Len(base) :
       (\A n \in 1 .. Len(ms) : ~(ms[n].index < j /\ j <= End(ms[n]))) => ps[j] = <<base[j]>>

\* No match has anything between two places.
Free(ms, a, b) == \A n \in 1 .. Len(ms) : End(ms[n]) <= a \/ b <= ms[n].index

\* Where no match is the pieces are the text.
LEMMA PiecesBetween ==
  ASSUME NEW base \in Unix, NEW ms \in Seq(Matches), NEW ps, PiecesOf(ps, base, ms),
         NEW a \in Nat, NEW b \in Nat, a <= b, b <= Len(base),
         Free(ms, a, b)
  PROVE  FlattenSeq(SubSeq(ps, a + 1, b)) = SubSeq(base, a + 1, b)
<1> DEFINE D == Char \ {CR}
           S == Seq(D)
           q == SubSeq(ps, a + 1, b)
           s == SubSeq(base, a + 1, b)
<1>1. Len(base) \in Nat /\ base \in Seq(D) /\ \A i \in a + 1 .. b : base[i] \in D
  BY DEF Unix
<1>2. ps \in Seq(S) /\ Len(ps) = Len(base) + 1
  BY DEF PiecesOf, Unix
<1>3. \A i \in a + 1 .. b : ps[i] \in S
  BY <1>1, <1>2
<1>4. \A j \in a + 1 .. b : ps[j] = <<base[j]>>
  <2> SUFFICES ASSUME NEW j \in a + 1 .. b PROVE ps[j] = <<base[j]>>
    OBVIOUS
  <2>1. ASSUME NEW n \in 1 .. Len(ms) PROVE ~(ms[n].index < j /\ j <= End(ms[n]))
    <3>1. ms[n].index \in Nat /\ End(ms[n]) \in Nat
      <4>1. ms[n] \in Matches
        OBVIOUS
      <4> QED
        BY <4>1 DEF Matches, End
    <3>2. End(ms[n]) <= a \/ b <= ms[n].index
      BY DEF Free
    <3> QED
      BY <3>1, <3>2
  <2>2. j \in 1 .. Len(base)
    BY <1>1
  <2> QED
    BY <2>1, <2>2 DEF PiecesOf
<1> HIDE DEF D, S
<1>5. s \in Seq(D) /\ Len(s) = (IF a + 1 <= b THEN b - (a + 1) + 1 ELSE 0)
      /\ \A i \in 1 .. b - (a + 1) + 1 : s[i] = base[(a + 1) + i - 1]
  BY <1>1, SubSeqProperties
<1>6. q \in Seq(S) /\ Len(q) = (IF a + 1 <= b THEN b - (a + 1) + 1 ELSE 0)
      /\ \A i \in 1 .. b - (a + 1) + 1 : q[i] = ps[(a + 1) + i - 1]
  BY <1>3, SubSeqProperties
<1> HIDE DEF q, s
<1>7. Len(q) = b - a /\ Len(s) = b - a
  BY <1>5, <1>6
<1>8. \A i \in 1 .. Len(s) : q[i] = <<s[i]>>
  <2> SUFFICES ASSUME NEW i \in 1 .. Len(s) PROVE q[i] = <<s[i]>>
    OBVIOUS
  <2>1. i \in 1 .. b - (a + 1) + 1 /\ (a + 1) + i - 1 \in a + 1 .. b
    BY <1>7
  <2> QED
    BY <1>4, <1>5, <1>6, <2>1
<1>9. FlattenSeq(q) = s
  BY <1>5, <1>6, <1>7, <1>8, FlattenSingles DEF S
<1> QED
  BY <1>9 DEF q, s

\* One replacement more.
LEMMA PiecesStep ==
  ASSUME NEW base \in Unix, NEW ms \in Seq(Matches), NEW ps, Apart(base, ms), PiecesOf(ps, base, ms),
         NEW i \in 1 .. Len(ms)
  PROVE  LET whole(b) == SubSeq(base, 1, b) \o FlattenSeq(SubSeq(ps, b + 1, Len(base) + 1))
         IN  Splice(whole(Bound(base, ms, i - 1)), ms[(Len(ms) - i) + 1]) = whole(Bound(base, ms, i))
<1> DEFINE D == Char \ {CR}
           S == Seq(D)
           N == Len(base) + 1
           k == (Len(ms) - i) + 1
           m == ms[k]
           x == m.index
           e == End(m)
           b == Bound(base, ms, i - 1)
           flat(c, d) == FlattenSeq(SubSeq(ps, c + 1, d))
           A == SubSeq(base, 1, x)
           B == SubSeq(base, x + 1, e)
           C == SubSeq(base, e + 1, b)
           F == flat(b, N)
           W == m.newText
           u == SubSeq(base, 1, b) \o F
<1>1. /\ m \in Matches /\ k \in 1 .. Len(ms) /\ Bound(base, ms, i) = x
      /\ e <= b /\ b <= Len(base) /\ b \in Nat
  BY BoundSteps
<1>2. /\ ps \in Seq(S) /\ Len(ps) = N /\ m.length # 0 /\ ps[x + 1] = W
      /\ \A j \in x + 2 .. e : ps[j] = <<>>
  BY <1>1 DEF PiecesOf, Unix
<1>3. Len(base) \in Nat /\ base \in Seq(D) /\ N = Len(base) + 1
  BY DEF Unix
<1>4. x \in Nat /\ e \in Nat /\ x + 1 <= e /\ x <= e /\ W \in S
  <2>1. m.index \in Nat /\ m.length \in Nat /\ m.newText \in Unix
    BY <1>1 DEF Matches
  <2>2. W \in S
    BY <2>1 DEF Unix
  <2>3. m.length # 0
    BY <1>2
  <2>4. e = m.index + m.length
    BY DEF End
  <2> HIDE DEF m, e, S, W
  <2>5. x \in Nat /\ e \in Nat /\ x + 1 <= e /\ x <= e
    BY <2>1, <2>3, <2>4
  <2> QED
    BY <2>2, <2>5
<1>5. \A n \in 1 .. Len(ms) : End(ms[n]) <= e \/ b <= ms[n].index
  <2> SUFFICES ASSUME NEW n \in 1 .. Len(ms) PROVE End(ms[n]) <= e \/ b <= ms[n].index
    OBVIOUS
  <2>1. Len(ms) \in Nat /\ k = (Len(ms) - i) + 1
    OBVIOUS
  <2>2. \A j \in 1 .. Len(ms) : ms[j].index \in Nat /\ End(ms[j]) \in Nat /\ ms[j].index <= End(ms[j])
    <3>1. \A f \in Matches : f.index \in Nat /\ End(f) \in Nat /\ f.index <= End(f)
      BY DEF Matches, End
    <3> QED
      BY <3>1
  <2>3. \A j, l \in 1 .. Len(ms) : j < l => End(ms[j]) <= ms[l].index
    BY DEF Apart
  <2>4. CASE n = k
    BY <1>4, <2>4
  <2>5. CASE n < k
    <3>1. End(ms[n]) <= x
      BY <1>1, <2>3, <2>5
    <3> QED
      BY <1>4, <2>2, <3>1
  <2>6. CASE n > k
    <3>1. i - 1 # 0 /\ (Len(ms) - (i - 1)) + 1 = k + 1 /\ k + 1 \in 1 .. Len(ms)
      BY <1>1, <2>1, <2>6
    <3>2. b = ms[k + 1].index
      BY <3>1 DEF Bound
    <3>3. CASE n = k + 1
      BY <2>2, <3>2, <3>3
    <3>4. CASE n # k + 1
      <4>1. k + 1 < n
        BY <1>1, <2>6, <3>4
      <4>2. End(ms[k + 1]) <= ms[n].index
        BY <2>3, <3>1, <4>1
      <4>3. ms[k + 1].index <= End(ms[k + 1]) /\ ms[k + 1].index \in Nat /\ End(ms[k + 1]) \in Nat
            /\ ms[n].index \in Nat
        BY <2>2, <3>1
      <4> HIDE DEF b, k
      <4>4. b <= ms[n].index
        BY <3>2, <4>2, <4>3
      <4> QED
        BY <4>4
    <3> QED
      BY <3>3, <3>4
  <2> HIDE DEF k
  <2>7. k \in Nat /\ n \in Nat
    BY <1>1, <2>1
  <2>8. n = k \/ n < k \/ n > k
    BY <2>7
  <2> QED
    BY <2>4, <2>5, <2>6, <2>8
<1> HIDE DEF N, k, m, x, e, b, W
<1>6. flat(e, b) = C
  <2>1. e \in Nat /\ b \in Nat /\ e <= b /\ b <= Len(base)
    BY <1>1, <1>4
  <2>2. FlattenSeq(SubSeq(ps, e + 1, b)) = SubSeq(base, e + 1, b)
    <3>1. Free(ms, e, b)
      BY <1>5 DEF Free
    <3> HIDE DEF D, S, flat, A, B, C, F, u
    <3> QED
      BY <2>1, <3>1, PiecesBetween
  <2> QED
    BY <2>2
<1>a. \A s, t, v \in S : (s \o t) \o v = s \o (t \o v)
  BY ConcatAssociative
<1>c. \A s, t \in S : s \o t \in S /\ Len(s \o t) = Len(s) + Len(t)
  BY ConcatProperties
<1>b. \A c, d, f \in Nat : c <= d /\ d <= f /\ f <= N =>
        /\ flat(c, f) = flat(c, d) \o flat(d, f)
        /\ SubSeq(ps, c + 1, f) \in Seq(S)
  <2> SUFFICES ASSUME NEW c \in Nat, NEW d \in Nat, NEW f \in Nat, c <= d, d <= f, f <= N
               PROVE  /\ flat(c, f) = flat(c, d) \o flat(d, f)
                      /\ SubSeq(ps, c + 1, f) \in Seq(S)
    OBVIOUS
  <2>1. ps \in Seq(Seq(D)) /\ f <= Len(ps)
    BY <1>2
  <2>2. /\ SubSeq(ps, c + 1, f) \in Seq(Seq(D))
        /\ FlattenSeq(SubSeq(ps, c + 1, f))
             = FlattenSeq(SubSeq(ps, c + 1, d)) \o FlattenSeq(SubSeq(ps, d + 1, f))
    <3>1. ps \in Seq(Seq(D)) /\ f <= Len(ps)
      BY <2>1
    <3> HIDE DEF D
    <3> QED
      BY <3>1, FlattenSplit
  <2> QED
    BY <2>2
<1> HIDE DEF D
<1>7. A \in S /\ B \in S /\ C \in S /\ Len(A) = x /\ Len(B) = e - x /\ SubSeq(base, 1, b) \in S
  <2>1. \A j \in 1 .. Len(base) : base[j] \in D
    BY <1>3
  <2>2. \A c, d \in Nat : d <= Len(base) =>
          SubSeq(base, c + 1, d) \in S /\ Len(SubSeq(base, c + 1, d)) = IF c + 1 <= d THEN d - (c + 1) + 1 ELSE 0
    <3> SUFFICES ASSUME NEW c \in Nat, NEW d \in Nat, d <= Len(base)
                 PROVE  SubSeq(base, c + 1, d) \in S
                        /\ Len(SubSeq(base, c + 1, d)) = IF c + 1 <= d THEN d - (c + 1) + 1 ELSE 0
      OBVIOUS
    <3>1. \A j \in c + 1 .. d : base[j] \in D
      BY <1>3, <2>1
    <3> QED
      BY <3>1, SubSeqProperties
  <2>3. x <= Len(base) /\ e <= Len(base) /\ 0 + 1 = 1
    BY <1>1, <1>3, <1>4
  <2>4. A \in S /\ Len(A) = IF 1 <= x THEN x - 1 + 1 ELSE 0
    <3>1. SubSeq(base, 0 + 1, x) \in S /\ Len(SubSeq(base, 0 + 1, x)) = IF 0 + 1 <= x THEN x - (0 + 1) + 1 ELSE 0
      <4>1. 0 \in Nat
        OBVIOUS
      <4> QED
        BY <1>4, <2>2, <2>3, <4>1
    <3> QED
      BY <3>1
  <2>5. B \in S /\ Len(B) = IF x + 1 <= e THEN e - (x + 1) + 1 ELSE 0
    BY <1>4, <2>2, <2>3
  <2>6. C \in S /\ SubSeq(base, 1, b) \in S
    <3>1. C \in S
      BY <1>1, <1>4, <2>2
    <3>2. SubSeq(base, 0 + 1, b) \in S
      <4>1. 0 \in Nat
        OBVIOUS
      <4> QED
        BY <1>1, <2>2, <4>1
    <3> QED
      BY <3>1, <3>2
  <2> QED
    BY <1>4, <2>4, <2>5, <2>6
<1>8. SubSeq(base, 1, b) = A \o (B \o C) /\ SubSeq(base, 1, b) = (A \o B) \o C
  <2>1. SubSeq(base, 1, x) \o SubSeq(base, x + 1, b) = SubSeq(base, 1, b)
    <3>1. 1 \in 1 .. Len(base) + 1 /\ x \in 1 - 1 .. Len(base) /\ b \in x .. Len(base)
      BY <1>1, <1>3, <1>4
    <3> QED
      BY <1>3, <3>1, ConcatAdjacentSubSeq
  <2>2. SubSeq(base, x + 1, e) \o SubSeq(base, e + 1, b) = SubSeq(base, x + 1, b)
    <3>1. x + 1 \in 1 .. Len(base) + 1 /\ e \in (x + 1) - 1 .. Len(base) /\ b \in e .. Len(base)
      BY <1>1, <1>3, <1>4
    <3> QED
      BY <1>3, <3>1, ConcatAdjacentSubSeq
  <2> HIDE DEF S
  <2>3. SubSeq(base, 1, b) = A \o (B \o C)
    BY <2>1, <2>2
  <2>4. (A \o B) \o C = A \o (B \o C)
    <3> HIDE DEF A, B, C
    <3> QED
      BY <1>7, <1>a
  <2> QED
    BY <2>3, <2>4
<1>9. F \in S
  <2>1. b <= N /\ N \in Nat /\ N <= Len(ps) /\ ps \in Seq(Seq(D))
    BY <1>1, <1>2, <1>3
  <2>2. SubSeq(ps, b + 1, N) \in Seq(Seq(D))
    <3>1. b <= b
      BY <1>1
    <3> QED
      BY <1>1, <2>1, <3>1, FlattenSplit
  <2> QED
    BY <2>2, FlattenType
<1> DEFINE G == C \o F
           H == B \o C
<1> HIDE DEF A, B, C, F, S
<1>10. G \in S /\ H \in S /\ A \o B \in S
  BY <1>7, <1>9, <1>c
<1> HIDE DEF H
<1>11. u = A \o (H \o F) /\ u = (A \o B) \o G
  <2>0. A \in S /\ C \in S /\ F \in S /\ H \in S
    BY <1>7, <1>9, <1>10
  <2>1. (A \o H) \o F = A \o (H \o F)
    BY <1>a, <2>0
  <2>2. ((A \o B) \o C) \o F = (A \o B) \o (C \o F)
    <3> DEFINE AB == A \o B
    <3>1. AB \in S
      BY <1>10
    <3> HIDE DEF AB
    <3>2. (AB \o C) \o F = AB \o (C \o F)
      BY <1>a, <2>0, <3>1
    <3> QED
      BY <3>2 DEF AB
  <2> QED
    BY <1>8, <2>1, <2>2 DEF H
<1>12. SubSeq(u, 1, x) = A
  <2>1. H \o F \in S
    BY <1>9, <1>10, <1>c
  <2> DEFINE HF == H \o F
  <2> HIDE DEF u, HF
  <2>2. u = A \o HF /\ HF \in Seq(D) /\ A \in Seq(D)
    BY <1>7, <1>11, <2>1 DEF HF, S
  <2> QED
    BY <1>7, <2>2, ConcatParts
<1>13. SubSeq(u, e + 1, Len(u)) = G
  <2>1. Len(A \o B) = e
    <3>1. Len(A \o B) = Len(A) + Len(B)
      BY <1>7, <1>c
    <3> QED
      BY <1>4, <1>7, <3>1
  <2> DEFINE AB == A \o B
  <2> HIDE DEF u, G, AB
  <2>2. AB \in Seq(D) /\ Len(AB) = e /\ u = AB \o G /\ G \in Seq(D)
    BY <1>10, <1>11, <2>1 DEF AB, S
  <2> QED
    BY <2>2, ConcatParts
<1>14. Splice(u, m) = (A \o W) \o G
  <2>1. Splice(u, m) = SubSeq(u, 1, x) \o W \o SubSeq(u, e + 1, Len(u))
    <3>1. m.index + m.length + 1 = e + 1
      BY DEF e, End
    <3> QED
      BY <3>1 DEF Splice, x, W
  <2> HIDE DEF u, G
  <2> QED
    BY <1>12, <1>13, <2>1
<1>15. flat(x, N) = W \o G
  <2>0. N \in Nat /\ b <= N /\ e <= N /\ x + 1 <= N /\ x + 1 \in Nat /\ x <= x + 1
        /\ x + 1 \in 1 .. Len(ps) /\ ps \in Seq(Seq(D))
    BY <1>1, <1>2, <1>3, <1>4 DEF S
  <2> HIDE DEF flat
  <2>1. flat(x, N) = flat(x, x + 1) \o flat(x + 1, N)
    <3>1. x \in Nat /\ x + 1 \in Nat /\ N \in Nat /\ x <= x + 1 /\ x + 1 <= N /\ N <= N
      BY <1>4, <2>0
    <3> QED
      BY <1>b, <3>1
  <2>2. flat(x + 1, N) = flat(x + 1, e) \o flat(e, N) /\ SubSeq(ps, (x + 1) + 1, e) \in Seq(S)
    <3>0. x + 1 \in Nat /\ e \in Nat /\ N \in Nat /\ x + 1 <= e /\ e <= N /\ N <= N /\ e <= e
      BY <1>4, <2>0
    <3>1. flat(x + 1, N) = flat(x + 1, e) \o flat(e, N)
      BY <1>b, <3>0
    <3>3. SubSeq(ps, (x + 1) + 1, e) \in Seq(S)
      BY <1>b, <3>0
    <3> QED
      BY <3>1, <3>3
  <2>3. flat(e, N) = flat(e, b) \o flat(b, N)
    <3>1. e \in Nat /\ b \in Nat /\ N \in Nat /\ e <= b /\ b <= N /\ N <= N
      BY <1>1, <1>4, <2>0
    <3> QED
      BY <1>b, <3>1
  <2>4. flat(x, x + 1) = W
    <3>1. SubSeq(ps, x + 1, x + 1) = <<W>>
      <4> DEFINE T == Seq(D)
      <4>1. ps \in Seq(T)
        BY <2>0
      <4> HIDE DEF T
      <4>2. SubSeq(ps, x + 1, x + 1) = <<ps[x + 1]>>
        BY <2>0, <4>1, ShortPieces
      <4> QED
        BY <1>2, <4>2
    <3>2. FlattenSeq(Append(<<>>, W)) = FlattenSeq(<<>>) \o W
      <4>1. <<>> \in Seq(Seq(D)) /\ W \in Seq(D)
        BY <1>4 DEF S
      <4> QED
        BY <4>1, FlattenAppend
    <3>3. Append(<<>>, W) = <<W>> /\ <<>> \o W = W
      BY <1>4 DEF S
    <3> QED
      BY <3>1, <3>2, <3>3, FlattenNil DEF flat
  <2>5. flat(x + 1, e) = <<>>
    <3> DEFINE q == SubSeq(ps, (x + 1) + 1, e)
    <3>1. \A j \in (x + 1) + 1 .. e : ps[j] \in {<<>>}
      BY <1>2, <1>4
    <3>2. q \in Seq({<<>>})
      BY <1>4, <3>1, SubSeqProperties
    <3>3. \A j \in 1 .. Len(q) : q[j] = <<>>
      BY <3>2
    <3> HIDE DEF q
    <3>4. q \in Seq(Seq(D))
      BY <2>2 DEF q, S
    <3>5. FlattenSeq(q) = <<>>
      BY <3>3, <3>4, FlattenEmpties
    <3> QED
      BY <3>5 DEF q, flat
  <2>6. <<>> \o G = G
    BY <1>10 DEF S
  <2>7. flat(e, N) = G
    BY <1>6, <2>3 DEF F
  <2> HIDE DEF G
  <2> QED
    BY <2>1, <2>2, <2>4, <2>5, <2>6, <2>7
<1>16. (A \o W) \o G = A \o (W \o G)
  <2>1. A \in S /\ W \in S /\ G \in S
    BY <1>4, <1>7, <1>10
  <2> HIDE DEF G
  <2> QED
    BY <1>a, <2>1
<1>17. Splice(u, m) = A \o flat(x, N)
  BY <1>14, <1>15, <1>16
<1> QED
  BY <1>1, <1>17 DEF A, F, N, k, m, x, b

\* The replacements from the end make what all of them at once make.
LEMMA SpliceAllPieces ==
  ASSUME NEW base \in Unix, NEW ms \in Seq(Matches), NEW ps, Apart(base, ms), PiecesOf(ps, base, ms)
  PROVE  SpliceAll(base, ms) = FlattenSeq(ps)
<1> DEFINE N == Len(base) + 1
           D == Char \ {CR}
           whole(b) == SubSeq(base, 1, b) \o FlattenSeq(SubSeq(ps, b + 1, N))
<1>1. Len(ms) \in Nat /\ Len(base) \in Nat /\ N \in Nat /\ ps \in Seq(Seq(D)) /\ Len(ps) = N /\ base \in Seq(D)
      /\ ps[N] = <<>>
  BY DEF Unix, PiecesOf
<1>2. PICK g : /\ g[0] = base
               /\ \A i \in 1 .. Len(ms) : g[i] = Splice(g[i - 1], ms[(Len(ms) - i) + 1])
               /\ SpliceAll(base, ms) = g[Len(ms)]
  BY SpliceRun
<1> DEFINE h == [i \in 0 .. Len(ms) |-> whole(Bound(base, ms, i))]
<1>3. g[0] = h[0]
  <2>1. h[0] = whole(Len(base))
    <3>1. Bound(base, ms, 0) = Len(base) /\ 0 \in 0 .. Len(ms)
      BY <1>1 DEF Bound
    <3> HIDE DEF whole
    <3>2. h[0] = whole(Bound(base, ms, 0))
      BY <3>1
    <3> QED
      BY <3>1, <3>2
  <2>2. SubSeq(ps, Len(base) + 1, N) = <<ps[N]>>
    <3> DEFINE T == Seq(D)
    <3>1. ps \in Seq(T) /\ N \in 1 .. Len(ps)
      BY <1>1
    <3> HIDE DEF T
    <3> QED
      BY <3>1, ShortPieces
  <2>3. FlattenSeq(<<ps[N]>>) = <<>>
    <3> DEFINE q == <<ps[N]>>
    <3>1. q \in Seq(Seq(D)) /\ \A i \in 1 .. Len(q) : q[i] = <<>>
      BY <1>1
    <3> HIDE DEF q
    <3>2. FlattenSeq(q) = <<>>
      BY <3>1, FlattenEmpties
    <3> QED
      BY <3>2 DEF q
  <2>4. SubSeq(base, 1, Len(base)) \o <<>> = base
    BY <1>1
  <2> QED
    BY <1>2, <2>1, <2>2, <2>3, <2>4
<1>4. \A i \in 1 .. Len(ms) : g[i - 1] = h[i - 1] => g[i] = h[i]
  <2> SUFFICES ASSUME NEW i \in 1 .. Len(ms), g[i - 1] = h[i - 1] PROVE g[i] = h[i]
    OBVIOUS
  <2>1. i - 1 \in 0 .. Len(ms) /\ i \in 0 .. Len(ms)
    BY <1>1
  <2>2. g[i] = Splice(g[i - 1], ms[(Len(ms) - i) + 1])
    BY <1>2
  <2>3. Splice(whole(Bound(base, ms, i - 1)), ms[(Len(ms) - i) + 1]) = whole(Bound(base, ms, i))
    BY PiecesStep
  <2> HIDE DEF whole
  <2>4. h[i] = whole(Bound(base, ms, i)) /\ h[i - 1] = whole(Bound(base, ms, i - 1))
    BY <2>1
  <2> QED
    BY <2>2, <2>3, <2>4
<1>5. h[Len(ms)] = whole(Bound(base, ms, Len(ms)))
  <2>1. Len(ms) \in 0 .. Len(ms)
    BY <1>1
  <2> HIDE DEF whole
  <2> QED
    BY <2>1
<1> DEFINE b == Bound(base, ms, Len(ms))
<1>6. b \in Nat /\ b <= Len(base) /\ \A j \in 1 .. Len(ms) : b <= ms[j].index
  <2>1. \A j \in 1 .. Len(ms) : ms[j].index \in Nat /\ End(ms[j]) \in Nat /\ ms[j].index <= End(ms[j])
    <3>1. \A f \in Matches : f.index \in Nat /\ End(f) \in Nat /\ f.index <= End(f)
      BY DEF Matches, End
    <3> QED
      BY <3>1
  <2>2. CASE Len(ms) = 0
    <3>1. b = Len(base)
      BY <2>2 DEF Bound
    <3> QED
      BY <1>1, <2>2, <3>1
  <2>3. CASE Len(ms) # 0
    <3>1. b = ms[1].index /\ 1 \in 1 .. Len(ms)
      BY <1>1, <2>3 DEF Bound
    <3>2. End(ms[1]) <= Len(base) /\ \A j \in 1 .. Len(ms) : 1 < j => End(ms[1]) <= ms[j].index
      BY <3>1 DEF Apart
    <3>3. b \in Nat /\ b <= Len(base)
      BY <1>1, <2>1, <3>1, <3>2
    <3>4. \A j \in 1 .. Len(ms) : j = 1 \/ 1 < j
      BY <1>1
    <3>5. \A j \in 1 .. Len(ms) : b <= ms[j].index
      BY <2>1, <3>1, <3>2, <3>4
    <3> QED
      BY <3>3, <3>5
  <2> QED
    BY <2>2, <2>3
<1> HIDE DEF h
<1>7. \A i \in 0 .. Len(ms) : g[i] = h[i]
  <2>1. g[0] = h[0] /\ \A i \in 1 .. Len(ms) : g[i - 1] = h[i - 1] => g[i] = h[i]
    BY <1>3, <1>4
  <2>2. Len(ms) \in Nat
    BY <1>1
  <2> QED
    BY <2>1, <2>2, RunsAgree, ZenonT(30)
<1> HIDE DEF b
<1> DEFINE z == 0
<1>8. z \in Nat /\ z <= b /\ b \in Nat /\ b <= N /\ N \in Nat /\ N <= Len(ps) /\ z + 1 = 1
  BY <1>1, <1>6
<1> HIDE DEF z
<1>9. FlattenSeq(SubSeq(ps, z + 1, b)) = SubSeq(base, z + 1, b)
  <2>1. b <= Len(base)
    BY <1>6
  <2>2. Free(ms, z, b)
    BY <1>6, <1>8 DEF Free
  <2> QED
    BY <1>8, <2>1, <2>2, PiecesBetween
<1>10. FlattenSeq(SubSeq(ps, z + 1, N)) = FlattenSeq(SubSeq(ps, z + 1, b)) \o FlattenSeq(SubSeq(ps, b + 1, N))
  <2>1. ps \in Seq(Seq(D))
    BY <1>1
  <2>2. \A c, d, f \in Nat : c <= d /\ d <= f /\ f <= Len(ps) =>
          FlattenSeq(SubSeq(ps, c + 1, f)) = FlattenSeq(SubSeq(ps, c + 1, d)) \o FlattenSeq(SubSeq(ps, d + 1, f))
    <3> HIDE DEF N, D
    <3> QED
      BY <2>1, FlattenSplit
  <2> HIDE DEF N, D
  <2> QED
    BY <1>8, <2>2
<1>12. SubSeq(ps, 1, N) = ps
  <2> DEFINE T == Seq(D)
  <2>1. ps \in Seq(T) /\ N = Len(ps)
    BY <1>1
  <2> HIDE DEF T, N
  <2> QED
    BY <2>1, SubSeqFull
<1>11. g[Len(ms)] = whole(b)
  <2>1. Len(ms) \in 0 .. Len(ms)
    BY <1>1
  <2> HIDE DEF whole
  <2>2. g[Len(ms)] = h[Len(ms)]
    BY <1>7, <2>1
  <2> QED
    BY <1>5, <2>2 DEF b
<1> QED
  <2>1. FlattenSeq(ps) = SubSeq(base, 1, b) \o FlattenSeq(SubSeq(ps, b + 1, N))
    BY <1>8, <1>9, <1>10, <1>12
  <2> QED
    BY <1>2, <1>11, <2>1

\* Matches that lie apart give such pieces.
Starting(ms, i) == {n \in 1 .. Len(ms) : ms[n].index = i - 1}
Covered(ms, i) == \E n \in 1 .. Len(ms) : ms[n].index < i /\ i <= End(ms[n])
Piece(base, ms, i) ==
  (IF Starting(ms, i) = {} THEN <<>> ELSE ms[CHOOSE n \in Starting(ms, i) : TRUE].newText)
  \o IF i <= Len(base) /\ ~Covered(ms, i) THEN <<base[i]>> ELSE <<>>
Pieces(base, ms) == [i \in 1 .. Len(base) + 1 |-> Piece(base, ms, i)]

\* No two matches overlap, in whatever order they are.
Disjoint(base, ms) ==
  /\ \A n \in 1 .. Len(ms) : End(ms[n]) <= Len(base) /\ ms[n].length # 0
  /\ \A n, k \in 1 .. Len(ms) : n # k => End(ms[n]) <= ms[k].index \/ End(ms[k]) <= ms[n].index

LEMMA MatchFacts ==
  ASSUME NEW base, NEW ms \in Seq(Matches), Disjoint(base, ms), NEW n \in 1 .. Len(ms)
  PROVE  /\ ms[n].index \in Nat /\ End(ms[n]) \in Nat /\ ms[n].index < End(ms[n])
         /\ End(ms[n]) <= Len(base) /\ ms[n].newText \in Unix
<1>1. \A m \in Matches : /\ m.index \in Nat /\ m.length \in Nat /\ m.newText \in Unix
                         /\ End(m) = m.index + m.length
  BY DEF Matches, End
<1>2. ms[n] \in Matches
  OBVIOUS
<1>3. ms[n].length # 0 /\ End(ms[n]) <= Len(base)
  BY DEF Disjoint
<1>4. /\ ms[n].index \in Nat /\ ms[n].length \in Nat /\ ms[n].newText \in Unix
      /\ End(ms[n]) = ms[n].index + ms[n].length
  BY <1>1, <1>2
<1> QED
  BY <1>3, <1>4

LEMMA PiecesAtOnce ==
  ASSUME NEW base \in Unix, NEW ms \in Seq(Matches), Disjoint(base, ms)
  PROVE  PiecesOf(Pieces(base, ms), base, ms)
<1> DEFINE D == Char \ {CR}
           N == Len(base) + 1
           ps == Pieces(base, ms)
           new(i) == IF Starting(ms, i) = {} THEN <<>> ELSE ms[CHOOSE n \in Starting(ms, i) : TRUE].newText
           old(i) == IF i <= Len(base) /\ ~Covered(ms, i) THEN <<base[i]>> ELSE <<>>
<1>1. Len(base) \in Nat /\ N \in Nat /\ N = Len(base) + 1 /\ \A i \in 1 .. Len(base) : base[i] \in D
  BY DEF Unix
<1>2. \A n \in 1 .. Len(ms) : /\ ms[n].index \in Nat /\ End(ms[n]) \in Nat /\ ms[n].index < End(ms[n])
                              /\ End(ms[n]) <= Len(base) /\ ms[n].newText \in Unix
  BY MatchFacts
<1>3. \A i \in 1 .. N : ps[i] = new(i) \o old(i)
  BY DEF Pieces, Piece
<1>4. \A i \in 1 .. N : new(i) \in Seq(D) /\ (Starting(ms, i) = {} => new(i) = <<>>)
  <2> SUFFICES ASSUME NEW i \in 1 .. N PROVE new(i) \in Seq(D) /\ (Starting(ms, i) = {} => new(i) = <<>>)
    OBVIOUS
  <2>1. CASE Starting(ms, i) = {}
    BY <2>1
  <2>2. CASE Starting(ms, i) # {}
    <3>1. (CHOOSE n \in Starting(ms, i) : TRUE) \in 1 .. Len(ms)
      BY <2>2 DEF Starting
    <3>2. new(i) \in Unix
      BY <1>2, <2>2, <3>1
    <3> QED
      BY <2>2, <3>2 DEF Unix
  <2> QED
    BY <2>1, <2>2
<1>5. \A i \in 1 .. N : /\ old(i) \in Seq(D)
                        /\ Covered(ms, i) \/ i = N => old(i) = <<>>
                        /\ ~Covered(ms, i) /\ i # N => old(i) = <<base[i]>>
  <2> SUFFICES ASSUME NEW i \in 1 .. N
               PROVE  /\ old(i) \in Seq(D)
                      /\ Covered(ms, i) \/ i = N => old(i) = <<>>
                      /\ ~Covered(ms, i) /\ i # N => old(i) = <<base[i]>>
    OBVIOUS
  <2>1. i = N => ~(i <= Len(base))
    BY <1>1
  <2>2. i # N => i \in 1 .. Len(base) /\ i <= Len(base)
    BY <1>1
  <2>3. i # N => <<base[i]>> \in Seq(D)
    BY <1>1, <2>2
  <2> HIDE DEF N, D
  <2>4. <<>> \in Seq(D)
    OBVIOUS
  <2> QED
    BY <2>1, <2>2, <2>3, <2>4
<1> HIDE DEF new, old, ps
<1>6. \A i \in 1 .. N : /\ ps[i] \in Seq(D)
                        /\ new(i) = <<>> => ps[i] = old(i)
                        /\ old(i) = <<>> => ps[i] = new(i)
  <2> HIDE DEF D
  <2>1. \A s \in Seq(D), t \in Seq(D) : s \o t \in Seq(D) /\ (s = <<>> => s \o t = t) /\ (t = <<>> => s \o t = s)
    OBVIOUS
  <2> SUFFICES ASSUME NEW i \in 1 .. N
               PROVE  ps[i] \in Seq(D) /\ (new(i) = <<>> => ps[i] = old(i)) /\ (old(i) = <<>> => ps[i] = new(i))
    OBVIOUS
  <2> DEFINE a == new(i)
             b == old(i)
  <2>2. a \in Seq(D) /\ b \in Seq(D) /\ ps[i] = a \o b
    BY <1>3, <1>4, <1>5
  <2> HIDE DEF a, b
  <2>3. ps[i] \in Seq(D) /\ (a = <<>> => ps[i] = b) /\ (b = <<>> => ps[i] = a)
    BY <2>1, <2>2
  <2> QED
    BY <2>3 DEF a, b
<1>7. \A i \in 1 .. N, n \in 1 .. Len(ms) : n \in Starting(ms, i) <=> i = ms[n].index + 1
  BY <1>1, <1>2 DEF Starting
<1>8. \A i \in 1 .. N : Starting(ms, i) \subseteq 1 .. Len(ms)
  BY DEF Starting
<1>9. \A n, k \in 1 .. Len(ms) : n # k => End(ms[n]) <= ms[k].index \/ End(ms[k]) <= ms[n].index
  BY DEF Disjoint
<1>10. ps \in Seq(Unix) /\ Len(ps) = N
  <2>1. ps = [i \in 1 .. N |-> ps[i]]
    BY DEF ps, Pieces
  <2> HIDE DEF D
  <2>2. ps \in Seq(Seq(D)) /\ Len(ps) = N
    BY <1>1, <1>6, <2>1
  <2> QED
    BY <2>2 DEF Unix, D
<1>11. ps[N] = <<>>
  <2>1. N \in 1 .. N
    BY <1>1
  <2>2. Starting(ms, N) = {}
    <3>1. \A n \in 1 .. Len(ms) : N # ms[n].index + 1
      BY <1>1, <1>2
    <3> QED
      BY <1>7, <1>8, <2>1, <3>1
  <2> QED
    BY <1>4, <1>5, <1>6, <2>1, <2>2
<1>12. ASSUME NEW n \in 1 .. Len(ms) PROVE ps[ms[n].index + 1] = ms[n].newText
  <2> DEFINE i == ms[n].index + 1
  <2>1. i \in 1 .. N /\ ms[n].index < i /\ i <= End(ms[n])
    BY <1>1, <1>2
  <2>2. Covered(ms, i)
    BY <2>1 DEF Covered
  <2>3. Starting(ms, i) = {n}
    <3>1. n \in Starting(ms, i)
      BY <1>7, <2>1
    <3>2. ASSUME NEW k \in Starting(ms, i) PROVE k = n
      <4>1. k \in 1 .. Len(ms) /\ ms[k].index = ms[n].index
        <5>1. k \in 1 .. Len(ms)
          BY <1>8, <2>1
        <5>2. i = ms[k].index + 1
          BY <1>7, <2>1, <5>1
        <5> QED
          BY <1>2, <5>1, <5>2
      <4>2. ~(End(ms[n]) <= ms[k].index) /\ ~(End(ms[k]) <= ms[n].index)
        BY <1>2, <4>1
      <4> QED
        BY <1>9, <4>1, <4>2
    <3> QED
      BY <3>1, <3>2
  <2>4. (CHOOSE k \in {n} : TRUE) = n
    OBVIOUS
  <2>5. new(i) = ms[n].newText
    BY <2>3, <2>4 DEF new
  <2> HIDE DEF i
  <2>6. ps[i] = new(i)
    BY <1>5, <1>6, <2>1, <2>2
  <2> QED
    BY <2>5, <2>6 DEF i
<1>13. ASSUME NEW n \in 1 .. Len(ms), NEW j \in ms[n].index + 2 .. End(ms[n]) PROVE ps[j] = <<>>
  <2>1. j \in 1 .. N /\ ms[n].index < j /\ j <= End(ms[n]) /\ j # ms[n].index + 1
    BY <1>1, <1>2
  <2>2. Covered(ms, j)
    BY <2>1 DEF Covered
  <2>3. ASSUME NEW k \in 1 .. Len(ms) PROVE j # ms[k].index + 1
    <3>1. CASE k = n
      BY <2>1, <3>1
    <3>2. CASE k # n
      <4>1. End(ms[n]) <= ms[k].index \/ End(ms[k]) <= ms[n].index
        BY <1>9, <3>2
      <4> QED
        BY <1>2, <2>1, <4>1
    <3> QED
      BY <3>1, <3>2
  <2>4. Starting(ms, j) = {}
    BY <1>7, <1>8, <2>1, <2>3
  <2> QED
    BY <1>4, <1>5, <1>6, <2>1, <2>2, <2>4
<1>14. ASSUME NEW j \in 1 .. Len(base), \A n \in 1 .. Len(ms) : ~(ms[n].index < j /\ j <= End(ms[n]))
       PROVE  ps[j] = <<base[j]>>
  <2>1. j \in 1 .. N /\ j # N /\ ~Covered(ms, j)
    BY <1>1, <1>14 DEF Covered
  <2>2. ASSUME NEW k \in 1 .. Len(ms) PROVE j # ms[k].index + 1
    <3>1. j = ms[k].index + 1 => ms[k].index < j /\ j <= End(ms[k])
      BY <1>2
    <3> QED
      BY <1>14, <3>1
  <2>3. Starting(ms, j) = {}
    BY <1>7, <1>8, <2>1, <2>2
  <2> QED
    BY <1>4, <1>5, <1>6, <2>1, <2>3
<1>15. \A n \in 1 .. Len(ms) : ms[n].length # 0
  BY DEF Disjoint
<1> HIDE DEF N
<1>16. PiecesOf(ps, base, ms)
  BY <1>10, <1>11, <1>12, <1>13, <1>14, <1>15 DEF PiecesOf, N
<1> QED
  BY <1>16 DEF ps

\* The order of the matches does not matter for the pieces.
LEMMA Rearranged ==
  ASSUME NEW base, NEW ms \in Seq(Matches), NEW rs \in Seq(Matches), Len(rs) = Len(ms),
         NEW p \in [1 .. Len(ms) -> 1 .. Len(ms)],
         \A i \in 1 .. Len(ms) : \E j \in 1 .. Len(ms) : p[j] = i,
         \A i \in 1 .. Len(ms) : rs[i] = ms[p[i]],
         NEW ps, PiecesOf(ps, base, ms)
  PROVE  PiecesOf(ps, base, rs)
<1> DEFINE L == Len(ms)
<1>1. \A i \in 1 .. L : rs[i] = ms[p[i]] /\ p[i] \in 1 .. L
  OBVIOUS
<1>2. \A n \in 1 .. L : \E i \in 1 .. L : p[i] = n
  OBVIOUS
<1>3. \A n \in 1 .. L :
        /\ ms[n].length # 0 /\ ps[ms[n].index + 1] = ms[n].newText
        /\ \A j \in ms[n].index + 2 .. End(ms[n]) : ps[j] = <<>>
  BY DEF PiecesOf
<1> DEFINE Shown(m) == /\ m.length # 0 /\ ps[m.index + 1] = m.newText
                       /\ \A j \in m.index + 2 .. End(m) : ps[j] = <<>>
<1>4. \A i \in 1 .. L : Shown(rs[i])
  <2>1. \A n \in 1 .. L : Shown(ms[n])
    BY <1>3
  <2> HIDE DEF Shown
  <2> QED
    BY <1>1, <2>1
<1>5. ASSUME NEW j \in 1 .. Len(base), \A i \in 1 .. L : ~(rs[i].index < j /\ j <= End(rs[i]))
      PROVE  ps[j] = <<base[j]>>
  <2>1. ASSUME NEW n \in 1 .. L PROVE ~(ms[n].index < j /\ j <= End(ms[n]))
    <3>1. PICK i \in 1 .. L : p[i] = n
      BY <1>2
    <3> QED
      BY <1>1, <1>5, <3>1
  <2> QED
    BY <2>1 DEF PiecesOf
<1>6. ps \in Seq(Unix) /\ Len(ps) = Len(base) + 1 /\ ps[Len(base) + 1] = <<>>
  BY DEF PiecesOf
<1> QED
  BY <1>4, <1>5, <1>6 DEF PiecesOf

LEMMA SortedPieces ==
  ASSUME NEW base \in Unix, NEW ms \in Seq(Matches), Sorted(ms) \in Seq(Matches), Apart(base, Sorted(ms)),
         \A n \in 1 .. Len(ms) : ms[n].length # 0
  PROVE  /\ Disjoint(base, ms)
         /\ \A ps : PiecesOf(ps, base, ms) => PiecesOf(ps, base, Sorted(ms))
<1> DEFINE s == Sorted(ms)
           L == Len(ms)
<1>1. PICK p \in [1 .. L -> 1 .. L] :
        /\ \A i \in 1 .. L : \E j \in 1 .. L : p[j] = i
        /\ \A i, j \in 1 .. L : i < j => Before(ms, p[i], p[j])
        /\ s = [i \in 1 .. L |-> ms[p[i]]]
  BY SortedMatches
<1>2. L \in Nat
  OBVIOUS
<1>3. Len(s) = L
  BY <1>1, <1>2
<1>4. \A i \in 1 .. L : s[i] = ms[p[i]] /\ p[i] \in 1 .. L
  BY <1>1
<1>5. /\ \A i \in 1 .. L : End(s[i]) <= Len(base)
      /\ \A i, j \in 1 .. L : i < j => End(s[i]) <= s[j].index
  BY <1>3 DEF Apart
<1>s. s \in Seq(Matches)
  OBVIOUS
<1> HIDE DEF s
<1>6. \A n \in 1 .. L : \E i \in 1 .. L : p[i] = n
  BY <1>1
<1>7. Disjoint(base, ms)
  <2>1. ASSUME NEW n \in 1 .. L PROVE End(ms[n]) <= Len(base)
    <3>1. PICK i \in 1 .. L : p[i] = n
      BY <1>6
    <3> QED
      BY <1>4, <1>5, <3>1
  <2>2. ASSUME NEW n \in 1 .. L, NEW k \in 1 .. L, n # k
        PROVE  End(ms[n]) <= ms[k].index \/ End(ms[k]) <= ms[n].index
    <3>1. PICK i \in 1 .. L : p[i] = n
      BY <1>6
    <3>2. PICK j \in 1 .. L : p[j] = k
      BY <1>6
    <3>3. i < j \/ j < i
      BY <1>2, <2>2, <3>1, <3>2
    <3> QED
      BY <1>4, <1>5, <3>1, <3>2, <3>3
  <2> QED
    BY <2>1, <2>2 DEF Disjoint
<1>8. ASSUME NEW ps, PiecesOf(ps, base, ms) PROVE PiecesOf(ps, base, s)
  <2>1. p \in [1 .. Len(ms) -> 1 .. Len(ms)] /\ \A i \in 1 .. Len(ms) : s[i] = ms[p[i]]
    BY <1>1, <1>4
  <2>2. \A i \in 1 .. Len(ms) : \E j \in 1 .. Len(ms) : p[j] = i
    BY <1>6
  <2>3. Len(s) = Len(ms)
    BY <1>3
  <2> QED
    BY <1>s, <1>8, <2>1, <2>2, <2>3, Rearranged
<1> QED
  BY <1>7, <1>8 DEF s

\* A text that is normalized has no more characters than before.
LEMMA NormalizeShort ==
  ASSUME NEW t \in Text PROVE Len(NormalizeToLF(t)) <= Len(t)
<1> DEFINE P == {u \in Text : Len(Unified(u)) <= Len(u)}
<1>1. <<>> \in P
  <2>1. <<>> \in Text
    BY DEF Text
  <2> QED
    BY <2>1, UnifiedNil
<1>2. ASSUME NEW u \in Seq(Char), NEW c \in Char, u \in P PROVE Append(u, c) \in P
  <2> DEFINE v == Unified(u)
             w == Append(u, c)
  <2>1. u \in Text /\ w \in Text /\ Len(w) = Len(u) + 1 /\ Len(u) \in Nat
    BY DEF Text
  <2>2. v \in Text /\ Len(v) <= Len(u)
    BY <1>2, <2>1, UnifiedType
  <2>3. Unified(w) = Unify(v, c)
    BY <2>1, UnifiedAppend DEF Unify
  <2> HIDE DEF v, w
  <2>4. Len(Unify(v, c)) <= Len(v) + 1
    <3>1. v \in Seq(Char) /\ Len(Append(v, c)) = Len(v) + 1 /\ Len(v) \in Nat
      BY <2>2 DEF Text
    <3>2. v # <<>> => Len(Append(Front(v), LF)) <= Len(v) + 1
      BY <3>1 DEF Front
    <3> QED
      BY <3>1, <3>2 DEF Unify
  <2>5. Len(Unify(v, c)) \in Nat /\ Len(v) \in Nat
    <3>1. Unify(v, c) \in Text
      BY <2>2, UnifyType
    <3> QED
      BY <2>2, <3>1 DEF Text
  <2>6. Len(Unified(w)) <= Len(w)
    BY <2>1, <2>2, <2>3, <2>4, <2>5
  <2>7. w \in P
    BY <2>1, <2>6
  <2> QED
    BY <2>7 DEF w
<1> HIDE DEF P
<1>3. \A u \in Seq(Char) : u \in P
  BY <1>1, <1>2, SequenceInduction
<1>4. Len(Unified(t)) <= Len(t) /\ Unified(t) \in Text
  BY <1>3, UnifiedType DEF P, Text
<1> DEFINE u == Unified(t)
<1>5. NormalizeToLF(t) = [n \in DOMAIN u |-> IF u[n] = CR THEN LF ELSE u[n]]
  BY DEF NormalizeToLF, Unified
<1> HIDE DEF u
<1>6. Len(NormalizeToLF(t)) = Len(u)
  <2>1. DOMAIN u = 1 .. Len(u) /\ Len(u) \in Nat
    BY <1>4 DEF u, Text
  <2> QED
    BY <1>5, <2>1
<1> QED
  BY <1>4, <1>6 DEF u

LEMMA OriginalType ==
  ASSUME before \in Text PROVE Original \in Unix /\ Len(Original) <= Len(before) /\ Len(before) \in Nat
<1> DEFINE t == StripBom(before).text
<1>1. t \in Text
  BY StripBomType
<1>2. Len(t) <= Len(before) /\ Len(before) \in Nat
  BY DEF StripBom, Text
<1>3. Original = NormalizeToLF(t)
  BY DEF Original
<1> HIDE DEF t
<1>4. Original \in Unix /\ Len(Original) <= Len(t)
  BY <1>1, <1>3, NormalizeType, NormalizeShort
<1>5. Len(Original) \in Nat /\ Len(t) \in Nat
  BY <1>1, <1>4 DEF Text, Unix
<1> QED
  BY <1>2, <1>4, <1>5

\* Where the old texts of a call are, and the new text for each.
Found == Placed(Original, UnixEdits(call.edits))

\* A call whose old texts are all in the file as they are replaces each where it is first.
LEMMA FoundExact ==
  ASSUME EditInv, Edited, Exact
  PROVE  /\ Found \in Seq(Matches) /\ DOMAIN call.edits = 1 .. Len(Found)
         /\ Sorted(Found) \in Seq(Matches) /\ Apart(Original, Sorted(Found))
         /\ NormalizeToLF(Rest) = SpliceAll(Original, Sorted(Found))
         /\ \A n \in 1 .. Len(Found) :
              /\ Found[n] = [index |-> IndexOf(Original, OldText(n)), length |-> Len(OldText(n)),
                             newText |-> NormalizeToLF(call.edits[n].newText)]
              /\ Found[n].index \in Occurrences(Original, OldText(n)) /\ Found[n].length # 0
<1> DEFINE edits == call.edits
           r == AppliedTo(StripBom(before))
           e == DetectLineEnding(StripBom(before).text)
           U == UnixEdits(edits)
<1>1. /\ before \in Text /\ edits \in Seq(Changes) /\ r.ok = TRUE /\ r.new \in Unix /\ e \in Endings
      /\ Rest = RestoreLineEndings(r.new, e)
  BY EditInvText
<1>2. Original \in Unix
  BY <1>1, OriginalType
<1>3. r = ApplyEditsToNormalizedContent(Original, edits)
  BY DEF AppliedTo, Original
<1>4. U \in Seq(UnixChanges) /\ Len(U) = Len(edits) /\ DOMAIN edits = 1 .. Len(edits) /\ Len(edits) \in Nat
  BY <1>1, UnixEditsType
<1>5. \A n \in DOMAIN edits : U[n].oldText = OldText(n) /\ U[n].newText = NormalizeToLF(call.edits[n].newText)
  BY DEF UnixEdits, OldText
<1>6. \A n \in DOMAIN edits : OldText(n) \in Unix
  <2>1. \A c \in UnixChanges : c.oldText \in Unix
    BY DEF UnixChanges
  <2> HIDE DEF U, edits
  <2>2. \A n \in DOMAIN edits : U[n] \in UnixChanges
    BY <1>4
  <2> QED
    BY <1>5, <2>1, <2>2
<1>7. \A n \in DOMAIN edits : Occurrences(Original, OldText(n)) # {}
  BY DEF Exact
<1> HIDE DEF r, e, U, edits
<1>8. \A n \in DOMAIN edits : FuzzyFindText(Original, U[n].oldText)
        = [index |-> IndexOf(Original, OldText(n)), length |-> Len(OldText(n)), fuzzy |-> FALSE]
  BY <1>2, <1>5, <1>6, <1>7, FoundIn
<1> DEFINE f(n) == FuzzyFindText(Original, U[n].oldText)
<1>f. \A n \in DOMAIN edits : f(n).index = IndexOf(Original, OldText(n)) /\ f(n).length = Len(OldText(n))
                               /\ f(n).fuzzy = FALSE
  <2> SUFFICES ASSUME NEW n \in DOMAIN edits
               PROVE  f(n).index = IndexOf(Original, OldText(n)) /\ f(n).length = Len(OldText(n))
                      /\ f(n).fuzzy = FALSE
    OBVIOUS
  <2> DEFINE g == f(n)
             a == IndexOf(Original, OldText(n))
             b == Len(OldText(n))
  <2>1. g = [index |-> a, length |-> b, fuzzy |-> FALSE]
    BY <1>8
  <2> HIDE DEF g, a, b
  <2>2. g.index = a /\ g.length = b /\ g.fuzzy = FALSE
    BY <2>1
  <2> QED
    BY <2>2 DEF g, a, b
<1>9. BaseOf(Original, edits) = Original
  <2>1. \A n \in DOMAIN edits : FuzzyFindText(Original, U[n].oldText).fuzzy = FALSE
    BY <1>f
  <2> QED
    BY <2>1 DEF BaseOf, U
<1>10. Found = Placed(Original, U)
  BY DEF Found, U, edits
<1>11. /\ r.new = SpliceAll(Original, Sorted(Found))
       /\ Found \in Seq(Matches) /\ Len(Found) = Len(edits)
       /\ Sorted(Found) \in Seq(Matches) /\ Apart(Original, Sorted(Found))
       /\ \A n \in DOMAIN edits : U[n].oldText # <<>>
  <2>1. r.ok = TRUE => r \notin Failures
    BY DEF Failures
  <2> DEFINE A == ApplyEditsToNormalizedContent(Original, edits)
  <2>2. \/ A \in Failures
        \/ /\ A.ok = TRUE /\ A.new = SpliceAll(Original, Sorted(Found))
           /\ Found \in Seq(Matches) /\ Len(Found) = Len(edits)
           /\ Sorted(Found) \in Seq(Matches) /\ Apart(Original, Sorted(Found))
           /\ \A n \in DOMAIN edits : U[n].oldText # <<>>
    BY <1>1, <1>2, <1>9, <1>10, AppliedOutcome DEF U
  <2> HIDE DEF A
  <2> QED
    BY <1>1, <1>3, <2>1, <2>2 DEF A
<1>12. NormalizeToLF(Rest) = r.new
  BY <1>1, RestoreNormalize
<1>13. ASSUME NEW n \in DOMAIN edits
       PROVE  /\ Found[n] = [index |-> IndexOf(Original, OldText(n)), length |-> Len(OldText(n)),
                             newText |-> NormalizeToLF(call.edits[n].newText)]
              /\ Found[n].index \in Occurrences(Original, OldText(n)) /\ Found[n].length # 0
  <2>1. DOMAIN U = DOMAIN edits
    BY DEF U, UnixEdits
  <2>2. Found[n] = [index |-> FuzzyFindText(Original, U[n].oldText).index,
                    length |-> FuzzyFindText(Original, U[n].oldText).length,
                    newText |-> U[n].newText]
    BY <1>10, <2>1 DEF Placed
  <2>3. Found[n] = [index |-> IndexOf(Original, OldText(n)), length |-> Len(OldText(n)),
                    newText |-> NormalizeToLF(call.edits[n].newText)]
    BY <1>5, <1>f, <2>2
  <2>4. IndexOf(Original, OldText(n)) \in Occurrences(Original, OldText(n))
    <3>1. Original \in Text /\ OldText(n) \in Text
      BY <1>2, <1>6, EndingsType
    <3> QED
      BY <1>7, <3>1, IndexFound
  <2>5. Len(OldText(n)) # 0
    <3>1. OldText(n) # <<>> /\ OldText(n) \in Unix
      BY <1>5, <1>6, <1>11
    <3> QED
      BY <3>1 DEF Unix
  <2> QED
    BY <2>3, <2>4, <2>5
<1>14. DOMAIN edits = 1 .. Len(Found)
  BY <1>4, <1>11
<1>15. DOMAIN call.edits = 1 .. Len(Found)
  BY <1>14 DEF edits
<1> QED
  BY <1>11, <1>12, <1>13, <1>14, <1>15

\* The places of the old texts, and what is known of each.
LEMMA FoundFields ==
  ASSUME EditInv, Edited, Exact, NEW n \in 1 .. Len(Found)
  PROVE  /\ Found[n].index = IndexOf(Original, OldText(n)) /\ Found[n].length = Len(OldText(n))
         /\ Found[n].newText = NormalizeToLF(call.edits[n].newText)
<1> DEFINE m == Found[n]
           a == IndexOf(Original, OldText(n))
           b == Len(OldText(n))
           c == NormalizeToLF(call.edits[n].newText)
<1>1. m = [index |-> a, length |-> b, newText |-> c]
  BY FoundExact
<1> HIDE DEF m, a, b, c
<1>2. m.index = a /\ m.length = b /\ m.newText = c
  BY <1>1
<1> QED
  BY <1>2 DEF m, a, b, c

\* All at once, they make what the replacements one after the other make.
LEMMA AllAtOnce ==
  ASSUME EditInv, Edited, Exact, NEW at,
         at = [n \in DOMAIN call.edits |-> IndexOf(Original, OldText(n))]
  PROVE  /\ Disjoint(Original, Found)
         /\ NormalizeToLF(Rest) = ReplacedAt(Original, at)
<1> DEFINE N == Len(Original) + 1
           starts(i) == {n \in DOMAIN at : at[n] = i - 1}
           covered(i) == \E n \in DOMAIN at : i - 1 \in at[n] .. at[n] + Len(OldText(n)) - 1
           inserted(i) == IF starts(i) = {} THEN <<>>
                          ELSE NormalizeToLF(call.edits[CHOOSE n \in starts(i) : TRUE].newText)
           P(i) == inserted(i) \o IF i <= Len(Original) /\ ~covered(i) THEN <<Original[i]>> ELSE <<>>
           ps == Pieces(Original, Found)
<1>1. /\ Found \in Seq(Matches) /\ DOMAIN call.edits = 1 .. Len(Found)
      /\ Sorted(Found) \in Seq(Matches) /\ Apart(Original, Sorted(Found))
      /\ NormalizeToLF(Rest) = SpliceAll(Original, Sorted(Found))
      /\ \A n \in 1 .. Len(Found) :
           /\ Found[n] = [index |-> IndexOf(Original, OldText(n)), length |-> Len(OldText(n)),
                          newText |-> NormalizeToLF(call.edits[n].newText)]
           /\ Found[n].length # 0
  BY FoundExact
<1>2. Original \in Unix /\ Len(Original) \in Nat
  <2>1. before \in Text
    BY EditInvText
  <2> QED
    BY <2>1, OriginalType DEF Unix
<1>3. Disjoint(Original, Found) /\ \A qs : PiecesOf(qs, Original, Found) => PiecesOf(qs, Original, Sorted(Found))
  BY <1>1, <1>2, SortedPieces
<1>4. NormalizeToLF(Rest) = FlattenSeq(ps)
  <2>1. PiecesOf(ps, Original, Sorted(Found))
    BY <1>1, <1>2, <1>3, PiecesAtOnce
  <2> QED
    BY <1>1, <1>2, <2>1, SpliceAllPieces
<1>5. \A n \in 1 .. Len(Found) : /\ at[n] = Found[n].index /\ Found[n].length = Len(OldText(n))
                                 /\ Found[n].newText = NormalizeToLF(call.edits[n].newText)
  BY <1>1, FoundFields
<1>6. DOMAIN at = 1 .. Len(Found)
  BY <1>1
<1>7. \A n \in 1 .. Len(Found) : /\ Found[n].index \in Nat /\ Found[n].length \in Nat
                                 /\ End(Found[n]) = Found[n].index + Found[n].length
  <2>1. \A m \in Matches : m.index \in Nat /\ m.length \in Nat /\ End(m) = m.index + m.length
    BY DEF Matches, End
  <2> QED
    BY <1>1, <2>1
<1>8. ReplacedAt(Original, at) = FlattenSeq([i \in 1 .. N |-> P(i)])
  BY DEF ReplacedAt
<1>9. ASSUME NEW i \in 1 .. N PROVE P(i) = Piece(Original, Found, i)
  <2>0. i \in Nat
    BY <1>2
  <2>1. starts(i) = Starting(Found, i)
    <3>1. \A n \in 1 .. Len(Found) : at[n] = i - 1 <=> Found[n].index = i - 1
      BY <1>5
    <3> QED
      BY <1>6, <3>1 DEF Starting
  <2>2. covered(i) <=> Covered(Found, i)
    <3>1. ASSUME NEW n \in 1 .. Len(Found)
          PROVE  i - 1 \in at[n] .. at[n] + Len(OldText(n)) - 1 <=> Found[n].index < i /\ i <= End(Found[n])
      <4> DEFINE a == Found[n].index
                 b == Found[n].length
                 c == End(Found[n])
      <4>1. a \in Nat /\ b \in Nat /\ c = a + b /\ at[n] = a /\ Len(OldText(n)) = b
        BY <1>5, <1>7
      <4> HIDE DEF a, b, c
      <4>2. i - 1 \in a .. a + b - 1 <=> a < i /\ i <= c
        BY <2>0, <4>1
      <4> QED
        BY <4>1, <4>2 DEF a, b, c
    <3> QED
      BY <1>6, <3>1 DEF Covered
  <2>3. inserted(i) = IF Starting(Found, i) = {} THEN <<>>
                      ELSE Found[CHOOSE n \in Starting(Found, i) : TRUE].newText
    <3>1. CASE starts(i) = {}
      BY <2>1, <3>1
    <3>2. CASE starts(i) # {}
      <4> DEFINE k == CHOOSE n \in starts(i) : TRUE
      <4>1. k \in 1 .. Len(Found)
        BY <1>6, <3>2
      <4>2. inserted(i) = NormalizeToLF(call.edits[k].newText)
        BY <3>2
      <4>3. k = CHOOSE n \in Starting(Found, i) : TRUE
        BY <2>1
      <4> HIDE DEF k, starts, inserted
      <4>4. Found[k].newText = NormalizeToLF(call.edits[k].newText)
        BY <1>5, <4>1
      <4> QED
        BY <2>1, <3>2, <4>2, <4>3, <4>4
    <3> QED
      BY <3>1, <3>2
  <2> HIDE DEF inserted, covered, starts
  <2> QED
    BY <2>2, <2>3 DEF Piece
<1>10. [i \in 1 .. N |-> P(i)] = ps
  <2> HIDE DEF P
  <2> QED
    BY <1>9 DEF Pieces
<1> QED
  BY <1>3, <1>4, <1>8, <1>10

\* The places of a call's old texts lie apart, and nothing but them is changed.
LEMMA EditInvSimultaneous == EditInv => EditsSimultaneous
<1> SUFFICES ASSUME EditInv, Edited, Exact
             PROVE  \E at \in [DOMAIN call.edits -> 0 .. Len(before)] :
                      /\ \A n \in DOMAIN at : at[n] \in Occurrences(Original, OldText(n))
                      /\ \A n, m \in DOMAIN at : n # m => \/ at[n] + Len(OldText(n)) <= at[m]
                                                          \/ at[m] + Len(OldText(m)) <= at[n]
                      /\ NormalizeToLF(Rest) = ReplacedAt(Original, at)
  BY DEF EditsSimultaneous
<1> DEFINE at == [n \in DOMAIN call.edits |-> IndexOf(Original, OldText(n))]
<1>1. /\ DOMAIN call.edits = 1 .. Len(Found) /\ Found \in Seq(Matches)
      /\ \A n \in 1 .. Len(Found) :
           /\ Found[n] = [index |-> IndexOf(Original, OldText(n)), length |-> Len(OldText(n)),
                          newText |-> NormalizeToLF(call.edits[n].newText)]
           /\ Found[n].index \in Occurrences(Original, OldText(n))
  BY FoundExact
<1>2. DOMAIN at = 1 .. Len(Found) /\ at = [n \in DOMAIN call.edits |-> at[n]]
  BY <1>1
<1>3. \A n \in 1 .. Len(Found) : at[n] = Found[n].index /\ Found[n].length = Len(OldText(n))
  BY <1>1, FoundFields
<1>4. Disjoint(Original, Found) /\ NormalizeToLF(Rest) = ReplacedAt(Original, at)
  BY AllAtOnce
<1> HIDE DEF at
<1>5. \A n \in 1 .. Len(Found) : /\ Found[n].index \in Nat /\ End(Found[n]) \in Nat
                                 /\ Found[n].index < End(Found[n]) /\ End(Found[n]) <= Len(Original)
                                 /\ End(Found[n]) = Found[n].index + Found[n].length
  <2>1. \A m \in Matches : End(m) = m.index + m.length
    BY DEF Matches, End
  <2> QED
    BY <1>1, <1>4, <2>1, MatchFacts
<1>6. \A n \in DOMAIN at : at[n] \in Occurrences(Original, OldText(n))
  BY <1>1, <1>2, <1>3
<1>7. \A n, m \in DOMAIN at : n # m => \/ at[n] + Len(OldText(n)) <= at[m]
                                        \/ at[m] + Len(OldText(m)) <= at[n]
  <2>1. \A n, m \in 1 .. Len(Found) : n # m => End(Found[n]) <= Found[m].index \/ End(Found[m]) <= Found[n].index
    BY <1>4 DEF Disjoint
  <2>2. \A n \in 1 .. Len(Found) : End(Found[n]) = at[n] + Len(OldText(n)) /\ Found[n].index = at[n]
    BY <1>3, <1>5
  <2> SUFFICES ASSUME NEW n \in 1 .. Len(Found), NEW m \in 1 .. Len(Found), n # m
               PROVE  at[n] + Len(OldText(n)) <= at[m] \/ at[m] + Len(OldText(m)) <= at[n]
    BY <1>2
  <2>3. /\ End(Found[n]) = at[n] + Len(OldText(n)) /\ Found[n].index = at[n]
        /\ End(Found[m]) = at[m] + Len(OldText(m)) /\ Found[m].index = at[m]
    BY <2>2
  <2>4. End(Found[n]) <= Found[m].index \/ End(Found[m]) <= Found[n].index
    BY <2>1
  <2> QED
    BY <2>3, <2>4
<1>8. at \in [DOMAIN call.edits -> 0 .. Len(before)]
  <2>1. Len(Original) <= Len(before) /\ Len(before) \in Nat /\ Len(Original) \in Nat
    <3>1. before \in Text
      BY EditInvText
    <3> QED
      BY <3>1, OriginalType DEF Unix
  <2>2. \A n \in 1 .. Len(Found) : at[n] \in 0 .. Len(before)
    BY <1>3, <1>5, <2>1
  <2> QED
    BY <1>1, <1>2, <2>2
<1> QED
  BY <1>4, <1>6, <1>7, <1>8

\* "Each edit is matched against the original file, not incrementally": old texts that are in the file
\* as they are lie apart, and all of them are replaced as if at once, though the program replaces one
\* after the other.
THEOREM EditsAtOnce == Spec => []EditsSimultaneous
<1>1. Spec => []EditInv
  BY EditInit, EditStep, PTL DEF Spec
<1> QED
  BY <1>1, EditInvSimultaneous, PTL

-----------------------------------------------------------------------------
(* The order of the edits *)

\* What becomes of matches that lie in the text, in whatever order they are.
LEMMA ReplacedAtOnce ==
  ASSUME NEW base \in Unix, NEW ms \in Seq(Matches),
         \A n \in 1 .. Len(ms) : End(ms[n]) <= Len(base) /\ ms[n].length # 0,
         NEW ps, Disjoint(base, ms) => PiecesOf(ps, base, ms)
  PROVE  LET r == ReplaceMatches(base, Sorted(ms))
         IN  /\ ~Disjoint(base, ms) \/ FlattenSeq(ps) = base => r \in Failures
             /\ Disjoint(base, ms) /\ FlattenSeq(ps) # base => r.ok = TRUE /\ r.new = FlattenSeq(ps)
<1> DEFINE s == Sorted(ms)
           r == ReplaceMatches(base, s)
           L == Len(ms)
           overlap == \E n \in 2 .. Len(s) : s[n - 1].index + s[n - 1].length > s[n].index
<1>1. s \in Seq(Matches) /\ Len(s) = L /\ (Apart(base, s) \/ overlap)
  BY SortedApart
<1>2. r = IF overlap THEN Failure("overlap")
          ELSE IF SpliceAll(base, s) = base THEN Failure("no change")
          ELSE [ok |-> TRUE, base |-> base, new |-> SpliceAll(base, s)]
  BY DEF ReplaceMatches
<1>3. Failure("overlap") \in Failures /\ Failure("no change") \in Failures
  BY DEF Failure, Failures
<1>4. Apart(base, s) => Disjoint(base, ms) /\ SpliceAll(base, s) = FlattenSeq(ps)
  <2> SUFFICES ASSUME Apart(base, s) PROVE Disjoint(base, ms) /\ SpliceAll(base, s) = FlattenSeq(ps)
    OBVIOUS
  <2>1. Disjoint(base, ms) /\ \A qs : PiecesOf(qs, base, ms) => PiecesOf(qs, base, s)
    BY <1>1, SortedPieces
  <2>2. PiecesOf(ps, base, s)
    BY <2>1
  <2> QED
    BY <1>1, <2>1, <2>2, SpliceAllPieces
<1>5. overlap => ~Disjoint(base, ms)
  <2> SUFFICES ASSUME overlap, Disjoint(base, ms) PROVE FALSE
    OBVIOUS
  <2>1. PICK n \in 2 .. Len(s) : s[n - 1].index + s[n - 1].length > s[n].index
    OBVIOUS
  <2>2. PICK p \in [1 .. L -> 1 .. L] :
          /\ \A i, j \in 1 .. L : i < j => Before(ms, p[i], p[j])
          /\ s = [i \in 1 .. L |-> ms[p[i]]]
    BY SortedMatches
  <2>3. n \in 1 .. L /\ n - 1 \in 1 .. L /\ n - 1 < n
    BY <1>1
  <2> HIDE DEF s, overlap
  <2>4. s[n] = ms[p[n]] /\ s[n - 1] = ms[p[n - 1]] /\ p[n] \in 1 .. L /\ p[n - 1] \in 1 .. L
    BY <2>2, <2>3
  <2>5. Before(ms, p[n - 1], p[n])
    BY <2>2, <2>3
  <2> DEFINE a == p[n - 1]
             b == p[n]
  <2>6. a \in 1 .. L /\ b \in 1 .. L /\ Before(ms, a, b)
        /\ ms[a].index + ms[a].length > ms[b].index
    BY <2>1, <2>4, <2>5
  <2> HIDE DEF a, b
  <2>7. /\ ms[a].index \in Nat /\ ms[b].index \in Nat /\ End(ms[b]) \in Nat /\ ms[b].index < End(ms[b])
        /\ End(ms[a]) = ms[a].index + ms[a].length
    <3>1. \A m \in Matches : End(m) = m.index + m.length
      BY DEF End
    <3> QED
      BY <2>6, <3>1, MatchFacts
  <2>8. a # b
    BY <2>6, <2>7 DEF Before
  <2>9. ms[a].index <= ms[b].index
    BY <2>6, <2>7 DEF Before
  <2>10. End(ms[a]) <= ms[b].index \/ End(ms[b]) <= ms[a].index
    BY <2>6, <2>8 DEF Disjoint
  <2>11. End(ms[a]) \in Nat
    BY <2>6, MatchFacts
  <2> QED
    BY <2>6, <2>7, <2>9, <2>10, <2>11
<1> HIDE DEF s, r, overlap
<1>6. ~Disjoint(base, ms) \/ FlattenSeq(ps) = base => r \in Failures
  BY <1>1, <1>2, <1>3, <1>4
<1>7. Disjoint(base, ms) /\ FlattenSeq(ps) # base => r.ok = TRUE /\ r.new = FlattenSeq(ps)
  <2> SUFFICES ASSUME Disjoint(base, ms), FlattenSeq(ps) # base PROVE r.ok = TRUE /\ r.new = FlattenSeq(ps)
    OBVIOUS
  <2>1. SpliceAll(base, s) = FlattenSeq(ps) /\ ~overlap
    BY <1>1, <1>4, <1>5
  <2>2. r = [ok |-> TRUE, base |-> base, new |-> FlattenSeq(ps)]
    BY <1>2, <2>1
  <2> QED
    BY <2>2
<1> QED
  BY <1>6, <1>7 DEF r, s

\* Matches in the reverse order.
LEMMA ReversedMatches ==
  ASSUME NEW base, NEW ms \in Seq(Matches), NEW rs \in Seq(Matches), Len(rs) = Len(ms),
         \A i \in 1 .. Len(ms) : rs[i] = ms[(Len(ms) - i) + 1],
         Disjoint(base, ms)
  PROVE  /\ Disjoint(base, rs)
         /\ \A ps : PiecesOf(ps, base, ms) => PiecesOf(ps, base, rs)
<1> DEFINE L == Len(ms)
           p == [i \in 1 .. L |-> (L - i) + 1]
<1>1. L \in Nat /\ \A i \in 1 .. L : (L - i) + 1 \in 1 .. L /\ (L - ((L - i) + 1)) + 1 = i
  OBVIOUS
<1>2. p \in [1 .. L -> 1 .. L] /\ \A i \in 1 .. L : p[i] = (L - i) + 1
  BY <1>1
<1>3. \A i \in 1 .. L : \E j \in 1 .. L : p[j] = i
  <2> SUFFICES ASSUME NEW i \in 1 .. L PROVE \E j \in 1 .. L : p[j] = i
    OBVIOUS
  <2>1. p[(L - i) + 1] = i /\ (L - i) + 1 \in 1 .. L
    BY <1>1
  <2> QED
    BY <2>1
<1>4. \A i \in 1 .. L : rs[i] = ms[p[i]] /\ p[i] \in 1 .. L
  BY <1>1, <1>2
<1>5. \A i, j \in 1 .. L : i # j => p[i] # p[j]
  BY <1>1, <1>2
<1> HIDE DEF p
<1>6. Disjoint(base, rs)
  <2>1. /\ \A n \in 1 .. L : End(ms[n]) <= Len(base) /\ ms[n].length # 0
        /\ \A n, k \in 1 .. L : n # k => End(ms[n]) <= ms[k].index \/ End(ms[k]) <= ms[n].index
    BY DEF Disjoint
  <2>2. \A n \in 1 .. L : End(rs[n]) <= Len(base) /\ rs[n].length # 0
    BY <1>4, <2>1
  <2>3. ASSUME NEW n \in 1 .. L, NEW k \in 1 .. L, n # k
        PROVE  End(rs[n]) <= rs[k].index \/ End(rs[k]) <= rs[n].index
    <3>1. p[n] # p[k] /\ p[n] \in 1 .. L /\ p[k] \in 1 .. L
      BY <1>4, <1>5, <2>3
    <3> QED
      BY <1>4, <2>1, <3>1
  <2> QED
    BY <2>2, <2>3 DEF Disjoint
<1>7. ASSUME NEW ps, PiecesOf(ps, base, ms) PROVE PiecesOf(ps, base, rs)
  BY <1>2, <1>3, <1>4, <1>7, Rearranged
<1> QED
  BY <1>6, <1>7

\* The edits in the reverse order; old texts that are not empty when normalised; two outcomes alike.
Mirrored(us, vs) == Len(vs) = Len(us) /\ \A n \in 1 .. Len(us) : vs[n] = us[(Len(us) - n) + 1]
NoBlanks(us) == \A n \in 1 .. Len(us) : NormalizeForFuzzyMatch(us[n].oldText) # <<>>
SameOutcome(r, q) == \/ r \in Failures /\ q \in Failures
                     \/ r.ok = TRUE /\ q.ok = TRUE /\ q.new = r.new

\* A call with the edits in the reverse order has the same outcome, unless an old text becomes empty.
LEMMA ReversedReplace ==
  ASSUME NEW base \in Unix, NEW us \in Seq(UnixChanges), NEW vs \in Seq(UnixChanges),
         Mirrored(us, vs), NoBlanks(us)
  PROVE  SameOutcome(ReplaceIn(base, us), ReplaceIn(base, vs))
<1> DEFINE r == ReplaceIn(base, us)
           q == ReplaceIn(base, vs)
           L == Len(us)
           ms == Placed(base, us)
           rs == Placed(base, vs)
<1> USE DEF Mirrored, NoBlanks, SameOutcome
<1>1. L \in Nat /\ DOMAIN us = 1 .. L /\ DOMAIN vs = 1 .. L /\ Len(vs) = L
      /\ \A n \in 1 .. L : (L - n) + 1 \in 1 .. L /\ (L - ((L - n) + 1)) + 1 = n
  OBVIOUS
<1>2. \A n \in 1 .. L : vs[n] = us[(L - n) + 1] /\ us[n] = vs[(L - n) + 1]
  BY <1>1
<1>3. Wrong(base, vs) <=> Wrong(base, us)
  <2> DEFINE Bad(u) == FuzzyFindText(base, u.oldText).index = -1 \/ CountOccurrences(base, u.oldText) > 1
  <2>1. (Wrong(base, us) <=> \E n \in 1 .. L : Bad(us[n])) /\ (Wrong(base, vs) <=> \E n \in 1 .. L : Bad(vs[n]))
    BY <1>1 DEF Wrong
  <2> HIDE DEF Bad
  <2> QED
    BY <1>1, <1>2, <2>1
<1>4. /\ Wrong(base, us) => r \in Failures
      /\ ~Wrong(base, us) => /\ r = ReplaceMatches(base, Sorted(ms)) /\ ms \in Seq(Matches) /\ Len(ms) = L
                             /\ \A n \in 1 .. Len(ms) : End(ms[n]) <= Len(base)
  BY ReplaceInCases
<1>5. /\ Wrong(base, vs) => q \in Failures
      /\ ~Wrong(base, vs) => /\ q = ReplaceMatches(base, Sorted(rs)) /\ rs \in Seq(Matches) /\ Len(rs) = L
                             /\ \A n \in 1 .. Len(rs) : End(rs[n]) <= Len(base)
  BY <1>1, ReplaceInCases
<1>6. CASE Wrong(base, us)
  BY <1>3, <1>4, <1>5, <1>6
<1>7. CASE ~Wrong(base, us)
  <2>1. /\ r = ReplaceMatches(base, Sorted(ms)) /\ ms \in Seq(Matches) /\ Len(ms) = L
        /\ \A n \in 1 .. L : End(ms[n]) <= Len(base)
    BY <1>4, <1>7
  <2>2. /\ q = ReplaceMatches(base, Sorted(rs)) /\ rs \in Seq(Matches) /\ Len(rs) = L
        /\ \A n \in 1 .. L : End(rs[n]) <= Len(base)
    BY <1>3, <1>5, <1>7
  <2>3. \A n \in 1 .. L : rs[n] = ms[(L - n) + 1] /\ ms[n] = rs[(L - n) + 1]
    BY <1>1, <1>2 DEF Placed
  <2>4. ASSUME NEW n \in 1 .. L PROVE ms[n].length # 0
    <3> DEFINE old == us[n].oldText
               f == FuzzyFindText(base, old)
    <3>1. old \in Unix
      <4>1. \A c \in UnixChanges : c.oldText \in Unix
        BY DEF UnixChanges
      <4> QED
        BY <4>1
    <3>2. f.index # -1
      BY <1>1, <1>7 DEF Wrong
    <3>3. ms[n].length = f.length
      BY <1>1 DEF Placed
    <3>4. NormalizeForFuzzyMatch(old) # <<>>
      OBVIOUS
    <3> HIDE DEF old
    <3>5. f.length \in {Len(old), Len(NormalizeForFuzzyMatch(old))}
      BY <3>1, <3>2, FoundIn
    <3>6. /\ NormalizeForFuzzyMatch(old) \in Unix /\ Len(NormalizeForFuzzyMatch(old)) <= Len(old)
      BY <3>1, FuzzyType
    <3> DEFINE no == NormalizeForFuzzyMatch(old)
    <3> HIDE DEF f, no
    <3>7. Len(no) \in Nat /\ Len(no) # 0 /\ Len(no) <= Len(old) /\ Len(old) \in Nat
      BY <3>1, <3>4, <3>6 DEF Unix, no
    <3>8. f.length # 0
      BY <3>5, <3>7 DEF no
    <3> QED
      BY <3>3, <3>8
  <2> HIDE DEF ms, rs, r, q
  <2>5. \A n \in 1 .. L : rs[n].length # 0
    BY <1>1, <2>3, <2>4
  <2>6. Disjoint(base, ms) <=> Disjoint(base, rs)
    <3>1. Disjoint(base, ms) => Disjoint(base, rs)
      BY <2>1, <2>2, <2>3, ReversedMatches
    <3>2. Disjoint(base, rs) => Disjoint(base, ms)
      BY <2>1, <2>2, <2>3, ReversedMatches
    <3> QED
      BY <3>1, <3>2
  <2> DEFINE ps == Pieces(base, ms)
             t == FlattenSeq(ps)
  <2>7. Disjoint(base, ms) => PiecesOf(ps, base, ms)
    BY <2>1, PiecesAtOnce
  <2>8. Disjoint(base, rs) => PiecesOf(ps, base, rs)
    <3> SUFFICES ASSUME Disjoint(base, ms) PROVE PiecesOf(ps, base, rs)
      BY <2>6
    <3> HIDE DEF ps
    <3> QED
      BY <2>1, <2>2, <2>3, <2>7, ReversedMatches
  <2> HIDE DEF ps
  <2>9. /\ ~Disjoint(base, ms) \/ t = base => r \in Failures
        /\ Disjoint(base, ms) /\ t # base => r.ok = TRUE /\ r.new = t
    <3>1. \A n \in 1 .. Len(ms) : End(ms[n]) <= Len(base) /\ ms[n].length # 0
      BY <2>1, <2>4
    <3> QED
      BY <2>1, <2>7, <3>1, ReplacedAtOnce
  <2>10. /\ ~Disjoint(base, rs) \/ t = base => q \in Failures
         /\ Disjoint(base, rs) /\ t # base => q.ok = TRUE /\ q.new = t
    <3>1. \A n \in 1 .. Len(rs) : End(rs[n]) <= Len(base) /\ rs[n].length # 0
      BY <2>2, <2>5
    <3> QED
      BY <2>2, <2>8, <3>1, ReplacedAtOnce
  <2>11. \/ r \in Failures /\ q \in Failures
         \/ r.ok = TRUE /\ q.ok = TRUE /\ q.new = r.new
    BY <2>6, <2>9, <2>10
  <2> QED
    BY <2>11 DEF r, q
<1> QED
  BY <1>6, <1>7

LEMMA ReversedApply ==
  ASSUME NEW content \in Unix, NEW edits \in Seq(Changes),
         \A n \in DOMAIN edits : NormalizeForFuzzyMatch(NormalizeToLF(edits[n].oldText)) # <<>>
  PROVE  LET r == ApplyEditsToNormalizedContent(content, edits)
             q == ApplyEditsToNormalizedContent(content, Reverse(edits))
         IN  /\ \/ r \in Failures /\ q \in Failures
                \/ r.ok = TRUE /\ q.ok = TRUE /\ q.new = r.new
             /\ Reverse(edits) \in Seq(Changes) /\ (Reverse(edits) = <<>> <=> edits = <<>>)
<1> DEFINE rev == Reverse(edits)
           L == Len(edits)
           us == UnixEdits(edits)
           vs == UnixEdits(rev)
           r == ApplyEditsToNormalizedContent(content, edits)
           q == ApplyEditsToNormalizedContent(content, rev)
           base == BaseOf(content, edits)
<1>1. L \in Nat /\ DOMAIN edits = 1 .. L
      /\ \A n \in 1 .. L : (L - n) + 1 \in 1 .. L /\ (L - ((L - n) + 1)) + 1 = n
  OBVIOUS
<1>2. rev \in Seq(Changes) /\ Len(rev) = L /\ \A n \in 1 .. L : rev[n] = edits[(L - n) + 1]
  <2>1. rev = [i \in 1 .. L |-> edits[(L - i) + 1]]
    BY DEF Reverse
  <2> HIDE DEF rev
  <2>2. \A n \in 1 .. L : edits[(L - n) + 1] \in Changes
    BY <1>1
  <2> QED
    BY <1>1, <2>1, <2>2
<1>3. rev = <<>> <=> edits = <<>>
  <2>1. rev = <<>> <=> L = 0
    <3> HIDE DEF rev
    <3> QED
      BY <1>1, <1>2
  <2> QED
    BY <2>1
<1> HIDE DEF rev
<1>4. us \in Seq(UnixChanges) /\ Len(us) = L /\ vs \in Seq(UnixChanges) /\ Len(vs) = L
  BY <1>2, UnixEditsType
<1>5. DOMAIN us = 1 .. L /\ DOMAIN vs = 1 .. L /\ DOMAIN rev = 1 .. L
  BY <1>1, <1>2 DEF UnixEdits
<1>6. \A n \in 1 .. L : vs[n] = us[(L - n) + 1] /\ us[n] = vs[(L - n) + 1]
  BY <1>1, <1>2, <1>5 DEF UnixEdits
<1>7. \A n \in 1 .. L : us[n].oldText = NormalizeToLF(edits[n].oldText)
  BY <1>1 DEF UnixEdits
<1> HIDE DEF us, vs, base, L
<1>8. base = BaseOf(content, rev)
  <2>1. (\E n \in 1 .. L : FuzzyFindText(content, us[n].oldText).fuzzy)
          <=> (\E n \in 1 .. L : FuzzyFindText(content, vs[n].oldText).fuzzy)
    BY <1>1, <1>6
  <2> QED
    BY <1>1, <1>5, <2>1 DEF BaseOf, base, us, vs
<1>9. base \in Unix
  BY FuzzyType DEF BaseOf, base
<1>10. /\ r = IF \E n \in 1 .. L : us[n].oldText = <<>> THEN Failure("empty oldText") ELSE ReplaceIn(base, us)
       /\ q = IF \E n \in 1 .. L : vs[n].oldText = <<>> THEN Failure("empty oldText") ELSE ReplaceIn(base, vs)
  <2>1. r = IF \E n \in DOMAIN us : us[n].oldText = <<>> THEN Failure("empty oldText") ELSE ReplaceIn(base, us)
    BY <1>1, <1>5 DEF ApplyEditsToNormalizedContent, BaseOf, UnixEdits, us, base
  <2>2. q = IF \E n \in DOMAIN vs : vs[n].oldText = <<>> THEN Failure("empty oldText") ELSE ReplaceIn(base, vs)
    BY <1>5, <1>8 DEF ApplyEditsToNormalizedContent, BaseOf, UnixEdits, vs
  <2> QED
    BY <1>5, <2>1, <2>2
<1>11. (\E n \in 1 .. L : us[n].oldText = <<>>) <=> (\E n \in 1 .. L : vs[n].oldText = <<>>)
  BY <1>1, <1>6
<1>12. Failure("empty oldText") \in Failures
  BY DEF Failure, Failures
<1>13. SameOutcome(ReplaceIn(base, us), ReplaceIn(base, vs))
  <2>1. Mirrored(us, vs)
    BY <1>4, <1>6 DEF Mirrored
  <2>2. NoBlanks(us)
    BY <1>1, <1>4, <1>7 DEF NoBlanks
  <2>3. us \in Seq(UnixChanges) /\ vs \in Seq(UnixChanges)
    BY <1>4
  <2> QED
    BY <1>9, <2>1, <2>2, <2>3, ReversedReplace
<1> HIDE DEF r, q
<1>14. \/ r \in Failures /\ q \in Failures
       \/ r.ok = TRUE /\ q.ok = TRUE /\ q.new = r.new
  BY <1>10, <1>11, <1>12, <1>13 DEF SameOutcome
<1> QED
  BY <1>2, <1>3, <1>14 DEF r, q, rev

LEMMA EditInvOrder == EditInv => EditOrderIrrelevant
<1> SUFFICES ASSUME EditInv, Done("edit"),
                    \A n \in DOMAIN call.edits : NormalizeForFuzzyMatch(OldText(n)) # <<>>
             PROVE  LET other == EditedFile(before, Reverse(call.edits))
                    IN  /\ other.ok = call.outcome.ok
                        /\ other.ok => other.content = call.outcome.content
  BY DEF EditOrderIrrelevant, Blank
<1> DEFINE edits == call.edits
           rev == Reverse(edits)
           file == StripBom(before)
           content == NormalizeToLF(file.text)
           r == ApplyEditsToNormalizedContent(content, edits)
           q == ApplyEditsToNormalizedContent(content, rev)
           o == EditedFile(before, edits)
           p == EditedFile(before, rev)
<1>1. before \in Text /\ edits \in Seq(Changes) /\ call.outcome = o
  BY DEF EditInv, Done
<1>2. content \in Unix
  BY <1>1, StripBomType, NormalizeType
<1>3. /\ \/ r \in Failures /\ q \in Failures
         \/ r.ok = TRUE /\ q.ok = TRUE /\ q.new = r.new
      /\ rev = <<>> <=> edits = <<>>
  <2>1. \A n \in DOMAIN edits : NormalizeForFuzzyMatch(NormalizeToLF(edits[n].oldText)) # <<>>
    BY DEF OldText
  <2> HIDE DEF content, edits
  <2> QED
    BY <1>1, <1>2, <2>1, ReversedApply DEF rev
<1>4. /\ o = IF edits = <<>> THEN Failure("no edits")
             ELSE IF r.ok THEN [ok |-> TRUE, content |-> Restored(file, r.new)] ELSE r
      /\ p = IF rev = <<>> THEN Failure("no edits")
             ELSE IF q.ok THEN [ok |-> TRUE, content |-> Restored(file, q.new)] ELSE q
  BY DEF EditedFile, Outcome
<1>5. \A f \in Failures : f.ok = FALSE
  BY DEF Failures
<1>6. Failure("no edits") \in Failures
  BY DEF Failure, Failures
<1> HIDE DEF o, p, r, q, edits, rev, file
<1>7. (o \in Failures /\ p \in Failures) \/ o = p
  BY <1>3, <1>4, <1>5, <1>6
<1>8. p.ok = o.ok /\ (p.ok => p.content = o.content)
  BY <1>5, <1>7
<1> QED
  BY <1>1, <1>8 DEF p, rev, edits

\* The edits of a call may be listed in the reverse order: it fails or makes the same file, so long as
\* no old text is only blanks.
THEOREM EditsInAnyOrder == Spec => []EditOrderIrrelevant
<1>1. Spec => []EditInv
  BY EditInit, EditStep, PTL DEF Spec
<1> QED
  BY <1>1, EditInvOrder, PTL

-----------------------------------------------------------------------------
(* The rows of a diff *)

\* A line, by its part and its place there.
Lines == Nat \X Nat

\* How many lines come before each part.
Counts(off, parts, hidden) ==
  /\ off \in [0 .. Len(parts) -> Nat] /\ off[0] = 0
  /\ \A i \in 1 .. Len(parts) :
       off[i] = off[i - 1] + IF parts[i].kind = hidden THEN 0 ELSE parts[i].lines

\* The lines of the parts one after the other.
Listed(off, parts, hidden) ==
  /\ Counts(off, parts, hidden)
  /\ DOMAIN LinesOf(parts, hidden) = 1 .. off[Len(parts)] /\ Len(LinesOf(parts, hidden)) = off[Len(parts)]
  /\ \A i \in 0 .. Len(parts) : off[i] <= off[Len(parts)]
  /\ \A i \in 1 .. Len(parts) : parts[i].kind # hidden =>
       \A n \in 1 .. parts[i].lines : LinesOf(parts, hidden)[off[i - 1] + n] = <<i, n>>

\* The types of parts; of two neighbours one is a change.
LEMMA PartFacts ==
  ASSUME NEW parts \in DiffParts
  PROVE  /\ Len(parts) \in Nat /\ DOMAIN parts = 1 .. Len(parts)
         /\ \A i \in 1 .. Len(parts) : /\ parts[i].kind \in {"added", "removed", "same"}
                                       /\ parts[i].lines \in Nat /\ parts[i].lines # 0
         /\ \A i \in 2 .. Len(parts) : parts[i - 1].kind # "same" \/ parts[i].kind # "same"
<1> DEFINE Part == [kind : {"added", "removed", "same"}, lines : Nat \ {0}]
<1>1. parts \in Seq(Part) /\ \A i \in 2 .. Len(parts) : IsChange(parts[i - 1]) \/ IsChange(parts[i])
  BY DEF DiffParts
<1>2. \A p \in Part : p.kind \in {"added", "removed", "same"} /\ p.lines \in Nat /\ p.lines # 0
  OBVIOUS
<1> HIDE DEF Part
<1>3. Len(parts) \in Nat /\ DOMAIN parts = 1 .. Len(parts) /\ \A i \in 1 .. Len(parts) : parts[i] \in Part
  BY <1>1
<1> QED
  BY <1>1, <1>2, <1>3 DEF IsChange

\* LinesOf lists the lines of the parts that are not hidden, in their order.
LEMMA LinesListed ==
  ASSUME NEW parts \in DiffParts, NEW hidden
  PROVE  \E off : Listed(off, parts, hidden)
<1> DEFINE P == Len(parts)
           s(i) == IF parts[i].kind = hidden THEN <<>> ELSE [n \in 1 .. parts[i].lines |-> <<i, n>>]
           len(i) == IF parts[i].kind = hidden THEN 0 ELSE parts[i].lines
           ss == [i \in 1 .. P |-> s(i)]
           S == Seq(Lines)
<1>1. P \in Nat /\ DOMAIN parts = 1 .. P /\ \A i \in 1 .. P : parts[i].lines \in Nat
  BY PartFacts
<1>2. ASSUME NEW i \in 1 .. P PROVE s(i) \in S /\ Len(s(i)) = len(i) /\ len(i) \in Nat
  <2>1. CASE parts[i].kind = hidden
    BY <2>1
  <2>2. CASE parts[i].kind # hidden
    <3> DEFINE m == parts[i].lines
    <3>1. m \in Nat /\ i \in Nat
      BY <1>1
    <3> HIDE DEF m
    <3>2. [n \in 1 .. m |-> <<i, n>>] \in Seq(Lines) /\ Len([n \in 1 .. m |-> <<i, n>>]) = m
      BY <3>1 DEF Lines
    <3> QED
      BY <2>2, <3>1, <3>2 DEF m
  <2> QED
    BY <2>1, <2>2
<1>3. LinesOf(parts, hidden) = FlattenSeq(ss)
  BY <1>1 DEF LinesOf
<1> HIDE DEF s, len
<1>4. ss \in Seq(S) /\ Len(ss) = P /\ \A i \in 1 .. P : ss[i] = s(i)
  BY <1>1, <1>2
<1> HIDE DEF ss
<1>5. PICK off : BeginsAt(off, ss)
  BY <1>4, FlattenPlaces
<1>6. Counts(off, parts, hidden)
  <2>1. \A i \in 1 .. P : off[i] = off[i - 1] + len(i)
    BY <1>2, <1>4, <1>5 DEF BeginsAt
  <2> QED
    BY <1>4, <1>5, <2>1 DEF BeginsAt, Counts, len
<1>7. DOMAIN FlattenSeq(ss) = 1 .. off[P] /\ Len(FlattenSeq(ss)) = off[P]
  <2>1. FlattenSeq(ss) \in Seq(Lines)
    BY <1>4, FlattenType
  <2>2. Len(FlattenSeq(ss)) = off[P]
    BY <1>4, <1>5 DEF BeginsAt
  <2> QED
    BY <2>1, <2>2
<1>8. ASSUME NEW i \in 1 .. P, parts[i].kind # hidden, NEW n \in 1 .. parts[i].lines
      PROVE  FlattenSeq(ss)[off[i - 1] + n] = <<i, n>>
  <2>1. s(i) = [m \in 1 .. parts[i].lines |-> <<i, m>>] /\ len(i) = parts[i].lines
    BY <1>8 DEF s, len
  <2>2. n \in 1 .. Len(ss[i]) /\ ss[i][n] = <<i, n>>
    BY <1>2, <1>4, <2>1
  <2> QED
    BY <1>4, <1>5, <2>2 DEF BeginsAt
<1>9. \A i \in 0 .. P : off[i] <= off[P]
  BY <1>4, <1>5 DEF BeginsAt
<1> QED
  BY <1>3, <1>6, <1>7, <1>8, <1>9 DEF Listed

\* The parts before a part have their lines before its lines.
LEMMA CountsGrow ==
  ASSUME NEW parts \in DiffParts, NEW off, Counts(off, parts, "none"),
         NEW i \in 0 .. Len(parts), NEW j \in 0 .. Len(parts), i <= j
  PROVE  off[i] <= off[j]
<1> DEFINE P == Len(parts)
           S == {k \in 0 .. P : i <= k => off[i] <= off[k]}
<1>1. P \in Nat /\ off \in [0 .. P -> Nat]
      /\ \A k \in 1 .. P : parts[k].lines \in Nat /\ off[k] = off[k - 1] + parts[k].lines
  BY PartFacts DEF Counts
<1> HIDE DEF P
<1>2. i \in 0 .. P /\ j \in 0 .. P
  BY DEF P
<1>3. 0 \in S
  BY <1>1, <1>2
<1>4. ASSUME NEW k \in 0 .. P, k # P, k \in S PROVE k + 1 \in S
  <2>1. k + 1 \in 1 .. P /\ k + 1 \in 0 .. P /\ (k + 1) - 1 = k
    BY <1>1, <1>4
  <2>2. off[k + 1] = off[k] + parts[k + 1].lines /\ off[k] \in Nat /\ parts[k + 1].lines \in Nat
    BY <1>1, <2>1
  <2>3. i <= k => off[i] <= off[k + 1]
    <3>1. i <= k => off[i] <= off[k]
      BY <1>4
    <3>2. off[i] \in Nat
      BY <1>1, <1>2
    <3> QED
      BY <2>2, <3>1, <3>2
  <2>4. k + 1 \in Nat /\ k \in Nat /\ i \in Nat /\ off[k + 1] \in Nat
    BY <1>1, <1>2, <2>1
  <2>6. i <= k + 1 => off[i] <= off[k + 1]
    <3>1. i <= k + 1 => i <= k \/ i = k + 1
      BY <2>4
    <3> QED
      BY <2>3, <2>4, <3>1
  <2> DEFINE m == k + 1
  <2>7. m \in 0 .. P /\ (i <= m => off[i] <= off[m])
    BY <2>1, <2>6
  <2> HIDE DEF m
  <2>8. m \in S
    BY <2>7
  <2> QED
    BY <2>8 DEF m
<1> HIDE DEF S
<1>5. \A k \in 0 .. P : k \in S
  BY <1>1, <1>3, <1>4, BoundedInduction
<1> QED
  BY <1>2, <1>5 DEF S

\* Every line is of some part.
LEMMA PartOfLine ==
  ASSUME NEW parts \in DiffParts, NEW off, Counts(off, parts, "none"),
         NEW k \in 1 .. off[Len(parts)]
  PROVE  \E i \in 1 .. Len(parts) : \E n \in 1 .. parts[i].lines : k = off[i - 1] + n
<1> DEFINE P == Len(parts)
           S == {i \in 0 .. P : k <= off[i]}
<1>1. P \in Nat /\ off \in [0 .. P -> Nat] /\ off[0] = 0
      /\ \A i \in 1 .. P : parts[i].lines \in Nat /\ off[i] = off[i - 1] + parts[i].lines
  BY PartFacts DEF Counts
<1>2. k \in Nat /\ k # 0 /\ P \in S
  BY <1>1
<1> HIDE DEF P
<1>3. PICK i \in S : \A j \in S : i <= j
  <2>1. S \in SUBSET Nat
    OBVIOUS
  <2> QED
    BY <1>2, <2>1, LeastNatural
<1>4. i \in 0 .. P /\ k <= off[i]
  OBVIOUS
<1>5. i # 0
  BY <1>1, <1>2, <1>4
<1>6. i \in 1 .. P /\ i - 1 \in 0 .. P /\ i - 1 < i
  BY <1>1, <1>4, <1>5
<1>7. ~(k <= off[i - 1])
  BY <1>3, <1>6
<1>8. off[i] = off[i - 1] + parts[i].lines /\ off[i - 1] \in Nat /\ parts[i].lines \in Nat
  BY <1>1, <1>6
<1>9. k - off[i - 1] \in 1 .. parts[i].lines /\ k = off[i - 1] + (k - off[i - 1])
  BY <1>2, <1>4, <1>7, <1>8
<1> QED
  BY <1>6, <1>9 DEF P

\* The types of what is listed, and the line at a place.
LEMMA ListedFacts ==
  ASSUME NEW parts \in DiffParts, NEW off, Listed(off, parts, "none")
  PROVE  /\ off \in [0 .. Len(parts) -> Nat] /\ off[0] = 0
         /\ DOMAIN LinesOf(parts, "none") = 1 .. off[Len(parts)]
         /\ \A i \in 1 .. Len(parts) :
              /\ i - 1 \in 0 .. Len(parts) /\ off[i - 1] \in Nat /\ off[i] \in Nat
              /\ off[i] = off[i - 1] + parts[i].lines /\ off[i] <= off[Len(parts)]
              /\ \A n \in 1 .. parts[i].lines :
                   /\ off[i - 1] + n \in DOMAIN LinesOf(parts, "none")
                   /\ LinesOf(parts, "none")[off[i - 1] + n] = <<i, n>>
<1> DEFINE P == Len(parts)
           all == LinesOf(parts, "none")
<1>1. P \in Nat /\ \A i \in 1 .. P : parts[i].kind # "none" /\ parts[i].lines \in Nat
  BY PartFacts
<1>2. Counts(off, parts, "none") /\ DOMAIN all = 1 .. off[P] /\ (\A i \in 0 .. P : off[i] <= off[P])
      /\ \A i \in 1 .. P : \A n \in 1 .. parts[i].lines : all[off[i - 1] + n] = <<i, n>>
  BY <1>1 DEF Listed
<1>3. /\ off \in [0 .. P -> Nat] /\ off[0] = 0
      /\ \A i \in 1 .. P : off[i] = off[i - 1] + parts[i].lines
  BY <1>1, <1>2 DEF Counts
<1> HIDE DEF P, all
<1>4. ASSUME NEW i \in 1 .. P
      PROVE  /\ i - 1 \in 0 .. P /\ off[i - 1] \in Nat /\ off[i] \in Nat /\ off[P] \in Nat
             /\ off[i] = off[i - 1] + parts[i].lines /\ off[i] <= off[P]
  BY <1>1, <1>2, <1>3
<1>5. ASSUME NEW i \in 1 .. P, NEW n \in 1 .. parts[i].lines PROVE off[i - 1] + n \in DOMAIN all
  <2>1. /\ off[i - 1] \in Nat /\ off[P] \in Nat /\ off[i - 1] + parts[i].lines <= off[P]
        /\ parts[i].lines \in Nat
    BY <1>1, <1>4
  <2>2. off[i - 1] + n \in 1 .. off[P]
    BY <2>1
  <2> QED
    BY <1>2, <2>2
<1> QED
  BY <1>2, <1>3, <1>4, <1>5 DEF P, all

\* A line is near a change if it is one, or near the end of its part.
LEMMA NearCases ==
  ASSUME NEW parts \in DiffParts, NEW off, Listed(off, parts, "none"),
         NEW i \in 1 .. Len(parts), NEW n \in 1 .. parts[i].lines
  PROVE  Near(parts, off[i - 1] + n)
           <=> \/ parts[i].kind # "same"
               \/ i > 1 /\ n <= ContextLines
               \/ i < Len(parts) /\ parts[i].lines - n < ContextLines
<1> DEFINE P == Len(parts)
           all == LinesOf(parts, "none")
           k == off[i - 1] + n
           len == parts[i].lines
           C == ContextLines
<1>1. P \in Nat /\ C \in Nat /\ off \in [0 .. P -> Nat] /\ len \in Nat
  BY PartFacts, ListedFacts, DiffsAssumption
<1>2. \A j \in 1 .. P : parts[j].lines \in Nat /\ parts[j].lines # 0
  BY PartFacts
<1>3. /\ DOMAIN all = 1 .. off[P]
      /\ \A j \in 1 .. P :
              /\ j - 1 \in 0 .. P /\ off[j - 1] \in Nat /\ off[j] \in Nat
              /\ off[j] = off[j - 1] + parts[j].lines /\ off[j] <= off[P]
              /\ \A t \in 1 .. parts[j].lines : off[j - 1] + t \in DOMAIN all /\ all[off[j - 1] + t] = <<j, t>>
  BY ListedFacts
<1>4. Near(parts, k) <=> \E m \in DOMAIN all : parts[all[m][1]].kind # "same" /\ m - k \in -C .. C
  BY DEF Near, IsChange
<1>5. k \in DOMAIN all /\ all[k] = <<i, n>> /\ off[i - 1] \in Nat /\ k \in Nat /\ n \in Nat /\ i \in Nat
  <2>1. i \in Nat /\ n \in Nat
    BY <1>1
  <2>2. k \in DOMAIN all /\ all[k] = <<i, n>> /\ off[i - 1] \in Nat
    BY <1>3
  <2> QED
    BY <2>1, <2>2
<1>6. i \in 1 .. P /\ k = off[i - 1] + n /\ len = parts[i].lines /\ n <= len
  BY <1>1
<1> HIDE DEF all, P, C, k, len
<1>7. parts[i].kind # "same" => Near(parts, k)
  <2>1. k - k \in -C .. C
    BY <1>1, <1>5
  <2> QED
    BY <1>4, <1>5, <2>1
<1>8. parts[i].kind = "same" /\ i > 1 /\ n <= C => Near(parts, k)
  <2> SUFFICES ASSUME parts[i].kind = "same", i > 1, n <= C PROVE Near(parts, k)
    OBVIOUS
  <2> DEFINE j == i - 1
             t == parts[j].lines
             m == off[j - 1] + t
  <2>1. j \in 1 .. P /\ i \in 2 .. P
    BY <1>1, <1>6
  <2>2. parts[j].kind # "same"
    BY <2>1, PartFacts DEF P
  <2>3. t \in 1 .. parts[j].lines
    BY <1>2, <2>1
  <2>4. m \in DOMAIN all /\ all[m] = <<j, t>> /\ m = off[i - 1]
    BY <1>3, <2>1, <2>3
  <2> HIDE DEF m
  <2>5. m - k \in -C .. C
    <3>1. \A a, x, c \in Nat : x <= c => a - (a + x) \in -c .. c
      OBVIOUS
    <3> QED
      BY <1>1, <1>5, <1>6, <2>4, <3>1
  <2>6. all[m][1] = j
    BY <2>4
  <2> QED
    BY <1>4, <2>2, <2>4, <2>5, <2>6
<1>9. parts[i].kind = "same" /\ i < P /\ len - n < C => Near(parts, k)
  <2> SUFFICES ASSUME parts[i].kind = "same", i < P, len - n < C PROVE Near(parts, k)
    OBVIOUS
  <2> DEFINE j == i + 1
             m == off[j - 1] + 1
  <2>0. i < P
    OBVIOUS
  <2>1. j \in 1 .. P /\ j \in 2 .. P /\ j - 1 = i
    BY <1>1, <1>5, <1>6, <2>0
  <2>2. parts[j].kind # "same"
    BY <2>1, PartFacts DEF P
  <2>3. 1 \in 1 .. parts[j].lines
    BY <1>2, <2>1
  <2>4. m \in DOMAIN all /\ all[m] = <<j, 1>> /\ m = off[i] + 1
    BY <1>3, <2>1, <2>3
  <2>5. off[i] = off[i - 1] + len
    BY <1>3, <1>6
  <2>8. m = (off[i - 1] + len) + 1
    BY <2>4, <2>5
  <2>9. len - n < C
    OBVIOUS
  <2> HIDE DEF m
  <2>6. m - k \in -C .. C
    <3>1. \A a, l, x, c \in Nat : x <= l /\ l - x < c => ((a + l) + 1) - (a + x) \in -c .. c
      OBVIOUS
    <3> QED
      BY <1>1, <1>5, <1>6, <2>8, <2>9, <3>1
  <2>7. all[m][1] = j
    BY <2>4
  <2> QED
    BY <1>4, <2>2, <2>4, <2>6, <2>7
<1>10. ASSUME parts[i].kind = "same", Near(parts, k)
       PROVE  \/ i > 1 /\ n <= C
              \/ i < P /\ len - n < C
  <2>1. PICK m \in DOMAIN all : parts[all[m][1]].kind # "same" /\ m - k \in -C .. C
    BY <1>4, <1>10
  <2>2. PICK q \in 1 .. P : \E t \in 1 .. parts[q].lines : m = off[q - 1] + t
    <3>1. Counts(off, parts, "none") /\ m \in 1 .. off[P]
      BY <1>3 DEF Listed
    <3> QED
      BY <3>1, PartOfLine DEF P
  <2>3. PICK t \in 1 .. parts[q].lines : m = off[q - 1] + t
    BY <2>2
  <2>4. all[m] = <<q, t>>
    BY <1>3, <2>3
  <2>5. q # i
    BY <1>10, <2>1, <2>4
  <2>6. /\ off[q - 1] \in Nat /\ off[q] \in Nat /\ off[q] = off[q - 1] + parts[q].lines
        /\ parts[q].lines \in Nat /\ t \in Nat /\ t # 0 /\ t <= parts[q].lines /\ m \in Nat /\ q \in Nat
    <3>1. q \in Nat /\ parts[q].lines \in Nat
      BY <1>1, <1>2
    <3>2. off[q - 1] \in Nat /\ off[q] \in Nat /\ off[q] = off[q - 1] + parts[q].lines
      BY <1>3
    <3>3. t \in Nat /\ t # 0 /\ t <= parts[q].lines
      BY <3>1
    <3> QED
      BY <2>3, <3>1, <3>2, <3>3
  <2>7. off[i] = off[i - 1] + len /\ off[i] \in Nat
    BY <1>3, <1>6
  <2>8. Counts(off, parts, "none")
    BY DEF Listed
  <2>9. CASE q < i
    <3>1. q \in 0 .. P /\ i - 1 \in 0 .. P /\ q <= i - 1 /\ i > 1
      BY <1>1, <1>5, <1>6, <2>6, <2>9
    <3>2. off[q] <= off[i - 1]
      BY <2>8, <3>1, CountsGrow DEF P
    <3>3. m <= off[i - 1]
      <4>1. off[q - 1] + t <= off[q]
        BY <2>6
      <4> QED
        BY <1>5, <2>3, <2>6, <3>2, <4>1
    <3>4. n <= C
      <4>1. m - k >= -C
        BY <1>1, <1>5, <2>1, <2>6
      <4> QED
        <5>1. \A a, x, y, c \in Nat : y <= a /\ y - (a + x) >= -c => x <= c
          OBVIOUS
        <5>2. m <= off[i - 1] /\ m - (off[i - 1] + n) >= -C
          BY <1>6, <3>3, <4>1
        <5> QED
          BY <1>1, <1>5, <2>6, <5>1, <5>2
    <3> QED
      BY <3>1, <3>4
  <2>10. CASE i < q
    <3>1. q - 1 \in 0 .. P /\ i \in 0 .. P /\ i <= q - 1 /\ i < P
      BY <1>1, <1>5, <1>6, <2>6, <2>10
    <3>2. off[i] <= off[q - 1]
      BY <2>8, <3>1, CountsGrow DEF P
    <3>3. m > off[i]
      BY <2>3, <2>6, <2>7, <3>2
    <3>4. len - n < C
      <4>1. m - k <= C
        BY <1>1, <1>5, <2>1, <2>6
      <4> QED
        <5>1. \A a, l, x, y, c \in Nat : y > a + l /\ y - (a + x) <= c => l - x < c
          OBVIOUS
        <5>2. m > off[i - 1] + len /\ m - (off[i - 1] + n) <= C
          BY <1>6, <2>7, <3>3, <4>1
        <5> QED
          BY <1>1, <1>5, <2>6, <5>1, <5>2
    <3> QED
      BY <3>1, <3>4
  <2> QED
    BY <1>5, <2>5, <2>6, <2>9, <2>10
<1> QED
  BY <1>7, <1>8, <1>9, <1>10 DEF P, C, k, len

\* The marks of lines.
Marks == {"+", "-", " "}

Row == [mark : Marks \cup {"..."}, number : Int, line : Lines]

\* The row of a line of a part, of which the first has the number.
LineRow(mark, i, t, number) == [mark |-> mark, number |-> (number + t) - 1, line |-> <<i, t>>]

\* Rows of n lines after the first `skipped' ones.
LineRows(rs, mark, i, skipped, n, number) ==
  rs \in Seq(Row) /\ Len(rs) = n /\ \A j \in 1 .. n : rs[j] = LineRow(mark, i, skipped + j, number)

LEMMA RowsFacts ==
  ASSUME NEW mark \in Marks, NEW i \in Nat, NEW skipped \in Nat, NEW n \in Nat, NEW number \in Nat
  PROVE  LineRows(Rows(mark, i, skipped + 1, skipped + n, number), mark, i, skipped, n, number)
<1> DEFINE from == skipped + 1
           rs == Rows(mark, i, from, skipped + n, number)
<1>1. ((skipped + n) - from) + 1 = n
  OBVIOUS
<1>2. ASSUME NEW j \in 1 .. n
      PROVE  /\ skipped + j \in Nat /\ (number + (skipped + j)) - 1 \in Int
             /\ number + from + j - 2 = (number + (skipped + j)) - 1 /\ from + j - 1 = skipped + j
  OBVIOUS
<1>3. rs = [j \in 1 .. n |-> LineRow(mark, i, skipped + j, number)]
  <2>1. rs = [j \in 1 .. n |-> [mark |-> mark, number |-> number + from + j - 2, line |-> <<i, from + j - 1>>]]
    BY <1>1 DEF Rows
  <2> QED
    BY <1>2, <2>1 DEF LineRow
<1>4. ASSUME NEW j \in 1 .. n PROVE LineRow(mark, i, skipped + j, number) \in Row
  <2> DEFINE t == skipped + j
  <2>1. t \in Nat /\ (number + t) - 1 \in Int
    BY <1>2
  <2> HIDE DEF t
  <2> QED
    BY <2>1 DEF LineRow, Row, Lines
<1> HIDE DEF rs
<1>5. rs \in Seq(Row) /\ Len(rs) = n /\ \A j \in 1 .. n : rs[j] = LineRow(mark, i, skipped + j, number)
  BY <1>3, <1>4
<1> QED
  BY <1>5 DEF LineRows, rs

\* The first a lines of a part, the last b, and a gap if those are not all.
PartRows(mark, i, n, a, b, number) ==
  Rows(mark, i, 1, a, number) \o Gap((n - a) - b) \o Rows(mark, i, (n - b) + 1, n, number)

\* h has the last line of the part that is shown, or left out, up to a row.
Shows(rs, h, mark, i, n, a, b, number) ==
  /\ rs \in Seq(Row) /\ h \in [0 .. Len(rs) -> 0 .. n] /\ h[0] = 0 /\ h[Len(rs)] = n
  /\ \A j \in 1 .. Len(rs) :
       \/ /\ rs[j] = LineRow(mark, i, h[j], number) /\ h[j] = h[j - 1] + 1
          /\ h[j] <= a \/ h[j] > n - b
       \/ rs[j].mark = "..." /\ h[j - 1] = a /\ h[j] = n - b /\ a < n - b

LEMMA PartRowsPlaces ==
  ASSUME NEW mark \in Marks, NEW i \in Nat, NEW n \in Nat, NEW a \in Nat, NEW b \in Nat,
         a + b <= n, NEW number \in Nat
  PROVE  \E h : Shows(PartRows(mark, i, n, a, b, number), h, mark, i, n, a, b, number)
<1> DEFINE p == Rows(mark, i, 1, a, number)
           q == Gap((n - a) - b)
           r == Rows(mark, i, (n - b) + 1, n, number)
           rs == p \o q \o r
           e == IF a + b < n THEN 1 ELSE 0
           L == a + e + b
           h == [j \in 0 .. L |-> IF j <= a THEN j ELSE ((n - b) + j) - (a + e)]
<1>1. p \in Seq(Row) /\ Len(p) = a /\ \A j \in 1 .. a : p[j] = LineRow(mark, i, j, number)
  <2>1. 0 \in Nat /\ 0 + 1 = 1 /\ 0 + a = a /\ \A j \in 1 .. a : 0 + j = j
    OBVIOUS
  <2>2. LineRows(Rows(mark, i, 0 + 1, 0 + a, number), mark, i, 0, a, number)
    BY <2>1, RowsFacts
  <2>3. LineRows(p, mark, i, 0, a, number)
    BY <2>1, <2>2
  <2> HIDE DEF p
  <2> QED
    BY <2>1, <2>3 DEF LineRows
<1>2. r \in Seq(Row) /\ Len(r) = b /\ \A j \in 1 .. b : r[j] = LineRow(mark, i, (n - b) + j, number)
  <2>1. n - b \in Nat /\ (n - b) + b = n
    OBVIOUS
  <2>2. LineRows(Rows(mark, i, (n - b) + 1, (n - b) + b, number), mark, i, n - b, b, number)
    BY <2>1, RowsFacts
  <2>3. LineRows(r, mark, i, n - b, b, number)
    BY <2>1, <2>2
  <2> HIDE DEF r
  <2> QED
    BY <2>3 DEF LineRows
<1>3. e \in {0, 1} /\ q \in Seq(Row) /\ Len(q) = e /\ (e = 1 <=> a + b < n) /\ \A j \in 1 .. e : q[j].mark = "..."
  <2> DEFINE g == [mark |-> "...", number |-> 0, line |-> <<0, 0>>]
  <2>1. g \in Row /\ g.mark = "..."
    BY DEF Row, Lines
  <2>2. (n - a) - b > 0 <=> a + b < n
    OBVIOUS
  <2>3. q = IF a + b < n THEN <<g>> ELSE <<>>
    BY <2>2 DEF Gap
  <2> HIDE DEF g, q
  <2>4. CASE a + b < n
    BY <2>1, <2>3, <2>4
  <2>5. CASE ~(a + b < n)
    BY <2>3, <2>5
  <2> QED
    BY <2>4, <2>5
<1> HIDE DEF p, q, r, e
<1>4. rs \in Seq(Row) /\ Len(rs) = L /\ L \in Nat
      /\ (\A j \in 1 .. a : rs[j] = p[j]) /\ (\A j \in 1 .. e : rs[a + j] = q[j])
      /\ \A j \in 1 .. b : rs[a + e + j] = r[j]
  <2> DEFINE s == p \o q
  <2>1. s \in Seq(Row) /\ Len(s) = a + e /\ (\A j \in 1 .. a : s[j] = p[j]) /\ \A j \in 1 .. e : s[a + j] = q[j]
    BY <1>1, <1>3
  <2> HIDE DEF s
  <2>3. rs = s \o r
    BY DEF s
  <2> HIDE DEF rs
  <2>2. /\ rs \in Seq(Row) /\ Len(rs) = a + e + b /\ (\A j \in 1 .. a + e : rs[j] = s[j])
        /\ \A j \in 1 .. b : rs[a + e + j] = r[j]
    <3>1. Len(s) = a + e /\ Len(r) = b /\ s \in Seq(Row) /\ r \in Seq(Row) /\ a + e \in Nat
      BY <1>2, <1>3, <2>1
    <3>2. \A j \in 1 .. b : (s \o r)[Len(s) + j] = r[j]
      BY <3>1
    <3>3. s \o r \in Seq(Row) /\ Len(s \o r) = Len(s) + Len(r) /\ \A j \in 1 .. a + e : (s \o r)[j] = s[j]
      BY <3>1
    <3>4. \A j \in 1 .. b : rs[a + e + j] = r[j]
      BY <2>3, <3>1, <3>2
    <3> QED
      BY <2>3, <3>1, <3>3, <3>4
  <2>4. (\A j \in 1 .. a : j \in 1 .. a + e) /\ (\A j \in 1 .. e : a + j \in 1 .. a + e) /\ a + e + b \in Nat
    BY <1>3
  <2> QED
    BY <2>1, <2>2, <2>4
<1> HIDE DEF rs
<1>5. /\ h \in [0 .. L -> 0 .. n] /\ h[0] = 0 /\ h[L] = n
  <2>1. ASSUME NEW j \in 0 .. L PROVE (IF j <= a THEN j ELSE ((n - b) + j) - (a + e)) \in 0 .. n
    BY <1>3
  <2>2. 0 \in 0 .. L /\ L \in 0 .. L
    BY <1>3
  <2>3. (IF L <= a THEN L ELSE ((n - b) + L) - (a + e)) = n
    BY <1>3
  <2> HIDE DEF L
  <2> QED
    BY <2>1, <2>2, <2>3
<1>6. \A j \in 0 .. L : h[j] = IF j <= a THEN j ELSE ((n - b) + j) - (a + e)
  OBVIOUS
<1> HIDE DEF h
<1>7. ASSUME NEW j \in 1 .. L
      PROVE  \/ /\ rs[j] = LineRow(mark, i, h[j], number) /\ h[j] = h[j - 1] + 1
                /\ h[j] <= a \/ h[j] > n - b
             \/ rs[j].mark = "..." /\ h[j - 1] = a /\ h[j] = n - b /\ a < n - b
  <2>1. j \in 0 .. L /\ j - 1 \in 0 .. L /\ j \in Nat /\ j # 0 /\ j <= a + e + b
    BY <1>3
  <2>2. CASE j <= a
    <3>1. j \in 1 .. a /\ j - 1 <= a
      BY <2>1, <2>2
    <3>2. h[j] = j /\ h[j - 1] = j - 1
      BY <1>6, <2>1, <2>2, <3>1
    <3> QED
      BY <1>1, <1>4, <2>1, <2>2, <3>1, <3>2
  <2>3. CASE j = a + 1 /\ e = 1
    <3>1. 1 \in 1 .. e /\ ~(j <= a) /\ j - 1 = a /\ a <= a /\ ((n - b) + j) - (a + e) = n - b /\ a < n - b
      BY <1>3, <2>1, <2>3
    <3>2. h[j] = n - b /\ h[j - 1] = a
      BY <1>6, <2>1, <3>1
    <3>3. rs[j] = q[1]
      BY <1>4, <2>3, <3>1
    <3> QED
      BY <1>3, <3>1, <3>2, <3>3
  <2>4. CASE j > a + e
    <3> DEFINE k == j - (a + e)
    <3>1. k \in 1 .. b /\ j = a + e + k /\ ~(j <= a)
      BY <1>3, <2>1, <2>4
    <3>2. h[j] = (n - b) + k /\ (n - b) + k > n - b
      <4>1. ((n - b) + j) - (a + e) = (n - b) + k
        BY <1>3, <2>1
      <4> QED
        BY <1>6, <2>1, <3>1, <4>1
    <3>3. rs[j] = LineRow(mark, i, (n - b) + k, number)
      BY <1>2, <1>4, <3>1
    <3>4. h[j] = h[j - 1] + 1
      <4>1. CASE j - 1 <= a
        <5>1. e = 0 /\ j - 1 = a /\ ~(a + b < n)
          BY <1>3, <2>1, <2>4, <4>1
        <5>2. h[j - 1] = a /\ n - b = a /\ k = 1
          BY <1>6, <2>1, <4>1, <5>1
        <5> QED
          BY <3>2, <5>2
      <4>2. CASE ~(j - 1 <= a)
        <5>1. h[j - 1] = ((n - b) + (j - 1)) - (a + e)
          BY <1>6, <2>1, <4>2
        <5> QED
          BY <1>3, <2>1, <3>2, <5>1
      <4> QED
        BY <4>1, <4>2
    <3> QED
      BY <3>2, <3>3, <3>4
  <2> QED
    BY <1>3, <2>1, <2>2, <2>3, <2>4
<1> HIDE DEF L
<1>8. rs = PartRows(mark, i, n, a, b, number)
  BY DEF PartRows, rs, p, q, r
<1>9. Shows(rs, h, mark, i, n, a, b, number)
  BY <1>4, <1>5, <1>7 DEF Shows
<1> QED
  BY <1>8, <1>9

\* A row shows its line under the number the line has in its file.
Numbered(parts, r) == \/ r.mark = "+" /\ LinesOf(parts, "removed")[r.number] = r.line
                      \/ r.mark \in {"-", " "} /\ LinesOf(parts, "added")[r.number] = r.line

\* A row goes on from line lo to line hi: it shows that line, near a change and under its number, or
\* is a gap for lines that are not near one, up to one that is.
Cover(parts, r, lo, hi) ==
  LET all == LinesOf(parts, "none")
  IN  \/ /\ r.mark # "..." /\ hi = lo + 1
         /\ hi \in DOMAIN all /\ r.line = all[hi] /\ Near(parts, hi) /\ Numbered(parts, r)
      \/ /\ r.mark = "..." /\ lo < hi /\ \A k \in lo + 1 .. hi : ~Near(parts, k)
         /\ hi \in DOMAIN all /\ (hi + 1 \in DOMAIN all => Near(parts, hi + 1))

\* Rows that go on from line lo to line hi, each from where the one before it ended.
Tiled(parts, rs, g, lo, hi) ==
  /\ rs \in Seq(Row) /\ g \in [0 .. Len(rs) -> Nat] /\ g[0] = lo /\ g[Len(rs)] = hi
  /\ \A j \in 1 .. Len(rs) : Cover(parts, rs[j], g[j - 1], g[j])

LEMMA TiledConcat ==
  ASSUME NEW parts, NEW rs, NEW ss, NEW g, NEW h, NEW lo, NEW mid, NEW hi,
         Tiled(parts, rs, g, lo, mid), Tiled(parts, ss, h, mid, hi)
  PROVE  \E f : Tiled(parts, rs \o ss, f, lo, hi)
<1> DEFINE n == Len(rs)
           m == Len(ss)
           us == rs \o ss
           f == [j \in 0 .. n + m |-> IF j <= n THEN g[j] ELSE h[j - n]]
<1>1. /\ rs \in Seq(Row) /\ ss \in Seq(Row) /\ n \in Nat /\ m \in Nat
      /\ g \in [0 .. n -> Nat] /\ h \in [0 .. m -> Nat] /\ g[0] = lo /\ g[n] = mid /\ h[0] = mid /\ h[m] = hi
      /\ (\A j \in 1 .. n : Cover(parts, rs[j], g[j - 1], g[j]))
      /\ \A j \in 1 .. m : Cover(parts, ss[j], h[j - 1], h[j])
  BY DEF Tiled
<1>2. us \in Seq(Row) /\ Len(us) = n + m /\ \A j \in 1 .. n + m : us[j] = IF j <= n THEN rs[j] ELSE ss[j - n]
  BY <1>1
<1> HIDE DEF n, m, us
<1>3. \A j \in 0 .. n + m : IF j <= n THEN j \in 0 .. n ELSE j - n \in 0 .. m
  BY <1>1
<1>4. f \in [0 .. n + m -> Nat]
  BY <1>1, <1>3
<1>5. \A j \in 0 .. n + m : f[j] = IF j <= n THEN g[j] ELSE h[j - n]
  OBVIOUS
<1> HIDE DEF f
<1>6. \A j \in n .. n + m : f[j] = h[j - n]
  <2> SUFFICES ASSUME NEW j \in n .. n + m PROVE f[j] = h[j - n]
    OBVIOUS
  <2>1. j \in 0 .. n + m /\ (j <= n => j = n /\ j - n = 0)
    BY <1>1
  <2> QED
    BY <1>1, <1>5, <2>1
<1>7. f[0] = lo /\ f[n + m] = hi
  <2>1. 0 \in 0 .. n + m /\ 0 <= n /\ n + m \in n .. n + m /\ (n + m) - n = m
    BY <1>1
  <2> QED
    BY <1>1, <1>5, <1>6, <2>1
<1>8. ASSUME NEW j \in 1 .. n + m PROVE Cover(parts, us[j], f[j - 1], f[j])
  <2>1. CASE j <= n
    <3>1. j \in 1 .. n /\ j \in 0 .. n + m /\ j - 1 \in 0 .. n + m /\ j - 1 <= n
      BY <1>1, <2>1
    <3> QED
      BY <1>1, <1>2, <1>5, <2>1, <3>1
  <2>2. CASE ~(j <= n)
    <3>1. j - n \in 1 .. m /\ j \in n .. n + m /\ j - 1 \in n .. n + m /\ (j - 1) - n = (j - n) - 1
      BY <1>1, <2>2
    <3> QED
      BY <1>1, <1>2, <1>6, <2>2, <3>1
  <2> QED
    BY <2>1, <2>2
<1> QED
  BY <1>2, <1>4, <1>7, <1>8 DEF Tiled, us

LEMMA LineRowFields ==
  ASSUME NEW mark, NEW i, NEW t, NEW number
  PROVE  LET r == LineRow(mark, i, t, number)
         IN  r.mark = mark /\ r.line = <<i, t>> /\ r.number = (number + t) - 1
  BY DEF LineRow

LEMMA MarkFacts == \A mark \in Marks : mark # "..."
  BY Zenon DEF Marks

\* Which rows of a part are shown is as it should be.
ShowsNear(parts, start, n, a, b) ==
  /\ \A t \in 1 .. n : Near(parts, start + t) <=> (t <= a \/ t > n - b)
  /\ a < n - b /\ b = 0 /\ start + n + 1 \in DOMAIN LinesOf(parts, "none") => Near(parts, start + n + 1)

LEMMA ShowsTiled ==
  ASSUME NEW parts \in DiffParts, NEW off, Listed(off, parts, "none"), NEW i \in 1 .. Len(parts),
         NEW mark \in Marks, NEW number \in Nat, NEW a \in Nat, NEW b \in Nat, a + b <= parts[i].lines,
         NEW rs, NEW h, Shows(rs, h, mark, i, parts[i].lines, a, b, number),
         ShowsNear(parts, off[i - 1], parts[i].lines, a, b),
         \A t \in 1 .. parts[i].lines : Numbered(parts, LineRow(mark, i, t, number))
  PROVE  \E g : Tiled(parts, rs, g, off[i - 1], off[i])
<1> DEFINE n == parts[i].lines
           s == off[i - 1]
           L == Len(rs)
           all == LinesOf(parts, "none")
           g == [j \in 0 .. L |-> s + h[j]]
<1>1. n \in Nat /\ n # 0 /\ s \in Nat /\ off[i] = s + n
      /\ \A t \in 1 .. n : s + t \in DOMAIN all /\ all[s + t] = <<i, t>>
  <2>1. n \in Nat /\ n # 0
    BY PartFacts
  <2> QED
    BY <2>1, ListedFacts
<1>2. /\ rs \in Seq(Row) /\ h \in [0 .. L -> 0 .. n] /\ h[0] = 0 /\ h[L] = n
      /\ \A j \in 1 .. L :
           \/ /\ rs[j] = LineRow(mark, i, h[j], number) /\ h[j] = h[j - 1] + 1
              /\ h[j] <= a \/ h[j] > n - b
           \/ rs[j].mark = "..." /\ h[j - 1] = a /\ h[j] = n - b /\ a < n - b
  BY DEF Shows
<1>3. /\ \A t \in 1 .. n : Near(parts, s + t) <=> (t <= a \/ t > n - b)
      /\ a < n - b /\ b = 0 /\ s + n + 1 \in DOMAIN all => Near(parts, s + n + 1)
  BY DEF ShowsNear
<1>4. L \in Nat /\ \A t \in 1 .. n : Numbered(parts, LineRow(mark, i, t, number))
  BY <1>2
<1>5. a + b <= n
  OBVIOUS
<1>6. DOMAIN all = 1 .. off[Len(parts)] /\ off[Len(parts)] \in Nat
  <2>1. Len(parts) \in Nat
    BY PartFacts
  <2> QED
    BY <2>1, ListedFacts
<1>11. Len(rs) = L
  OBVIOUS
<1> HIDE DEF n, s, L, all
<1>7. g \in [0 .. L -> Nat] /\ g[0] = s /\ g[L] = off[i]
  <2>1. \A j \in 0 .. L : s + h[j] \in Nat
    <3>1. \A j \in 0 .. L : h[j] \in 0 .. n
      BY <1>2
    <3>2. \A y \in 0 .. n : s + y \in Nat
      BY <1>1
    <3> QED
      BY <3>1, <3>2
  <2>2. s + 0 = s /\ 0 \in 0 .. L /\ L \in 0 .. L
    BY <1>1, <1>4
  <2> QED
    BY <1>1, <1>2, <2>1, <2>2
<1>8. \A j \in 0 .. L : g[j] = s + h[j]
  OBVIOUS
<1> HIDE DEF g
<1>9. ASSUME NEW j \in 1 .. L PROVE Cover(parts, rs[j], g[j - 1], g[j])
  <2> DEFINE x == h[j - 1]
             y == h[j]
             lo == g[j - 1]
             hi == g[j]
             r == rs[j]
  <2>1. x \in 0 .. n /\ y \in 0 .. n /\ lo = s + x /\ hi = s + y
    <3>1. j \in 0 .. L /\ j - 1 \in 0 .. L
      BY <1>4
    <3> QED
      BY <1>2, <1>8, <3>1
  <2>2. \/ /\ r = LineRow(mark, i, y, number) /\ y = x + 1
           /\ y <= a \/ y > n - b
        \/ r.mark = "..." /\ x = a /\ y = n - b /\ a < n - b
    BY <1>2
  <2> HIDE DEF x, y, lo, hi, r
  <2>3. CASE r = LineRow(mark, i, y, number) /\ y = x + 1 /\ (y <= a \/ y > n - b)
    <3>1. y \in 1 .. n /\ hi = lo + 1
      BY <1>1, <2>1, <2>3
    <3>2. r.mark = mark /\ r.line = <<i, y>>
      BY <2>3, LineRowFields
    <3>3. mark # "..."
      BY MarkFacts
    <3>4. hi \in DOMAIN all /\ r.line = all[hi] /\ Near(parts, hi) /\ Numbered(parts, r)
      BY <1>1, <1>3, <1>4, <2>1, <2>3, <3>1, <3>2
    <3>5. Cover(parts, r, lo, hi)
      BY <3>1, <3>2, <3>3, <3>4 DEF Cover, all
    <3> QED
      BY <3>5 DEF r, lo, hi
  <2>4. CASE r.mark = "..." /\ x = a /\ y = n - b /\ a < n - b
    <3>1. lo < hi /\ y \in 1 .. n
      BY <1>1, <2>1, <2>4
    <3>2. hi \in DOMAIN all
      BY <1>1, <2>1, <3>1
    <3>3. \A k \in lo + 1 .. hi : ~Near(parts, k)
      <4> SUFFICES ASSUME NEW k \in lo + 1 .. hi PROVE ~Near(parts, k)
        OBVIOUS
      <4> DEFINE t == k - s
      <4>1. t \in 1 .. n /\ k = s + t /\ ~(t <= a) /\ ~(t > n - b)
        BY <1>1, <2>1, <2>4
      <4> HIDE DEF t
      <4> QED
        BY <1>3, <4>1
    <3>4. hi + 1 \in DOMAIN all => Near(parts, hi + 1)
      <4>1. CASE b = 0
        <5>1. hi + 1 = s + n + 1
          BY <1>1, <2>1, <2>4, <4>1
        <5> QED
          BY <1>3, <2>4, <4>1, <5>1
      <4>2. CASE b # 0
        <5>1. y + 1 \in 1 .. n /\ y + 1 > n - b /\ hi + 1 = s + (y + 1)
          BY <1>1, <1>5, <2>1, <2>4, <4>2
        <5> QED
          BY <1>3, <5>1
      <4> QED
        BY <4>1, <4>2
    <3>5. Cover(parts, r, lo, hi)
      BY <2>4, <3>1, <3>2, <3>3, <3>4 DEF Cover, all
    <3> QED
      BY <3>5 DEF r, lo, hi
  <2> QED
    BY <2>2, <2>3, <2>4
<1>10. Tiled(parts, rs, g, s, off[i])
  BY <1>2, <1>7, <1>9, <1>11 DEF Tiled
<1> QED
  BY <1>10 DEF s

\* What DiffRows makes of one more part.
AddPart(parts, d, i) ==
  LET n == parts[i].lines
      kind == parts[i].kind
      leading == i > 1 /\ IsChange(parts[i - 1])
      trailing == i < Len(parts) /\ IsChange(parts[i + 1])
  IN  [rows |-> d.rows \o CASE kind = "added" -> Rows("+", i, 1, n, d.new)
                            [] kind = "removed" -> Rows("-", i, 1, n, d.old)
                            [] OTHER -> SameRows(i, n, d.old, leading, trailing),
       old |-> d.old + IF kind = "added" THEN 0 ELSE n,
       new |-> d.new + IF kind = "removed" THEN 0 ELSE n,
       first |-> IF d.first = 0 /\ IsChange(parts[i]) THEN d.new ELSE d.first]

\* Before the first part.
NoRows == [rows |-> <<>>, old |-> 1, new |-> 1, first |-> 0]

\* The parts are taken one by one.
LEMMA DiffRun ==
  ASSUME NEW parts \in DiffParts
  PROVE  \E g : /\ g[0] = NoRows
                /\ \A i \in 1 .. Len(parts) : g[i] = AddPart(parts, g[i - 1], i)
                /\ DiffRows(parts) = [rows |-> g[Len(parts)].rows, first |-> g[Len(parts)].first]
<1> DEFINE n == Len(parts)
           ids == [j \in DOMAIN parts |-> j]
           Step(v, i) == AddPart(parts, v, ids[i])
           Fold(f, k) == [s \in SUBSET (1 .. k) |-> IF s = {} THEN NoRows ELSE Step(f[s \ {Max(s)}], Max(s))]
           S == {k \in 0 .. n : \E f : f = Fold(f, k)}
           iter == CHOOSE f : f = Fold(f, n)
<1>1. n \in Nat /\ DOMAIN parts = 1 .. n /\ DOMAIN ids = 1 .. n
  BY PartFacts
<1>2. DiffRows(parts) = [rows |-> iter[1 .. n].rows, first |-> iter[1 .. n].first]
  BY <1>1 DEF DiffRows, NoRows, AddPart, FoldLeftDomain, FoldLeft, MapThenFoldSet
<1> HIDE DEF Step, n
<1>3. 0 \in S
  <2>1. 1 .. 0 = {} /\ 0 \in 0 .. n
    BY <1>1
  <2> DEFINE f == [s \in SUBSET (1 .. 0) |-> NoRows]
  <2>2. f = Fold(f, 0)
    BY <2>1
  <2> QED
    BY <2>1, <2>2
<1>4. ASSUME NEW k \in 0 .. n, k # n, k \in S PROVE k + 1 \in S
  <2>1. PICK f : f = Fold(f, k)
    BY <1>4
  <2> DEFINE m == k + 1
             h == [s \in SUBSET (1 .. m) |-> IF m \in s THEN Step(f[s \ {m}], m) ELSE f[s]]
  <2>2. m \in 0 .. n /\ m \in Nat /\ m \notin 1 .. k /\ 1 .. m = (1 .. k) \cup {m}
    <3>1. n \in Nat /\ k \in 0 .. n /\ k # n
      BY <1>1, <1>4
    <3> QED
      BY <3>1
  <2> HIDE DEF m
  <2>3. \A s \in SUBSET (1 .. m) : s \ {m} \in SUBSET (1 .. k) /\ (m \notin s => s \in SUBSET (1 .. k))
    BY <2>2
  <2>4. \A s \in SUBSET (1 .. m) : m \in s => Max(s) = m
    BY <2>2, MaxIsBound
  <2>5. h[{}] = NoRows
    BY <2>1
  <2>6. ASSUME NEW s \in SUBSET (1 .. m), s # {} PROVE h[s] = Step(h[s \ {Max(s)}], Max(s))
    <3>1. CASE m \in s
      <4>1. h[s] = Step(f[s \ {m}], m) /\ h[s \ {m}] = f[s \ {m}]
        BY <3>1
      <4> QED
        BY <2>4, <3>1, <4>1
    <3>2. CASE m \notin s
      <4>1. s \in SUBSET (1 .. k)
        BY <2>3, <3>2
      <4>2. f[s] = Step(f[s \ {Max(s)}], Max(s))
        BY <2>1, <2>6, <4>1
      <4>3. h[s] = f[s] /\ h[s \ {Max(s)}] = f[s \ {Max(s)}]
        BY <3>2
      <4> QED
        BY <4>2, <4>3
    <3> QED
      BY <3>1, <3>2
  <2>7. h = Fold(h, m)
    <3>1. \A s \in SUBSET (1 .. m) : h[s] = IF s = {} THEN NoRows ELSE Step(h[s \ {Max(s)}], Max(s))
      BY <2>5, <2>6
    <3>2. h = [s \in SUBSET (1 .. m) |-> h[s]]
      OBVIOUS
    <3> HIDE DEF h
    <3> QED
      BY <3>1, <3>2
  <2> HIDE DEF Fold, h
  <2> QED
    BY <2>2, <2>7 DEF m
<1>5. iter = Fold(iter, n)
  <2> HIDE DEF S, Fold
  <2>1. \A k \in 0 .. n : k \in S
    BY <1>1, <1>3, <1>4, BoundedInduction
  <2>2. n \in S
    BY <1>1, <2>1
  <2> QED
    BY <2>2 DEF S
<1> HIDE DEF iter
<1>6. ASSUME NEW i \in 1 .. n PROVE iter[1 .. i] = Step(iter[1 .. (i - 1)], i)
  <2>1. Max(1 .. i) = i /\ (1 .. i) \ {i} = 1 .. (i - 1) /\ 1 .. i # {}
    <3>1. i \in Nat /\ i # 0
      BY <1>1
    <3> QED
      BY <3>1, MaxOfInterval
  <2>2. 1 .. i \in SUBSET (1 .. n)
    BY <1>1
  <2>3. iter[1 .. i] = Fold(iter, n)[1 .. i]
    BY <1>5
  <2> QED
    BY <2>1, <2>2, <2>3
<1>7. iter[1 .. 0] = NoRows
  BY <1>5
<1> DEFINE g == [k \in 0 .. n |-> iter[1 .. k]]
<1>8. g[0] = NoRows /\ g[n] = iter[1 .. n] /\ \A i \in 1 .. n : g[i] = Step(g[i - 1], i)
  BY <1>1, <1>6, <1>7
<1> HIDE DEF g
<1>9. \A v : \A i \in 1 .. n : Step(v, i) = AddPart(parts, v, i)
  <2>1. \A i \in 1 .. n : ids[i] = i
    BY <1>1
  <2> HIDE DEF ids
  <2> QED
    BY <2>1 DEF Step
<1> QED
  BY <1>2, <1>8, <1>9 DEF n

\* The mark of a line that is the same in both files.
Unchanged == " "

LEMMA MarkNames == "+" \in Marks /\ "-" \in Marks /\ Unchanged \in Marks
  BY Zenon DEF Marks, Unchanged

LEMMA NumberedRows ==
  /\ \A parts, r : r.mark = "+" /\ LinesOf(parts, "removed")[r.number] = r.line => Numbered(parts, r)
  /\ \A parts, r : r.mark = "-" /\ LinesOf(parts, "added")[r.number] = r.line => Numbered(parts, r)
  /\ \A parts, r : r.mark = Unchanged /\ LinesOf(parts, "added")[r.number] = r.line => Numbered(parts, r)
  BY Zenon DEF Numbered, Unchanged

\* How many of n unchanged lines are shown at their beginning and at their end.
Leading(n, leading, trailing) ==
  IF leading /\ trailing /\ n <= 2 * ContextLines THEN n ELSE IF leading THEN Min({n, ContextLines}) ELSE 0
Trailing(n, leading, trailing) ==
  IF leading /\ trailing /\ n <= 2 * ContextLines THEN 0 ELSE IF trailing THEN Min({n, ContextLines}) ELSE 0

LEMMA SameRowsShape ==
  ASSUME NEW i, NEW n, NEW number, NEW leading, NEW trailing
  PROVE  SameRows(i, n, number, leading, trailing)
           = IF ~leading /\ ~trailing THEN <<>>
             ELSE PartRows(Unchanged, i, n, Leading(n, leading, trailing), Trailing(n, leading, trailing), number)
  BY Zenon DEF SameRows, PartRows, Unchanged, Leading, Trailing

LEMMA PartRowsWhole ==
  ASSUME NEW mark \in Marks, NEW i \in Nat, NEW n \in Nat, NEW number \in Nat
  PROVE  PartRows(mark, i, n, n, 0, number) = Rows(mark, i, 1, n, number)
<1> DEFINE p == Rows(mark, i, 1, n, number)
           r == Rows(mark, i, n + 1, n, number)
<1>1. LineRows(p, mark, i, 0, n, number)
  <2>1. 0 + 1 = 1 /\ 0 + n = n /\ 0 \in Nat
    OBVIOUS
  <2>2. LineRows(Rows(mark, i, 0 + 1, 0 + n, number), mark, i, 0, n, number)
    BY <2>1, RowsFacts
  <2> QED
    BY <2>1, <2>2
<1>2. LineRows(r, mark, i, n, 0, number)
  <2>1. n + 0 = n /\ 0 \in Nat
    OBVIOUS
  <2>2. LineRows(Rows(mark, i, n + 1, n + 0, number), mark, i, n, 0, number)
    BY <2>1, RowsFacts
  <2> QED
    BY <2>1, <2>2
<1>3. (n - n) - 0 = 0 /\ n - 0 = n /\ ~(0 > 0)
  OBVIOUS
<1>4. PartRows(mark, i, n, n, 0, number) = p \o <<>> \o r
  BY <1>3 DEF PartRows, Gap
<1> HIDE DEF p, r
<1>5. p \in Seq(Row) /\ r = <<>>
  BY <1>1, <1>2 DEF LineRows
<1> QED
  BY <1>4, <1>5 DEF p

\* The part after a part's last line is a change, if there is one after unchanged lines.
LEMMA NearAfter ==
  ASSUME NEW parts \in DiffParts, NEW off, Listed(off, parts, "none"),
         NEW i \in 1 .. Len(parts), parts[i].kind = "same", off[i] + 1 \in DOMAIN LinesOf(parts, "none")
  PROVE  Near(parts, off[i] + 1)
<1> DEFINE P == Len(parts)
           j == i + 1
<1>1. P \in Nat /\ off[i] \in Nat /\ off[P] \in Nat /\ off[i] + 1 <= off[P]
  <2>1. P \in Nat
    BY PartFacts
  <2>2. off[i] \in Nat /\ off[P] \in Nat /\ DOMAIN LinesOf(parts, "none") = 1 .. off[P]
    BY <2>1, ListedFacts
  <2> QED
    BY <2>1, <2>2
<1>2. j \in 1 .. P /\ j \in 2 .. P /\ j - 1 = i
  <2>1. i # P
    BY <1>1
  <2> QED
    BY <1>1, <2>1
<1>3. parts[j].kind # "same" /\ 1 \in 1 .. parts[j].lines
  BY <1>2, PartFacts
<1>4. Near(parts, off[j - 1] + 1)
  BY <1>2, <1>3, NearCases
<1> QED
  BY <1>2, <1>4

\* A part adds rows for its lines, unless it is all there is and nothing is changed.
PartShown(parts, off, d, i) ==
  \E rs : /\ AddPart(parts, d, i).rows = d.rows \o rs
          /\ \E g : Tiled(parts, rs, g, off[i - 1], off[i])

LEMMA PartTiled ==
  ASSUME NEW parts \in DiffParts, NEW off, Listed(off, parts, "none"),
         NEW old, Listed(old, parts, "added"), NEW new, Listed(new, parts, "removed"),
         NEW i \in 1 .. Len(parts), NEW d, d.old = old[i - 1] + 1, d.new = new[i - 1] + 1,
         ~(Len(parts) = 1 /\ parts[i].kind = "same")
  PROVE  PartShown(parts, off, d, i)
<1> DEFINE P == Len(parts)
           n == parts[i].lines
           kind == parts[i].kind
           s == off[i - 1]
           number == IF kind = "added" THEN d.new ELSE d.old
           mark == IF kind = "added" THEN "+" ELSE IF kind = "removed" THEN "-" ELSE Unchanged
           leading == i > 1 /\ IsChange(parts[i - 1])
           trailing == i < P /\ IsChange(parts[i + 1])
           C == ContextLines
<1>1. /\ P \in Nat /\ DOMAIN parts = 1 .. P /\ n \in Nat /\ n # 0 /\ kind \in {"added", "removed", "same"} /\ C \in Nat
      /\ i \in Nat
  BY PartFacts, DiffsAssumption
<1>2. old[i - 1] \in Nat /\ new[i - 1] \in Nat
  <2>1. old \in [0 .. P -> Nat] /\ new \in [0 .. P -> Nat]
    BY DEF Listed, Counts
  <2>2. i - 1 \in 0 .. P
    BY <1>1
  <2> QED
    BY <2>1, <2>2
<1>3. number \in Nat /\ mark \in Marks
  <2>1. d.old \in Nat /\ d.new \in Nat
    BY <1>2
  <2> QED
    BY <2>1, MarkNames
<1>4. ASSUME NEW t \in 1 .. n PROVE Numbered(parts, LineRow(mark, i, t, number))
  <2> DEFINE r == LineRow(mark, i, t, number)
  <2>1. r.mark = mark /\ r.line = <<i, t>> /\ r.number = (number + t) - 1
    BY LineRowFields
  <2>2. kind # "added" => LinesOf(parts, "added")[old[i - 1] + t] = <<i, t>>
    BY DEF Listed
  <2>3. kind # "removed" => LinesOf(parts, "removed")[new[i - 1] + t] = <<i, t>>
    BY DEF Listed
  <2>4. r.number = IF kind = "added" THEN new[i - 1] + t ELSE old[i - 1] + t
    BY <1>1, <1>2, <2>1
  <2> HIDE DEF r
  <2>5. CASE kind = "added"
    BY <2>1, <2>3, <2>4, <2>5, NumberedRows DEF r
  <2>6. CASE kind = "removed"
    BY <2>1, <2>2, <2>4, <2>6, NumberedRows DEF r
  <2>7. CASE kind = "same"
    BY <2>1, <2>2, <2>4, <2>7, NumberedRows DEF r
  <2> QED
    BY <1>1, <2>5, <2>6, <2>7
<1>5. off[i] = s + n /\ s \in Nat
  BY ListedFacts
<1>6. \A t \in 1 .. n : Near(parts, s + t)
                          <=> (kind # "same" \/ (i > 1 /\ t <= C) \/ (i < P /\ n - t < C))
  BY NearCases
<1> HIDE DEF P, n, kind, s, number, mark, C
<1>7. ASSUME NEW a \in Nat, NEW b \in Nat, a + b <= n, ShowsNear(parts, s, n, a, b)
      PROVE  \E g : Tiled(parts, PartRows(mark, i, n, a, b, number), g, off[i - 1], off[i])
  <2> DEFINE rs == PartRows(mark, i, n, a, b, number)
  <2>1. PICK h : Shows(rs, h, mark, i, n, a, b, number)
    BY <1>1, <1>3, <1>7, PartRowsPlaces
  <2> HIDE DEF rs
  <2>2. \A t \in 1 .. parts[i].lines : Numbered(parts, LineRow(mark, i, t, number))
    BY <1>4 DEF n
  <2>3. Shows(rs, h, mark, i, parts[i].lines, a, b, number) /\ ShowsNear(parts, off[i - 1], parts[i].lines, a, b)
        /\ a + b <= parts[i].lines
    BY <1>7, <2>1 DEF n, s
  <2>4. \E g : Tiled(parts, rs, g, off[i - 1], off[i])
    BY <1>3, <2>2, <2>3, ShowsTiled
  <2> QED
    BY <2>4 DEF rs
<1>8. CASE kind # "same"
  <2> DEFINE rs == Rows(mark, i, 1, n, number)
  <2>1. AddPart(parts, d, i).rows = d.rows \o rs
    <3>1. kind = "added" => AddPart(parts, d, i).rows = d.rows \o Rows("+", i, 1, n, d.new)
      BY DEF AddPart, kind, n
    <3>2. kind = "removed" => AddPart(parts, d, i).rows = d.rows \o Rows("-", i, 1, n, d.old)
      BY DEF AddPart, kind, n
    <3> QED
      BY <1>1, <1>8, <3>1, <3>2 DEF mark, number
  <2>2. rs = PartRows(mark, i, n, n, 0, number)
    BY <1>1, <1>3, PartRowsWhole
  <2> HIDE DEF rs
  <2>3. ShowsNear(parts, s, n, n, 0)
    BY <1>1, <1>6, <1>8 DEF ShowsNear
  <2>4. n + 0 <= n /\ 0 \in Nat
    BY <1>1
  <2>5. \E g : Tiled(parts, PartRows(mark, i, n, n, 0, number), g, off[i - 1], off[i])
    BY <1>1, <1>7, <2>3, <2>4
  <2> QED
    BY <2>1, <2>2, <2>5 DEF PartShown
<1>9. CASE kind = "same"
  <2> DEFINE a == Leading(n, leading, trailing)
             b == Trailing(n, leading, trailing)
             rs == PartRows(mark, i, n, a, b, number)
  <2>1. (leading <=> i > 1) /\ (trailing <=> i < P) /\ (i > 1 \/ i < P)
    <3>1. i > 1 => parts[i - 1].kind # "same"
      <4>1. i > 1 => i \in 2 .. P
        BY <1>1 DEF P
      <4> QED
        BY <1>9, <4>1, PartFacts DEF P, kind
    <3>2. i < P => parts[i + 1].kind # "same"
      <4>1. i < P => i + 1 \in 2 .. P /\ (i + 1) - 1 = i
        BY <1>1 DEF P
      <4> QED
        BY <1>9, <4>1, PartFacts DEF P, kind
    <3>3. i > 1 \/ i < P
      BY <1>1, <1>9 DEF P, kind
    <3> QED
      BY <3>1, <3>2, <3>3 DEF IsChange
  <2>2. Min({n, C}) = IF n <= C THEN n ELSE C
    BY <1>1, MinOfTwo
  <2> HIDE DEF leading, trailing
  <2>3. /\ a = IF leading /\ trailing /\ n <= 2 * C THEN n ELSE IF leading THEN IF n <= C THEN n ELSE C ELSE 0
        /\ b = IF leading /\ trailing /\ n <= 2 * C THEN 0 ELSE IF trailing THEN IF n <= C THEN n ELSE C ELSE 0
    BY <2>2 DEF Leading, Trailing, C
  <2>4. AddPart(parts, d, i).rows = d.rows \o rs
    <3>1. AddPart(parts, d, i).rows = d.rows \o SameRows(i, n, d.old, leading, trailing)
      BY <1>9 DEF AddPart, kind, n, leading, trailing, P
    <3>2. number = d.old /\ mark = Unchanged
      BY <1>9 DEF number, mark
    <3> QED
      BY <2>1, <3>1, <3>2, SameRowsShape
  <2> HIDE DEF a, b, rs
  <2>5. a \in Nat /\ b \in Nat /\ a + b <= n
    BY <1>1, <2>3
  <2>6. \A t \in 1 .. n : Near(parts, s + t) <=> (t <= a \/ t > n - b)
    <3> SUFFICES ASSUME NEW t \in 1 .. n PROVE Near(parts, s + t) <=> (t <= a \/ t > n - b)
      OBVIOUS
    <3>1. Near(parts, s + t) <=> ((leading /\ t <= C) \/ (trailing /\ n - t < C))
      BY <1>6, <1>9, <2>1
    <3>2. ((leading /\ t <= C) \/ (trailing /\ n - t < C)) <=> (t <= a \/ t > n - b)
      BY <1>1, <2>1, <2>3
    <3> QED
      BY <3>1, <3>2
  <2>7. ShowsNear(parts, s, n, a, b)
    <3>1. (s + n) + 1 \in DOMAIN LinesOf(parts, "none") => Near(parts, (s + n) + 1)
      BY <1>5, <1>9, NearAfter DEF kind
    <3> QED
      BY <2>6, <3>1 DEF ShowsNear
  <2> QED
    BY <1>7, <2>4, <2>5, <2>7 DEF rs, PartShown
<1> QED
  BY <1>8, <1>9

\* The rows of all parts, unless the only part is unchanged.
LEMMA DiffTiled ==
  ASSUME NEW parts \in DiffParts, ~(Len(parts) = 1 /\ parts[1].kind = "same"),
         NEW off, Listed(off, parts, "none")
  PROVE  \E h : Tiled(parts, DiffRows(parts).rows, h, 0, off[Len(parts)])
<1> DEFINE P == Len(parts)
<1>1. P \in Nat /\ off[0] = 0
  BY PartFacts, ListedFacts
<1>2. PICK old : Listed(old, parts, "added")
  BY LinesListed
<1>3. PICK new : Listed(new, parts, "removed")
  BY LinesListed
<1>4. /\ old[0] = 0 /\ new[0] = 0
      /\ \A i \in 1 .. P : /\ old[i - 1] \in Nat /\ new[i - 1] \in Nat
                           /\ old[i] = old[i - 1] + IF parts[i].kind = "added" THEN 0 ELSE parts[i].lines
                           /\ new[i] = new[i - 1] + IF parts[i].kind = "removed" THEN 0 ELSE parts[i].lines
  <2>1. \A i \in 1 .. P : i - 1 \in 0 .. P
    BY <1>1
  <2> QED
    BY <1>2, <1>3, <2>1 DEF Listed, Counts
<1>5. PICK g : /\ g[0] = NoRows
               /\ \A i \in 1 .. P : g[i] = AddPart(parts, g[i - 1], i)
               /\ DiffRows(parts) = [rows |-> g[P].rows, first |-> g[P].first]
  BY DiffRun
<1> HIDE DEF P
<1> DEFINE S == {i \in 0 .. P : /\ g[i].old = old[i] + 1 /\ g[i].new = new[i] + 1
                                /\ \E h : Tiled(parts, g[i].rows, h, 0, off[i])}
<1>6. 0 \in S
  <2>1. g[0].rows = <<>> /\ g[0].old = 1 /\ g[0].new = 1
    BY <1>5 DEF NoRows
  <2> DEFINE h == [j \in 0 .. 0 |-> 0]
  <2>2. <<>> \in Seq(Row) /\ Len(<<>>) = 0 /\ h \in [0 .. 0 -> Nat] /\ h[0] = 0
    OBVIOUS
  <2> HIDE DEF h
  <2>3. Tiled(parts, <<>>, h, 0, 0)
    BY <2>2 DEF Tiled
  <2>4. 0 \in 0 .. P /\ 0 + 1 = 1
    BY <1>1
  <2> QED
    BY <1>1, <1>4, <2>1, <2>3, <2>4
<1>7. ASSUME NEW i \in 0 .. P, i # P, i \in S PROVE i + 1 \in S
  <2> DEFINE j == i + 1
             d == g[i]
             k == parts[j].kind
             n == parts[j].lines
  <2>1. j \in 1 .. P /\ j \in 0 .. P /\ j - 1 = i
    BY <1>1, <1>7
  <2>2. d.old = old[i] + 1 /\ d.new = new[i] + 1
    BY <1>7
  <2>3. PICK h : Tiled(parts, d.rows, h, 0, off[i])
    BY <1>7
  <2> HIDE DEF j, d
  <2>4. g[j] = AddPart(parts, d, j)
    BY <1>5, <2>1 DEF d
  <2>5. n \in Nat /\ k \in {"added", "removed", "same"}
    BY <2>1, PartFacts DEF P
  <2>6. g[j].old = d.old + (IF k = "added" THEN 0 ELSE n) /\ g[j].new = d.new + (IF k = "removed" THEN 0 ELSE n)
    <3>1. /\ AddPart(parts, d, j).old = d.old + (IF k = "added" THEN 0 ELSE n)
          /\ AddPart(parts, d, j).new = d.new + (IF k = "removed" THEN 0 ELSE n)
      BY Zenon DEF AddPart
    <3> QED
      BY <2>4, <3>1
  <2>7. g[j].old = old[j] + 1 /\ g[j].new = new[j] + 1
    <3>1. /\ old[i] \in Nat /\ old[j] = old[i] + IF k = "added" THEN 0 ELSE n
          /\ new[i] \in Nat /\ new[j] = new[i] + IF k = "removed" THEN 0 ELSE n
      BY <1>4, <2>1
    <3> HIDE DEF k, n
    <3> QED
      BY <2>2, <2>5, <2>6, <3>1
  <2>8. PICK rs : /\ AddPart(parts, d, j).rows = d.rows \o rs
                  /\ \E f : Tiled(parts, rs, f, off[j - 1], off[j])
    <3>1. ~(Len(parts) = 1 /\ parts[j].kind = "same") /\ j \in 1 .. Len(parts)
      BY <2>1 DEF P
    <3>2. d.old = old[j - 1] + 1 /\ d.new = new[j - 1] + 1
      BY <2>1, <2>2
    <3>3. PartShown(parts, off, d, j)
      BY <1>2, <1>3, <3>1, <3>2, PartTiled, ZenonT(30)
    <3> QED
      BY <3>3 DEF PartShown
  <2>9. PICK f : Tiled(parts, rs, f, off[i], off[j])
    BY <2>1, <2>8
  <2>10. \E e : Tiled(parts, d.rows \o rs, e, 0, off[j])
    BY <2>3, <2>9, TiledConcat
  <2>11. j \in S
    BY <2>1, <2>4, <2>7, <2>8, <2>10
  <2> QED
    BY <2>11 DEF j
<1> HIDE DEF S
<1>8. P \in S
  <2>1. \A i \in 0 .. P : i \in S
    BY <1>1, <1>6, <1>7, BoundedInduction
  <2> QED
    BY <1>1, <2>1
<1>9. DiffRows(parts).rows = g[P].rows
  BY <1>5
<1> QED
  BY <1>8, <1>9 DEF S, P

\* What RowsTrue says of the rows of some parts.
RowsRight(parts, rows) ==
  LET all == LinesOf(parts, "none")
  IN  /\ \A n \in DOMAIN rows : RowRight(parts, rows, n)
      /\ rows # <<>> => \A n \in 0 .. Len(rows) :
                          \/ IsGap(rows, n) \/ IsGap(rows, n + 1)
                          \/ Place(parts, rows, n + 1) = Place(parts, rows, n) + 1
      /\ {rows[n].line : n \in {m \in DOMAIN rows : ~IsGap(rows, m)}}
           = {all[k] : k \in {m \in DOMAIN all : Near(parts, m)}}

LEMMA RowRightCases ==
  ASSUME NEW parts, NEW rows, NEW n
  PROVE  /\ Numbered(parts, rows[n]) => RowRight(parts, rows, n)
         /\ /\ rows[n].mark = "..." /\ ~IsGap(rows, n - 1) /\ ~IsGap(rows, n + 1)
            /\ Place(parts, rows, n + 1) > Place(parts, rows, n - 1) + 1
            => RowRight(parts, rows, n)
  BY Zenon DEF RowRight, Numbered

LEMMA TiledRight ==
  ASSUME NEW parts \in DiffParts, NEW off, Listed(off, parts, "none"),
         NEW rows, NEW h, Tiled(parts, rows, h, 0, off[Len(parts)])
  PROVE  RowsRight(parts, rows)
<1> DEFINE all == LinesOf(parts, "none")
           T == off[Len(parts)]
           L == Len(rows)
           at(n) == Place(parts, rows, n)
           gap(n) == IsGap(rows, n)
<1>1. /\ rows \in Seq(Row) /\ L \in Nat /\ DOMAIN rows = 1 .. L /\ h \in [0 .. L -> Nat] /\ h[0] = 0 /\ h[L] = T
      /\ \A j \in 1 .. L : Cover(parts, rows[j], h[j - 1], h[j])
  BY DEF Tiled
<1>2. DOMAIN all = 1 .. T /\ Len(all) = T /\ T \in Nat
  BY <1>1 DEF Listed
<1>3. ASSUME NEW k \in 1 .. T, NEW m \in 1 .. T, all[k] = all[m] PROVE k = m
  <2>1. Counts(off, parts, "none")
    BY DEF Listed
  <2>2. PICK i \in 1 .. Len(parts) : \E n \in 1 .. parts[i].lines : k = off[i - 1] + n
    BY <2>1, PartOfLine
  <2>3. PICK n \in 1 .. parts[i].lines : k = off[i - 1] + n
    BY <2>2
  <2>4. PICK j \in 1 .. Len(parts) : \E t \in 1 .. parts[j].lines : m = off[j - 1] + t
    BY <2>1, PartOfLine
  <2>5. PICK t \in 1 .. parts[j].lines : m = off[j - 1] + t
    BY <2>4
  <2>6. all[k] = <<i, n>> /\ all[m] = <<j, t>>
    BY <2>3, <2>5, ListedFacts
  <2> HIDE DEF all
  <2>8. <<i, n>> = <<j, t>>
    BY <1>3, <2>6, Zenon
  <2>7. i = j /\ n = t
    BY <2>8
  <2> QED
    BY <2>3, <2>5, <2>7
<1>4. \A n : gap(n) <=> n \in 1 .. L /\ rows[n].mark = "..."
  BY <1>1 DEF IsGap
<1>5. ASSUME NEW n \in 1 .. L
      PROVE  \/ /\ ~gap(n) /\ h[n] = h[n - 1] + 1
                /\ h[n] \in 1 .. T /\ rows[n].line = all[h[n]] /\ Near(parts, h[n]) /\ Numbered(parts, rows[n])
             \/ /\ gap(n) /\ h[n - 1] < h[n] /\ \A k \in h[n - 1] + 1 .. h[n] : ~Near(parts, k)
                /\ h[n] \in 1 .. T /\ (h[n] + 1 \in 1 .. T => Near(parts, h[n] + 1))
  <2>1. Cover(parts, rows[n], h[n - 1], h[n])
    BY <1>1
  <2> HIDE DEF gap, all, T
  <2>2. gap(n) <=> rows[n].mark = "..."
    BY <1>4
  <2> QED
    BY <1>2, <2>1, <2>2 DEF Cover, all
<1>6. at(0) = 0 /\ at(L + 1) = T + 1
  <2>1. L + 1 # 0 /\ L + 1 > L
    BY <1>1
  <2> QED
    BY <1>2, <2>1 DEF Place
<1>7. ASSUME NEW n \in 1 .. L, ~gap(n) PROVE at(n) = h[n]
  <2>1. n # 0 /\ ~(n > L)
    BY <1>1
  <2>2. at(n) = CHOOSE k \in DOMAIN all : all[k] = rows[n].line
    BY <2>1 DEF Place
  <2>3. h[n] \in 1 .. T /\ rows[n].line = all[h[n]]
    BY <1>5, <1>7
  <2> HIDE DEF at, all, T, gap
  <2>4. at(n) \in 1 .. T /\ all[at(n)] = all[h[n]]
    BY <1>2, <2>2, <2>3
  <2> QED
    BY <1>3, <2>3, <2>4
<1> HIDE DEF all, T, L, at, gap
<1>8. \A n \in 0 .. L : h[n] \in Nat
  BY <1>1
<1>9. ASSUME NEW n \in 0 .. L, ~gap(n) PROVE at(n) = h[n]
  <2>1. n = 0 \/ n \in 1 .. L
    BY <1>1
  <2> QED
    BY <1>1, <1>6, <1>7, <1>9, <2>1
<1>10. ASSUME NEW n \in 1 .. L, gap(n), gap(n + 1) PROVE FALSE
  <2> DEFINE m == n + 1
  <2>1. m \in 1 .. L /\ m - 1 = n /\ n \in 0 .. L /\ m \in 0 .. L
    BY <1>1, <1>4, <1>10
  <2>2. h[n] \in 1 .. T /\ (h[n] + 1 \in 1 .. T => Near(parts, h[n] + 1))
    BY <1>5, <1>10
  <2>3. h[n] < h[m] /\ (\A k \in h[n] + 1 .. h[m] : ~Near(parts, k)) /\ h[m] \in 1 .. T
    BY <1>5, <1>10, <2>1
  <2> HIDE DEF m
  <2>4. h[n] + 1 \in 1 .. T /\ h[n] + 1 \in h[n] + 1 .. h[m]
    BY <1>2, <1>8, <2>1, <2>2, <2>3
  <2> QED
    BY <2>2, <2>3, <2>4
<1>11. ASSUME NEW n \in 0 .. L, ~gap(n + 1) PROVE at(n + 1) = h[n] + 1
  <2>1. CASE n = L
    BY <1>1, <1>6, <2>1
  <2>2. CASE n # L
    <3>1. n + 1 \in 1 .. L /\ (n + 1) - 1 = n
      BY <1>1, <2>2
    <3>2. at(n + 1) = h[n + 1]
      BY <1>7, <1>11, <3>1
    <3> QED
      BY <1>5, <1>11, <3>1, <3>2
  <2> QED
    BY <2>1, <2>2
<1>12. ASSUME NEW n \in 1 .. L PROVE RowRight(parts, rows, n)
  <2>1. CASE ~gap(n)
    BY <1>5, <2>1, RowRightCases
  <2>2. CASE gap(n)
    <3>1. n \in 0 .. L /\ n - 1 \in 0 .. L /\ (n - 1) + 1 = n
      BY <1>1
    <3>2. ~gap(n - 1)
      <4>1. gap(n - 1) => n - 1 \in 1 .. L
        BY <1>4
      <4> QED
        BY <1>10, <2>2, <3>1, <4>1
    <3>3. ~gap(n + 1)
      BY <1>10, <2>2
    <3>4. at(n + 1) = h[n] + 1 /\ at(n - 1) = h[n - 1]
      BY <1>9, <1>11, <3>1, <3>2, <3>3
    <3>5. h[n - 1] < h[n] /\ h[n] \in Nat /\ h[n - 1] \in Nat
      BY <1>5, <1>8, <2>2, <3>1
    <3>6. at(n + 1) > at(n - 1) + 1
      BY <3>4, <3>5
    <3>7. rows[n].mark = "..."
      BY <1>4, <2>2
    <3> QED
      BY <3>2, <3>3, <3>6, <3>7, RowRightCases DEF gap, at
  <2> QED
    BY <2>1, <2>2
<1>13. ASSUME NEW n \in 0 .. L, ~gap(n), ~gap(n + 1) PROVE at(n + 1) = at(n) + 1
  BY <1>9, <1>11, <1>13
<1>14. ASSUME NEW n \in 1 .. L, ~gap(n) PROVE h[n] \in 1 .. T /\ Near(parts, h[n]) /\ rows[n].line = all[h[n]]
  BY <1>5, <1>14
<1>15. ASSUME NEW k \in 1 .. T, Near(parts, k) PROVE \E n \in 1 .. L : ~gap(n) /\ rows[n].line = all[k]
  <2> DEFINE S == {n \in 0 .. L : k <= h[n]}
  <2>1. S \in SUBSET Nat /\ L \in S
    BY <1>1, <1>2
  <2>2. PICK n \in S : \A m \in S : n <= m
    BY <2>1, LeastNatural
  <2>3. n \in 0 .. L /\ k <= h[n] /\ k \in Nat /\ k # 0
    BY <1>2
  <2>4. n # 0
    BY <1>1, <2>3
  <2>5. n \in 1 .. L /\ n - 1 \in 0 .. L /\ n - 1 < n
    BY <1>1, <2>3, <2>4
  <2>6. ~(k <= h[n - 1])
    BY <2>2, <2>5
  <2>7. h[n] \in Nat /\ h[n - 1] \in Nat
    BY <1>8, <2>3, <2>5
  <2> HIDE DEF S
  <2>8. k \in h[n - 1] + 1 .. h[n]
    BY <2>3, <2>6, <2>7
  <2>9. ~gap(n)
    BY <1>5, <1>15, <2>5, <2>8
  <2>10. h[n] = h[n - 1] + 1 /\ rows[n].line = all[h[n]]
    BY <1>5, <2>5, <2>9
  <2>11. h[n] = k
    BY <2>3, <2>6, <2>7, <2>10
  <2> QED
    BY <2>5, <2>9, <2>10, <2>11
<1>16. {rows[n].line : n \in {m \in DOMAIN rows : ~gap(m)}} = {all[k] : k \in {m \in DOMAIN all : Near(parts, m)}}
  <2>1. ASSUME NEW n \in 1 .. L, ~gap(n) PROVE \E k \in 1 .. T : Near(parts, k) /\ rows[n].line = all[k]
    BY <1>14, <2>1
  <2> DEFINE shown == {rows[n].line : n \in {m \in DOMAIN rows : ~gap(m)}}
             near == {all[k] : k \in {m \in DOMAIN all : Near(parts, m)}}
  <2>2. \A l : l \in shown <=> \E n \in 1 .. L : ~gap(n) /\ l = rows[n].line
    BY <1>1
  <2>3. \A l : l \in near <=> \E k \in 1 .. T : Near(parts, k) /\ l = all[k]
    BY <1>2
  <2> HIDE DEF shown, near
  <2>6. ASSUME NEW l \in shown PROVE l \in near
    <3>1. PICK n \in 1 .. L : ~gap(n) /\ l = rows[n].line
      BY <2>2
    <3> QED
      BY <2>1, <2>3, <3>1
  <2>7. ASSUME NEW l \in near PROVE l \in shown
    <3>1. PICK k \in 1 .. T : Near(parts, k) /\ l = all[k]
      BY <2>3
    <3> QED
      BY <1>15, <2>2, <3>1
  <2>4. \A l : l \in shown <=> l \in near
    BY <2>6, <2>7
  <2>5. shown = near
    BY <2>4
  <2> QED
    BY <2>5 DEF shown, near
<1> QED
  BY <1>1, <1>12, <1>13, <1>16 DEF RowsRight, all, L, at, gap

\* The rows of any diff are right.
LEMMA DiffRight ==
  ASSUME NEW parts \in DiffParts PROVE RowsRight(parts, DiffRows(parts).rows)
<1>1. PICK off : Listed(off, parts, "none")
  BY LinesListed
<1>2. CASE ~(Len(parts) = 1 /\ parts[1].kind = "same")
  <2>1. PICK h : Tiled(parts, DiffRows(parts).rows, h, 0, off[Len(parts)])
    BY <1>1, <1>2, DiffTiled
  <2> QED
    BY <1>1, <2>1, TiledRight
<1>3. CASE Len(parts) = 1 /\ parts[1].kind = "same"
  <2> DEFINE rows == DiffRows(parts).rows
             all == LinesOf(parts, "none")
             d == AddPart(parts, NoRows, 1)
  <2>1. rows = d.rows
    <3>1. PICK g : /\ g[0] = NoRows
                   /\ \A i \in 1 .. Len(parts) : g[i] = AddPart(parts, g[i - 1], i)
                   /\ DiffRows(parts) = [rows |-> g[Len(parts)].rows, first |-> g[Len(parts)].first]
      BY DiffRun
    <3>2. g[1] = d
      <4>1. 1 \in 1 .. 1 /\ 1 - 1 = 0
        OBVIOUS
      <4> QED
        BY <1>3, <3>1, <4>1
    <3> QED
      BY <1>3, <3>1, <3>2
  <2>2. rows = <<>>
    <3>1. d.rows = NoRows.rows \o SameRows(1, parts[1].lines, NoRows.old, FALSE, FALSE)
      <4>1. ~(1 > 1) /\ ~(1 < Len(parts))
        BY <1>3
      <4> QED
        BY <1>3, <4>1 DEF AddPart
    <3>2. NoRows.rows = <<>> /\ SameRows(1, parts[1].lines, NoRows.old, FALSE, FALSE) = <<>>
      BY SameRowsShape DEF NoRows
    <3>3. <<>> \o <<>> = <<>>
      OBVIOUS
    <3> HIDE DEF d, rows
    <3> QED
      BY <2>1, <3>1, <3>2, <3>3
  <2>3. ASSUME NEW k \in DOMAIN all PROVE ~Near(parts, k)
    <3>1. PICK i \in 1 .. Len(parts) : \E n \in 1 .. parts[i].lines : k = off[i - 1] + n
      <4>1. Counts(off, parts, "none") /\ k \in 1 .. off[Len(parts)]
        BY <1>1 DEF Listed
      <4> QED
        BY <4>1, PartOfLine
    <3>2. PICK n \in 1 .. parts[i].lines : k = off[i - 1] + n
      BY <3>1
    <3>3. parts[i].kind = "same" /\ ~(i > 1) /\ ~(i < Len(parts))
      BY <1>3
    <3> QED
      BY <1>1, <3>2, <3>3, NearCases
  <2> HIDE DEF rows
  <2>4. DOMAIN rows = {}
    BY <2>2
  <2>5. {k \in DOMAIN all : Near(parts, k)} = {}
    BY <2>3
  <2>6. {rows[n].line : n \in {m \in DOMAIN rows : ~IsGap(rows, m)}} = {}
    BY <2>4
  <2> HIDE DEF all
  <2>7. {all[k] : k \in {m \in DOMAIN all : Near(parts, m)}} = {}
    BY <2>5
  <2>8. RowsRight(parts, rows)
    BY <2>2, <2>4, <2>6, <2>7 DEF RowsRight, all
  <2> QED
    BY <2>8 DEF rows
<1> QED
  BY <1>2, <1>3

\* The outcome of a call is that of one of the diffs.
RowsInv ==
  tool = "diff" /\ call # None =>
    \E parts \in Diffs : call = [parts |-> parts, diff |-> DiffRows(parts)]

LEMMA RowsStep == RowsInv /\ [Next]_vars => RowsInv'
<1> SUFFICES ASSUME RowsInv, [Next]_vars, tool' = "diff" PROVE RowsInv'
  BY DEF RowsInv
<1>1. ASSUME NEW parts \in Diffs, TellChange(parts) PROVE RowsInv'
  BY <1>1 DEF TellChange, RowsInv
<1>2. ASSUME ~\E parts \in Diffs : TellChange(parts) PROVE RowsInv'
  <2>1. UNCHANGED vars
    BY <1>2 DEF Next, Read, ReadOn, ReadFails, Show, Edit, Bash
  <2> QED
    BY <2>1 DEF RowsInv, vars
<1> QED
  BY <1>1, <1>2

\* The rows of every diff number the lines as the files do, with the context around each change.
THEOREM RowsNumbered == Spec => []RowsTrue
<1>1. Init => RowsInv
  BY DEF Init, RowsInv
<1>2. RowsInv => RowsTrue
  <2> SUFFICES ASSUME RowsInv, tool = "diff", call # None
               PROVE  RowsRight(call.parts, call.diff.rows)
    BY DEF RowsTrue, RowsRight, Done
  <2>1. PICK parts \in Diffs : call = [parts |-> parts, diff |-> DiffRows(parts)]
    BY DEF RowsInv
  <2>2. parts \in DiffParts
    BY DiffsAssumption
  <2>3. call.parts = parts /\ call.diff.rows = DiffRows(parts).rows
    BY <2>1
  <2> QED
    BY <2>2, <2>3, DiffRight
<1> QED
  BY <1>1, <1>2, RowsStep, PTL DEF Spec

=============================================================================
