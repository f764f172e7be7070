------------------------- MODULE AgentSessionProofs -------------------------
(***************************************************************************)
(* The safety properties of one session for every set of models, levels,   *)
(* tools and calls.                                                        *)
(*                                                                         *)
(* None is inductive.  MetadataSync: a session is created in steps, from a *)
(* context read before the first, and a setModel() call answers long after *)
(* it was made; CreationSync says what holds in between.                   *)
(* DialogueLoggedOnce: a message is queued, or a run's input, before it is *)
(* logged; OnePlace says it is in one place at a time.  DialogueFromLog:   *)
(* compact() calls overlap, and what one installs was read earlier;        *)
(* FromLog says which context the agent will be left with.                 *)
(***************************************************************************)
EXTENDS AgentSession, NatLemmas, SequenceTheorems, TLAPS
-----------------------------------------------------------------------------
(* What an append does to the model and the level that the log restores.   *)

\* An entry that names a model makes it the log's model; any other keeps it.
LEMMA ContextModelAppend ==
  ASSUME NEW es \in Seq(Entry), NEW e \in Entry
  PROVE  ContextModel(Append(es, e)) = IF IsModelChange(e) THEN e.model ELSE ContextModel(es)
<1> DEFINE I(s) == {i \in 1 .. Len(s) : IsModelChange(s[i])}
           fs   == Append(es, e)
<1>1. fs \in Seq(Entry) /\ Len(fs) = Len(es) + 1 /\ fs[Len(fs)] = e
      /\ \A i \in 1 .. Len(es) : fs[i] = es[i]
  OBVIOUS
<1>2. CASE IsModelChange(e)
  <2>1. Len(fs) \in I(fs) /\ I(fs) \in SUBSET (1 .. Len(fs)) /\ Len(fs) \in Nat
    BY <1>1, <1>2
  <2>2. Max(I(fs)) = Len(fs) /\ Len(fs) # 0
    BY <2>1, <1>1, MaxIsBound
  <2> QED
    BY <2>1, <2>2, <1>1, <1>2 DEF ContextModel, SelectLastInSeq
<1>3. CASE ~IsModelChange(e)
  <2>1. I(fs) = I(es)
    BY <1>1, <1>3
  <2>2. SelectLastInSeq(fs, IsModelChange) = SelectLastInSeq(es, IsModelChange)
    BY <2>1 DEF SelectLastInSeq
  <2>3. I(es) # {} => SelectLastInSeq(es, IsModelChange) \in 1 .. Len(es)
    <3>1. I(es) \in SUBSET (1 .. Len(es)) /\ Len(es) \in Nat
      OBVIOUS
    <3> QED
      BY <3>1, MaxExists DEF SelectLastInSeq
  <2>4. I(es) = {} => SelectLastInSeq(es, IsModelChange) = 0
    BY DEF SelectLastInSeq
  <2> QED
    BY <2>2, <2>3, <2>4, <1>1, <1>3 DEF ContextModel
<1> QED
  BY <1>2, <1>3

\* An entry that carries a level makes it the log's level; any other keeps it.
LEMMA ContextLevelAppend ==
  ASSUME NEW es \in Seq(Entry), NEW e \in Entry
  PROVE  ContextLevel(Append(es, e)) = IF IsLevelChange(e) THEN e.thinkingLevel ELSE ContextLevel(es)
<1> DEFINE I(s) == {i \in 1 .. Len(s) : IsLevelChange(s[i])}
           fs   == Append(es, e)
<1>1. fs \in Seq(Entry) /\ Len(fs) = Len(es) + 1 /\ fs[Len(fs)] = e
      /\ \A i \in 1 .. Len(es) : fs[i] = es[i]
  OBVIOUS
<1>2. CASE IsLevelChange(e)
  <2>1. Len(fs) \in I(fs) /\ I(fs) \in SUBSET (1 .. Len(fs)) /\ Len(fs) \in Nat
    BY <1>1, <1>2
  <2>2. Max(I(fs)) = Len(fs) /\ Len(fs) # 0
    BY <2>1, <1>1, MaxIsBound
  <2> QED
    BY <2>1, <2>2, <1>1, <1>2 DEF ContextLevel, SelectLastInSeq
<1>3. CASE ~IsLevelChange(e)
  <2>1. I(fs) = I(es)
    BY <1>1, <1>3
  <2>2. SelectLastInSeq(fs, IsLevelChange) = SelectLastInSeq(es, IsLevelChange)
    BY <2>1 DEF SelectLastInSeq
  <2>3. I(es) # {} => SelectLastInSeq(es, IsLevelChange) \in 1 .. Len(es)
    <3>1. I(es) \in SUBSET (1 .. Len(es)) /\ Len(es) \in Nat
      OBVIOUS
    <3> QED
      BY <3>1, MaxExists DEF SelectLastInSeq
  <2>4. I(es) = {} => SelectLastInSeq(es, IsLevelChange) = 0
    BY DEF SelectLastInSeq
  <2> QED
    BY <2>2, <2>3, <2>4, <1>1, <1>3 DEF ContextLevel
<1> QED
  BY <1>2, <1>3

\* What an entry of each kind carries.
LEMMA EntryFields ==
  ASSUME NEW e \in Entry
  PROVE  /\ IsModelChange(e) => e.model \in Models /\ IsLevelChange(e)
         /\ IsLevelChange(e) => e.thinkingLevel \in Levels
  BY DEF Entry, IsModelChange, IsLevelChange

\* The context's model is one of the models or none, its level is a level.
LEMMA ContextTypes ==
  ASSUME NEW es \in Seq(Entry)
  PROVE  ContextModel(es) \in Models \cup {NoModel} /\ ContextLevel(es) \in Levels
<1>1. ContextModel(es) \in Models \cup {NoModel}
  <2> DEFINE I == {i \in 1 .. Len(es) : IsModelChange(es[i])}
  <2>1. I # {} => Max(I) \in I
    <3>1. I \in SUBSET (1 .. Len(es)) /\ Len(es) \in Nat
      OBVIOUS
    <3> QED
      BY <3>1, MaxExists
  <2>2. \A i \in I : es[i] \in Entry /\ es[i].model \in Models
    BY EntryFields
  <2> QED
    BY <2>1, <2>2 DEF ContextModel, SelectLastInSeq
<1>2. ContextLevel(es) \in Levels
  <2> DEFINE I == {i \in 1 .. Len(es) : IsLevelChange(es[i])}
  <2>1. I # {} => Max(I) \in I
    <3>1. I \in SUBSET (1 .. Len(es)) /\ Len(es) \in Nat
      OBVIOUS
    <3> QED
      BY <3>1, MaxExists
  <2>2. \A i \in I : es[i] \in Entry /\ es[i].thinkingLevel \in Levels
    BY EntryFields
  <2> QED
    BY <2>1, <2>2, LevelsAssumption DEF ContextLevel, SelectLastInSeq
<1> QED
  BY <1>1, <1>2

\* The context of an empty log.
LEMMA ContextEmpty == ContextModel(<<>>) = NoModel /\ ContextLevel(<<>>) = "off"
<1>1. \A i \in 1 .. Len(<<>>) : FALSE
  OBVIOUS
<1> QED
  BY <1>1 DEF ContextModel, ContextLevel, SelectLastInSeq

\* What each append does to the model and the level of the context.
LEMMA AppendModelChange ==
  ASSUME NEW es \in Seq(Entry), NEW m \in Models, NEW l \in Levels
  PROVE  LET fs == Append(es, ModelChangeEntry(m, l))
         IN  fs \in Seq(Entry) /\ ContextModel(fs) = m /\ ContextLevel(fs) = l
<1>1. ModelChangeEntry(m, l) \in Entry
  BY DEF ModelChangeEntry, Entry
<1> QED
  BY <1>1, ContextModelAppend, ContextLevelAppend DEF ModelChangeEntry, IsModelChange, IsLevelChange

LEMMA AppendThinkingChange ==
  ASSUME NEW es \in Seq(Entry), NEW l \in Levels
  PROVE  LET fs == Append(es, ThinkingChangeEntry(l))
         IN  fs \in Seq(Entry) /\ ContextModel(fs) = ContextModel(es) /\ ContextLevel(fs) = l
<1>1. ThinkingChangeEntry(l) \in Entry
  BY DEF ThinkingChangeEntry, Entry
<1> QED
  BY <1>1, ContextModelAppend, ContextLevelAppend DEF ThinkingChangeEntry, IsModelChange, IsLevelChange

LEMMA AppendOther ==
  ASSUME NEW es \in Seq(Entry), NEW e \in Entry, ~IsLevelChange(e)
  PROVE  LET fs == Append(es, e)
         IN  fs \in Seq(Entry) /\ ContextModel(fs) = ContextModel(es)
             /\ ContextLevel(fs) = ContextLevel(es)
<1>1. ~IsModelChange(e)
  BY EntryFields
<1> QED
  BY <1>1, ContextModelAppend, ContextLevelAppend
-----------------------------------------------------------------------------
(* What the context's messages are: those of the entries it keeps.         *)

\* The recursion of ExtractMessages, step by step.
ExtractStep(g, es, i) ==
  IF i = 0 THEN <<>>
  ELSE IF BearsMessage(es[i]) THEN Append(g[i - 1], es[i].message)
  ELSE g[i - 1]
Extracts(g, es, n) == g = [i \in 0 .. n |-> ExtractStep(g, es, i)]

LEMMA ExtractExists ==
  ASSUME NEW es, NEW n \in Nat
  PROVE  \E g : Extracts(g, es, n)
<1> DEFINE S == {k \in Nat : \E g : Extracts(g, es, k)}
<1>1. 0 \in S
  <2> DEFINE g == [i \in 0 .. 0 |-> <<>>]
  <2>1. Extracts(g, es, 0)
    BY DEF Extracts, ExtractStep
  <2> QED
    BY <2>1
<1>2. ASSUME NEW k \in 0 .. n, k # n, k \in S PROVE k + 1 \in S
  <2>1. PICK g : Extracts(g, es, k)
    BY <1>2
  <2> DEFINE h == [i \in 0 .. k + 1 |-> IF i = k + 1 THEN ExtractStep(g, es, k + 1) ELSE g[i]]
  <2>2. ASSUME NEW i \in 0 .. k + 1 PROVE h[i] = ExtractStep(h, es, i)
    <3>1. i # 0 => i - 1 \in 0 .. k /\ h[i - 1] = g[i - 1]
      OBVIOUS
    <3>2. ExtractStep(h, es, i) = ExtractStep(g, es, i)
      BY <3>1 DEF ExtractStep
    <3>3. i # k + 1 => i \in 0 .. k /\ g[i] = ExtractStep(g, es, i)
      BY <2>1 DEF Extracts
    <3> QED
      BY <3>2, <3>3
  <2>3. Extracts(h, es, k + 1)
    <3> DEFINE q == [i \in 0 .. k + 1 |-> ExtractStep(h, es, i)]
    <3>1. h = q
      <4>1. DOMAIN h = 0 .. k + 1 /\ DOMAIN q = 0 .. k + 1
        OBVIOUS
      <4>2. \A i \in 0 .. k + 1 : h[i] = q[i]
        BY <2>2
      <4> QED
        BY <4>1, <4>2
    <3> QED
      BY <3>1 DEF Extracts
  <2> QED
    BY <2>3
<1> HIDE DEF S
<1>3. n \in S
  BY <1>1, <1>2, BoundedInduction
<1> QED
  BY <1>3 DEF S

LEMMA ExtractResult ==
  ASSUME NEW es, Len(es) \in Nat
  PROVE  \E g : Extracts(g, es, Len(es)) /\ ExtractMessages(es) = g[Len(es)]
<1> DEFINE g == CHOOSE h : h = [i \in 0 .. Len(es) |->
                                  IF i = 0 THEN <<>>
                                  ELSE IF BearsMessage(es[i]) THEN Append(h[i - 1], es[i].message)
                                  ELSE h[i - 1]]
<1>1. ExtractMessages(es) = g[Len(es)]
  BY DEF ExtractMessages
<1>2. \E h : h = [i \in 0 .. Len(es) |->
                    IF i = 0 THEN <<>>
                    ELSE IF BearsMessage(es[i]) THEN Append(h[i - 1], es[i].message)
                    ELSE h[i - 1]]
  BY ExtractExists DEF Extracts, ExtractStep
<1>3. Extracts(g, es, Len(es))
  BY <1>2 DEF Extracts, ExtractStep
<1> QED
  BY <1>1, <1>3

\* x holds the messages of the entries at the positions I that bear one, in the
\* order of the entries.
Extraction(x, es, I) ==
  /\ x \in Seq(Message)
  /\ \E pos \in [DOMAIN x -> I] :
       /\ \A k \in DOMAIN x : BearsMessage(es[pos[k]]) /\ x[k] = es[pos[k]].message
       /\ \A k, l \in DOMAIN x : k < l => pos[k] < pos[l]
       /\ \A i \in I : BearsMessage(es[i]) => \E k \in DOMAIN x : pos[k] = i

LEMMA ExtractShape ==
  ASSUME NEW es \in Seq(Entry)
  PROVE  Extraction(ExtractMessages(es), es, 1 .. Len(es))
<1>1. Len(es) \in Nat /\ DOMAIN es = 1 .. Len(es) /\ \A i \in 1 .. Len(es) : es[i] \in Entry
  OBVIOUS
<1>2. PICK g : Extracts(g, es, Len(es)) /\ ExtractMessages(es) = g[Len(es)]
  BY <1>1, ExtractResult
<1>3. \A i \in 0 .. Len(es) : g[i] = ExtractStep(g, es, i)
  BY <1>2 DEF Extracts
<1> DEFINE S == {i \in 0 .. Len(es) : Extraction(g[i], es, 1 .. i)}
<1>4. 0 \in S
  <2>1. g[0] = <<>>
    BY <1>1, <1>3 DEF ExtractStep
  <2>2. DOMAIN <<>> = {} /\ <<>> \in Seq(Message)
    OBVIOUS
  <2> DEFINE x == <<>>
             pos == [k \in {} |-> 0]
  <2>3. DOMAIN x = {} /\ x \in Seq(Message) /\ pos \in [DOMAIN x -> 1 .. 0]
    BY <2>2
  <2> HIDE DEF x, pos
  <2>4. Extraction(x, es, 1 .. 0)
    <3>1. /\ \A k \in DOMAIN x : BearsMessage(es[pos[k]]) /\ x[k] = es[pos[k]].message
          /\ \A k, l \in DOMAIN x : k < l => pos[k] < pos[l]
          /\ \A i \in 1 .. 0 : BearsMessage(es[i]) => \E k \in DOMAIN x : pos[k] = i
      BY <2>3
    <3> QED
      BY <2>3, <3>1, Zenon DEF Extraction
  <2> QED
    BY <1>1, <2>1, <2>4 DEF x
<1>5. ASSUME NEW n \in 0 .. Len(es), n # Len(es), n \in S PROVE n + 1 \in S
  <2>1. n \in Nat /\ n + 1 \in 1 .. Len(es) /\ n + 1 \in 0 .. Len(es) /\ n + 1 # 0
        /\ (n + 1) - 1 = n
    <3>1. Len(es) \in Nat /\ n \in 0 .. Len(es) /\ n # Len(es)
      BY <1>5
    <3> QED
      BY <3>1
  <2>2. Extraction(g[n], es, 1 .. n)
    BY <1>5
  <2>3. g[n + 1] = IF BearsMessage(es[n + 1]) THEN Append(g[n], es[n + 1].message) ELSE g[n]
    BY <1>3, <2>1 DEF ExtractStep
  <2> DEFINE x == g[n]
             y == g[n + 1]
  <2>4. PICK pos \in [DOMAIN x -> 1 .. n] :
          /\ \A k \in DOMAIN x : BearsMessage(es[pos[k]]) /\ x[k] = es[pos[k]].message
          /\ \A k, l \in DOMAIN x : k < l => pos[k] < pos[l]
          /\ \A i \in 1 .. n : BearsMessage(es[i]) => \E k \in DOMAIN x : pos[k] = i
    BY <2>2 DEF Extraction
  <2>5. x \in Seq(Message)
    BY <2>2 DEF Extraction
  <2> HIDE DEF x, y
  <2>6. CASE ~BearsMessage(es[n + 1])
    <3>1. y = x
      BY <2>3, <2>6 DEF x, y
    <3>2. pos \in [DOMAIN x -> 1 .. n + 1]
      BY <2>1
    <3>3. \A i \in 1 .. n + 1 : BearsMessage(es[i]) => \E k \in DOMAIN x : pos[k] = i
      BY <2>1, <2>4, <2>6
    <3>4. Extraction(x, es, 1 .. n + 1)
      BY <2>4, <2>5, <3>2, <3>3 DEF Extraction
    <3> QED
      BY <2>1, <3>1, <3>4 DEF y
  <2>7. CASE BearsMessage(es[n + 1])
    <3> DEFINE m == es[n + 1].message
               N == Len(x)
    <3>1. y = Append(x, m) /\ m \in Message
      <4>1. m \in Message
        BY <1>1, <2>1, <2>7 DEF BearsMessage, Entry
      <4> QED
        BY <2>3, <2>7, <4>1 DEF x, y
    <3>2. /\ N \in Nat /\ DOMAIN x = 1 .. N /\ DOMAIN y = 1 .. N + 1 /\ y \in Seq(Message)
          /\ y[N + 1] = m /\ \A k \in 1 .. N : y[k] = x[k]
      BY <2>5, <3>1
    <3> DEFINE new == [k \in 1 .. N + 1 |-> IF k = N + 1 THEN n + 1 ELSE pos[k]]
    <3>3. /\ new \in [DOMAIN y -> 1 .. n + 1] /\ new[N + 1] = n + 1
          /\ \A k \in 1 .. N : new[k] = pos[k] /\ pos[k] \in 1 .. n
      BY <2>1, <3>2
    <3> HIDE DEF m, N, new
    <3>4. \A k \in DOMAIN y : BearsMessage(es[new[k]]) /\ y[k] = es[new[k]].message
      BY <2>4, <2>7, <3>2, <3>3 DEF m
    <3>5. \A k, l \in DOMAIN y : k < l => new[k] < new[l]
      <4> SUFFICES ASSUME NEW k \in 1 .. N, NEW l \in 1 .. N + 1, k < l, k # N + 1
                   PROVE  new[k] < new[l]
        BY <3>2
      <4>1. CASE l \in 1 .. N
        BY <2>4, <3>2, <3>3, <4>1
      <4>2. CASE l = N + 1
        BY <2>1, <3>3, <4>2
      <4> QED
        BY <3>2, <4>1, <4>2
    <3>6. \A i \in 1 .. n + 1 : BearsMessage(es[i]) => \E k \in DOMAIN y : new[k] = i
      <4> SUFFICES ASSUME NEW i \in 1 .. n + 1, BearsMessage(es[i])
                   PROVE  \E k \in DOMAIN y : new[k] = i
        OBVIOUS
      <4>1. CASE i = n + 1
        <5>1. N + 1 \in DOMAIN y
          BY <3>2
        <5> QED
          BY <3>3, <4>1, <5>1
      <4>2. CASE i \in 1 .. n
        <5>1. PICK k \in DOMAIN x : pos[k] = i
          BY <2>4, <4>2
        <5>2. k \in 1 .. N /\ k \in DOMAIN y
          BY <3>2
        <5> QED
          BY <3>3, <5>1, <5>2
      <4> QED
        BY <2>1, <4>1, <4>2
    <3>7. Extraction(y, es, 1 .. n + 1)
      BY <3>2, <3>3, <3>4, <3>5, <3>6 DEF Extraction
    <3> QED
      BY <2>1, <3>7 DEF y
  <2> QED
    BY <2>6, <2>7
<1> HIDE DEF S
<1>6. Len(es) \in S
  <2>1. Len(es) \in Nat /\ Len(es) \in 0 .. Len(es)
    OBVIOUS
  <2>2. \A i \in 0 .. Len(es) : i # Len(es) /\ i \in S => i + 1 \in S
    BY <1>5
  <2> QED
    BY <1>4, <2>1, <2>2, BoundedInduction
<1> QED
  BY <1>2, <1>6 DEF S
\* The messages of a part of the log.
LEMMA ExtractPart ==
  ASSUME NEW es \in Seq(Entry), NEW a \in Nat, a # 0, NEW b \in 0 .. Len(es)
  PROVE  Extraction(ExtractMessages(SubSeq(es, a, b)), es, a .. b)
<1> DEFINE ss == SubSeq(es, a, b)
           x  == ExtractMessages(ss)
<1>1. a \in Int /\ b \in Int /\ b \in Nat /\ a \in Nat /\ Len(es) \in Nat
  OBVIOUS
<1>2. \A i \in a .. b : i \in 1 .. Len(es) /\ es[i] \in Entry
  OBVIOUS
<1>3. /\ ss \in Seq(Entry)
      /\ Len(ss) = IF a <= b THEN b - a + 1 ELSE 0
      /\ \A i \in 1 .. b - a + 1 : ss[i] = es[a + i - 1]
  BY <1>1, <1>2, SubSeqProperties
<1> HIDE DEF ss
<1>4. \A i \in 1 .. Len(ss) : a + i - 1 \in a .. b /\ ss[i] = es[a + i - 1]
  BY <1>1, <1>3
<1>5. Extraction(x, ss, 1 .. Len(ss))
  BY <1>3, ExtractShape
<1> HIDE DEF x
<1>6. PICK pos \in [DOMAIN x -> 1 .. Len(ss)] :
        /\ \A k \in DOMAIN x : BearsMessage(ss[pos[k]]) /\ x[k] = ss[pos[k]].message
        /\ \A k, l \in DOMAIN x : k < l => pos[k] < pos[l]
        /\ \A i \in 1 .. Len(ss) : BearsMessage(ss[i]) => \E k \in DOMAIN x : pos[k] = i
  BY <1>5 DEF Extraction
<1> DEFINE new == [k \in DOMAIN x |-> a + pos[k] - 1]
<1>7. \A k \in DOMAIN x : pos[k] \in 1 .. Len(ss) /\ new[k] = a + pos[k] - 1
  OBVIOUS
<1>8. new \in [DOMAIN x -> a .. b]
  BY <1>4, <1>7
<1> HIDE DEF new
<1>9. \A k \in DOMAIN x : BearsMessage(es[new[k]]) /\ x[k] = es[new[k]].message
  BY <1>4, <1>6, <1>7
<1>10. \A k, l \in DOMAIN x : k < l => new[k] < new[l]
  <2>1. Len(ss) \in Nat
    BY <1>3
  <2> QED
    BY <1>1, <1>6, <1>7, <2>1
<1>11. ASSUME NEW i \in a .. b, BearsMessage(es[i]) PROVE \E k \in DOMAIN x : new[k] = i
  <2> DEFINE j == i - a + 1
  <2>1. j \in 1 .. Len(ss) /\ a + j - 1 = i
    BY <1>1, <1>3
  <2> HIDE DEF j
  <2>2. ss[j] = es[i]
    BY <1>4, <2>1
  <2>3. PICK k \in DOMAIN x : pos[k] = j
    BY <1>6, <1>11, <2>1, <2>2
  <2> QED
    BY <1>7, <2>1, <2>3
<1>12. x \in Seq(Message)
  BY <1>5 DEF Extraction
<1>13. Extraction(x, es, a .. b)
  BY <1>8, <1>9, <1>10, <1>11, <1>12 DEF Extraction
<1> QED
  BY <1>13 DEF x, ss

\* Two parts of the log, one after the other.
LEMMA ExtractionsJoin ==
  ASSUME NEW es, NEW I \in SUBSET Nat, NEW J \in SUBSET Nat, \A i \in I, j \in J : i < j,
         NEW x, Extraction(x, es, I), NEW y, Extraction(y, es, J)
  PROVE  Extraction(x \o y, es, I \cup J)
<1> DEFINE z == x \o y
           M == Len(x)
           N == Len(y)
<1>1. x \in Seq(Message) /\ y \in Seq(Message)
  BY DEF Extraction
<1>2. /\ z = x \o y /\ z \in Seq(Message) /\ M \in Nat /\ N \in Nat
      /\ DOMAIN x = 1 .. M /\ DOMAIN y = 1 .. N /\ DOMAIN z = 1 .. M + N
      /\ \A k \in 1 .. M : z[k] = x[k]
      /\ \A k \in 1 .. N : z[M + k] = y[k]
  BY <1>1
<1> HIDE DEF z, M, N
<1>3. PICK px \in [DOMAIN x -> I] :
        /\ \A k \in DOMAIN x : BearsMessage(es[px[k]]) /\ x[k] = es[px[k]].message
        /\ \A k, l \in DOMAIN x : k < l => px[k] < px[l]
        /\ \A i \in I : BearsMessage(es[i]) => \E k \in DOMAIN x : px[k] = i
  BY DEF Extraction
<1>4. PICK py \in [DOMAIN y -> J] :
        /\ \A k \in DOMAIN y : BearsMessage(es[py[k]]) /\ y[k] = es[py[k]].message
        /\ \A k, l \in DOMAIN y : k < l => py[k] < py[l]
        /\ \A i \in J : BearsMessage(es[i]) => \E k \in DOMAIN y : py[k] = i
  BY DEF Extraction
<1> DEFINE pz == [k \in 1 .. M + N |-> IF k <= M THEN px[k] ELSE py[k - M]]
<1>5. \A k \in 1 .. M : px[k] \in I
  BY <1>2
<1>6. \A k \in 1 .. N : py[k] \in J
  BY <1>2
<1>7. \A k \in 1 .. M + N : k <= M => k \in 1 .. M /\ pz[k] = px[k] /\ z[k] = x[k]
  BY <1>2
<1>8. \A k \in 1 .. M + N : ~(k <= M) => k - M \in 1 .. N /\ pz[k] = py[k - M] /\ z[k] = y[k - M]
  <2> SUFFICES ASSUME NEW k \in 1 .. M + N, ~(k <= M)
               PROVE  k - M \in 1 .. N /\ pz[k] = py[k - M] /\ z[k] = y[k - M]
    OBVIOUS
  <2>1. k - M \in 1 .. N /\ M + (k - M) = k
    BY <1>2
  <2> QED
    BY <1>2, <2>1
<1>9. pz \in [1 .. M + N -> I \cup J]
  BY <1>5, <1>6, <1>7, <1>8
<1> HIDE DEF pz
<1>10. ASSUME NEW k \in 1 .. M + N PROVE BearsMessage(es[pz[k]]) /\ z[k] = es[pz[k]].message
  <2>1. CASE k <= M
    <3>1. k \in DOMAIN x /\ pz[k] = px[k] /\ z[k] = x[k]
      BY <1>2, <1>7, <2>1
    <3> QED
      BY <1>3, <3>1
  <2>2. CASE ~(k <= M)
    <3>1. k - M \in DOMAIN y /\ pz[k] = py[k - M] /\ z[k] = y[k - M]
      BY <1>2, <1>8, <2>2
    <3> QED
      BY <1>4, <3>1
  <2> QED
    BY <2>1, <2>2
<1>11. ASSUME NEW k \in 1 .. M + N, NEW l \in 1 .. M + N, k < l PROVE pz[k] < pz[l]
  <2>1. CASE l <= M
    <3>1. k \in DOMAIN x /\ l \in DOMAIN x /\ pz[k] = px[k] /\ pz[l] = px[l]
      BY <1>2, <1>7, <1>11, <2>1
    <3> QED
      BY <1>3, <1>11, <3>1
  <2>2. CASE k <= M /\ ~(l <= M)
    BY <1>5, <1>6, <1>7, <1>8, <2>2
  <2>3. CASE ~(k <= M)
    <3>1. ~(l <= M) /\ k - M < l - M
      BY <1>2, <1>11, <2>3
    <3>2. k - M \in DOMAIN y /\ l - M \in DOMAIN y /\ pz[k] = py[k - M] /\ pz[l] = py[l - M]
      BY <1>2, <1>8, <2>3, <3>1
    <3> QED
      BY <1>4, <3>1, <3>2
  <2>4. k <= M \/ ~(k <= M)
    OBVIOUS
  <2> QED
    BY <2>1, <2>2, <2>3, <2>4
<1>12. ASSUME NEW i \in I \cup J, BearsMessage(es[i]) PROVE \E k \in 1 .. M + N : pz[k] = i
  <2>1. CASE i \in I
    <3>1. PICK k \in 1 .. M : px[k] = i
      BY <1>2, <1>3, <1>12, <2>1
    <3>2. k \in 1 .. M + N /\ k <= M
      BY <1>2
    <3> QED
      BY <1>7, <3>1, <3>2
  <2>2. CASE i \in J
    <3>1. PICK k \in 1 .. N : py[k] = i
      BY <1>2, <1>4, <1>12, <2>2
    <3>2. M + k \in 1 .. M + N /\ ~(M + k <= M) /\ (M + k) - M = k
      BY <1>2
    <3> QED
      BY <1>8, <3>1, <3>2
  <2> QED
    BY <2>1, <2>2
<1>13. Extraction(z, es, I \cup J)
  <2>1. pz \in [DOMAIN z -> I \cup J]
    BY <1>2, <1>9
  <2>2. /\ \A k \in DOMAIN z : BearsMessage(es[pz[k]]) /\ z[k] = es[pz[k]].message
        /\ \A k, l \in DOMAIN z : k < l => pz[k] < pz[l]
        /\ \A i \in I \cup J : BearsMessage(es[i]) => \E k \in DOMAIN z : pz[k] = i
    BY <1>2, <1>10, <1>11, <1>12
  <2>3. z \in Seq(Message)
    BY <1>2
  <2> QED
    BY <2>1, <2>2, <2>3, Zenon DEF Extraction
<1> QED
  BY <1>2, <1>13
\* The position of the latest compaction, 0 if there is none, and the positions
\* whose messages the context holds.
LatestCompaction(es) == SelectLastInSeq(es, IsCompaction)

KeptBefore(es) ==
  LET last == LatestCompaction(es)
  IN  IF last = 0 \/ es[last].firstKept = NoEntry THEN {} ELSE es[last].firstKept .. last - 1
ContextPositions(es) == KeptBefore(es) \cup (LatestCompaction(es) + 1 .. Len(es))

LEMMA LatestCompactionType ==
  ASSUME NEW es \in Seq(Entry)
  PROVE  /\ LatestCompaction(es) \in 0 .. Len(es)
         /\ LatestCompaction(es) # 0 => es[LatestCompaction(es)].firstKept \in Nat
         /\ KeptBefore(es) \subseteq 1 .. LatestCompaction(es) - 1
         /\ ContextPositions(es) \subseteq 1 .. Len(es)
<1> DEFINE I == {i \in 1 .. Len(es) : IsCompaction(es[i])}
<1>1. Len(es) \in Nat /\ I \in SUBSET (1 .. Len(es))
  OBVIOUS
<1>2. LatestCompaction(es) = IF I = {} THEN 0 ELSE Max(I)
  BY DEF LatestCompaction, SelectLastInSeq
<1>3. I # {} => Max(I) \in I
  BY <1>1, MaxExists
<1>4. \A i \in I : es[i].firstKept \in Nat
  <2> SUFFICES ASSUME NEW i \in I PROVE es[i].firstKept \in Nat
    OBVIOUS
  <2>1. es[i] \in Entry /\ es[i].type = "compaction"
    BY DEF IsCompaction
  <2> QED
    BY <2>1 DEF Entry
<1>5. /\ LatestCompaction(es) \in 0 .. Len(es)
      /\ LatestCompaction(es) # 0 => es[LatestCompaction(es)].firstKept \in Nat
  <2>1. 0 \in 0 .. Len(es) /\ \A i \in 1 .. Len(es) : i \in 0 .. Len(es)
    BY <1>1
  <2> HIDE DEF I
  <2> QED
    BY <1>1, <1>2, <1>3, <1>4, <2>1
<1> QED
  BY <1>1, <1>5 DEF KeptBefore, NoEntry, ContextPositions

\* The context: a summary or none, then the messages of the kept entries.
LEMMA ContextShape ==
  ASSUME NEW es \in Seq(Entry)
  PROVE  \E head \in {<<>>, <<Summary>>} : \E x :
           /\ ContextMessages(es) = head \o x
           /\ Extraction(x, es, ContextPositions(es))
<1> DEFINE last == LatestCompaction(es)
           rest == ExtractMessages(SubSeq(es, last + 1, Len(es)))
           head == IF es[last].summary THEN <<Summary>> ELSE <<>>
<1>1. /\ last \in 0 .. Len(es) /\ Len(es) \in Nat
      /\ last # 0 => es[last].firstKept \in Nat
  BY LatestCompactionType
<1>2. ContextMessages(es) =
        IF last = 0 THEN ExtractMessages(es)
        ELSE head \o (IF es[last].firstKept = NoEntry THEN <<>>
                      ELSE ExtractMessages(SubSeq(es, es[last].firstKept, last - 1))) \o rest
  BY DEF ContextMessages, LatestCompaction
<1>3. Extraction(rest, es, last + 1 .. Len(es))
  <2>1. last + 1 \in Nat /\ last + 1 # 0 /\ Len(es) \in 0 .. Len(es)
    BY <1>1
  <2> HIDE DEF last
  <2> QED
    BY <2>1, ExtractPart
<1>4. Extraction(ExtractMessages(es), es, 1 .. Len(es))
  BY ExtractShape
<1> HIDE DEF rest, head, last
<1>5. CASE last = 0
  <2>1. ExtractMessages(es) \in Seq(Message) /\ ContextMessages(es) = ExtractMessages(es)
    BY <1>2, <1>4, <1>5 DEF Extraction
  <2>2. ContextPositions(es) = 1 .. Len(es)
    BY <1>5 DEF ContextPositions, KeptBefore, last
  <2>3. <<>> \o ExtractMessages(es) = ExtractMessages(es)
    BY <2>1
  <2> QED
    BY <1>4, <2>1, <2>2, <2>3
<1>6. CASE last # 0 /\ es[last].firstKept = NoEntry
  <2>1. rest \in Seq(Message) /\ head \in {<<>>, <<Summary>>} /\ ContextMessages(es) = head \o <<>> \o rest
    BY <1>2, <1>3, <1>6 DEF Extraction, head
  <2>2. ContextPositions(es) = last + 1 .. Len(es)
    BY <1>6 DEF ContextPositions, KeptBefore, last
  <2>3. head \o <<>> \o rest = head \o rest
    BY <2>1
  <2> QED
    BY <1>3, <2>1, <2>2, <2>3
<1>7. CASE last # 0 /\ es[last].firstKept # NoEntry
  <2> DEFINE first == es[last].firstKept
             kept == ExtractMessages(SubSeq(es, first, last - 1))
  <2>1. first \in Nat /\ first # 0 /\ last - 1 \in 0 .. Len(es)
    BY <1>1, <1>7 DEF NoEntry
  <2>2. ContextMessages(es) = head \o kept \o rest
    BY <1>2, <1>7
  <2>3. ContextPositions(es) = (first .. last - 1) \cup (last + 1 .. Len(es))
    BY <1>7 DEF ContextPositions, KeptBefore, last
  <2> HIDE DEF first
  <2>4. Extraction(kept, es, first .. last - 1)
    BY <2>1, ExtractPart
  <2> HIDE DEF kept
  <2>5. Extraction(kept \o rest, es, (first .. last - 1) \cup (last + 1 .. Len(es)))
    <3>1. \A i \in first .. last - 1, j \in last + 1 .. Len(es) : i < j
      BY <1>1, <2>1
    <3>2. first .. last - 1 \in SUBSET Nat /\ last + 1 .. Len(es) \in SUBSET Nat
      BY <1>1, <2>1
    <3> QED
      BY <1>3, <2>4, <3>1, <3>2, ExtractionsJoin
  <2>6. kept \in Seq(Message) /\ rest \in Seq(Message) /\ head \in {<<>>, <<Summary>>}
    BY <1>3, <2>4 DEF Extraction, head
  <2>7. head \o kept \o rest = head \o (kept \o rest)
    BY <2>6, ConcatAssociative DEF Message, Summary
  <2> QED
    BY <2>2, <2>3, <2>5, <2>6, <2>7
<1> QED
  BY <1>5, <1>6, <1>7

\* An entry that is no compaction joins the context; it moves nothing.
LEMMA ContextPositionsAppend ==
  ASSUME NEW es \in Seq(Entry), NEW e \in Entry, ~IsCompaction(e)
  PROVE  ContextPositions(Append(es, e)) = ContextPositions(es) \cup {Len(es) + 1}
<1> DEFINE I(s) == {i \in 1 .. Len(s) : IsCompaction(s[i])}
           fs   == Append(es, e)
           last == LatestCompaction(es)
<1>1. /\ Len(es) \in Nat /\ Len(fs) = Len(es) + 1 /\ fs[Len(fs)] = e
      /\ \A i \in 1 .. Len(es) : fs[i] = es[i]
  OBVIOUS
<1>2. I(fs) = I(es)
  BY <1>1
<1>3. LatestCompaction(fs) = last
  BY <1>2 DEF LatestCompaction, SelectLastInSeq
<1>4. last \in 0 .. Len(es)
  BY LatestCompactionType
<1> HIDE DEF last
<1>5. last # 0 => fs[last] = es[last]
  BY <1>1, <1>4
<1>6. KeptBefore(fs) = KeptBefore(es)
  BY <1>3, <1>5 DEF KeptBefore, last
<1>7. last + 1 .. Len(fs) = (last + 1 .. Len(es)) \cup {Len(es) + 1}
  BY <1>1, <1>4
<1> QED
  BY <1>3, <1>6, <1>7 DEF ContextPositions, last
-----------------------------------------------------------------------------
(* The session's model and level *)

\* The message a run starts from is a message once there is one.
InputOK == run.phase = "started" => run.input \in Message

Inv == StateTypeOK /\ InputOK /\ CreationSync /\ MetadataSync

\* A step that leaves the session's place, its model and its level alone and
\* appends at most an entry that carries neither.
LogQuiet ==
  /\ session' = session
  /\ agent'.model = agent.model /\ agent'.level = agent.level
  /\ \/ entries' = entries
     \/ \E e \in Entry : ~IsLevelChange(e) /\ entries' = Append(entries, e)
  /\ modelCalls' \subseteq modelCalls \/ Up

\* Such a step keeps the log and the agent in agreement.
LEMMA QuietStep ==
  ASSUME Inv, LogQuiet
  PROVE  /\ entries' \in Seq(Entry)
         /\ CreationSync'
         /\ MetadataSync'
<1>1. entries \in Seq(Entry)
  BY DEF Inv, StateTypeOK
<1>2. /\ entries' \in Seq(Entry)
      /\ ContextModel(entries') = ContextModel(entries)
      /\ ContextLevel(entries') = ContextLevel(entries)
  BY <1>1, AppendOther DEF LogQuiet
<1>3. CreationSync'
  BY <1>2 DEF Inv, LogQuiet, CreationSync, Up
<1>4. MetadataSync'
  BY <1>2 DEF Inv, LogQuiet, MetadataSync, Up
<1> QED
  BY <1>2, <1>3, <1>4

\* The two kinds of entries that bear a message, and those that bear nothing.
LEMMA QuietEntries ==
  /\ \A m \in Message : MessageEntry(m) \in Entry /\ ~IsLevelChange(MessageEntry(m))
  /\ \A m \in Message : CustomMessageEntry(m) \in Entry /\ ~IsLevelChange(CustomMessageEntry(m))
  /\ \A t \in {"customEntry", "label"} : BareEntry(t) \in Entry /\ ~IsLevelChange(BareEntry(t))
  /\ \A s \in BOOLEAN, k \in Nat :
       CompactionEntry(s, k) \in Entry /\ ~IsLevelChange(CompactionEntry(s, k))
  BY DEF MessageEntry, CustomMessageEntry, BareEntry, CompactionEntry, Entry, IsLevelChange

LEMMA InitInv == Init => Inv
<1> SUFFICES ASSUME Init PROVE Inv
  OBVIOUS
<1>1. StateTypeOK
  BY LevelsAssumption, MaxCallsAssumption
  DEF Init, StateTypeOK, NoSession, NewAgent, SystemPrompt, IdleRun, NoMessage, NoPrompt
<1>2. InputOK /\ CreationSync /\ MetadataSync
  BY DEF Init, InputOK, CreationSync, MetadataSync, NoSession, IdleRun, Up
<1> QED
  BY <1>1, <1>2 DEF Inv

\* The record types StateTypeOK gives the agent and its run, for the steps that
\* change them.
AgentType == [model : Models \cup {NoModel}, level : Levels,
              prompt : [tools : SUBSET Tools, overridden : BOOLEAN],
              steering : Seq(Message), followUps : Seq(Message)]
RunType == [phase : {"idle", "started", "tools", "turn", "stopping", "ending"},
            input : Message \cup {NoMessage},
            outcome : {"none", "stop", "aborted", "error"}, aborted : BOOLEAN]
PromptsType == [Prompts -> [at : {"unused", "command", "handlers", "running", "over"}, base : SUBSET Tools]]

LEMMA TypesOfState ==
  ASSUME StateTypeOK
  PROVE  /\ entries \in Seq(Entry) /\ agent \in AgentType /\ run \in RunType
         /\ prompts \in PromptsType /\ calls \in 0 .. MaxCalls /\ clock \in Nat
  BY DEF StateTypeOK, AgentType, RunType, PromptsType

-----------------------------------------------------------------------------
\* The steps that create a session.
LEMMA CreateSessionInv == Inv /\ CreateSession => Inv'
<1> SUFFICES ASSUME Inv, CreateSession PROVE Inv'
  OBVIOUS
<1> USE DEF Inv
<1>1. /\ entries \in Seq(Entry) /\ modelCalls = {}
      /\ ContextModel(entries) \in Models \cup {NoModel} /\ ContextLevel(entries) \in Levels
  BY ContextTypes DEF StateTypeOK, CreationSync, CreateSession, Up
<1>2. PICK optModel \in Models \cup {NoModel}, optLevel \in Levels \cup {NoLevel}, usable \in BOOLEAN :
        session' = [phase |-> "resolved",
                    model |-> Resolve(optModel, optLevel, usable).model,
                    level |-> Resolve(optModel, optLevel, usable).level,
                    ctx |-> [model |-> ContextModel(entries), level |-> ContextLevel(entries)]]
  BY DEF CreateSession
<1>3. /\ Resolve(optModel, optLevel, usable).model \in Models \cup {NoModel}
      /\ Resolve(optModel, optLevel, usable).level \in Levels
  BY <1>1, LevelsAssumption DEF Resolve
<1>4. StateTypeOK'
  BY <1>1, <1>2, <1>3 DEF StateTypeOK, CreateSession, convVars, toolVars
<1>5. InputOK' /\ CreationSync' /\ MetadataSync'
  BY <1>1, <1>2 DEF InputOK, CreationSync, MetadataSync, CreateSession, convVars, Up
<1> QED
  BY <1>4, <1>5

LEMMA PersistModelInv == Inv /\ PersistModel => Inv'
<1> SUFFICES ASSUME Inv, PersistModel PROVE Inv'
  OBVIOUS
<1> USE DEF Inv
<1>1. /\ entries \in Seq(Entry) /\ session.model \in Models \cup {NoModel} /\ session.level \in Levels
      /\ session.ctx.model = ContextModel(entries) /\ session.ctx.level = ContextLevel(entries)
      /\ modelCalls = {}
  BY DEF StateTypeOK, CreationSync, PersistModel, Up
<1>2. session' = [session EXCEPT !.phase = "modelPersisted"] /\ modelCalls' = modelCalls
  BY DEF PersistModel
<1>3. /\ entries' \in Seq(Entry)
      /\ session.model # NoModel => ContextModel(entries') = session.model
      /\ session.level = session.ctx.level => ContextLevel(entries') = session.level
  <2>1. CASE session.model \in {NoModel, session.ctx.model}
    BY <1>1, <2>1 DEF PersistModel, ModelChanged
  <2>2. CASE session.model \notin {NoModel, session.ctx.model}
    <3>1. /\ session.model \in Models
          /\ entries' = Append(entries, ModelChangeEntry(session.model, session.level))
      BY <1>1, <2>2 DEF PersistModel, ModelChanged, Persist
    <3> QED
      BY <1>1, <3>1, AppendModelChange
  <2> QED
    BY <2>1, <2>2
<1>4. UNCHANGED <<subscription, agent, registered, active, modelCalls, clock, calls, run, prompts,
                  compactions, rebuilt>>
  BY DEF PersistModel, convVars, toolVars
<1>5. StateTypeOK'
  BY <1>2, <1>3, <1>4, ZenonT(30) DEF StateTypeOK
<1>6. InputOK' /\ CreationSync' /\ MetadataSync'
  BY <1>1, <1>2, <1>3, <1>4 DEF StateTypeOK, InputOK, CreationSync, MetadataSync, PersistModel, Up
<1> QED
  BY <1>5, <1>6

LEMMA PersistLevelInv == Inv /\ PersistLevelAndConstruct => Inv'
<1> SUFFICES ASSUME Inv, PersistLevelAndConstruct PROVE Inv'
  OBVIOUS
<1> USE DEF Inv
<1>1. /\ entries \in Seq(Entry) /\ session.model \in Models \cup {NoModel} /\ session.level \in Levels
      /\ session.model # NoModel => ContextModel(entries) = session.model
      /\ session.level = session.ctx.level => ContextLevel(entries) = session.level
  BY DEF StateTypeOK, CreationSync, PersistLevelAndConstruct
<1>2. /\ entries' \in Seq(Entry)
      /\ session.model # NoModel => ContextModel(entries') = session.model
      /\ ContextLevel(entries') = session.level
  <2>1. CASE session.level = session.ctx.level
    BY <1>1, <2>1 DEF PersistLevelAndConstruct
  <2>2. CASE session.level # session.ctx.level
    BY <1>1, <2>2, AppendThinkingChange DEF PersistLevelAndConstruct, Persist
  <2> QED
    BY <2>1, <2>2
<1>3. /\ session' = [NoSession EXCEPT !.phase = "up"]
      /\ agent' = NewAgent(session.model, session.level)
      /\ registered' = {} /\ active' = {} /\ subscription' = "subscribed"
      /\ UNCHANGED <<modelCalls, clock, calls, run, prompts, compactions, rebuilt>>
  BY DEF PersistLevelAndConstruct, convVars
<1>4. StateTypeOK'
  <2>1. agent' \in AgentType
    BY <1>1, <1>3 DEF AgentType, NewAgent, SystemPrompt
  <2> QED
    BY <1>2, <1>3, <2>1, LevelsAssumption DEF StateTypeOK, AgentType, NoSession
<1>5. InputOK' /\ CreationSync' /\ MetadataSync'
  BY <1>2, <1>3 DEF InputOK, CreationSync, MetadataSync, NoSession, NewAgent, Up
<1> QED
  BY <1>4, <1>5

LEMMA CrashInv == Inv /\ Crash => Inv'
<1> SUFFICES ASSUME Inv, Crash PROVE Inv'
  OBVIOUS
<1> USE DEF Inv
<1>1. StateTypeOK'
  <2>1. agent' \in AgentType
    BY LevelsAssumption DEF Crash, AgentType, NewAgent, SystemPrompt
  <2>2. run' \in RunType
    BY DEF Crash, RunType, IdleRun, NoMessage
  <2>3. prompts' \in PromptsType
    BY DEF Crash, PromptsType, NoPrompt
  <2>4. compactions' \in [Compactions -> {"unused", "handlers", "recorded", "rebuilt", "over"}]
    BY DEF Crash
  <2>5. calls' \in 0 .. MaxCalls
    BY MaxCallsAssumption DEF Crash, StateTypeOK
  <2>6. /\ session' = NoSession /\ subscription' = "none" /\ registered' = {} /\ active' = {}
        /\ modelCalls' = {} /\ UNCHANGED <<entries, clock>>
    BY DEF Crash
  <2> QED
    BY <2>1, <2>2, <2>3, <2>4, <2>5, <2>6, LevelsAssumption
    DEF StateTypeOK, AgentType, RunType, PromptsType, NoSession
<1>2. InputOK' /\ CreationSync' /\ MetadataSync'
  BY DEF InputOK, CreationSync, MetadataSync, Crash, NoSession, IdleRun, Up
<1> QED
  BY <1>1, <1>2

-----------------------------------------------------------------------------
\* The prompt() calls and the agent's loop never touch model or level.
LEMMA PromptCallQuiet == ASSUME Inv, NEW p \in Prompts, PromptCall(p)
                         PROVE  StateTypeOK' /\ InputOK' /\ LogQuiet
<1>1. StateTypeOK /\ InputOK /\ prompts \in PromptsType /\ active \in SUBSET Tools
  BY TypesOfState DEF Inv, StateTypeOK
<1>2. prompts' \in PromptsType
  BY <1>1 DEF PromptCall, AwaitsHandlers, NoPrompt, PromptsType
<1> QED
  BY <1>1, <1>2, MaxCallsAssumption
  DEF StateTypeOK, InputOK, LogQuiet, PromptsType, PromptCall, Call, toolVars

LEMMA PromptAnswersQuiet == ASSUME Inv, NEW p \in Prompts, CommandAnswers(p) \/ PromptFails(p)
                            PROVE  StateTypeOK' /\ InputOK' /\ LogQuiet
<1>1. StateTypeOK /\ InputOK /\ prompts \in PromptsType /\ active \in SUBSET Tools
  BY TypesOfState DEF Inv, StateTypeOK
<1>2. prompts' \in PromptsType
  BY <1>1 DEF CommandAnswers, PromptFails, AwaitsHandlers, NoPrompt, PromptsType
<1> QED
  BY <1>1, <1>2
  DEF StateTypeOK, InputOK, LogQuiet, PromptsType, CommandAnswers, PromptFails, toolVars

LEMMA PromptSendQuiet == ASSUME Inv, NEW p \in Prompts, PromptSend(p)
                         PROVE  StateTypeOK' /\ InputOK' /\ LogQuiet
<1> USE DEF Inv, StateTypeOK
<1>1. PICK overridden, inject \in BOOLEAN :
        LET accepted == ~Streaming /\ agent.model # NoModel
            used     == IF inject THEN 1 ELSE 0
        IN  /\ agent' = [agent EXCEPT !.prompt = SystemPrompt(prompts[p].base, overridden)]
            /\ IF accepted
                 THEN /\ run' = [IdleRun EXCEPT !.phase = "started",
                                                !.input = [role |-> "user", n |-> clock + used + 1]]
                      /\ clock' = clock + used + 1
                 ELSE clock' = clock + used /\ run' = run
            /\ prompts' = [prompts EXCEPT ![p].at = IF accepted THEN "running" ELSE "over"]
  BY DEF PromptSend
<1>2. clock' \in Nat /\ \A k \in {0, 1} : [role |-> "user", n |-> clock + k + 1] \in Message
  BY <1>1 DEF Message
<1>3. agent' \in [model : Models \cup {NoModel}, level : Levels,
                 prompt : [tools : SUBSET Tools, overridden : BOOLEAN],
                 steering : Seq(Message), followUps : Seq(Message)]
      /\ agent'.model = agent.model /\ agent'.level = agent.level
  BY <1>1 DEF SystemPrompt
<1>4. run' \in [phase : {"idle", "started", "tools", "turn", "stopping", "ending"},
               input : Message \cup {NoMessage},
               outcome : {"none", "stop", "aborted", "error"}, aborted : BOOLEAN]
      /\ InputOK'
  <2> DEFINE Input(k) == [role |-> "user", n |-> clock + k + 1]
             Started(k) == [phase |-> "started", input |-> Input(k), outcome |-> "none",
                            aborted |-> FALSE]
  <2>1. run' = run \/ \E k \in {0, 1} : run' = Started(k)
    BY <1>1 DEF IdleRun
  <2>2. \A k \in {0, 1} : Input(k) \in Message
    BY <1>2
  <2> HIDE DEF Input
  <2>3. CASE run' = run
    BY <2>3 DEF InputOK
  <2>4. ASSUME NEW k \in {0, 1}, run' = Started(k)
        PROVE  /\ run' \in [phase : {"idle", "started", "tools", "turn", "stopping", "ending"},
                            input : Message \cup {NoMessage},
                            outcome : {"none", "stop", "aborted", "error"}, aborted : BOOLEAN]
               /\ run'.input \in Message
    <3>1. Input(k) \in Message
      BY <2>2
    <3> QED
      BY <2>4, <3>1
  <2> QED
    BY <2>1, <2>3, <2>4 DEF InputOK
<1>5. prompts' \in [Prompts -> [at : {"unused", "command", "handlers", "running", "over"}, base : SUBSET Tools]]
  BY <1>1
<1> QED
  BY <1>2, <1>3, <1>4, <1>5 DEF PromptSend, LogQuiet, toolVars

\* What is left of StateTypeOK for a step of the agent, which leaves the session,
\* its tools and its other calls alone.
LEMMA TypesAfterAgentStep ==
  ASSUME StateTypeOK, AgentStep,
         entries' \in Seq(Entry), agent' \in AgentType, run' \in RunType,
         prompts' \in PromptsType, calls' \in 0 .. MaxCalls, clock' \in Nat
  PROVE  StateTypeOK'
  BY DEF StateTypeOK, AgentType, RunType, PromptsType, AgentStep, toolVars

\* A message_end appends at most one entry, and one that bears a message.
LEMMA MessageEndQuiet ==
  ASSUME entries \in Seq(Entry), NEW m \in Message, NEW q, MessageEnd(m, q)
  PROVE  /\ agent' = q
         /\ entries' \in Seq(Entry)
         /\ entries' = entries \/ \E e \in Entry : ~IsLevelChange(e) /\ entries' = Append(entries, e)
<1>1. entries' \in {entries, Append(entries, MessageEntry(m))}
  BY DEF MessageEnd, Persist
<1>2. MessageEntry(m) \in Entry /\ ~IsLevelChange(MessageEntry(m))
  BY QuietEntries
<1> QED
  BY <1>1, <1>2 DEF MessageEnd

LEMMA AgentLoopQuiet == Inv /\ AgentLoop => StateTypeOK' /\ InputOK' /\ LogQuiet
<1> SUFFICES ASSUME Inv, AgentLoop PROVE StateTypeOK' /\ InputOK' /\ LogQuiet
  OBVIOUS
<1>1. /\ StateTypeOK /\ entries \in Seq(Entry) /\ agent \in AgentType /\ run \in RunType
      /\ prompts \in PromptsType /\ calls \in 0 .. MaxCalls /\ clock \in Nat
      /\ run.phase = "started" => run.input \in Message
  BY TypesOfState DEF Inv, InputOK
<1>3. CASE RunInput
  <2>1. run' \in RunType /\ InputOK'
    BY <1>1, <1>3 DEF RunInput, RunType, InputOK
  <2>2. MessageEnd(run.input, agent) /\ run.input \in Message /\ AgentStep
        /\ prompts' = prompts /\ clock' = clock /\ calls' = calls
    BY <1>1, <1>3 DEF RunInput
  <2> QED
    BY <1>1, <2>1, <2>2, MessageEndQuiet, TypesAfterAgentStep DEF LogQuiet, AgentStep
<1>4. CASE RunReply
  <2>1. NewMessage("reply") \in Message /\ clock + 1 \in Nat
    BY <1>1 DEF NewMessage, Message
  <2>2. run' \in RunType /\ InputOK'
    BY <1>1, <1>4 DEF RunReply, RunType, InputOK
  <2>3. calls' \in 0 .. MaxCalls
    BY <1>1, <1>4, MaxCallsAssumption DEF RunReply
  <2>4. MessageEnd(NewMessage("reply"), agent) /\ AgentStep /\ clock' = clock + 1 /\ prompts' = prompts
    BY <1>4 DEF RunReply
  <2> QED
    BY <1>1, <2>1, <2>2, <2>3, <2>4, MessageEndQuiet, TypesAfterAgentStep DEF LogQuiet, AgentStep
<1>5. CASE RunTakesSteering
  <2>1. Head(agent.steering) \in Message /\ Tail(agent.steering) \in Seq(Message)
    BY <1>1, <1>5 DEF RunTakesSteering, AgentType
  <2>2. run' \in RunType /\ InputOK'
    BY <1>1, <1>5 DEF RunTakesSteering, RunType, InputOK
  <2>3. /\ MessageEnd(Head(agent.steering), [agent EXCEPT !.steering = Tail(@)]) /\ AgentStep
        /\ clock' = clock /\ prompts' = prompts /\ calls' = calls
    BY <1>5 DEF RunTakesSteering
  <2>4. agent' = [agent EXCEPT !.steering = Tail(@)] /\ entries' \in Seq(Entry)
        /\ (entries' = entries \/ \E e \in Entry : ~IsLevelChange(e) /\ entries' = Append(entries, e))
    BY <1>1, <2>1, <2>3, MessageEndQuiet
  <2>5. agent' \in AgentType /\ agent'.model = agent.model /\ agent'.level = agent.level
    BY <1>1, <2>1, <2>4 DEF AgentType
  <2> QED
    BY <1>1, <2>2, <2>3, <2>4, <2>5, TypesAfterAgentStep DEF LogQuiet, AgentStep
<1>6. CASE RunTakesFollowUp
  <2>1. Head(agent.followUps) \in Message /\ Tail(agent.followUps) \in Seq(Message)
    BY <1>1, <1>6 DEF RunTakesFollowUp, AgentType
  <2>2. run' \in RunType /\ InputOK'
    BY <1>1, <1>6 DEF RunTakesFollowUp, RunType, InputOK
  <2>3. /\ MessageEnd(Head(agent.followUps), [agent EXCEPT !.followUps = Tail(@)]) /\ AgentStep
        /\ clock' = clock /\ prompts' = prompts /\ calls' = calls
    BY <1>6 DEF RunTakesFollowUp
  <2>4. agent' = [agent EXCEPT !.followUps = Tail(@)] /\ entries' \in Seq(Entry)
        /\ (entries' = entries \/ \E e \in Entry : ~IsLevelChange(e) /\ entries' = Append(entries, e))
    BY <1>1, <2>1, <2>3, MessageEndQuiet
  <2>5. agent' \in AgentType /\ agent'.model = agent.model /\ agent'.level = agent.level
    BY <1>1, <2>1, <2>4 DEF AgentType
  <2> QED
    BY <1>1, <2>2, <2>3, <2>4, <2>5, TypesAfterAgentStep DEF LogQuiet, AgentStep
<1>7. CASE RunContinues \/ RunStops
  <2>1. run' \in RunType /\ InputOK'
    BY <1>1, <1>7 DEF RunContinues, RunStops, RunType, InputOK
  <2>2. AgentStep /\ UNCHANGED <<entries, agent, prompts, clock, calls>>
    BY <1>7 DEF RunContinues, RunStops
  <2> QED
    BY <1>1, <2>1, <2>2, TypesAfterAgentStep DEF LogQuiet, AgentStep
<1>8. CASE RunEnds
  <2>1. run' \in RunType /\ InputOK'
    BY <1>8 DEF RunEnds, IdleRun, NoMessage, RunType, InputOK
  <2>2. prompts' \in PromptsType
    BY <1>1, <1>8 DEF RunEnds, NoPrompt, PromptsType
  <2>3. AgentStep /\ UNCHANGED <<entries, agent, clock, calls>>
    BY <1>8 DEF RunEnds
  <2> QED
    BY <1>1, <2>1, <2>2, <2>3, TypesAfterAgentStep DEF LogQuiet, AgentStep
<1> QED
  BY <1>3, <1>4, <1>5, <1>6, <1>7, <1>8 DEF AgentLoop

-----------------------------------------------------------------------------
\* The calls that change neither model nor level.
LEMMA AbortQuiet == Inv /\ Abort => StateTypeOK' /\ InputOK' /\ LogQuiet
<1> SUFFICES ASSUME Inv, Abort PROVE StateTypeOK' /\ InputOK' /\ LogQuiet
  OBVIOUS
<1>1. StateTypeOK /\ InputOK /\ run \in RunType /\ calls \in 0 .. MaxCalls
  BY TypesOfState DEF Inv
<1>2. /\ run' = [run EXCEPT !.aborted = TRUE] /\ calls' \in 0 .. MaxCalls
      /\ UNCHANGED <<entries, session, subscription, agent, registered, active, prompts,
                     compactions, rebuilt, modelCalls, clock>>
  BY <1>1, MaxCallsAssumption DEF Abort, Call, toolVars
<1>3. run' \in RunType /\ InputOK'
  BY <1>1, <1>2 DEF RunType, InputOK
<1>4. StateTypeOK'
  BY <1>1, <1>2, <1>3 DEF StateTypeOK, RunType
<1> QED
  BY <1>2, <1>3, <1>4 DEF LogQuiet

\* Queueing a message changes neither the model nor the level.
LEMMA Enqueued ==
  ASSUME NEW a \in AgentType, NEW m \in Message, NEW queue \in {"steering", "followUps"}
  PROVE  LET b == [a EXCEPT ![queue] = Append(@, m)]
         IN  b \in AgentType /\ b.model = a.model /\ b.level = a.level
<1>1. Append(a.steering, m) \in Seq(Message) /\ Append(a.followUps, m) \in Seq(Message)
  BY DEF AgentType
<1>2. CASE queue = "steering"
  BY <1>1, <1>2 DEF AgentType
<1>3. CASE queue = "followUps"
  BY <1>1, <1>3 DEF AgentType
<1> QED
  BY <1>2, <1>3

LEMMA SendMessageQuiet ==
  ASSUME Inv, NEW queue \in {"none", "steering", "followUps"}, SendMessage(queue)
  PROVE  StateTypeOK' /\ InputOK' /\ LogQuiet
<1> DEFINE m == NewMessage("custom")
<1>1. /\ StateTypeOK /\ entries \in Seq(Entry) /\ agent \in AgentType /\ clock \in Nat
      /\ calls \in 0 .. MaxCalls
  BY TypesOfState DEF Inv
<1>2. m \in Message /\ clock + 1 \in Nat
  BY <1>1 DEF NewMessage, Message
<1>3. CustomMessageEntry(m) \in Entry /\ ~IsLevelChange(CustomMessageEntry(m))
  BY <1>2, QuietEntries
<1>4. entries' = Append(entries, CustomMessageEntry(m)) /\ clock' = clock + 1 /\ calls' \in 0 .. MaxCalls
  BY <1>1, MaxCallsAssumption DEF SendMessage, Persist, Call
<1> HIDE DEF m
<1>5. agent' \in AgentType /\ agent'.model = agent.model /\ agent'.level = agent.level
  <2>1. CASE queue = "none"
    BY <1>1, <2>1 DEF SendMessage
  <2>2. CASE queue # "none"
    <3>1. agent' = [agent EXCEPT ![queue] = Append(@, m)]
      BY <2>2 DEF SendMessage, m
    <3> QED
      BY <1>1, <1>2, <2>2, <3>1, Enqueued
  <2> QED
    BY <2>1, <2>2
<1>6. UNCHANGED <<session, subscription, registered, active, modelCalls, run, prompts, compactions, rebuilt>>
  BY DEF SendMessage, toolVars, convVars
<1>7. entries' \in Seq(Entry) /\ LogQuiet
  BY <1>1, <1>3, <1>4, <1>5, <1>6 DEF LogQuiet
<1>8. StateTypeOK'
  BY <1>1, <1>2, <1>4, <1>5, <1>6, <1>7 DEF StateTypeOK, AgentType
<1> QED
  BY <1>6, <1>7, <1>8 DEF Inv, InputOK

LEMMA QueueUserMessageQuiet ==
  ASSUME Inv, NEW queue \in {"steering", "followUps"}, QueueUserMessage(queue)
  PROVE  StateTypeOK' /\ InputOK' /\ LogQuiet
<1> DEFINE m == NewMessage("user")
<1>1. /\ StateTypeOK /\ agent \in AgentType /\ clock \in Nat /\ calls \in 0 .. MaxCalls
  BY TypesOfState DEF Inv
<1>2. m \in Message /\ clock' \in Nat /\ calls' \in 0 .. MaxCalls
  BY <1>1, MaxCallsAssumption DEF NewMessage, Message, QueueUserMessage, Call
<1> HIDE DEF m
<1>3. agent' \in AgentType /\ agent'.model = agent.model /\ agent'.level = agent.level
  <2>1. agent' = [agent EXCEPT ![queue] = Append(@, m)]
    BY DEF QueueUserMessage, m
  <2> QED
    BY <1>1, <1>2, <2>1, Enqueued
<1>4. UNCHANGED <<entries, session, subscription, registered, active, modelCalls, run, prompts,
                  compactions, rebuilt>>
  BY DEF QueueUserMessage, toolVars, convVars
<1>5. StateTypeOK'
  BY <1>1, <1>2, <1>3, <1>4 DEF StateTypeOK, AgentType
<1> QED
  BY <1>3, <1>4, <1>5 DEF Inv, InputOK, LogQuiet

LEMMA AppendBareEntryQuiet ==
  ASSUME Inv, NEW type \in {"customEntry", "label"}, AppendBareEntry(type)
  PROVE  StateTypeOK' /\ InputOK' /\ LogQuiet
<1>1. entries \in Seq(Entry) /\ BareEntry(type) \in Entry /\ ~IsLevelChange(BareEntry(type))
  BY QuietEntries DEF Inv, StateTypeOK
<1>2. entries' = Append(entries, BareEntry(type)) /\ entries' \in Seq(Entry)
  BY <1>1 DEF AppendBareEntry, Persist
<1> QED
  BY <1>1, <1>2, MaxCallsAssumption
  DEF Inv, StateTypeOK, InputOK, LogQuiet, AppendBareEntry, Call, toolVars, convVars

LEMMA SetModelCallQuiet ==
  ASSUME Inv, NEW m \in Models, SetModelCall(m)
  PROVE  StateTypeOK' /\ InputOK' /\ LogQuiet
  BY MaxCallsAssumption
  DEF Inv, StateTypeOK, InputOK, LogQuiet, SetModelCall, Call, toolVars, convVars

LEMMA ToolsQuiet ==
  ASSUME Inv, \/ \E t \in Tools : RegisterTool(t)
              \/ \E names \in SUBSET Tools : SetActiveTools(names)
  PROVE  StateTypeOK' /\ InputOK' /\ LogQuiet
<1>1. /\ StateTypeOK /\ agent \in AgentType /\ calls \in 0 .. MaxCalls
      /\ registered \in SUBSET Tools /\ active \in SUBSET registered
  BY TypesOfState DEF Inv, StateTypeOK
<1>2. /\ registered' \in SUBSET Tools /\ active' \in SUBSET registered'
      /\ agent' = [agent EXCEPT !.prompt = SystemPrompt(active', FALSE)]
      /\ calls' \in 0 .. MaxCalls
      /\ UNCHANGED <<entries, session, subscription, modelCalls, clock, run, prompts,
                     compactions, rebuilt>>
  <2>1. CASE \E t \in Tools : RegisterTool(t)
    BY <1>1, <2>1, MaxCallsAssumption DEF RegisterTool, ApplyTools, Call, convVars
  <2>2. CASE \E names \in SUBSET Tools : SetActiveTools(names)
    BY <1>1, <2>2, MaxCallsAssumption DEF SetActiveTools, ApplyTools, Call, convVars
  <2> QED
    BY <2>1, <2>2
<1>3. agent' \in AgentType /\ agent'.model = agent.model /\ agent'.level = agent.level
  <2>1. SystemPrompt(active', FALSE) \in [tools : SUBSET Tools, overridden : BOOLEAN]
    BY <1>2 DEF SystemPrompt
  <2> QED
    BY <1>1, <1>2, <2>1 DEF AgentType
<1>4. /\ registered' \in SUBSET Tools /\ active' \in SUBSET registered' /\ calls' \in 0 .. MaxCalls
      /\ UNCHANGED <<entries, session, subscription, modelCalls, clock, run, prompts,
                     compactions, rebuilt>>
  BY <1>2
<1>5. StateTypeOK'
  BY <1>1, <1>3, <1>4 DEF StateTypeOK, AgentType
<1> QED
  BY <1>3, <1>4, <1>5 DEF Inv, InputOK, LogQuiet

LEMMA CompactQuiet ==
  ASSUME Inv, \/ CompactInstall
              \/ \E c \in Compactions : \/ CompactCall(c) \/ CompactCancel(c)
                                        \/ CompactRecord(c) \/ CompactRebuild(c)
  PROVE  StateTypeOK' /\ InputOK' /\ LogQuiet
<1>1. StateTypeOK /\ InputOK /\ entries \in Seq(Entry) /\ calls \in 0 .. MaxCalls
  BY TypesOfState DEF Inv
<1> DEFINE Stages == {"unused", "handlers", "recorded", "rebuilt", "over"}
<1> HIDE DEF Stages
<1>0. /\ compactions \in [Compactions -> Stages]
      /\ "handlers" \in Stages /\ "recorded" \in Stages /\ "rebuilt" \in Stages /\ "over" \in Stages
  BY <1>1 DEF StateTypeOK, Stages
<1>2. CASE CompactInstall
  <2>1. compactions' = [compactions EXCEPT ![Head(rebuilt).call] = "over"]
    BY <1>2 DEF CompactInstall
  <2>2. compactions' \in [Compactions -> Stages]
    BY <1>0, <2>1
  <2> QED
    BY <1>1, <1>2, <2>2 DEF StateTypeOK, InputOK, LogQuiet, CompactInstall, toolVars, Stages
<1>3. ASSUME NEW c \in Compactions, CompactCall(c) \/ CompactCancel(c) \/ CompactRebuild(c)
      PROVE  StateTypeOK' /\ InputOK' /\ LogQuiet
  <2>1. compactions' \in [Compactions -> Stages]
    BY <1>0, <1>3 DEF CompactCall, CompactCancel, CompactRebuild
  <2>2. /\ calls' \in 0 .. MaxCalls
        /\ UNCHANGED <<entries, session, subscription, agent, run, registered, active, prompts,
                       modelCalls, clock>>
    BY <1>1, <1>3, MaxCallsAssumption DEF CompactCall, CompactCancel, CompactRebuild, Call, toolVars
  <2> QED
    BY <1>1, <2>1, <2>2 DEF StateTypeOK, InputOK, LogQuiet, Stages
<1>4. ASSUME NEW c \in Compactions, CompactRecord(c)
      PROVE  StateTypeOK' /\ InputOK' /\ LogQuiet
  <2>1. PICK summary \in BOOLEAN, firstKept \in 0 .. Len(entries) + 1 :
          entries' = Append(entries, CompactionEntry(summary, firstKept))
    BY <1>4 DEF CompactRecord, Persist
  <2>2. CompactionEntry(summary, firstKept) \in Entry
        /\ ~IsLevelChange(CompactionEntry(summary, firstKept))
    BY <1>1, QuietEntries
  <2>3. entries' \in Seq(Entry)
    BY <1>1, <2>1, <2>2
  <2>4. compactions' \in [Compactions -> Stages]
    BY <1>0, <1>4 DEF CompactRecord
  <2>5. UNCHANGED <<session, subscription, agent, run, registered, active, prompts,
                    modelCalls, clock, calls>>
    BY <1>4 DEF CompactRecord, toolVars
  <2>6. LogQuiet
    BY <2>1, <2>2, <2>5 DEF LogQuiet
  <2> QED
    BY <1>1, <2>3, <2>4, <2>5, <2>6 DEF StateTypeOK, InputOK, Stages
<1> QED
  BY <1>2, <1>3, <1>4

LEMMA DisposeQuiet ==
  Inv /\ (DisposeCall \/ DisposeFinish \/ DisposeFails) => StateTypeOK' /\ InputOK' /\ LogQuiet
  BY MaxCallsAssumption
  DEF Inv, StateTypeOK, InputOK, LogQuiet, DisposeCall, DisposeFinish, DisposeFails, Call, toolVars,
      convVars

-----------------------------------------------------------------------------
\* The two calls that change model or level record what they set, in one step.
LEMMA SetModelAnswerInv == ASSUME Inv, NEW m \in Models, SetModelAnswer(m) PROVE Inv'
<1>1. /\ StateTypeOK /\ entries \in Seq(Entry) /\ agent \in AgentType
      /\ agent.level \in Levels /\ session.phase = "up" /\ ContextLevel(entries) = agent.level
  <2>1. StateTypeOK /\ entries \in Seq(Entry) /\ agent \in AgentType
    BY TypesOfState DEF Inv
  <2>2. Up
    BY DEF Inv, CreationSync, SetModelAnswer
  <2> QED
    BY <2>1, <2>2 DEF Inv, MetadataSync, AgentType, Up
<1>2. /\ modelCalls' = modelCalls \ {m}
      /\ UNCHANGED <<session, subscription, registered, active, clock, calls, run, prompts,
                     compactions, rebuilt>>
  BY DEF SetModelAnswer, toolVars, convVars
<1>3. CASE UNCHANGED <<agent, entries>>
  BY <1>1, <1>2, <1>3 DEF Inv, StateTypeOK, InputOK, CreationSync, MetadataSync, Up
<1>4. CASE /\ agent' = [agent EXCEPT !.model = m]
           /\ entries' = Append(entries, ModelChangeEntry(m, agent.level))
  <2>1. /\ entries' \in Seq(Entry)
        /\ ContextModel(entries') = m
        /\ ContextLevel(entries') = agent.level
    BY <1>1, <1>4, AppendModelChange
  <2>2. agent' \in AgentType /\ agent'.model = m /\ agent'.level = agent.level
    BY <1>1, <1>4 DEF AgentType
  <2>3. StateTypeOK'
    BY <1>1, <1>2, <2>1, <2>2 DEF StateTypeOK, AgentType
  <2>4. MetadataSync'
    BY <2>1, <2>2 DEF MetadataSync
  <2>5. CreationSync' /\ InputOK'
    BY <1>1, <1>2 DEF Inv, CreationSync, InputOK, Up
  <2> QED
    BY <2>3, <2>4, <2>5 DEF Inv
<1> QED
  BY <1>3, <1>4 DEF SetModelAnswer, RecordModel, Persist

LEMMA SetThinkingLevelInv == ASSUME Inv, NEW l \in Levels, SetThinkingLevel(l) PROVE Inv'
<1>1. /\ StateTypeOK /\ entries \in Seq(Entry) /\ agent \in AgentType /\ calls \in 0 .. MaxCalls
      /\ session.phase = "up"
      /\ agent.model # NoModel => ContextModel(entries) = agent.model
  <2>1. StateTypeOK /\ entries \in Seq(Entry) /\ agent \in AgentType /\ calls \in 0 .. MaxCalls
    BY TypesOfState DEF Inv
  <2>2. Up
    BY DEF SetThinkingLevel, Call
  <2> QED
    BY <2>1, <2>2 DEF Inv, MetadataSync, Up
<1>2. /\ entries' \in Seq(Entry)
      /\ ContextModel(entries') = ContextModel(entries)
      /\ ContextLevel(entries') = l
  <2>1. entries' = Append(entries, ThinkingChangeEntry(l))
    BY DEF SetThinkingLevel, Persist
  <2> QED
    BY <1>1, <2>1, AppendThinkingChange
<1>3. /\ calls' \in 0 .. MaxCalls
      /\ UNCHANGED <<session, subscription, registered, active, modelCalls, clock, run, prompts,
                     compactions, rebuilt>>
  BY <1>1, MaxCallsAssumption DEF SetThinkingLevel, Call, toolVars, convVars
<1>4. agent' \in AgentType /\ agent'.model = agent.model /\ agent'.level = l
  <2>1. agent' = [agent EXCEPT !.level = l]
    BY DEF SetThinkingLevel
  <2> QED
    BY <1>1, <2>1 DEF AgentType
<1>5. StateTypeOK'
  BY <1>1, <1>2, <1>3, <1>4 DEF StateTypeOK, AgentType
<1>6. MetadataSync'
  BY <1>1, <1>2, <1>4 DEF MetadataSync
<1>7. CreationSync' /\ InputOK'
  BY <1>1, <1>3 DEF Inv, CreationSync, InputOK, Up
<1> QED
  BY <1>5, <1>6, <1>7 DEF Inv

-----------------------------------------------------------------------------
LEMMA StepInv == Inv /\ [Next]_vars => Inv'
<1> SUFFICES ASSUME Inv, [Next]_vars PROVE Inv'
  OBVIOUS
<1>1. ASSUME StateTypeOK', InputOK', LogQuiet PROVE Inv'
  BY <1>1, QuietStep DEF Inv
<1>2. CASE Creation
  BY <1>2, CreateSessionInv, PersistModelInv, PersistLevelInv DEF Creation
<1>3. CASE Crash
  BY <1>3, CrashInv
<1>4. CASE Calls
  <2>1. ASSUME NEW p \in Prompts, PromptCall(p) PROVE Inv'
    BY <1>1, <2>1, PromptCallQuiet
  <2>2. CASE Abort
    BY <1>1, <2>2, AbortQuiet
  <2>3. ASSUME NEW queue \in {"none", "steering", "followUps"}, SendMessage(queue) PROVE Inv'
    BY <1>1, <2>3, SendMessageQuiet
  <2>4. ASSUME NEW queue \in {"steering", "followUps"}, QueueUserMessage(queue) PROVE Inv'
    BY <1>1, <2>4, QueueUserMessageQuiet
  <2>5. ASSUME NEW type \in {"customEntry", "label"}, AppendBareEntry(type) PROVE Inv'
    BY <1>1, <2>5, AppendBareEntryQuiet
  <2>6. ASSUME NEW m \in Models, SetModelCall(m) PROVE Inv'
    BY <1>1, <2>6, SetModelCallQuiet
  <2>7. ASSUME NEW l \in Levels, SetThinkingLevel(l) PROVE Inv'
    BY <2>7, SetThinkingLevelInv
  <2>8. CASE (\E t \in Tools : RegisterTool(t)) \/ (\E names \in SUBSET Tools : SetActiveTools(names))
    BY <1>1, <2>8, ToolsQuiet
  <2>9. ASSUME NEW c \in Compactions, CompactCall(c) PROVE Inv'
    BY <1>1, <2>9, CompactQuiet
  <2>10. CASE DisposeCall
    BY <1>1, <2>10, DisposeQuiet
  <2> QED
    BY <1>4, <2>1, <2>2, <2>3, <2>4, <2>5, <2>6, <2>7, <2>8, <2>9, <2>10 DEF Calls
<1>5. CASE Resumptions
  <2>1. ASSUME NEW p \in Prompts, CommandAnswers(p) \/ PromptFails(p) \/ PromptSend(p) PROVE Inv'
    BY <1>1, <2>1, PromptAnswersQuiet, PromptSendQuiet
  <2>2. ASSUME NEW c \in Compactions, CompactCancel(c) \/ CompactRecord(c) \/ CompactRebuild(c) PROVE Inv'
    BY <1>1, <2>2, CompactQuiet
  <2>3. CASE CompactInstall
    BY <1>1, <2>3, CompactQuiet
  <2>4. ASSUME NEW m \in Models, SetModelAnswer(m) PROVE Inv'
    BY <2>4, SetModelAnswerInv
  <2>5. CASE DisposeFinish \/ DisposeFails
    BY <1>1, <2>5, DisposeQuiet
  <2> QED
    BY <1>5, <2>1, <2>2, <2>3, <2>4, <2>5 DEF Resumptions
<1>6. CASE AgentLoop
  BY <1>1, <1>6, AgentLoopQuiet
<1>7. CASE UNCHANGED vars
  BY <1>7 DEF vars, Inv, StateTypeOK, InputOK, CreationSync, MetadataSync, Up
<1> QED
  BY <1>2, <1>3, <1>4, <1>5, <1>6, <1>7 DEF Next

\* The session, its log and its agent keep the types of StateTypeOK: the log
\* holds entries of the declared kinds and the queues hold messages.
THEOREM StateTypeCorrect == Spec => []StateTypeOK
<1>1. Inv => StateTypeOK
  BY DEF Inv
<1> QED
  BY InitInv, StepInv, <1>1, PTL DEF Spec

\* Whatever the host, extensions and the agent do, and wherever the session
\* is lost, the log restores the agent's level, and its model if it has one.
THEOREM MetadataRestores == Spec => []MetadataSync
<1>1. Inv => MetadataSync
  BY DEF Inv
<1> QED
  BY InitInv, StepInv, <1>1, PTL DEF Spec

\* createAgentSession may be interrupted and repeated: what it read and has
\* persisted so far is what the log says at each of its awaits.
THEOREM CreationAgrees == Spec => []CreationSync
<1>1. Inv => CreationSync
  BY DEF Inv
<1> QED
  BY InitInv, StepInv, <1>1, PTL DEF Spec
-----------------------------------------------------------------------------
(* DialogueLoggedOnce: what is to be delivered is in one place at a time. *)

\* Where a message can be: in the log, in a queue, or the input of a run that
\* has not taken it yet.
LogHolds(es, m) == \E i \in DOMAIN es : es[i].type = "message" /\ es[i].message = m
Holds(q, m) == \E i \in DOMAIN q : q[i] = m
Starts(r, m) == r.phase = "started" /\ r.input = m

LogHoldsOnce(es) ==
  \A i, j \in DOMAIN es :
    /\ BearsMessage(es[i]) /\ BearsMessage(es[j])
    /\ es[i].message = es[j].message
    /\ es[i].type = es[j].type \/ es[i].message.role \in Roles
    => i = j
HoldsOnce(q) == \A i, j \in DOMAIN q : q[i] = q[j] => i = j

\* What is logged when it is sent is custom, and was created by the time c.
Sent(es, c) ==
  \A i \in DOMAIN es :
    es[i].type = "customMessage" => es[i].message.role = "custom" /\ es[i].message.n <= c

\* Each is in one place, once, and was created by the time c.
Apart(es, s, f, r, c) ==
  /\ LogHoldsOnce(es) /\ Sent(es, c) /\ HoldsOnce(s) /\ HoldsOnce(f)
  /\ \A m \in Message :
       /\ LogHolds(es, m) => m.n <= c /\ ~Holds(s, m) /\ ~Holds(f, m) /\ ~Starts(r, m)
       /\ Holds(s, m) => m.n <= c /\ ~Holds(f, m) /\ ~Starts(r, m)
       /\ Holds(f, m) => m.n <= c /\ ~Starts(r, m)
       /\ Starts(r, m) => m.n <= c

OnePlace == Apart(entries, agent.steering, agent.followUps, run, clock)
DialogueInv == Inv /\ OnePlace

\* Held nowhere.
Nowhere(es, s, f, r, m) == ~LogHolds(es, m) /\ ~Holds(s, m) /\ ~Holds(f, m) /\ ~Starts(r, m)

\* The next message to be created is held nowhere.
LEMMA FreshNowhere ==
  ASSUME NEW es, NEW s, NEW f, NEW r, NEW c \in Nat, Apart(es, s, f, r, c),
         NEW m \in Message, m.n > c
  PROVE  Nowhere(es, s, f, r, m)
<1>1. m.n \in Nat
  BY DEF Message
<1> QED
  BY <1>1 DEF Apart, Nowhere

\* An entry that delivers no message changes nothing, nor does a later clock,
\* nor a run that starts with nothing new.
LEMMA ApartKept ==
  ASSUME NEW es \in Seq(Entry), NEW fs, NEW e \in Entry, fs = es \/ fs = Append(es, e),
         NEW c \in Nat, NEW d \in Nat, c <= d,
         ~BearsMessage(e) \/ /\ e.type = "customMessage" /\ e.message.role = "custom"
                             /\ c < e.message.n /\ e.message.n <= d,
         NEW s, NEW f, NEW r, Apart(es, s, f, r, c),
         NEW q, q.phase # "started" \/ (r.phase = q.phase /\ r.input = q.input)
  PROVE  Apart(fs, s, f, q, d)
<1>1. \A m \in Message : m.n \in Nat
  BY DEF Message
<1>2. \A m : Starts(q, m) => Starts(r, m)
  BY DEF Starts
<1>3. \A i \in DOMAIN es : es[i].type = "customMessage" => es[i].message \in Message
  BY DEF Entry
<1>4. LogHoldsOnce(fs) /\ Sent(fs, d) /\ \A m \in Message : LogHolds(fs, m) => LogHolds(es, m)
  <2>1. CASE fs = es
    <3>1. Sent(es, d)
      BY <1>1, <1>3 DEF Apart, Sent
    <3> QED
      BY <2>1, <3>1 DEF Apart
  <2>2. CASE fs = Append(es, e)
    <3>1. /\ DOMAIN fs = 1 .. Len(es) + 1 /\ DOMAIN es = 1 .. Len(es) /\ Len(es) \in Nat
          /\ fs[Len(es) + 1] = e /\ \A i \in 1 .. Len(es) : fs[i] = es[i]
      BY <2>2
    <3>2. BearsMessage(e) => e.type = "customMessage" /\ e.message.role \notin Roles
      BY DEF Roles
    <3>3. ASSUME NEW i \in DOMAIN es, es[i].type = "customMessage", BearsMessage(e)
          PROVE  es[i].message # e.message
      <4>1. es[i].message \in Message /\ es[i].message.n <= c
        BY <1>3, <3>3 DEF Apart, Sent
      <4>2. e.message.n \in Nat
        BY <1>1, <3>2, <3>3 DEF Entry
      <4> QED
        BY <1>1, <3>3, <4>1, <4>2
    <3>4. LogHoldsOnce(fs)
      <4> SUFFICES ASSUME NEW i \in DOMAIN fs, NEW j \in DOMAIN fs,
                          BearsMessage(fs[i]), BearsMessage(fs[j]), fs[i].message = fs[j].message,
                          fs[i].type = fs[j].type \/ fs[i].message.role \in Roles
                   PROVE  i = j
        BY DEF LogHoldsOnce
      <4>1. CASE i \in DOMAIN es /\ j \in DOMAIN es
        BY <3>1, <4>1 DEF LogHoldsOnce, Apart
      <4>2. CASE i \in DOMAIN es /\ j \notin DOMAIN es
        BY <3>1, <3>2, <3>3, <4>2
      <4>3. CASE i \notin DOMAIN es /\ j \in DOMAIN es
        BY <3>1, <3>2, <3>3, <4>3
      <4> QED
        BY <3>1, <4>1, <4>2, <4>3
    <3>5. Sent(fs, d)
      BY <1>1, <1>3, <3>1, <3>2 DEF Sent, Apart, BearsMessage
    <3>6. e.type # "message"
      BY DEF BearsMessage
    <3> QED
      BY <3>1, <3>4, <3>5, <3>6 DEF LogHolds
  <2> QED
    BY <2>1, <2>2
<1> QED
  BY <1>1, <1>2, <1>4 DEF Apart

\* A message held nowhere may be logged.
LEMMA ApartLogged ==
  ASSUME NEW es \in Seq(Entry), NEW s, NEW f, NEW r, NEW c \in Nat, Apart(es, s, f, r, c),
         NEW m \in Message, Nowhere(es, s, f, r, m), NEW d \in Nat, m.n <= d, c <= d
  PROVE  Apart(Append(es, MessageEntry(m)), s, f, r, d)
<1> DEFINE fs == Append(es, MessageEntry(m))
<1>1. \A k \in Message : k.n \in Nat
  BY DEF Message
<1>2. /\ DOMAIN fs = 1 .. Len(es) + 1 /\ DOMAIN es = 1 .. Len(es) /\ Len(es) \in Nat
      /\ fs[Len(es) + 1] = MessageEntry(m) /\ \A i \in 1 .. Len(es) : fs[i] = es[i]
      /\ MessageEntry(m).message = m /\ MessageEntry(m).type = "message"
  BY DEF MessageEntry
<1> HIDE DEF fs
<1>3. ASSUME NEW i \in DOMAIN es, BearsMessage(es[i]), es[i].message = m,
             es[i].type = "message" \/ m.role \in Roles
      PROVE  FALSE
  <2>1. es[i].type = "customMessage" => es[i].message.role = "custom"
    BY DEF Apart, Sent
  <2>2. es[i].type = "message"
    BY <1>3, <2>1 DEF BearsMessage, Roles
  <2> QED
    BY <1>3, <2>2 DEF Nowhere, LogHolds
<1>4. LogHoldsOnce(fs)
  <2> SUFFICES ASSUME NEW i \in DOMAIN fs, NEW j \in DOMAIN fs,
                      BearsMessage(fs[i]), BearsMessage(fs[j]), fs[i].message = fs[j].message,
                      fs[i].type = fs[j].type \/ fs[i].message.role \in Roles
               PROVE  i = j
    BY DEF LogHoldsOnce
  <2>1. CASE i \in DOMAIN es /\ j \in DOMAIN es
    BY <2>1, <1>2 DEF LogHoldsOnce, Apart
  <2>2. CASE i \in DOMAIN es /\ j \notin DOMAIN es
    BY <2>2, <1>2, <1>3
  <2>3. CASE i \notin DOMAIN es /\ j \in DOMAIN es
    BY <2>3, <1>2, <1>3
  <2> QED
    BY <1>2, <2>1, <2>2, <2>3
<1>5. Sent(fs, d)
  <2>1. \A i \in DOMAIN es : es[i].type = "customMessage" => es[i].message \in Message
    BY DEF Entry
  <2> QED
    BY <1>1, <1>2, <2>1 DEF Sent, Apart
<1>6. \A k \in Message : LogHolds(fs, k) => k = m \/ LogHolds(es, k)
  BY <1>2 DEF LogHolds
<1>7. Apart(fs, s, f, r, d)
  BY <1>1, <1>4, <1>5, <1>6 DEF Apart, Nowhere
<1> QED
  BY <1>7 DEF fs

\* The two queues play the same part.
LEMMA ApartSwaps ==
  ASSUME NEW es, NEW s, NEW f, NEW r, NEW c, Apart(es, s, f, r, c)
  PROVE  Apart(es, f, s, r, c)
  BY DEF Apart

\* A message held nowhere may be queued.
LEMMA ApartQueued ==
  ASSUME NEW es \in Seq(Entry), NEW s \in Seq(Message), NEW f, NEW r, NEW c \in Nat,
         Apart(es, s, f, r, c), NEW m \in Message, Nowhere(es, s, f, r, m),
         NEW d \in Nat, m.n <= d, c <= d
  PROVE  Apart(es, Append(s, m), f, r, d)
<1> DEFINE t == Append(s, m)
<1>1. \A k \in Message : k.n \in Nat
  BY DEF Message
<1>2. /\ DOMAIN t = 1 .. Len(s) + 1 /\ DOMAIN s = 1 .. Len(s) /\ Len(s) \in Nat
      /\ t[Len(s) + 1] = m /\ \A i \in 1 .. Len(s) : t[i] = s[i]
  OBVIOUS
<1> HIDE DEF t
<1>3. HoldsOnce(t)
  BY <1>2 DEF HoldsOnce, Apart, Nowhere, Holds
<1>4. \A k \in Message : Holds(t, k) => k = m \/ Holds(s, k)
  BY <1>2 DEF Holds
<1>5. Sent(es, d)
  <2>1. \A i \in DOMAIN es : es[i].type = "customMessage" => es[i].message.n \in Nat
    BY DEF Message, Entry
  <2> QED
    BY <2>1 DEF Sent, Apart
<1>6. Apart(es, t, f, r, d)
  BY <1>1, <1>3, <1>4, <1>5 DEF Apart, Nowhere
<1> QED
  BY <1>6 DEF t

\* What the head of a queue leaves: itself nowhere.
LEMMA ApartTaken ==
  ASSUME NEW es, NEW s \in Seq(Message), s # <<>>, NEW f, NEW r, NEW c \in Nat,
         Apart(es, s, f, r, c)
  PROVE  /\ Head(s) \in Message /\ Tail(s) \in Seq(Message)
         /\ Apart(es, Tail(s), f, r, c)
         /\ Nowhere(es, Tail(s), f, r, Head(s)) /\ Head(s).n <= c
<1> DEFINE t == Tail(s)
           m == Head(s)
<1>1. /\ m \in Message /\ t \in Seq(Message) /\ m = s[1]
      /\ DOMAIN t = 1 .. Len(s) - 1 /\ DOMAIN s = 1 .. Len(s) /\ Len(s) \in Nat \ {0}
      /\ \A i \in 1 .. Len(s) - 1 : t[i] = s[i + 1]
  BY HeadTailProperties
<1> HIDE DEF t, m
<1>2. \A i \in DOMAIN t : i \in Nat /\ i + 1 \in DOMAIN s /\ t[i] = s[i + 1] /\ i + 1 # 1
  BY <1>1
<1>3. HoldsOnce(t) /\ \A k : Holds(t, k) => Holds(s, k)
  BY <1>2 DEF HoldsOnce, Apart, Holds
<1>4. Apart(es, t, f, r, c)
  BY <1>3 DEF Apart
<1>5. 1 \in DOMAIN s /\ Holds(s, m)
  BY <1>1 DEF Holds
<1>6. ~Holds(t, m)
  BY <1>1, <1>2, <1>5 DEF HoldsOnce, Apart, Holds
<1>7. Nowhere(es, t, f, r, m) /\ m.n <= c
  BY <1>1, <1>5, <1>6 DEF Apart, Nowhere
<1> QED
  BY <1>1, <1>4, <1>7 DEF t, m
LEMMA InitOnePlace == Init => OnePlace
  BY DEF Init, OnePlace, Apart, LogHoldsOnce, Sent, HoldsOnce, LogHolds, Holds, Starts, NewAgent,
         IdleRun

\* What the next steps use of DialogueInv.
LEMMA DialogueFacts ==
  ASSUME DialogueInv
  PROVE  /\ entries \in Seq(Entry) /\ clock \in Nat /\ agent \in AgentType /\ run \in RunType
         /\ agent.steering \in Seq(Message) /\ agent.followUps \in Seq(Message)
         /\ run.phase = "started" => run.input \in Message
         /\ Apart(entries, agent.steering, agent.followUps, run, clock)
  BY TypesOfState DEF DialogueInv, Inv, InputOK, OnePlace, AgentType

\* A step that leaves the queues alone, appends at most an entry that bears no
\* message, and starts no run.
OnePlaceQuiet ==
  /\ agent'.steering = agent.steering /\ agent'.followUps = agent.followUps
  /\ \/ entries' = entries
     \/ \E e \in Entry : ~BearsMessage(e) /\ entries' = Append(entries, e)
  /\ run'.phase # "started" \/ (run.phase = run'.phase /\ run.input = run'.input)
  /\ clock' = clock \/ clock' = clock + 1

LEMMA QuietOnePlace == ASSUME DialogueInv, OnePlaceQuiet PROVE OnePlace'
<1>1. PICK e \in Entry : /\ ~BearsMessage(e)
                         /\ entries' = entries \/ entries' = Append(entries, e)
  <2>1. BareEntry("label") \in Entry /\ ~BearsMessage(BareEntry("label"))
    BY DEF BareEntry, Entry, BearsMessage
  <2> QED
    BY <2>1 DEF OnePlaceQuiet
<1>2. clock' \in Nat /\ clock <= clock' /\ clock \in Nat /\ entries \in Seq(Entry)
      /\ Apart(entries, agent.steering, agent.followUps, run, clock)
  BY DialogueFacts DEF OnePlaceQuiet
<1>3. run'.phase # "started" \/ (run.phase = run'.phase /\ run.input = run'.input)
  BY DEF OnePlaceQuiet
<1>4. Apart(entries', agent.steering, agent.followUps, run', clock')
  BY <1>1, <1>2, <1>3, ApartKept
<1> QED
  BY <1>4 DEF OnePlaceQuiet, OnePlace

\* The entries that bear no message.
LEMMA BareOfDialogue ==
  /\ \A m \in Models, l \in Levels :
       ModelChangeEntry(m, l) \in Entry /\ ~BearsMessage(ModelChangeEntry(m, l))
  /\ \A l \in Levels : ThinkingChangeEntry(l) \in Entry /\ ~BearsMessage(ThinkingChangeEntry(l))
  /\ \A t \in {"customEntry", "label"} : BareEntry(t) \in Entry /\ ~BearsMessage(BareEntry(t))
  /\ \A s \in BOOLEAN, k \in Nat :
       CompactionEntry(s, k) \in Entry /\ ~BearsMessage(CompactionEntry(s, k))
  BY DEF ModelChangeEntry, ThinkingChangeEntry, BareEntry, CompactionEntry, Entry, BearsMessage

LEMMA CreationOnePlace == DialogueInv /\ Creation => OnePlace'
<1> SUFFICES ASSUME DialogueInv, Creation PROVE OnePlace'
  OBVIOUS
<1>1. session.model \in Models \cup {NoModel} /\ session.level \in Levels
  BY DEF DialogueInv, Inv, StateTypeOK
<1>2. CASE CreateSession
  <2>1. OnePlaceQuiet
    BY <1>2 DEF CreateSession, convVars, OnePlaceQuiet
  <2> QED
    BY <2>1, QuietOnePlace
<1>3. CASE PersistModel
  <2>1. OnePlaceQuiet
    BY <1>1, <1>3, BareOfDialogue DEF PersistModel, ModelChanged, Persist, convVars, OnePlaceQuiet
  <2> QED
    BY <2>1, QuietOnePlace
<1>4. CASE PersistLevelAndConstruct
  <2>1. PICK e \in Entry : ~BearsMessage(e) /\ (entries' = entries \/ entries' = Append(entries, e))
    BY <1>1, <1>4, BareOfDialogue DEF PersistLevelAndConstruct, Persist
  <2>2. /\ agent'.steering = <<>> /\ agent'.followUps = <<>>
        /\ run' = run /\ clock' = clock
    BY <1>4 DEF PersistLevelAndConstruct, NewAgent, convVars
  <2>3. /\ Apart(entries, agent.steering, agent.followUps, run, clock)
        /\ entries \in Seq(Entry) /\ clock \in Nat
    BY DialogueFacts
  <2>4. Apart(entries, <<>>, <<>>, run, clock)
    BY <2>3 DEF Apart, HoldsOnce, Holds
  <2>5. Apart(entries', <<>>, <<>>, run, clock)
    BY <2>1, <2>3, <2>4, ApartKept
  <2> QED
    BY <2>2, <2>5 DEF OnePlace
<1> QED
  BY <1>2, <1>3, <1>4 DEF Creation

\* A lost session takes its queues and its run with it.
LEMMA CrashOnePlace == DialogueInv /\ Crash => OnePlace'
<1> SUFFICES ASSUME DialogueInv, Crash PROVE OnePlace'
  OBVIOUS
<1>1. /\ agent'.steering = <<>> /\ agent'.followUps = <<>> /\ run'.phase = "idle"
      /\ entries' = entries /\ clock' = clock
  BY DEF Crash, NewAgent, IdleRun
<1>2. Apart(entries, agent.steering, agent.followUps, run, clock)
  BY DialogueFacts
<1> QED
  BY <1>1, <1>2 DEF OnePlace, Apart, HoldsOnce, Holds, Starts

LEMMA PromptSendOnePlace == ASSUME DialogueInv, NEW p \in Prompts, PromptSend(p) PROVE OnePlace'
<1>1. PICK overridden, inject \in BOOLEAN :
        LET accepted == ~Streaming /\ agent.model # NoModel
            used     == IF inject THEN 1 ELSE 0
        IN  /\ agent' = [agent EXCEPT !.prompt = SystemPrompt(prompts[p].base, overridden)]
            /\ IF accepted
                 THEN /\ run' = [IdleRun EXCEPT !.phase = "started",
                                                !.input = [role |-> "user", n |-> clock + used + 1]]
                      /\ clock' = clock + used + 1
                 ELSE clock' = clock + used /\ run' = run
  BY DEF PromptSend
<1>2. /\ entries \in Seq(Entry) /\ clock \in Nat /\ agent \in AgentType
      /\ Apart(entries, agent.steering, agent.followUps, run, clock)
  BY DialogueFacts
<1>3. /\ agent'.steering = agent.steering /\ agent'.followUps = agent.followUps
      /\ entries' = entries
  BY <1>1, <1>2 DEF AgentType, PromptSend
<1>4. \/ run' = run /\ clock' \in {clock, clock + 1}
      \/ /\ run'.phase = "started" /\ clock' \in {clock + 1, clock + 2}
         /\ run'.input = [role |-> "user", n |-> clock']
  <2> DEFINE used == IF inject THEN 1 ELSE 0
  <2>1. used \in {0, 1} /\ clock \in Nat
    BY <1>2
  <2>2. CASE ~Streaming /\ agent.model # NoModel
    <3>1. /\ run' = [IdleRun EXCEPT !.phase = "started",
                                    !.input = [role |-> "user", n |-> clock + used + 1]]
          /\ clock' = clock + used + 1
      BY <1>1, <2>2
    <3>2. run'.phase = "started" /\ run'.input = [role |-> "user", n |-> clock']
      BY <3>1 DEF IdleRun
    <3>3. clock' \in {clock + 1, clock + 2}
      BY <2>1, <3>1
    <3> QED
      BY <3>2, <3>3
  <2>3. CASE ~(~Streaming /\ agent.model # NoModel)
    BY <1>1, <2>1, <2>3
  <2> QED
    BY <2>2, <2>3
<1>5. CASE run' = run /\ clock' \in {clock, clock + 1}
  <2>1. OnePlaceQuiet
    BY <1>3, <1>5 DEF OnePlaceQuiet
  <2> QED
    BY <2>1, QuietOnePlace
<1>6. CASE /\ run'.phase = "started" /\ clock' \in {clock + 1, clock + 2}
           /\ run'.input = [role |-> "user", n |-> clock']
  <2> DEFINE m == run'.input
  <2>1. /\ m \in Message /\ m.n > clock /\ m.n = clock'
        /\ clock' \in Nat /\ clock <= clock'
    BY <1>2, <1>6 DEF Message
  <2>2. Nowhere(entries, agent.steering, agent.followUps, run, m)
    BY <1>2, <2>1, FreshNowhere
  <2>3. \A k \in Message : Starts(run', k) => k = m
    BY DEF Starts
  <2>4. /\ \A k \in Message : k.n \in Nat
        /\ \A i \in DOMAIN entries : entries[i].type = "customMessage" => entries[i].message \in Message
    BY <1>2 DEF Message, Entry
  <2> HIDE DEF m
  <2>5. Sent(entries, clock')
    BY <1>2, <2>1, <2>4 DEF Apart, Sent
  <2>6. Apart(entries, agent.steering, agent.followUps, run', clock')
    BY <1>2, <2>1, <2>2, <2>3, <2>4, <2>5 DEF Apart, Nowhere
  <2> QED
    BY <1>3, <2>6 DEF OnePlace
<1> QED
  BY <1>4, <1>5, <1>6

-----------------------------------------------------------------------------
\* The agent's loop moves a message from where it waits into the log.

\* The log after a message_end: the session may have left its agent.
LEMMA MessageEndOnePlace ==
  ASSUME NEW es \in Seq(Entry), NEW s, NEW f, NEW r, NEW c \in Nat, Apart(es, s, f, r, c),
         NEW m \in Message, Nowhere(es, s, f, r, m), m.n <= c,
         NEW fs, fs = es \/ fs = Append(es, MessageEntry(m))
  PROVE  Apart(fs, s, f, r, c)
<1>1. c <= c
  OBVIOUS
<1>2. Apart(Append(es, MessageEntry(m)), s, f, r, c)
  BY <1>1, ApartLogged
<1> QED
  BY <1>2

LEMMA AgentLoopOnePlace == DialogueInv /\ AgentLoop => OnePlace'
<1> SUFFICES ASSUME DialogueInv, AgentLoop PROVE OnePlace'
  OBVIOUS
<1>1. /\ entries \in Seq(Entry) /\ clock \in Nat /\ agent \in AgentType
      /\ agent.steering \in Seq(Message) /\ agent.followUps \in Seq(Message)
      /\ run.phase = "started" => run.input \in Message
      /\ Apart(entries, agent.steering, agent.followUps, run, clock)
  BY DialogueFacts
<1>2. ASSUME NEW m, NEW q, MessageEnd(m, q)
      PROVE  agent' = q /\ entries' \in {entries, Append(entries, MessageEntry(m))}
  BY <1>2 DEF MessageEnd, Persist
<1>3. CASE RunInput
  <2>1. /\ run.phase = "started" /\ run'.phase = "tools" /\ clock' = clock
        /\ MessageEnd(run.input, agent)
    BY <1>3, DialogueFacts DEF RunInput, RunType
  <2>2. agent' = agent /\ entries' \in {entries, Append(entries, MessageEntry(run.input))}
    BY <1>2, <2>1
  <2>3. Apart(entries, agent.steering, agent.followUps, run', clock)
    BY <1>1, <2>1 DEF Apart, Starts
  <2>4. /\ Nowhere(entries, agent.steering, agent.followUps, run', run.input)
        /\ run.input.n <= clock
    BY <1>1, <2>1 DEF Apart, Starts, Nowhere
  <2>5. Apart(entries', agent.steering, agent.followUps, run', clock)
    BY <1>1, <2>1, <2>2, <2>3, <2>4, MessageEndOnePlace
  <2> QED
    BY <2>1, <2>2, <2>5 DEF OnePlace
<1>4. CASE RunReply
  <2> DEFINE m == NewMessage("reply")
  <2>1. /\ run.phase = "turn" /\ run'.phase # "started" /\ clock' = clock + 1
        /\ MessageEnd(m, agent)
    BY <1>4, DialogueFacts DEF RunReply, RunType
  <2>2. agent' = agent /\ entries' \in {entries, Append(entries, MessageEntry(m))}
    BY <1>2, <2>1
  <2>3. /\ m \in Message /\ m.n > clock /\ m.n = clock'
        /\ clock' \in Nat /\ clock <= clock'
    BY <1>1, <2>1 DEF NewMessage, Message
  <2> HIDE DEF m
  <2>4. Nowhere(entries, agent.steering, agent.followUps, run, m)
    BY <1>1, <2>3, FreshNowhere
  <2>5. /\ Apart(entries, agent.steering, agent.followUps, run', clock')
        /\ Nowhere(entries, agent.steering, agent.followUps, run', m)
    <3>1. BareEntry("label") \in Entry /\ ~BearsMessage(BareEntry("label"))
      BY BareOfDialogue
    <3> QED
      BY <1>1, <2>1, <2>3, <2>4, <3>1, ApartKept DEF Nowhere, Starts
  <2>6. Apart(entries', agent.steering, agent.followUps, run', clock')
    BY <1>1, <2>2, <2>3, <2>5, MessageEndOnePlace
  <2> QED
    BY <2>2, <2>6 DEF OnePlace
<1>5. CASE RunTakesSteering
  <2>1. /\ agent.steering # <<>> /\ run.phase # "started" /\ run'.phase # "started" /\ clock' = clock
        /\ MessageEnd(Head(agent.steering), [agent EXCEPT !.steering = Tail(@)])
    BY <1>5, DialogueFacts DEF RunTakesSteering, RunType
  <2>2. /\ agent'.steering = Tail(agent.steering) /\ agent'.followUps = agent.followUps
        /\ entries' \in {entries, Append(entries, MessageEntry(Head(agent.steering)))}
    BY <1>1, <1>2, <2>1 DEF AgentType
  <2>3. Apart(entries, agent.steering, agent.followUps, run', clock)
    BY <1>1, <2>1 DEF Apart, Starts
  <2>4. Apart(entries', Tail(agent.steering), agent.followUps, run', clock)
    BY <1>1, <2>1, <2>2, <2>3, ApartTaken, MessageEndOnePlace
  <2> QED
    BY <2>1, <2>2, <2>4 DEF OnePlace
<1>6. CASE RunTakesFollowUp
  <2>1. /\ agent.followUps # <<>> /\ run.phase # "started" /\ run'.phase # "started" /\ clock' = clock
        /\ MessageEnd(Head(agent.followUps), [agent EXCEPT !.followUps = Tail(@)])
    BY <1>6, DialogueFacts DEF RunTakesFollowUp, RunType
  <2>2. /\ agent'.followUps = Tail(agent.followUps) /\ agent'.steering = agent.steering
        /\ entries' \in {entries, Append(entries, MessageEntry(Head(agent.followUps)))}
    BY <1>1, <1>2, <2>1 DEF AgentType
  <2>3. Apart(entries, agent.steering, agent.followUps, run', clock)
    BY <1>1, <2>1 DEF Apart, Starts
  <2>4. Apart(entries, agent.followUps, agent.steering, run', clock)
    BY <2>3, ApartSwaps
  <2>5. Apart(entries', Tail(agent.followUps), agent.steering, run', clock)
    BY <1>1, <2>1, <2>2, <2>4, ApartTaken, MessageEndOnePlace
  <2>6. Apart(entries', agent.steering, Tail(agent.followUps), run', clock)
    BY <2>5, ApartSwaps
  <2> QED
    BY <2>1, <2>2, <2>6 DEF OnePlace
<1>7. CASE RunContinues \/ RunStops \/ RunEnds
  <2>1. OnePlaceQuiet
    <3>1. UNCHANGED <<entries, agent, clock>>
      BY <1>7 DEF RunContinues, RunStops, RunEnds
    <3>2. run \in RunType
      BY DialogueFacts
    <3>3. run'.phase # "started"
      <4>1. \/ run' = [run EXCEPT !.phase = "turn"]
            \/ run' = [run EXCEPT !.phase = "ending", !.outcome = "stop"]
            \/ run' = IdleRun
        BY <1>7 DEF RunContinues, RunStops, RunEnds
      <4>2. IdleRun.phase = "idle"
        BY DEF IdleRun
      <4> QED
        BY <3>2, <4>1, <4>2 DEF RunType
    <3> QED
      BY <3>1, <3>3 DEF OnePlaceQuiet
  <2> QED
    BY <2>1, QuietOnePlace
<1> QED
  BY <1>3, <1>4, <1>5, <1>6, <1>7 DEF AgentLoop

-----------------------------------------------------------------------------
\* sendMessage persists a custom message before it queues it.
LEMMA SendMessageOnePlace ==
  ASSUME DialogueInv, NEW queue \in {"none", "steering", "followUps"}, SendMessage(queue)
  PROVE  OnePlace'
<1> DEFINE m == NewMessage("custom")
<1>1. /\ entries \in Seq(Entry) /\ clock \in Nat /\ agent \in AgentType
      /\ agent.steering \in Seq(Message) /\ agent.followUps \in Seq(Message)
      /\ Apart(entries, agent.steering, agent.followUps, run, clock)
  BY DialogueFacts
<1>2. /\ entries' = Append(entries, CustomMessageEntry(m)) /\ run' = run /\ clock' = clock + 1
      /\ \/ agent' = agent
         \/ queue \in {"steering", "followUps"} /\ agent' = [agent EXCEPT ![queue] = Append(@, m)]
  BY DEF SendMessage, Persist, convVars
<1>3. /\ m \in Message /\ m.role = "custom" /\ m.n > clock /\ m.n <= clock' /\ m.n \in Nat
      /\ clock' \in Nat /\ clock <= clock'
      /\ CustomMessageEntry(m) \in Entry /\ CustomMessageEntry(m).message = m
      /\ CustomMessageEntry(m).type = "customMessage"
  BY <1>1, <1>2 DEF NewMessage, Message, CustomMessageEntry, Entry
<1> HIDE DEF m
<1>4. Apart(entries', agent.steering, agent.followUps, run, clock')
  BY <1>1, <1>2, <1>3, ApartKept
<1>5. \/ agent'.steering = agent.steering /\ agent'.followUps = agent.followUps
      \/ agent'.steering = Append(agent.steering, m) /\ agent'.followUps = agent.followUps
      \/ agent'.steering = agent.steering /\ agent'.followUps = Append(agent.followUps, m)
  BY <1>1, <1>2 DEF AgentType
<1>6. /\ Nowhere(entries', agent.steering, agent.followUps, run, m)
      /\ Nowhere(entries', agent.followUps, agent.steering, run, m)
  <2>1. Nowhere(entries, agent.steering, agent.followUps, run, m)
    BY <1>1, <1>3, FreshNowhere
  <2>2. LogHolds(entries', m) => LogHolds(entries, m)
    <3>1. /\ DOMAIN entries' = 1 .. Len(entries) + 1 /\ DOMAIN entries = 1 .. Len(entries)
          /\ Len(entries) \in Nat /\ entries'[Len(entries) + 1].type # "message"
          /\ \A i \in 1 .. Len(entries) : entries'[i] = entries[i]
      BY <1>1, <1>2, <1>3
    <3> QED
      BY <3>1 DEF LogHolds
  <2> QED
    BY <2>1, <2>2 DEF Nowhere
<1>7. /\ Apart(entries', Append(agent.steering, m), agent.followUps, run, clock')
      /\ Apart(entries', agent.steering, Append(agent.followUps, m), run, clock')
  <2>1. clock' <= clock' /\ entries' \in Seq(Entry)
    BY <1>1, <1>2, <1>3
  <2> QED
    BY <1>1, <1>3, <1>4, <1>6, <2>1, ApartSwaps, ApartQueued
<1> QED
  BY <1>2, <1>4, <1>5, <1>7 DEF OnePlace

\* A user message is only queued.
LEMMA QueueUserMessageOnePlace ==
  ASSUME DialogueInv, NEW queue \in {"steering", "followUps"}, QueueUserMessage(queue)
  PROVE  OnePlace'
<1> DEFINE m == NewMessage("user")
<1>1. /\ entries \in Seq(Entry) /\ clock \in Nat /\ agent \in AgentType
      /\ agent.steering \in Seq(Message) /\ agent.followUps \in Seq(Message)
      /\ Apart(entries, agent.steering, agent.followUps, run, clock)
  BY DialogueFacts
<1>2. /\ entries' = entries /\ run' = run /\ clock' = clock + 1
      /\ agent' = [agent EXCEPT ![queue] = Append(@, m)]
  BY DEF QueueUserMessage, convVars
<1>3. /\ m \in Message /\ m.n > clock /\ m.n <= clock'
      /\ clock' \in Nat /\ clock <= clock'
  BY <1>1, <1>2 DEF NewMessage, Message
<1> HIDE DEF m
<1>4. \/ agent'.steering = Append(agent.steering, m) /\ agent'.followUps = agent.followUps
      \/ agent'.steering = agent.steering /\ agent'.followUps = Append(agent.followUps, m)
  BY <1>1, <1>2 DEF AgentType
<1>5. /\ Nowhere(entries, agent.steering, agent.followUps, run, m)
      /\ Nowhere(entries, agent.followUps, agent.steering, run, m)
  BY <1>1, <1>3, FreshNowhere DEF Nowhere
<1>6. /\ Apart(entries, Append(agent.steering, m), agent.followUps, run, clock')
      /\ Apart(entries, agent.steering, Append(agent.followUps, m), run, clock')
  BY <1>1, <1>3, <1>5, ApartSwaps, ApartQueued
<1> QED
  BY <1>2, <1>4, <1>6 DEF OnePlace

\* No other call touches a queue or the run's input, or logs a message.
LEMMA CallsOnePlace == DialogueInv /\ Calls => OnePlace'
<1> SUFFICES ASSUME DialogueInv, Calls PROVE OnePlace'
  OBVIOUS
<1>1. agent \in AgentType /\ run \in RunType
  BY DialogueFacts
<1>2. CASE OnePlaceQuiet
  BY <1>2, QuietOnePlace
<1>3. ASSUME NEW p \in Prompts, PromptCall(p) PROVE OnePlaceQuiet
  BY <1>3 DEF PromptCall, OnePlaceQuiet
<1>4. ASSUME Abort PROVE OnePlaceQuiet
  BY <1>1, <1>4 DEF Abort, RunType, OnePlaceQuiet
<1>5. ASSUME NEW type \in {"customEntry", "label"}, AppendBareEntry(type) PROVE OnePlaceQuiet
  BY <1>5, BareOfDialogue DEF AppendBareEntry, Persist, convVars, OnePlaceQuiet
<1>6. ASSUME NEW m \in Models, SetModelCall(m) PROVE OnePlaceQuiet
  BY <1>6 DEF SetModelCall, convVars, OnePlaceQuiet
<1>7. ASSUME NEW l \in Levels, SetThinkingLevel(l) PROVE OnePlaceQuiet
  BY <1>1, <1>7, BareOfDialogue DEF SetThinkingLevel, Persist, convVars, AgentType, OnePlaceQuiet
<1>8. ASSUME NEW t \in Tools, RegisterTool(t) PROVE OnePlaceQuiet
  BY <1>1, <1>8 DEF RegisterTool, ApplyTools, convVars, AgentType, OnePlaceQuiet
<1>9. ASSUME NEW names \in SUBSET Tools, SetActiveTools(names) PROVE OnePlaceQuiet
  BY <1>1, <1>9 DEF SetActiveTools, ApplyTools, convVars, AgentType, OnePlaceQuiet
<1>10. ASSUME NEW c \in Compactions, CompactCall(c) PROVE OnePlaceQuiet
  BY <1>10 DEF CompactCall, OnePlaceQuiet
<1>11. ASSUME DisposeCall PROVE OnePlaceQuiet
  BY <1>11 DEF DisposeCall, convVars, OnePlaceQuiet
<1> QED
  BY <1>2, <1>3, <1>4, <1>5, <1>6, <1>7, <1>8, <1>9, <1>10, <1>11, SendMessageOnePlace,
     QueueUserMessageOnePlace DEF Calls

\* What an await resumes: a compaction's entry and a model's bear no message.
LEMMA ResumptionsOnePlace == DialogueInv /\ Resumptions => OnePlace'
<1> SUFFICES ASSUME DialogueInv, Resumptions PROVE OnePlace'
  OBVIOUS
<1>1. agent \in AgentType /\ agent.level \in Levels /\ entries \in Seq(Entry)
  BY DialogueFacts DEF AgentType
<1>2. CASE OnePlaceQuiet
  BY <1>2, QuietOnePlace
<1>3. ASSUME NEW c \in Compactions, CompactCancel(c) \/ CompactRebuild(c) PROVE OnePlaceQuiet
  BY <1>3 DEF CompactCancel, CompactRebuild, OnePlaceQuiet
<1>4. ASSUME NEW c \in Compactions, CompactRecord(c) PROVE OnePlaceQuiet
  BY <1>1, <1>4, BareOfDialogue DEF CompactRecord, Persist, OnePlaceQuiet
<1>5. ASSUME CompactInstall PROVE OnePlaceQuiet
  BY <1>5 DEF CompactInstall, OnePlaceQuiet
<1>6. ASSUME NEW m \in Models, SetModelAnswer(m) PROVE OnePlaceQuiet
  BY <1>1, <1>6, BareOfDialogue
  DEF SetModelAnswer, RecordModel, Persist, convVars, AgentType, OnePlaceQuiet
<1>7. ASSUME DisposeFinish \/ DisposeFails PROVE OnePlaceQuiet
  BY <1>7 DEF DisposeFinish, DisposeFails, convVars, OnePlaceQuiet
<1>8. ASSUME NEW p \in Prompts, CommandAnswers(p) \/ PromptFails(p) PROVE OnePlaceQuiet
  BY <1>8 DEF CommandAnswers, PromptFails, OnePlaceQuiet
<1> QED
  BY <1>2, <1>3, <1>4, <1>5, <1>6, <1>7, <1>8, PromptSendOnePlace DEF Resumptions

LEMMA StepDialogueInv == DialogueInv /\ [Next]_vars => DialogueInv'
<1> SUFFICES ASSUME DialogueInv, [Next]_vars PROVE OnePlace'
  BY StepInv DEF DialogueInv
<1>1. CASE UNCHANGED vars
  BY <1>1 DEF vars, DialogueInv, OnePlace
<1> QED
  BY <1>1, CreationOnePlace, CrashOnePlace, CallsOnePlace, ResumptionsOnePlace, AgentLoopOnePlace
  DEF Next

\* No user message and no reply is logged twice, and a custom message only once
\* more than when it was sent, however queues, runs, compactions, crashes and
\* new sessions over the same log interleave.
THEOREM DialogueNotRepeated == Spec => []DialogueLoggedOnce
<1>1. Init => DialogueInv
  BY InitInv, InitOnePlace DEF DialogueInv
<1>2. DialogueInv => DialogueLoggedOnce
  BY DEF DialogueInv, OnePlace, Apart, LogHoldsOnce, DialogueLoggedOnce
<1> QED
  BY <1>1, <1>2, StepDialogueInv, PTL DEF Spec
-----------------------------------------------------------------------------
(* DialogueFromLog: what the agent holds, and what a compaction is about to *)
(* install, the log's context holds in the same order.                      *)

\* Entry k of the log bears m.
Bears(es, k, m) == BearsMessage(es[k]) /\ es[k].message = m

\* The dialogue of held, in terms of the entries that bear it.
Embedded(held, es) ==
  \A i \in DOMAIN held : held[i].role \in Roles =>
    /\ \E k \in ContextPositions(es) : Bears(es, k, held[i])
    /\ \A j \in DOMAIN held, k, l \in DOMAIN es :
         i < j /\ held[j].role \in Roles /\ Bears(es, k, held[i]) /\ Bears(es, l, held[j]) => k < l

\* A context waiting to be installed is that of a compact() call of its own,
\* and a lost session left none.
WaitingContexts ==
  /\ \A i \in DOMAIN rebuilt : compactions[rebuilt[i].call] = "rebuilt"
  /\ \A i, j \in DOMAIN rebuilt : rebuilt[i].call = rebuilt[j].call => i = j
  /\ ~Up => rebuilt = <<>> /\ \A c \in Compactions : compactions[c] \in {"unused", "over"}

NoneRecorded == \A c \in Compactions : compactions[c] # "recorded"

\* With no recorded compaction still to be read, the context installed last
\* will be of the present log: the one waiting last or, with none, the agent's.
FromLog ==
  Up /\ NoneRecorded =>
    IF rebuilt = <<>> THEN subscription # "none" => Embedded(messages, entries)
    ELSE Embedded(rebuilt[Len(rebuilt)].msgs, entries)

SyncInv == DialogueInv /\ MessagesTypeOK /\ WaitingContexts /\ FromLog

-----------------------------------------------------------------------------
\* What an entry appended to the log changes.
LEMMA AppendedEntry ==
  ASSUME NEW es \in Seq(Entry), NEW e \in Entry, ~IsCompaction(e), NEW fs, fs = Append(es, e)
  PROVE  /\ Len(es) \in Nat /\ DOMAIN es = 1 .. Len(es) /\ DOMAIN fs = 1 .. Len(es) + 1
         /\ fs \in Seq(Entry) /\ fs[Len(es) + 1] = e
         /\ \A k \in DOMAIN es : k \in DOMAIN fs /\ \A m : Bears(fs, k, m) <=> Bears(es, k, m)
         /\ ContextPositions(fs) = ContextPositions(es) \cup {Len(es) + 1}
         /\ ContextPositions(es) \subseteq DOMAIN es
<1>1. /\ Len(es) \in Nat /\ DOMAIN es = 1 .. Len(es) /\ DOMAIN fs = 1 .. Len(es) + 1
      /\ fs \in Seq(Entry) /\ fs[Len(es) + 1] = e
      /\ \A k \in 1 .. Len(es) : fs[k] = es[k]
  OBVIOUS
<1>2. ContextPositions(fs) = ContextPositions(es) \cup {Len(es) + 1}
  BY ContextPositionsAppend
<1>3. ContextPositions(es) \subseteq 1 .. Len(es)
  BY LatestCompactionType
<1> QED
  BY <1>1, <1>2, <1>3 DEF Bears

\* An entry that bears the same message of the dialogue is the same entry.
LEMMA BearsOnce ==
  ASSUME NEW es, LogHoldsOnce(es), NEW m, m.role \in Roles,
         NEW k \in DOMAIN es, Bears(es, k, m), NEW l \in DOMAIN es, Bears(es, l, m)
  PROVE  k = l
  BY DEF LogHoldsOnce, Bears

\* The log grows by an entry that compacts nothing.
LEMMA EmbeddedGrows ==
  ASSUME NEW es \in Seq(Entry), NEW e \in Entry, ~IsCompaction(e), NEW fs, fs = Append(es, e),
         LogHoldsOnce(fs), NEW held, Embedded(held, es)
  PROVE  Embedded(held, fs)
<1>1. /\ DOMAIN es = 1 .. Len(es) /\ DOMAIN fs = 1 .. Len(es) + 1
      /\ \A k \in DOMAIN es : k \in DOMAIN fs /\ \A m : Bears(fs, k, m) <=> Bears(es, k, m)
      /\ ContextPositions(fs) = ContextPositions(es) \cup {Len(es) + 1}
      /\ ContextPositions(es) \subseteq DOMAIN es
  BY AppendedEntry
<1>2. ASSUME NEW i \in DOMAIN held, held[i].role \in Roles
      PROVE  \E k \in ContextPositions(es) : k \in DOMAIN es /\ Bears(fs, k, held[i])
  BY <1>1, <1>2 DEF Embedded
<1>3. ASSUME NEW i \in DOMAIN held, held[i].role \in Roles, NEW k \in DOMAIN fs, Bears(fs, k, held[i])
      PROVE  k \in DOMAIN es /\ Bears(es, k, held[i])
  <2>1. PICK p \in DOMAIN es : Bears(fs, p, held[i])
    BY <1>2, <1>3
  <2>2. k = p
    BY <1>1, <1>3, <2>1, BearsOnce
  <2> QED
    BY <1>1, <1>3, <2>2
<1>4. ASSUME NEW i \in DOMAIN held, held[i].role \in Roles, NEW j \in DOMAIN held,
             NEW k \in DOMAIN fs, NEW l \in DOMAIN fs, i < j, held[j].role \in Roles,
             Bears(fs, k, held[i]), Bears(fs, l, held[j])
      PROVE  k < l
  BY <1>3, <1>4 DEF Embedded
<1>5. \A i \in DOMAIN held : held[i].role \in Roles =>
        \E k \in ContextPositions(fs) : Bears(fs, k, held[i])
  BY <1>1, <1>2
<1> QED
  BY <1>4, <1>5 DEF Embedded

\* The agent takes a message that is none of the dialogue.
LEMMA EmbeddedSilent ==
  ASSUME NEW es, NEW held \in Seq(Message), Embedded(held, es), NEW m, m.role \notin Roles
  PROVE  Embedded(Append(held, m), es)
<1> DEFINE more == Append(held, m)
<1>1. \A i \in DOMAIN more : more[i].role \in Roles => i \in DOMAIN held /\ more[i] = held[i]
  OBVIOUS
<1> HIDE DEF more
<1>2. Embedded(more, es)
  BY <1>1 DEF Embedded
<1> QED
  BY <1>2 DEF more

\* The agent takes a message and the log gets it in the same block.
LEMMA EmbeddedLogged ==
  ASSUME NEW es \in Seq(Entry), NEW m \in Message, NEW fs, fs = Append(es, MessageEntry(m)),
         LogHoldsOnce(fs), NEW held \in Seq(Message), Embedded(held, es)
  PROVE  Embedded(Append(held, m), fs)
<1> DEFINE more == Append(held, m)
           n    == Len(es) + 1
<1>1. MessageEntry(m) \in Entry /\ ~IsCompaction(MessageEntry(m))
  BY QuietEntries DEF MessageEntry, IsCompaction
<1>2. /\ Len(es) \in Nat /\ DOMAIN es = 1 .. Len(es) /\ DOMAIN fs = 1 .. Len(es) + 1
      /\ fs[n] = MessageEntry(m) /\ n \in ContextPositions(fs)
      /\ \A k \in DOMAIN es : k \in DOMAIN fs /\ \A x : Bears(fs, k, x) <=> Bears(es, k, x)
      /\ ContextPositions(es) \subseteq DOMAIN es
  BY <1>1, AppendedEntry
<1>3. Embedded(held, fs)
  BY <1>1, EmbeddedGrows
<1>4. Bears(fs, n, m) /\ n \in DOMAIN fs
  BY <1>2 DEF Bears, MessageEntry, BearsMessage
<1>5. /\ DOMAIN held = 1 .. Len(held) /\ DOMAIN more = 1 .. Len(held) + 1 /\ Len(held) \in Nat
      /\ more[Len(held) + 1] = m /\ \A i \in 1 .. Len(held) : more[i] = held[i]
  OBVIOUS
<1> HIDE DEF more, n
<1>6. ASSUME NEW i \in DOMAIN held, held[i].role \in Roles, NEW k \in DOMAIN fs, Bears(fs, k, held[i])
      PROVE  k \in DOMAIN es
  <2>1. PICK p \in DOMAIN es : Bears(fs, p, held[i])
    BY <1>2, <1>6 DEF Embedded
  <2>2. k = p
    BY <1>2, <1>6, <2>1, BearsOnce
  <2> QED
    BY <2>2
<1>7. \A i \in DOMAIN more : more[i].role \in Roles =>
        \E k \in ContextPositions(fs) : Bears(fs, k, more[i])
  <2> SUFFICES ASSUME NEW i \in DOMAIN more, more[i].role \in Roles
               PROVE  \E k \in ContextPositions(fs) : Bears(fs, k, more[i])
    OBVIOUS
  <2>1. CASE i \in DOMAIN held
    BY <1>3, <1>5, <2>1 DEF Embedded
  <2>2. CASE i = Len(held) + 1
    BY <1>2, <1>4, <1>5, <2>2
  <2> QED
    BY <1>5, <2>1, <2>2
<1>8. ASSUME NEW i \in DOMAIN more, more[i].role \in Roles, NEW j \in DOMAIN more,
             NEW k \in DOMAIN fs, NEW l \in DOMAIN fs, i < j, more[j].role \in Roles,
             Bears(fs, k, more[i]), Bears(fs, l, more[j])
      PROVE  k < l
  <2>1. i \in DOMAIN held /\ more[i] = held[i]
    BY <1>5, <1>8
  <2>2. CASE j \in DOMAIN held
    BY <1>3, <1>5, <1>8, <2>1, <2>2 DEF Embedded
  <2>3. CASE j = Len(held) + 1
    <3>1. l = n
      BY <1>4, <1>5, <1>8, <2>3, BearsOnce
    <3>2. k \in DOMAIN es
      BY <1>6, <1>8, <2>1
    <3> QED
      BY <1>2, <3>1, <3>2 DEF n
  <2> QED
    BY <1>5, <2>2, <2>3
<1>9. Embedded(more, fs)
  BY <1>7, <1>8 DEF Embedded
<1> QED
  BY <1>9 DEF more

\* Each message of the dialogue in ctx is borne by an entry that the context
\* keeps, at pos, in the same order; and ctx has each that these bear.
Placed(ctx, es, pos) ==
  /\ \A p \in DOMAIN ctx : ctx[p].role \in Roles =>
       pos[p] \in ContextPositions(es) /\ Bears(es, pos[p], ctx[p])
  /\ \A p, q \in DOMAIN ctx :
       ctx[p].role \in Roles /\ ctx[q].role \in Roles /\ p < q => pos[p] < pos[q]
  /\ \A k \in ContextPositions(es) :
       BearsMessage(es[k]) => \E p \in DOMAIN ctx : pos[p] = k /\ ctx[p] = es[k].message

\* The log's context, in terms of the entries it keeps.
LEMMA ContextByPosition ==
  ASSUME NEW es \in Seq(Entry)
  PROVE  /\ ContextMessages(es) \in Seq(Message)
         /\ \E pos : Placed(ContextMessages(es), es, pos)
<1> DEFINE ctx == ContextMessages(es)
<1>1. PICK head \in {<<>>, <<Summary>>} : \E x :
        ctx = head \o x /\ Extraction(x, es, ContextPositions(es))
  BY ContextShape
<1>2. PICK x : ctx = head \o x /\ Extraction(x, es, ContextPositions(es))
  BY <1>1
<1> DEFINE h == Len(head)
<1>3. x \in Seq(Message) /\ head \in Seq(Message) /\ h \in {0, 1}
  <2>1. Summary \in Message
    BY DEF Summary, Message
  <2>2. x \in Seq(Message)
    BY <1>2 DEF Extraction
  <2>3. CASE head = <<>>
    BY <2>2, <2>3
  <2>4. CASE head = <<Summary>>
    BY <2>1, <2>2, <2>4
  <2> QED
    BY <2>3, <2>4
<1>4. \A p \in 1 .. h : head[p].role \notin Roles
  <2>1. Summary.role \notin Roles
    BY DEF Summary, Roles
  <2>2. CASE head = <<>>
    BY <2>2
  <2>3. CASE head = <<Summary>>
    BY <2>1, <2>3
  <2> QED
    BY <2>2, <2>3
<1>5. /\ ctx \in Seq(Message) /\ DOMAIN ctx = 1 .. h + Len(x) /\ Len(x) \in Nat
      /\ DOMAIN x = 1 .. Len(x)
      /\ \A p \in 1 .. h : ctx[p] = head[p]
      /\ \A p \in 1 .. Len(x) : ctx[h + p] = x[p]
  BY <1>2, <1>3, ConcatProperties
<1>6. PICK px \in [DOMAIN x -> ContextPositions(es)] :
        /\ \A k \in DOMAIN x : BearsMessage(es[px[k]]) /\ x[k] = es[px[k]].message
        /\ \A k, l \in DOMAIN x : k < l => px[k] < px[l]
        /\ \A i \in ContextPositions(es) : BearsMessage(es[i]) => \E k \in DOMAIN x : px[k] = i
  BY <1>2 DEF Extraction
<1> DEFINE pos == [p \in 1 .. h + Len(x) |-> px[p - h]]
<1> HIDE DEF ctx, h
<1>7. ASSUME NEW p \in DOMAIN ctx, ctx[p].role \in Roles
      PROVE  p - h \in DOMAIN x /\ pos[p] = px[p - h] /\ ctx[p] = x[p - h] /\ p \in Nat
  <2>1. p \in 1 .. h + Len(x) /\ p \notin 1 .. h
    BY <1>4, <1>5, <1>7
  <2>2. p - h \in 1 .. Len(x) /\ h + (p - h) = p /\ p \in Nat
    BY <1>3, <1>5, <2>1
  <2> QED
    BY <1>5, <2>1, <2>2
<1>8. ASSUME NEW k \in ContextPositions(es), BearsMessage(es[k])
      PROVE  \E p \in DOMAIN ctx : pos[p] = k /\ ctx[p] = es[k].message
  <2>1. PICK q \in DOMAIN x : px[q] = k
    BY <1>6, <1>8
  <2>2. h + q \in 1 .. h + Len(x) /\ (h + q) - h = q /\ ctx[h + q] = x[q]
    <3>1. q \in 1 .. Len(x) /\ Len(x) \in Nat
      BY <1>5
    <3>2. h + q \in 1 .. h + Len(x) /\ (h + q) - h = q
      BY <1>3, <3>1
    <3> QED
      BY <1>5, <3>1, <3>2
  <2>3. x[q] = es[k].message
    BY <1>6, <2>1
  <2> QED
    BY <1>5, <2>1, <2>2, <2>3
<1> HIDE DEF pos
<1>9. ASSUME NEW p \in DOMAIN ctx, ctx[p].role \in Roles
      PROVE  pos[p] \in ContextPositions(es) /\ Bears(es, pos[p], ctx[p])
  BY <1>6, <1>7, <1>9 DEF Bears
<1>10. ASSUME NEW p \in DOMAIN ctx, ctx[p].role \in Roles, NEW q \in DOMAIN ctx,
              ctx[q].role \in Roles, p < q
       PROVE  pos[p] < pos[q]
  <2>1. /\ p - h \in DOMAIN x /\ q - h \in DOMAIN x /\ pos[p] = px[p - h] /\ pos[q] = px[q - h]
        /\ p \in Nat /\ q \in Nat
    BY <1>7, <1>10
  <2>2. p - h < q - h
    BY <1>3, <1>10, <2>1
  <2> QED
    BY <1>6, <2>1, <2>2
<1>11. Placed(ctx, es, pos)
  BY <1>8, <1>9, <1>10 DEF Placed
<1> QED
  BY <1>5, <1>11 DEF ctx

\* What is read from the log is embedded in it.
LEMMA ContextEmbedded ==
  ASSUME NEW es \in Seq(Entry), LogHoldsOnce(es)
  PROVE  ContextMessages(es) \in Seq(Message) /\ Embedded(ContextMessages(es), es)
<1> DEFINE ctx == ContextMessages(es)
<1>1. ctx \in Seq(Message)
  BY ContextByPosition
<1>2. PICK pos : Placed(ctx, es, pos)
  BY ContextByPosition
<1>3. ContextPositions(es) \subseteq DOMAIN es
  BY LatestCompactionType
<1> HIDE DEF ctx
<1>4. ASSUME NEW i \in DOMAIN ctx, ctx[i].role \in Roles, NEW j \in DOMAIN ctx,
             NEW k \in DOMAIN es, NEW l \in DOMAIN es, i < j, ctx[j].role \in Roles,
             Bears(es, k, ctx[i]), Bears(es, l, ctx[j])
      PROVE  k < l
  <2>1. k = pos[i] /\ l = pos[j]
    <3>1. /\ pos[i] \in DOMAIN es /\ Bears(es, pos[i], ctx[i])
          /\ pos[j] \in DOMAIN es /\ Bears(es, pos[j], ctx[j])
      BY <1>2, <1>3, <1>4 DEF Placed
    <3> QED
      BY <1>4, <3>1, BearsOnce
  <2> QED
    BY <1>2, <1>4, <2>1 DEF Placed
<1>5. Embedded(ctx, es)
  BY <1>2, <1>4 DEF Embedded, Placed
<1> QED
  BY <1>1, <1>5 DEF ctx

\* What is embedded in the log is in its context, in the same order.
LEMMA EmbeddedInOrder ==
  ASSUME NEW es \in Seq(Entry), NEW held, Embedded(held, es)
  PROVE  InOrderIn(held, ContextMessages(es))
<1> DEFINE ctx == ContextMessages(es)
<1>1. PICK pos : Placed(ctx, es, pos)
  BY ContextByPosition
<1>2. ContextPositions(es) \subseteq 1 .. Len(es) /\ DOMAIN es = 1 .. Len(es) /\ Len(es) \in Nat
  BY LatestCompactionType
<1>3. DOMAIN ctx = 1 .. Len(ctx) /\ Len(ctx) \in Nat
  BY ContextByPosition
<1> HIDE DEF ctx
<1>4. ASSUME NEW i \in DOMAIN held, held[i].role \in Roles
      PROVE  \E p \in DOMAIN ctx : ctx[p] = held[i]
  <2>1. PICK k \in ContextPositions(es) : Bears(es, k, held[i])
    BY <1>4 DEF Embedded
  <2> QED
    BY <1>1, <2>1 DEF Bears, Placed
<1>5. ASSUME NEW i \in DOMAIN held, held[i].role \in Roles, NEW j \in DOMAIN held,
             NEW p \in DOMAIN ctx, NEW q \in DOMAIN ctx, i < j, held[j].role \in Roles,
             ctx[p] = held[i], ctx[q] = held[j]
      PROVE  p < q
  <2>1. /\ pos[p] \in 1 .. Len(es) /\ Bears(es, pos[p], held[i])
        /\ pos[q] \in 1 .. Len(es) /\ Bears(es, pos[q], held[j])
    BY <1>1, <1>2, <1>5 DEF Placed
  <2>2. pos[p] < pos[q]
    BY <1>2, <1>5, <2>1 DEF Embedded
  <2>3. p \in Nat /\ q \in Nat /\ pos[p] \in Nat /\ pos[q] \in Nat
    BY <1>2, <1>3, <2>1
  <2>4. q < p => pos[q] < pos[p]
    BY <1>1, <1>5 DEF Placed
  <2> QED
    BY <2>2, <2>3, <2>4
<1>6. InOrderIn(held, ctx)
  BY <1>4, <1>5 DEF InOrderIn
<1> QED
  BY <1>6 DEF ctx
-----------------------------------------------------------------------------
\* A sequence after an Append, and one whose head is taken.
LEMMA Appended ==
  ASSUME NEW S, NEW q \in Seq(S), NEW e \in S, NEW r, r = Append(q, e)
  PROVE  /\ r \in Seq(S) /\ r # <<>> /\ Len(q) \in Nat /\ Len(r) = Len(q) + 1
         /\ DOMAIN q = 1 .. Len(q) /\ DOMAIN r = 1 .. Len(q) + 1 /\ r[Len(q) + 1] = e
         /\ \A i \in 1 .. Len(q) : r[i] = q[i] /\ q[i] \in S
  OBVIOUS

LEMMA HeadTaken ==
  ASSUME NEW S, NEW q \in Seq(S), q # <<>>, NEW r, r = Tail(q)
  PROVE  /\ r \in Seq(S) /\ Len(q) \in Nat \ {0} /\ Len(r) = Len(q) - 1
         /\ DOMAIN q = 1 .. Len(q) /\ DOMAIN r = 1 .. Len(q) - 1
         /\ 1 \in DOMAIN q /\ Head(q) = q[1]
         /\ \A i \in 1 .. Len(q) : q[i] \in S
         /\ \A i \in 1 .. Len(q) - 1 : i + 1 \in 1 .. Len(q) /\ i + 1 # 1 /\ r[i] = q[i + 1]
<1>1. /\ Head(q) \in S /\ Tail(q) \in Seq(S) /\ Len(Tail(q)) = Len(q) - 1
      /\ \A i \in 1 .. Len(Tail(q)) : Tail(q)[i] = q[i + 1]
  BY HeadTailProperties
<1>2. Len(q) \in Nat \ {0} /\ DOMAIN q = 1 .. Len(q) /\ Head(q) = q[1]
      /\ \A i \in 1 .. Len(q) : q[i] \in S
  OBVIOUS
<1>3. DOMAIN Tail(q) = 1 .. Len(Tail(q))
  BY <1>1
<1> QED
  BY <1>1, <1>2, <1>3

\* What a compact() call read.
Reading == [call : Compactions, msgs : Seq(Message)]

LEMMA ReadingsTyped ==
  ASSUME NEW q \in Seq(Reading)
  PROVE  /\ Len(q) \in Nat /\ DOMAIN q = 1 .. Len(q)
         /\ q # <<>> => 1 \in DOMAIN q
         /\ \A i \in DOMAIN q : q[i].call \in Compactions /\ q[i].msgs \in Seq(Message)
<1>1. \A x \in Reading : x.call \in Compactions /\ x.msgs \in Seq(Message)
  BY DEF Reading
<1> QED
  BY <1>1

LEMMA InitSync == Init => MessagesTypeOK /\ WaitingContexts /\ FromLog
  BY DEF Init, MessagesTypeOK, WaitingContexts, FromLog, Up, NoSession

\* What the next steps use of SyncInv.
LEMMA SyncFacts ==
  ASSUME SyncInv
  PROVE  /\ entries \in Seq(Entry) /\ messages \in Seq(Message)
         /\ rebuilt \in Seq(Reading)
         /\ compactions \in [Compactions -> {"unused", "handlers", "recorded", "rebuilt", "over"}]
         /\ agent \in AgentType /\ run \in RunType /\ clock \in Nat
         /\ run.phase = "started" => run.input \in Message
         /\ LogHoldsOnce(entries)
  BY DialogueFacts DEF SyncInv, MessagesTypeOK, DialogueInv, Inv, StateTypeOK, Apart, Reading

\* A step that gives the agent at most a message that is none of the dialogue,
\* compacts nothing, and leaves every compact() call where it is.
SyncQuiet ==
  /\ \/ messages' = messages
     \/ \E m \in Message : m.role \notin Roles /\ messages' = Append(messages, m)
  /\ \/ entries' = entries
     \/ \E e \in Entry : ~IsCompaction(e) /\ entries' = Append(entries, e)
  /\ session' = session
  /\ subscription' # "none" => subscription # "none"
  /\ UNCHANGED <<compactions, rebuilt>>

LEMMA QuietSync ==
  ASSUME SyncInv, LogHoldsOnce(entries)', SyncQuiet
  PROVE  MessagesTypeOK' /\ WaitingContexts' /\ FromLog'
<1>1. /\ entries \in Seq(Entry) /\ messages \in Seq(Message)
      /\ rebuilt \in Seq(Reading)
  BY SyncFacts
<1>2. LogHoldsOnce(entries')
  OBVIOUS
<1>3. MessagesTypeOK'
  <2>1. messages' \in Seq(Message)
    BY <1>1 DEF SyncQuiet
  <2>2. rebuilt' = rebuilt
    BY DEF SyncQuiet
  <2> QED
    BY <1>1, <2>1, <2>2 DEF MessagesTypeOK, Reading
<1>4. WaitingContexts'
  BY DEF SyncInv, SyncQuiet, WaitingContexts, Up
<1>5. ASSUME NEW held, Embedded(held, entries) PROVE Embedded(held, entries')
  <2>1. CASE entries' = entries
    BY <1>5, <2>1
  <2>2. ASSUME NEW e \in Entry, ~IsCompaction(e), entries' = Append(entries, e)
        PROVE  Embedded(held, entries')
    BY <1>1, <1>2, <1>5, <2>2, EmbeddedGrows
  <2> QED
    BY <2>1, <2>2 DEF SyncQuiet
<1>6. ASSUME Embedded(messages, entries) PROVE Embedded(messages', entries')
  <2>1. Embedded(messages', entries)
    BY <1>1, <1>6, EmbeddedSilent DEF SyncQuiet
  <2> QED
    BY <1>5, <2>1
<1>7. FromLog'
  BY <1>5, <1>6 DEF SyncInv, SyncQuiet, FromLog, NoneRecorded, Up
<1> QED
  BY <1>3, <1>4, <1>7

\* The entries that compact nothing.
LEMMA UncompactingEntries ==
  /\ \A m \in Models, l \in Levels :
       ModelChangeEntry(m, l) \in Entry /\ ~IsCompaction(ModelChangeEntry(m, l))
  /\ \A l \in Levels : ThinkingChangeEntry(l) \in Entry /\ ~IsCompaction(ThinkingChangeEntry(l))
  /\ \A t \in {"customEntry", "label"} : BareEntry(t) \in Entry /\ ~IsCompaction(BareEntry(t))
  /\ \A m \in Message : MessageEntry(m) \in Entry /\ ~IsCompaction(MessageEntry(m))
  /\ \A m \in Message : CustomMessageEntry(m) \in Entry /\ ~IsCompaction(CustomMessageEntry(m))
  BY DEF ModelChangeEntry, ThinkingChangeEntry, BareEntry, MessageEntry, CustomMessageEntry, Entry,
         IsCompaction

\* A session being created has no compact() call; when it is up its messages
\* are the context of the log it was created over.
LEMMA CreationSyncs ==
  ASSUME SyncInv, LogHoldsOnce(entries)', Creation
  PROVE  MessagesTypeOK' /\ WaitingContexts' /\ FromLog'
<1>1. /\ entries \in Seq(Entry) /\ messages \in Seq(Message)
      /\ rebuilt \in Seq(Reading)
      /\ LogHoldsOnce(entries) /\ LogHoldsOnce(entries')
  BY SyncFacts
<1>2. ~Up
  BY DEF Creation, CreateSession, PersistModel, PersistLevelAndConstruct, Up
<1>3. rebuilt = <<>> /\ \A c \in Compactions : compactions[c] \in {"unused", "over"}
  BY <1>2 DEF SyncInv, WaitingContexts
<1>4. UNCHANGED <<compactions, rebuilt>>
  BY DEF Creation, CreateSession, PersistModel, PersistLevelAndConstruct, convVars
<1>5. WaitingContexts'
  BY <1>3, <1>4 DEF WaitingContexts
<1>6. CASE CreateSession \/ PersistModel
  <2>1. messages' = messages
    BY <1>6 DEF CreateSession, PersistModel
  <2>2. session'.phase \in {"resolved", "modelPersisted"}
    <3>1. session \in [phase : {"down", "resolved", "modelPersisted", "up"},
                       model : Models \cup {NoModel}, level : Levels,
                       ctx : [model : Models \cup {NoModel}, level : Levels]]
      BY DEF SyncInv, DialogueInv, Inv, StateTypeOK
    <3>2. CASE CreateSession
      BY <3>2 DEF CreateSession
    <3>3. CASE PersistModel
      <4>1. session' = [session EXCEPT !.phase = "modelPersisted"]
        BY <3>3 DEF PersistModel
      <4> QED
        BY <3>1, <4>1
    <3> QED
      BY <1>6, <3>2, <3>3
  <2> QED
    BY <1>1, <1>4, <1>5, <2>1, <2>2 DEF MessagesTypeOK, FromLog, Reading, Up
<1>7. CASE PersistLevelAndConstruct
  <2>1. messages' = ContextMessages(entries)
    BY <1>7 DEF PersistLevelAndConstruct
  <2>2. \/ entries' = entries
        \/ \E e \in Entry : ~IsCompaction(e) /\ entries' = Append(entries, e)
    <3>1. session.level \in Levels
      BY DEF SyncInv, DialogueInv, Inv, StateTypeOK
    <3> QED
      BY <1>7, <3>1, UncompactingEntries DEF PersistLevelAndConstruct, Persist
  <2>3. messages' \in Seq(Message) /\ Embedded(messages', entries)
    BY <1>1, <2>1, ContextEmbedded
  <2>4. Embedded(messages', entries')
    BY <1>1, <2>2, <2>3, EmbeddedGrows
  <2> QED
    BY <1>1, <1>3, <1>4, <1>5, <2>3, <2>4 DEF MessagesTypeOK, FromLog, Reading
<1> QED
  BY <1>6, <1>7 DEF Creation

LEMMA CrashSyncs == ASSUME Crash PROVE MessagesTypeOK' /\ WaitingContexts' /\ FromLog'
<1>1. /\ messages' = <<>> /\ rebuilt' = <<>> /\ ~Up'
      /\ \A c \in Compactions : compactions'[c] \in {"unused", "over"}
  BY DEF Crash, NoSession, Up
<1> QED
  BY <1>1 DEF MessagesTypeOK, WaitingContexts, FromLog

LEMMA PromptSendSyncQuiet == ASSUME SyncInv, NEW p \in Prompts, PromptSend(p) PROVE SyncQuiet
<1>1. NewMessage("custom") \in Message /\ NewMessage("custom").role \notin Roles
  BY SyncFacts DEF NewMessage, Message, Roles
<1>2. messages' \in {messages, Append(messages, NewMessage("custom"))}
  BY DEF PromptSend
<1>3. UNCHANGED <<entries, session, subscription, compactions, rebuilt>>
  BY DEF PromptSend
<1> QED
  BY <1>1, <1>2, <1>3 DEF SyncQuiet

\* A message_end gives the message to the agent and, unless the session has
\* left it, to the log.
LEMMA MessageEndSyncs ==
  ASSUME SyncInv, LogHoldsOnce(entries)', NEW m \in Message, NEW q, MessageEnd(m, q), AgentStep
  PROVE  MessagesTypeOK' /\ WaitingContexts' /\ FromLog'
<1>1. /\ entries \in Seq(Entry) /\ messages \in Seq(Message)
      /\ rebuilt \in Seq(Reading)
      /\ LogHoldsOnce(entries')
  BY SyncFacts
<1>2. UNCHANGED <<session, subscription, compactions, rebuilt>>
  BY DEF AgentStep
<1>3. messages' = Append(messages, m)
  BY DEF MessageEnd
<1>4. MessagesTypeOK'
  BY <1>1, <1>2, <1>3 DEF MessagesTypeOK, Reading
<1>5. WaitingContexts'
  BY <1>2 DEF SyncInv, WaitingContexts, Up
<1>6. CASE subscription \in {"subscribed", "closing"}
  <2>1. entries' = Append(entries, MessageEntry(m))
    BY <1>6 DEF MessageEnd, Persist
  <2>2. Embedded(messages, entries) => Embedded(messages', entries')
    BY <1>1, <1>3, <2>1, EmbeddedLogged
  <2>3. \A held : Embedded(held, entries) => Embedded(held, entries')
    BY <1>1, <2>1, EmbeddedGrows, UncompactingEntries
  <2>4. FromLog'
    BY <1>2, <2>2, <2>3 DEF SyncInv, FromLog, NoneRecorded, Up
  <2> QED
    BY <1>4, <1>5, <2>4
<1>7. CASE subscription = "none"
  <2>1. entries' = entries
    BY <1>7 DEF MessageEnd
  <2>2. FromLog'
    BY <1>2, <1>7, <2>1 DEF SyncInv, FromLog, NoneRecorded, Up
  <2> QED
    BY <1>4, <1>5, <2>2
<1>8. subscription \in {"none", "subscribed", "closing"}
  BY DEF SyncInv, DialogueInv, Inv, StateTypeOK
<1> QED
  BY <1>6, <1>7, <1>8

LEMMA AgentLoopSyncs ==
  ASSUME SyncInv, LogHoldsOnce(entries)', AgentLoop
  PROVE  MessagesTypeOK' /\ WaitingContexts' /\ FromLog'
<1>1. /\ agent \in AgentType /\ clock \in Nat
      /\ run.phase = "started" => run.input \in Message
  BY SyncFacts
<1>2. ASSUME NEW m \in Message, NEW q, MessageEnd(m, q), AgentStep
      PROVE  MessagesTypeOK' /\ WaitingContexts' /\ FromLog'
  BY <1>2, MessageEndSyncs
<1>3. CASE RunInput
  <2>1. run.input \in Message /\ MessageEnd(run.input, agent) /\ AgentStep
    BY <1>1, <1>3 DEF RunInput
  <2> QED
    BY <1>2, <2>1
<1>4. CASE RunReply
  <2>1. NewMessage("reply") \in Message
    BY <1>1 DEF NewMessage, Message
  <2>2. MessageEnd(NewMessage("reply"), agent) /\ AgentStep
    BY <1>4 DEF RunReply
  <2> QED
    BY <1>2, <2>1, <2>2
<1>5. CASE RunTakesSteering
  <2>1. Head(agent.steering) \in Message
    BY <1>1, <1>5 DEF RunTakesSteering, AgentType
  <2>2. MessageEnd(Head(agent.steering), [agent EXCEPT !.steering = Tail(@)]) /\ AgentStep
    BY <1>5 DEF RunTakesSteering
  <2> QED
    BY <1>2, <2>1, <2>2
<1>6. CASE RunTakesFollowUp
  <2>1. Head(agent.followUps) \in Message
    BY <1>1, <1>6 DEF RunTakesFollowUp, AgentType
  <2>2. MessageEnd(Head(agent.followUps), [agent EXCEPT !.followUps = Tail(@)]) /\ AgentStep
    BY <1>6 DEF RunTakesFollowUp
  <2> QED
    BY <1>2, <2>1, <2>2
<1>7. CASE RunContinues \/ RunStops \/ RunEnds
  <2>1. SyncQuiet
    BY <1>7 DEF RunContinues, RunStops, RunEnds, AgentStep, SyncQuiet
  <2> QED
    BY <2>1, QuietSync
<1> QED
  BY <1>3, <1>4, <1>5, <1>6, <1>7 DEF AgentLoop

-----------------------------------------------------------------------------
\* The steps of compact().
LEMMA CompactSyncs ==
  ASSUME SyncInv, NEW c \in Compactions, CompactCall(c) \/ CompactCancel(c) \/ CompactRecord(c)
  PROVE  MessagesTypeOK' /\ WaitingContexts' /\ FromLog'
<1>1. /\ messages' = messages /\ rebuilt' = rebuilt /\ session' = session
      /\ subscription' = subscription /\ compactions[c] \in {"unused", "handlers"}
      /\ compactions \in [Compactions -> {"unused", "handlers", "recorded", "rebuilt", "over"}]
      /\ rebuilt \in Seq(Reading)
  BY SyncFacts DEF CompactCall, CompactCancel, CompactRecord
<1>2. \A i \in DOMAIN rebuilt : rebuilt[i].call \in Compactions
  BY <1>1, ReadingsTyped
<1>3. PICK at \in {"handlers", "over", "recorded"} :
        /\ compactions' = [compactions EXCEPT ![c] = at]
        /\ at # "recorded" => entries' = entries
  BY DEF CompactCall, CompactCancel, CompactRecord
<1>4. Up
  <2>1. ~Up => \A d \in Compactions : compactions[d] \in {"unused", "over"}
    BY DEF SyncInv, WaitingContexts
  <2> QED
    BY <1>1, <2>1 DEF CompactCall, CompactCancel, CompactRecord, Call
<1>5. MessagesTypeOK'
  BY <1>1 DEF SyncInv, MessagesTypeOK
<1>6. WaitingContexts'
  <2>1. \A i \in DOMAIN rebuilt : rebuilt[i].call # c
    BY <1>1 DEF SyncInv, WaitingContexts
  <2> QED
    BY <1>1, <1>2, <1>3, <1>4, <2>1 DEF SyncInv, WaitingContexts, Up
<1>7. CASE at = "recorded"
  BY <1>1, <1>3, <1>5, <1>6, <1>7 DEF FromLog, NoneRecorded
<1>8. CASE at # "recorded"
  <2>1. NoneRecorded' <=> NoneRecorded
    BY <1>1, <1>3, <1>8 DEF NoneRecorded
  <2> QED
    BY <1>1, <1>3, <1>5, <1>6, <1>8, <2>1 DEF SyncInv, FromLog, Up
<1> QED
  BY <1>7, <1>8

LEMMA CompactRebuildSyncs ==
  ASSUME SyncInv, NEW c \in Compactions, CompactRebuild(c)
  PROVE  MessagesTypeOK' /\ WaitingContexts' /\ FromLog'
<1> DEFINE read == [call |-> c, msgs |-> ContextMessages(entries)]
           N    == Len(rebuilt)
<1>1. /\ entries \in Seq(Entry) /\ messages \in Seq(Message) /\ LogHoldsOnce(entries)
      /\ rebuilt \in Seq(Reading)
      /\ compactions \in [Compactions -> {"unused", "handlers", "recorded", "rebuilt", "over"}]
  BY SyncFacts
<1>2. /\ compactions[c] = "recorded" /\ compactions' = [compactions EXCEPT ![c] = "rebuilt"]
      /\ rebuilt' = Append(rebuilt, read)
      /\ UNCHANGED <<messages, entries, session, subscription>>
  BY DEF CompactRebuild
<1>3. ContextMessages(entries) \in Seq(Message) /\ Embedded(ContextMessages(entries), entries)
  BY <1>1, ContextEmbedded
<1>4. read \in Reading /\ read.call = c /\ read.msgs = ContextMessages(entries)
  BY <1>3 DEF Reading
<1> HIDE DEF read
<1>5. /\ N \in Nat /\ DOMAIN rebuilt = 1 .. N /\ DOMAIN rebuilt' = 1 .. N + 1 /\ Len(rebuilt') = N + 1
      /\ rebuilt'[N + 1] = read /\ \A i \in 1 .. N : rebuilt'[i] = rebuilt[i]
      /\ rebuilt' \in Seq(Reading) /\ rebuilt' # <<>>
      /\ \A i \in 1 .. N : rebuilt[i].call \in Compactions
  BY <1>1, <1>2, <1>4, Appended, ReadingsTyped
<1> HIDE DEF N
<1>6. MessagesTypeOK'
  BY <1>1, <1>2, <1>5 DEF MessagesTypeOK, Reading
<1>7. WaitingContexts'
  <2>1. /\ \A i \in 1 .. N : compactions[rebuilt[i].call] = "rebuilt" /\ rebuilt[i].call # c
        /\ \A i, j \in 1 .. N : rebuilt[i].call = rebuilt[j].call => i = j
    BY <1>2, <1>5 DEF SyncInv, WaitingContexts
  <2>2. Up'
    BY <1>2 DEF SyncInv, WaitingContexts, Up
  <2>3. \A i \in 1 .. N + 1 : compactions'[rebuilt'[i].call] = "rebuilt"
    BY <1>1, <1>2, <1>4, <1>5, <2>1
  <2>4. \A i, j \in 1 .. N + 1 : rebuilt'[i].call = rebuilt'[j].call => i = j
    <3>1. \A i \in 1 .. N + 1 : i \in 1 .. N \/ i = N + 1
      BY <1>5
    <3> QED
      BY <1>4, <1>5, <2>1, <3>1
  <2> QED
    BY <1>5, <2>2, <2>3, <2>4 DEF WaitingContexts
<1>8. FromLog'
  <2>1. rebuilt' # <<>> /\ rebuilt'[Len(rebuilt')].msgs = ContextMessages(entries)
    BY <1>4, <1>5
  <2> QED
    BY <1>2, <1>3, <2>1 DEF FromLog
<1> QED
  BY <1>6, <1>7, <1>8

\* The context installed last stays the one waiting last, or becomes the agent's.
LEMMA CompactInstallSyncs ==
  ASSUME SyncInv, CompactInstall
  PROVE  MessagesTypeOK' /\ WaitingContexts' /\ FromLog'
<1> DEFINE N == Len(rebuilt)
           c == rebuilt[1].call
<1>1. /\ rebuilt \in Seq(Reading) /\ rebuilt # <<>>
      /\ compactions \in [Compactions -> {"unused", "handlers", "recorded", "rebuilt", "over"}]
  BY SyncFacts DEF CompactInstall
<1>2. /\ N \in Nat \ {0} /\ DOMAIN rebuilt = 1 .. N /\ Head(rebuilt) = rebuilt[1]
      /\ rebuilt' \in Seq(Reading) /\ Len(rebuilt') = N - 1 /\ DOMAIN rebuilt' = 1 .. N - 1
      /\ \A i \in 1 .. N - 1 : rebuilt'[i] = rebuilt[i + 1]
      /\ \A i \in 1 .. N : rebuilt[i].call \in Compactions /\ rebuilt[i].msgs \in Seq(Message)
      /\ 1 \in 1 .. N
  <2>1. rebuilt' = Tail(rebuilt)
    BY DEF CompactInstall
  <2> QED
    BY <1>1, <2>1, HeadTaken, ReadingsTyped
<1>3. /\ messages' = rebuilt[1].msgs /\ compactions' = [compactions EXCEPT ![c] = "over"]
      /\ UNCHANGED <<entries, session, subscription>>
  BY <1>2 DEF CompactInstall
<1>4. \A i \in 1 .. N - 1 : i + 1 \in 1 .. N /\ i + 1 # 1
  BY <1>2
<1>5. /\ \A i \in 1 .. N : compactions[rebuilt[i].call] = "rebuilt"
      /\ \A i, j \in 1 .. N : rebuilt[i].call = rebuilt[j].call => i = j
      /\ Up
  BY <1>1, <1>2 DEF SyncInv, WaitingContexts
<1> HIDE DEF N, c
<1>6. MessagesTypeOK'
  BY <1>2, <1>3 DEF MessagesTypeOK, Reading
<1>7. WaitingContexts'
  <2>1. \A i \in 1 .. N - 1 : rebuilt'[i].call = rebuilt[i + 1].call /\ rebuilt[i + 1].call \in Compactions
                              /\ rebuilt[i + 1].call # c /\ compactions[rebuilt[i + 1].call] = "rebuilt"
    BY <1>2, <1>3, <1>4, <1>5 DEF c
  <2>2. \A i \in 1 .. N - 1 : compactions'[rebuilt'[i].call] = "rebuilt"
    BY <1>1, <1>3, <2>1
  <2>3. \A i, j \in 1 .. N - 1 : rebuilt'[i].call = rebuilt'[j].call => i = j
    <3> SUFFICES ASSUME NEW i \in 1 .. N - 1, NEW j \in 1 .. N - 1,
                        rebuilt'[i].call = rebuilt'[j].call
                 PROVE  i = j
      OBVIOUS
    <3>1. i + 1 = j + 1
      BY <1>4, <1>5, <2>1
    <3> QED
      BY <1>2, <3>1
  <2>4. DOMAIN rebuilt' = 1 .. N - 1
    BY <1>2, <1>3
  <2>5. Up'
    BY <1>3, <1>5 DEF Up
  <2> QED
    BY <2>2, <2>3, <2>4, <2>5 DEF WaitingContexts
<1>8. NoneRecorded' => NoneRecorded
  <2>1. c \in Compactions /\ compactions[c] = "rebuilt"
    BY <1>2, <1>5 DEF c
  <2> QED
    BY <1>1, <1>3, <2>1 DEF NoneRecorded
<1>9. FromLog'
  <2> SUFFICES ASSUME NoneRecorded'
               PROVE  IF rebuilt' = <<>> THEN subscription' # "none" => Embedded(messages', entries')
                      ELSE Embedded(rebuilt'[Len(rebuilt')].msgs, entries')
    BY DEF FromLog
  <2>1. Embedded(rebuilt[N].msgs, entries)
    BY <1>1, <1>5, <1>8 DEF SyncInv, FromLog, N
  <2>2. CASE rebuilt' = <<>>
    <3>1. Len(rebuilt') = 0
      BY <2>2
    <3>2. N = 1
      BY <1>2, <3>1
    <3> QED
      BY <1>3, <2>1, <2>2, <3>2
  <2>3. CASE rebuilt' # <<>>
    <3>1. Len(rebuilt') # 0
      BY <1>2, <2>3
    <3>2. Len(rebuilt') = N - 1 /\ N - 1 \in 1 .. N - 1 /\ (N - 1) + 1 = N
      BY <1>2, <3>1
    <3>3. rebuilt'[Len(rebuilt')] = rebuilt[N]
      BY <1>2, <3>2
    <3> QED
      BY <1>3, <2>1, <2>3, <3>3
  <2> QED
    BY <2>2, <2>3
<1> QED
  BY <1>6, <1>7, <1>9

-----------------------------------------------------------------------------
\* The calls that leave compact() alone.
LEMMA CallsSyncQuiet ==
  ASSUME SyncInv, Calls, ~\E c \in Compactions : CompactCall(c)
  PROVE  SyncQuiet
<1>1. /\ clock \in Nat
      /\ NewMessage("custom") \in Message /\ NewMessage("custom").role \notin Roles
  BY SyncFacts DEF NewMessage, Message, Roles
<1>2. ASSUME NEW p \in Prompts, PromptCall(p) PROVE SyncQuiet
  BY <1>2 DEF PromptCall, SyncQuiet
<1>3. ASSUME Abort PROVE SyncQuiet
  BY <1>3 DEF Abort, SyncQuiet
<1>4. ASSUME NEW queue \in {"none", "steering", "followUps"}, SendMessage(queue) PROVE SyncQuiet
  <2>1. /\ messages' \in {messages, Append(messages, NewMessage("custom"))}
        /\ entries' = Append(entries, CustomMessageEntry(NewMessage("custom")))
        /\ UNCHANGED <<session, subscription, compactions, rebuilt>>
    BY <1>4 DEF SendMessage, Persist, convVars
  <2> QED
    BY <1>1, <2>1, UncompactingEntries DEF SyncQuiet
<1>5. ASSUME NEW queue \in {"steering", "followUps"}, QueueUserMessage(queue) PROVE SyncQuiet
  BY <1>5 DEF QueueUserMessage, convVars, SyncQuiet
<1>6. ASSUME NEW type \in {"customEntry", "label"}, AppendBareEntry(type) PROVE SyncQuiet
  BY <1>6, UncompactingEntries DEF AppendBareEntry, Persist, convVars, SyncQuiet
<1>7. ASSUME NEW m \in Models, SetModelCall(m) PROVE SyncQuiet
  BY <1>7 DEF SetModelCall, convVars, SyncQuiet
<1>8. ASSUME NEW l \in Levels, SetThinkingLevel(l) PROVE SyncQuiet
  BY <1>8, UncompactingEntries DEF SetThinkingLevel, Persist, convVars, SyncQuiet
<1>9. ASSUME NEW t \in Tools, RegisterTool(t) PROVE SyncQuiet
  BY <1>9 DEF RegisterTool, convVars, SyncQuiet
<1>10. ASSUME NEW names \in SUBSET Tools, SetActiveTools(names) PROVE SyncQuiet
  BY <1>10 DEF SetActiveTools, convVars, SyncQuiet
<1>11. ASSUME DisposeCall PROVE SyncQuiet
  BY <1>11 DEF DisposeCall, convVars, SyncQuiet
<1> QED
  BY <1>2, <1>3, <1>4, <1>5, <1>6, <1>7, <1>8, <1>9, <1>10, <1>11 DEF Calls

LEMMA StepSync == SyncInv /\ [Next]_vars => SyncInv'
<1> SUFFICES ASSUME SyncInv, [Next]_vars PROVE MessagesTypeOK' /\ WaitingContexts' /\ FromLog'
  BY StepDialogueInv DEF SyncInv
<1>1. LogHoldsOnce(entries)'
  BY StepDialogueInv DEF SyncInv, DialogueInv, OnePlace, Apart
<1>2. ASSUME SyncQuiet PROVE MessagesTypeOK' /\ WaitingContexts' /\ FromLog'
  BY <1>1, <1>2, QuietSync
<1>3. CASE Calls
  BY <1>2, <1>3, CallsSyncQuiet, CompactSyncs
<1>4. CASE Resumptions
  <2>1. ASSUME NEW p \in Prompts, CommandAnswers(p) \/ PromptFails(p) \/ PromptSend(p)
        PROVE  MessagesTypeOK' /\ WaitingContexts' /\ FromLog'
    <3>1. SyncQuiet
      BY <2>1, PromptSendSyncQuiet DEF CommandAnswers, PromptFails, SyncQuiet
    <3> QED
      BY <1>2, <3>1
  <2>2. ASSUME NEW m \in Models, SetModelAnswer(m)
        PROVE  MessagesTypeOK' /\ WaitingContexts' /\ FromLog'
    <3>1. agent.level \in Levels
      BY SyncFacts DEF AgentType
    <3>2. SyncQuiet
      BY <2>2, <3>1, UncompactingEntries DEF SetModelAnswer, RecordModel, Persist, convVars, SyncQuiet
    <3> QED
      BY <1>2, <3>2
  <2>3. CASE DisposeFinish \/ DisposeFails
    <3>1. SyncQuiet
      BY <2>3 DEF DisposeFinish, DisposeFails, convVars, SyncQuiet
    <3> QED
      BY <1>2, <3>1
  <2> QED
    BY <1>4, <2>1, <2>2, <2>3, CompactSyncs, CompactRebuildSyncs, CompactInstallSyncs DEF Resumptions
<1>5. CASE UNCHANGED vars
  BY <1>2, <1>5 DEF vars, SyncQuiet
<1> QED
  BY <1>1, <1>3, <1>4, <1>5, CreationSyncs, CrashSyncs, AgentLoopSyncs DEF Next

LEMMA SyncAlways == Spec => []SyncInv
<1>1. Init => SyncInv
  BY InitInv, InitOnePlace, InitSync DEF SyncInv, DialogueInv
<1> QED
  BY <1>1, StepSync, PTL DEF Spec

\* Every variable has its type: the lists of messages that runs, compactions
\* and restored sessions install hold messages.
THEOREM SessionTypeCorrect == Spec => []TypeOK
<1>1. SyncInv => TypeOK
  BY DEF SyncInv, DialogueInv, Inv, TypeOK
<1> QED
  BY <1>1, SyncAlways, PTL

\* What the agent holds of the dialogue, a session restored from the log would
\* hold in the same order, whatever compact() calls overlap and wherever runs,
\* queued messages, crashes and new sessions come between their steps.
THEOREM DialogueRestores == Spec => []DialogueFromLog
<1>1. SyncInv => DialogueFromLog
  <2> SUFFICES ASSUME SyncInv, Up, subscription # "none", NoCompactionPending
               PROVE  InOrderIn(messages, ContextMessages(entries))
    BY DEF DialogueFromLog
  <2>1. entries \in Seq(Entry) /\ rebuilt \in Seq(Reading)
    BY SyncFacts
  <2>2. NoneRecorded
    BY DEF NoCompactionPending, NoneRecorded
  <2>3. rebuilt = <<>>
    <3>1. ASSUME rebuilt # <<>> PROVE FALSE
      <4>1. 1 \in DOMAIN rebuilt /\ rebuilt[1].call \in Compactions
        BY <2>1, <3>1, ReadingsTyped
      <4> QED
        BY <4>1 DEF SyncInv, WaitingContexts, NoCompactionPending
    <3> QED
      BY <3>1
  <2>4. Embedded(messages, entries)
    BY <2>2, <2>3 DEF SyncInv, FromLog
  <2> QED
    BY <2>1, <2>4, EmbeddedInOrder
<1> QED
  BY <1>1, SyncAlways, PTL
=============================================================================
