----------------------- MODULE FileMutationQueueProofs -----------------------
(***************************************************************************)
(* Proofs about FileMutationQueue, for any paths and any number of calls:  *)
(* the queue's order and its entries, that without bash commands the tools *)
(* implement FileStore, and that with them an edit still loses nothing.    *)
(***************************************************************************)
EXTENDS FileMutationQueue, TLAPS

\* A call that was made has a path, and is in progress or over.
Made ==
  \A i \in Ids : i <= arrived => calls[i].path \in Paths /\ calls[i].at # "unused"

\* A path's entry is its latest call, not over; without one, all are over.
TailIsLatest ==
  \A p \in Paths :
    /\ tail[p] = 0 => \A i \in Ids : i <= arrived /\ calls[i].path = p => calls[i].at = "over"
    /\ tail[p] # 0 => /\ tail[p] <= arrived
                      /\ calls[tail[p]].path = p
                      /\ calls[tail[p]].at # "over"
                      /\ \A i \in Ids : i <= arrived /\ calls[i].path = p => i <= tail[p]

\* A call chained itself to the latest call of its path, or all were over.
ChainLinks ==
  \A i \in Ids : i <= arrived =>
    /\ calls[i].prev < i
    /\ calls[i].prev = 0 =>
         \A j \in Ids : j < i /\ calls[j].path = calls[i].path => calls[j].at = "over"
    /\ calls[i].prev # 0 =>
         /\ calls[calls[i].prev].path = calls[i].path
         /\ \A j \in Ids : calls[j].path = calls[i].path /\ j < i => j <= calls[i].prev

Inv == TypeOK /\ Made /\ TailIsLatest /\ ChainLinks /\ FirstComeFirstServed

LEMMA NoCallType == NoCall \in CallRecord /\ NoCall.at = "unused" /\ NoCall.prev = 0
BY BoundsAssumption DEF NoCall, CallRecord

LEMMA InitInv == Init => Inv
<1> SUFFICES ASSUME Init PROVE Inv
  OBVIOUS
<1>1. TypeOK
  BY BoundsAssumption, NoCallType DEF Init, TypeOK, Ids
<1>2. \A i \in Ids : calls[i].at = "unused" /\ ~(i <= arrived)
  BY BoundsAssumption, NoCallType DEF Init, Ids
<1>3. Made /\ TailIsLatest /\ ChainLinks /\ FirstComeFirstServed
  BY <1>2 DEF Init, Made, TailIsLatest, ChainLinks, FirstComeFirstServed
<1> QED
  BY <1>1, <1>3 DEF Inv

LEMMA PrevType ==
  ASSUME TypeOK, NEW i \in Ids
  PROVE  calls[i].prev \in 0 .. MaxCalls /\ (calls[i].prev # 0 => calls[i].prev \in Ids)
<1>1. calls[i] \in CallRecord
  BY DEF TypeOK
<1> QED
  BY <1>1, BoundsAssumption DEF CallRecord, Ids

LEMMA Admitted ==
  ASSUME Inv, NEW i \in Ids, calls[i].at \in {"queued", "read"}, calls[i].at = "queued" => LetIn(i)
  PROVE  i <= arrived /\ \A j \in Ids : j < i /\ calls[j].path = calls[i].path => calls[j].at = "over"
<1>1. i <= arrived
  BY NoCallType DEF Inv, TypeOK, Ids
<1>2. CASE calls[i].at = "read"
  BY <1>1, <1>2 DEF Inv, FirstComeFirstServed
<1>3. CASE calls[i].at = "queued" /\ calls[i].prev = 0
  BY <1>1, <1>3 DEF Inv, ChainLinks
<1>4. CASE calls[i].at = "queued" /\ calls[i].prev # 0
  <2> DEFINE k == calls[i].prev
  <2>1. k \in Ids
    BY <1>4, PrevType DEF Inv
  <2>2. k \in Ids /\ k < i /\ calls[k].path = calls[i].path /\ calls[k].at = "over"
    BY <1>1, <1>4, <2>1 DEF Inv, ChainLinks, LetIn
  <2>3. ASSUME NEW j \in Ids, j < i, calls[j].path = calls[i].path PROVE calls[j].at = "over"
    <3>1. j <= k
      BY <1>1, <1>4, <2>3 DEF Inv, ChainLinks
    <3>2. j < k => calls[j].at = "over"
      BY <2>2, <2>3 DEF Inv, FirstComeFirstServed
    <3> QED
      BY <2>2, <3>1, <3>2 DEF Ids
  <2> QED
    BY <1>1, <2>3
<1> QED
  BY <1>2, <1>3, <1>4

\* A step that only moves call i forward from where it was let in.
Advance(i) ==
  /\ calls[i].at \in {"queued", "read"}
  /\ calls[i].at = "queued" => LetIn(i)
  /\ calls'[i].at \in {"read", "leaving"}
  /\ \E r \in CallRecord :
       /\ r.path = calls[i].path /\ r.prev = calls[i].prev
       /\ calls' = [calls EXCEPT ![i] = r]
  /\ content' \in [Paths -> Seq(0 .. MaxCalls)]
  /\ UNCHANGED <<arrived, tail, bashed>>

LEMMA AdvanceInv ==
  ASSUME Inv, NEW i \in Ids, Advance(i) PROVE Inv'
<1>1. /\ i <= arrived
      /\ \A j \in Ids : j < i /\ calls[j].path = calls[i].path => calls[j].at = "over"
  BY Admitted DEF Advance
<1>2. /\ calls'[i].at \in {"read", "leaving"} /\ calls[i].at \in {"queued", "read"}
      /\ UNCHANGED <<arrived, tail, bashed>>
      /\ content' \in [Paths -> Seq(0 .. MaxCalls)]
  BY DEF Advance
<1>3. /\ calls' \in [Ids -> CallRecord]
      /\ \A j \in Ids : /\ j # i => calls'[j] = calls[j]
                        /\ calls'[j].path = calls[j].path /\ calls'[j].prev = calls[j].prev
  <2>1. PICK r \in CallRecord : /\ r.path = calls[i].path /\ r.prev = calls[i].prev
                               /\ calls' = [calls EXCEPT ![i] = r]
    BY DEF Advance
  <2>2. calls \in [Ids -> CallRecord]
    BY DEF Inv, TypeOK
  <2> QED
    BY <2>1, <2>2
<1>4. TypeOK'
  <2>1. \A j \in Ids : j > arrived <=> calls'[j] = NoCall
    BY <1>1, <1>2, <1>3, NoCallType DEF Inv, TypeOK, Ids
  <2> QED
    BY <1>2, <1>3, <2>1 DEF Inv, TypeOK
<1>5. tail \in [Paths -> 0 .. MaxCalls] /\ arrived \in Nat
  BY DEF Inv, TypeOK
<1>6. Made'
  BY <1>2, <1>3 DEF Inv, Made
<1>9. TailIsLatest'
  <2> SUFFICES ASSUME NEW p \in Paths
               PROVE  /\ tail[p] = 0 => \A j \in Ids : j <= arrived /\ calls'[j].path = p
                                                       => calls'[j].at = "over"
                      /\ tail[p] # 0 => /\ tail[p] <= arrived
                                        /\ calls'[tail[p]].path = p
                                        /\ calls'[tail[p]].at # "over"
                                        /\ \A j \in Ids : j <= arrived /\ calls'[j].path = p
                                                          => j <= tail[p]
    BY <1>2 DEF TailIsLatest
  <2>1. tail[p] # 0 => tail[p] \in Ids
    BY <1>5, BoundsAssumption DEF Ids
  <2> QED
    BY <1>1, <1>2, <1>3, <2>1 DEF Inv, TailIsLatest
<1>7. ChainLinks'
  <2> SUFFICES ASSUME NEW k \in Ids, k <= arrived
               PROVE  /\ calls'[k].prev < k
                      /\ calls'[k].prev = 0 =>
                           \A j \in Ids : j < k /\ calls'[j].path = calls'[k].path
                                           => calls'[j].at = "over"
                      /\ calls'[k].prev # 0 =>
                           /\ calls'[calls'[k].prev].path = calls'[k].path
                           /\ \A j \in Ids : calls'[j].path = calls'[k].path /\ j < k
                                             => j <= calls'[k].prev
    BY <1>2 DEF ChainLinks
  <2>1. calls[k].prev # 0 => calls[k].prev \in Ids
    BY PrevType DEF Inv
  <2> QED
    BY <1>2, <1>3, <2>1 DEF Inv, ChainLinks
<1>8. FirstComeFirstServed'
  BY <1>1, <1>2, <1>3 DEF Inv, FirstComeFirstServed, Ids
<1> QED
  BY <1>4, <1>6, <1>7, <1>8, <1>9 DEF Inv

LEMMA SubmitInv ==
  ASSUME Inv, NEW path \in Paths, NEW kind \in {"edit", "write"}, Submit(path, kind) PROVE Inv'
<1> DEFINE n == arrived + 1
           rec == NewCall(kind, path)
<1>1. /\ arrived \in Nat /\ n \in Ids /\ arrived' = n /\ n <= MaxCalls
      /\ tail \in [Paths -> 0 .. MaxCalls] /\ calls \in [Ids -> CallRecord]
  BY BoundsAssumption DEF Inv, TypeOK, Submit, Ids
<1>2. /\ rec \in CallRecord /\ rec.path = path /\ rec.prev = tail[path] /\ rec.at = "queued"
      /\ rec # NoCall
  <2>2. tail[path] \in 0 .. MaxCalls
    BY <1>1
  <2>3. rec \in CallRecord /\ rec.path = path /\ rec.prev = tail[path] /\ rec.at = "queued"
    BY <2>2 DEF NewCall, CallRecord
  <2> QED
    BY <2>3, NoCallType
<1>3. calls' = [calls EXCEPT ![n] = rec] /\ tail' = [tail EXCEPT ![path] = n]
  BY DEF Submit
<1> HIDE DEF rec
<1>4. /\ calls' \in [Ids -> CallRecord] /\ calls'[n] = rec
      /\ \A j \in Ids : j # n => calls'[j] = calls[j]
      /\ tail' \in [Paths -> 0 .. MaxCalls] /\ tail'[path] = n
      /\ \A p \in Paths : p # path => tail'[p] = tail[p]
  BY <1>1, <1>2, <1>3
<1>5. \A j \in Ids : j <= n <=> (j <= arrived \/ j = n)
  BY <1>1 DEF Ids
<1>6. TypeOK'
  <2>1. \A j \in Ids : j > n <=> calls'[j] = NoCall
    BY <1>1, <1>2, <1>4 DEF Inv, TypeOK, Ids
  <2>2. content' = content /\ bashed' = bashed
    BY DEF Submit
  <2> QED
    BY <1>1, <1>4, <2>1, <2>2 DEF Inv, TypeOK
<1>7. Made'
  BY <1>1, <1>2, <1>4, <1>5 DEF Inv, Made
<1>8. TailIsLatest'
  <2> SUFFICES ASSUME NEW p \in Paths
               PROVE  /\ tail'[p] = 0 => \A i \in Ids : i <= n /\ calls'[i].path = p
                                                        => calls'[i].at = "over"
                      /\ tail'[p] # 0 => /\ tail'[p] <= n
                                         /\ calls'[tail'[p]].path = p
                                         /\ calls'[tail'[p]].at # "over"
                                         /\ \A i \in Ids : i <= n /\ calls'[i].path = p
                                                           => i <= tail'[p]
    BY <1>1 DEF TailIsLatest
  <2>1. CASE p = path
    BY <1>1, <1>2, <1>4, <2>1 DEF Ids
  <2>2. CASE p # path
    <3>1. tail[p] # 0 => tail[p] \in Ids /\ tail[p] <= arrived /\ tail[p] # n
      BY <1>1 DEF Inv, TailIsLatest, Ids
    <3> QED
      BY <1>1, <1>2, <1>4, <1>5, <2>2, <3>1 DEF Inv, TailIsLatest, Ids
  <2> QED
    BY <2>1, <2>2
<1>9. ChainLinks'
  <2> SUFFICES ASSUME NEW k \in Ids, k <= n
               PROVE  /\ calls'[k].prev < k
                      /\ calls'[k].prev = 0 =>
                           \A j \in Ids : j < k /\ calls'[j].path = calls'[k].path
                                           => calls'[j].at = "over"
                      /\ calls'[k].prev # 0 =>
                           /\ calls'[calls'[k].prev].path = calls'[k].path
                           /\ \A j \in Ids : calls'[j].path = calls'[k].path /\ j < k
                                             => j <= calls'[k].prev
    BY <1>1 DEF ChainLinks
  <2>1. CASE k = n
    <3>1. tail[path] # 0 => tail[path] \in Ids /\ tail[path] <= arrived /\ tail[path] # n
      BY <1>1 DEF Inv, TailIsLatest, Ids
    <3>2. \A j \in Ids : j < n => j <= arrived /\ calls'[j] = calls[j]
      BY <1>1, <1>4 DEF Ids
    <3> QED
      BY <1>1, <1>2, <1>4, <2>1, <3>1, <3>2 DEF Inv, TailIsLatest
  <2>2. CASE k # n
    <3>1. k <= arrived /\ \A j \in Ids : j <= k => calls'[j] = calls[j]
      BY <1>1, <1>4, <1>5, <2>2 DEF Ids
    <3>2. calls[k].prev # 0 => calls[k].prev \in Ids /\ calls[k].prev <= k
      BY <3>1, PrevType DEF Inv, ChainLinks, Ids
    <3>3. \A j \in Ids : j < k => j <= k
      BY DEF Ids
    <3>4. k <= k
      BY DEF Ids
    <3> QED
      BY <3>1, <3>2, <3>3, <3>4 DEF Inv, ChainLinks
  <2> QED
    BY <2>1, <2>2
<1>10. FirstComeFirstServed'
  <2> SUFFICES ASSUME NEW k \in Ids, NEW j \in Ids, j < k, calls'[j].path = calls'[k].path,
                      calls'[k].at \in {"read", "leaving", "over"}
               PROVE  calls'[j].at = "over"
    BY DEF FirstComeFirstServed
  <2>1. k # n /\ k <= arrived
    BY <1>1, <1>2, <1>4, NoCallType DEF Inv, TypeOK, Ids
  <2>2. j # n
    BY <1>1, <2>1 DEF Ids
  <2> QED
    BY <1>4, <2>1, <2>2 DEF Inv, FirstComeFirstServed
<1> QED
  BY <1>6, <1>7, <1>8, <1>9, <1>10 DEF Inv

LEMMA ReleaseInv ==
  ASSUME Inv, NEW i \in Ids, Release(i) PROVE Inv'
<1> DEFINE r == [calls[i] EXCEPT !.at = "over"]
           path == calls[i].path
<1>1. /\ calls[i].at = "leaving" /\ calls[i] \in CallRecord /\ calls \in [Ids -> CallRecord]
      /\ arrived \in Nat /\ UNCHANGED <<content, arrived, bashed>>
      /\ tail \in [Paths -> 0 .. MaxCalls]
  BY DEF Inv, TypeOK, Release
<1>2. i <= arrived /\ path \in Paths
  BY <1>1, NoCallType DEF Inv, TypeOK, Made, Ids
<1>3. r \in CallRecord /\ r.path = path /\ r.prev = calls[i].prev /\ r.at = "over" /\ r # NoCall
  BY <1>1, NoCallType DEF CallRecord
<1>4. calls' = [calls EXCEPT ![i] = r] /\ tail' = [tail EXCEPT ![path] = IF @ = i THEN 0 ELSE @]
  BY DEF Release
<1>5. \A j \in Ids : j < i /\ calls[j].path = path => calls[j].at = "over"
  BY <1>1 DEF Inv, FirstComeFirstServed
<1> HIDE DEF r
<1>6. /\ calls' \in [Ids -> CallRecord] /\ calls'[i] = r
      /\ \A j \in Ids : /\ j # i => calls'[j] = calls[j]
                        /\ calls'[j].path = calls[j].path /\ calls'[j].prev = calls[j].prev
                        /\ calls[j].at = "over" => calls'[j].at = "over"
  BY <1>1, <1>3, <1>4
<1>7. /\ tail' \in [Paths -> 0 .. MaxCalls]
      /\ \A p \in Paths : tail'[p] = IF tail[p] = i /\ p = path THEN 0 ELSE tail[p]
  BY <1>1, <1>2, <1>4, BoundsAssumption
<1>8. TypeOK'
  <2>1. \A j \in Ids : j > arrived <=> calls'[j] = NoCall
    BY <1>1, <1>2, <1>3, <1>6 DEF Inv, TypeOK, Ids
  <2> QED
    BY <1>1, <1>6, <1>7, <2>1 DEF Inv, TypeOK
<1>9. Made'
  BY <1>1, <1>3, <1>6 DEF Inv, Made
<1>10. TailIsLatest'
  <2> SUFFICES ASSUME NEW p \in Paths
               PROVE  /\ tail'[p] = 0 => \A j \in Ids : j <= arrived /\ calls'[j].path = p
                                                        => calls'[j].at = "over"
                      /\ tail'[p] # 0 => /\ tail'[p] <= arrived
                                         /\ calls'[tail'[p]].path = p
                                         /\ calls'[tail'[p]].at # "over"
                                         /\ \A j \in Ids : j <= arrived /\ calls'[j].path = p
                                                           => j <= tail'[p]
    BY <1>1 DEF TailIsLatest
  <2>1. tail[p] # 0 => tail[p] \in Ids /\ calls[tail[p]].path = p
    BY <1>1, BoundsAssumption DEF Inv, TailIsLatest, Ids
  <2>2. i # 0
    BY DEF Ids
  <2>3. CASE tail[p] = i
    <3>1. p = path /\ tail'[p] = 0
      BY <1>7, <2>1, <2>2, <2>3
    <3>2. \A j \in Ids : j <= arrived /\ calls[j].path = p => j < i \/ j = i
      BY <2>2, <2>3 DEF Inv, TailIsLatest, Ids
    <3> QED
      BY <1>3, <1>5, <1>6, <3>1, <3>2
  <2>4. CASE tail[p] # i
    <3>1. tail'[p] = tail[p]
      BY <1>7, <2>4
    <3> QED
      BY <1>6, <2>1, <2>4, <3>1 DEF Inv, TailIsLatest
  <2> QED
    BY <2>3, <2>4
<1>11. ChainLinks'
  <2> SUFFICES ASSUME NEW k \in Ids, k <= arrived
               PROVE  /\ calls'[k].prev < k
                      /\ calls'[k].prev = 0 =>
                           \A j \in Ids : j < k /\ calls'[j].path = calls'[k].path
                                           => calls'[j].at = "over"
                      /\ calls'[k].prev # 0 =>
                           /\ calls'[calls'[k].prev].path = calls'[k].path
                           /\ \A j \in Ids : calls'[j].path = calls'[k].path /\ j < k
                                             => j <= calls'[k].prev
    BY <1>1 DEF ChainLinks
  <2>1. calls[k].prev # 0 => calls[k].prev \in Ids
    BY PrevType DEF Inv
  <2> QED
    BY <1>1, <1>6, <2>1 DEF Inv, ChainLinks
<1>12. FirstComeFirstServed'
  BY <1>1, <1>5, <1>6 DEF Inv, FirstComeFirstServed
<1> QED
  BY <1>8, <1>9, <1>10, <1>11, <1>12 DEF Inv

\* A step that leaves every call's place in the queue alone.
LEMMA UnmovedInv ==
  ASSUME Inv, TypeOK', UNCHANGED <<arrived, tail>>,
         \A j \in Ids : /\ calls'[j].path = calls[j].path /\ calls'[j].prev = calls[j].prev
                        /\ calls'[j].at = calls[j].at
  PROVE  Inv'
<1>1. Made'
  BY DEF Inv, Made
<1>2. TailIsLatest'
  <2>1. \A p \in Paths : tail[p] # 0 => tail[p] \in Ids
    BY BoundsAssumption DEF Inv, TypeOK, Ids
  <2> QED
    BY <2>1 DEF Inv, TailIsLatest
<1>3. ChainLinks'
  <2>1. \A k \in Ids : calls[k].prev # 0 => calls[k].prev \in Ids
    BY PrevType DEF Inv
  <2> QED
    BY <2>1 DEF Inv, ChainLinks
<1>4. FirstComeFirstServed'
  BY DEF Inv, FirstComeFirstServed
<1> QED
  BY <1>1, <1>2, <1>3, <1>4 DEF Inv

LEMMA AbortInv == Inv /\ Abort => Inv'
<1> SUFFICES ASSUME Inv, Abort PROVE Inv'
  OBVIOUS
<1>1. /\ calls' = [j \in Ids |-> IF j <= arrived THEN [calls[j] EXCEPT !.aborted = TRUE] ELSE calls[j]]
      /\ UNCHANGED <<content, arrived, tail, bashed>>
      /\ calls \in [Ids -> CallRecord]
  BY DEF Abort, Inv, TypeOK
<1>2. ASSUME NEW j \in Ids
      PROVE  /\ calls'[j] \in CallRecord
             /\ calls'[j].path = calls[j].path /\ calls'[j].prev = calls[j].prev
             /\ calls'[j].at = calls[j].at
             /\ j > arrived => calls'[j] = calls[j]
  <2>1. CASE j <= arrived
    <3>1. calls[j] \in CallRecord /\ calls'[j] = [calls[j] EXCEPT !.aborted = TRUE] /\ ~(j > arrived)
      BY <1>1, <2>1 DEF Inv, TypeOK, Ids
    <3> QED
      BY <3>1 DEF CallRecord
  <2>2. CASE ~(j <= arrived)
    BY <1>1, <2>2
  <2> QED
    BY <2>1, <2>2
<1>3. \A j \in Ids : j > arrived <=> calls'[j] = NoCall
  <2> SUFFICES ASSUME NEW j \in Ids PROVE j > arrived <=> calls'[j] = NoCall
    OBVIOUS
  <2>1. CASE j > arrived
    BY <1>2, <2>1 DEF Inv, TypeOK
  <2>2. CASE ~(j > arrived)
    <3>1. j <= arrived
      BY <2>2 DEF Inv, TypeOK, Ids
    <3> QED
      BY <1>2, <2>2, <3>1, NoCallType DEF Inv, Made
  <2> QED
    BY <2>1, <2>2
<1>4. calls' \in [Ids -> CallRecord]
  <2>1. calls' = [j \in Ids |-> calls'[j]]
    BY <1>1
  <2> QED
    BY <1>2, <2>1
<1>5. TypeOK'
  BY <1>1, <1>3, <1>4 DEF Inv, TypeOK
<1> QED
  BY <1>1, <1>2, <1>5, UnmovedInv

LEMMA BashInv ==
  ASSUME Inv, NEW path \in Paths, BashChange(path) PROVE Inv'
<1>1. /\ UNCHANGED <<calls, arrived, tail>>
      /\ bashed' = bashed + 1 /\ bashed < MaxBash
  BY DEF BashChange
<1>2. content' \in [Paths -> Seq(0 .. MaxCalls)]
  <2>1. PICK after \in {<<>>, Append(content[path], 0)} : content' = [content EXCEPT ![path] = after]
    BY DEF BashChange
  <2>2. content \in [Paths -> Seq(0 .. MaxCalls)] /\ 0 \in 0 .. MaxCalls
    BY BoundsAssumption DEF Inv, TypeOK
  <2>3. after \in Seq(0 .. MaxCalls)
    <3> DEFINE S == 0 .. MaxCalls
    <3>1. content[path] \in Seq(S) /\ 0 \in S
      BY <2>2
    <3> HIDE DEF S
    <3>2. <<>> \in Seq(S) /\ Append(content[path], 0) \in Seq(S)
      BY <3>1
    <3> QED
      BY <3>2 DEF S
  <2> QED
    BY <2>1, <2>2, <2>3
<1>3. TypeOK'
  BY <1>1, <1>2, BoundsAssumption DEF Inv, TypeOK
<1> QED
  BY <1>1, <1>3, UnmovedInv

LEMMA RefuseInv ==
  ASSUME Inv, NEW i \in Ids, Refuse(i) PROVE Inv'
<1> DEFINE r == [calls[i] EXCEPT !.at = "leaving"]
<1>1. calls \in [Ids -> CallRecord] /\ calls[i] \in CallRecord
      /\ content \in [Paths -> Seq(0 .. MaxCalls)]
  BY DEF Inv, TypeOK
<1>2. r \in CallRecord /\ r.path = calls[i].path /\ r.prev = calls[i].prev /\ r.at = "leaving"
  BY <1>1 DEF CallRecord
<1>3. calls' = [calls EXCEPT ![i] = r] /\ LetIn(i) /\ UNCHANGED <<content, arrived, tail, bashed>>
  BY DEF Refuse
<1> HIDE DEF r
<1>4. Advance(i)
  BY <1>1, <1>2, <1>3 DEF Advance, LetIn
<1> QED
  BY <1>4, AdvanceInv

LEMMA WriteInv ==
  ASSUME Inv, NEW i \in Ids, Write(i) PROVE Inv'
<1> DEFINE r == [calls[i] EXCEPT !.at = "leaving"]
<1>1. calls \in [Ids -> CallRecord] /\ calls[i] \in CallRecord
      /\ content \in [Paths -> Seq(0 .. MaxCalls)]
  BY DEF Inv, TypeOK
<1>2. r \in CallRecord /\ r.path = calls[i].path /\ r.prev = calls[i].prev /\ r.at = "leaving"
  BY <1>1 DEF CallRecord
<1>3. calls' = [calls EXCEPT ![i] = r] /\ LetIn(i) /\ UNCHANGED <<arrived, tail, bashed>>
      /\ content' = [content EXCEPT ![calls[i].path] = <<i>>]
  BY DEF Write
<1> HIDE DEF r
<1>4. content' \in [Paths -> Seq(0 .. MaxCalls)]
  <2>1. <<i>> \in Seq(0 .. MaxCalls)
    BY DEF Ids
  <2> QED
    BY <1>1, <1>3, <2>1
<1>5. Advance(i)
  BY <1>1, <1>2, <1>3, <1>4 DEF Advance, LetIn
<1> QED
  BY <1>5, AdvanceInv

LEMMA BeginEditInv ==
  ASSUME Inv, NEW i \in Ids, BeginEdit(i) PROVE Inv'
<1> DEFINE found == content[calls[i].path]
           at == IF found = <<>> THEN "leaving" ELSE "read"
           r == [calls[i] EXCEPT !.at = at, !.base = found]
<1>1. calls \in [Ids -> CallRecord] /\ calls[i] \in CallRecord
      /\ content \in [Paths -> Seq(0 .. MaxCalls)]
  BY DEF Inv, TypeOK
<1>2. calls' = [calls EXCEPT ![i] = r] /\ LetIn(i) /\ UNCHANGED <<content, arrived, tail, bashed>>
  BY DEF BeginEdit
<1>3. calls[i].path \in Paths
  BY <1>2, Admitted DEF LetIn, Inv, Made
<1>4. found \in Seq(0 .. MaxCalls) /\ at \in {"leaving", "read"}
  BY <1>1, <1>3
<1> HIDE DEF found, at
<1>5. r \in CallRecord /\ r.path = calls[i].path /\ r.prev = calls[i].prev /\ r.at = at
  BY <1>1, <1>4 DEF CallRecord
<1> HIDE DEF r
<1>6. Advance(i)
  BY <1>1, <1>2, <1>4, <1>5 DEF Advance, LetIn
<1> QED
  BY <1>6, AdvanceInv

LEMMA ApplyEditInv ==
  ASSUME Inv, NEW i \in Ids, ApplyEdit(i) PROVE Inv'
<1> DEFINE r == [calls[i] EXCEPT !.at = "leaving"]
           S == 0 .. MaxCalls
<1>1. calls \in [Ids -> CallRecord] /\ calls[i] \in CallRecord /\ content \in [Paths -> Seq(S)]
  BY DEF Inv, TypeOK
<1>2. r \in CallRecord /\ r.path = calls[i].path /\ r.prev = calls[i].prev /\ r.at = "leaving"
  BY <1>1 DEF CallRecord
<1>6. calls[i].base \in Seq(S)
  BY <1>1 DEF CallRecord
<1>7. i \in S
  BY DEF Ids
<1>3. /\ calls' = [calls EXCEPT ![i] = r] /\ calls[i].at = "read"
      /\ UNCHANGED <<arrived, tail, bashed>>
      /\ \/ content' = [content EXCEPT ![calls[i].path] = Append(calls[i].base, i)]
         \/ UNCHANGED content
  BY DEF ApplyEdit
<1> HIDE DEF r, S
<1>4. content' \in [Paths -> Seq(S)]
  <2>1. Append(calls[i].base, i) \in Seq(S)
    BY <1>6, <1>7
  <2> QED
    BY <1>1, <1>3, <2>1
<1>5. Advance(i)
  BY <1>1, <1>2, <1>3, <1>4 DEF Advance, S
<1> QED
  BY <1>5, AdvanceInv

LEMMA NextInv == Inv /\ [Next]_vars => Inv'
<1> SUFFICES ASSUME Inv, [Next]_vars PROVE Inv'
  OBVIOUS
<1>1. ASSUME NEW path \in Paths, NEW kind \in {"edit", "write"}, Submit(path, kind) PROVE Inv'
  BY <1>1, SubmitInv
<1>2. ASSUME NEW i \in Ids, ToolStep(i) PROVE Inv'
  BY <1>2, RefuseInv, BeginEditInv, ApplyEditInv, WriteInv, ReleaseInv DEF ToolStep
<1>3. CASE Abort
  BY <1>3, AbortInv
<1>4. ASSUME NEW path \in Paths, BashChange(path) PROVE Inv'
  BY <1>4, BashInv
<1>5. CASE UNCHANGED vars
  <2>1. TypeOK'
    BY <1>5 DEF Inv, TypeOK, vars
  <2> QED
    BY <1>5, <2>1, UnmovedInv DEF vars
<1> QED
  BY <1>1, <1>2, <1>3, <1>4, <1>5 DEF Next, ToolNext

LEMMA SpecInv == Spec => []Inv
BY InitInv, NextInv, PTL DEF Spec

\* The calls of a path are let in in the order they were made.
THEOREM OrderIsKept == Spec => []FirstComeFirstServed
<1>1. Inv => FirstComeFirstServed
  BY DEF Inv
<1> QED
  BY <1>1, SpecInv, PTL

\* withFileMutationQueue lets in one call of a path at a time.
THEOREM OneAtATime == Spec => []MutualExclusion
<1>1. Inv => MutualExclusion
  <2> SUFFICES ASSUME Inv, NEW i \in Ids, NEW j \in Ids, i # j, Inside(i), Inside(j),
                      calls[i].path = calls[j].path
               PROVE  FALSE
    BY DEF MutualExclusion
  <2>1. i < j \/ j < i
    BY DEF Ids
  <2> QED
    BY <2>1 DEF Inv, FirstComeFirstServed, Inside
<1> QED
  BY <1>1, SpecInv, PTL

\* The map holds an entry for a path exactly while a call of it is not over.
THEOREM NoEntryLeaks == Spec => []EntryWhileInUse
<1>1. Inv => EntryWhileInUse
  <2> SUFFICES ASSUME Inv, NEW p \in Paths
               PROVE  tail[p] # 0 <=> \E i \in Ids : calls[i].path = p
                                        /\ calls[i].at \in {"queued", "read", "leaving"}
    BY DEF EntryWhileInUse
  <2>1. ASSUME tail[p] # 0
        PROVE  \E i \in Ids : calls[i].path = p /\ calls[i].at \in {"queued", "read", "leaving"}
    <3>1. tail[p] \in Ids /\ tail[p] <= arrived /\ calls[tail[p]].path = p /\ calls[tail[p]].at # "over"
      BY <2>1, BoundsAssumption DEF Inv, TypeOK, TailIsLatest, Ids
    <3>2. calls[tail[p]] \in CallRecord /\ calls[tail[p]].at # "unused"
      BY <3>1 DEF Inv, TypeOK, Made
    <3> QED
      BY <3>1, <3>2 DEF CallRecord
  <2>2. ASSUME NEW i \in Ids, calls[i].path = p, calls[i].at \in {"queued", "read", "leaving"}
        PROVE  tail[p] # 0
    <3>1. i <= arrived
      BY <2>2, NoCallType DEF Inv, TypeOK, Ids
    <3> QED
      BY <2>2, <3>1 DEF Inv, TailIsLatest
  <2> QED
    BY <2>1, <2>2
<1> QED
  BY <1>1, SpecInv, PTL

\* The variables of the queue keep their types, and a call that was not made
\* leaves no trace.
THEOREM QueueTypeCorrect == Spec => []TypeOK
<1>1. Inv => TypeOK
  BY DEF Inv
<1> QED
  BY <1>1, SpecInv, PTL

-----------------------------------------------------------------------------
(* Without bash commands, what an edit has read is what the file holds. *)

ReadIsCurrent ==
  \A i \in Ids : calls[i].at = "read" =>
    calls[i].kind = "edit" /\ content[calls[i].path] = calls[i].base /\ calls[i].base # <<>>

ToolInv == Inv /\ ReadIsCurrent

\* The abstract calls of the refinement mapping.
tools == [i \in Ids |-> calls[i].kind]
targets == [i \in Ids |-> calls[i].path]
servedIds == {i \in Ids : calls[i].at \in {"leaving", "over"}}

LEMMA Alone ==
  ASSUME Inv, NEW i \in Ids, calls[i].at \in {"queued", "read"}, calls[i].at = "queued" => LetIn(i),
         NEW k \in Ids, k # i, calls[k].at = "read"
  PROVE  calls[k].path # calls[i].path
<1>1. \A j \in Ids : j < i /\ calls[j].path = calls[i].path => calls[j].at = "over"
  BY Admitted
<1>2. k < i \/ i < k
  BY DEF Ids
<1> QED
  BY <1>1, <1>2 DEF Inv, FirstComeFirstServed

\* Any step that serves call i: what it leaves alone, and the content it may
\* give the file.
Serves(i) ==
  /\ calls[i].at \in {"queued", "read"}
  /\ calls[i].at = "queued" => LetIn(i)
  /\ \A j \in Ids : j # i => calls'[j] = calls[j]
  /\ calls'[i].kind = calls[i].kind /\ calls'[i].path = calls[i].path
  /\ calls'[i].at = "leaving"
  /\ arrived' = arrived
  /\ \/ /\ calls[i].kind = "edit"
        /\ content[calls[i].path] # <<>>
        /\ content' = [content EXCEPT ![calls[i].path] = Append(content[calls[i].path], i)]
     \/ /\ calls[i].kind = "write"
        /\ content' = [content EXCEPT ![calls[i].path] = <<i>>]
     \/ UNCHANGED content

LEMMA ServesInv ==
  ASSUME ToolInv, NEW i \in Ids, Serves(i) PROVE ReadIsCurrent'
<1> SUFFICES ASSUME NEW k \in Ids, calls'[k].at = "read"
             PROVE  /\ calls'[k].kind = "edit"
                    /\ content'[calls'[k].path] = calls'[k].base /\ calls'[k].base # <<>>
  BY DEF ReadIsCurrent
<1>1. k # i /\ calls'[k] = calls[k] /\ calls[k].at = "read"
  BY DEF Serves
<1>2. calls[k].path # calls[i].path
  BY <1>1, Alone DEF Serves, ToolInv
<1>3. calls[k].path \in Paths
  BY <1>1, NoCallType DEF ToolInv, Inv, TypeOK, Made, Ids
<1>4. content'[calls[k].path] = content[calls[k].path]
  BY <1>2, <1>3 DEF Serves, ToolInv, Inv, TypeOK
<1> QED
  BY <1>1, <1>4 DEF ToolInv, ReadIsCurrent

LEMMA ServesStep ==
  ASSUME ToolInv, NEW i \in Ids, Serves(i) PROVE Store!Serve(i)
<1>1. /\ i <= arrived /\ i \in 1 .. arrived
      /\ \A j \in Ids : j < i /\ calls[j].path = calls[i].path => calls[j].at = "over"
  <2>1. i <= arrived /\ \A j \in Ids : j < i /\ calls[j].path = calls[i].path => calls[j].at = "over"
    BY Admitted DEF Serves, ToolInv
  <2> QED
    BY <2>1 DEF ToolInv, Inv, TypeOK, Ids
<1>2. \A j \in Ids : tools[j] = calls[j].kind /\ targets[j] = calls[j].path
  BY DEF tools, targets
<1>3. i \notin servedIds /\ servedIds' = servedIds \cup {i}
  BY DEF Serves, servedIds
<1>4. tools' = tools /\ targets' = targets
  <2>1. \A j \in Ids : calls'[j].kind = calls[j].kind /\ calls'[j].path = calls[j].path
    BY DEF Serves
  <2> QED
    BY <2>1 DEF tools, targets
<1>5. \A j \in Ids : j < i /\ targets[j] = targets[i] => j \in servedIds
  BY <1>1, <1>2 DEF servedIds
<1>6. \/ /\ tools[i] = "edit"
         /\ content[targets[i]] # <<>>
         /\ content' = [content EXCEPT ![targets[i]] = Append(content[targets[i]], i)]
      \/ /\ tools[i] = "write"
         /\ content' = [content EXCEPT ![targets[i]] = <<i>>]
      \/ UNCHANGED content
  BY <1>2 DEF Serves
<1>7. arrived' = arrived
  BY DEF Serves
<1> QED
  BY <1>1, <1>3, <1>4, <1>5, <1>6, <1>7 DEF Store!Serve, Store!Ids, Ids, tools, targets, servedIds

LEMMA InitMap == Init => Store!Init
BY NoCallType DEF Init, Store!Init, Store!Ids, Ids, NoCall

LEMMA SubmitStep ==
  ASSUME ToolInv, NEW path \in Paths, NEW kind \in {"edit", "write"}, Submit(path, kind)
  PROVE  ReadIsCurrent' /\ Store!Submit(path, kind)
<1> DEFINE n == arrived + 1
           rec == NewCall(kind, path)
<1>1. /\ n \in Ids /\ arrived' = n /\ arrived < MaxCalls /\ content' = content
      /\ calls \in [Ids -> CallRecord]
  BY BoundsAssumption DEF ToolInv, Inv, TypeOK, Submit, Ids
<1>2. rec.kind = kind /\ rec.path = path /\ rec.at = "queued"
  BY DEF NewCall
<1>3. calls' = [calls EXCEPT ![n] = rec]
  BY DEF Submit
<1>4. calls[n].at = "unused"
  BY <1>1, NoCallType DEF ToolInv, Inv, TypeOK, Ids
<1> HIDE DEF rec, n
<1>5. \A j \in Ids : calls'[j] = IF j = n THEN rec ELSE calls[j]
  BY <1>1, <1>3
<1>6. ReadIsCurrent'
  BY <1>1, <1>2, <1>5 DEF ToolInv, ReadIsCurrent
<1>7. tools' = [tools EXCEPT ![n] = kind]
  BY <1>1, <1>2, <1>5 DEF tools
<1>8. targets' = [targets EXCEPT ![n] = path]
  BY <1>1, <1>2, <1>5 DEF targets
<1>9. servedIds' = servedIds
  BY <1>1, <1>2, <1>4, <1>5 DEF servedIds
<1> QED
  BY <1>1, <1>6, <1>7, <1>8, <1>9 DEF Store!Submit, n, tools, targets, servedIds

\* A step the abstract specification does not see.
LEMMA Stutter ==
  ASSUME UNCHANGED <<content, arrived>>,
         \A j \in Ids : /\ calls'[j].kind = calls[j].kind /\ calls'[j].path = calls[j].path
                        /\ calls'[j].at \in {"leaving", "over"} <=> calls[j].at \in {"leaving", "over"}
  PROVE  UNCHANGED Store!vars
<1>1. tools' = tools /\ targets' = targets /\ servedIds' = servedIds
  BY DEF tools, targets, servedIds
<1> QED
  BY <1>1 DEF Store!vars, Store!Ids, Ids, tools, targets, servedIds

LEMMA ToolStepMap ==
  ASSUME ToolInv, NEW i \in Ids, ToolStep(i)
  PROVE  ReadIsCurrent' /\ (Store!Serve(i) \/ UNCHANGED Store!vars)
<1>1. /\ calls \in [Ids -> CallRecord] /\ calls[i] \in CallRecord
      /\ content \in [Paths -> Seq(0 .. MaxCalls)]
  BY DEF ToolInv, Inv, TypeOK
<1> DEFINE left == [calls[i] EXCEPT !.at = "leaving"]
<1>2. left.at = "leaving" /\ left.kind = calls[i].kind /\ left.path = calls[i].path
  BY <1>1 DEF CallRecord
<1>3. CASE Refuse(i)
  <2>1. calls' = [calls EXCEPT ![i] = left]
    BY <1>3 DEF Refuse
  <2> HIDE DEF left
  <2>2. Serves(i)
    BY <1>1, <1>2, <1>3, <2>1 DEF Refuse, LetIn, Serves
  <2> QED
    BY <2>2, ServesInv, ServesStep
<1>4. CASE Write(i)
  <2>1. calls' = [calls EXCEPT ![i] = left]
    BY <1>4 DEF Write
  <2> HIDE DEF left
  <2>2. Serves(i)
    BY <1>1, <1>2, <1>4, <2>1 DEF Write, LetIn, Serves
  <2> QED
    BY <2>2, ServesInv, ServesStep
<1>5. CASE ApplyEdit(i)
  <2>1. calls' = [calls EXCEPT ![i] = left]
    BY <1>5 DEF ApplyEdit
  <2> HIDE DEF left
  <2>2. calls[i].kind = "edit" /\ content[calls[i].path] = calls[i].base /\ calls[i].base # <<>>
    BY <1>5 DEF ApplyEdit, ToolInv, ReadIsCurrent
  <2>3. Serves(i)
    BY <1>1, <1>2, <1>5, <2>1, <2>2 DEF ApplyEdit, Serves
  <2> QED
    BY <2>3, ServesInv, ServesStep
<1>6. CASE BeginEdit(i)
  <2> DEFINE found == content[calls[i].path]
             at == IF found = <<>> THEN "leaving" ELSE "read"
             r == [calls[i] EXCEPT !.at = at, !.base = found]
  <2>1. /\ calls' = [calls EXCEPT ![i] = r] /\ LetIn(i) /\ calls[i].kind = "edit"
        /\ calls[i].at = "queued"
        /\ UNCHANGED <<content, arrived, tail, bashed>>
    BY <1>6 DEF BeginEdit, LetIn
  <2>2. r.at = at /\ r.base = found /\ r.kind = calls[i].kind /\ r.path = calls[i].path
    BY <1>1 DEF CallRecord
  <2> HIDE DEF r
  <2>3. \A j \in Ids : calls'[j] = IF j = i THEN r ELSE calls[j]
    BY <1>1, <2>1
  <2>4. CASE found = <<>>
    <3>1. Serves(i)
      BY <2>1, <2>2, <2>3, <2>4 DEF Serves
    <3> QED
      BY <3>1, ServesInv, ServesStep
  <2>5. CASE found # <<>>
    <3>1. ReadIsCurrent'
      BY <2>1, <2>2, <2>3, <2>5 DEF ToolInv, ReadIsCurrent
    <3>2. UNCHANGED Store!vars
      BY <2>1, <2>2, <2>3, <2>5, Stutter
    <3> QED
      BY <3>1, <3>2
  <2> QED
    BY <2>4, <2>5
<1>7. CASE Release(i)
  <2> DEFINE r == [calls[i] EXCEPT !.at = "over"]
  <2>1. calls' = [calls EXCEPT ![i] = r] /\ calls[i].at = "leaving" /\ UNCHANGED <<content, arrived>>
    BY <1>7 DEF Release
  <2>2. r.at = "over" /\ r.kind = calls[i].kind /\ r.path = calls[i].path
    BY <1>1 DEF CallRecord
  <2> HIDE DEF r
  <2>3. \A j \in Ids : calls'[j] = IF j = i THEN r ELSE calls[j]
    BY <1>1, <2>1
  <2>4. ReadIsCurrent'
    BY <2>1, <2>2, <2>3 DEF ToolInv, ReadIsCurrent
  <2>5. UNCHANGED Store!vars
    BY <2>1, <2>2, <2>3, Stutter
  <2> QED
    BY <2>4, <2>5
<1> QED
  BY <1>3, <1>4, <1>5, <1>6, <1>7 DEF ToolStep

LEMMA AbortMap ==
  ASSUME ToolInv, Abort PROVE ReadIsCurrent' /\ UNCHANGED Store!vars
<1>1. /\ calls' = [j \in Ids |-> IF j <= arrived THEN [calls[j] EXCEPT !.aborted = TRUE] ELSE calls[j]]
      /\ UNCHANGED <<content, arrived>>
      /\ calls \in [Ids -> CallRecord]
  BY DEF Abort, ToolInv, Inv, TypeOK
<1>2. ASSUME NEW j \in Ids
      PROVE  /\ calls'[j].path = calls[j].path /\ calls'[j].kind = calls[j].kind
             /\ calls'[j].at = calls[j].at /\ calls'[j].base = calls[j].base
  <2>1. calls[j] \in CallRecord
    BY <1>1
  <2>2. CASE j <= arrived
    <3>1. calls'[j] = [calls[j] EXCEPT !.aborted = TRUE]
      BY <1>1, <2>2
    <3> QED
      BY <2>1, <3>1 DEF CallRecord
  <2>3. CASE ~(j <= arrived)
    BY <1>1, <2>3
  <2> QED
    BY <2>2, <2>3
<1>3. ReadIsCurrent'
  BY <1>1, <1>2 DEF ToolInv, ReadIsCurrent
<1> QED
  BY <1>1, <1>2, <1>3, Stutter

LEMMA ToolNextMap == ToolInv /\ [ToolNext]_vars => ToolInv' /\ [Store!Next]_(Store!vars)
<1> SUFFICES ASSUME ToolInv, [ToolNext]_vars PROVE ToolInv' /\ [Store!Next]_(Store!vars)
  OBVIOUS
<1>1. Inv'
  BY NextInv DEF ToolInv, Next
<1>2. ASSUME NEW path \in Paths, NEW kind \in {"edit", "write"}, Submit(path, kind)
      PROVE  ReadIsCurrent' /\ Store!Next
  BY <1>2, SubmitStep DEF Store!Next
<1>3. ASSUME NEW i \in Ids, ToolStep(i)
      PROVE  ReadIsCurrent' /\ [Store!Next]_(Store!vars)
  BY <1>3, ToolStepMap DEF Store!Next, Store!Ids, Ids
<1>4. ASSUME Abort PROVE ReadIsCurrent' /\ [Store!Next]_(Store!vars)
  BY <1>4, AbortMap
<1>5. ASSUME UNCHANGED vars PROVE ReadIsCurrent' /\ [Store!Next]_(Store!vars)
  <2>1. ReadIsCurrent'
    BY <1>5 DEF vars, ToolInv, ReadIsCurrent
  <2>2. UNCHANGED Store!vars
    BY <1>5, Stutter DEF vars
  <2> QED
    BY <2>1, <2>2
<1>6. ReadIsCurrent' /\ [Store!Next]_(Store!vars)
  BY <1>2, <1>3, <1>4, <1>5 DEF ToolNext
<1> QED
  BY <1>1, <1>6 DEF ToolInv

\* The edit and write tools implement FileStore: each call takes its effect
\* at once, in the order the calls of its path were made.
THEOREM Refinement == ToolSpec => ImplementsFileStore
<1>1. Init => ToolInv
  BY InitInv, NoCallType DEF Init, ToolInv, ReadIsCurrent
<1> QED
  BY <1>1, InitMap, ToolNextMap, PTL DEF ToolSpec, ImplementsFileStore, Store!Spec
-----------------------------------------------------------------------------
(* With bash commands, what an edit has read still holds the work of every  *)
(* call the file shows: a bash command adds no call's work, and no other    *)
(* call of the path is let in.                                              *)

Elements(s) == {s[k] : k \in DOMAIN s} \ {0}

ReadKeeps ==
  \A i \in Ids : calls[i].at = "read" =>
    Elements(content[calls[i].path]) \subseteq Elements(calls[i].base)

EditInv == Inv /\ ReadKeeps

LEMMA AppendElements ==
  ASSUME NEW S, NEW s \in Seq(S), NEW e
  PROVE  /\ Elements(s) \subseteq Elements(Append(s, e))
         /\ Elements(Append(s, 0)) = Elements(s)
BY DEF Elements

\* Nothing that happens to another file matters to a reader, and nothing but
\* a bash command happens to its own.
LEMMA OthersKeep ==
  ASSUME EditInv, NEW i \in Ids, NEW k \in Ids, k # i, calls'[k] = calls[k], calls[k].at = "read",
         \/ UNCHANGED content
         \/ /\ calls[i].at \in {"queued", "read"}
            /\ calls[i].at = "queued" => LetIn(i)
            /\ \A p \in Paths : p # calls[i].path => content'[p] = content[p]
  PROVE  Elements(content'[calls'[k].path]) \subseteq Elements(calls'[k].base)
<1>1. calls[k].path \in Paths
  BY NoCallType DEF EditInv, Inv, TypeOK, Made, Ids
<1>2. content'[calls[k].path] = content[calls[k].path]
  BY <1>1, Alone DEF EditInv
<1> QED
  BY <1>2 DEF EditInv, ReadKeeps

LEMMA ToolStepKeeps ==
  ASSUME EditInv, NEW i \in Ids, ToolStep(i) PROVE ReadKeeps'
<1>1. /\ calls \in [Ids -> CallRecord] /\ calls[i] \in CallRecord
      /\ content \in [Paths -> Seq(0 .. MaxCalls)]
  BY DEF EditInv, Inv, TypeOK
<1>2. \/ UNCHANGED content
      \/ /\ calls[i].at \in {"queued", "read"}
         /\ calls[i].at = "queued" => LetIn(i)
         /\ \A p \in Paths : p # calls[i].path => content'[p] = content[p]
  <2>1. CASE Refuse(i) \/ BeginEdit(i) \/ Release(i)
    BY <2>1 DEF Refuse, BeginEdit, Release
  <2>2. CASE ApplyEdit(i)
    BY <1>1, <2>2 DEF ApplyEdit
  <2>3. CASE Write(i)
    BY <1>1, <2>3 DEF Write, LetIn
  <2> QED
    BY <2>1, <2>2, <2>3 DEF ToolStep
<1>3. /\ \A k \in Ids : k # i => calls'[k] = calls[k]
      /\ calls'[i].at = "read" => /\ calls'[i].base = content[calls[i].path]
                                 /\ calls'[i].path = calls[i].path
                                 /\ UNCHANGED content
  <2>1. CASE Refuse(i) \/ ApplyEdit(i) \/ Write(i)
    <3> DEFINE r == [calls[i] EXCEPT !.at = "leaving"]
    <3>1. calls' = [calls EXCEPT ![i] = r]
      BY <2>1 DEF Refuse, ApplyEdit, Write
    <3>2. r.at = "leaving"
      BY <1>1 DEF CallRecord
    <3> HIDE DEF r
    <3> QED
      BY <1>1, <3>1, <3>2
  <2>2. CASE Release(i)
    <3> DEFINE r == [calls[i] EXCEPT !.at = "over"]
    <3>1. calls' = [calls EXCEPT ![i] = r]
      BY <2>2 DEF Release
    <3>2. r.at = "over"
      BY <1>1 DEF CallRecord
    <3> HIDE DEF r
    <3> QED
      BY <1>1, <3>1, <3>2
  <2>3. CASE BeginEdit(i)
    <3> DEFINE found == content[calls[i].path]
               at == IF found = <<>> THEN "leaving" ELSE "read"
               r == [calls[i] EXCEPT !.at = at, !.base = found]
    <3>1. calls' = [calls EXCEPT ![i] = r] /\ UNCHANGED content
      BY <2>3 DEF BeginEdit
    <3>2. r.base = found /\ r.path = calls[i].path
      BY <1>1 DEF CallRecord
    <3> HIDE DEF r
    <3> QED
      BY <1>1, <3>1, <3>2
  <2> QED
    BY <2>1, <2>2, <2>3 DEF ToolStep
<1> SUFFICES ASSUME NEW k \in Ids, calls'[k].at = "read"
             PROVE  Elements(content'[calls'[k].path]) \subseteq Elements(calls'[k].base)
  BY DEF ReadKeeps
<1>4. CASE k = i
  BY <1>3, <1>4
<1>5. CASE k # i
  <2>1. calls'[k] = calls[k] /\ calls[k].at = "read"
    BY <1>3, <1>5
  <2> QED
    BY <1>2, <1>5, <2>1, OthersKeep
<1> QED
  BY <1>4, <1>5

LEMMA SubmitKeeps ==
  ASSUME EditInv, NEW path \in Paths, NEW kind \in {"edit", "write"}, Submit(path, kind)
  PROVE  ReadKeeps'
<1> DEFINE n == arrived + 1
           rec == NewCall(kind, path)
<1>1. n \in Ids /\ content' = content /\ calls \in [Ids -> CallRecord]
  BY BoundsAssumption DEF EditInv, Inv, TypeOK, Submit, Ids
<1>2. rec.at = "queued"
  BY DEF NewCall
<1>3. calls' = [calls EXCEPT ![n] = rec]
  BY DEF Submit
<1> HIDE DEF rec, n
<1>4. \A j \in Ids : calls'[j] = IF j = n THEN rec ELSE calls[j]
  BY <1>1, <1>3
<1> QED
  BY <1>1, <1>2, <1>4 DEF EditInv, ReadKeeps

LEMMA AbortKeeps ==
  ASSUME EditInv, Abort PROVE ReadKeeps'
<1>1. /\ calls' = [j \in Ids |-> IF j <= arrived THEN [calls[j] EXCEPT !.aborted = TRUE] ELSE calls[j]]
      /\ UNCHANGED content
      /\ calls \in [Ids -> CallRecord]
  BY DEF Abort, EditInv, Inv, TypeOK
<1>2. ASSUME NEW j \in Ids
      PROVE  /\ calls'[j].path = calls[j].path /\ calls'[j].at = calls[j].at
             /\ calls'[j].base = calls[j].base
  <2>1. calls[j] \in CallRecord
    BY <1>1
  <2>2. CASE j <= arrived
    <3>1. calls'[j] = [calls[j] EXCEPT !.aborted = TRUE]
      BY <1>1, <2>2
    <3> QED
      BY <2>1, <3>1 DEF CallRecord
  <2>3. CASE ~(j <= arrived)
    BY <1>1, <2>3
  <2> QED
    BY <2>2, <2>3
<1> QED
  BY <1>1, <1>2 DEF EditInv, ReadKeeps

LEMMA BashKeeps ==
  ASSUME EditInv, NEW path \in Paths, BashChange(path) PROVE ReadKeeps'
<1>1. content \in [Paths -> Seq(0 .. MaxCalls)] /\ UNCHANGED calls
  BY DEF EditInv, Inv, TypeOK, BashChange
<1>2. PICK after \in {<<>>, Append(content[path], 0)} : content' = [content EXCEPT ![path] = after]
  BY DEF BashChange
<1>3. Elements(after) \subseteq Elements(content[path])
  <2>1. Elements(<<>>) = {}
    BY DEF Elements
  <2>2. Elements(Append(content[path], 0)) = Elements(content[path])
    BY <1>1, AppendElements
  <2> QED
    BY <2>1, <2>2
<1>4. \A p \in Paths : Elements(content'[p]) \subseteq Elements(content[p])
  BY <1>1, <1>2, <1>3
<1> SUFFICES ASSUME NEW k \in Ids, calls[k].at = "read"
             PROVE  Elements(content'[calls[k].path]) \subseteq Elements(calls[k].base)
  BY <1>1 DEF ReadKeeps
<1>5. calls[k].path \in Paths
  BY NoCallType DEF EditInv, Inv, TypeOK, Made, Ids
<1> QED
  BY <1>4, <1>5 DEF EditInv, ReadKeeps

LEMMA NextKeeps == EditInv /\ [Next]_vars => EditInv'
<1> SUFFICES ASSUME EditInv, [Next]_vars PROVE EditInv'
  OBVIOUS
<1>1. Inv'
  BY NextInv DEF EditInv
<1>2. ASSUME UNCHANGED vars PROVE ReadKeeps'
  BY <1>2 DEF vars, EditInv, ReadKeeps
<1>3. ReadKeeps'
  BY <1>2, SubmitKeeps, ToolStepKeeps, AbortKeeps, BashKeeps DEF Next, ToolNext
<1> QED
  BY <1>1, <1>3 DEF EditInv

\* An edit that is applied takes nothing of another call's out of any file.
LEMMA ApplyKeeps ==
  ASSUME EditInv, NEW i \in Ids, ApplyEdit(i), NEW p \in Paths
  PROVE  Elements(content[p]) \subseteq Elements(content'[p])
<1>1. content \in [Paths -> Seq(0 .. MaxCalls)] /\ calls[i] \in CallRecord
  BY DEF EditInv, Inv, TypeOK
<1>2. CASE UNCHANGED content
  BY <1>2
<1>3. CASE content' = [content EXCEPT ![calls[i].path] = Append(calls[i].base, i)]
  <2>1. CASE p # calls[i].path
    BY <1>1, <1>3, <2>1
  <2>2. CASE p = calls[i].path
    <3>1. content'[p] = Append(calls[i].base, i)
      BY <1>1, <1>3, <2>2
    <3>2. Elements(content[p]) \subseteq Elements(calls[i].base)
      BY <2>2 DEF ApplyEdit, EditInv, ReadKeeps
    <3>3. calls[i].base \in Seq(0 .. MaxCalls)
      BY <1>1 DEF CallRecord
    <3>4. Elements(calls[i].base) \subseteq Elements(Append(calls[i].base, i))
      BY <3>3, AppendElements
    <3> QED
      BY <3>1, <3>2, <3>4
  <2> QED
    BY <2>1, <2>2
<1> QED
  BY <1>2, <1>3 DEF ApplyEdit

\* An edit loses nothing another edit or write left in the file, whatever
\* bash commands do to the file between its read and its write.
THEOREM EditsKeepOthers == Spec => EditKeepsOthers
<1>1. Init => EditInv
  BY InitInv, NoCallType DEF Init, EditInv, ReadKeeps
<1>2. EditInv => (\A i \in Ids : ApplyEdit(i) => \A p \in Paths : Shapers(p) \subseteq Shapers(p)')
  <2> SUFFICES ASSUME EditInv, NEW i \in Ids, ApplyEdit(i), NEW p \in Paths
               PROVE  Shapers(p) \subseteq Shapers(p)'
    OBVIOUS
  <2>1. Shapers(p) = Elements(content[p]) /\ Shapers(p)' = Elements(content'[p])
    BY DEF Shapers, Elements
  <2> QED
    BY <2>1, ApplyKeeps
<1>3. Spec => []EditInv
  BY <1>1, NextKeeps, PTL DEF Spec
<1> QED
  BY <1>2, <1>3, PTL DEF Spec, EditKeepsOthers
=============================================================================
