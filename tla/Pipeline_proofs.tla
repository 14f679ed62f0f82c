--------------------------- MODULE Pipeline_proofs ---------------------------
(***************************************************************************)
(* Theorems about Pipeline, for every batch, jobs table, scoring and cap:  *)
(* the sets of positions that it keeps are what the source's loops over    *)
(* lists compute, and storing jobs does not disturb the selection.         *)
(***************************************************************************)
EXTENDS MCPipeline, SequenceFacts, FiniteSetTheorems

IsBatch == raw \in Seq(Listing)

(* The orders of the batch and of the final sort on positions.             *)
InOrder == {x \in Nat \X Nat : x[1] < x[2]}
ByScore == {x \in (DOMAIN raw) \X (DOMAIN raw) : Before(raw, x[1], x[2])}

LEMMA BatchType ==
  ASSUME IsBatch
  PROVE  /\ Len(raw) \in Nat /\ DOMAIN raw = 1..Len(raw) /\ DOMAIN raw \subseteq Nat
         /\ \A i \in DOMAIN raw : /\ raw[i] \in Listing /\ HashAt(raw, i) \in Hash
                                  /\ Score[raw[i]] \in Int
<1>1. Len(raw) \in Nat /\ DOMAIN raw = 1..Len(raw) /\ \A i \in DOMAIN raw : raw[i] \in Listing
  BY LenProperties, ElementOfSeq DEF IsBatch
<1>2. \A l \in Listing : HashOf[l] \in Hash /\ Score[l] \in 0..10
  BY PipelineAssumption
<1>3. \A n \in 0..10 : n \in Int
  OBVIOUS
<1> QED
  BY <1>1, <1>2, <1>3 DEF HashAt

-----------------------------------------------------------------------------
(* A list comprehension keeps the members in S, in their order.            *)
LEMMA OnlyKeeps ==
  ASSUME NEW T, NEW s \in Seq(T), NEW S, NEW R, Ordered(s, R)
  PROVE  /\ Only(s, S) \in Seq(T) /\ ToSet(Only(s, S)) = ToSet(s) \cap S
         /\ Ordered(Only(s, S), R)
<1> DEFINE each == [k \in DOMAIN s |-> IF s[k] \in S THEN <<s[k]>> ELSE << >>]
<1>1. DOMAIN s = 1..Len(s) /\ Len(s) \in Nat /\ \A k \in DOMAIN s : s[k] \in T
  BY LenProperties, ElementOfSeq
<1>2. \A k \in DOMAIN s : each[k] \in Seq(T)
  BY <1>1
<1>3. each \in Seq(Seq(T)) /\ DOMAIN each = DOMAIN s
  <2>1. each \in [1..Len(s) -> Seq(T)]
    BY <1>1, <1>2
  <2> HIDE DEF each
  <2> QED
    BY <1>1, <2>1, SeqDef
<1>4. \A k \in DOMAIN s : ToSet(each[k]) = {s[k]} \cap S
  <2> SUFFICES ASSUME NEW k \in DOMAIN s PROVE ToSet(each[k]) = {s[k]} \cap S
    OBVIOUS
  <2>1. CASE s[k] \in S
    <3>1. each[k] = <<s[k]>> /\ DOMAIN <<s[k]>> = {1}
      BY <2>1
    <3> HIDE DEF each
    <3> QED
      BY <2>1, <3>1 DEF ToSet
  <2>2. CASE s[k] \notin S
    BY <2>2 DEF ToSet
  <2> QED
    BY <2>1, <2>2
<1>5. \A k \in DOMAIN s : Ordered(each[k], R)
  <2>1. \A k \in DOMAIN s : DOMAIN each[k] \in {{}, {1}}
    OBVIOUS
  <2> HIDE DEF each
  <2> QED
    BY <2>1 DEF Ordered
<1>6. Only(s, S) = FlattenSeq(each)
  BY DEF Only
<1> HIDE DEF each
<1>7. Only(s, S) \in Seq(T)
  BY <1>3, <1>6, FlattenType
<1>8. ToSet(Only(s, S)) = ToSet(s) \cap S
  <2>1. ToSet(Only(s, S)) = UNION {ToSet(each[k]) : k \in DOMAIN each}
    BY <1>3, <1>6, FlattenMembers
  <2>2. UNION {ToSet(each[k]) : k \in DOMAIN each} = {s[k] : k \in DOMAIN s} \cap S
    BY <1>3, <1>4
  <2> QED
    BY <2>1, <2>2 DEF ToSet
<1>9. Ordered(Only(s, S), R)
  <2>1. \A k, m \in DOMAIN each : k < m =>
          \A x \in ToSet(each[k]), y \in ToSet(each[m]) : <<x, y>> \in R
    BY <1>3, <1>4 DEF Ordered
  <2> QED
    BY <1>3, <1>5, <1>6, <2>1, FlattenOrder
<1> QED
  BY <1>7, <1>8, <1>9

(* A list is what it holds, in order.                                      *)
LEMMA OneMore ==
  ASSUME NEW T, NEW s \in Seq(T), NEW x \in T, NEW R, Ordered(s, R),
         \A y \in ToSet(s) : <<y, x>> \in R
  PROVE  /\ s \o <<x>> \in Seq(T) /\ ToSet(s \o <<x>>) = ToSet(s) \cup {x}
         /\ Ordered(s \o <<x>>, R)
<1>1. <<x>> \in Seq(T) /\ DOMAIN <<x>> = {1} /\ <<x>>[1] = x
  OBVIOUS
<1>2. ToSet(<<x>>) = {x} /\ Ordered(<<x>>, R)
  BY <1>1 DEF ToSet, Ordered
<1> DEFINE last == <<x>>
<1>3. last \in Seq(T) /\ ToSet(last) = {x} /\ Ordered(last, R)
  BY <1>1, <1>2
<1> HIDE DEF last
<1>4. s \o last \in Seq(T)
  BY <1>3, ConcatProperties
<1>5. ToSet(s \o last) = ToSet(s) \cup ToSet(last)
  BY <1>3, JoinedMembers
<1>6. Ordered(s \o last, R)
  <2>1. \A y \in ToSet(s), z \in ToSet(last) : <<y, z>> \in R
    BY <1>3
  <2> QED
    BY <1>3, <2>1, JoinedOrder
<1> QED
  BY <1>3, <1>4, <1>5, <1>6 DEF last

-----------------------------------------------------------------------------
(* filter_new_jobs.                                                        *)
LEMMA DedupKeeps ==
  ASSUME IsBatch
  PROVE  /\ Dedup \in Seq(DOMAIN raw) /\ ToSet(Dedup) = NewJobs(raw, stored)
         /\ Ordered(Dedup, InOrder)
<1> DEFINE N == Len(raw)
           eqn(f) == f = [n \in 0..N |->
             IF n = 0 THEN [seen |-> {}, new |-> << >>]
             ELSE IF HashAt(raw, n) \in stored \cup f[n - 1].seen THEN f[n - 1]
             ELSE [seen |-> f[n - 1].seen \cup {HashAt(raw, n)},
                   new  |-> Append(f[n - 1].new, n)]]
           h == CHOOSE f : eqn(f)
<1>0. /\ N \in Nat /\ DOMAIN raw = 1..N /\ \A n \in 1..N : HashAt(raw, n) \in Hash
  BY BatchType
<1>1. Dedup = h[N].new
  BY DEF Dedup
<1> HIDE DEF N
<1>2. \E f : eqn(f)
  <2> DEFINE V == [seen : SUBSET Hash, new : Seq(1..N)]
             a0 == [seen |-> {}, new |-> << >>]
             after(n, v) == IF HashAt(raw, n) \in stored \cup v.seen THEN v
                            ELSE [seen |-> v.seen \cup {HashAt(raw, n)},
                                  new  |-> Append(v.new, n)]
             step == [x \in (1..N) \X V |-> after(x[1], x[2])]
  <2>1. a0 \in V
    OBVIOUS
  <2>2. step \in [(1..N) \X V -> V]
    <3>1. ASSUME NEW n \in 1..N, NEW v \in V PROVE after(n, v) \in V
      <4>1. Append(v.new, n) \in Seq(1..N) /\ v.seen \cup {HashAt(raw, n)} \in SUBSET Hash
        BY <1>0
      <4> QED
        BY <4>1
    <3> HIDE DEF V, after
    <3> QED
      BY <3>1
  <2>3. \A n \in 1..N, v \in V :
          step[<<n, v>>] = IF HashAt(raw, n) \in stored \cup v.seen THEN v
                           ELSE [seen |-> v.seen \cup {HashAt(raw, n)},
                                 new  |-> Append(v.new, n)]
    OBVIOUS
  <2> HIDE DEF V, a0, step, after
  <2>4. PICK f \in [0..N -> V] : FollowsFrom(f, N, a0, step)
    BY <1>0, <2>1, <2>2, Recursion
  <2>5. \A n \in 1..N : f[n - 1] \in V
    <3>1. \A n \in 1..N : n - 1 \in 0..N
      BY <1>0
    <3> QED
      BY <3>1
  <2>6. \A n \in 0..N : n # 0 => n \in 1..N
    BY <1>0
  <2>7. f = [n \in 0..N |-> f[n]]
    OBVIOUS
  <2>8. \A n \in 0..N :
          f[n] = IF n = 0 THEN [seen |-> {}, new |-> << >>]
                 ELSE IF HashAt(raw, n) \in stored \cup f[n - 1].seen THEN f[n - 1]
                 ELSE [seen |-> f[n - 1].seen \cup {HashAt(raw, n)},
                       new  |-> Append(f[n - 1].new, n)]
    BY <2>3, <2>4, <2>5, <2>6 DEF FollowsFrom, a0
  <2>9. eqn(f)
    BY <2>7, <2>8
  <2> QED
    BY <2>9
<1>3. eqn(h)
  BY <1>2
<1>4. /\ h[0] = [seen |-> {}, new |-> << >>]
      /\ \A n \in 1..N : n \in 0..N /\
           h[n] = IF HashAt(raw, n) \in stored \cup h[n - 1].seen THEN h[n - 1]
                  ELSE [seen |-> h[n - 1].seen \cup {HashAt(raw, n)},
                        new  |-> Append(h[n - 1].new, n)]
  <2>1. 0 \in 0..N /\ \A n \in 1..N : n \in 0..N /\ n # 0
    BY <1>0
  <2> HIDE DEF h
  <2> QED
    BY <1>3, <2>1
<1> HIDE DEF h, eqn
<1> DEFINE I == {n \in 0..N :
                   /\ h[n].seen = {HashAt(raw, k) : k \in 1..n} \ stored
                   /\ h[n].new \in Seq(1..N) /\ Ordered(h[n].new, InOrder)
                   /\ ToSet(h[n].new) = {i \in NewJobs(raw, stored) : i <= n}}
<1>5. 0 \in I
  <2>1. 0 \in 0..N /\ 1..0 = {} /\ << >> \in Seq(1..N) /\ ToSet(<< >>) = {}
        /\ Ordered(<< >>, InOrder)
    BY <1>0 DEF ToSet, Ordered
  <2>2. {i \in NewJobs(raw, stored) : i <= 0} = {}
    BY <1>0 DEF NewJobs
  <2>3. {HashAt(raw, k) : k \in 1..0} \ stored = {}
    BY <2>1
  <2>4. h[0].seen = {} /\ h[0].new = << >>
    BY <1>4
  <2> QED
    BY <2>1, <2>2, <2>3, <2>4
<1>6. ASSUME NEW n \in 1..N, n - 1 \in I PROVE n \in I
  <2>1. /\ n \in 0..N /\ 1..n = 1..(n - 1) \cup {n}
        /\ \A i \in 1..N : i <= n <=> i <= n - 1 \/ i = n
    BY <1>0
  <2>2. /\ h[n - 1].seen = {HashAt(raw, k) : k \in 1..(n - 1)} \ stored
        /\ h[n - 1].new \in Seq(1..N) /\ Ordered(h[n - 1].new, InOrder)
        /\ ToSet(h[n - 1].new) = {i \in NewJobs(raw, stored) : i <= n - 1}
    BY <1>6
  <2>3. n \in NewJobs(raw, stored) <=> HashAt(raw, n) \notin stored \cup h[n - 1].seen
    BY <1>0, <2>2 DEF NewJobs
  <2>4. NewJobs(raw, stored) \subseteq 1..N
    BY <1>0 DEF NewJobs
  <2>5. CASE n \in NewJobs(raw, stored)
    <3>1. h[n] = [seen |-> h[n - 1].seen \cup {HashAt(raw, n)},
                  new  |-> Append(h[n - 1].new, n)]
      BY <1>4, <2>3, <2>5
    <3>2. h[n].seen = {HashAt(raw, k) : k \in 1..n} \ stored
      BY <2>1, <2>2, <2>3, <2>5, <3>1
    <3>3. \A y \in ToSet(h[n - 1].new) : <<y, n>> \in InOrder
      BY <1>0, <2>2, <2>4 DEF InOrder
    <3>4. h[n].new = h[n - 1].new \o <<n>>
      BY <2>2, <3>1, AppendIsConcat
    <3>5. /\ h[n].new \in Seq(1..N) /\ Ordered(h[n].new, InOrder)
          /\ ToSet(h[n].new) = {i \in NewJobs(raw, stored) : i <= n - 1} \cup {n}
      <4> DEFINE p == h[n - 1].new
      <4>1. p \in Seq(1..N) /\ Ordered(p, InOrder) /\ h[n].new = p \o <<n>>
            /\ ToSet(p) = {i \in NewJobs(raw, stored) : i <= n - 1}
            /\ \A y \in ToSet(p) : <<y, n>> \in InOrder
        BY <2>2, <3>3, <3>4
      <4> HIDE DEF p
      <4>2. /\ p \o <<n>> \in Seq(1..N) /\ ToSet(p \o <<n>>) = ToSet(p) \cup {n}
            /\ Ordered(p \o <<n>>, InOrder)
        BY <4>1, OneMore
      <4> QED
        BY <4>1, <4>2
    <3>6. {i \in NewJobs(raw, stored) : i <= n} =
            {i \in NewJobs(raw, stored) : i <= n - 1} \cup {n}
      BY <2>1, <2>4, <2>5
    <3> QED
      BY <2>1, <3>2, <3>5, <3>6
  <2>6. CASE n \notin NewJobs(raw, stored)
    <3>1. h[n] = h[n - 1]
      BY <1>4, <2>3, <2>6
    <3>2. {HashAt(raw, k) : k \in 1..n} \ stored = {HashAt(raw, k) : k \in 1..(n - 1)} \ stored
      BY <2>1, <2>2, <2>3, <2>6
    <3>3. {i \in NewJobs(raw, stored) : i <= n} = {i \in NewJobs(raw, stored) : i <= n - 1}
      BY <2>1, <2>4, <2>6
    <3> QED
      BY <2>1, <2>2, <3>1, <3>2, <3>3
  <2> QED
    BY <2>5, <2>6
<1> HIDE DEF I
<1>7. N \in I
  <2>1. 0..N \subseteq I
    BY <1>0, <1>5, <1>6, Induction
  <2> QED
    BY <1>0, <2>1
<1>8. {i \in NewJobs(raw, stored) : i <= N} = NewJobs(raw, stored)
  BY <1>0 DEF NewJobs
<1> QED
  BY <1>0, <1>1, <1>7, <1>8 DEF I

-----------------------------------------------------------------------------
(* passing.sort(key=score, reverse=True).                                  *)
LEMMA InsertedHolds ==
  ASSUME IsBatch, NEW s \in Seq(DOMAIN raw), Ordered(s, ByScore), NEW i \in DOMAIN raw,
         \A k \in ToSet(s) : k < i
  PROVE  /\ Inserted(s, i) \in Seq(DOMAIN raw) /\ ToSet(Inserted(s, i)) = ToSet(s) \cup {i}
         /\ Ordered(Inserted(s, i), ByScore)
<1> DEFINE asGood == {k \in DOMAIN raw : Score[raw[k]] >= Score[raw[i]]}
           u == Only(s, asGood)
           v == Only(s, DOMAIN raw \ asGood)
<1>1. \A k \in DOMAIN raw : Score[raw[k]] \in Int /\ k \in Nat
  BY BatchType
<1>2. ToSet(s) \subseteq DOMAIN raw
  BY ElementOfSeq DEF ToSet
<1>3. u \in Seq(DOMAIN raw) /\ ToSet(u) = ToSet(s) \cap asGood /\ Ordered(u, ByScore)
  BY OnlyKeeps
<1>4. v \in Seq(DOMAIN raw) /\ ToSet(v) = ToSet(s) \ asGood /\ Ordered(v, ByScore)
  <2>1. v \in Seq(DOMAIN raw) /\ ToSet(v) = ToSet(s) \cap (DOMAIN raw \ asGood) /\ Ordered(v, ByScore)
    BY OnlyKeeps
  <2> QED
    BY <1>2, <2>1
<1>5. Inserted(s, i) = u \o <<i>> \o v
  BY DEF Inserted
<1>6. \A x \in ToSet(u) : <<x, i>> \in ByScore
  BY <1>1, <1>2, <1>3 DEF ByScore, Before
<1>7. \A y \in ToSet(v) : <<i, y>> \in ByScore
  BY <1>1, <1>2, <1>4 DEF ByScore, Before
<1>8. \A x \in ToSet(u), y \in ToSet(v) : <<x, y>> \in ByScore
  <2>1. \A x \in ToSet(u) : x \in DOMAIN raw /\ Score[raw[x]] >= Score[raw[i]]
    BY <1>3
  <2>2. \A y \in ToSet(v) : y \in DOMAIN raw /\ ~(Score[raw[y]] >= Score[raw[i]])
    BY <1>2, <1>4
  <2> HIDE DEF u, v, asGood
  <2> QED
    BY <1>1, <2>1, <2>2 DEF ByScore, Before
<1> HIDE DEF u, v
<1>9. /\ u \o <<i>> \in Seq(DOMAIN raw) /\ ToSet(u \o <<i>>) = ToSet(u) \cup {i}
      /\ Ordered(u \o <<i>>, ByScore)
  BY <1>3, <1>6, OneMore
<1> DEFINE w == u \o <<i>>
<1>10. w \in Seq(DOMAIN raw) /\ Ordered(w, ByScore) /\ ToSet(w) = ToSet(u) \cup {i}
  BY <1>9
<1>11. Inserted(s, i) = w \o v
  BY <1>5
<1> HIDE DEF w
<1>12. ToSet(w \o v) = ToSet(s) \cup {i}
  <2>1. ToSet(w \o v) = ToSet(w) \cup ToSet(v)
    BY <1>4, <1>10, JoinedMembers
  <2> QED
    BY <1>3, <1>4, <1>10, <2>1
<1>13. Ordered(w \o v, ByScore)
  <2>1. \A x \in ToSet(w), y \in ToSet(v) : <<x, y>> \in ByScore
    BY <1>7, <1>8, <1>10
  <2> QED
    BY <1>4, <1>10, <2>1, JoinedOrder
<1>14. w \o v \in Seq(DOMAIN raw)
  BY <1>4, <1>10, ConcatProperties
<1> QED
  BY <1>11, <1>12, <1>13, <1>14

LEMMA InsertedType ==
  ASSUME IsBatch, NEW s \in Seq(DOMAIN raw), NEW i \in DOMAIN raw
  PROVE  Inserted(s, i) \in Seq(DOMAIN raw)
<1> DEFINE All == (DOMAIN raw) \X (DOMAIN raw)
           asGood == {k \in DOMAIN raw : Score[raw[k]] >= Score[raw[i]]}
<1>1. Ordered(s, All)
  BY ElementOfSeq DEF Ordered
<1>2. \A S : Only(s, S) \in Seq(DOMAIN raw)
  BY <1>1, OnlyKeeps
<1>3. Only(s, asGood) \o <<i>> \in Seq(DOMAIN raw)
  BY <1>2, ConcatProperties
<1>4. Only(s, asGood) \o <<i>> \o Only(s, DOMAIN raw \ asGood) \in Seq(DOMAIN raw)
  BY <1>2, <1>3, ConcatProperties
<1> QED
  BY <1>4 DEF Inserted

LEMMA SortKeeps ==
  ASSUME IsBatch, NEW jobs \in Seq(DOMAIN raw), Ordered(jobs, InOrder)
  PROVE  /\ StableSort(jobs) \in Seq(DOMAIN raw) /\ ToSet(StableSort(jobs)) = ToSet(jobs)
         /\ Ordered(StableSort(jobs), ByScore)
<1> DEFINE N == Len(jobs)
           eqn(f) == f = [n \in 0..N |-> IF n = 0 THEN << >> ELSE Inserted(f[n - 1], jobs[n])]
           h == CHOOSE f : eqn(f)
<1>0. /\ N \in Nat /\ DOMAIN jobs = 1..N /\ \A n \in 1..N : jobs[n] \in DOMAIN raw
  BY LenProperties, ElementOfSeq
<1>1. StableSort(jobs) = h[N]
  BY DEF StableSort
<1> HIDE DEF N
<1>2. \E f : eqn(f)
  <2> DEFINE V == Seq(DOMAIN raw)
             none == << >>
             step == [x \in (1..N) \X V |-> Inserted(x[2], jobs[x[1]])]
  <2>1. none \in V
    OBVIOUS
  <2>2. \A n \in 1..N, v \in V : Inserted(v, jobs[n]) \in V
    BY <1>0, InsertedType
  <2>3. step \in [(1..N) \X V -> V]
    <3> HIDE DEF V
    <3> QED
      BY <2>2
  <2>4. \A n \in 1..N, v \in V : step[<<n, v>>] = Inserted(v, jobs[n])
    OBVIOUS
  <2> HIDE DEF V, none, step
  <2>5. PICK f \in [0..N -> V] : FollowsFrom(f, N, none, step)
    BY <1>0, <2>1, <2>3, Recursion
  <2>6. \A n \in 1..N : f[n - 1] \in V
    <3>1. \A n \in 1..N : n - 1 \in 0..N
      BY <1>0
    <3> QED
      BY <3>1
  <2>7. \A n \in 0..N : n # 0 => n \in 1..N
    BY <1>0
  <2>8. f = [n \in 0..N |-> f[n]]
    OBVIOUS
  <2>9. \A n \in 0..N : f[n] = IF n = 0 THEN << >> ELSE Inserted(f[n - 1], jobs[n])
    BY <2>4, <2>5, <2>6, <2>7 DEF FollowsFrom, none
  <2>10. eqn(f)
    BY <2>8, <2>9
  <2> QED
    BY <2>10
<1>3. eqn(h)
  BY <1>2
<1>4. h[0] = << >> /\ \A n \in 1..N : n \in 0..N /\ h[n] = Inserted(h[n - 1], jobs[n])
  <2>1. 0 \in 0..N /\ \A n \in 1..N : n \in 0..N /\ n # 0
    BY <1>0
  <2> HIDE DEF h
  <2> QED
    BY <1>3, <2>1
<1> HIDE DEF h, eqn
<1> DEFINE I == {n \in 0..N :
                   /\ h[n] \in Seq(DOMAIN raw) /\ Ordered(h[n], ByScore)
                   /\ ToSet(h[n]) = {jobs[k] : k \in 1..n}}
<1>5. 0 \in I
  <2>1. 0 \in 0..N /\ 1..0 = {} /\ << >> \in Seq(DOMAIN raw) /\ ToSet(<< >>) = {}
        /\ Ordered(<< >>, ByScore)
    BY <1>0 DEF ToSet, Ordered
  <2> QED
    BY <1>4, <2>1
<1>6. ASSUME NEW n \in 1..N, n - 1 \in I PROVE n \in I
  <2>1. /\ n \in 0..N /\ 1..n = 1..(n - 1) \cup {n}
        /\ \A k \in 1..(n - 1) : k \in 1..N /\ k < n
    BY <1>0
  <2>2. /\ h[n - 1] \in Seq(DOMAIN raw) /\ Ordered(h[n - 1], ByScore)
        /\ ToSet(h[n - 1]) = {jobs[k] : k \in 1..(n - 1)}
    BY <1>6
  <2>3. \A k \in ToSet(h[n - 1]) : k < jobs[n]
    BY <1>0, <2>1, <2>2 DEF Ordered, InOrder
  <2>4. h[n] = Inserted(h[n - 1], jobs[n])
    BY <1>4
  <2>5. /\ h[n] \in Seq(DOMAIN raw) /\ ToSet(h[n]) = ToSet(h[n - 1]) \cup {jobs[n]}
        /\ Ordered(h[n], ByScore)
    BY <1>0, <2>2, <2>3, <2>4, InsertedHolds
  <2> QED
    BY <2>1, <2>2, <2>5
<1> HIDE DEF I
<1>7. N \in I
  <2>1. 0..N \subseteq I
    BY <1>0, <1>5, <1>6, Induction
  <2> QED
    BY <1>0, <2>1
<1> QED
  BY <1>0, <1>1, <1>7 DEF I, ToSet

-----------------------------------------------------------------------------
(* passing[:MAX_POSTS_PER_RUN]: who is ahead of a job in a sorted list are *)
(* those before it.                                                        *)
LEMMA AheadInSorted ==
  ASSUME IsBatch, NEW t \in Seq(DOMAIN raw), Ordered(t, ByScore), NEW k \in DOMAIN t
  PROVE  /\ Ahead(raw, ToSet(t), t[k]) = {t[m] : m \in 1..(k - 1)}
         /\ Cardinality(Ahead(raw, ToSet(t), t[k])) = k - 1
<1>0. /\ Len(t) \in Nat /\ DOMAIN t = 1..Len(t) /\ \A m \in DOMAIN t : t[m] \in DOMAIN raw
  BY LenProperties, ElementOfSeq
<1>1. \A m \in DOMAIN raw : Score[raw[m]] \in Int /\ m \in Nat
  BY BatchType
<1>2. \A m, n \in DOMAIN t : m < n => Before(raw, t[m], t[n]) /\ ~Before(raw, t[n], t[m])
  <2> SUFFICES ASSUME NEW m \in DOMAIN t, NEW n \in DOMAIN t, m < n
               PROVE  Before(raw, t[m], t[n]) /\ ~Before(raw, t[n], t[m])
    OBVIOUS
  <2>1. Before(raw, t[m], t[n]) /\ t[m] \in DOMAIN raw /\ t[n] \in DOMAIN raw
    BY <1>0 DEF Ordered, ByScore
  <2> QED
    BY <1>1, <2>1 DEF Before
<1>3. \A m \in DOMAIN t : ~Before(raw, t[m], t[m])
  BY <1>0, <1>1 DEF Before
<1>4. \A m \in DOMAIN t : Before(raw, t[m], t[k]) <=> m < k
  BY <1>0, <1>2, <1>3
<1>5. {m \in DOMAIN t : m < k} = 1..(k - 1)
  BY <1>0
<1>6. Ahead(raw, ToSet(t), t[k]) = {t[m] : m \in {m \in DOMAIN t : m < k}}
  BY <1>4 DEF Ahead, ToSet
<1>7. Cardinality({t[m] : m \in 1..(k - 1)}) = k - 1
  <2> DEFINE J == 1..(k - 1)
             T == {t[m] : m \in J}
             f == [m \in J |-> t[m]]
  <2>1. \A m \in J : m \in DOMAIN t /\ m \in Nat
    BY <1>0
  <2>2. \A m, n \in J : t[m] = t[n] => m = n
    BY <1>2, <1>3, <2>1
  <2>3. f \in Bijection(J, T)
    <3>1. f \in [J -> T] /\ \A m \in J : f[m] = t[m]
      OBVIOUS
    <3>2. \A y \in T : \E m \in J : y = t[m]
      OBVIOUS
    <3> HIDE DEF J, T, f
    <3> QED
      BY <2>2, <3>1, <3>2 DEF Bijection, Injection, Surjection, IsInjective
  <2>4. IsFiniteSet(J) /\ Cardinality(J) = k - 1
    <3>1. 1 \in Int /\ k - 1 \in Int
      BY <1>0
    <3>2. IsFiniteSet(J) /\ Cardinality(J) = IF 1 > k - 1 THEN 0 ELSE (k - 1) - 1 + 1
      BY <3>1, FS_Interval
    <3> QED
      BY <1>0, <3>2
  <2> HIDE DEF J, T, f
  <2>5. Cardinality(T) = Cardinality(J)
    BY <2>3, <2>4, FS_Bijection DEF ExistsBijection
  <2> QED
    BY <2>4, <2>5 DEF T, J
<1> QED
  BY <1>5, <1>6, <1>7

(* runner.run and the cap keep, of every batch, the listings of ToPost, in *)
(* the order in which the posting loop of pipeline_run takes them.         *)
THEOREM SelectionIsTheLoops == ASSUME IsBatch PROVE MatchesReference
<1> DEFINE clean == Only(Dedup, {i \in DOMAIN raw : raw[i] \notin Scam})
           good == Only(clean, {i \in DOMAIN raw : Score[raw[i]] >= MinScore})
           t == StableSort(good)
           m == IF Len(t) < MaxPosts THEN Len(t) ELSE MaxPosts
           P == Passing(raw, stored)
<1>1. /\ clean \in Seq(DOMAIN raw) /\ ToSet(clean) = CleanJobs(raw, stored)
      /\ Ordered(clean, InOrder)
  <2>1. NewJobs(raw, stored) \subseteq DOMAIN raw
    BY DEF NewJobs
  <2>2. /\ clean \in Seq(DOMAIN raw) /\ Ordered(clean, InOrder)
        /\ ToSet(clean) = NewJobs(raw, stored) \cap {i \in DOMAIN raw : raw[i] \notin Scam}
    <3> DEFINE S == {i \in DOMAIN raw : raw[i] \notin Scam}
               unseen == Dedup
    <3>1. unseen \in Seq(DOMAIN raw) /\ ToSet(unseen) = NewJobs(raw, stored) /\ Ordered(unseen, InOrder)
      BY DedupKeeps
    <3> HIDE DEF S, unseen
    <3>2. /\ Only(unseen, S) \in Seq(DOMAIN raw) /\ ToSet(Only(unseen, S)) = ToSet(unseen) \cap S
          /\ Ordered(Only(unseen, S), InOrder)
      BY <3>1, OnlyKeeps
    <3> QED
      BY <3>1, <3>2, Zenon DEF S, unseen
  <2>3. CleanJobs(raw, stored) = NewJobs(raw, stored) \cap {i \in DOMAIN raw : raw[i] \notin Scam}
    BY <2>1 DEF CleanJobs
  <2> HIDE DEF clean
  <2> QED
    BY <2>2, <2>3, Zenon
<1> HIDE DEF clean
<1>2. good \in Seq(DOMAIN raw) /\ ToSet(good) = P /\ Ordered(good, InOrder)
  <2>1. CleanJobs(raw, stored) \subseteq DOMAIN raw
    BY DEF CleanJobs, NewJobs
  <2>2. /\ good \in Seq(DOMAIN raw) /\ Ordered(good, InOrder)
        /\ ToSet(good) = CleanJobs(raw, stored) \cap {i \in DOMAIN raw : Score[raw[i]] >= MinScore}
    <3> DEFINE S == {i \in DOMAIN raw : Score[raw[i]] >= MinScore}
    <3> HIDE DEF S
    <3>1. /\ Only(clean, S) \in Seq(DOMAIN raw) /\ ToSet(Only(clean, S)) = ToSet(clean) \cap S
          /\ Ordered(Only(clean, S), InOrder)
      BY <1>1, OnlyKeeps
    <3> QED
      BY <1>1, <3>1, Zenon DEF S
  <2>3. P = CleanJobs(raw, stored) \cap {i \in DOMAIN raw : Score[raw[i]] >= MinScore}
    BY <2>1 DEF Passing
  <2> HIDE DEF good, P
  <2> QED
    BY <2>2, <2>3, Zenon
<1> HIDE DEF good, P
<1>3. t \in Seq(DOMAIN raw) /\ ToSet(t) = P /\ Ordered(t, ByScore)
  BY <1>2, SortKeeps
<1>4. ReferenceToPost = SubSeq(t, 1, m)
  BY DEF ReferenceToPost, clean, good
<1> HIDE DEF t
<1>5. /\ Len(t) \in Nat /\ DOMAIN t = 1..Len(t) /\ MaxPosts \in Nat
      /\ m \in Nat /\ 1..m \subseteq DOMAIN t
      /\ \A k \in DOMAIN t : k \in 1..m <=> k - 1 < MaxPosts
  BY <1>3, LenProperties, PipelineAssumption
<1> DEFINE jobs == SubSeq(t, 1, m)
<1>6. DOMAIN jobs = 1..m /\ \A k \in 1..m : jobs[k] = t[k]
  <2>1. jobs = [k \in 1..m |-> t[k]]
    BY <1>5
  <2> HIDE DEF jobs, m
  <2> QED
    BY <2>1
<1> HIDE DEF jobs, m
<1>7. \A k \in DOMAIN t : /\ Ahead(raw, P, t[k]) = {t[n] : n \in 1..(k - 1)}
                          /\ Cardinality(Ahead(raw, P, t[k])) = k - 1
  BY <1>3, AheadInSorted
<1>8. ToPost(raw, stored) = {t[k] : k \in 1..m}
  <2>1. P = {t[k] : k \in DOMAIN t}
    BY <1>3 DEF ToSet
  <2>2. ToPost(raw, stored) = {i \in P : Cardinality(Ahead(raw, P, i)) < MaxPosts}
    BY DEF ToPost, P
  <2> QED
    BY <1>5, <1>7, <2>1, <2>2
<1>9. ToSet(jobs) = ToPost(raw, stored)
  BY <1>6, <1>8 DEF ToSet
<1>10. ASSUME NEW k \in 1..m
       PROVE  IsNext(raw, ToPost(raw, stored) \ {jobs[n] : n \in 1..(k - 1)}, jobs[k])
  <2> DEFINE done == {t[n] : n \in 1..(k - 1)}
  <2>1. 1..(k - 1) \subseteq 1..m
    BY <1>5
  <2>2. {jobs[n] : n \in 1..(k - 1)} = done /\ jobs[k] = t[k]
    BY <1>6, <2>1
  <2>3. Ahead(raw, P, t[k]) = done
    BY <1>5, <1>7
  <2>4. ToPost(raw, stored) \subseteq P
    BY DEF ToPost, P
  <2>5. t[k] \notin Ahead(raw, P, t[k])
    <3>1. t[k] \in DOMAIN raw
      BY <1>3, <1>5, ElementOfSeq
    <3>2. Score[raw[t[k]]] \in Int /\ t[k] \in Int
      BY <3>1, BatchType
    <3> QED
      BY <3>2 DEF Ahead, Before
  <2>6. t[k] \in ToPost(raw, stored)
    BY <1>8
  <2> HIDE DEF done
  <2>7. Ahead(raw, ToPost(raw, stored) \ done, t[k]) = {}
    BY <2>3, <2>4 DEF Ahead
  <2> QED
    BY <2>2, <2>3, <2>5, <2>6, <2>7 DEF IsNext
<1> QED
  BY <1>4, <1>6, <1>9, <1>10 DEF MatchesReference, jobs

LEMMA BatchInvariant == Spec => []IsBatch
<1>1. Init => IsBatch
  BY DEF Init, IsBatch
<1>2. IsBatch /\ [Next]_vars => IsBatch'
  BY DEF IsBatch, Next, Fetch, Store, vars
<1> QED
  BY <1>1, <1>2, PTL DEF Spec

(* The same of every batch and table of the specification.                 *)
THEOREM SelectionAlwaysTheLoops == Spec => []MatchesReference
<1>1. IsBatch => MatchesReference
  BY SelectionIsTheLoops
<1> QED
  BY <1>1, BatchInvariant, PTL

-----------------------------------------------------------------------------
(* With more jobs in the table a job that is still new is not pushed off   *)
(* the selection: what is ahead of it can only become less.                *)
LEMMA MoreStored ==
  ASSUME IsBatch, NEW more, stored \subseteq more, NEW i \in ToPost(raw, stored),
         HashAt(raw, i) \notin more
  PROVE  i \in ToPost(raw, more)
<1>1. Passing(raw, more) \subseteq Passing(raw, stored)
  BY DEF Passing, CleanJobs, NewJobs
<1>2. i \in Passing(raw, more)
  BY DEF ToPost, Passing, CleanJobs, NewJobs
<1> DEFINE A == Ahead(raw, Passing(raw, stored), i)
           B == Ahead(raw, Passing(raw, more), i)
<1>3. B \subseteq A
  BY <1>1 DEF Ahead
<1>4. IsFiniteSet(A)
  <2>1. A \subseteq 1..Len(raw)
    BY BatchType DEF Ahead, Passing, CleanJobs, NewJobs
  <2>2. 1 \in Int /\ Len(raw) \in Int
    BY BatchType
  <2>3. IsFiniteSet(1..Len(raw))
    BY <2>2, FS_Interval
  <2> HIDE DEF A
  <2> QED
    BY <2>1, <2>3, FS_Subset
<1>5. Cardinality(A) < MaxPosts
  BY DEF ToPost
<1> HIDE DEF A, B
<1>6. Cardinality(B) <= Cardinality(A) /\ Cardinality(A) \in Nat /\ Cardinality(B) \in Nat
      /\ MaxPosts \in Nat
  <2>1. IsFiniteSet(B)
    BY <1>3, <1>4, FS_Subset
  <2> QED
    BY <1>3, <1>4, <2>1, FS_Subset, FS_CardinalityType, PipelineAssumption
<1>7. Cardinality(B) < MaxPosts
  BY <1>5, <1>6
<1> QED
  BY <1>2, <1>7 DEF ToPost, B

(* A backlog over the cap drains: each run stores some of the batch, and   *)
(* the rest is what the next run selects (MAX_POSTS_PER_RUN).              *)
THEOREM BacklogIsNotReshuffled == Spec => StoringKeepsTheRest
<1> DEFINE Step == raw' = raw =>
                     \A i \in ToPost(raw, stored) :
                       HashAt(raw, i) \notin stored' => i \in ToPost(raw, stored')
<1>1. IsBatch /\ [Next]_vars => [Step]_vars
  <2> SUFFICES ASSUME IsBatch, Next, raw' = raw PROVE Step
    OBVIOUS
  <2>1. stored \subseteq stored'
    BY DEF Next, Fetch, Store
  <2> QED
    BY <2>1, MoreStored
<1> QED
  BY <1>1, BatchInvariant, PTL DEF Spec, StoringKeepsTheRest
=============================================================================
