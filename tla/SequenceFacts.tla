---------------------------- MODULE SequenceFacts ----------------------------
(***************************************************************************)
(* Induction over the positions of a sequence, and what FlattenSeq of the  *)
(* community modules computes for every sequence of sequences.  The        *)
(* induction is stated with sets, not with operators: a set of numbers     *)
(* that is closed under the step, and the least number outside it.         *)
(***************************************************************************)
EXTENDS Integers, SequencesExt, SequenceTheorems, WellFoundedInduction, TLAPS

LEMMA Least ==
  ASSUME NEW T, T \subseteq Nat, T # {}
  PROVE  \E n \in T : \A m \in T : n <= m
<1>1. PICK n \in T : \A m \in T : <<m, n>> \notin OpToRel(<, Nat)
  <2>1. IsWellFoundedOn(OpToRel(<, Nat), Nat)
    BY NatLessThanWellFounded
  <2> HIDE DEF OpToRel
  <2> QED
    BY <2>1, WFMin
<1>2. \A m \in T : <<m, n>> \in Nat \X Nat
  OBVIOUS
<1>3. \A m \in T : ~(m < n)
  BY <1>1, <1>2 DEF OpToRel
<1> QED
  BY <1>3

LEMMA Induction ==
  ASSUME NEW N \in Nat, NEW I, 0 \in I, \A n \in 1..N : n - 1 \in I => n \in I
  PROVE  0..N \subseteq I
<1> DEFINE T == 0..N \ I
<1> SUFFICES ASSUME T # {} PROVE FALSE
  OBVIOUS
<1>0. T \subseteq Nat
  OBVIOUS
<1> HIDE DEF T
<1>1. PICK n \in T : \A m \in T : n <= m
  BY <1>0, Least
<1>2. n \in 1..N /\ n - 1 \in 0..N /\ n \notin I
  BY <1>1 DEF T
<1>3. n - 1 \notin T
  BY <1>1, <1>2
<1> QED
  BY <1>2, <1>3 DEF T

(* A function may be defined on 0..N by its value at 0 and a step.         *)
FollowsFrom(f, N, a, step) == f[0] = a /\ \A n \in 1..N : f[n] = step[<<n, f[n - 1]>>]

LEMMA Recursion ==
  ASSUME NEW N \in Nat, NEW V, NEW a \in V, NEW step \in [(1..N) \X V -> V]
  PROVE  \E f \in [0..N -> V] : FollowsFrom(f, N, a, step)
<1> DEFINE Good(M) == \E f \in [0..M -> V] :
                        f[0] = a /\ \A n \in 1..M : f[n] = step[<<n, f[n - 1]>>]
           I == {M \in 0..N : Good(M)}
<1>1. 0 \in I
  <2> DEFINE f == [m \in 0..0 |-> a]
  <2>1. f \in [0..0 -> V] /\ f[0] = a /\ 1..0 = {}
    OBVIOUS
  <2> HIDE DEF f
  <2>2. Good(0)
    BY <2>1
  <2> QED
    BY <2>2
<1>2. ASSUME NEW M \in 1..N, M - 1 \in I PROVE M \in I
  <2>1. PICK f \in [0..(M - 1) -> V] :
          f[0] = a /\ \A n \in 1..(M - 1) : f[n] = step[<<n, f[n - 1]>>]
    BY <1>2
  <2> DEFINE g == [m \in 0..M |-> IF m = M THEN step[<<M, f[M - 1]>>] ELSE f[m]]
  <2>2. f[M - 1] \in V /\ step[<<M, f[M - 1]>>] \in V
    OBVIOUS
  <2>3. g \in [0..M -> V]
    BY <2>2
  <2>4. g[0] = a /\ g[M] = step[<<M, g[M - 1]>>]
    <3>1. 0 \in 0..M /\ M \in 0..M /\ M - 1 \in 0..M /\ M # 0 /\ M - 1 # M
      OBVIOUS
    <3> QED
      BY <2>1, <3>1
  <2>5. \A n \in 1..(M - 1) : g[n] = step[<<n, g[n - 1]>>]
    BY <2>1
  <2> HIDE DEF g
  <2>6. \A n \in 1..M : g[n] = step[<<n, g[n - 1]>>]
    <3>1. \A n \in 1..M : n = M \/ n \in 1..(M - 1)
      OBVIOUS
    <3> QED
      BY <2>4, <2>5, <3>1
  <2>7. Good(M)
    BY <2>3, <2>4, <2>6
  <2> QED
    BY <2>7
<1> HIDE DEF Good
<1>3. 0..N \subseteq I
  BY <1>1, <1>2, Induction
<1>4. Good(N)
  BY <1>3
<1> QED
  BY <1>4 DEF Good, FollowsFrom

-----------------------------------------------------------------------------
(* FlattenSeq joins one sequence after the other.                          *)
LEMMA FlattenIs ==
  ASSUME NEW S, NEW s \in Seq(Seq(S))
  PROVE  \E f \in [0..Len(s) -> Seq(S)] :
           /\ f[0] = << >> /\ f[Len(s)] = FlattenSeq(s)
           /\ \A n \in 1..Len(s) : f[n] = f[n - 1] \o s[n]
<1> DEFINE N == Len(s)
           eqn(f) == f = [i \in 1..N |-> IF i = 1 THEN s[i] ELSE f[i - 1] \o s[i]]
           h == CHOOSE f : eqn(f)
<1>0. N \in Nat /\ \A n \in 1..N : s[n] \in Seq(S)
  OBVIOUS
<1>1. PICK f \in [0..N -> Seq(S)] :
        f[0] = << >> /\ \A n \in 1..N : f[n] = f[n - 1] \o s[n]
  <2> DEFINE V == Seq(S)
             none == << >>
             step == [x \in (1..N) \X V |-> x[2] \o s[x[1]]]
  <2>1. step \in [(1..N) \X V -> V]
    BY <1>0
  <2>2. none \in V
    OBVIOUS
  <2>3. \A n \in 1..N, v \in V : step[<<n, v>>] = v \o s[n]
    OBVIOUS
  <2> HIDE DEF step, N, V, none
  <2>4. PICK f \in [0..N -> V] : FollowsFrom(f, N, none, step)
    <3>1. N \in Nat
      BY <1>0
    <3> QED
      BY <3>1, <2>1, <2>2, Recursion
  <2>5. \A n \in 1..N : f[n - 1] \in V
    <3>1. \A n \in 1..N : n - 1 \in 0..N
      BY <1>0
    <3> QED
      BY <3>1
  <2>6. \A n \in 1..N : f[n] = f[n - 1] \o s[n]
    BY <2>3, <2>4, <2>5 DEF FollowsFrom
  <2> QED
    BY <2>4, <2>6 DEF V, none, FollowsFrom
<1> HIDE DEF N
<1>20. ASSUME N # 0
      PROVE  1 \in 1..N /\ f[1] = s[1] /\ \A n \in 1..N : n # 1 => n - 1 \in 1..N
  <2>1. 1 \in 1..N /\ 1 - 1 = 0
    BY <1>0, <1>20
  <2>2. f[1] = << >> \o s[1] /\ s[1] \in Seq(S)
    BY <1>0, <1>1, <2>1
  <2> QED
    BY <1>0, <2>1, <2>2
<1>2. CASE N = 0
  <2>1. FlattenSeq(s) = << >>
    BY <1>2 DEF FlattenSeq, N
  <2> QED
    BY <1>1, <1>2, <2>1 DEF N
<1>3. CASE N # 0
  <2>1. FlattenSeq(s) = h[N]
    BY <1>3 DEF FlattenSeq, N
  <2>2. eqn([i \in 1..N |-> f[i]])
    BY <1>1, <1>3, <1>20
  <2>3. eqn(h)
    BY <2>2
  <2> DEFINE I == {n \in 0..N : n = 0 \/ h[n] = f[n]}
  <2>4. ASSUME NEW n \in 1..N, n - 1 \in I PROVE n \in I
    <3>1. h[n] = IF n = 1 THEN s[n] ELSE h[n - 1] \o s[n]
      BY <2>3
    <3> HIDE DEF h
    <3>2. CASE n = 1
      BY <1>3, <1>20, <3>1, <3>2
    <3>3. CASE n # 1
      <4>1. n - 1 \in 1..N /\ h[n - 1] = f[n - 1]
        BY <1>0, <1>20, <1>3, <2>4, <3>3
      <4>2. h[n] = f[n - 1] \o s[n]
        BY <3>1, <3>3, <4>1
      <4>3. f[n] = f[n - 1] \o s[n]
        BY <1>1
      <4>4. n \in 0..N
        BY <1>0
      <4> QED
        BY <4>2, <4>3, <4>4
    <3> QED
      BY <1>0, <3>2, <3>3
  <2>5. 0 \in I
    BY <1>0
  <2> HIDE DEF h, I
  <2>6. 0..N \subseteq I
    BY <1>0, <2>4, <2>5, Induction
  <2>7. h[N] = f[N]
    BY <1>0, <1>3, <2>6 DEF I
  <2> QED
    BY <1>1, <2>1, <2>7 DEF N
<1> QED
  BY <1>2, <1>3

-----------------------------------------------------------------------------
(* The members of a sequence, and sequences in the order of a relation.    *)
Ordered(s, R) == \A i, k \in DOMAIN s : i < k => <<s[i], s[k]>> \in R

LEMMA JoinedMembers ==
  ASSUME NEW S, NEW s \in Seq(S), NEW t \in Seq(S)
  PROVE  ToSet(s \o t) = ToSet(s) \cup ToSet(t)
<1>1. /\ DOMAIN (s \o t) = 1..(Len(s) + Len(t)) /\ DOMAIN s = 1..Len(s) /\ DOMAIN t = 1..Len(t)
      /\ Len(s) \in Nat /\ Len(t) \in Nat
  BY ConcatProperties, LenProperties
<1>2. ASSUME NEW i \in DOMAIN (s \o t) PROVE (s \o t)[i] \in ToSet(s) \cup ToSet(t)
  <2>1. CASE i <= Len(s)
    <3>1. i \in DOMAIN s /\ (s \o t)[i] = s[i]
      BY <1>1, <2>1, ConcatProperties
    <3> QED
      BY <3>1 DEF ToSet
  <2>2. CASE i > Len(s)
    <3>1. i - Len(s) \in DOMAIN t /\ (s \o t)[i] = t[i - Len(s)]
      BY <1>1, <2>2, ConcatProperties
    <3> QED
      BY <3>1 DEF ToSet
  <2> QED
    BY <1>1, <2>1, <2>2
<1>3. ASSUME NEW i \in DOMAIN s PROVE s[i] \in ToSet(s \o t)
  <2>1. i \in DOMAIN (s \o t) /\ (s \o t)[i] = s[i]
    BY <1>1, ConcatProperties
  <2> QED
    BY <2>1 DEF ToSet
<1>4. ASSUME NEW i \in DOMAIN t PROVE t[i] \in ToSet(s \o t)
  <2>1. i + Len(s) \in DOMAIN (s \o t) /\ (s \o t)[i + Len(s)] = t[i]
    BY <1>1, ConcatProperties
  <2> QED
    BY <2>1 DEF ToSet
<1> QED
  BY <1>2, <1>3, <1>4 DEF ToSet

LEMMA JoinedOrder ==
  ASSUME NEW S, NEW s \in Seq(S), NEW t \in Seq(S), NEW R, Ordered(s, R), Ordered(t, R),
         \A x \in ToSet(s), y \in ToSet(t) : <<x, y>> \in R
  PROVE  Ordered(s \o t, R)
<1>1. /\ DOMAIN (s \o t) = 1..(Len(s) + Len(t)) /\ DOMAIN s = 1..Len(s) /\ DOMAIN t = 1..Len(t)
      /\ Len(s) \in Nat /\ Len(t) \in Nat
  BY ConcatProperties, LenProperties
<1> SUFFICES ASSUME NEW i \in DOMAIN (s \o t), NEW k \in DOMAIN (s \o t), i < k
             PROVE  <<(s \o t)[i], (s \o t)[k]>> \in R
  BY DEF Ordered
<1>2. \A j \in DOMAIN (s \o t) :
        /\ j <= Len(s) => j \in DOMAIN s /\ (s \o t)[j] = s[j]
        /\ j > Len(s) => j - Len(s) \in DOMAIN t /\ (s \o t)[j] = t[j - Len(s)]
  BY <1>1, ConcatProperties
<1>3. CASE k <= Len(s)
  BY <1>1, <1>2, <1>3 DEF Ordered
<1>4. CASE i > Len(s)
  <2>1. i - Len(s) < k - Len(s) /\ k > Len(s)
    BY <1>1, <1>4
  <2> QED
    BY <1>2, <1>4, <2>1 DEF Ordered
<1>5. CASE i <= Len(s) /\ k > Len(s)
  BY <1>2, <1>5 DEF ToSet
<1>6. k <= Len(s) \/ i > Len(s) \/ (i <= Len(s) /\ k > Len(s))
  <2>1. i \in Nat /\ k \in Nat
    BY <1>1
  <2> QED
    BY <1>1, <2>1
<1> QED
  BY <1>3, <1>4, <1>5, <1>6

-----------------------------------------------------------------------------
(* FlattenSeq keeps the members and, of ordered sequences that follow each *)
(* other in the order, the order.                                          *)
LEMMA FlattenType ==
  ASSUME NEW S, NEW s \in Seq(Seq(S))
  PROVE  FlattenSeq(s) \in Seq(S)
<1>1. PICK f \in [0..Len(s) -> Seq(S)] : f[Len(s)] = FlattenSeq(s)
  BY FlattenIs
<1>2. Len(s) \in 0..Len(s)
  BY LenProperties
<1> QED
  BY <1>1, <1>2

LEMMA FlattenMembers ==
  ASSUME NEW S, NEW s \in Seq(Seq(S))
  PROVE  ToSet(FlattenSeq(s)) = UNION {ToSet(s[k]) : k \in DOMAIN s}
<1> DEFINE N == Len(s)
<1>1. PICK f \in [0..N -> Seq(S)] :
        /\ f[0] = << >> /\ f[N] = FlattenSeq(s)
        /\ \A n \in 1..N : f[n] = f[n - 1] \o s[n]
  BY FlattenIs
<1>2. N \in Nat /\ DOMAIN s = 1..N /\ \A n \in 1..N : s[n] \in Seq(S)
  BY LenProperties, ElementOfSeq
<1> HIDE DEF N
<1> DEFINE I == {n \in 0..N : ToSet(f[n]) = UNION {ToSet(s[k]) : k \in 1..n}}
<1>3. 0 \in I
  <2>1. ToSet(<< >>) = {} /\ 1..0 = {}
    BY DEF ToSet
  <2> QED
    BY <1>1, <1>2, <2>1
<1>4. ASSUME NEW n \in 1..N, n - 1 \in I PROVE n \in I
  <2>1. n \in 0..N /\ n - 1 \in 0..N /\ 1..n = 1..(n - 1) \cup {n}
    BY <1>2
  <2>4. f[n] = f[n - 1] \o s[n] /\ f[n - 1] \in Seq(S) /\ s[n] \in Seq(S)
    BY <1>1, <1>2, <2>1
  <2>2. ToSet(f[n]) = ToSet(f[n - 1]) \cup ToSet(s[n])
    BY <2>4, JoinedMembers
  <2>3. UNION {ToSet(s[k]) : k \in 1..n} =
          (UNION {ToSet(s[k]) : k \in 1..(n - 1)}) \cup ToSet(s[n])
    BY <2>1
  <2> QED
    BY <1>4, <2>1, <2>2, <2>3
<1> HIDE DEF I
<1>5. N \in I
  <2>1. 0..N \subseteq I
    BY <1>2, <1>3, <1>4, Induction
  <2> QED
    BY <1>2, <2>1
<1> QED
  BY <1>1, <1>2, <1>5 DEF I

LEMMA FlattenOrder ==
  ASSUME NEW S, NEW s \in Seq(Seq(S)), NEW R, \A k \in DOMAIN s : Ordered(s[k], R),
         \A k, m \in DOMAIN s : k < m =>
           \A x \in ToSet(s[k]), y \in ToSet(s[m]) : <<x, y>> \in R
  PROVE  Ordered(FlattenSeq(s), R)
<1> DEFINE N == Len(s)
<1>1. PICK f \in [0..N -> Seq(S)] :
        /\ f[0] = << >> /\ f[N] = FlattenSeq(s)
        /\ \A n \in 1..N : f[n] = f[n - 1] \o s[n]
  BY FlattenIs
<1>2. N \in Nat /\ DOMAIN s = 1..N /\ \A n \in 1..N : s[n] \in Seq(S)
  BY LenProperties, ElementOfSeq
<1> HIDE DEF N
<1> DEFINE I == {n \in 0..N : /\ Ordered(f[n], R)
                              /\ \A m \in (n + 1)..N : \A x \in ToSet(f[n]), y \in ToSet(s[m]) :
                                   <<x, y>> \in R}
<1>3. 0 \in I
  <2>1. ToSet(<< >>) = {} /\ Ordered(<< >>, R)
    BY DEF ToSet, Ordered
  <2> QED
    BY <1>1, <1>2, <2>1
<1>4. ASSUME NEW n \in 1..N, n - 1 \in I PROVE n \in I
  <2>1. /\ n \in 0..N /\ n - 1 \in 0..N /\ n \in ((n - 1) + 1)..N
        /\ \A m \in (n + 1)..N : m \in ((n - 1) + 1)..N /\ m \in 1..N /\ n < m
    BY <1>2
  <2>2. f[n] = f[n - 1] \o s[n] /\ f[n - 1] \in Seq(S) /\ s[n] \in Seq(S)
    BY <1>1, <1>2, <2>1
  <2>3. ToSet(f[n]) = ToSet(f[n - 1]) \cup ToSet(s[n])
    BY <2>2, JoinedMembers
  <2>4. /\ Ordered(f[n - 1], R)
        /\ \A m \in ((n - 1) + 1)..N : \A x \in ToSet(f[n - 1]), y \in ToSet(s[m]) :
             <<x, y>> \in R
    BY <1>4
  <2>5. Ordered(f[n], R)
    BY <1>2, <2>1, <2>2, <2>4, JoinedOrder
  <2>6. ASSUME NEW m \in (n + 1)..N, NEW x \in ToSet(f[n]), NEW y \in ToSet(s[m])
        PROVE  <<x, y>> \in R
    BY <1>2, <2>1, <2>3, <2>4, <2>6
  <2> QED
    BY <2>1, <2>5, <2>6
<1> HIDE DEF I
<1>5. N \in I
  <2>1. 0..N \subseteq I
    BY <1>2, <1>3, <1>4, Induction
  <2> QED
    BY <1>2, <2>1
<1> QED
  BY <1>1, <1>5 DEF I

(* One more sequence at the end, and one more element.                     *)
LEMMA FlattenAppend ==
  ASSUME NEW S, NEW s \in Seq(Seq(S)), NEW x \in Seq(S)
  PROVE  FlattenSeq(Append(s, x)) = FlattenSeq(s) \o x
<1> DEFINE N == Len(s)
           t == Append(s, x)
<1>0. /\ N \in Nat /\ t \in Seq(Seq(S)) /\ Len(t) = N + 1 /\ t[N + 1] = x
      /\ \A n \in 1..N : t[n] = s[n]
  BY AppendProperties, LenProperties
<1>1. PICK f \in [0..N -> Seq(S)] :
        /\ f[0] = << >> /\ f[N] = FlattenSeq(s)
        /\ \A n \in 1..N : f[n] = f[n - 1] \o s[n]
  BY FlattenIs
<1> HIDE DEF t
<1>2. PICK g \in [0..Len(t) -> Seq(S)] :
        /\ g[0] = << >> /\ g[Len(t)] = FlattenSeq(t)
        /\ \A n \in 1..Len(t) : g[n] = g[n - 1] \o t[n]
  BY <1>0, FlattenIs
<1> HIDE DEF N
<1> DEFINE I == {n \in 0..N : g[n] = f[n]}
<1>3. 0 \in I
  BY <1>0, <1>1, <1>2
<1>4. ASSUME NEW n \in 1..N, n - 1 \in I PROVE n \in I
  <2>1. n \in 0..N /\ n \in 1..Len(t)
    BY <1>0
  <2> QED
    BY <1>0, <1>1, <1>2, <1>4, <2>1
<1> HIDE DEF I
<1>5. N \in I
  <2>1. 0..N \subseteq I
    BY <1>0, <1>3, <1>4, Induction
  <2> QED
    BY <1>0, <2>1
<1>6. g[N] = f[N]
  BY <1>5 DEF I
<1>7. N + 1 \in 1..Len(t) /\ (N + 1) - 1 = N
  BY <1>0
<1>8. FlattenSeq(t) = g[N] \o t[N + 1]
  BY <1>0, <1>2, <1>7
<1> QED
  BY <1>0, <1>1, <1>6, <1>8 DEF t

LEMMA FlattenEmpty == FlattenSeq(<< >>) = << >>
BY DEF FlattenSeq

-----------------------------------------------------------------------------
LEMMA FlattenOne ==
  ASSUME NEW S, NEW x \in Seq(S)
  PROVE  FlattenSeq(<<x>>) = x
<1> DEFINE none == << >>
<1>1. none \in Seq(Seq(S)) /\ Append(none, x) = <<x>>
  OBVIOUS
<1> HIDE DEF none
<1>2. FlattenSeq(Append(none, x)) = FlattenSeq(none) \o x
  BY <1>1, FlattenAppend
<1>3. << >> \o x = x
  OBVIOUS
<1> QED
  BY <1>1, <1>2, <1>3, FlattenEmpty DEF none

(* Joining, as a name: the provers find the instances of a fact about it   *)
(* more easily than of one about \o.                                       *)
Joined(s, t) == s \o t

LEMMA JoinedThree ==
  ASSUME NEW S, NEW s \in Seq(S), NEW t \in Seq(S), NEW u \in Seq(S)
  PROVE  Joined(Joined(s, t), u) = Joined(s, Joined(t, u))
BY ConcatAssociative DEF Joined

LEMMA FlattenJoined ==
  ASSUME NEW S, NEW s \in Seq(Seq(S)), NEW t \in Seq(Seq(S))
  PROVE  FlattenSeq(s \o t) = FlattenSeq(s) \o FlattenSeq(t)
<1> DEFINE T == Seq(S)
           N == Len(t)
           upTo(n) == SubSeq(t, 1, n)
           I == {n \in 0..N : FlattenSeq(s \o upTo(n)) = FlattenSeq(s) \o FlattenSeq(upTo(n))}
           flat == FlattenSeq(s)
<1>0. N \in Nat /\ s \in Seq(T) /\ t \in Seq(T) /\ t = upTo(N) /\ flat \in T
  BY LenProperties, FlattenType
<1>1. 0 \in I
  <2>1. upTo(0) = << >> /\ s \o << >> = s /\ flat \o << >> = flat
    BY <1>0, SubSeqEmpty
  <2>2. s \o upTo(0) = s
    BY <2>1
  <2>4. FlattenSeq(upTo(0)) = << >> /\ 0 \in 0..N
    <3>1. upTo(0) = << >> /\ N \in Nat
      BY <1>0, <2>1
    <3> HIDE DEF upTo, N
    <3> QED
      BY <3>1, FlattenEmpty
  <2> HIDE DEF upTo, N
  <2>3. FlattenSeq(s \o upTo(0)) = flat \o FlattenSeq(upTo(0))
    BY <2>1, <2>2, <2>4
  <2> QED
    BY <2>4, <2>3
<1>2. ASSUME NEW n \in 1..N, n - 1 \in I PROVE n \in I
  <2> DEFINE before == upTo(n - 1)
             x == t[n]
             joined == s \o before
  <2>1. /\ n \in Nat /\ n \in 0..N /\ n - 1 \in 0..N /\ x \in T
        /\ 1 \in 1..N /\ upTo(n) = before \o <<x>>
    <3>1. n \in Nat /\ n \in 0..N /\ n - 1 \in 0..N /\ 1 \in 1..N /\ n \in 1..Len(t)
      BY <1>0
    <3>2. x \in T
      BY <1>0, ElementOfSeq
    <3> QED
      BY <1>0, <3>1, <3>2, SubSeqRecursiveSecond
  <2>2. before \in Seq(T)
    BY <1>0, <2>1
  <2>3. FlattenSeq(joined) = flat \o FlattenSeq(before)
    BY <1>2
  <2> HIDE DEF upTo, before, x, flat, T, N
  <2>4. joined \in Seq(T) /\ <<x>> \in Seq(T)
    BY <1>0, <2>1, <2>2, ConcatProperties
  <2>5. s \o upTo(n) = Append(joined, x) /\ upTo(n) = Append(before, x)
    <3>1. (s \o before) \o <<x>> = s \o (before \o <<x>>)
      <4>1. s \in Seq(T) /\ before \in Seq(T) /\ <<x>> \in Seq(T)
        BY <1>0, <2>2, <2>4, Zenon
      <4> QED
        BY ONLY <4>1, ConcatAssociative
    <3>2. joined \o <<x>> = Append(joined, x)
      BY <2>1, <2>4, AppendIsConcat
    <3>3. before \o <<x>> = Append(before, x)
      BY <2>1, <2>2, AppendIsConcat
    <3>4. upTo(n) = before \o <<x>>
      BY <2>1, Zenon
    <3> QED
      BY <3>1, <3>2, <3>3, <3>4, Zenon
  <2> HIDE DEF joined
  <2>6. /\ FlattenSeq(Append(joined, x)) = FlattenSeq(joined) \o x
        /\ FlattenSeq(Append(before, x)) = FlattenSeq(before) \o x
    BY <2>1, <2>2, <2>4, FlattenAppend DEF T
  <2>7. FlattenSeq(before) \in T
    BY <2>2, FlattenType DEF T
  <2>8. (flat \o FlattenSeq(before)) \o x = flat \o (FlattenSeq(before) \o x)
    <3> DEFINE start == FlattenSeq(before)
    <3>1. flat \in Seq(S) /\ start \in Seq(S) /\ x \in Seq(S)
      BY <1>0, <2>1, <2>7, Zenon DEF T
    <3> HIDE DEF start
    <3>2. Joined(Joined(flat, start), x) = Joined(flat, Joined(start, x))
      BY <3>1, JoinedThree
    <3> QED
      BY <3>2, Zenon DEF start, Joined
  <2>9. FlattenSeq(s \o upTo(n)) = flat \o FlattenSeq(upTo(n))
    BY <2>3, <2>5, <2>6, <2>8, Zenon
  <2>10. n \in 0..N
    BY <2>1, Zenon
  <2> QED
    BY <2>9, <2>10, Zenon DEF flat
<1> HIDE DEF I
<1>3. N \in I
  <2>1. 0..N \subseteq I
    BY <1>0, <1>1, <1>2, Induction
  <2> QED
    BY <1>0, <2>1
<1> QED
  BY <1>0, <1>3 DEF I

(* A sequence grows by its elements, one after the other.                  *)
LEMMA OneByOne ==
  ASSUME NEW S, NEW s, s \in Seq(S), NEW n, n \in 1..Len(s)
  PROVE  /\ SubSeq(s, 1, n) = Joined(SubSeq(s, 1, n - 1), <<s[n]>>)
         /\ SubSeq(s, 1, n - 1) \in Seq(S) /\ s[n] \in S /\ <<s[n]>> \in Seq(S)
<1>1. Len(s) \in Nat /\ n \in 1..Len(s) /\ 1 \in 1..Len(s) /\ n - 1 \in Int
  BY LenProperties
<1>2. \A k \in 1..n : s[k] \in S
  BY <1>1, ElementOfSeq
<1>3. s[n] \in S /\ \A k \in 1..(n - 1) : s[k] \in S
  BY <1>1, <1>2
<1>4. SubSeq(s, 1, n) = SubSeq(s, 1, n - 1) \o <<s[n]>>
  BY <1>1, SubSeqRecursiveSecond
<1>5. SubSeq(s, 1, n - 1) \in Seq(S)
  BY <1>1, <1>3, SubSeqProperties
<1>6. <<s[n]>> \in Seq(S)
  BY <1>3
<1> QED
  BY <1>3, <1>4, <1>5, <1>6 DEF Joined

(* What comes of the elements of a sequence, one after the other.          *)
Spreads(F, A, B) == F \in [A -> Seq(B)]
Spread(s, F) == FlattenSeq([k \in DOMAIN s |-> F[s[k]]])

LEMMA SpreadJoined ==
  ASSUME NEW A, NEW B, NEW F, Spreads(F, A, B)
  PROVE  /\ \A s \in Seq(A) : Spread(s, F) \in Seq(B)
         /\ \A s, t \in Seq(A) : Spread(Joined(s, t), F) = Joined(Spread(s, F), Spread(t, F))
<1> SUFFICES ASSUME NEW a, NEW b, a \in Seq(A), b \in Seq(A)
             PROVE  /\ Spread(a, F) \in Seq(B)
                    /\ Spread(a \o b, F) = Spread(a, F) \o Spread(b, F)
  BY DEF Joined
<1> DEFINE each(s) == [k \in DOMAIN s |-> F[s[k]]]
<1>1. ASSUME NEW s \in Seq(A)
      PROVE  /\ each(s) \in Seq(Seq(B)) /\ Len(each(s)) = Len(s) /\ DOMAIN s = 1..Len(s)
             /\ \A k \in 1..Len(s) : each(s)[k] = F[s[k]]
  <2>1. Len(s) \in Nat /\ DOMAIN s = 1..Len(s) /\ \A k \in 1..Len(s) : s[k] \in A
    BY LenProperties, ElementOfSeq DEF Spreads
  <2>2. each(s) \in [1..Len(s) -> Seq(B)]
    BY <2>1 DEF Spreads
  <2> QED
    BY <2>1, <2>2
<1>2. a \o b \in Seq(A)
  OBVIOUS
<1>3. each(a \o b) = each(a) \o each(b)
  <2> DEFINE x == each(a)
             y == each(b)
             z == each(a \o b)
             W == Seq(B)
  <2>1. /\ x \in Seq(W) /\ y \in Seq(W) /\ z \in Seq(W)
        /\ Len(x) = Len(a) /\ Len(y) = Len(b) /\ Len(z) = Len(a \o b)
        /\ \A k \in 1..Len(a) : x[k] = F[a[k]]
        /\ \A k \in 1..Len(b) : y[k] = F[b[k]]
        /\ \A k \in 1..Len(a \o b) : z[k] = F[(a \o b)[k]]
    BY <1>1, <1>2
  <2>2. /\ Len(a) \in Nat /\ Len(b) \in Nat /\ Len(a \o b) = Len(a) + Len(b)
        /\ \A k \in 1..(Len(a) + Len(b)) :
             (a \o b)[k] = IF k <= Len(a) THEN a[k] ELSE b[k - Len(a)]
    BY LenProperties, ConcatProperties
  <2> HIDE DEF x, y, z, W
  <2>3. /\ x \o y \in Seq(W) /\ Len(x \o y) = Len(a) + Len(b)
        /\ \A k \in 1..(Len(a) + Len(b)) :
             (x \o y)[k] = IF k <= Len(a) THEN x[k] ELSE y[k - Len(a)]
    <3>1. /\ Len(x \o y) = Len(x) + Len(y) /\ x \o y \in Seq(W)
          /\ \A k \in 1..(Len(x) + Len(y)) :
               (x \o y)[k] = IF k <= Len(x) THEN x[k] ELSE y[k - Len(x)]
      <4>1. x \in Seq(W) /\ y \in Seq(W)
        BY <2>1
      <4> QED
        BY <4>1, ConcatProperties
    <3> QED
      BY <2>1, <3>1
  <2>4. ASSUME NEW k \in 1..(Len(a) + Len(b)) PROVE z[k] = (x \o y)[k]
    <3>1. k <= Len(a) => k \in 1..Len(a)
      BY <2>2
    <3>2. ~(k <= Len(a)) => k - Len(a) \in 1..Len(b)
      BY <2>2
    <3>3. k \in 1..Len(a \o b)
      BY <2>2
    <3>4. /\ z[k] = F[(a \o b)[k]]
          /\ (a \o b)[k] = IF k <= Len(a) THEN a[k] ELSE b[k - Len(a)]
          /\ (x \o y)[k] = IF k <= Len(a) THEN x[k] ELSE y[k - Len(a)]
      BY <2>1, <2>2, <2>3, <3>3
    <3>5. CASE k <= Len(a)
      BY <2>1, <3>1, <3>4, <3>5
    <3>6. CASE ~(k <= Len(a))
      BY <2>1, <3>2, <3>4, <3>6
    <3> QED
      BY <3>5, <3>6
  <2>5. z = x \o y
    BY <2>1, <2>2, <2>3, <2>4, SeqEqual
  <2> QED
    BY <2>5 DEF x, y, z
<1> HIDE DEF each
<1>4. /\ FlattenSeq(each(a \o b)) = FlattenSeq(each(a)) \o FlattenSeq(each(b))
      /\ FlattenSeq(each(a)) \in Seq(B)
  BY <1>1, <1>3, FlattenJoined, FlattenType
<1> QED
  BY <1>4 DEF Spread, each

LEMMA SpreadOne ==
  ASSUME NEW A, NEW B, NEW x \in A, NEW F, Spreads(F, A, B)
  PROVE  Spread(<<x>>, F) = F[x]
<1>1. [k \in DOMAIN <<x>> |-> F[<<x>>[k]]] = <<F[x]>>
  OBVIOUS
<1>2. FlattenSeq(<<F[x]>>) = F[x]
  <2>1. F[x] \in Seq(B)
    BY DEF Spreads
  <2> QED
    BY <2>1, FlattenOne
<1> QED
  BY <1>1, <1>2 DEF Spread

LEMMA SpreadNothing ==
  ASSUME NEW F
  PROVE  Spread(<< >>, F) = << >>
<1>1. [k \in DOMAIN << >> |-> F[<< >>[k]]] = << >>
  OBVIOUS
<1> QED
  BY <1>1, FlattenEmpty DEF Spread

(* What is spread twice is spread once, over what comes of each element.   *)
LEMMA SpreadSpread ==
  ASSUME NEW A, NEW B, NEW C, NEW F, Spreads(F, A, B), NEW G, Spreads(G, B, C),
         NEW H, Spreads(H, A, C), \A x \in A : H[x] = Spread(F[x], G),
         NEW s, s \in Seq(A)
  PROVE  Spread(Spread(s, F), G) = Spread(s, H)
<1> DEFINE N == Len(s)
           upTo(n) == SubSeq(s, 1, n)
           I == {n \in 0..N : Spread(Spread(upTo(n), F), G) = Spread(upTo(n), H)}
<1>0. N \in Nat /\ (\A n \in 1..N : s[n] \in A) /\ upTo(N) = s
  BY LenProperties, ElementOfSeq
<1>1. ASSUME NEW n \in 1..N
      PROVE  upTo(n) = Joined(upTo(n - 1), <<s[n]>>) /\ upTo(n - 1) \in Seq(A)
  BY OneByOne
<1>2. upTo(0) = << >>
  BY SubSeqEmpty
<1> HIDE DEF N, upTo
<1>3. 0 \in I
  <2>1. Spread(Spread(upTo(0), F), G) = Spread(upTo(0), H)
    BY <1>2, SpreadNothing
  <2> QED
    BY <1>0, <2>1
<1>4. ASSUME NEW n \in 1..N, n - 1 \in I PROVE n \in I
  <2> DEFINE t == upTo(n - 1)
             x == s[n]
             one == <<x>>
  <2>1. t \in Seq(A) /\ x \in A /\ upTo(n) = Joined(t, one) /\ n \in 0..N
    BY <1>0, <1>1
  <2>2. one \in Seq(A)
    BY <2>1
  <2>3. Spread(one, F) = F[x] /\ Spread(one, H) = H[x] /\ F[x] \in Seq(B)
    BY <2>1, SpreadOne DEF Spreads
  <2>4. Spread(Spread(t, F), G) = Spread(t, H)
    BY <1>4
  <2> HIDE DEF t, one, x
  <2>5. Spread(Joined(t, one), F) = Joined(Spread(t, F), F[x]) /\ Spread(t, F) \in Seq(B)
    BY <2>1, <2>2, <2>3, SpreadJoined
  <2>6. Spread(Joined(t, one), H) = Joined(Spread(t, H), H[x])
    BY <2>1, <2>2, <2>3, SpreadJoined
  <2> DEFINE a == Spread(t, F)
             b == F[x]
  <2>7. a \in Seq(B) /\ b \in Seq(B)
    BY <2>3, <2>5
  <2> HIDE DEF a, b
  <2>8. Spread(Joined(a, b), G) = Joined(Spread(a, G), Spread(b, G))
    BY <2>7, SpreadJoined
  <2>9. Spread(Spread(upTo(n), F), G) = Spread(upTo(n), H)
    BY <2>1, <2>4, <2>5, <2>6, <2>8 DEF a, b
  <2> QED
    BY <2>1, <2>9
<1> HIDE DEF I
<1>5. N \in I
  <2>1. 0..N \subseteq I
    BY <1>0, <1>3, <1>4, Induction
  <2> QED
    BY <1>0, <2>1
<1> QED
  BY <1>0, <1>5 DEF I

LEMMA PairJoined ==
  ASSUME NEW C, NEW b \in C, NEW c \in C
  PROVE  Joined(<<b>>, <<c>>) = <<b, c>>
<1>1. <<b>> \in Seq(C)
  OBVIOUS
<1>2. Append(<<b>>, c) = <<b, c>>
  <2> DEFINE one == <<b>>
             two == <<b, c>>
             u == Append(one, c)
  <2>1. two \in Seq(C) /\ Len(two) = 2 /\ two[1] = b /\ two[2] = c
    OBVIOUS
  <2>2. one \in Seq(C) /\ Len(one) = 1 /\ one[1] = b
    OBVIOUS
  <2> HIDE DEF one, two
  <2>3. u \in Seq(C) /\ Len(u) = 2 /\ u[2] = c /\ u[1] = one[1]
    <3>1. /\ u \in Seq(C) /\ Len(u) = Len(one) + 1 /\ u[Len(one) + 1] = c
          /\ \A i \in 1..Len(one) : u[i] = one[i]
      <4>1. one \in Seq(C)
        BY <2>2
      <4> QED
        BY <4>1, AppendProperties
    <3> QED
      BY <2>2, <3>1
  <2> HIDE DEF u
  <2>4. \A i \in 1..2 : u[i] = two[i]
    <3>1. \A i \in 1..2 : i = 1 \/ i = 2
      OBVIOUS
    <3> QED
      BY <2>1, <2>2, <2>3, <3>1
  <2>5. u = two
    BY <2>1, <2>3, <2>4, SeqEqual
  <2> QED
    BY <2>5 DEF u, one, two
<1>3. Append(<<b>>, c) = <<b>> \o <<c>>
  BY <1>1, AppendIsConcat
<1> QED
  BY <1>2, <1>3 DEF Joined
=============================================================================
