--------------------------- MODULE LineSeqProofs ----------------------------
(* Lemmas about LineSeqs. *)
EXTENDS LineSeqs, FiniteSetTheorems, SequenceTheorems, TLAPS

\* The numbers up to n are finitely many, and n.
LEMMA UpTo == \A n \in Nat : IsFiniteSet(1..n) /\ Cardinality(1..n) = n
  BY FS_Interval

\* Two intervals from 1 that are equal have the same end.
LEMMA SameEnd ==
  ASSUME NEW m \in Nat, NEW n \in Nat, 1..m = 1..n
  PROVE  m = n
<1>1. ~(m > n)
  <2>1. m > n => m \in 1..m
    OBVIOUS
  <2> QED
    BY <2>1
<1>2. ~(m < n)
  <2>1. m < n => n \in 1..n
    OBVIOUS
  <2> QED
    BY <2>1
<1> QED
  BY <1>1, <1>2

\* A function from the first n numbers is a sequence of n elements.
LEMMA FunctionIsSeq ==
  ASSUME NEW S, NEW n \in Nat, NEW f \in [1..n -> S]
  PROVE  f \in Seq(S) /\ Len(f) = n
<1>1. f \in Seq(S)
  OBVIOUS
<1>2. Len(f) \in Nat /\ 1..Len(f) = 1..n
  <2>1. Len(f) \in Nat /\ DOMAIN f = 1..Len(f)
    BY <1>1, LenProperties
  <2>2. DOMAIN f = 1..n
    OBVIOUS
  <2> QED
    BY <2>1, <2>2, Zenon
<1> QED
  BY <1>1, <1>2, SameEnd

\* A sequence holds an element a number of times.
LEMMA CountType ==
  ASSUME NEW S, NEW s \in Seq(S), NEW l
  PROVE  /\ IsFiniteSet({i \in DOMAIN s : s[i] = l})
         /\ Count(s, l) \in Nat
<1> DEFINE A == {i \in DOMAIN s : s[i] = l}
<1>1. A \in SUBSET (1..Len(s)) /\ Len(s) \in Nat
  OBVIOUS
<1>2. IsFiniteSet(1..Len(s))
  BY <1>1, FS_Interval
<1>3. IsFiniteSet(A)
  BY <1>1, <1>2, FS_Subset
<1> QED
  BY <1>3, FS_CardinalityType DEF Count

\* It is not there if and only if it is counted zero times.
LEMMA CountNone ==
  ASSUME NEW S, NEW s \in Seq(S), NEW l
  PROVE  Count(s, l) = 0 <=> \A i \in 1..Len(s) : s[i] # l
<1> DEFINE A == {i \in DOMAIN s : s[i] = l}
<1>1. A = {} <=> \A i \in 1..Len(s) : s[i] # l
  OBVIOUS
<1>2. Cardinality(A) = 0 <=> A = {}
  BY CountType, FS_EmptySet
<1> QED
  BY <1>1, <1>2 DEF Count

\* What a sequence holds is in its first n elements or in the others.
LEMMA CountSplit ==
  ASSUME NEW S, NEW s \in Seq(S), NEW n \in 0..Len(s), NEW l
  PROVE  Count(s, l) = Count(SubSeq(s, 1, n), l) + Count(SubSeq(s, n + 1, Len(s)), l)
<1> DEFINE front == SubSeq(s, 1, n)
           back  == SubSeq(s, n + 1, Len(s))
           A == {i \in DOMAIN s : s[i] = l}
           B == {i \in DOMAIN front : front[i] = l}
           C == {i \in DOMAIN back : back[i] = l}
           D == {i \in A : i > n}
           shift == [i \in C |-> i + n]
<1>0. Len(s) \in Nat /\ n \in Nat /\ n <= Len(s) /\ DOMAIN s = 1..Len(s)
  OBVIOUS
<1>1. /\ front \in Seq(S) /\ DOMAIN front = 1..n
      /\ \A i \in 1..n : front[i] = s[i]
  BY <1>0
<1>2. /\ back \in Seq(S) /\ DOMAIN back = 1..(Len(s) - n)
      /\ \A i \in 1..(Len(s) - n) : back[i] = s[i + n]
  BY <1>0
<1> HIDE DEF front, back
<1>3. B = {i \in A : i <= n}
  BY <1>0, <1>1
<1>4. A = B \cup D /\ B \cap D = {}
  BY <1>3, <1>0
<1>5. shift \in Bijection(C, D)
  <2>1. \A i \in C : i + n \in D
    BY <1>0, <1>2
  <2>2. \A j \in D : j - n \in C /\ (j - n) + n = j
    BY <1>0, <1>2
  <2>3. \A i, j \in C : i + n = j + n => i = j
    BY <1>0, <1>2
  <2>4. shift \in [C -> D]
    BY <2>1
  <2>5. \A i, j \in C : shift[i] = shift[j] => i = j
    BY <2>3
  <2>6. \A j \in D : \E i \in C : shift[i] = j
    BY <2>2
  <2> HIDE DEF C, D, shift
  <2> QED
    BY <2>4, <2>5, <2>6 DEF Bijection, Injection, Surjection, IsInjective
<1>6. IsFiniteSet(A) /\ IsFiniteSet(B) /\ IsFiniteSet(C)
  BY <1>1, <1>2, CountType
<1>7. IsFiniteSet(D) /\ Cardinality(D) = Cardinality(C)
  BY <1>5, <1>6, FS_Bijection DEF ExistsBijection
<1>8. Cardinality(A) = Cardinality(B) + Cardinality(D)
  <2> HIDE DEF A, B, C, D
  <2>1. Cardinality(B \cap D) = 0
    BY <1>4, FS_EmptySet
  <2>2. Cardinality(B) \in Nat /\ Cardinality(D) \in Nat
    BY <1>6, <1>7, FS_CardinalityType
  <2>3. Cardinality(B \cup D) = Cardinality(B) + Cardinality(D) - Cardinality(B \cap D)
    BY <1>6, <1>7, FS_Union
  <2>4. Cardinality(B \cup D) = Cardinality(B) + Cardinality(D)
    BY <2>1, <2>2, <2>3
  <2> QED
    BY <2>4, <1>4
<1> QED
  BY <1>7, <1>8 DEF Count, front, back

\* Counting in a sequence of one element.
LEMMA CountOne ==
  ASSUME NEW x, NEW l
  PROVE  Count(<<x>>, l) = IF x = l THEN 1 ELSE 0
<1>1. {i \in DOMAIN <<x>> : <<x>>[i] = l} = IF x = l THEN {1} ELSE {}
  OBVIOUS
<1> QED
  BY <1>1, FS_Singleton, FS_EmptySet DEF Count

\* Nothing is in the empty sequence.
LEMMA CountEmpty == \A l : Count(<<>>, l) = 0
  BY FS_EmptySet DEF Count

\* The type and length of a concatenation.
LEMMA ConcatType ==
  ASSUME NEW S, NEW s \in Seq(S), NEW t \in Seq(S)
  PROVE  s \o t \in Seq(S) /\ Len(s \o t) = Len(s) + Len(t)
  OBVIOUS

\* Where the elements of a concatenation come from.
LEMMA ConcatAt ==
  ASSUME NEW S, NEW s \in Seq(S), NEW t \in Seq(S)
  PROVE  /\ \A i \in 1..Len(s) : (s \o t)[i] = s[i]
         /\ \A i \in 1..Len(t) : (s \o t)[Len(s) + i] = t[i]
  OBVIOUS

\* Counting in a concatenation.
LEMMA CountConcat ==
  ASSUME NEW S, NEW s \in Seq(S), NEW t \in Seq(S), NEW l
  PROVE  /\ s \o t \in Seq(S)
         /\ Count(s \o t, l) = Count(s, l) + Count(t, l)
<1> DEFINE u == s \o t
<1>1. u \in Seq(S) /\ Len(u) = Len(s) + Len(t) /\ Len(s) \in 0..Len(u)
  OBVIOUS
<1>2. SubSeq(u, 1, Len(s)) = s
  OBVIOUS
<1>3. SubSeq(u, Len(s) + 1, Len(u)) = t
  OBVIOUS
<1> HIDE DEF u
<1>4. Count(u, l) = Count(SubSeq(u, 1, Len(s)), l) + Count(SubSeq(u, Len(s) + 1, Len(u)), l)
  BY <1>1, CountSplit
<1> QED
  BY <1>1, <1>2, <1>3, <1>4 DEF u

\* Counting when an element is appended.
LEMMA CountAppend ==
  ASSUME NEW S, NEW s \in Seq(S), NEW x \in S, NEW l
  PROVE  Count(Append(s, x), l) = Count(s, l) + (IF x = l THEN 1 ELSE 0)
<1> DEFINE one == <<x>>
<1>1. Append(s, x) = s \o one /\ one \in Seq(S)
  OBVIOUS
<1>2. Count(one, l) = IF x = l THEN 1 ELSE 0
  BY CountOne
<1> HIDE DEF one
<1>3. Count(s \o one, l) = Count(s, l) + Count(one, l)
  BY <1>1, CountConcat
<1> QED
  BY <1>1, <1>2, <1>3

\* Counting the head and the tail.
LEMMA CountTail ==
  ASSUME NEW S, NEW s \in Seq(S), s # <<>>, NEW l
  PROVE  Count(s, l) = (IF Head(s) = l THEN 1 ELSE 0) + Count(Tail(s), l)
<1> DEFINE first == <<Head(s)>>
           rest  == Tail(s)
<1>1. first \in Seq(S) /\ rest \in Seq(S) /\ s = first \o rest
  OBVIOUS
<1>2. Count(first, l) = IF Head(s) = l THEN 1 ELSE 0
  BY CountOne
<1> HIDE DEF first, rest
<1>3. Count(first \o rest, l) = Count(first, l) + Count(rest, l)
  BY <1>1, CountConcat
<1> QED
  BY <1>1, <1>2, <1>3 DEF rest

\* A line put into a sequence is counted once more.
LEMMA CountInsert ==
  ASSUME NEW S, NEW s \in Seq(S), NEW x \in S, NEW n \in 0..Len(s)
  PROVE  /\ PutBehind(s, n, x) \in Seq(S)
         /\ Len(PutBehind(s, n, x)) = Len(s) + 1
         /\ \A l : Count(PutBehind(s, n, x), l) =
                     Count(s, l) + (IF x = l THEN 1 ELSE 0)
<1> DEFINE front == SubSeq(s, 1, n)
           back  == SubSeq(s, n + 1, Len(s))
           one   == <<x>>
<1>0. Len(s) \in Nat /\ n \in Nat /\ n <= Len(s)
  OBVIOUS
<1>1. /\ front \in Seq(S) /\ Len(front) = n
      /\ back \in Seq(S) /\ Len(back) = Len(s) - n
  BY <1>0
<1>2. \A l : Count(s, l) = Count(front, l) + Count(back, l)
  BY CountSplit
<1>3. one \in Seq(S) /\ Len(one) = 1
  OBVIOUS
<1>4. \A l : Count(one, l) = IF x = l THEN 1 ELSE 0
  BY CountOne
<1> HIDE DEF front, back, one
<1> DEFINE start == front \o one
<1>5. start \in Seq(S) /\ Len(start) = n + 1
  BY <1>1, <1>3, ConcatType
<1>6. \A l : Count(start, l) = Count(front, l) + Count(one, l)
  BY <1>1, <1>3, CountConcat
<1> HIDE DEF start
<1>7. /\ start \o back \in Seq(S) /\ Len(start \o back) = Len(s) + 1
      /\ \A l : Count(start \o back, l) = Count(start, l) + Count(back, l)
  <2>1. start \o back \in Seq(S) /\ Len(start \o back) = Len(s) + 1
    <3>1. start \o back \in Seq(S) /\ Len(start \o back) = Len(start) + Len(back)
      BY <1>1, <1>5, ConcatType
    <3> QED
      BY <3>1, <1>0, <1>1, <1>5
  <2>2. \A l : Count(start \o back, l) = Count(start, l) + Count(back, l)
    BY <1>1, <1>5, CountConcat
  <2> QED
    BY <2>1, <2>2
<1>8. \A l : Count(front, l) \in Nat /\ Count(back, l) \in Nat
  BY <1>1, CountType
<1>9. \A l : Count(start \o back, l) = Count(s, l) + (IF x = l THEN 1 ELSE 0)
  BY <1>2, <1>4, <1>6, <1>7, <1>8
<1> QED
  BY <1>7, <1>9 DEF front, back, one, start, PutBehind

\* A sequence that takes different places of another one holds no line more
\* often than it.
LEMMA CountEmbedded ==
  ASSUME NEW S, NEW s \in Seq(S), NEW t \in Seq(S),
         NEW f \in [1..Len(t) -> 1..Len(s)],
         \A i, j \in 1..Len(t) : f[i] = f[j] => i = j,
         \A i \in 1..Len(t) : t[i] = s[f[i]],
         NEW l
  PROVE  Count(t, l) <= Count(s, l)
<1> DEFINE A == {i \in DOMAIN s : s[i] = l}
           B == {i \in DOMAIN t : t[i] = l}
           g == [i \in B |-> f[i]]
<1>1. DOMAIN s = 1..Len(s) /\ DOMAIN t = 1..Len(t)
  OBVIOUS
<1>2. g \in [B -> A]
  BY <1>1
<1>3. \A i, j \in B : g[i] = g[j] => i = j
  BY <1>1
<1>4. IsFiniteSet(A)
  <2>1. A \in SUBSET (1..Len(s)) /\ Len(s) \in Nat
    OBVIOUS
  <2> QED
    BY <2>1, FS_Interval, FS_Subset
<1> HIDE DEF A, B, g
<1>5. g \in Injection(B, A)
  BY <1>2, <1>3 DEF Injection, IsInjective
<1>6. Cardinality(B) <= Cardinality(A)
  BY <1>4, <1>5, FS_Injection
<1> QED
  BY <1>6 DEF A, B, Count

\* One that takes every place where l is holds it at least as often.
LEMMA CountCovered ==
  ASSUME NEW S, NEW s \in Seq(S), NEW t \in Seq(S),
         NEW f \in [1..Len(t) -> 1..Len(s)],
         \A i \in 1..Len(t) : t[i] = s[f[i]],
         NEW l,
         \A j \in 1..Len(s) : s[j] = l => \E i \in 1..Len(t) : f[i] = j
  PROVE  Count(s, l) <= Count(t, l)
<1> DEFINE A == {i \in DOMAIN s : s[i] = l}
           B == {i \in DOMAIN t : t[i] = l}
           g == [i \in B |-> f[i]]
<1>1. DOMAIN s = 1..Len(s) /\ DOMAIN t = 1..Len(t) /\ Len(t) \in Nat
  OBVIOUS
<1>2. g \in [B -> A]
  BY <1>1
<1>3. \A j \in A : \E i \in B : g[i] = j
  BY <1>1
<1>4. IsFiniteSet(B)
  <2>1. B \in SUBSET (1..Len(t))
    BY <1>1
  <2>2. IsFiniteSet(1..Len(t))
    BY <1>1, UpTo
  <2> QED
    BY <2>1, <2>2, FS_Subset
<1> HIDE DEF A, B, g
<1>5. g \in Surjection(B, A)
  BY <1>2, <1>3 DEF Surjection
<1>6. Cardinality(A) <= Cardinality(B)
  BY <1>4, <1>5, FS_Surjection
<1> QED
  BY <1>6 DEF A, B, Count

-----------------------------------------------------------------------------
(* The places a filter keeps *)

\* Ordered lists every number of W once, in increasing order.
LEMMA OrderedLists ==
  ASSUME NEW W \in SUBSET Int, IsFiniteSet(W)
  PROVE  /\ Cardinality(W) \in Nat
         /\ Ordered(W) \in [1..Cardinality(W) -> W]
         /\ \A j, k \in 1..Cardinality(W) : j < k => Ordered(W)[j] < Ordered(W)[k]
         /\ \A i \in W : \E k \in 1..Cardinality(W) : Ordered(W)[k] = i
<1> DEFINE n == Cardinality(W)
           upto(i) == {j \in W : j <= i}
           rank == [i \in W |-> Cardinality(upto(i))]
<1>1. n \in Nat /\ IsFiniteSet(1..n) /\ Cardinality(1..n) = n
  BY FS_CardinalityType, FS_Interval
<1>2. \A i \in W : /\ IsFiniteSet(upto(i))
                   /\ Cardinality(upto(i)) \in Nat
                   /\ Cardinality(upto(i)) <= n
                   /\ Cardinality(upto(i)) # 0
  <2> TAKE i \in W
  <2>1. upto(i) \in SUBSET W /\ i \in upto(i)
    OBVIOUS
  <2>2. IsFiniteSet(upto(i)) /\ Cardinality(upto(i)) <= n
    BY <2>1, FS_Subset
  <2>3. Cardinality(upto(i)) \in Nat
    BY <2>2, FS_CardinalityType
  <2>4. Cardinality(upto(i)) # 0
    BY <2>1, <2>2, FS_EmptySet
  <2> QED
    BY <2>2, <2>3, <2>4
<1>3. rank \in [W -> 1..n]
  BY <1>1, <1>2
<1>4. \A i, j \in W : i < j => rank[i] < rank[j]
  <2> SUFFICES ASSUME NEW i \in W, NEW j \in W, i < j
               PROVE  Cardinality(upto(i)) < Cardinality(upto(j))
    OBVIOUS
  <2>1. /\ \A k \in W : k <= i => k <= j
        /\ j <= j /\ ~(j <= i)
    OBVIOUS
  <2>1a. upto(i) \in SUBSET upto(j) /\ j \in upto(j) /\ j \notin upto(i)
    BY <2>1, Zenon
  <2>2. IsFiniteSet(upto(j)) /\ Cardinality(upto(i)) \in Nat /\ Cardinality(upto(j)) \in Nat
    BY <1>2
  <2>3. /\ Cardinality(upto(i)) <= Cardinality(upto(j))
        /\ Cardinality(upto(j)) = Cardinality(upto(i)) => upto(j) = upto(i)
    <3> HIDE DEF upto
    <3> QED
      BY <2>1a, <2>2, FS_Subset
  <2>4. upto(j) # upto(i)
    BY <2>1a
  <2> HIDE DEF upto
  <2> QED
    BY <2>2, <2>3, <2>4
<1>5. rank \in Injection(W, 1..n)
  <2>1. \A i, j \in W : rank[i] = rank[j] => i = j
    <3> HIDE DEF rank
    <3> QED
      BY <1>3, <1>4
  <2> HIDE DEF rank, n
  <2> QED
    BY <1>3, <2>1 DEF Injection, IsInjective
<1>6. rank \in Surjection(W, 1..n)
  <2> HIDE DEF rank
  <2> QED
    BY <1>1, <1>5, FS_Injection
<1>7. \A k \in 1..n : \E i \in W : rank[i] = k
  <2> HIDE DEF rank, n
  <2> QED
    BY <1>6 DEF Surjection
<1>8. \A k \in 1..n : Ordered(W)[k] \in W /\ rank[Ordered(W)[k]] = k
  <2> TAKE k \in 1..n
  <2>1. Ordered(W)[k] = CHOOSE i \in W : Cardinality(upto(i)) = k
    BY DEF Ordered
  <2>2. \E i \in W : Cardinality(upto(i)) = k
    BY <1>7
  <2>3. Ordered(W)[k] \in W /\ Cardinality(upto(Ordered(W)[k])) = k
    <3> HIDE DEF upto
    <3> QED
      BY <2>1, <2>2
  <2> QED
    BY <2>3
<1>9. Ordered(W) \in [1..n -> W]
  <2>1. Ordered(W) = [k \in 1..n |-> Ordered(W)[k]]
    BY SMTT(30) DEF Ordered
  <2> HIDE DEF n
  <2> QED
    BY <1>8, <2>1
<1> HIDE DEF rank, n
<1>10. \A j, k \in 1..n : j < k => Ordered(W)[j] < Ordered(W)[k]
  <2> SUFFICES ASSUME NEW j \in 1..n, NEW k \in 1..n, j < k
               PROVE  Ordered(W)[j] < Ordered(W)[k]
    OBVIOUS
  <2>1. /\ Ordered(W)[j] \in Int /\ rank[Ordered(W)[j]] = j
        /\ Ordered(W)[k] \in Int /\ rank[Ordered(W)[k]] = k
        /\ Ordered(W)[j] \in W /\ Ordered(W)[k] \in W
    BY <1>8
  <2>2. ~(Ordered(W)[k] < Ordered(W)[j]) /\ Ordered(W)[k] # Ordered(W)[j]
    BY <2>1, <1>4, <1>1
  <2> QED
    BY <2>1, <2>2
<1>11. \A i \in W : Ordered(W)[rank[i]] = i
  BY <1>3, <1>5, <1>8 DEF Injection, IsInjective
<1> QED
  BY <1>1, <1>3, <1>9, <1>10, <1>11 DEF n

\* All of the first n places are kept: nothing is left out.
LEMMA OrderedAll ==
  ASSUME NEW n \in Nat
  PROVE  Ordered(1..n) = [k \in 1..n |-> k]
<1>1. IsFiniteSet(1..n) /\ Cardinality(1..n) = n
  BY FS_Interval
<1>2. \A k \in 1..n : {j \in 1..n : j <= k} = 1..k
  OBVIOUS
<1>3. \A k \in 1..n : Cardinality(1..k) = k
  BY FS_Interval
<1>4. \A k \in 1..n : \A i \in 1..n :
         Cardinality({j \in 1..n : j <= i}) = k <=> i = k
  BY <1>2, <1>3
<1>5. \A k \in 1..n :
         (CHOOSE i \in 1..n : Cardinality({j \in 1..n : j <= i}) = k) = k
  BY <1>4
<1> QED
  BY <1>1, <1>5 DEF Ordered

-----------------------------------------------------------------------------
(* Sequences in time order                                                 *)

\* No line of s is older than the one before it.
Sorted(s) == \A i, j \in DOMAIN s : i <= j => s[i].ts <= s[j].ts

\* Where a line goes that is put behind the n-th, and where the others are.
LEMMA InsertAt ==
  ASSUME NEW S, NEW s \in Seq(S), NEW x \in S, NEW n \in 0..Len(s)
  PROVE  /\ \A i \in 1..n : PutBehind(s, n, x)[i] = s[i]
         /\ PutBehind(s, n, x)[n + 1] = x
         /\ \A i \in n+1..Len(s) : PutBehind(s, n, x)[i + 1] = s[i]
<1> DEFINE front == SubSeq(s, 1, n)
           back  == SubSeq(s, n + 1, Len(s))
           one   == <<x>>
<1>0. Len(s) \in Nat /\ n \in Nat /\ n <= Len(s) /\ DOMAIN s = 1..Len(s)
  OBVIOUS
<1>1. /\ front \in Seq(S) /\ Len(front) = n
      /\ \A i \in 1..n : front[i] = s[i]
  BY <1>0
<1>2. /\ back \in Seq(S) /\ Len(back) = Len(s) - n
      /\ \A i \in 1..(Len(s) - n) : back[i] = s[i + n]
  <2>1. /\ back \in Seq(S) /\ DOMAIN back = 1..(Len(s) - n)
        /\ \A i \in 1..(Len(s) - n) : back[i] = s[i + n]
    BY <1>0
  <2> HIDE DEF back
  <2>2. Len(back) \in Nat /\ DOMAIN back = 1..Len(back)
    BY <2>1
  <2>3. Len(back) = Len(s) - n
    <3>1. Len(s) - n \in Nat
      BY <1>0
    <3>2. 1..Len(back) = 1..(Len(s) - n)
      BY <2>1, <2>2, Zenon
    <3> QED
      BY <2>2, <3>1, <3>2, SameEnd
  <2> QED
    BY <2>1, <2>3
<1>3. one \in Seq(S) /\ Len(one) = 1
  OBVIOUS
<1>4. one[1] = x
  OBVIOUS
<1> HIDE DEF front, back, one
<1> DEFINE start == front \o one
<1>5. /\ start \in Seq(S) /\ Len(start) = n + 1
      /\ \A i \in 1..Len(front) : start[i] = front[i]
      /\ \A i \in 1..Len(one) : start[Len(front) + i] = one[i]
  <2>1. start \in Seq(S) /\ Len(start) = n + 1
    BY <1>1, <1>3, ConcatType
  <2>2. /\ \A i \in 1..Len(front) : start[i] = front[i]
        /\ \A i \in 1..Len(one) : start[Len(front) + i] = one[i]
    BY <1>1, <1>3, ConcatAt
  <2> QED
    BY <2>1, <2>2
<1> HIDE DEF start
<1>6. /\ \A i \in 1..Len(start) : (start \o back)[i] = start[i]
      /\ \A i \in 1..Len(back) : (start \o back)[Len(start) + i] = back[i]
  BY <1>2, <1>5, ConcatAt
<1> DEFINE t == start \o back
<1>t. t = start \o back
  OBVIOUS
<1> HIDE DEF t
<1>7. ASSUME NEW i \in 1..n
      PROVE  t[i] = s[i]
  BY <1>0, <1>1, <1>5, <1>6, <1>t
<1>8. t[n + 1] = x
  <2>1. n + 1 \in 1..Len(start) /\ 1 \in 1..Len(one)
    BY <1>0, <1>3, <1>5
  <2>2. t[n + 1] = start[n + 1]
    BY <2>1, <1>6, <1>t
  <2>3. start[n + 1] = one[1]
    BY <2>1, <1>5, <1>1
  <2> QED
    BY <2>2, <2>3, <1>4
<1>9. ASSUME NEW i \in n+1..Len(s)
      PROVE  t[i + 1] = s[i]
  <2>1. i - n \in 1..Len(back) /\ (n + 1) + (i - n) = i + 1 /\ (i - n) + n = i
    <3>1. i \in Int /\ n + 1 <= i /\ i <= Len(s)
      BY <1>0
    <3>2. Len(back) = Len(s) - n
      BY <1>2
    <3> QED
      BY <3>1, <3>2, <1>0
  <2>2. t[(n + 1) + (i - n)] = back[i - n]
    BY <2>1, <1>5, <1>6, <1>t
  <2>3. back[i - n] = s[(i - n) + n]
    BY <2>1, <1>2
  <2> QED
    BY <2>1, <2>2, <2>3
<1> QED
  BY <1>7, <1>8, <1>9 DEF front, back, one, start, t, PutBehind

\* A sequence in time order with one more line, put where it belongs, is in
\* time order.
LEMMA SortedWithOneMore ==
  ASSUME NEW S, \A x \in S : x.ts \in Int,
         NEW s \in Seq(S), Sorted(s), NEW x \in S, NEW n \in 0..Len(s),
         \A j \in 1..n : s[j].ts <= x.ts,
         \A j \in n+1..Len(s) : s[j].ts >= x.ts,
         NEW t \in Seq(S), Len(t) = Len(s) + 1,
         \A i \in 1..n : t[i] = s[i],
         t[n + 1] = x,
         \A i \in n+1..Len(s) : t[i + 1] = s[i]
  PROVE  Sorted(t)
<1>0. /\ Len(s) \in Nat /\ n \in Nat /\ n <= Len(s) /\ DOMAIN s = 1..Len(s)
      /\ DOMAIN t = 1..(Len(s) + 1)
  OBVIOUS
<1>1. \A i \in 1..Len(s) : s[i].ts \in Int
  OBVIOUS
<1>2. \A i, j \in 1..Len(s) : i <= j => s[i].ts <= s[j].ts
  BY <1>0 DEF Sorted
<1>3. \A i \in n+2..(Len(s) + 1) : i - 1 \in n+1..Len(s) /\ t[i] = s[i - 1]
  <2> TAKE i \in n+2..(Len(s) + 1)
  <2>1. i - 1 \in n+1..Len(s) /\ (i - 1) + 1 = i
    BY <1>0
  <2> QED
    BY <2>1
<1>4. ASSUME NEW i \in 1..(Len(s) + 1), NEW j \in 1..(Len(s) + 1), i <= j
      PROVE  t[i].ts <= t[j].ts
  <2>0. i \in Int /\ j \in Int
    BY <1>0
  <2>1. CASE j <= n
    BY <2>0, <2>1, <1>0, <1>2, <1>4
  <2>2. CASE j = n + 1 /\ i = n + 1
    BY <2>2
  <2>3. CASE j = n + 1 /\ i <= n
    BY <2>0, <2>3, <1>0
  <2>4. CASE j > n + 1
    <3>1. j - 1 \in n+1..Len(s) /\ t[j] = s[j - 1]
      BY <2>0, <2>4, <1>0, <1>3
    <3>2. CASE i <= n
      BY <2>0, <3>1, <3>2, <1>0, <1>2
    <3>3. CASE i = n + 1
      BY <3>1, <3>3
    <3>4. CASE i > n + 1
      <4>1. i - 1 \in n+1..Len(s) /\ t[i] = s[i - 1] /\ i - 1 <= j - 1
        BY <2>0, <3>4, <1>0, <1>3, <1>4
      <4> QED
        BY <3>1, <4>1, <1>0, <1>2
    <3> QED
      BY <2>0, <3>2, <3>3, <3>4, <1>0
  <2> QED
    BY <2>0, <2>1, <2>2, <2>3, <2>4, <1>0, <1>4
<1> QED
  BY <1>0, <1>4 DEF Sorted

\* The lines that are older than t come first, and there are as many as there
\* are.
LEMMA SortedPrefix ==
  ASSUME NEW S, \A x \in S : x.ts \in Int,
         NEW s \in Seq(S), Sorted(s), NEW t \in Int
  PROVE  LET p == Cardinality({i \in DOMAIN s : s[i].ts < t})
         IN  /\ p \in 0..Len(s)
             /\ \A i \in 1..Len(s) : s[i].ts < t <=> i <= p
<1> DEFINE P == {i \in DOMAIN s : s[i].ts < t}
           p == Cardinality(P)
<1>0. Len(s) \in Nat /\ DOMAIN s = 1..Len(s)
  OBVIOUS
<1>1. P \in SUBSET (1..Len(s)) /\ IsFiniteSet(1..Len(s)) /\ Cardinality(1..Len(s)) = Len(s)
  <2>1. P \in SUBSET (1..Len(s))
    BY <1>0, Zenon
  <2>2. IsFiniteSet(1..Len(s)) /\ Cardinality(1..Len(s)) = Len(s)
    BY <1>0, UpTo, Zenon
  <2> QED
    BY <2>1, <2>2, Zenon
<1>2. IsFiniteSet(P) /\ p <= Len(s)
  <2> HIDE DEF P
  <2> QED
    BY <1>1, FS_Subset
<1>3. p \in Nat
  <2> HIDE DEF P
  <2> QED
    BY <1>2, FS_CardinalityType
<1>4. \A i \in 1..Len(s) : s[i].ts \in Int
  OBVIOUS
<1>5. ASSUME NEW i \in P
      PROVE  i <= p
  <2>1. 1..i \in SUBSET P
    BY <1>0, <1>4 DEF Sorted
  <2>2. i \in Nat /\ Cardinality(1..i) = i
    BY <1>0, FS_Interval
  <2> HIDE DEF P
  <2>3. Cardinality(1..i) <= p
    BY <1>2, <2>1, FS_Subset
  <2> QED
    BY <2>2, <2>3
<1>6. ASSUME NEW i \in 1..Len(s), i \notin P
      PROVE  ~(i <= p)
  <2>1. P \in SUBSET (1..(i - 1))
    BY <1>0, <1>4, <1>6 DEF Sorted
  <2>2. IsFiniteSet(1..(i - 1)) /\ Cardinality(1..(i - 1)) = i - 1
    <3>1. 1 \in Int /\ i - 1 \in Int /\ i - 1 >= 0
      BY <1>0
    <3>2. /\ IsFiniteSet(1..(i - 1))
          /\ Cardinality(1..(i - 1)) = IF 1 > i - 1 THEN 0 ELSE (i - 1) - 1 + 1
      BY <3>1, FS_Interval
    <3> QED
      BY <3>1, <3>2
  <2> HIDE DEF P
  <2>3. p <= i - 1
    <3>1. Cardinality(P) <= Cardinality(1..(i - 1))
      BY <2>1, <2>2, FS_Subset, Zenon
    <3> QED
      BY <2>2, <3>1
  <2> QED
    BY <1>0, <1>3, <2>3
<1> QED
  BY <1>0, <1>2, <1>3, <1>5, <1>6

\* Leaving out the first n elements and then some more leaves out as many.
LEMMA SubSeqAgain ==
  ASSUME NEW S, NEW s \in Seq(S), NEW n \in 0..Len(s), NEW m \in n..Len(s)
  PROVE  SubSeq(SubSeq(s, n + 1, Len(s)), m - n + 1, Len(s) - n) = SubSeq(s, m + 1, Len(s))
<1> DEFINE rest == SubSeq(s, n + 1, Len(s))
           a == SubSeq(rest, m - n + 1, Len(s) - n)
           b == SubSeq(s, m + 1, Len(s))
<1>0. /\ Len(s) \in Nat /\ n \in Nat /\ m \in Nat /\ n <= m /\ m <= Len(s)
      /\ \A i \in 1..Len(s) : s[i] \in S
  OBVIOUS
<1>1. /\ rest \in Seq(S) /\ Len(rest) = Len(s) - n
      /\ \A i \in 1..Len(s) - n : rest[i] = s[n + i]
  <2>1. \A i \in n+1..Len(s) : s[i] \in S
    BY <1>0
  <2>2. /\ rest \in Seq(S)
        /\ Len(rest) = IF n + 1 <= Len(s) THEN Len(s) - (n + 1) + 1 ELSE 0
        /\ \A i \in 1..(Len(s) - (n + 1) + 1) : rest[i] = s[n + 1 + i - 1]
    BY <1>0, <2>1, SubSeqProperties
  <2> QED
    BY <1>0, <2>2
<1>2. /\ b \in Seq(S) /\ Len(b) = Len(s) - m
      /\ \A i \in 1..Len(s) - m : b[i] = s[m + i]
  <2>1. \A i \in m+1..Len(s) : s[i] \in S
    BY <1>0
  <2>2. /\ b \in Seq(S)
        /\ Len(b) = IF m + 1 <= Len(s) THEN Len(s) - (m + 1) + 1 ELSE 0
        /\ \A i \in 1..(Len(s) - (m + 1) + 1) : b[i] = s[m + 1 + i - 1]
    BY <1>0, <2>1, SubSeqProperties
  <2> QED
    BY <1>0, <2>2
<1> HIDE DEF rest
<1>3. /\ a \in Seq(S) /\ Len(a) = Len(s) - m
      /\ \A i \in 1..Len(s) - m : a[i] = rest[m - n + i]
  <2> DEFINE from == m - n + 1
             upto == Len(s) - n
  <2>1. from \in Nat /\ upto \in Nat /\ from >= 1 /\ upto - from + 1 = Len(s) - m
        /\ upto = Len(rest) /\ (from <= upto <=> m < Len(s))
    BY <1>0, <1>1
  <2>2. \A i \in from..upto : rest[i] \in S
    BY <1>1, <2>1
  <2> HIDE DEF from, upto
  <2>3. /\ SubSeq(rest, from, upto) \in Seq(S)
        /\ Len(SubSeq(rest, from, upto)) = IF from <= upto THEN upto - from + 1 ELSE 0
        /\ \A i \in 1..(upto - from + 1) : SubSeq(rest, from, upto)[i] = rest[from + i - 1]
    BY <2>1, <2>2, SubSeqProperties
  <2>4. a = SubSeq(rest, from, upto)
    BY DEF from, upto
  <2>5. Len(a) = Len(s) - m
    BY <1>0, <2>1, <2>3, <2>4
  <2>6. \A i \in 1..Len(s) - m : a[i] = rest[from + i - 1]
    BY <2>1, <2>3, <2>4
  <2>7. \A i \in 1..Len(s) - m : from + i - 1 = m - n + i
    BY <1>0 DEF from
  <2> QED
    BY <2>3, <2>4, <2>5, <2>6, <2>7
<1> HIDE DEF a, b
<1>4. \A i \in 1..Len(s) - m : m - n + i \in 1..Len(s) - n /\ n + (m - n + i) = m + i
  BY <1>0
<1>5. \A i \in 1..Len(s) - m : a[i] = b[i]
  BY <1>1, <1>2, <1>3, <1>4
<1>6. a = b
  <2>1. DOMAIN a = 1..Len(s) - m /\ DOMAIN b = 1..Len(s) - m
    BY <1>2, <1>3
  <2>2. a = [i \in 1..Len(s) - m |-> a[i]] /\ b = [i \in 1..Len(s) - m |-> b[i]]
    BY <1>2, <1>3, <2>1
  <2> QED
    BY <1>5, <2>2
<1> QED
  BY <1>6 DEF a, b, rest

\* What stands behind the m-th element is among the first n or, when those are
\* taken away, still behind the m-th.
LEMMA CountBehind ==
  ASSUME NEW S, NEW s \in Seq(S), NEW n \in 0..Len(s), NEW m \in 0..Len(s), NEW l
  PROVE  LET rest == SubSeq(s, n + 1, Len(s))
             left == IF n <= m THEN m - n ELSE 0
         IN  /\ Count(SubSeq(s, m + 1, Len(s)), l) \in Nat
             /\ Count(SubSeq(rest, left + 1, Len(rest)), l) \in Nat
             /\ Count(SubSeq(s, m + 1, Len(s)), l) <=
                  Count(SubSeq(s, 1, n), l) + Count(SubSeq(rest, left + 1, Len(rest)), l)
             /\ n <= m => SubSeq(rest, left + 1, Len(rest)) = SubSeq(s, m + 1, Len(s))
<1> DEFINE rest == SubSeq(s, n + 1, Len(s))
           left == IF n <= m THEN m - n ELSE 0
           behind == SubSeq(s, m + 1, Len(s))
           still == SubSeq(rest, left + 1, Len(rest))
           front == SubSeq(s, 1, n)
           before == SubSeq(s, 1, m)
<1>0. Len(s) \in Nat /\ n \in Nat /\ m \in Nat /\ n <= Len(s) /\ m <= Len(s)
  OBVIOUS
<1>1. /\ front \in Seq(S) /\ before \in Seq(S) /\ rest \in Seq(S) /\ behind \in Seq(S)
      /\ Len(rest) = Len(s) - n
  <2>1. \A i \in 1..Len(s) : s[i] \in S
    OBVIOUS
  <2>2. /\ \A i \in 1..n : s[i] \in S
        /\ \A i \in 1..m : s[i] \in S
        /\ \A i \in n+1..Len(s) : s[i] \in S
        /\ \A i \in m+1..Len(s) : s[i] \in S
    BY <1>0, <2>1
  <2>3. front \in Seq(S) /\ before \in Seq(S)
    BY <1>0, <2>2, SubSeqProperties
  <2>4. /\ rest \in Seq(S)
        /\ Len(rest) = IF n + 1 <= Len(s) THEN Len(s) - (n + 1) + 1 ELSE 0
    BY <1>0, <2>2, SubSeqProperties
  <2>5. behind \in Seq(S)
    BY <1>0, <2>2, SubSeqProperties
  <2>6. Len(rest) = Len(s) - n
    BY <1>0, <2>4
  <2> QED
    BY <2>3, <2>4, <2>5, <2>6
<1>2. /\ Count(s, l) = Count(front, l) + Count(rest, l)
      /\ Count(s, l) = Count(before, l) + Count(behind, l)
  BY CountSplit
<1>3. n <= m => still = behind
  <2> SUFFICES ASSUME n <= m PROVE still = behind
    OBVIOUS
  <2>1. m \in n..Len(s)
    BY <1>0
  <2>2. SubSeq(rest, m - n + 1, Len(s) - n) = behind
    BY <2>1, SubSeqAgain
  <2> QED
    BY <1>1, <2>2
<1>4. n > m => still = rest
  <2> SUFFICES ASSUME n > m PROVE still = rest
    OBVIOUS
  <2>1. left = 0
    BY <1>0
  <2> HIDE DEF rest, left
  <2> QED
    BY <1>1, <2>1
<1> HIDE DEF rest, left, behind, still, front, before
<1>5. /\ Count(front, l) \in Nat /\ Count(rest, l) \in Nat
      /\ Count(before, l) \in Nat /\ Count(behind, l) \in Nat
  BY <1>1, CountType
<1>6. Count(still, l) \in Nat /\ Count(behind, l) <= Count(front, l) + Count(still, l)
  <2>1. CASE n <= m
    BY <1>3, <1>5, <2>1
  <2>2. CASE n > m
    BY <1>2, <1>4, <1>5, <2>2
  <2> QED
    BY <1>0, <2>1, <2>2
<1> QED
  BY <1>3, <1>5, <1>6 DEF rest, left, behind, still, front, before

\* An element that is appended is counted once behind any other.
LEMMA CountBehindAppend ==
  ASSUME NEW S, NEW s \in Seq(S), NEW x \in S, NEW m \in 0..Len(s), NEW l
  PROVE  /\ Len(Append(s, x)) = Len(s) + 1
         /\ Count(SubSeq(Append(s, x), m + 1, Len(s) + 1), l) =
              Count(SubSeq(s, m + 1, Len(s)), l) + (IF x = l THEN 1 ELSE 0)
<1> DEFINE t == Append(s, x)
           behind == SubSeq(s, m + 1, Len(s))
           after  == SubSeq(t, m + 1, Len(t))
           before == SubSeq(s, 1, m)
<1>0. /\ Len(s) \in Nat /\ m \in Nat /\ m <= Len(s)
      /\ t \in Seq(S) /\ Len(t) = Len(s) + 1
      /\ \A i \in 1..Len(s) : t[i] = s[i] /\ s[i] \in S
  OBVIOUS
<1>1. Count(s, l) = Count(before, l) + Count(behind, l)
  BY CountSplit
<1>2. Count(t, l) = Count(s, l) + (IF x = l THEN 1 ELSE 0)
  BY CountAppend
<1> HIDE DEF t
<1>3. m \in 0..Len(t)
  BY <1>0
<1>4. Count(t, l) = Count(SubSeq(t, 1, m), l) + Count(after, l)
  BY <1>0, <1>3, CountSplit
<1>5. /\ SubSeq(t, 1, m) = before /\ before \in Seq(S)
  <2>1. (\A i \in 1..m : s[i] \in S) /\ (\A i \in 1..m : t[i] \in S) /\ \A i \in 1..m : t[i] = s[i]
    BY <1>0
  <2>2. /\ before \in Seq(S) /\ Len(before) = (IF 1 <= m THEN m - 1 + 1 ELSE 0)
        /\ \A i \in 1..(m - 1 + 1) : before[i] = s[1 + i - 1]
    BY <1>0, <2>1, SubSeqProperties
  <2>3. /\ SubSeq(t, 1, m) \in Seq(S) /\ Len(SubSeq(t, 1, m)) = (IF 1 <= m THEN m - 1 + 1 ELSE 0)
        /\ \A i \in 1..(m - 1 + 1) : SubSeq(t, 1, m)[i] = t[1 + i - 1]
    BY <1>0, <2>1, SubSeqProperties
  <2> DEFINE u == SubSeq(t, 1, m)
  <2>4. u \in Seq(S) /\ Len(u) = m /\ Len(before) = m
        /\ (\A i \in 1..m : before[i] = s[i]) /\ \A i \in 1..m : u[i] = t[i]
    BY <1>0, <2>2, <2>3
  <2> HIDE DEF u, before
  <2>5. u = [i \in 1..m |-> u[i]] /\ before = [i \in 1..m |-> before[i]]
    BY <2>2, <2>4
  <2>6. u = before
    BY <2>1, <2>4, <2>5
  <2> QED
    BY <2>2, <2>6 DEF u
<1>6. behind \in Seq(S) /\ after \in Seq(S)
  <2>1. (\A i \in m+1..Len(s) : s[i] \in S) /\ (\A i \in m+1..Len(t) : t[i] \in S)
    BY <1>0
  <2> QED
    BY <1>0, <2>1, SubSeqProperties
<1> HIDE DEF behind, after, before
<1>7. Count(before, l) \in Nat /\ Count(behind, l) \in Nat /\ Count(after, l) \in Nat
      /\ Count(s, l) \in Nat
  BY <1>5, <1>6, CountType
<1>8. Count(after, l) = Count(behind, l) + (IF x = l THEN 1 ELSE 0)
  <2>1. Count(t, l) = Count(before, l) + Count(after, l)
    BY <1>4, <1>5, Zenon
  <2> QED
    BY <1>1, <1>2, <1>7, <2>1
<1> QED
  BY <1>0, <1>8 DEF t, behind, after

=============================================================================
