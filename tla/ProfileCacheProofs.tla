------------------------- MODULE ProfileCacheProofs -------------------------
(***************************************************************************)
(* Theorems about ProfileCache, for every set of sources, chunk sizes,     *)
(* goroutines and limits and for every bound.                              *)
(***************************************************************************)
EXTENDS ProfileCache, FiniteSetTheorems, WellFoundedInduction, TLAPS

-----------------------------------------------------------------------------
(* Sums of sequences *)

\* Every set of naturals that is not empty has a least element.
LEMMA LeastNat ==
    ASSUME NEW T \in SUBSET Nat, T # {}
    PROVE  \E n \in T : \A m \in T : n <= m
<1> DEFINE R == OpToRel(<, Nat)
<1>1. IsWellFoundedOn(R, Nat)
  BY NatLessThanWellFounded
<1>2. \A m, n \in Nat : <<m, n>> \in R <=> m < n
  BY DEF OpToRel
<1> HIDE DEF R
<1>3. PICK n \in T : \A m \in T : ~(<<m, n>> \in R)
  BY <1>1, WFMin
<1>4. T \subseteq Nat /\ \A a, b \in Nat : ~(a < b) => b <= a
  OBVIOUS
<1> QED
  BY <1>2, <1>3, <1>4

\* So a set of naturals that holds 0, and i + 1 with every i below n, holds all
\* naturals up to n.
LEMMA UpTo ==
    ASSUME NEW n \in Nat, NEW P \in SUBSET Nat, 0 \in P,
           \A i \in 0 .. n - 1 : i \in P => i + 1 \in P
    PROVE  0 .. n \subseteq P
<1> DEFINE T == (0 .. n) \ P
<1> SUFFICES ASSUME T # {} PROVE FALSE
  OBVIOUS
<1>1. T \in SUBSET Nat
  OBVIOUS
<1>2. PICK m \in T : \A k \in T : m <= k
  BY <1>1, LeastNat
<1>3. m \in 1 .. n /\ m \notin P
  BY <1>2
<1>4. m - 1 \in 0 .. n - 1 /\ m - 1 \in 0 .. n /\ ~(m <= m - 1) /\ (m - 1) + 1 = m
  BY <1>3
<1>5. m - 1 \notin T
  BY <1>2, <1>4
<1> QED
  BY <1>3, <1>4, <1>5

\* The recursion by which FoldLeft adds up the chunks with indices in T.
Adds(h, s, n) ==
    h = [T \in SUBSET (1 .. n) |-> IF T = {} THEN 0 ELSE h[T \ {Max(T)}] + s[Max(T)]]

\* The greatest element of a set that holds n and nothing beyond.
LEMMA MaxOf ==
    ASSUME NEW n \in Nat, NEW T \in SUBSET (1 .. n), n \in T
    PROVE  Max(T) = n
<1>1. \A y \in T : n >= y
  OBVIOUS
<1>2. \A x \in T : (\A y \in T : x >= y) => x = n
  BY <1>1
<1>3. Max(T) \in T /\ \A y \in T : Max(T) >= y
  BY <1>1 DEF Max
<1> QED
  BY <1>2, <1>3

\* The recursion defines a function.
LEMMA AddsExists ==
    ASSUME NEW s, NEW N \in Nat
    PROVE  \E h : Adds(h, s, N)
<1> DEFINE P == {n \in Nat : \E h : Adds(h, s, n)}
<1>1. 0 \in P
  <2> DEFINE h == [T \in SUBSET (1 .. 0) |-> 0]
  <2>1. \A T \in SUBSET (1 .. 0) : T = {}
    OBVIOUS
  <2>2. Adds(h, s, 0)
    BY <2>1 DEF Adds
  <2> QED
    BY <2>2
<1>2. ASSUME NEW i \in 0 .. N - 1, i \in P PROVE i + 1 \in P
  <2>1. PICK h : Adds(h, s, i)
    BY <1>2
  <2> DEFINE D == SUBSET (1 .. i + 1)
             g == [T \in D |-> IF i + 1 \in T THEN h[T \ {i + 1}] + s[i + 1] ELSE h[T]]
  <2>2. ASSUME NEW T \in D
        PROVE  g[T] = IF T = {} THEN 0 ELSE g[T \ {Max(T)}] + s[Max(T)]
    <3>1. CASE i + 1 \in T
      <4>1. Max(T) = i + 1
        BY <3>1, MaxOf
      <4>2. T \ {i + 1} \in D /\ i + 1 \notin T \ {i + 1}
        OBVIOUS
      <4> QED
        BY <3>1, <4>1, <4>2
    <3>2. CASE i + 1 \notin T
      <4>1. T \in SUBSET (1 .. i)
        BY <3>2
      <4>2. h[T] = IF T = {} THEN 0 ELSE h[T \ {Max(T)}] + s[Max(T)]
        BY <2>1, <4>1, Zenon DEF Adds
      <4>3. T \ {Max(T)} \in D /\ i + 1 \notin T \ {Max(T)}
        BY <3>2
      <4> QED
        BY <3>2, <4>2, <4>3
    <3> QED
      BY <3>1, <3>2
  <2>3. Adds(g, s, i + 1)
    BY <2>2 DEF Adds
  <2> QED
    BY <2>3
<1>3. 0 .. N \subseteq P
  BY <1>1, <1>2, UpTo
<1> QED
  BY <1>3

\* The partial sums of s.
PartialSums(p, s) ==
    /\ p \in [0 .. Len(s) -> Nat]
    /\ p[0] = 0
    /\ \A k \in 1 .. Len(s) : p[k] = p[k - 1] + s[k]

\* Sum is the last of them.
LEMMA SumIsLast ==
    ASSUME NEW s \in Seq(Nat)
    PROVE  \E p : PartialSums(p, s) /\ Sum(s) = p[Len(s)]
<1> DEFINE N == Len(s)
           h == CHOOSE h : h = [T \in SUBSET DOMAIN s |->
                    IF T = {} THEN 0 ELSE h[T \ {Max(T)}] + s[Max(T)]]
           p == [k \in 0 .. N |-> h[1 .. k]]
<1>0. N \in Nat /\ DOMAIN s = 1 .. N /\ \A k \in 1 .. N : s[k] \in Nat
  OBVIOUS
<1>1. Sum(s) = h[DOMAIN s]
  BY Zenon DEF Sum, FoldLeft, MapThenFoldSet
<1>2. \E g : g = [T \in SUBSET DOMAIN s |-> IF T = {} THEN 0 ELSE g[T \ {Max(T)}] + s[Max(T)]]
  <2>1. PICK g : Adds(g, s, N)
    BY <1>0, AddsExists
  <2> HIDE DEF N, h
  <2>2. g = [T \in SUBSET DOMAIN s |-> IF T = {} THEN 0 ELSE g[T \ {Max(T)}] + s[Max(T)]]
    BY <1>0, <2>1, Zenon DEF Adds
  <2> QED
    BY <2>2, Zenon
<1>3. h = [T \in SUBSET DOMAIN s |-> IF T = {} THEN 0 ELSE h[T \ {Max(T)}] + s[Max(T)]]
  BY <1>2, Zenon
<1> HIDE DEF h, N
<1>4. p[0] = 0
  <2>1. 1 .. 0 = {} /\ {} \in SUBSET DOMAIN s /\ 0 \in 0 .. N
    BY <1>0
  <2>2. h[{}] = 0
    BY <1>3, <2>1
  <2> QED
    BY <2>1, <2>2
<1>5. ASSUME NEW k \in 1 .. N PROVE p[k] = p[k - 1] + s[k]
  <2>1. Max(1 .. k) = k /\ (1 .. k) \ {k} = 1 .. k - 1
    BY <1>0, MaxOf
  <2>2. 1 .. k \in SUBSET DOMAIN s /\ 1 .. k # {} /\ k \in 0 .. N /\ k - 1 \in 0 .. N
    <3>1. 1 .. k \subseteq 1 .. N /\ k \in 1 .. k
      BY <1>0
    <3>2. k \in 0 .. N /\ k - 1 \in 0 .. N
      BY <1>0
    <3> QED
      BY <1>0, <3>1, <3>2, Zenon
  <2>3. h[1 .. k] = h[(1 .. k) \ {Max(1 .. k)}] + s[Max(1 .. k)]
    BY <1>3, <2>2
  <2>4. p[k] = h[1 .. k] /\ p[k - 1] = h[1 .. k - 1]
    BY <2>2
  <2> QED
    BY <2>1, <2>3, <2>4
<1>6. \A k \in 0 .. N : p[k] \in Nat
  <2> DEFINE P == {k \in Nat : k <= N => p[k] \in Nat}
  <2>1. 0 \in P
    BY <1>4
  <2>2. ASSUME NEW i \in 0 .. N - 1, i \in P PROVE i + 1 \in P
    <3>1. i + 1 \in 1 .. N /\ (i + 1) - 1 = i /\ i <= N /\ i + 1 \in Nat
      BY <1>0
    <3>2. p[i] \in Nat /\ s[i + 1] \in Nat /\ p[i + 1] = p[i] + s[i + 1]
      BY <1>0, <1>5, <2>2, <3>1
    <3> HIDE DEF p
    <3> QED
      BY <3>1, <3>2
  <2>3. 0 .. N \subseteq P
    <3> HIDE DEF P
    <3>1. P \in SUBSET Nat
      BY DEF P
    <3> QED
      BY <1>0, <2>1, <2>2, <3>1, UpTo
  <2> QED
    BY <1>0, <2>3
<1>7. PartialSums(p, s)
  BY <1>4, <1>5, <1>6 DEF PartialSums, N
<1>8. Sum(s) = p[N]
  BY <1>0, <1>1
<1> QED
  BY <1>7, <1>8 DEF N

\* Sum of a part of s is the difference of two partial sums.
LEMMA SumOfPart ==
    ASSUME NEW s \in Seq(Nat), NEW p, PartialSums(p, s),
           NEW d \in 0 .. Len(s), NEW e \in d .. Len(s)
    PROVE  /\ SubSeq(s, d + 1, e) \in Seq(Nat)
           /\ Sum(SubSeq(s, d + 1, e)) = p[e] - p[d]
<1> DEFINE N == Len(s)
           t == SubSeq(s, d + 1, e)
           M == e - d
<1>0. N \in Nat /\ d \in Nat /\ e \in Nat /\ d <= e /\ e <= N /\ M \in Nat
  OBVIOUS
<1>1. t \in Seq(Nat) /\ Len(t) = M /\ \A k \in 1 .. M : t[k] = s[d + k]
  <2>1. \A i \in d + 1 .. e : s[i] \in Nat
    BY <1>0
  <2>2. Len(t) = M
    BY <1>0
  <2>3. \A k \in 1 .. M : t[k] = s[d + k]
    BY <1>0
  <2>4. t \in Seq(Nat)
    BY <1>0, <2>1
  <2> QED
    BY <2>2, <2>3, <2>4
<1>2. \A k \in 1 .. N : s[k] \in Nat
  OBVIOUS
<1> HIDE DEF t, M, N
<1>3. PICK q : PartialSums(q, t) /\ Sum(t) = q[M]
  BY <1>1, SumIsLast
<1>4. /\ q \in [0 .. M -> Nat] /\ q[0] = 0
      /\ \A k \in 1 .. M : q[k] = q[k - 1] + s[d + k]
      /\ p \in [0 .. N -> Nat]
      /\ \A k \in 1 .. N : p[k] = p[k - 1] + s[k]
  BY <1>1, <1>3 DEF PartialSums, N
<1> DEFINE P == {k \in Nat : k <= M => q[k] = p[d + k] - p[d]}
<1>5. 0 \in P
  <2>1. p[d] \in Nat /\ d + 0 = d
    BY <1>0, <1>4
  <2> QED
    BY <1>4, <2>1
<1>6. ASSUME NEW i \in 0 .. M - 1, i \in P PROVE i + 1 \in P
  <2>1. /\ i + 1 \in 1 .. M /\ (i + 1) - 1 = i /\ i <= M /\ i + 1 \in Nat
        /\ d + (i + 1) \in 1 .. N /\ (d + (i + 1)) - 1 = d + i /\ d + i \in 0 .. N
        /\ d \in 0 .. N
    BY <1>0 DEF M
  <2>2. q[i + 1] = q[i] + s[d + (i + 1)]
    BY <1>4, <2>1
  <2>3. p[d + (i + 1)] = p[d + i] + s[d + (i + 1)]
    BY <1>4, <2>1
  <2>4. q[i] = p[d + i] - p[d]
    BY <1>6, <2>1
  <2>5. p[d + i] \in Nat /\ p[d] \in Nat /\ s[d + (i + 1)] \in Nat
    BY <1>4, <1>2, <2>1
  <2>6. q[i + 1] = p[d + (i + 1)] - p[d]
    BY <2>2, <2>3, <2>4, <2>5
  <2> QED
    BY <2>1, <2>6
<1>7. q[M] = p[d + M] - p[d]
  <2>1. P \in SUBSET Nat
    OBVIOUS
  <2> HIDE DEF P
  <2>2. 0 .. M \subseteq P
    BY <1>0, <1>5, <1>6, <2>1, UpTo
  <2>3. M \in P /\ M <= M
    BY <1>0, <2>2
  <2> QED
    BY <2>3 DEF P
<1>8. d + M = e
  BY <1>0 DEF M
<1>9. Sum(t) = p[e] - p[d]
  BY <1>3, <1>7, <1>8
<1> QED
  BY <1>1, <1>9 DEF t

\* What Sum returns, as the buffer uses it: for no chunk, for one more chunk,
\* and for the first d chunks and the rest.
LEMMA SumFacts ==
    /\ Sum(<<>>) = 0
    /\ \A s \in Seq(Nat) : Sum(s) \in Nat
    /\ \A s \in Seq(Nat), x \in Nat : Sum(Append(s, x)) = Sum(s) + x
    /\ \A s \in Seq(Nat) : \A d \in 0 .. Len(s) :
          /\ SubSeq(s, 1, d) \in Seq(Nat)
          /\ SubSeq(s, d + 1, Len(s)) \in Seq(Nat)
          /\ Sum(s) = Sum(SubSeq(s, 1, d)) + Sum(SubSeq(s, d + 1, Len(s)))
<1>1. Sum(<<>>) = 0
  <2>1. <<>> \in Seq(Nat) /\ Len(<<>>) = 0
    OBVIOUS
  <2>2. PICK p : PartialSums(p, <<>>) /\ Sum(<<>>) = p[0]
    BY <2>1, SumIsLast
  <2> QED
    BY <2>2 DEF PartialSums
<1>2. ASSUME NEW s \in Seq(Nat) PROVE Sum(s) \in Nat
  <2>1. PICK p : PartialSums(p, s) /\ Sum(s) = p[Len(s)]
    BY SumIsLast
  <2>2. Len(s) \in 0 .. Len(s)
    OBVIOUS
  <2> QED
    BY <2>1, <2>2 DEF PartialSums
<1>3. ASSUME NEW s \in Seq(Nat), NEW x \in Nat PROVE Sum(Append(s, x)) = Sum(s) + x
  <2> DEFINE t == Append(s, x)
             N == Len(s)
  <2>1. /\ t \in Seq(Nat) /\ Len(t) = N + 1 /\ N \in Nat /\ t[N + 1] = x
        /\ SubSeq(t, 0 + 1, N) = s
    <3>1. t \in Seq(Nat) /\ Len(t) = N + 1 /\ N \in Nat /\ t[N + 1] = x
      OBVIOUS
    <3>2. SubSeq(t, 0 + 1, N) = s
      OBVIOUS
    <3> QED
      BY <3>1, <3>2
  <2> HIDE DEF t, N
  <2>2. PICK p : PartialSums(p, t) /\ Sum(t) = p[Len(t)]
    BY <2>1, SumIsLast
  <2>3. 0 \in 0 .. Len(t) /\ N \in 0 .. Len(t) /\ N + 1 \in 1 .. Len(t) /\ (N + 1) - 1 = N
    BY <2>1
  <2>4. Sum(s) = p[N] - p[0]
    BY <2>1, <2>2, <2>3, SumOfPart
  <2>5. p[0] = 0 /\ p[N] \in Nat /\ p[N + 1] = p[N] + x
    BY <2>1, <2>2, <2>3 DEF PartialSums
  <2>6. Sum(t) = p[N + 1]
    BY <2>1, <2>2
  <2> HIDE DEF PartialSums
  <2>7. Sum(t) = Sum(s) + x
    BY <2>4, <2>5, <2>6
  <2> QED
    BY <2>7 DEF t
<1>4. ASSUME NEW s \in Seq(Nat), NEW d \in 0 .. Len(s)
      PROVE  /\ SubSeq(s, 1, d) \in Seq(Nat)
             /\ SubSeq(s, d + 1, Len(s)) \in Seq(Nat)
             /\ Sum(s) = Sum(SubSeq(s, 1, d)) + Sum(SubSeq(s, d + 1, Len(s)))
  <2> DEFINE N == Len(s)
  <2>1. PICK p : PartialSums(p, s) /\ Sum(s) = p[Len(s)]
    BY SumIsLast
  <2>2. N \in Nat /\ 0 \in 0 .. N /\ d \in 0 .. N /\ N \in d .. N /\ 0 + 1 = 1
    OBVIOUS
  <2>3. SubSeq(s, 0 + 1, d) \in Seq(Nat) /\ Sum(SubSeq(s, 0 + 1, d)) = p[d] - p[0]
    BY <2>1, <2>2, SumOfPart
  <2>4. SubSeq(s, d + 1, N) \in Seq(Nat) /\ Sum(SubSeq(s, d + 1, N)) = p[N] - p[d]
    BY <2>1, <2>2, SumOfPart
  <2>5. p[0] = 0 /\ p[d] \in Nat /\ p[N] \in Nat
    BY <2>1, <2>2 DEF PartialSums
  <2> DEFINE a == Sum(SubSeq(s, 1, d))
             b == Sum(SubSeq(s, d + 1, N))
  <2>6. a = p[d] - p[0] /\ b = p[N] - p[d]
    BY <2>2, <2>3, <2>4
  <2> HIDE DEF a, b
  <2>7. p[N] = a + b
    BY <2>5, <2>6
  <2> QED
    BY <2>1, <2>2, <2>3, <2>4, <2>7 DEF a, b
<1> QED
  BY <1>1, <1>2, <1>3, <1>4

-----------------------------------------------------------------------------
(* The bounded buffer *)

\* The slots whose bytes are counted and within their budget.
GoodSlots == {s \in Slots : s.totalBytes = Sum(s.chunks) /\ s.totalBytes <= s.maxBytes}

\* Sequences of chunk sizes are sequences of naturals.
LEMMA ChunksAreNat ==
    ASSUME NEW c \in Seq(Sizes)
    PROVE  c \in Seq(Nat)
<1>1. \A i \in 1 .. Len(c) : c[i] \in Sizes
  OBVIOUS
<1>2. \A i \in 1 .. Len(c) : c[i] \in Nat
  BY <1>1, LimitsAssumption
<1> QED
  BY <1>2

\* Trimming a buffer whose bytes are counted makes it fit, and counts what is left.
LEMMA TrimGood ==
    ASSUME NEW s \in Slots, s.totalBytes = Sum(s.chunks)
    PROVE  /\ Trim(s) \in GoodSlots
           /\ Trim(s).maxBytes = s.maxBytes
           /\ Trim(s).age = s.age
<1> DEFINE c == s.chunks
           N == Len(c)
           t == s.totalBytes
           fits(d) == t - Sum(SubSeq(c, 1, d)) <= s.maxBytes
           first(d) == (fits(d) \/ d = N) /\ \A e \in 0 .. d - 1 : ~fits(e)
           d == CHOOSE d \in 0 .. N : first(d)
           kept == SubSeq(c, d + 1, N)
           rest == t - Sum(SubSeq(c, 1, d))
<1>0. c \in Seq(Sizes) /\ c \in Seq(Nat) /\ N \in Nat /\ s.maxBytes \in Nat
  <2>1. c \in Seq(Sizes) /\ s.maxBytes \in Nat
    BY DEF Slots
  <2> QED
    BY <2>1, ChunksAreNat
<1>1. Trim(s) = [s EXCEPT !.chunks = kept, !.totalBytes = rest]
  BY DEF Trim
<1>2. \E x \in 0 .. N : first(x)
  <2> DEFINE T == {x \in 0 .. N : fits(x) \/ x = N}
  <2>1. T \in SUBSET Nat /\ N \in T
    BY <1>0
  <2>2. PICK x \in T : \A y \in T : x <= y
    BY <2>1, LeastNat
  <2>3. ASSUME NEW e \in 0 .. x - 1 PROVE ~fits(e)
    <3>1. e \in 0 .. N /\ ~(x <= e)
      BY <1>0, <2>2
    <3>2. e \notin T
      BY <2>2, <3>1
    <3> QED
      BY <3>1, <3>2
  <2> QED
    BY <2>2, <2>3
<1>3. d \in 0 .. N /\ first(d)
  BY <1>2
<1>4. fits(d) \/ d = N
  BY <1>3
<1> HIDE DEF d
<1>5. /\ SubSeq(c, 1, d) \in Seq(Nat) /\ kept \in Seq(Nat)
      /\ Sum(c) = Sum(SubSeq(c, 1, d)) + Sum(kept)
  BY <1>0, <1>3, SumFacts
<1>6. Sum(SubSeq(c, 1, d)) \in Nat /\ Sum(kept) \in Nat
  BY <1>5, SumFacts
<1>7. rest = Sum(kept) /\ rest \in Int
  <2> DEFINE a == Sum(SubSeq(c, 1, d))
             b == Sum(kept)
  <2>1. t = a + b /\ a \in Nat /\ b \in Nat
    BY <1>5, <1>6
  <2> HIDE DEF a, b
  <2>2. t - a = b /\ b \in Int
    BY <2>1
  <2> QED
    BY <2>2 DEF a, b
<1>8. rest <= s.maxBytes
  <2>1. CASE fits(d)
    BY <2>1
  <2>2. CASE d = N
    <3>1. kept = <<>>
      BY <1>0, <2>2
    <3>2. rest = 0
      BY <1>7, <3>1, SumFacts
    <3> QED
      BY <1>0, <3>2
  <2> QED
    BY <1>4, <2>1, <2>2
<1>9. kept \in Seq(Sizes)
  <2>1. \A i \in d + 1 .. N : c[i] \in Sizes
    BY <1>0, <1>3
  <2> QED
    BY <1>0, <1>3, <2>1
<1> HIDE DEF kept, rest
<1>10. /\ [s EXCEPT !.chunks = kept, !.totalBytes = rest] \in Slots
       /\ [s EXCEPT !.chunks = kept, !.totalBytes = rest].chunks = kept
       /\ [s EXCEPT !.chunks = kept, !.totalBytes = rest].totalBytes = rest
       /\ [s EXCEPT !.chunks = kept, !.totalBytes = rest].maxBytes = s.maxBytes
       /\ [s EXCEPT !.chunks = kept, !.totalBytes = rest].age = s.age
  BY <1>7, <1>9 DEF Slots
<1> QED
  BY <1>1, <1>7, <1>8, <1>10 DEF GoodSlots

\* A chunk that is added keeps a slot good, with its age and its budget.
LEMMA AddAtGood ==
    ASSUME NEW s \in GoodSlots, NEW size \in Sizes
    PROVE  /\ AddAt(s, size) \in GoodSlots
           /\ AddAt(s, size).maxBytes = s.maxBytes
           /\ AddAt(s, size).age = s.age
<1>1. CASE AddAt(s, size) = s
  BY <1>1
<1>2. CASE AddAt(s, size) # s
  <2> DEFINE c == Append(s.chunks, size)
             t == s.totalBytes + size
             x == [s EXCEPT !.chunks = c, !.totalBytes = t]
  <2>1. s \in Slots /\ s.chunks \in Seq(Sizes) /\ s.totalBytes = Sum(s.chunks) /\ size \in Nat
    BY LimitsAssumption DEF GoodSlots, Slots
  <2>2. c \in Seq(Sizes) /\ t = Sum(c) /\ t \in Int
    <3>1. s.chunks \in Seq(Nat)
      BY <2>1, ChunksAreNat
    <3>2. Sum(c) = Sum(s.chunks) + size /\ Sum(s.chunks) \in Nat
      BY <2>1, <3>1, SumFacts
    <3>3. c \in Seq(Sizes)
      BY <2>1
    <3> QED
      BY <2>1, <3>2, <3>3
  <2>3. AddAt(s, size) = Trim(x)
    BY <1>2 DEF AddAt
  <2> HIDE DEF c, t
  <2>4. x \in Slots /\ x.chunks = c /\ x.totalBytes = t /\ x.maxBytes = s.maxBytes /\ x.age = s.age
    BY <2>1, <2>2 DEF Slots
  <2> HIDE DEF x
  <2> QED
    BY <2>2, <2>3, <2>4, TrimGood
<1> QED
  BY <1>1, <1>2

\* A smaller or a larger budget keeps a slot good.
LEMMA ResizeGood ==
    ASSUME NEW s \in GoodSlots, NEW maxBytes \in Nat \ {0}
    PROVE  /\ Resize(s, maxBytes) \in GoodSlots
           /\ Resize(s, maxBytes).maxBytes = maxBytes
<1> DEFINE x == [s EXCEPT !.maxBytes = maxBytes]
<1>1. s \in Slots /\ s.totalBytes = Sum(s.chunks)
  BY DEF GoodSlots
<1>2. x \in Slots /\ x.chunks = s.chunks /\ x.totalBytes = s.totalBytes /\ x.maxBytes = maxBytes
  BY <1>1 DEF Slots
<1> HIDE DEF x
<1>3. Resize(s, maxBytes) = Trim(x)
  BY DEF Resize, x
<1> QED
  BY <1>1, <1>2, <1>3, TrimGood

\* A slot that is asked for, grows older or is cleared stays good.
LEMMA TouchGood ==
    ASSUME NEW s \in GoodSlots
    PROVE  /\ \A a \in 0 .. MaxAge : /\ [s EXCEPT !.age = a] \in GoodSlots
                                     /\ [s EXCEPT !.age = a].maxBytes = s.maxBytes
                                     /\ [s EXCEPT !.age = a].age = a
           /\ [Clear(s) EXCEPT !.age = 0] \in GoodSlots
           /\ [Clear(s) EXCEPT !.age = 0].maxBytes = s.maxBytes
<1>1. s \in Slots /\ s.totalBytes = Sum(s.chunks) /\ s.totalBytes <= s.maxBytes
  BY DEF GoodSlots
<1>2. ASSUME NEW a \in 0 .. MaxAge
      PROVE  /\ [s EXCEPT !.age = a] \in GoodSlots
             /\ [s EXCEPT !.age = a].maxBytes = s.maxBytes
             /\ [s EXCEPT !.age = a].age = a
  <2> DEFINE x == [s EXCEPT !.age = a]
  <2>1. /\ x \in Slots /\ x.age = a /\ x.chunks = s.chunks /\ x.totalBytes = s.totalBytes
        /\ x.maxBytes = s.maxBytes
    BY <1>1 DEF Slots
  <2> HIDE DEF x
  <2>2. x \in GoodSlots /\ x.maxBytes = s.maxBytes /\ x.age = a
    BY <1>1, <2>1 DEF GoodSlots
  <2> QED
    BY <2>2 DEF x
<1>3. /\ [Clear(s) EXCEPT !.age = 0] \in GoodSlots
      /\ [Clear(s) EXCEPT !.age = 0].maxBytes = s.maxBytes
  <2> DEFINE x == [Clear(s) EXCEPT !.age = 0]
  <2>0. 0 \in 0 .. MaxAge /\ 0 \in Int /\ <<>> \in Seq(Sizes)
    BY LimitsAssumption
  <2>1. /\ x \in Slots /\ x.chunks = <<>> /\ x.totalBytes = 0 /\ x.maxBytes = s.maxBytes
    BY <1>1, <2>0 DEF Slots, Clear
  <2>2. s.maxBytes \in Nat
    BY <1>1 DEF Slots
  <2> HIDE DEF x
  <2>3. x \in GoodSlots /\ x.maxBytes = s.maxBytes
    BY <2>1, <2>2, SumFacts DEF GoodSlots
  <2> QED
    BY <2>3 DEF x
<1> QED
  BY <1>2, <1>3

-----------------------------------------------------------------------------
(* Types, and what a slot holds *)

\* The TTLs that the settings page and the configurations ask for, or omit.
AskedTTLs == {0} \cup {l["ttlSeconds"] : l \in Asked \cup {HelmLimits, LocalLimits}}

\* The limits that configurations hold, and those that the store may have.
SmallLimits == {l \in PartialLimits : l["ttlSeconds"] \in AskedTTLs}
FullLimits == {l \in Limits : l["ttlSeconds"] \in AskedTTLs \cup {DefaultLimits["ttlSeconds"]}}
SmallConfigs == [enabled : BOOLEAN, ui : SmallLimits]
SmallSteps == [config : SmallConfigs \cup {nil}, step : {"clear", "reconfigure"}]

\* The limits and the configurations they come from.
ConfigInv ==
    /\ limits \in FullLimits
    /\ editor \in [Editors -> SmallLimits \cup {nil}]
    /\ remote \in SmallLimits
    /\ enabled \in BOOLEAN
    /\ merging \in [Mergers -> SmallConfigs \cup {nil}]
    /\ dirty \subseteq Mergers
    /\ effective \in SmallConfigs \cup {nil}
    /\ events \in Seq(SmallConfigs \cup {nil})
    /\ watcher \in SmallSteps \cup {nil}
    /\ watcher # nil /\ watcher.step = "reconfigure" => watcher.config # nil
    /\ gate \in BOOLEAN
    /\ sweep \in (1 .. MaxAge) \cup {nil}
    /\ used \in Nat
    /\ hist \in Mishaps

\* The store: every slot is good and has the budget in force, and a consumer
\* that holds a live slot holds the one of its key.
StoreInv ==
    /\ slots \in [Keys -> GoodSlots \cup {nil}]
    /\ \A k \in Keys : slots[k] # nil => slots[k].maxBytes = limits["slotMaxBytes"]
    /\ consumer \in [Consumers -> Chunks \cup {nil}]
    /\ \A c \in Consumers : consumer[c] # nil /\ consumer[c].live => slots[consumer[c].k] # nil

CacheInv == ConfigInv /\ StoreInv

\* What the settings page asks for.
LEMMA AskedType == Asked \subseteq PartialLimits
BY LimitsAssumption DEF Asked

\* No TTL reaches MaxAge.
LEMMA TTLBound ==
    ASSUME NEW t \in AskedTTLs \cup {DefaultLimits["ttlSeconds"]}
    PROVE  t \in Int /\ t + 1 < MaxAge
<1>1. \A l \in Asked \cup {DefaultLimits, HelmLimits, LocalLimits} :
         l["ttlSeconds"] \in Int /\ l["ttlSeconds"] + 1 < MaxAge
  <2>1. \A l \in Asked \cup {HelmLimits, LocalLimits} : l["ttlSeconds"] \in Int
    BY AskedType, LimitsAssumption DEF PartialLimits, Fields
  <2>2. DefaultLimits["ttlSeconds"] \in Int
    BY LimitsAssumption DEF Limits, Fields
  <2> QED
    BY <2>1, <2>2, LimitsAssumption
<1>2. 0 + 1 < MaxAge
  <2>1. DefaultLimits["ttlSeconds"] \in Nat \ {0}
    BY LimitsAssumption DEF Limits, Fields
  <2> QED
    BY <1>1, <2>1, LimitsAssumption
<1> QED
  BY <1>1, <1>2 DEF AskedTTLs

\* New limits keep those of the store in range: nothing is missing there.
LEMMA OverlayType ==
    ASSUME NEW old \in FullLimits, NEW new \in SmallLimits
    PROVE  Overlay(old, new) \in FullLimits
<1> DEFINE o == Overlay(old, new)
<1>1. new \in [Fields -> Int] /\ new["ttlSeconds"] \in AskedTTLs /\ "ttlSeconds" \in Fields
  BY DEF SmallLimits, PartialLimits, Fields
<1>2. /\ o = [f \in Fields |-> o[f]]
      /\ \A f \in Fields : o[f] = IF new[f] > 0 THEN new[f] ELSE old[f]
  BY DEF Overlay
<1> HIDE DEF o
<1> DEFINE T == AskedTTLs \cup {DefaultLimits["ttlSeconds"]}
<1>3. old \in [Fields -> Nat \ {0}] /\ old["ttlSeconds"] \in T
  BY DEF FullLimits, Limits
<1>4. new["ttlSeconds"] \in T
  BY <1>1
<1> HIDE DEF T
<1>5. \A f \in Fields : o[f] \in Nat \ {0}
  BY <1>1, <1>2, <1>3
<1>6. o \in [Fields -> Nat \ {0}] /\ o["ttlSeconds"] \in T
  BY <1>1, <1>2, <1>3, <1>4, <1>5
<1> QED
  BY <1>6 DEF FullLimits, Limits, T, o

\* A field by field choice between configurations is in range again.
LEMMA ChoiceType ==
    ASSUME NEW a \in SmallLimits, NEW b \in SmallLimits, NEW o,
           o = [f \in Fields |-> o[f]], \A f \in Fields : o[f] \in {a[f], b[f]}
    PROVE  o \in SmallLimits
<1>1. /\ a \in [Fields -> Int] /\ a["ttlSeconds"] \in AskedTTLs
      /\ b \in [Fields -> Int] /\ b["ttlSeconds"] \in AskedTTLs
      /\ "ttlSeconds" \in Fields
  BY DEF SmallLimits, PartialLimits, Fields
<1>2. o \in [Fields -> Int] /\ o["ttlSeconds"] \in AskedTTLs
  BY <1>1
<1> QED
  BY <1>2 DEF SmallLimits, PartialLimits

\* Merging configurations keeps their limits in range.
LEMMA MergeUiType ==
    ASSUME NEW base \in SmallLimits, NEW overlay \in SmallLimits
    PROVE  MergeUi(base, overlay) \in SmallLimits
<1> DEFINE o == MergeUi(base, overlay)
<1>1. /\ o = [f \in Fields |-> o[f]]
      /\ \A f \in Fields : o[f] \in {base[f], overlay[f]}
  BY DEF MergeUi
<1> HIDE DEF o
<1>2. o \in SmallLimits
  BY <1>1, ChoiceType
<1> QED
  BY <1>2 DEF o

\* The limits the model starts from.
LEMMA GivenLimits ==
    /\ DefaultLimits \in FullLimits
    /\ NoLimits \in SmallLimits /\ HelmLimits \in SmallLimits /\ LocalLimits \in SmallLimits
    /\ Asked \subseteq SmallLimits
<1>1. DefaultLimits \in FullLimits
  BY LimitsAssumption DEF FullLimits
<1>2. NoLimits \in PartialLimits /\ NoLimits["ttlSeconds"] = 0
  BY DEF NoLimits, PartialLimits, Fields
<1>3. NoLimits \in SmallLimits
  BY <1>2 DEF SmallLimits, AskedTTLs
<1>4. HelmLimits \in SmallLimits /\ LocalLimits \in SmallLimits /\ Asked \subseteq SmallLimits
  BY AskedType, LimitsAssumption DEF SmallLimits, AskedTTLs
<1> QED
  BY <1>1, <1>3, <1>4

\* What a controller merges is in range.
LEMMA MergedUiType ==
    ASSUME NEW rem \in SmallLimits, NEW local \in SmallLimits
    PROVE  MergedUi(rem, local) \in SmallLimits
<1>1. MergeUi(HelmLimits, rem) \in SmallLimits
  BY GivenLimits, MergeUiType
<1> QED
  BY <1>1, MergeUiType DEF MergedUi

\* What an edit writes is in range.
LEMMA WrittenType ==
    ASSUME CacheInv, NEW edit \in Edits
    PROVE  edit.ui \in SmallLimits /\ Written(edit) \in SmallLimits
<1>1. edit.ui \in SmallLimits
  BY GivenLimits DEF Asked
<1> DEFINE o == Written(edit)
<1>2. /\ o = [f \in Fields |-> o[f]]
      /\ \A f \in Fields : o[f] \in {remote[f], edit.ui[f]}
  BY DEF Written
<1>3. remote \in SmallLimits
  BY DEF CacheInv, ConfigInv
<1> HIDE DEF o
<1>4. o \in SmallLimits
  BY <1>1, <1>2, <1>3, ChoiceType
<1> QED
  BY <1>1, <1>4 DEF o

\* Mishaps are noted in range.
LEMMA MishapTypes ==
    ASSUME hist \in Mishaps, NEW C \in SUBSET Fields, NEW B \in SUBSET Mergers, NEW a \in BOOLEAN
    PROVE  /\ [hist EXCEPT !.contested = C] \in Mishaps
           /\ [hist EXCEPT !.behind = B] \in Mishaps
           /\ [hist EXCEPT !.astray = a] \in Mishaps
           /\ [hist EXCEPT !.behind = B, !.astray = a] \in Mishaps
           /\ hist.contested \subseteq Fields /\ hist.behind \subseteq Mergers
<1> DEFINE h == hist
<1>1. h \in Mishaps
  OBVIOUS
<1> HIDE DEF h
<1>2. /\ [h EXCEPT !.contested = C] \in Mishaps
      /\ [h EXCEPT !.behind = B] \in Mishaps
      /\ [h EXCEPT !.astray = a] \in Mishaps
      /\ [h EXCEPT !.behind = B, !.astray = a] \in Mishaps
      /\ h.contested \subseteq Fields /\ h.behind \subseteq Mergers
  BY <1>1 DEF Mishaps
<1> QED
  BY <1>2 DEF h

\* The sets in range are parts of the types, so that nil is in none.
LEMMA SmallTypes ==
    /\ SmallLimits \subseteq PartialLimits /\ FullLimits \subseteq Limits
    /\ SmallConfigs \subseteq Configs
    /\ SmallSteps \subseteq WatcherSteps
    /\ GoodSlots \subseteq Slots
    /\ nil \notin SmallLimits /\ nil \notin SmallConfigs /\ nil \notin SmallSteps
    /\ nil \notin GoodSlots
<1>1. /\ SmallLimits \subseteq PartialLimits /\ FullLimits \subseteq Limits
      /\ GoodSlots \subseteq Slots
  BY DEF SmallLimits, FullLimits, GoodSlots
<1>2. SmallConfigs \subseteq Configs
  BY <1>1 DEF SmallConfigs, Configs
<1>3. SmallSteps \subseteq WatcherSteps
  BY <1>2 DEF SmallSteps, WatcherSteps
<1> QED
  BY <1>1, <1>2, <1>3, NilAssumption

\* The invariant includes the types and the count of the bytes.
LEMMA CacheInvImplies == CacheInv => TypeOK /\ BytesAreCounted
<1> SUFFICES ASSUME CacheInv PROVE TypeOK /\ BytesAreCounted
  OBVIOUS
<1>1. events \in Seq(Configs \cup {nil})
  <2>1. SmallConfigs \cup {nil} \subseteq Configs \cup {nil}
    BY SmallTypes
  <2> DEFINE A == SmallConfigs \cup {nil}
             B == Configs \cup {nil}
  <2>2. events \in Seq(A) /\ A \subseteq B
    BY <2>1 DEF CacheInv, ConfigInv
  <2> HIDE DEF A, B
  <2>3. \A i \in 1 .. Len(events) : events[i] \in A
    BY <2>2
  <2>4. \A i \in 1 .. Len(events) : events[i] \in B
    BY <2>2, <2>3
  <2>5. events \in Seq(B)
    BY <2>2, <2>4
  <2> QED
    BY <2>5 DEF B
<1>2. slots \in [Keys -> Slots \cup {nil}] /\ editor \in [Editors -> PartialLimits \cup {nil}]
      /\ merging \in [Mergers -> Configs \cup {nil}]
  BY SmallTypes DEF CacheInv, ConfigInv, StoreInv
<1>3. remote \in PartialLimits /\ effective \in Configs \cup {nil}
      /\ watcher \in WatcherSteps \cup {nil} /\ limits \in Limits
  BY SmallTypes DEF CacheInv, ConfigInv
<1>4. TypeOK
  BY <1>1, <1>2, <1>3 DEF CacheInv, ConfigInv, StoreInv, TypeOK
<1>5. BytesAreCounted
  <2>1. \A k \in Open : slots[k] \in GoodSlots
    BY DEF CacheInv, StoreInv, Open
  <2> QED
    BY <2>1 DEF BytesAreCounted, GoodSlots
<1> QED
  BY <1>4, <1>5

\* Setting the slots keeps what consumers hold in step with them.
LEMMA SetSlotsInv ==
    ASSUME StoreInv, NEW s \in [Keys -> GoodSlots \cup {nil}], SetSlots(s),
           \A k \in Keys : s[k] # nil => s[k].maxBytes = limits'["slotMaxBytes"]
    PROVE  StoreInv'
<1>1. slots' = s
  BY DEF SetSlots
<1>2. ASSUME NEW c \in Consumers
      PROVE  /\ consumer'[c] \in Chunks \cup {nil}
             /\ consumer'[c] # nil /\ consumer'[c].live => s[consumer'[c].k] # nil
  <2>1. CASE consumer[c] # nil /\ s[consumer[c].k] = nil
    <3> DEFINE x == consumer[c]
    <3>1. consumer'[c] = [x EXCEPT !.live = FALSE]
      BY <2>1 DEF SetSlots
    <3>2. x \in Chunks
      BY <2>1 DEF StoreInv
    <3> HIDE DEF x
    <3>3. [x EXCEPT !.live = FALSE] \in Chunks /\ [x EXCEPT !.live = FALSE].live = FALSE
      BY <3>2 DEF Chunks
    <3> QED
      BY <3>1, <3>3
  <2>2. CASE ~(consumer[c] # nil /\ s[consumer[c].k] = nil)
    <3>1. consumer'[c] = consumer[c]
      BY <2>2 DEF SetSlots
    <3> QED
      BY <2>2, <3>1 DEF StoreInv
  <2> QED
    BY <2>1, <2>2
<1>3. consumer' \in [Consumers -> Chunks \cup {nil}]
  <2>1. consumer' = [c \in Consumers |-> consumer'[c]]
    BY DEF SetSlots
  <2> QED
    BY <1>2, <2>1
<1> QED
  BY <1>1, <1>2, <1>3 DEF StoreInv

\* A consumer that goes on leaves the others with what they hold.
LEMMA ConsumerStep ==
    ASSUME StoreInv, NEW c \in Consumers, NEW n \in Chunks \cup {nil},
           consumer' = [consumer EXCEPT ![c] = n],
           n # nil /\ n.live => slots'[n.k] # nil,
           \A k \in Keys : slots[k] # nil => slots'[k] # nil
    PROVE  /\ consumer' \in [Consumers -> Chunks \cup {nil}]
           /\ \A q \in Consumers :
                 consumer'[q] # nil /\ consumer'[q].live => slots'[consumer'[q].k] # nil
<1>1. consumer' \in [Consumers -> Chunks \cup {nil}]
  BY DEF StoreInv
<1>2. ASSUME NEW q \in Consumers, consumer'[q] # nil, consumer'[q].live
      PROVE  slots'[consumer'[q].k] # nil
  <2>1. CASE q = c
    <3>1. consumer'[q] = n
      BY <2>1 DEF StoreInv
    <3> QED
      BY <1>2, <3>1
  <2>2. CASE q # c
    <3>1. consumer'[q] = consumer[q]
      BY <2>2 DEF StoreInv
    <3>2. consumer[q] \in Chunks /\ slots[consumer[q].k] # nil
      BY <1>2, <3>1 DEF StoreInv
    <3>3. consumer[q].k \in Keys
      BY <3>2 DEF Chunks
    <3> QED
      BY <3>1, <3>2, <3>3
  <2> QED
    BY <2>1, <2>2
<1> QED
  BY <1>1, <1>2

\* The next chunk of a batch is one that has found nothing yet.
LEMMA BatchType ==
    ASSUME NEW c, ContinueBatch(c)
    PROVE  \E n \in Chunks \cup {nil} : /\ consumer' = [consumer EXCEPT ![c] = n]
                                        /\ n # nil => ~n.live
<1>1. \A k \in Keys, size \in Sizes : /\ NextChunk(k, size) \in Chunks
                                      /\ NextChunk(k, size).live = FALSE
  BY DEF NextChunk, Chunks
<1>2. CASE consumer' = [consumer EXCEPT ![c] = nil]
  BY <1>2, Zenon
<1>3. ASSUME NEW k \in Keys, NEW size \in Sizes,
             consumer' = [consumer EXCEPT ![c] = NextChunk(k, size)]
      PROVE  \E n \in Chunks \cup {nil} : /\ consumer' = [consumer EXCEPT ![c] = n]
                                          /\ n # nil => ~n.live
  <2> DEFINE n == NextChunk(k, size)
  <2>1. n \in Chunks \cup {nil} /\ ~n.live
    BY <1>1
  <2>2. consumer' = [consumer EXCEPT ![c] = n]
    BY <1>3
  <2> HIDE DEF n
  <2> QED
    BY <2>1, <2>2, Zenon
<1> QED
  BY <1>2, <1>3, Zenon DEF ContinueBatch

\* The steps of a consumer.
LEMMA ConsumeStore ==
    ASSUME CacheInv, NEW c \in Consumers, Consume(c)
    PROVE  StoreInv'
<1>0. limits' = limits
  BY DEF Consume, ReceiveBatch, FindSlot, AddProfileData
<1>1. ASSUME NEW k \in Keys, NEW size \in Sizes, ReceiveBatch(c, k, size) PROVE StoreInv'
  <2> DEFINE n == NextChunk(k, size)
  <2>1. n \in Chunks /\ ~n.live
    BY DEF NextChunk, Chunks
  <2>2. consumer' = [consumer EXCEPT ![c] = n] /\ slots' = slots
    BY <1>1 DEF ReceiveBatch
  <2> HIDE DEF n
  <2>3. /\ consumer' \in [Consumers -> Chunks \cup {nil}]
        /\ \A q \in Consumers :
              consumer'[q] # nil /\ consumer'[q].live => slots'[consumer'[q].k] # nil
    BY <2>1, <2>2, ConsumerStep DEF CacheInv
  <2> QED
    BY <1>0, <2>2, <2>3 DEF CacheInv, StoreInv
<1>2. CASE FindSlot(c)
  <2>0. slots' = slots /\ consumer[c] \in Chunks
    BY <1>2 DEF FindSlot, CacheInv, StoreInv
  <2>1. PICK n \in Chunks \cup {nil} :
             /\ consumer' = [consumer EXCEPT ![c] = n]
             /\ n # nil /\ n.live => slots[n.k] # nil
    <3>1. CASE ContinueBatch(c)
      BY <3>1, BatchType
    <3>2. CASE /\ slots[consumer[c].k] # nil
               /\ consumer' = [consumer EXCEPT ![c].step = "add", ![c].live = TRUE]
      <4> DEFINE x == consumer[c]
                 n == [x EXCEPT !.step = "add", !.live = TRUE]
      <4>1. n \in Chunks /\ n.k = x.k
        BY <2>0 DEF Chunks
      <4>2. consumer' = [consumer EXCEPT ![c] = n]
        BY <3>2 DEF CacheInv, StoreInv
      <4> HIDE DEF n
      <4> QED
        BY <3>2, <4>1, <4>2
    <3> QED
      BY <1>2, <3>1, <3>2 DEF FindSlot
  <2>2. /\ consumer' \in [Consumers -> Chunks \cup {nil}]
        /\ \A q \in Consumers :
              consumer'[q] # nil /\ consumer'[q].live => slots'[consumer'[q].k] # nil
    BY <2>0, <2>1, ConsumerStep DEF CacheInv
  <2> QED
    BY <1>0, <2>0, <2>2 DEF CacheInv, StoreInv
<1>3. CASE AddProfileData(c)
  <2> DEFINE x == consumer[c]
  <2>0. x \in Chunks /\ x.k \in Keys /\ x.size \in Sizes
    <3>1. x \in Chunks
      BY <1>3 DEF AddProfileData, CacheInv, StoreInv
    <3> QED
      BY <3>1 DEF Chunks
  <2>1. /\ slots' \in [Keys -> GoodSlots \cup {nil}]
        /\ \A k \in Keys : slots[k] # nil => slots'[k] # nil
        /\ \A k \in Keys : slots'[k] # nil => slots'[k].maxBytes = limits["slotMaxBytes"]
    <3>1. CASE x.live
      <4> DEFINE s == slots[x.k]
                 y == AddAt(s, x.size)
      <4>1. s \in GoodSlots /\ s # nil
        BY <1>3, <2>0, <3>1 DEF AddProfileData, CacheInv, StoreInv
      <4>2. y \in GoodSlots /\ y.maxBytes = s.maxBytes /\ y # nil
        BY <2>0, <4>1, AddAtGood, SmallTypes
      <4>3. slots' = [slots EXCEPT ![x.k] = y]
        BY <1>3, <3>1 DEF AddProfileData
      <4>4. s.maxBytes = limits["slotMaxBytes"]
        BY <2>0, <4>1 DEF CacheInv, StoreInv
      <4> HIDE DEF y, x
      <4> QED
        BY <2>0, <4>2, <4>3, <4>4 DEF CacheInv, StoreInv
    <3>2. CASE ~x.live
      BY <1>3, <3>2 DEF AddProfileData, CacheInv, StoreInv
    <3> QED
      BY <3>1, <3>2
  <2>2. PICK n \in Chunks \cup {nil} :
             consumer' = [consumer EXCEPT ![c] = n] /\ (n # nil => ~n.live)
    BY <1>3, BatchType DEF AddProfileData
  <2>3. /\ consumer' \in [Consumers -> Chunks \cup {nil}]
        /\ \A q \in Consumers :
              consumer'[q] # nil /\ consumer'[q].live => slots'[consumer'[q].k] # nil
    BY <2>1, <2>2, ConsumerStep DEF CacheInv
  <2> QED
    BY <1>0, <2>1, <2>3 DEF StoreInv
<1> QED
  BY <1>1, <1>2, <1>3 DEF Consume

\* Every slot that is there is good.
LEMMA SlotGood ==
    ASSUME StoreInv, NEW k \in Keys, slots[k] # nil
    PROVE  slots[k] \in GoodSlots /\ slots[k].maxBytes = limits["slotMaxBytes"]
BY DEF StoreInv

\* Slots are only removed, opened or touched.
LEMMA SomeSlots ==
    ASSUME CacheInv, limits' = limits, NEW s, s = [k \in Keys |-> s[k]], SetSlots(s),
           \A k \in Keys : \/ s[k] = nil \/ s[k] = slots[k]
                           \/ s[k] \in GoodSlots /\ s[k].maxBytes = limits["slotMaxBytes"]
    PROVE  StoreInv'
<1>1. \A k \in Keys : /\ s[k] \in GoodSlots \cup {nil}
                      /\ s[k] # nil => s[k].maxBytes = limits["slotMaxBytes"]
  BY SlotGood DEF CacheInv, StoreInv
<1>2. s \in [Keys -> GoodSlots \cup {nil}]
  BY <1>1
<1> QED
  BY <1>1, <1>2, SetSlotsInv DEF CacheInv

\* A new slot is good.
LEMMA NewSlotGood ==
    ASSUME ConfigInv
    PROVE  NewSlot \in GoodSlots /\ NewSlot.maxBytes = limits["slotMaxBytes"] /\ NewSlot.age = 0
<1>1. limits["slotMaxBytes"] \in Nat \ {0}
  BY DEF ConfigInv, FullLimits, Limits, Fields
<1> DEFINE m == limits["slotMaxBytes"]
           x == NewSlot
<1>2. 0 \in 0 .. MaxAge /\ 0 \in Int /\ <<>> \in Seq(Sizes)
  BY LimitsAssumption
<1>3. x \in Slots /\ x.age = 0 /\ x.chunks = <<>> /\ x.totalBytes = 0 /\ x.maxBytes = m
  <2> HIDE DEF m
  <2>1. x = [age |-> 0, chunks |-> <<>>, totalBytes |-> 0, maxBytes |-> m]
    BY DEF NewSlot, m
  <2>2. m \in Nat \ {0}
    BY <1>1 DEF m
  <2> HIDE DEF x
  <2> QED
    BY <1>2, <2>1, <2>2 DEF Slots
<1> HIDE DEF x
<1>4. x \in GoodSlots
  BY <1>1, <1>3, SumFacts DEF GoodSlots
<1> QED
  BY <1>3, <1>4 DEF x

\* The steps of the resolvers.
LEMMA ResolveStore ==
    ASSUME CacheInv, NEW k \in Keys, Resolve(k)
    PROVE  StoreInv'
<1>0. limits' = limits
  BY DEF Resolve, EnableSourceProfiling, DisableSourceProfiling, ClearSourceProfilingBuffer,
         GetProfileData
<1>1. ASSUME slots[k] # nil, SetSlots([slots EXCEPT ![k].age = 0]) PROVE StoreInv'
  <2> DEFINE x == slots[k]
             y == [x EXCEPT !.age = 0]
             s == [slots EXCEPT ![k] = y]
  <2>1. x \in GoodSlots /\ x.maxBytes = limits["slotMaxBytes"] /\ 0 \in 0 .. MaxAge
    BY <1>1, SlotGood, LimitsAssumption DEF CacheInv
  <2>2. y \in GoodSlots /\ y.maxBytes = limits["slotMaxBytes"]
    BY <2>1, TouchGood
  <2>3. SetSlots(s)
    BY <1>1
  <2> HIDE DEF y
  <2>4. s = [q \in Keys |-> s[q]] /\ \A q \in Keys : s[q] = slots[q] \/ s[q] = y
    BY DEF CacheInv, StoreInv
  <2> HIDE DEF s
  <2> QED
    BY <1>0, <2>2, <2>3, <2>4, SomeSlots
<1>2. CASE EnableSourceProfiling(k)
  <2>1. CASE slots[k] = nil
    <3>1. PICK kept \in LeastRecentlyUsed(Cardinality(Open) - EvictedForOne) :
            SetSlots([q \in Keys |-> IF q = k THEN NewSlot
                                     ELSE IF q \in kept THEN slots[q] ELSE nil])
      BY <1>2, <2>1 DEF EnableSourceProfiling, EnsureSlot
    <3> DEFINE x == NewSlot
               s == [q \in Keys |-> IF q = k THEN x ELSE IF q \in kept THEN slots[q] ELSE nil]
    <3>2. x \in GoodSlots /\ x.maxBytes = limits["slotMaxBytes"]
      BY NewSlotGood DEF CacheInv
    <3>3. SetSlots(s)
      BY <3>1
    <3> HIDE DEF x
    <3>4. s = [q \in Keys |-> s[q]] /\ \A q \in Keys : s[q] = slots[q] \/ s[q] = x \/ s[q] = nil
      OBVIOUS
    <3> HIDE DEF s
    <3> QED
      BY <1>0, <3>2, <3>3, <3>4, SomeSlots
  <2> QED
    BY <1>1, <1>2, <2>1 DEF EnableSourceProfiling, EnsureSlot
<1>3. CASE DisableSourceProfiling(k)
  <2> DEFINE s == [slots EXCEPT ![k] = nil]
  <2>1. SetSlots(s)
    BY <1>3 DEF DisableSourceProfiling, RemoveSlot
  <2>2. s = [q \in Keys |-> s[q]] /\ \A q \in Keys : s[q] = slots[q] \/ s[q] = nil
    BY DEF CacheInv, StoreInv
  <2> HIDE DEF s
  <2> QED
    BY <1>0, <2>1, <2>2, SomeSlots
<1>4. CASE ClearSourceProfilingBuffer(k)
  <2> DEFINE x == slots[k]
             y == [Clear(x) EXCEPT !.age = 0]
             s == [slots EXCEPT ![k] = y]
  <2>1. x \in GoodSlots /\ x.maxBytes = limits["slotMaxBytes"]
    BY <1>4, SlotGood DEF CacheInv, ClearSourceProfilingBuffer
  <2>2. y \in GoodSlots /\ y.maxBytes = limits["slotMaxBytes"]
    BY <2>1, TouchGood
  <2>3. SetSlots(s)
    BY <1>4 DEF ClearSourceProfilingBuffer
  <2> HIDE DEF y
  <2>4. s = [q \in Keys |-> s[q]] /\ \A q \in Keys : s[q] = slots[q] \/ s[q] = y
    BY DEF CacheInv, StoreInv
  <2> HIDE DEF s
  <2> QED
    BY <1>0, <2>2, <2>3, <2>4, SomeSlots
<1>5. CASE GetProfileData(k)
  BY <1>1, <1>5 DEF GetProfileData
<1> QED
  BY <1>2, <1>3, <1>4, <1>5 DEF Resolve

\* New limits: all slots that are left get the new budget.
LEMMA ReconfigureStore ==
    ASSUME CacheInv, NEW new \in SmallLimits, Reconfigure(new)
    PROVE  StoreInv' /\ limits' \in FullLimits
<1>1. limits' \in FullLimits
  BY OverlayType DEF Reconfigure, CacheInv, ConfigInv
<1> DEFINE m == limits'["slotMaxBytes"]
<1>2. m \in Nat \ {0}
  BY <1>1 DEF FullLimits, Limits, Fields
<1>3. PICK kept \in LeastRecentlyUsed(limits'["maxSlots"]) :
          SetSlots([k \in Keys |-> IF k \in kept THEN Resize(slots[k], m) ELSE nil])
  BY DEF Reconfigure
<1> DEFINE s == [k \in Keys |-> IF k \in kept THEN Resize(slots[k], m) ELSE nil]
<1>4. \A k \in kept : k \in Keys /\ slots[k] # nil
  BY DEF LeastRecentlyUsed, Open
<1>5. \A k \in Keys : /\ s[k] \in GoodSlots \cup {nil}
                      /\ s[k] # nil => s[k].maxBytes = m
  BY <1>2, <1>4, SlotGood, ResizeGood DEF CacheInv
<1>6. s \in [Keys -> GoodSlots \cup {nil}]
  BY <1>5
<1>7. StoreInv'
  <2> HIDE DEF s
  <2>1. SetSlots(s) /\ StoreInv
    BY <1>3 DEF s, CacheInv
  <2> QED
    BY <1>5, <1>6, <2>1, SetSlotsInv
<1> QED
  BY <1>1, <1>7

\* The sweeper and the clock.
LEMMA SweepStore ==
    ASSUME CacheInv, StartSweep \/ FinishSweep \/ Tick
    PROVE  StoreInv' /\ ConfigInv'
<1>0. limits["ttlSeconds"] \in Nat \ {0} /\ limits["ttlSeconds"] + 1 < MaxAge /\ MaxAge \in Nat
  <2>1. limits["ttlSeconds"] \in Nat \ {0}
    BY DEF CacheInv, ConfigInv, FullLimits, Limits, Fields
  <2>2. limits["ttlSeconds"] \in AskedTTLs \cup {DefaultLimits["ttlSeconds"]}
    BY DEF CacheInv, ConfigInv, FullLimits
  <2> QED
    BY <2>1, <2>2, TTLBound, LimitsAssumption
<1>1. CASE StartSweep
  <2>1. sweep' = limits["ttlSeconds"] /\ UNCHANGED <<storeVars, configVars, gate, editor, watcher, used, hist>>
    BY <1>1 DEF StartSweep
  <2>2. sweep' \in 1 .. MaxAge
    BY <1>0, <2>1
  <2> QED
    BY <2>1, <2>2 DEF storeVars, configVars, CacheInv, ConfigInv, StoreInv
<1>2. CASE FinishSweep
  <2> DEFINE s == [k \in Keys |-> IF slots[k] # nil /\ slots[k].age > sweep THEN nil ELSE slots[k]]
  <2>1. SetSlots(s) /\ limits' = limits
    BY <1>2 DEF FinishSweep
  <2>2. s = [k \in Keys |-> s[k]] /\ \A k \in Keys : s[k] = nil \/ s[k] = slots[k]
    OBVIOUS
  <2> HIDE DEF s
  <2>3. StoreInv'
    BY <2>1, <2>2, SomeSlots
  <2>4. ConfigInv'
    BY <1>2 DEF FinishSweep, configVars, CacheInv, ConfigInv
  <2> QED
    BY <2>3, <2>4
<1>3. CASE Tick
  <2>1. ASSUME NEW k \in Keys
        PROVE  /\ slots'[k] \in GoodSlots \cup {nil}
               /\ slots'[k] # nil <=> slots[k] # nil
               /\ slots'[k] # nil => slots'[k].maxBytes = limits["slotMaxBytes"]
    <3> DEFINE x == slots[k]
    <3>1. CASE x # nil /\ x.age < MaxAge
      <4> DEFINE y == [x EXCEPT !.age = @ + 1]
      <4>1. x \in GoodSlots /\ x.maxBytes = limits["slotMaxBytes"]
        BY <3>1, SlotGood DEF CacheInv
      <4>2. x.age + 1 \in 0 .. MaxAge
        <5>1. x.age \in 0 .. MaxAge
          BY <4>1 DEF GoodSlots, Slots
        <5> QED
          BY <3>1, <5>1, LimitsAssumption
      <4>3. y \in GoodSlots /\ y.maxBytes = x.maxBytes
        BY <4>1, <4>2, TouchGood
      <4>4. slots'[k] = y
        BY <1>3, <3>1 DEF Tick
      <4> HIDE DEF y
      <4> QED
        BY <3>1, <4>1, <4>3, <4>4, SmallTypes
    <3>2. CASE ~(x # nil /\ x.age < MaxAge)
      <4>1. slots'[k] = x
        BY <1>3, <3>2 DEF Tick
      <4> QED
        BY <4>1, SlotGood DEF CacheInv, StoreInv
    <3> QED
      BY <3>1, <3>2
  <2>2. slots' \in [Keys -> GoodSlots \cup {nil}]
    <3>1. slots' = [k \in Keys |-> slots'[k]]
      BY <1>3 DEF Tick
    <3> QED
      BY <2>1, <3>1
  <2>3. limits' = limits /\ consumer' = consumer
    BY <1>3 DEF Tick
  <2>4. \A c \in Consumers : consumer[c] # nil => consumer[c].k \in Keys
    BY DEF CacheInv, StoreInv, Chunks
  <2>5. StoreInv'
    BY <2>1, <2>2, <2>3, <2>4 DEF CacheInv, StoreInv
  <2>6. sweep' \in (1 .. MaxAge) \cup {nil}
    BY <1>0, <1>3, NilAssumption DEF Tick, CacheInv, ConfigInv
  <2>7. ConfigInv'
    BY <1>3, <2>6 DEF Tick, configVars, CacheInv, ConfigInv
  <2> QED
    BY <2>5, <2>7
<1> QED
  BY <1>1, <1>2, <1>3

\* The settings page.
LEMMA ConfigureStore ==
    ASSUME CacheInv, NEW e \in Editors, Configure(e)
    PROVE  StoreInv' /\ ConfigInv'
<1>1. ASSUME NEW edit \in Edits, PersistLimits(e, edit) PROVE StoreInv' /\ ConfigInv'
  <2>1. edit.ui \in SmallLimits /\ Written(edit) \in SmallLimits
    BY WrittenType
  <2>2. remote' \in SmallLimits
    BY <1>1, <2>1 DEF PersistLimits
  <2>h. hist' \in Mishaps
    <3> DEFINE C == hist.contested \cup TakenBack(edit)
    <3>1. hist' = [hist EXCEPT !.contested = C] /\ hist \in Mishaps
      BY <1>1 DEF PersistLimits, CacheInv, ConfigInv
    <3>2. C \in SUBSET Fields
      BY <3>1, MishapTypes, LimitsAssumption DEF TakenBack
    <3> HIDE DEF C
    <3> QED
      BY <3>1, <3>2, MishapTypes
  <2>3. editor' \in [Editors -> SmallLimits \cup {nil}]
    BY <1>1, <2>1 DEF PersistLimits, CacheInv, ConfigInv
  <2>4. dirty' \subseteq Mergers /\ used' \in Nat
    BY <1>1, MergersAssumption DEF PersistLimits, Event, CacheInv, ConfigInv
  <2> QED
    BY <1>1, <2>2, <2>h, <2>3, <2>4 DEF PersistLimits, storeVars, CacheInv, ConfigInv, StoreInv
<1>2. CASE ApplyLimits(e)
  <2>1. editor[e] \in SmallLimits
    BY <1>2 DEF ApplyLimits, CacheInv, ConfigInv
  <2>2. StoreInv' /\ limits' \in FullLimits
    BY <1>2, <2>1, ReconfigureStore DEF ApplyLimits
  <2>3. editor' \in [Editors -> SmallLimits \cup {nil}]
    BY <1>2 DEF ApplyLimits, CacheInv, ConfigInv
  <2>4. hist' \in Mishaps
    <3> DEFINE C == (hist.contested \ SetBy(editor[e])) \cup Overtaken(editor[e])
    <3>1. hist' = [hist EXCEPT !.contested = C] /\ hist \in Mishaps
      BY <1>2 DEF ApplyLimits, CacheInv, ConfigInv
    <3>2. C \in SUBSET Fields
      BY <3>1, MishapTypes DEF SetBy, Overtaken
    <3> HIDE DEF C
    <3> QED
      BY <3>1, <3>2, MishapTypes
  <2> QED
    BY <1>2, <2>2, <2>3, <2>4 DEF ApplyLimits, configVars, CacheInv, ConfigInv
<1> QED
  BY <1>1, <1>2 DEF Configure

\* The configuration, and the controllers that merge it.
LEMMA MergeStore ==
    ASSUME CacheInv,
           \/ ToggleProfiling \/ ChangeDeployment \/ DeleteEffectiveConfig
           \/ \E m \in Mergers : MergeConfigs(m) \/ PersistEffectiveConfig(m)
    PROVE  StoreInv' /\ ConfigInv'
<1> DEFINE A == SmallConfigs \cup {nil}
<1>0. ASSUME NEW c \in A, SetEffective(c)
      PROVE  effective' \in A /\ events' \in Seq(A)
  <2>1. events \in Seq(A)
    BY DEF CacheInv, ConfigInv
  <2> HIDE DEF A
  <2>2. Append(events, c) \in Seq(A)
    BY <1>0, <2>1
  <2> QED
    BY <1>0, <2>1, <2>2 DEF SetEffective
<1>1. CASE ToggleProfiling
  BY <1>1, MergersAssumption DEF ToggleProfiling, Event, storeVars, CacheInv, ConfigInv, StoreInv
<1>2. CASE ChangeDeployment
  BY <1>2 DEF ChangeDeployment, Event, storeVars, CacheInv, ConfigInv, StoreInv
<1>3. CASE DeleteEffectiveConfig
  <2>1. effective' \in A /\ events' \in Seq(A)
    BY <1>0, <1>3 DEF DeleteEffectiveConfig
  <2> QED
    BY <1>3, <2>1 DEF DeleteEffectiveConfig, Event, storeVars, CacheInv, ConfigInv, StoreInv
<1>4. ASSUME NEW m \in Mergers, MergeConfigs(m) PROVE StoreInv' /\ ConfigInv'
  <2>1. ASSUME NEW rem \in {remote, NoLimits}, NEW local \in {LocalLimits, NoLimits}, Merge(m, rem, local)
        PROVE  merging' \in [Mergers -> A]
    <3>1. MergedUi(rem, local) \in SmallLimits
      BY GivenLimits, MergedUiType DEF CacheInv, ConfigInv
    <3> DEFINE u == MergedUi(rem, local)
               c == [enabled |-> enabled, ui |-> u]
    <3>2. merging' = [merging EXCEPT ![m] = c]
      BY <2>1 DEF Merge
    <3> HIDE DEF u
    <3>3. c \in SmallConfigs
      BY <3>1 DEF CacheInv, ConfigInv, SmallConfigs, u
    <3> HIDE DEF c
    <3> QED
      BY <3>2, <3>3 DEF CacheInv, ConfigInv
  <2>2. merging' \in [Mergers -> A]
    <3>1. UNCHANGED merging \/ \E rem \in {remote, NoLimits}, local \in {LocalLimits, NoLimits} :
              Merge(m, rem, local)
      BY <1>4, Zenon DEF MergeConfigs
    <3> QED
      BY <2>1, <3>1 DEF CacheInv, ConfigInv
  <2>3. used' \in Nat /\ dirty' \subseteq Mergers
    BY <1>4 DEF MergeConfigs, Event, CacheInv, ConfigInv
  <2>4. hist' \in Mishaps
    <3> DEFINE B == (hist.behind \cup Older) \ {m}
               D == hist.behind \cup Older \cup {m}
               E == hist.behind \cup Older
    <3>1. /\ hist \in Mishaps
          /\ \/ hist' = [hist EXCEPT !.behind = B]
             \/ hist' = [hist EXCEPT !.behind = D]
             \/ hist' = [hist EXCEPT !.behind = E, !.astray = TRUE]
      BY <1>4 DEF MergeConfigs, CacheInv, ConfigInv
    <3>2. B \in SUBSET Mergers /\ D \in SUBSET Mergers /\ E \in SUBSET Mergers
      BY <3>1, MishapTypes DEF Older
    <3> HIDE DEF B, D, E
    <3> QED
      BY <3>1, <3>2, MishapTypes
  <2> QED
    BY <1>4, <2>2, <2>3, <2>4 DEF MergeConfigs, storeVars, CacheInv, ConfigInv, StoreInv
<1>5. ASSUME NEW m \in Mergers, PersistEffectiveConfig(m) PROVE StoreInv' /\ ConfigInv'
  <2>1. merging[m] \in A
    BY DEF CacheInv, ConfigInv
  <2>2. effective' \in A /\ events' \in Seq(A)
    BY <1>0, <1>5, <2>1 DEF PersistEffectiveConfig
  <2>3. merging' \in [Mergers -> A]
    BY <1>5 DEF PersistEffectiveConfig, CacheInv, ConfigInv
  <2>4. hist' \in Mishaps
    <3> DEFINE a == m \in hist.behind
    <3>1. hist' = [hist EXCEPT !.astray = a] /\ hist \in Mishaps /\ a \in BOOLEAN
      BY <1>5 DEF PersistEffectiveConfig, CacheInv, ConfigInv
    <3> HIDE DEF a
    <3> QED
      BY <3>1, MishapTypes
  <2> QED
    BY <1>5, <2>2, <2>3, <2>4 DEF PersistEffectiveConfig, storeVars, CacheInv, ConfigInv, StoreInv
<1> QED
  BY <1>1, <1>2, <1>3, <1>4, <1>5

\* What a watcher that has something to do holds.
LEMMA WatcherHolds ==
    ASSUME CacheInv, watcher # nil
    PROVE  /\ watcher \in SmallSteps
           /\ watcher.config \in SmallConfigs \cup {nil}
           /\ watcher.step = "reconfigure" => watcher.config.ui \in SmallLimits
<1>1. watcher \in SmallSteps
  BY DEF CacheInv, ConfigInv
<1>2. watcher.config \in SmallConfigs \cup {nil}
  BY <1>1 DEF SmallSteps
<1>3. ASSUME watcher.step = "reconfigure" PROVE watcher.config.ui \in SmallLimits
  <2>1. watcher.config \in SmallConfigs
    BY <1>2, <1>3 DEF CacheInv, ConfigInv
  <2> QED
    BY <2>1 DEF SmallConfigs
<1> QED
  BY <1>1, <1>2, <1>3

\* The watcher.
LEMMA WatchStore ==
    ASSUME CacheInv, Watch
    PROVE  StoreInv' /\ ConfigInv'
<1> DEFINE A == SmallConfigs \cup {nil}
<1>1. CASE WatchConfig
  <2> DEFINE c == Head(events)
             on == c # nil /\ c.enabled
  <2>1. events \in Seq(A) /\ events # <<>>
    BY <1>1 DEF WatchConfig, CacheInv, ConfigInv
  <2>2. c \in A /\ Tail(events) \in Seq(A)
    <3> HIDE DEF A
    <3> QED
      BY <2>1
  <2>3. c # nil => c.enabled \in BOOLEAN
    BY <2>2 DEF SmallConfigs
  <2>4. /\ gate' = on
        /\ watcher' = IF gate /\ ~on THEN [config |-> c, step |-> "clear"]
                      ELSE IF c # nil THEN [config |-> c, step |-> "reconfigure"]
                      ELSE nil
        /\ events' = Tail(events)
    BY <1>1, Zenon DEF WatchConfig
  <2> HIDE DEF c
  <2>5. gate' \in BOOLEAN
    BY <2>3, <2>4
  <2>6. /\ [config |-> c, step |-> "clear"] \in SmallSteps
        /\ [config |-> c, step |-> "clear"].step = "clear"
        /\ [config |-> c, step |-> "reconfigure"] \in SmallSteps
        /\ [config |-> c, step |-> "reconfigure"].config = c
    BY <2>2 DEF SmallSteps
  <2>7. /\ watcher' \in SmallSteps \cup {nil}
        /\ watcher' # nil /\ watcher'.step = "reconfigure" => watcher'.config # nil
    <3>1. CASE watcher' = nil
      BY <3>1
    <3>2. CASE watcher' = [config |-> c, step |-> "clear"]
      BY <2>6, <3>2
    <3>3. CASE c # nil /\ watcher' = [config |-> c, step |-> "reconfigure"]
      BY <2>6, <3>3
    <3> QED
      BY <2>4, <3>1, <3>2, <3>3, Zenon
  <2> HIDE DEF on
  <2>8. UNCHANGED <<storeVars, remote, enabled, merging, dirty, effective, sweep, editor, used, hist>>
    BY <1>1 DEF WatchConfig
  <2> QED
    BY <2>2, <2>4, <2>5, <2>7, <2>8 DEF storeVars, CacheInv, ConfigInv, StoreInv
<1>2. CASE WatcherClears
  <2> DEFINE s == [k \in Keys |-> nil]
             w == watcher
  <2>1. SetSlots(s) /\ limits' = limits
    BY <1>2 DEF WatcherClears, ClearAllSlots
  <2>2. s = [k \in Keys |-> s[k]] /\ \A k \in Keys : s[k] = nil
    OBVIOUS
  <2> HIDE DEF s
  <2>3. StoreInv'
    BY <2>1, <2>2, SomeSlots
  <2>4. w \in SmallSteps
    BY <1>2, WatcherHolds DEF WatcherClears
  <2>5. watcher' = IF w.config = nil THEN nil ELSE [w EXCEPT !.step = "reconfigure"]
    BY <1>2 DEF WatcherClears
  <2> HIDE DEF w
  <2>6. /\ [w EXCEPT !.step = "reconfigure"] \in SmallSteps
        /\ [w EXCEPT !.step = "reconfigure"].config = w.config
    BY <2>4 DEF SmallSteps
  <2>7. /\ watcher' \in SmallSteps \cup {nil}
        /\ watcher' # nil /\ watcher'.step = "reconfigure" => watcher'.config # nil
    BY <2>5, <2>6
  <2> QED
    BY <1>2, <2>3, <2>7 DEF WatcherClears, configVars, CacheInv, ConfigInv
<1>3. CASE WatcherReconfigures
  <2>1. watcher.config.ui \in SmallLimits
    BY <1>3, WatcherHolds DEF WatcherReconfigures
  <2>2. StoreInv' /\ limits' \in FullLimits
    BY <1>3, <2>1, ReconfigureStore DEF WatcherReconfigures
  <2>3. hist' \in Mishaps
    <3> DEFINE C == hist.contested \ SetBy(watcher.config.ui)
    <3>1. hist' = [hist EXCEPT !.contested = C] /\ hist \in Mishaps
      BY <1>3 DEF WatcherReconfigures, CacheInv, ConfigInv
    <3>2. C \in SUBSET Fields
      BY <3>1, MishapTypes
    <3> HIDE DEF C
    <3> QED
      BY <3>1, <3>2, MishapTypes
  <2> QED
    BY <1>3, <2>2, <2>3 DEF WatcherReconfigures, configVars, CacheInv, ConfigInv
<1> QED
  BY <1>1, <1>2, <1>3 DEF Watch

\* A restart.
LEMMA RestartStore ==
    ASSUME CacheInv, RestartFrontend
    PROVE  StoreInv' /\ ConfigInv'
<1> DEFINE A == SmallConfigs \cup {nil}
<1>1. effective \in A /\ (effective # nil => effective.enabled \in BOOLEAN /\ effective.ui \in SmallLimits)
  BY DEF CacheInv, ConfigInv, SmallConfigs
<1>2. events' \in Seq(A)
  <2> HIDE DEF A
  <2>1. <<>> \in Seq(A) /\ <<effective>> \in Seq(A)
    BY <1>1
  <2> QED
    BY <2>1 DEF RestartFrontend
<1>3. gate' \in BOOLEAN /\ limits' \in FullLimits
  <2>1. CASE effective # nil /\ gate' = effective.enabled
             /\ limits' = Overlay(DefaultLimits, effective.ui)
    BY <1>1, <2>1, GivenLimits, OverlayType
  <2>2. CASE gate' = FALSE /\ limits' = DefaultLimits
    BY <2>2, GivenLimits
  <2> QED
    BY <2>1, <2>2 DEF RestartFrontend
<1>4. StoreInv'
  BY DEF RestartFrontend, StoreInv
<1>h. hist' \in Mishaps
  BY MishapTypes DEF RestartFrontend, CacheInv, ConfigInv
<1>5. ConfigInv'
  BY <1>2, <1>3, <1>h DEF RestartFrontend, Event, CacheInv, ConfigInv
<1> QED
  BY <1>4, <1>5

\* Every step keeps the invariant.
LEMMA CacheStep == CacheInv /\ [Next]_vars => CacheInv'
<1> SUFFICES ASSUME CacheInv, [Next]_vars PROVE CacheInv'
  OBVIOUS
<1>1. ASSUME NEW c \in Consumers, Consume(c) PROVE CacheInv'
  <2>1. ConfigInv'
    BY <1>1 DEF Consume, ReceiveBatch, FindSlot, AddProfileData, configVars, CacheInv, ConfigInv
  <2> QED
    BY <1>1, <2>1, ConsumeStore DEF CacheInv
<1>2. ASSUME NEW k \in Keys, Resolve(k) PROVE CacheInv'
  <2>1. UNCHANGED <<limits, configVars, gate, sweep, editor, watcher, used, hist>>
    BY <1>2, Zenon DEF Resolve, EnableSourceProfiling, DisableSourceProfiling,
       ClearSourceProfilingBuffer, GetProfileData
  <2>2. ConfigInv'
    BY <2>1 DEF configVars, CacheInv, ConfigInv
  <2> QED
    BY <1>2, <2>2, ResolveStore DEF CacheInv
<1>3. ASSUME NEW e \in Editors, Configure(e) PROVE CacheInv'
  BY <1>3, ConfigureStore DEF CacheInv
<1>4. CASE StartSweep \/ FinishSweep \/ Tick
  BY <1>4, SweepStore DEF CacheInv
<1>5. CASE \/ ToggleProfiling \/ ChangeDeployment \/ DeleteEffectiveConfig
           \/ \E m \in Mergers : MergeConfigs(m) \/ PersistEffectiveConfig(m)
  BY <1>5, MergeStore DEF CacheInv
<1>6. CASE RestartFrontend
  BY <1>6, RestartStore DEF CacheInv
<1>7. CASE Watch
  BY <1>7, WatchStore DEF CacheInv
<1>8. CASE UNCHANGED vars
  BY <1>8 DEF vars, storeVars, configVars, CacheInv, ConfigInv, StoreInv
<1> QED
  BY <1>1, <1>2, <1>3, <1>4, <1>5, <1>6, <1>7, <1>8 DEF Next

\* It holds at first.
LEMMA CacheInit == Init => CacheInv
<1> SUFFICES ASSUME Init PROVE CacheInv
  OBVIOUS
<1>1. StoreInv
  BY DEF Init, StoreInv
<1> DEFINE u == MergedUi(NoLimits, LocalLimits)
           c == [enabled |-> TRUE, ui |-> u]
<1>2. u \in SmallLimits
  BY GivenLimits, MergedUiType
<1>i. /\ limits = Overlay(DefaultLimits, u) /\ effective = c
      /\ hist \in Mishaps
  BY DEF Init, Mishaps
<1> HIDE DEF u
<1>c. c \in SmallConfigs
  BY <1>2 DEF SmallConfigs
<1>l. limits \in FullLimits
  BY <1>2, <1>i, GivenLimits, OverlayType
<1> HIDE DEF c
<1>e. <<>> \in Seq(SmallConfigs \cup {nil})
  OBVIOUS
<1>f. /\ editor \in [Editors -> SmallLimits \cup {nil}]
      /\ merging \in [Mergers -> SmallConfigs \cup {nil}]
  BY DEF Init
<1>3. ConfigInv
  BY <1>c, <1>e, <1>f, <1>i, <1>l, GivenLimits DEF Init, ConfigInv
<1> QED
  BY <1>1, <1>3 DEF CacheInv

\* The invariant of the cache.
LEMMA CacheCorrect == Spec => []CacheInv
BY CacheInit, CacheStep, PTL DEF Spec

\* In every reachable state every variable has its type: no limit in force is
\* ever 0, though omitted settings are, and no buffer counts less than nothing.
THEOREM TypeCorrect == Spec => []TypeOK
<1>1. CacheInv => TypeOK
  BY CacheInvImplies
<1> QED
  BY <1>1, CacheCorrect, PTL

\* totalBytes is always the sum of the chunks that AddAt, Resize, Clear and
\* trimLocked leave in the buffer (common/profilecache/buffer.go).
THEOREM BytesCorrect == Spec => []BytesAreCounted
<1>1. CacheInv => BytesAreCounted
  BY CacheInvImplies
<1> QED
  BY <1>1, CacheCorrect, PTL

-----------------------------------------------------------------------------
(* The budget *)

\* What a step may do to the set of slots.
LEMMA OpenCases ==
    ASSUME CacheInv, [Next]_vars
    PROVE  \/ limits' = limits /\ \A k \in Keys : slots'[k] = nil <=> slots[k] = nil
           \/ limits' = limits /\ \E k \in Keys : DisableSourceProfiling(k)
           \/ limits' = limits /\ \E k \in Keys : slots[k] = nil /\ EnsureSlot(k)
           \/ \E new \in SmallLimits : Reconfigure(new)
           \/ FinishSweep \/ WatcherClears \/ RestartFrontend
<1> DEFINE Kept == limits' = limits /\ \A k \in Keys : slots'[k] = nil <=> slots[k] = nil
<1>1. ASSUME NEW c \in Consumers, Consume(c) PROVE Kept
  <2>1. limits' = limits /\ (slots' = slots \/ AddProfileData(c))
    BY <1>1 DEF Consume, ReceiveBatch, FindSlot, AddProfileData
  <2>2. CASE AddProfileData(c) /\ consumer[c].live
    <3> DEFINE x == consumer[c]
               s == slots[x.k]
               y == AddAt(s, x.size)
    <3>1. x \in Chunks /\ s # nil
      BY <2>2 DEF AddProfileData, CacheInv, StoreInv
    <3>2. x.k \in Keys /\ x.size \in Sizes
      BY <3>1 DEF Chunks
    <3>3. s \in GoodSlots
      BY <3>1, <3>2, SlotGood DEF CacheInv
    <3>4. y # nil
      BY <3>2, <3>3, AddAtGood, SmallTypes
    <3>5. slots' = [slots EXCEPT ![x.k] = y]
      BY <2>2 DEF AddProfileData
    <3> HIDE DEF x, y
    <3> QED
      BY <2>1, <3>1, <3>2, <3>4, <3>5 DEF CacheInv, StoreInv
  <2>3. CASE slots' = slots
    BY <2>1, <2>3
  <2> QED
    BY <2>1, <2>2, <2>3 DEF AddProfileData
<1>2. ASSUME NEW k \in Keys, NEW y, y # nil, SetSlots([slots EXCEPT ![k] = y]), slots[k] # nil,
             limits' = limits
      PROVE  Kept
  BY <1>2 DEF SetSlots, CacheInv, StoreInv
<1>3. ASSUME NEW k \in Keys, slots[k] # nil, SetSlots([slots EXCEPT ![k].age = 0]),
             limits' = limits
      PROVE  Kept
  <2> DEFINE x == slots[k]
             y == [x EXCEPT !.age = 0]
  <2>1. x \in GoodSlots /\ 0 \in 0 .. MaxAge
    BY <1>3, SlotGood, LimitsAssumption DEF CacheInv
  <2>2. y # nil
    <3> HIDE DEF x
    <3>1. y \in GoodSlots
      BY <2>1, TouchGood
    <3>2. nil \notin GoodSlots
      BY SmallTypes
    <3> QED
      BY <3>1, <3>2, Zenon
  <2>3. SetSlots([slots EXCEPT ![k] = y])
    BY <1>3
  <2> HIDE DEF y
  <2> QED
    BY <1>2, <1>3, <2>2, <2>3
<1>4. ASSUME NEW k \in Keys, Resolve(k)
      PROVE  \/ Kept
             \/ limits' = limits /\ (DisableSourceProfiling(k) \/ (slots[k] = nil /\ EnsureSlot(k)))
  <2>0. limits' = limits
    BY <1>4 DEF Resolve, EnableSourceProfiling, DisableSourceProfiling,
       ClearSourceProfilingBuffer, GetProfileData
  <2>1. CASE EnableSourceProfiling(k)
    BY <1>3, <2>0, <2>1 DEF EnableSourceProfiling, EnsureSlot
  <2>2. CASE GetProfileData(k)
    BY <1>3, <2>0, <2>2 DEF GetProfileData
  <2>3. CASE ClearSourceProfilingBuffer(k)
    <3> DEFINE x == slots[k]
               y == [Clear(x) EXCEPT !.age = 0]
    <3>1. x \in GoodSlots /\ x # nil
      BY <2>3, SlotGood DEF CacheInv, ClearSourceProfilingBuffer
    <3>2. y # nil
      BY <3>1, TouchGood, SmallTypes
    <3>3. SetSlots([slots EXCEPT ![k] = y])
      BY <2>3 DEF ClearSourceProfilingBuffer
    <3> HIDE DEF y
    <3> QED
      BY <1>2, <2>0, <3>1, <3>2, <3>3
  <2> QED
    BY <1>4, <2>0, <2>1, <2>2, <2>3 DEF Resolve
<1>5. CASE Tick
  <2>1. limits' = limits /\ slots' = [k \in Keys |->
          IF slots[k] # nil /\ slots[k].age < MaxAge THEN [slots[k] EXCEPT !.age = @ + 1]
          ELSE slots[k]]
    BY <1>5 DEF Tick
  <2>2. ASSUME NEW k \in Keys, slots[k] # nil, slots[k].age < MaxAge
        PROVE  [slots[k] EXCEPT !.age = @ + 1] # nil
    <3> DEFINE x == slots[k]
    <3>1. x \in GoodSlots
      BY <2>2, SlotGood DEF CacheInv
    <3>2. x.age + 1 \in 0 .. MaxAge
      <4>1. x.age \in 0 .. MaxAge
        BY <3>1 DEF GoodSlots, Slots
      <4> QED
        BY <2>2, <4>1, LimitsAssumption
    <3> HIDE DEF x
    <3>3. [x EXCEPT !.age = x.age + 1] \in GoodSlots
      BY <3>1, <3>2, TouchGood
    <3>4. nil \notin GoodSlots
      BY SmallTypes
    <3> QED
      BY <3>3, <3>4, Zenon DEF x
  <2> QED
    BY <2>1, <2>2
<1>6. CASE \/ StartSweep \/ ToggleProfiling \/ ChangeDeployment \/ DeleteEffectiveConfig
           \/ \E m \in Mergers : MergeConfigs(m) \/ PersistEffectiveConfig(m)
           \/ WatchConfig \/ UNCHANGED vars
           \/ \E e \in Editors, edit \in Edits : PersistLimits(e, edit)
  <2>1. slots' = slots /\ limits' = limits
    <3>1. CASE StartSweep \/ ToggleProfiling \/ ChangeDeployment \/ DeleteEffectiveConfig
      BY <3>1 DEF StartSweep, ToggleProfiling, ChangeDeployment, DeleteEffectiveConfig, storeVars
    <3>2. CASE \E m \in Mergers : MergeConfigs(m) \/ PersistEffectiveConfig(m)
      BY <3>2 DEF MergeConfigs, PersistEffectiveConfig, storeVars
    <3>3. CASE WatchConfig \/ UNCHANGED vars
      BY <3>3 DEF WatchConfig, vars, storeVars
    <3>4. CASE \E e \in Editors, edit \in Edits : PersistLimits(e, edit)
      BY <3>4 DEF PersistLimits, storeVars
    <3> QED
      BY <1>6, <3>1, <3>2, <3>3, <3>4, Zenon
  <2> QED
    BY <2>1
<1>7. ASSUME NEW e \in Editors, ApplyLimits(e) PROVE \E new \in SmallLimits : Reconfigure(new)
  <2>1. editor[e] \in SmallLimits
    BY <1>7 DEF ApplyLimits, CacheInv, ConfigInv
  <2> QED
    BY <1>7, <2>1, Zenon DEF ApplyLimits
<1>8. CASE WatcherReconfigures
  <2>1. watcher.config.ui \in SmallLimits
    BY <1>8, WatcherHolds DEF WatcherReconfigures
  <2>2. Reconfigure(watcher.config.ui)
    BY <1>8 DEF WatcherReconfigures
  <2> QED
    BY <2>1, <2>2, Zenon
<1> HIDE DEF Kept
<1> QED
  BY <1>1, <1>4, <1>5, <1>6, <1>7, <1>8, Zenon DEF Next, Watch, Configure, Kept

\* There are no more slots than the limits allow.
FewSlots == Cardinality(Open) <= limits["maxSlots"]

\* What the numbers of slots are.
LEMMA SlotNumbers ==
    ASSUME IsFiniteSet(Keys), CacheInv
    PROVE  /\ IsFiniteSet(Open) /\ Cardinality(Open) \in Nat
           /\ limits["maxSlots"] \in Nat \ {0}
<1>1. Open \in SUBSET Keys
  BY DEF Open
<1>2. limits["maxSlots"] \in Nat \ {0}
  BY DEF CacheInv, ConfigInv, FullLimits, Limits, Fields
<1>3. IsFiniteSet(Open)
  BY <1>1, FS_Subset
<1> QED
  BY <1>2, <1>3, FS_CardinalityType

\* The slots that evictions leave: as many as allowed, and all when there are no more.
LEMMA KeptNumbers ==
    ASSUME IsFiniteSet(Keys), CacheInv, NEW n \in Nat, NEW kept \in LeastRecentlyUsed(n)
    PROVE  /\ kept \subseteq Open /\ IsFiniteSet(kept)
           /\ Cardinality(kept) \in Nat /\ Cardinality(kept) <= n
           /\ Cardinality(Open) <= n => kept = Open
           /\ \A k \in kept, v \in Open \ kept : slots[k].age <= slots[v].age
<1>1. IsFiniteSet(Open) /\ Cardinality(Open) \in Nat
  BY SlotNumbers
<1>2. /\ kept \in SUBSET Open
      /\ Cardinality(kept) = IF Cardinality(Open) <= n THEN Cardinality(Open) ELSE n
      /\ \A k \in kept, v \in Open \ kept : slots[k].age <= slots[v].age
  BY Zenon DEF LeastRecentlyUsed
<1>3. /\ IsFiniteSet(kept)
      /\ Cardinality(Open) = Cardinality(kept) => Open = kept
  BY <1>1, <1>2, FS_Subset
<1> DEFINE a == Cardinality(Open)
           b == Cardinality(kept)
<1> HIDE DEF a, b
<1>4. a \in Nat /\ b = IF a <= n THEN a ELSE n
  BY <1>1, <1>2 DEF a, b
<1>5. b \in Nat /\ b <= n /\ (a <= n => a = b)
  BY <1>4
<1> QED
  BY <1>2, <1>3, <1>5 DEF a, b

\* A new slot, when it is not the one of k that is touched.
LEMMA NewSlotOpens ==
    ASSUME IsFiniteSet(Keys), CacheInv, NEW k \in Keys, slots[k] = nil, EnsureSlot(k)
    PROVE  /\ Cardinality(Open) - EvictedForOne \in Nat
           /\ \E kept \in LeastRecentlyUsed(Cardinality(Open) - EvictedForOne) :
                 slots' = [q \in Keys |-> IF q = k THEN NewSlot
                                          ELSE IF q \in kept THEN slots[q] ELSE nil]
<1>1. Cardinality(Open) \in Nat /\ limits["maxSlots"] \in Nat \ {0}
  BY SlotNumbers
<1> DEFINE a == Cardinality(Open)
           m == limits["maxSlots"]
<1>2. a - EvictedForOne \in Nat
  <2> HIDE DEF a, m
  <2>1. EvictedForOne = IF a >= m THEN 1 ELSE 0
    BY DEF EvictedForOne, a, m
  <2>2. a \in Nat /\ m \in Nat \ {0}
    BY <1>1 DEF a, m
  <2> QED
    BY <2>1, <2>2
<1>3. \E kept \in LeastRecentlyUsed(Cardinality(Open) - EvictedForOne) :
                 slots' = [q \in Keys |-> IF q = k THEN NewSlot
                                          ELSE IF q \in kept THEN slots[q] ELSE nil]
  BY Zenon DEF EnsureSlot, SetSlots
<1> QED
  BY <1>2, <1>3

\* New limits leave the slots they allow.
LEMMA ReconfigureKeeps ==
    ASSUME CacheInv, NEW new \in SmallLimits, Reconfigure(new)
    PROVE  /\ limits'["maxSlots"] \in Nat \ {0}
           /\ \E kept \in LeastRecentlyUsed(limits'["maxSlots"]) :
                 \A k \in Keys : slots'[k] # nil <=> k \in kept
<1>1. limits' \in FullLimits
  BY ReconfigureStore
<1>2. PICK kept \in LeastRecentlyUsed(limits'["maxSlots"]) :
          slots' = [k \in Keys |-> IF k \in kept THEN Resize(slots[k], limits'["slotMaxBytes"]) ELSE nil]
  BY Zenon DEF Reconfigure, SetSlots
<1>3. limits'["maxSlots"] \in Nat \ {0} /\ limits'["slotMaxBytes"] \in Nat \ {0}
  BY <1>1 DEF FullLimits, Limits, Fields
<1>4. ASSUME NEW k \in kept PROVE Resize(slots[k], limits'["slotMaxBytes"]) # nil
  <2>1. k \in Keys /\ slots[k] # nil
    BY DEF LeastRecentlyUsed, Open
  <2>2. slots[k] \in GoodSlots
    BY <2>1, SlotGood DEF CacheInv
  <2> QED
    BY <1>3, <2>2, ResizeGood, SmallTypes
<1>5. \A k \in Keys : slots'[k] # nil <=> k \in kept
  BY <1>2, <1>4
<1> QED
  BY <1>3, <1>5

\* No step opens more slots than the limits allow.
LEMMA FewStep ==
    ASSUME IsFiniteSet(Keys), CacheInv, FewSlots, [Next]_vars
    PROVE  FewSlots'
<1> DEFINE m == limits["maxSlots"]
           opened == {k \in Keys : slots'[k] # nil}
<1>0. /\ IsFiniteSet(Open) /\ Cardinality(Open) \in Nat /\ m \in Nat \ {0}
      /\ Cardinality(Open) <= m
      /\ Open' = opened
  BY SlotNumbers DEF FewSlots, Open
<1>1. ASSUME limits' = limits, opened \subseteq Open PROVE FewSlots'
  <2>1. Cardinality(opened) <= Cardinality(Open) /\ IsFiniteSet(opened)
    BY <1>0, <1>1, FS_Subset
  <2>2. Cardinality(opened) \in Nat
    BY <2>1, FS_CardinalityType
  <2>3. Cardinality(opened) <= m
    BY <1>0, <2>1, <2>2
  <2> QED
    BY <1>0, <1>1, <2>3 DEF FewSlots
<1>2. CASE limits' = limits /\ \A k \in Keys : slots'[k] = nil <=> slots[k] = nil
  BY <1>1, <1>2 DEF Open
<1>3. ASSUME limits' = limits, NEW k \in Keys, DisableSourceProfiling(k) PROVE FewSlots'
  <2>1. slots' = [slots EXCEPT ![k] = nil]
    BY <1>3 DEF DisableSourceProfiling, RemoveSlot, SetSlots
  <2> QED
    BY <1>1, <1>3, <2>1 DEF Open, CacheInv, StoreInv
<1>4. ASSUME limits' = limits, NEW k \in Keys, slots[k] = nil, EnsureSlot(k) PROVE FewSlots'
  <2> DEFINE n == Cardinality(Open) - EvictedForOne
  <2>1. n \in Nat
    BY <1>4, NewSlotOpens
  <2>2. PICK kept \in LeastRecentlyUsed(n) :
               slots' = [q \in Keys |-> IF q = k THEN NewSlot
                                        ELSE IF q \in kept THEN slots[q] ELSE nil]
    BY <1>4, NewSlotOpens, Zenon
  <2> HIDE DEF n
  <2>3. kept \subseteq Open /\ IsFiniteSet(kept) /\ Cardinality(kept) \in Nat /\ Cardinality(kept) <= n
    BY <2>1, KeptNumbers
  <2>4. k \notin kept /\ opened \subseteq kept \cup {k}
    BY <1>4, <2>2, <2>3 DEF Open
  <2>5. IsFiniteSet(kept \cup {k}) /\ Cardinality(kept \cup {k}) = Cardinality(kept) + 1
    BY <2>3, <2>4, FS_AddElement
  <2>6. IsFiniteSet(opened) /\ Cardinality(opened) <= Cardinality(kept) + 1
    BY <2>4, <2>5, FS_Subset
  <2>7. Cardinality(opened) \in Nat
    BY <2>6, FS_CardinalityType
  <2>8. n + 1 <= m
    <3> DEFINE a == Cardinality(Open)
    <3>1. n = a - EvictedForOne /\ EvictedForOne = IF a >= m THEN 1 ELSE 0
      BY DEF n, EvictedForOne
    <3> HIDE DEF a
    <3>2. a \in Nat /\ m \in Nat /\ a <= m
      BY <1>0 DEF a
    <3> QED
      BY <3>1, <3>2
  <2>9. Cardinality(opened) <= m
    BY <1>0, <2>1, <2>3, <2>6, <2>7, <2>8
  <2> QED
    BY <1>0, <1>4, <2>9 DEF FewSlots
<1>5. ASSUME NEW new \in SmallLimits, Reconfigure(new) PROVE FewSlots'
  <2> DEFINE n == limits'["maxSlots"]
  <2>1. n \in Nat \ {0}
    BY <1>5, ReconfigureKeeps
  <2>2. PICK kept \in LeastRecentlyUsed(n) : \A k \in Keys : slots'[k] # nil <=> k \in kept
    BY <1>5, ReconfigureKeeps
  <2>3. kept \subseteq Open /\ Cardinality(kept) <= n
    BY <2>1, KeptNumbers
  <2>4. opened = kept
    BY <2>2, <2>3 DEF Open
  <2> QED
    BY <1>0, <2>3, <2>4 DEF FewSlots
<1>6. CASE FinishSweep
  <2>1. limits' = limits /\ slots' =
           [k \in Keys |-> IF slots[k] # nil /\ slots[k].age > sweep THEN nil ELSE slots[k]]
    BY <1>6 DEF FinishSweep, SetSlots
  <2> QED
    BY <1>1, <2>1 DEF Open
<1>7. CASE WatcherClears
  <2>1. limits' = limits /\ slots' = [k \in Keys |-> nil]
    BY <1>7 DEF WatcherClears, ClearAllSlots, SetSlots
  <2> QED
    BY <1>1, <2>1 DEF Open
<1>8. CASE RestartFrontend
  <2>1. opened = {}
    BY <1>8 DEF RestartFrontend
  <2>2. limits' \in FullLimits
    BY <1>8, RestartStore DEF ConfigInv
  <2>3. limits'["maxSlots"] \in Nat
    BY <2>2 DEF FullLimits, Limits, Fields
  <2>4. Cardinality(opened) <= limits'["maxSlots"]
    BY <2>1, <2>3, FS_EmptySet
  <2> QED
    BY <1>0, <2>4 DEF FewSlots
<1> QED
  BY <1>2, <1>3, <1>4, <1>5, <1>6, <1>7, <1>8, OpenCases

\* The store is within the budget of the limits in force: at most maxSlots slots,
\* though every new slot evicts one at most, and at most slotMaxBytes bytes in
\* each of them, though a consumer adds to a buffer that it found before the
\* limits changed (store.go: "Total memory is bounded by maxSlots x slotMaxBytes").
THEOREM BudgetCorrect ==
    ASSUME IsFiniteSet(Keys)
    PROVE  Spec => []WithinBudget
<1>1. Init => FewSlots
  <2> SUFFICES ASSUME Init PROVE FewSlots
    OBVIOUS
  <2>1. Open = {}
    BY DEF Init, Open
  <2>2. limits["maxSlots"] \in Nat
    BY CacheInit DEF CacheInv, ConfigInv, FullLimits, Limits, Fields
  <2> QED
    BY <2>1, <2>2, FS_EmptySet DEF FewSlots
<1>2. CacheInv /\ FewSlots /\ [Next]_vars => FewSlots'
  BY FewStep
<1>3. CacheInv /\ FewSlots => WithinBudget
  <2> SUFFICES ASSUME CacheInv, FewSlots PROVE WithinBudget
    OBVIOUS
  <2>1. ASSUME NEW k \in Open PROVE Sum(slots[k].chunks) <= limits["slotMaxBytes"]
    <3>1. k \in Keys /\ slots[k] # nil
      BY DEF Open
    <3>2. slots[k] \in GoodSlots /\ slots[k].maxBytes = limits["slotMaxBytes"]
      BY <3>1, SlotGood DEF CacheInv
    <3> QED
      BY <3>2 DEF GoodSlots
  <2> QED
    BY <2>1 DEF WithinBudget, FewSlots
<1> QED
  BY <1>1, <1>2, <1>3, CacheCorrect, PTL DEF Spec

-----------------------------------------------------------------------------
(* Slots that are in use *)

\* A sweep in progress removes nothing that the TTL in force would keep.
SweepInv == sweep # nil => limits["ttlSeconds"] <= sweep

\* The configurations ask for one TTL at most, and for one that is not longer than
\* the default.
OneTTL(t) ==
    /\ t \in Nat /\ t <= DefaultLimits["ttlSeconds"]
    /\ \A l \in Asked \cup {HelmLimits, LocalLimits} :
          l["ttlSeconds"] = t \/ ~(l["ttlSeconds"] > 0)

\* The limits of the store have one of two TTLs: before and after the shorter one
\* is first in force.
LEMMA TTLFalls ==
    ASSUME NEW t, OneTTL(t),
           CacheInv, NEW new \in SmallLimits, Reconfigure(new)
    PROVE  limits'["ttlSeconds"] <= limits["ttlSeconds"]
<1> DEFINE d == DefaultLimits["ttlSeconds"]
           old == limits["ttlSeconds"]
           n == new["ttlSeconds"]
<1>1. d \in Nat \ {0}
  BY LimitsAssumption DEF Limits, Fields
<1>2. old \in AskedTTLs \cup {d} /\ old \in Nat \ {0}
  BY DEF CacheInv, ConfigInv, FullLimits, Limits, Fields
<1>3. n \in AskedTTLs /\ n \in Int
  BY DEF SmallLimits, PartialLimits, Fields
<1>4. \A x \in AskedTTLs : x = t \/ ~(x > 0)
  BY DEF AskedTTLs, OneTTL
<1>5. limits'["ttlSeconds"] = IF n > 0 THEN n ELSE old
  BY DEF Reconfigure, Overlay, Fields
<1>6. t <= d /\ t \in Nat
  BY DEF d, OneTTL
<1> HIDE DEF d, old, n
<1>7. (IF n > 0 THEN n ELSE old) <= old
  BY <1>1, <1>2, <1>3, <1>4, <1>6
<1> QED
  BY <1>5, <1>7 DEF old

\* No step raises the TTL above the cutoff of a sweep.
LEMMA SweepStep ==
    ASSUME NEW t, OneTTL(t), CacheInv, CacheInv', SweepInv, [Next]_vars
    PROVE  SweepInv'
<1>0. /\ limits["ttlSeconds"] \in Nat /\ limits'["ttlSeconds"] \in Nat
      /\ sweep \in Nat \cup {nil} /\ sweep' \in Nat \cup {nil} /\ nil \notin Nat
  <2>1. limits \in FullLimits /\ limits' \in FullLimits
    BY DEF CacheInv, ConfigInv
  <2>2. sweep \in (1 .. MaxAge) \cup {nil} /\ sweep' \in (1 .. MaxAge) \cup {nil}
    BY DEF CacheInv, ConfigInv
  <2>3. limits["ttlSeconds"] \in Nat /\ limits'["ttlSeconds"] \in Nat
    BY <2>1 DEF FullLimits, Limits, Fields
  <2> QED
    BY <2>2, <2>3, NilAssumption
<1>1. ASSUME sweep' = sweep, limits' = limits PROVE SweepInv'
  BY <1>1 DEF SweepInv
<1>2. ASSUME sweep' = sweep, NEW new \in SmallLimits, Reconfigure(new) PROVE SweepInv'
  <2>1. limits'["ttlSeconds"] <= limits["ttlSeconds"]
    BY <1>2, TTLFalls
  <2> QED
    BY <1>0, <1>2, <2>1 DEF SweepInv
<1>3. ASSUME NEW c \in Consumers, Consume(c) PROVE SweepInv'
  BY <1>1, <1>3 DEF Consume, ReceiveBatch, FindSlot, AddProfileData
<1>4. ASSUME NEW k \in Keys, Resolve(k) PROVE SweepInv'
  <2>1. UNCHANGED <<limits, configVars, gate, sweep, editor, watcher, used, hist>>
    BY <1>4, Zenon DEF Resolve, EnableSourceProfiling, DisableSourceProfiling,
       ClearSourceProfilingBuffer, GetProfileData
  <2> QED
    BY <1>1, <2>1
<1>5. ASSUME NEW e \in Editors, Configure(e) PROVE SweepInv'
  <2>1. ASSUME NEW edit \in Edits, PersistLimits(e, edit) PROVE SweepInv'
    BY <1>1, <2>1 DEF PersistLimits, storeVars
  <2>2. CASE ApplyLimits(e)
    <3>1. editor[e] \in SmallLimits
      BY <2>2 DEF ApplyLimits, CacheInv, ConfigInv
    <3>2. Reconfigure(editor[e]) /\ sweep' = sweep
      BY <2>2 DEF ApplyLimits
    <3> QED
      BY <1>2, <3>1, <3>2
  <2> QED
    BY <1>5, <2>1, <2>2 DEF Configure
<1>6. CASE StartSweep
  <2>1. sweep' = limits["ttlSeconds"] /\ limits' = limits
    BY <1>6 DEF StartSweep, storeVars
  <2> QED
    BY <1>0, <2>1 DEF SweepInv
<1>7. CASE FinishSweep \/ RestartFrontend
  BY <1>7 DEF FinishSweep, RestartFrontend, SweepInv
<1>8. CASE Tick
  BY <1>0, <1>8 DEF Tick, SweepInv
<1>9. CASE ToggleProfiling \/ ChangeDeployment \/ DeleteEffectiveConfig
  BY <1>1, <1>9 DEF ToggleProfiling, ChangeDeployment, DeleteEffectiveConfig, storeVars
<1>10. ASSUME NEW m \in Mergers, MergeConfigs(m) \/ PersistEffectiveConfig(m) PROVE SweepInv'
  BY <1>1, <1>10 DEF MergeConfigs, PersistEffectiveConfig, storeVars
<1>11. CASE WatchConfig \/ WatcherClears \/ UNCHANGED vars
  BY <1>1, <1>11 DEF WatchConfig, WatcherClears, vars, storeVars
<1>12. CASE WatcherReconfigures
  <2>1. watcher.config.ui \in SmallLimits
    BY <1>12, WatcherHolds DEF WatcherReconfigures
  <2>2. Reconfigure(watcher.config.ui) /\ sweep' = sweep
    BY <1>12 DEF WatcherReconfigures
  <2> QED
    BY <1>2, <2>1, <2>2
<1> QED
  BY <1>3, <1>4, <1>5, <1>6, <1>7, <1>8, <1>9, <1>10, <1>11, <1>12, Zenon DEF Next, Watch

\* What a step that loses a slot is.
LEMMA LossStep ==
    ASSUME IsFiniteSet(Keys), CacheInv, SweepInv, [Next]_vars
    PROVE  LossIsDue
<1> SUFFICES ASSUME NEW v \in Open, slots'[v] = nil, used' = used
             PROVE  \/ DisableSourceProfiling(v)
                    \/ watcher # nil /\ watcher.step = "clear"
                    \/ slots[v].age > limits["ttlSeconds"]
                    \/ /\ Cardinality(Open) >= limits'["maxSlots"]
                       /\ \A q \in Open : slots'[q] # nil => slots[q].age <= slots[v].age
  BY Zenon DEF LossIsDue
<1>0. v \in Keys /\ slots[v] # nil
  BY DEF Open
<1> DEFINE a == Cardinality(Open)
<1>n. a \in Nat /\ limits["maxSlots"] \in Nat
  BY SlotNumbers
<1>1. CASE limits' = limits /\ \A k \in Keys : slots'[k] = nil <=> slots[k] = nil
  BY <1>0, <1>1
<1>2. ASSUME NEW k \in Keys, DisableSourceProfiling(k) PROVE DisableSourceProfiling(v)
  <2>1. slots' = [slots EXCEPT ![k] = nil]
    BY <1>2 DEF DisableSourceProfiling, RemoveSlot, SetSlots
  <2>2. v = k
    BY <1>0, <2>1 DEF CacheInv, StoreInv
  <2> QED
    BY <1>2, <2>2
<1>3. ASSUME limits' = limits, NEW k \in Keys, slots[k] = nil, EnsureSlot(k)
      PROVE  /\ Cardinality(Open) >= limits'["maxSlots"]
             /\ \A q \in Open : slots'[q] # nil => slots[q].age <= slots[v].age
  <2> DEFINE n == a - EvictedForOne
  <2>1. n \in Nat
    BY <1>3, NewSlotOpens
  <2>2. PICK kept \in LeastRecentlyUsed(n) :
               slots' = [q \in Keys |-> IF q = k THEN NewSlot
                                        ELSE IF q \in kept THEN slots[q] ELSE nil]
    BY <1>3, NewSlotOpens, Zenon
  <2>3. n = a - EvictedForOne /\ EvictedForOne = IF a >= limits["maxSlots"] THEN 1 ELSE 0
    BY DEF n, EvictedForOne
  <2> HIDE DEF n, a
  <2>4. /\ a <= n => kept = Open
        /\ \A q \in kept, z \in Open \ kept : slots[q].age <= slots[z].age
    BY <2>1, KeptNumbers DEF a
  <2>5. v \notin kept /\ v # k
    BY <1>0, <1>3, <2>2
  <2>6. a >= limits["maxSlots"]
    BY <1>n, <2>3, <2>4, <2>5
  <2>7. \A q \in Open : slots'[q] # nil => q \in kept
    BY <1>3, <2>2 DEF Open
  <2> QED
    BY <1>3, <2>4, <2>5, <2>6, <2>7 DEF a
<1>4. ASSUME NEW new \in SmallLimits, Reconfigure(new)
      PROVE  /\ Cardinality(Open) >= limits'["maxSlots"]
             /\ \A q \in Open : slots'[q] # nil => slots[q].age <= slots[v].age
  <2> DEFINE n == limits'["maxSlots"]
  <2>1. n \in Nat
    BY <1>4, ReconfigureKeeps
  <2>2. PICK kept \in LeastRecentlyUsed(n) : \A k \in Keys : slots'[k] # nil <=> k \in kept
    BY <1>4, ReconfigureKeeps
  <2> HIDE DEF n, a
  <2>3. /\ a <= n => kept = Open
        /\ \A q \in kept, z \in Open \ kept : slots[q].age <= slots[z].age
    BY <2>1, KeptNumbers DEF a
  <2>4. v \notin kept
    BY <1>0, <2>2
  <2>5. a >= n
    BY <1>n, <2>1, <2>3, <2>4
  <2>6. \A q \in Open : slots'[q] # nil => q \in kept
    BY <2>2 DEF Open
  <2> QED
    BY <2>3, <2>4, <2>5, <2>6 DEF a, n
<1>5. CASE FinishSweep
  <2>1. sweep # nil /\ slots' =
           [k \in Keys |-> IF slots[k] # nil /\ slots[k].age > sweep THEN nil ELSE slots[k]]
    BY <1>5 DEF FinishSweep, SetSlots
  <2>2. slots[v].age > sweep
    BY <1>0, <2>1
  <2>3. slots[v].age \in Nat
    <3>1. slots[v] \in GoodSlots
      BY <1>0, SlotGood DEF CacheInv
    <3>2. slots[v].age \in 0 .. MaxAge
      BY <3>1 DEF GoodSlots, Slots
    <3> QED
      BY <3>2, LimitsAssumption
  <2>4. sweep \in Nat /\ limits["ttlSeconds"] \in Nat /\ limits["ttlSeconds"] <= sweep
    <3>1. sweep \in 1 .. MaxAge
      BY <2>1 DEF CacheInv, ConfigInv
    <3>2. limits["ttlSeconds"] \in Nat
      BY DEF CacheInv, ConfigInv, FullLimits, Limits, Fields
    <3> QED
      BY <2>1, <3>1, <3>2, LimitsAssumption DEF SweepInv
  <2>5. slots[v].age > limits["ttlSeconds"]
    BY <2>2, <2>3, <2>4
  <2> QED
    BY <2>5
<1>6. CASE WatcherClears
  BY <1>6 DEF WatcherClears
<1>7. CASE RestartFrontend
  <2>1. used' = used + 1 /\ used \in Nat
    BY <1>7 DEF RestartFrontend, Event, CacheInv, ConfigInv
  <2> QED
    BY <2>1
<1> QED
  BY <1>1, <1>2, <1>3, <1>4, <1>5, <1>6, <1>7, OpenCases

\* A slot that was requested within the TTL is lost to nothing but the user, a
\* full store or a restart.  The cutoff of a sweep is computed from the TTL before
\* SweepNow has the lock, so this is stated for a settings page that cannot raise
\* the TTL: a TTL raised in between would not save a slot from the older cutoff.
THEOREM KeptCorrect ==
    ASSUME IsFiniteSet(Keys), NEW t, OneTTL(t)
    PROVE  Spec => KeptWhileRequested
<1>1. Init => SweepInv
  BY DEF Init, SweepInv
<1>2. CacheInv /\ CacheInv' /\ SweepInv /\ [Next]_vars => SweepInv'
  BY SweepStep
<1>3. CacheInv /\ SweepInv /\ [Next]_vars => [LossIsDue]_vars
  BY LossStep
<1> QED
  BY <1>1, <1>2, <1>3, CacheCorrect, PTL DEF Spec, KeptWhileRequested

-----------------------------------------------------------------------------
(* Settings *)

\* The last version on the way to the watcher, or with it, is the effective one.
Latest ==
    /\ events # <<>> => Last(events) = effective
    /\ events = <<>> /\ watcher # nil => watcher.config = effective

\* Unless the controller has yet to look, what is merged and what is effective
\* are what the configurations ask for, but for the mishaps.
Merged ==
    \/ ConfigMerger \in dirty
    \/ /\ \A m \in Mergers : merging[m] # nil => m \in hist.behind \/ merging[m].ui = Settings
       /\ \/ effective = nil \/ hist.astray \/ effective.ui = Settings
          \/ merging[ConfigMerger] # nil

\* The settings page edits field f.
Edited(f) == \E e \in Editors : editor[e] # nil /\ editor[e][f] > 0

\* A limit that is asked for is in force, or on its way, but for the mishaps.
Delivered ==
    \A f \in Fields : effective # nil /\ Settings[f] > 0 =>
        \/ f \in hist.contested \/ limits[f] = Settings[f] \/ Edited(f)
        \/ effective.ui[f] # Settings[f] \/ events # <<>> \/ watcher # nil

\* The steps that matter for the settings.
LEMMA SettingsCases ==
    ASSUME [Next]_vars
    PROVE  \/ UNCHANGED <<limits, configVars, editor, watcher, hist>>
           \/ \E e \in Editors : Configure(e)
           \/ ToggleProfiling \/ ChangeDeployment \/ DeleteEffectiveConfig \/ RestartFrontend
           \/ \E m \in Mergers : MergeConfigs(m) \/ PersistEffectiveConfig(m)
           \/ Watch
<1> DEFINE Same == UNCHANGED <<limits, configVars, editor, watcher, hist>>
<1>1. ASSUME NEW c \in Consumers, Consume(c) PROVE Same
  BY <1>1 DEF Consume, ReceiveBatch, FindSlot, AddProfileData
<1>2. ASSUME NEW k \in Keys, Resolve(k) PROVE Same
  <2>1. UNCHANGED <<limits, configVars, gate, sweep, editor, watcher, used, hist>>
    BY <1>2, Zenon DEF Resolve, EnableSourceProfiling, DisableSourceProfiling,
       ClearSourceProfilingBuffer, GetProfileData
  <2> QED
    BY <2>1
<1>3. CASE StartSweep \/ FinishSweep \/ Tick
  BY <1>3 DEF StartSweep, FinishSweep, Tick, storeVars
<1>4. CASE UNCHANGED vars
  BY <1>4 DEF vars, storeVars
<1> QED
  BY <1>1, <1>2, <1>3, <1>4, Zenon DEF Next

\* What is appended is last, and what is left keeps its last element.
LEMMA LastFacts ==
    ASSUME NEW S, NEW s \in Seq(S), NEW c \in S
    PROVE  /\ Append(s, c) # <<>> /\ Last(Append(s, c)) = c
           /\ <<c>> # <<>> /\ Last(<<c>>) = c
           /\ s # <<>> /\ Tail(s) # <<>> => Last(Tail(s)) = Last(s)
           /\ s # <<>> /\ Tail(s) = <<>> => Head(s) = Last(s)
<1>1. Append(s, c) # <<>> /\ Last(Append(s, c)) = c
  BY DEF Last
<1>2. <<c>> # <<>> /\ Last(<<c>>) = c
  BY DEF Last
<1>3. ASSUME s # <<>>, Tail(s) # <<>> PROVE Last(Tail(s)) = Last(s)
  <2>1. Len(s) \in Nat /\ Len(Tail(s)) = Len(s) - 1 /\ Len(s) > 1
    BY <1>3
  <2>2. Tail(s)[Len(s) - 1] = s[Len(s)]
    BY <1>3, <2>1
  <2> QED
    BY <2>1, <2>2 DEF Last
<1>4. ASSUME s # <<>>, Tail(s) = <<>> PROVE Head(s) = Last(s)
  <2>1. Len(s) = 1
    <3>1. Len(s) \in Nat /\ Len(Tail(s)) = Len(s) - 1
      BY <1>4
    <3>2. Len(<<>>) = 0
      OBVIOUS
    <3>3. Len(Tail(s)) = 0
      BY <1>4, <3>2, Zenon
    <3> QED
      BY <3>1, <3>3
  <2> QED
    BY <1>4, <2>1 DEF Last
<1> QED
  BY <1>1, <1>2, <1>3, <1>4

\* What the configurations ask for changes with the remote one, field by field.
LEMMA SettingsFollow ==
    /\ remote' = remote => Settings' = Settings
    /\ \A f \in Fields : remote'[f] = remote[f] => Settings'[f] = Settings[f]
<1>1. \A f \in Fields : /\ Settings[f] = IF LocalLimits[f] # 0 THEN LocalLimits[f]
                                        ELSE IF remote[f] # 0 THEN remote[f] ELSE HelmLimits[f]
                        /\ Settings'[f] = IF LocalLimits[f] # 0 THEN LocalLimits[f]
                                          ELSE IF remote'[f] # 0 THEN remote'[f] ELSE HelmLimits[f]
  BY DEF Settings, MergedUi, MergeUi
<1>2. remote' = remote => Settings' = Settings
  BY DEF Settings
<1> QED
  BY <1>1, <1>2

\* What is noted of one mishap leaves the others alone.
LEMMA MishapFields ==
    ASSUME CacheInv, NEW C, NEW B, NEW a
    PROVE  /\ hist' = [hist EXCEPT !.contested = C] =>
                 hist'.contested = C /\ hist'.behind = hist.behind /\ hist'.astray = hist.astray
           /\ hist' = [hist EXCEPT !.behind = B] =>
                 hist'.behind = B /\ hist'.astray = hist.astray /\ hist'.contested = hist.contested
           /\ hist' = [hist EXCEPT !.astray = a] =>
                 hist'.astray = a /\ hist'.behind = hist.behind /\ hist'.contested = hist.contested
           /\ hist' = [hist EXCEPT !.behind = B, !.astray = a] =>
                 hist'.behind = B /\ hist'.astray = a /\ hist'.contested = hist.contested
<1> DEFINE h == hist
<1>1. h \in Mishaps
  BY DEF CacheInv, ConfigInv
<1> HIDE DEF h
<1>2. /\ [h EXCEPT !.contested = C].contested = C
      /\ [h EXCEPT !.contested = C].behind = h.behind
      /\ [h EXCEPT !.contested = C].astray = h.astray
      /\ [h EXCEPT !.behind = B].behind = B
      /\ [h EXCEPT !.behind = B].astray = h.astray
      /\ [h EXCEPT !.behind = B].contested = h.contested
      /\ [h EXCEPT !.astray = a].astray = a
      /\ [h EXCEPT !.astray = a].behind = h.behind
      /\ [h EXCEPT !.astray = a].contested = h.contested
      /\ [h EXCEPT !.behind = B, !.astray = a].behind = B
      /\ [h EXCEPT !.behind = B, !.astray = a].astray = a
      /\ [h EXCEPT !.behind = B, !.astray = a].contested = h.contested
  BY <1>1 DEF Mishaps
<1> QED
  BY <1>2, Zenon DEF h

\* The informer delivers the effective configuration last.
LEMMA LatestStep ==
    ASSUME CacheInv, Latest, [Next]_vars
    PROVE  Latest'
<1> DEFINE A == SmallConfigs \cup {nil}
<1>0. events \in Seq(A) /\ effective \in A
  BY DEF CacheInv, ConfigInv
<1>1. ASSUME NEW c \in A, SetEffective(c), watcher' = watcher PROVE Latest'
  <2> HIDE DEF A
  <2>1. Append(events, c) # <<>> /\ Last(Append(events, c)) = c
    BY <1>0, LastFacts
  <2>2. CASE c = effective
    BY <1>1, <2>2 DEF SetEffective, Latest
  <2>3. CASE c # effective
    BY <1>1, <2>1, <2>3 DEF SetEffective, Latest
  <2> QED
    BY <2>2, <2>3
<1>2. CASE UNCHANGED <<limits, configVars, editor, watcher, hist>>
  BY <1>2 DEF configVars, Latest
<1>3. ASSUME NEW e \in Editors, Configure(e) PROVE Latest'
  BY <1>3 DEF Configure, PersistLimits, ApplyLimits, configVars, Latest
<1>4. ASSUME \/ ToggleProfiling \/ ChangeDeployment \/ \E m \in Mergers : MergeConfigs(m)
      PROVE  Latest'
  BY <1>4 DEF ToggleProfiling, ChangeDeployment, MergeConfigs, Latest
<1>5. CASE DeleteEffectiveConfig
  BY <1>1, <1>5 DEF DeleteEffectiveConfig
<1>6. ASSUME NEW m \in Mergers, PersistEffectiveConfig(m) PROVE Latest'
  <2>1. merging[m] \in A
    BY DEF CacheInv, ConfigInv
  <2> QED
    BY <1>1, <1>6, <2>1 DEF PersistEffectiveConfig
<1>7. CASE RestartFrontend
  <2> HIDE DEF A
  <2>1. <<effective>> # <<>> /\ Last(<<effective>>) = effective
    BY <1>0, LastFacts
  <2> QED
    BY <1>7, <2>1 DEF RestartFrontend, Latest
<1>8. CASE WatchConfig
  <2> DEFINE c == Head(events)
  <2>1. /\ events # <<>> /\ events' = Tail(events) /\ effective' = effective
        /\ \/ watcher' = nil
           \/ watcher' = [config |-> c, step |-> "clear"]
           \/ watcher' = [config |-> c, step |-> "reconfigure"]
    BY <1>8, Zenon DEF WatchConfig
  <2>2. Last(events) = effective
    BY <2>1 DEF Latest
  <2>3. watcher' # nil => watcher'.config = c
    <3> HIDE DEF c
    <3> QED
      BY <2>1
  <2>4. /\ Tail(events) # <<>> => Last(Tail(events)) = Last(events)
        /\ Tail(events) = <<>> => c = Last(events)
    <3> HIDE DEF A
    <3> QED
      BY <1>0, <2>1, LastFacts
  <2> QED
    BY <2>1, <2>2, <2>3, <2>4 DEF Latest
<1>9. CASE WatcherClears
  <2>1. watcher \in SmallSteps
    BY <1>9, WatcherHolds DEF WatcherClears
  <2>2. watcher' # nil => watcher'.config = watcher.config
    BY <1>9, <2>1 DEF WatcherClears, SmallSteps
  <2> QED
    BY <1>9, <2>2 DEF WatcherClears, configVars, Latest
<1>10. CASE WatcherReconfigures
  BY <1>10 DEF WatcherReconfigures, configVars, Latest
<1> QED
  BY <1>2, <1>3, <1>4, <1>5, <1>6, <1>7, <1>8, <1>9, <1>10, SettingsCases DEF Watch

\* Whenever the remote configuration changes, the controller looks again, and
\* whatever is merged before that is behind.
LEMMA MergedStep ==
    ASSUME CacheInv, Merged, [Next]_vars
    PROVE  Merged'
<1> DEFINE m == ConfigMerger
<1>0. m \in Mergers /\ merging \in [Mergers -> SmallConfigs \cup {nil}]
  BY MergersAssumption DEF CacheInv, ConfigInv
<1>1. ASSUME UNCHANGED <<remote, merging, effective>>, dirty \subseteq dirty',
             hist'.behind = hist.behind, hist'.astray = hist.astray
      PROVE  Merged'
  BY <1>1, SettingsFollow DEF Merged
<1>2. CASE UNCHANGED <<limits, configVars, editor, watcher, hist>>
  BY <1>1, <1>2 DEF configVars
<1>3. ASSUME NEW e \in Editors, Configure(e) PROVE Merged'
  <2>1. ASSUME NEW edit \in Edits, PersistLimits(e, edit) PROVE Merged'
    <3>1. /\ UNCHANGED <<merging, effective>>
          /\ hist'.behind = hist.behind /\ hist'.astray = hist.astray
      BY <2>1, MishapFields DEF PersistLimits
    <3>2. CASE remote' = remote
      BY <1>1, <2>1, <3>1, <3>2 DEF PersistLimits
    <3>3. CASE remote' # remote
      <4>1. m \in dirty'
        BY <2>1, <3>3 DEF PersistLimits
      <4> QED
        BY <4>1 DEF Merged
    <3> QED
      BY <3>2, <3>3
  <2>2. CASE ApplyLimits(e)
    <3>1. hist'.behind = hist.behind /\ hist'.astray = hist.astray
      BY <2>2, MishapFields DEF ApplyLimits
    <3> QED
      BY <1>1, <2>2, <3>1 DEF ApplyLimits, configVars
  <2> QED
    BY <1>3, <2>1, <2>2 DEF Configure
<1>4. CASE ToggleProfiling
  BY <1>4 DEF ToggleProfiling, Merged
<1>5. CASE ChangeDeployment
  BY <1>1, <1>5 DEF ChangeDeployment
<1>6. CASE DeleteEffectiveConfig
  <2>1. effective' = nil /\ UNCHANGED <<remote, merging, dirty, hist>>
    BY <1>6 DEF DeleteEffectiveConfig, SetEffective
  <2> QED
    BY <2>1, SettingsFollow DEF Merged
<1>7. CASE RestartFrontend
  <2>1. hist'.behind = hist.behind /\ hist'.astray = hist.astray
    BY <1>7, MishapFields DEF RestartFrontend
  <2> QED
    BY <1>1, <1>7, <2>1 DEF RestartFrontend
<1>8. ASSUME NEW d \in Mergers, MergeConfigs(d) PROVE Merged'
  <2>0. /\ UNCHANGED <<remote, effective>> /\ dirty' = dirty \ {d} /\ d \in dirty
        /\ merging[d] = nil /\ Settings' = Settings
    BY <1>8, SettingsFollow DEF MergeConfigs
  <2>1. ASSUME NEW b \in Mergers, b # d, merging'[b] = merging[b], merging[b] # nil,
               Older \ {d} \subseteq hist'.behind
        PROVE  b \in hist'.behind \/ merging'[b].ui = Settings'
    BY <2>0, <2>1 DEF Older
  <2>2. ASSUME NEW u, u \in SmallLimits,
               merging' = [merging EXCEPT ![d] = [enabled |-> enabled, ui |-> u]],
               u = Settings \/ d \in hist'.behind,
               Older \ {d} \subseteq hist'.behind, hist'.astray = hist.astray,
               hist.behind \ {d} \subseteq hist'.behind
        PROVE  Merged'
    <3> DEFINE c == [enabled |-> enabled, ui |-> u]
    <3>1. c \in SmallConfigs /\ c.ui = u
      BY <2>2 DEF CacheInv, ConfigInv, SmallConfigs
    <3> HIDE DEF c
    <3>2. c # nil
      BY <3>1, SmallTypes
    <3>3. merging'[d] = c /\ \A b \in Mergers : b # d => merging'[b] = merging[b]
      BY <1>0, <2>2 DEF c
    <3>4. \A b \in Mergers : merging'[b] # nil => b \in hist'.behind \/ merging'[b].ui = Settings'
      BY <2>0, <2>1, <2>2, <3>1, <3>3
    <3>5. CASE d = m
      BY <3>2, <3>3, <3>4, <3>5 DEF Merged
    <3>6. CASE d # m
      BY <1>0, <2>0, <2>2, <3>3, <3>4, <3>6 DEF Merged
    <3> QED
      BY <3>5, <3>6
  <2>3. CASE Merge(d, remote, LocalLimits) /\ hist' = [hist EXCEPT !.behind = (@ \cup Older) \ {d}]
    <3>1. hist'.behind = (hist.behind \cup Older) \ {d} /\ hist'.astray = hist.astray
      BY <2>3, MishapFields
    <3>2. Settings \in SmallLimits
      BY GivenLimits, MergedUiType DEF Settings, CacheInv, ConfigInv
    <3>3. merging' = [merging EXCEPT ![d] = [enabled |-> enabled, ui |-> Settings]]
      BY <2>3 DEF Merge, Settings
    <3> QED
      BY <2>2, <3>1, <3>2, <3>3
  <2>4. ASSUME NEW rem \in {remote, NoLimits}, NEW local \in {LocalLimits, NoLimits},
               Merge(d, rem, local), hist' = [hist EXCEPT !.behind = @ \cup Older \cup {d}]
        PROVE  Merged'
    <3> DEFINE u == MergedUi(rem, local)
    <3>1. hist'.behind = hist.behind \cup Older \cup {d} /\ hist'.astray = hist.astray
      BY <2>4, MishapFields
    <3>2. u \in SmallLimits
      BY GivenLimits, MergedUiType DEF CacheInv, ConfigInv
    <3>3. merging' = [merging EXCEPT ![d] = [enabled |-> enabled, ui |-> u]]
      BY <2>4 DEF Merge
    <3> HIDE DEF u
    <3> QED
      BY <2>2, <3>1, <3>2, <3>3
  <2>5. CASE UNCHANGED merging /\ hist' = [hist EXCEPT !.behind = @ \cup Older, !.astray = TRUE]
    <3>1. hist'.behind = hist.behind \cup Older /\ hist'.astray = TRUE
      BY <2>5, MishapFields
    <3>2. \A b \in Mergers : merging'[b] # nil => b \in hist'.behind \/ merging'[b].ui = Settings'
      BY <2>0, <2>1, <2>5, <3>1
    <3> QED
      BY <3>1, <3>2 DEF Merged
  <2> QED
    BY <1>8, <2>3, <2>4, <2>5, Zenon DEF MergeConfigs
<1>9. ASSUME NEW d \in Mergers, PersistEffectiveConfig(d) PROVE Merged'
  <2>1. /\ effective' = merging[d] /\ merging[d] # nil /\ merging'[d] = nil
        /\ \A b \in Mergers : b # d => merging'[b] = merging[b]
        /\ UNCHANGED <<remote, dirty>> /\ Settings' = Settings
    BY <1>0, <1>9, SettingsFollow DEF PersistEffectiveConfig, SetEffective
  <2>2. hist'.behind = hist.behind /\ hist'.astray = (d \in hist.behind)
    BY <1>9, MishapFields DEF PersistEffectiveConfig
  <2> QED
    BY <2>1, <2>2 DEF Merged
<1>10. CASE WatchConfig \/ WatcherClears
  BY <1>1, <1>10 DEF WatchConfig, WatcherClears, configVars
<1>11. CASE WatcherReconfigures
  <2>1. hist'.behind = hist.behind /\ hist'.astray = hist.astray
    BY <1>11, MishapFields DEF WatcherReconfigures
  <2> QED
    BY <1>1, <1>11, <2>1 DEF WatcherReconfigures, configVars
<1> QED
  BY <1>2, <1>3, <1>4, <1>5, <1>6, <1>7, <1>8, <1>9, <1>10, <1>11, SettingsCases DEF Watch

\* What is asked for stays on its way until it is in force.
LEMMA DeliveredStep ==
    ASSUME CacheInv, Latest, Delivered, [Next]_vars
    PROVE  Delivered'
<1>0. editor \in [Editors -> SmallLimits \cup {nil}]
  BY DEF CacheInv, ConfigInv
<1>1. ASSUME events' # <<>> \/ watcher' # nil \/ effective' = nil PROVE Delivered'
  BY <1>1 DEF Delivered
<1>2. ASSUME UNCHANGED <<limits, remote, editor, effective, events, watcher>>,
             hist'.contested = hist.contested
      PROVE  Delivered'
  BY <1>2, SettingsFollow DEF Delivered, Edited
<1>3. ASSUME NEW e \in Editors, Configure(e) PROVE Delivered'
  <2> SUFFICES ASSUME NEW f \in Fields, effective' # nil, Settings'[f] > 0, events' = <<>>,
                      watcher' = nil, effective'.ui[f] = Settings'[f], ~Edited(f)',
                      f \notin hist'.contested
               PROVE  limits'[f] = Settings'[f]
    BY Zenon DEF Delivered
  <2>1. ASSUME NEW edit \in Edits, PersistLimits(e, edit) PROVE limits'[f] = Settings'[f]
    <3>1. editor'[e] = edit.ui /\ edit.ui # nil /\ edit.ui \in SmallLimits
      BY <1>0, <2>1, WrittenType, SmallTypes DEF PersistLimits
    <3>2. ~(edit.ui[f] > 0)
      BY <3>1 DEF Edited
    <3>h. hist'.contested = hist.contested \cup TakenBack(edit)
      BY <2>1, MishapFields DEF PersistLimits
    <3>3. f \notin edit.supplied
      BY <3>2, <3>h DEF TakenBack
    <3>4. remote'[f] = remote[f] /\ UNCHANGED <<limits, effective, events, watcher>>
      BY <2>1, <3>3 DEF PersistLimits, Written, storeVars
    <3>5. ~Edited(f)
      <4>1. editor[e] = nil /\ \A d \in Editors : d # e => editor'[d] = editor[d]
        BY <1>0, <2>1 DEF PersistLimits
      <4> QED
        BY <4>1 DEF Edited
    <3> QED
      BY <3>h, <3>4, <3>5, SettingsFollow DEF Delivered
  <2>2. CASE ApplyLimits(e)
    <3> DEFINE new == editor[e]
    <3>1. /\ new # nil /\ limits' = Overlay(limits, new)
          /\ UNCHANGED <<remote, effective, events, watcher>>
          /\ \A d \in Editors : d # e => editor'[d] = editor[d]
      BY <1>0, <2>2 DEF ApplyLimits, Reconfigure, configVars
    <3>h. hist'.contested = (hist.contested \ SetBy(new)) \cup Overtaken(new)
      BY <2>2, MishapFields DEF ApplyLimits
    <3>s. Settings' = Settings
      BY <3>1, SettingsFollow
    <3>2. limits'[f] = IF new[f] > 0 THEN new[f] ELSE limits[f]
      BY <3>1 DEF Overlay
    <3>3. CASE new[f] > 0
      <4>1. new[f] = Settings[f]
        BY <3>h, <3>3 DEF SetBy, Overtaken
      <4> QED
        BY <3>2, <3>3, <3>s, <4>1
    <3>4. CASE ~(new[f] > 0)
      <4>1. ~Edited(f)
        BY <3>1, <3>4 DEF Edited
      <4>2. f \notin hist.contested
        BY <3>h, <3>4 DEF SetBy
      <4> QED
        BY <3>1, <3>2, <3>4, <3>s, <4>1, <4>2 DEF Delivered
    <3> QED
      BY <3>3, <3>4
  <2> QED
    BY <1>3, <2>1, <2>2 DEF Configure
<1>4. CASE \/ UNCHANGED <<limits, configVars, editor, watcher, hist>>
           \/ ToggleProfiling \/ ChangeDeployment
  BY <1>2, <1>4 DEF configVars, ToggleProfiling, ChangeDeployment, storeVars
<1>5. ASSUME NEW m \in Mergers, MergeConfigs(m) PROVE Delivered'
  <2>1. hist'.contested = hist.contested
    BY <1>5, MishapFields DEF MergeConfigs
  <2> QED
    BY <1>2, <1>5, <2>1 DEF MergeConfigs, storeVars
<1>6. CASE DeleteEffectiveConfig
  BY <1>1, <1>6 DEF DeleteEffectiveConfig, SetEffective
<1>7. ASSUME NEW m \in Mergers, PersistEffectiveConfig(m) PROVE Delivered'
  <2> DEFINE c == merging[m]
  <2>1. /\ SetEffective(c) /\ UNCHANGED <<limits, remote, editor, watcher>>
        /\ c \in SmallConfigs \cup {nil} /\ events \in Seq(SmallConfigs \cup {nil})
    BY <1>7 DEF PersistEffectiveConfig, storeVars, CacheInv, ConfigInv
  <2>h. hist'.contested = hist.contested
    BY <1>7, MishapFields DEF PersistEffectiveConfig
  <2> HIDE DEF c
  <2>2. CASE c = effective
    BY <1>2, <2>1, <2>h, <2>2 DEF SetEffective
  <2>3. CASE c # effective
    <3>1. Append(events, c) # <<>>
      BY <2>1, LastFacts
    <3>2. events' # <<>>
      BY <2>1, <2>3, <3>1 DEF SetEffective
    <3> QED
      BY <1>1, <3>2
  <2> QED
    BY <2>2, <2>3
<1>8. CASE RestartFrontend
  <2>1. effective' = effective /\ (effective # nil => events' = <<effective>>)
    BY <1>8 DEF RestartFrontend
  <2>2. <<effective>> # <<>>
    OBVIOUS
  <2> QED
    BY <1>1, <2>1, <2>2
<1>9. CASE WatchConfig
  <2> DEFINE c == Head(events)
  <2>1. /\ events # <<>> /\ events' = Tail(events) /\ effective' = effective
        /\ watcher' = nil => c = nil
    <3> DEFINE a == [config |-> c, step |-> "clear"]
               b == [config |-> c, step |-> "reconfigure"]
    <3>1. /\ events # <<>> /\ events' = Tail(events) /\ effective' = effective
          /\ watcher' = nil \/ watcher' = a \/ watcher' = b
          /\ c # nil => watcher' = a \/ watcher' = b
      BY <1>9, Zenon DEF WatchConfig
    <3>2. c \in SmallConfigs \cup {nil}
      <4> DEFINE A == SmallConfigs \cup {nil}
      <4>1. events \in Seq(A)
        BY DEF CacheInv, ConfigInv
      <4> HIDE DEF A
      <4>2. c \in A
        BY <3>1, <4>1
      <4> QED
        BY <4>2 DEF A
    <3> HIDE DEF c
    <3>3. a \in SmallSteps /\ b \in SmallSteps
      BY <3>2 DEF SmallSteps
    <3> HIDE DEF a, b
    <3> QED
      BY <3>1, <3>3, SmallTypes
  <2>2. Last(events) = effective
    BY <2>1 DEF Latest
  <2>3. Tail(events) = <<>> => c = Last(events)
    <3> DEFINE A == SmallConfigs \cup {nil}
    <3>1. events \in Seq(A) /\ effective \in A
      BY DEF CacheInv, ConfigInv
    <3> HIDE DEF A
    <3> QED
      BY <2>1, <3>1, LastFacts
  <2> HIDE DEF c
  <2> QED
    BY <1>1, <2>1, <2>2, <2>3, Zenon
<1>10. CASE WatcherClears
  <2>1. watcher # nil /\ watcher.config = nil => events # <<>> \/ effective = nil
    BY DEF Latest
  <2>2. /\ watcher \in SmallSteps /\ events' = events /\ effective' = effective
    BY <1>10, WatcherHolds DEF WatcherClears, configVars
  <2>3. CASE watcher.config = nil
    BY <1>1, <1>10, <2>1, <2>2, <2>3 DEF WatcherClears
  <2>4. CASE watcher.config # nil
    <3> DEFINE w == watcher
               x == [w EXCEPT !.step = "reconfigure"]
    <3>1. watcher' = x /\ w \in SmallSteps
      BY <1>10, <2>2, <2>4 DEF WatcherClears
    <3> HIDE DEF w
    <3>2. x \in SmallSteps
      BY <3>1 DEF SmallSteps
    <3> HIDE DEF x
    <3>3. watcher' # nil
      BY <3>1, <3>2, SmallTypes
    <3> QED
      BY <1>1, <3>3
  <2> QED
    BY <2>3, <2>4
<1>11. CASE WatcherReconfigures
  <2> DEFINE u == watcher.config.ui
  <2>1. /\ watcher # nil /\ limits' = Overlay(limits, u)
        /\ UNCHANGED <<remote, effective, events, editor>>
        /\ Settings' = Settings
    BY <1>11, SettingsFollow DEF WatcherReconfigures, Reconfigure, configVars
  <2>2. CASE events # <<>>
    BY <1>1, <2>1, <2>2
  <2>3. CASE events = <<>>
    <3>1. watcher.config = effective
      BY <2>1, <2>3 DEF Latest
    <3>2. ASSUME NEW f \in Fields, Settings'[f] > 0, effective'.ui[f] = Settings'[f]
          PROVE  limits'[f] = Settings'[f]
      BY <2>1, <3>1, <3>2 DEF Overlay
    <3> QED
      BY <3>2, Zenon DEF Delivered
  <2> QED
    BY <2>2, <2>3
<1> QED
  BY <1>3, <1>4, <1>5, <1>6, <1>7, <1>8, <1>9, <1>10, <1>11, SettingsCases DEF Watch

\* Limits that the configurations ask for are in force or on their way, whatever
\* the number of editors and of controllers that merge: neither a restart, nor a
\* version that the watcher applies late, nor an edit that meets a merge loses
\* them (ConfigureProfilingCache, Reconcile and the watcher's handler in any
\* order).  The only ways to lose one are the mishaps that SettingsArePending names.
THEOREM SettingsCorrect == Spec => []SettingsArePending
<1> DEFINE Inv == Latest /\ Merged /\ Delivered
<1>1. Init => Inv
  <2> SUFFICES ASSUME Init PROVE Inv
    OBVIOUS
  <2> DEFINE u == MergedUi(NoLimits, LocalLimits)
  <2>1. /\ Settings = u /\ effective.ui = u /\ limits = Overlay(DefaultLimits, u)
        /\ events = <<>> /\ watcher = nil /\ \A m \in Mergers : merging[m] = nil
    BY DEF Init, Settings
  <2> HIDE DEF u
  <2>2. Latest /\ Merged
    BY <2>1 DEF Latest, Merged
  <2>3. \A f \in Fields : Settings[f] > 0 => limits[f] = Settings[f]
    BY <2>1 DEF Overlay
  <2> QED
    BY <2>2, <2>3 DEF Delivered
<1>2. CacheInv /\ Inv /\ [Next]_vars => Inv'
  BY LatestStep, MergedStep, DeliveredStep
<1>3. CacheInv /\ Inv => SettingsArePending
  <2> SUFFICES ASSUME CacheInv, Inv, effective # nil, ~hist.astray, dirty = {}, events = <<>>,
                      watcher = nil, \A m \in Mergers : merging[m] = nil,
                      \A e \in Editors : editor[e] = nil,
                      NEW f \in Fields, f \notin hist.contested, Settings[f] > 0
               PROVE  limits[f] = Settings[f]
    BY Zenon DEF SettingsArePending, Reported, InForce
  <2>1. effective.ui = Settings
    BY MergersAssumption DEF Merged
  <2>2. ~Edited(f)
    BY DEF Edited
  <2> QED
    BY <2>1, <2>2 DEF Delivered
<1> HIDE DEF Inv
<1> QED
  BY <1>1, <1>2, <1>3, CacheCorrect, PTL DEF Spec

=============================================================================
