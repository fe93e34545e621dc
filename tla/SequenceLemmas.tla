---------------------------- MODULE SequenceLemmas ----------------------------
(***************************************************************************)
(* Facts about numbers and sequences that the proofs of several modules    *)
(* need: recursions and folds define functions, and what a part of a       *)
(* sequence is when sequences are joined.                                  *)
(***************************************************************************)
EXTENDS Integers, SequencesExt, FiniteSetTheorems, SequenceTheorems, WellFoundedInduction, TLAPS

-----------------------------------------------------------------------------
(* Induction on numbers, as the least counterexample. *)

\* A set of natural numbers that has members has a least one.
LEMMA LeastNat ==
    ASSUME NEW T \in SUBSET Nat, T # {}
    PROVE  \E x \in T : \A y \in T : x <= y
<1>. DEFINE R == OpToRel(<, Nat)
<1>1. IsWellFoundedOn(R, Nat)
  BY NatLessThanWellFounded
<1>2. \A y, x \in Nat : <<y, x>> \in R <=> y < x
  BY Zenon DEF OpToRel
<1>. HIDE DEF R
<1>3. \E x \in T : \A y \in T : ~ (<<y, x>> \in R)
  BY <1>1, WFMin
<1>4. \E x \in T : \A y \in T : ~ (y < x)
  BY <1>2, <1>3, Zenon
<1>. QED
  BY <1>4

\* Positions have a first one.
LEMMA MinIsPosition ==
    ASSUME NEW s \in SUBSET Nat, s # {}
    PROVE  Min(s) \in s /\ \A y \in s : Min(s) <= y
  BY LeastNat DEF Min

\* A set that has 0, and k + 1 with k below n, has all numbers up to n.
LEMMA Upwards ==
    ASSUME NEW n \in Nat, NEW T, 0 \in T, \A k \in 0 .. n - 1 : k \in T => k + 1 \in T
    PROVE  \A k \in 0 .. n : k \in T
<1>. SUFFICES ASSUME \E k \in 0 .. n : k \notin T PROVE FALSE
  OBVIOUS
<1>. DEFINE missing == {k \in 0 .. n : k \notin T}
<1>1. missing \in SUBSET Nat /\ missing # {}
  OBVIOUS
<1>. HIDE DEF missing
<1>2. PICK k \in missing : \A j \in missing : k <= j
  BY <1>1, LeastNat
<1>3. k \in 0 .. n /\ k \notin T /\ k # 0
  BY DEF missing
<1>4. k - 1 \in 0 .. n - 1 /\ k - 1 \in 0 .. n /\ ~ (k <= k - 1) /\ (k - 1) + 1 = k
  BY <1>3
<1>5. k - 1 \in T
  BY <1>2, <1>4 DEF missing
<1>. QED
  BY <1>3, <1>4, <1>5

\* f begins with base, and goes from one number to the next by g.
IsRecursion(f, n, base, g) == f[0] = base /\ \A i \in 1 .. n : f[i] = g[<<f[i - 1], i>>]

\* Such a function exists.
LEMMA RecursionExists ==
    ASSUME NEW n \in Nat, NEW A, NEW base \in A, NEW g \in [A \X (1 .. n) -> A]
    PROVE  \E f \in [0 .. n -> A] : IsRecursion(f, n, base, g)
<1>. USE DEF IsRecursion
<1>. DEFINE Is(f, m) == f[0] = base /\ \A i \in 1 .. m : f[i] = g[<<f[i - 1], i>>]
            Good == {m \in 0 .. n : \E f \in [0 .. m -> A] : Is(f, m)}
<1>1. 0 \in Good
  <2>. DEFINE h == [i \in 0 .. 0 |-> base]
  <2>1. h \in [0 .. 0 -> A] /\ Is(h, 0)
    OBVIOUS
  <2>2. 0 \in 0 .. n
    OBVIOUS
  <2>. HIDE DEF h, Is
  <2>. QED
    BY <2>1, <2>2
<1>2. ASSUME NEW m \in 0 .. n - 1, m \in Good PROVE m + 1 \in Good
  <2>1. PICK f \in [0 .. m -> A] : Is(f, m)
    BY <1>2
  <2>. DEFINE h == [i \in 0 .. m + 1 |-> IF i = m + 1 THEN g[<<f[m], m + 1>>] ELSE f[i]]
  <2>2. f[m] \in A /\ m + 1 \in 1 .. n
    OBVIOUS
  <2>3. g[<<f[m], m + 1>>] \in A
    BY <2>2
  <2>4. h \in [0 .. m + 1 -> A]
    BY <2>3
  <2>5. h[0] = base
    BY <2>1
  <2>6. ASSUME NEW i \in 1 .. m + 1 PROVE h[i] = g[<<h[i - 1], i>>]
    <3>1. CASE i = m + 1
      <4>1. h[i - 1] = f[m] /\ i - 1 = m
        BY <3>1
      <4>2. h[i] = g[<<f[m], m + 1>>]
        BY <3>1
      <4>. HIDE DEF h
      <4>. QED
        BY <3>1, <4>1, <4>2
    <3>2. CASE i # m + 1
      <4>1. i \in 1 .. m /\ h[i - 1] = f[i - 1] /\ h[i] = f[i]
        BY <3>2
      <4>. QED
        BY <2>1, <4>1
    <3>. QED
      BY <3>1, <3>2
  <2>. HIDE DEF h
  <2>7. Is(h, m + 1)
    BY <2>5, <2>6
  <2>8. m + 1 \in 0 .. n
    OBVIOUS
  <2>. QED
    BY <2>4, <2>7, <2>8
<1>. HIDE DEF Good
<1>3. n \in Good
  BY <1>1, <1>2, Upwards
<1>. QED
  BY <1>3 DEF Good

-----------------------------------------------------------------------------
(* FoldLeft() is defined by a recursive function on the sets of positions.  *)

\* What Max() is.
LEMMA MaxIs ==
    ASSUME NEW s \in SUBSET Int, NEW m \in s, \A x \in s : x <= m
    PROVE  Max(s) = m
<1>1. \A y \in s : (\A x \in s : y >= x) => y = m
  OBVIOUS
<1>2. \E y \in s : \A x \in s : y >= x
  OBVIOUS
<1>3. Max(s) \in s /\ \A x \in s : Max(s) >= x
  BY <1>2 DEF Max
<1>. QED
  BY <1>1, <1>3

\* The last of the first positions.
LEMMA MaxIsLast ==
    ASSUME NEW n \in Nat, NEW s \in SUBSET (1 .. n + 1), n + 1 \in s
    PROVE  Max(s) = n + 1
<1>1. s \in SUBSET Int /\ \A x \in s : x <= n + 1
  OBVIOUS
<1>. QED
  BY <1>1, MaxIs

\* Positions have a last one.
LEMMA MaxIsPosition ==
    ASSUME NEW n \in Nat, NEW s \in SUBSET (1 .. n), s # {}
    PROVE  Max(s) \in s
<1>. DEFINE from == {n - x : x \in s}
<1>0. \A x \in s : x \in Int /\ n - x \in Nat
  OBVIOUS
<1>1. from \in SUBSET Nat /\ from # {}
  BY <1>0
<1>2. PICK d \in from : \A e \in from : d <= e
  <2>. HIDE DEF from
  <2>. QED
    BY <1>1, LeastNat
<1>3. PICK x \in s : d = n - x
  OBVIOUS
<1>4. \A y \in s : y <= x
  <2>1. \A y \in s : n - x <= n - y
    BY <1>2, <1>3
  <2>. QED
    BY <1>0, <2>1
<1>5. s \in SUBSET Int
  OBVIOUS
<1>. QED
  BY <1>3, <1>4, <1>5, MaxIs

\* A recursion over sets of positions, with g for one step, defines a function.
FoldsBy(it, g, base, seq, n) ==
    it = [s \in SUBSET (1 .. n) |->
             IF s = {} THEN base ELSE g[<<it[s \ {Max(s)}], seq[Max(s)]>>]]

\* MapThenFoldSet's function on the sets of positions exists.
LEMMA FoldExists ==
    ASSUME NEW A, NEW B, NEW g \in [A \X B -> A], NEW base \in A,
           NEW n \in Nat, NEW seq, \A i \in 1 .. n : seq[i] \in B
    PROVE  \E it \in [SUBSET (1 .. n) -> A] : FoldsBy(it, g, base, seq, n)
<1>. DEFINE Good == {m \in 0 .. n : \E it \in [SUBSET (1 .. m) -> A] : FoldsBy(it, g, base, seq, m)}
<1>1. 0 \in Good
  <2>1. SUBSET (1 .. 0) = {{}}
    OBVIOUS
  <2>. DEFINE it == [s \in SUBSET (1 .. 0) |-> base]
  <2>2. it \in [SUBSET (1 .. 0) -> A]
    OBVIOUS
  <2>3. FoldsBy(it, g, base, seq, 0)
    BY <2>1 DEF FoldsBy
  <2>. QED
    BY <2>2, <2>3
<1>2. ASSUME NEW m \in 0 .. n - 1, m \in Good PROVE m + 1 \in Good
  <2>1. PICK it \in [SUBSET (1 .. m) -> A] : FoldsBy(it, g, base, seq, m)
    BY <1>2
  <2>. DEFINE next == [s \in SUBSET (1 .. m + 1) |->
                          IF m + 1 \in s THEN g[<<it[s \ {m + 1}], seq[m + 1]>>] ELSE it[s]]
  <2>2. \A s \in SUBSET (1 .. m + 1) : s \ {m + 1} \in SUBSET (1 .. m)
    OBVIOUS
  <2>3. \A s \in SUBSET (1 .. m + 1) : m + 1 \notin s => s \in SUBSET (1 .. m)
    OBVIOUS
  <2>4. seq[m + 1] \in B /\ \A s \in SUBSET (1 .. m) : it[s] \in A
    OBVIOUS
  <2>5. next \in [SUBSET (1 .. m + 1) -> A]
    BY <2>2, <2>3, <2>4
  <2>6. ASSUME NEW s \in SUBSET (1 .. m + 1)
        PROVE  next[s] = IF s = {} THEN base ELSE g[<<next[s \ {Max(s)}], seq[Max(s)]>>]
    <3>1. CASE m + 1 \in s
      <4>1. Max(s) = m + 1
        BY <3>1, MaxIsLast
      <4>2. next[s \ {m + 1}] = it[s \ {m + 1}] /\ s # {}
        BY <3>1
      <4>. QED
        BY <3>1, <4>1, <4>2
    <3>2. CASE m + 1 \notin s
      <4>1. s \in SUBSET (1 .. m)
        BY <2>3, <3>2
      <4>2. next[s] = it[s] /\ next[s \ {Max(s)}] = it[s \ {Max(s)}]
        BY <3>2, <4>1
      <4>. QED
        BY <2>1, <4>1, <4>2 DEF FoldsBy
    <3>. QED
      BY <3>1, <3>2
  <2>. HIDE DEF next
  <2>7. FoldsBy(next, g, base, seq, m + 1)
    <3>1. next = [s \in SUBSET (1 .. m + 1) |-> next[s]]
      BY <2>5
    <3>. QED
      BY <2>6, <3>1 DEF FoldsBy
  <2>. QED
    BY <2>5, <2>7
<1>. HIDE DEF Good
<1>3. n \in Good
  BY <1>1, <1>2, Upwards
<1>. QED
  BY <1>3 DEF Good


-----------------------------------------------------------------------------
(* A part of a sequence, told by the positions at which it is. *)

\* The elements of s at the positions P are, in order, the elements of t.
Selects(s, P, t) ==
    /\ P \in SUBSET (1 .. Len(s))
    /\ Cardinality(P) = Len(t)
    /\ \A p \in P : s[p] = t[Cardinality(P \cap (1 .. p))]

\* A set of positions is finite.
LEMMA PositionsFinite ==
    ASSUME NEW m \in Int, NEW P \in SUBSET (1 .. m)
    PROVE  IsFiniteSet(P) /\ Cardinality(P) \in Nat
<1>1. IsFiniteSet(1 .. m)
  BY FS_Interval
<1>2. IsFiniteSet(P)
  BY <1>1, FS_Subset
<1>. QED
  BY <1>2, FS_CardinalityType

\* So many positions there are from the first.
LEMMA FirstPositions ==
    ASSUME NEW m \in Nat
    PROVE  Cardinality(1 .. m) = m
<1>1. 1 \in Int /\ m \in Int
  OBVIOUS
<1>2. Cardinality(1 .. m) = IF 1 > m THEN 0 ELSE m - 1 + 1
  BY <1>1, FS_Interval
<1>. QED
  BY <1>2

\* Sets that have nothing in common.
LEMMA DisjointSize ==
    ASSUME NEW P, NEW R, IsFiniteSet(P), IsFiniteSet(R), P \cap R = {}
    PROVE  Cardinality(P \cup R) = Cardinality(P) + Cardinality(R)
<1>1. Cardinality(P) \in Nat /\ Cardinality(R) \in Nat
  BY FS_CardinalityType
<1>2. Cardinality(P \cap R) = 0
  BY FS_EmptySet
<1>3. Cardinality(P \cup R) = Cardinality(P) + Cardinality(R) - Cardinality(P \cap R)
  BY FS_Union
<1>. QED
  BY <1>1, <1>2, <1>3

\* A shifted set of numbers is as large.
LEMMA ShiftedSize ==
    ASSUME NEW m \in Nat, NEW n \in Nat, NEW P \in SUBSET (1 .. m)
    PROVE  /\ IsFiniteSet(P) /\ IsFiniteSet({n + p : p \in P})
           /\ Cardinality({n + p : p \in P}) = Cardinality(P) /\ Cardinality(P) \in Nat
<1>. DEFINE T == {n + p : p \in P}
            f == [p \in P |-> n + p]
<1>1. IsFiniteSet(P)
  BY PositionsFinite
<1>2. f \in Bijection(P, T)
  BY DEF Bijection, Injection, Surjection, IsInjective
<1>3. ExistsBijection(P, T)
  BY <1>2 DEF ExistsBijection
<1>. QED
  BY <1>1, <1>3, FS_Bijection, FS_CardinalityType

\* Sequences are joined part by part.
LEMMA SelectsMore ==
    ASSUME NEW S, NEW s \in Seq(S), NEW t \in Seq(S), NEW out \in Seq(S), NEW more \in Seq(S),
           NEW P, NEW Q, Selects(s, P, t), Selects(out, Q, more)
    PROVE  Selects(s \o out, P \cup {Len(s) + q : q \in Q}, t \o more)
<1>. DEFINE n == Len(s)
            R == {n + q : q \in Q}
            PR == P \cup R
<1>1. /\ n \in Nat /\ Len(out) \in Nat /\ Len(s \o out) = n + Len(out)
      /\ P \in SUBSET (1 .. n) /\ Q \in SUBSET (1 .. Len(out))
      /\ Cardinality(P) = Len(t) /\ Cardinality(Q) = Len(more)
  BY LenProperties, ConcatProperties DEF Selects
<1>2. /\ IsFiniteSet(P) /\ IsFiniteSet(Q) /\ IsFiniteSet(R) /\ Cardinality(R) = Len(more)
      /\ Len(t) \in Nat /\ Len(more) \in Nat
  BY <1>1, ShiftedSize, LenProperties
<1>3. P \cap R = {} /\ PR \in SUBSET (1 .. n + Len(out))
  <2>1. \A q \in Q : n + q > n /\ n + q \in 1 .. n + Len(out)
    BY <1>1
  <2>2. \A p \in P : p <= n /\ p \in 1 .. n + Len(out)
    BY <1>1
  <2>. HIDE DEF n
  <2>3. P \cap R = {}
    <3>. SUFFICES ASSUME NEW q \in Q, n + q \in P PROVE FALSE
      OBVIOUS
    <3>1. n + q > n /\ n + q <= n
      BY <2>1, <2>2
    <3>. QED
      BY <1>1, <3>1
  <2>. QED
    BY <2>1, <2>2, <2>3
<1>4. Cardinality(PR) = Len(t) + Len(more)
  BY <1>1, <1>2, <1>3, DisjointSize
<1>5. Len(t \o more) = Len(t) + Len(more)
  BY ConcatProperties
<1>6. ASSUME NEW p \in P
      PROVE  (s \o out)[p] = (t \o more)[Cardinality(PR \cap (1 .. p))]
  <2>. DEFINE c == Cardinality(P \cap (1 .. p))
  <2>1. PR \cap (1 .. p) = P \cap (1 .. p)
    BY <1>1
  <2>2. p \in P \cap (1 .. p) /\ IsFiniteSet(P \cap (1 .. p)) /\ c <= Len(t)
    <3>1. p \in P \cap (1 .. p)
      BY <1>1
    <3>2. IsFiniteSet(P \cap (1 .. p)) /\ c <= Cardinality(P)
      BY <1>2, FS_Intersection
    <3>. QED
      BY <1>1, <3>1, <3>2
  <2>3. c \in Nat /\ c # 0
    BY <2>2, FS_EmptySet, FS_CardinalityType
  <2>4. s[p] = t[c]
    BY DEF Selects
  <2>. HIDE DEF c
  <2>5. (t \o more)[c] = t[c]
    BY <1>2, <2>2, <2>3, ConcatProperties
  <2>6. (s \o out)[p] = s[p]
    BY <1>1, ConcatProperties
  <2>. QED
    BY <2>1, <2>4, <2>5, <2>6 DEF c
<1>7. ASSUME NEW q \in Q
      PROVE  (s \o out)[n + q] = (t \o more)[Cardinality(PR \cap (1 .. n + q))]
  <2>. DEFINE U == Q \cap (1 .. q)
              V == {n + u : u \in U}
              c == Cardinality(U)
  <2>1. PR \cap (1 .. n + q) = P \cup V
    <3>1. \A p \in P : p \in 1 .. n + q
      BY <1>1
    <3>2. \A u \in Q : u \in 1 .. q <=> n + u \in 1 .. n + q
      BY <1>1
    <3>. HIDE DEF n
    <3>. QED
      BY <3>1, <3>2
  <2>2. U \in SUBSET (1 .. Len(out)) /\ q \in U
    BY <1>1
  <2>. HIDE DEF n
  <2>3. IsFiniteSet(U) /\ IsFiniteSet(V) /\ Cardinality(V) = c /\ c \in Nat
    BY <1>1, <2>2, ShiftedSize
  <2>4. c # 0 /\ c <= Len(more)
    BY <1>1, <1>2, <2>2, <2>3, FS_EmptySet, FS_Intersection
  <2>5. P \cap V = {}
    BY <1>3
  <2>6. Cardinality(P \cup V) = Len(t) + c
    <3>. HIDE DEF V, c
    <3>1. Cardinality(P \cup V) = Cardinality(P) + Cardinality(V)
      BY <1>2, <2>3, <2>5, DisjointSize
    <3>. QED
      BY <1>1, <2>3, <3>1
  <2>7. out[q] = more[c]
    BY DEF Selects
  <2>. HIDE DEF c, U, V
  <2>8. (t \o more)[Len(t) + c] = more[c]
    BY <1>2, <2>3, <2>4, ConcatProperties
  <2>9. (s \o out)[n + q] = out[q]
    BY <1>1, ConcatProperties
  <2>. QED
    BY <2>1, <2>6, <2>7, <2>8, <2>9
<1>. HIDE DEF R, n
<1>8. \A p \in R : (s \o out)[p] = (t \o more)[Cardinality(PR \cap (1 .. p))]
  BY <1>7 DEF R
<1>. QED
  BY <1>1, <1>3, <1>4, <1>5, <1>6, <1>8 DEF Selects, R, n

\* All of a sequence, and nothing of it.
LEMMA SelectsAllOrNone ==
    ASSUME NEW S, NEW s \in Seq(S)
    PROVE  Selects(s, 1 .. Len(s), s) /\ Selects(s, {}, <<>>)
<1>1. Len(s) \in Nat
  BY LenProperties
<1>2. Cardinality(1 .. Len(s)) = Len(s)
  BY <1>1, FirstPositions
<1>3. ASSUME NEW p \in 1 .. Len(s)
      PROVE  Cardinality((1 .. Len(s)) \cap (1 .. p)) = p
  <2>1. (1 .. Len(s)) \cap (1 .. p) = 1 .. p /\ p \in Nat
    BY <1>1
  <2>. QED
    BY <2>1, FirstPositions
<1>. QED
  BY <1>2, <1>3, FS_EmptySet, EmptySeq DEF Selects

Occurrences(s, x) == Cardinality({p \in DOMAIN s : s[p] = x})

IsOnlyAt(s, x, k) == k \in 1 .. Len(s) /\ \A i \in 1 .. Len(s) : s[i] = x <=> i = k

\* One element more at one position more.
LEMMA OneMoreOf ==
    ASSUME NEW S, NEW s \in Seq(S), NEW out \in Seq(S), NEW x, NEW k, IsOnlyAt(out, x, k)
    PROVE  Occurrences(s \o out, x) = Occurrences(s, x) + 1
<1>. USE DEF IsOnlyAt, Occurrences
<1>. DEFINE P == {p \in DOMAIN s : s[p] = x}
            R == {p \in DOMAIN (s \o out) : (s \o out)[p] = x}
<1>1. /\ Len(s) \in Nat /\ Len(out) \in Nat /\ DOMAIN s = 1 .. Len(s)
      /\ s \o out \in Seq(S) /\ Len(s \o out) = Len(s) + Len(out)
  BY LenProperties, ConcatProperties
<1>2. DOMAIN (s \o out) = 1 .. Len(s) + Len(out)
  BY <1>1, LenProperties
<1>3. \A p \in 1 .. Len(s) + Len(out) :
        (s \o out)[p] = IF p <= Len(s) THEN s[p] ELSE out[p - Len(s)]
  BY ConcatProperties
<1>4. R = P \cup {Len(s) + k}
  <2>1. ASSUME NEW p \in 1 .. Len(s) + Len(out), p > Len(s)
        PROVE  p \in R <=> p = Len(s) + k
    <3>1. p - Len(s) \in 1 .. Len(out)
      BY <1>1, <2>1
    <3>2. out[p - Len(s)] = x <=> p - Len(s) = k
      BY <3>1
    <3>. QED
      BY <1>1, <1>2, <1>3, <2>1, <3>2
  <2>2. ASSUME NEW p \in 1 .. Len(s) + Len(out), p <= Len(s)
        PROVE  p \in R <=> p \in P
    BY <1>1, <1>2, <1>3, <2>2
  <2>. QED
    BY <1>1, <1>2, <2>1, <2>2
<1>5. IsFiniteSet(P) /\ Len(s) + k \notin P
  <2>1. P \in SUBSET (1 .. Len(s)) /\ Len(s) \in Int
    BY <1>1
  <2>2. IsFiniteSet(P)
    BY <2>1, PositionsFinite
  <2>. QED
    BY <1>1, <2>1, <2>2
<1>. QED
  BY <1>4, <1>5, FS_AddElement

\* No element more.
LEMMA NoMoreOf ==
    ASSUME NEW S, NEW s \in Seq(S), NEW out \in Seq(S), NEW x,
           \A i \in 1 .. Len(out) : out[i] # x
    PROVE  Occurrences(s \o out, x) = Occurrences(s, x)
<1>1. /\ Len(s) \in Nat /\ Len(out) \in Nat /\ DOMAIN s = 1 .. Len(s)
      /\ s \o out \in Seq(S) /\ Len(s \o out) = Len(s) + Len(out)
  BY LenProperties, ConcatProperties
<1>2. DOMAIN (s \o out) = 1 .. Len(s) + Len(out)
  BY <1>1, LenProperties
<1>3. \A p \in 1 .. Len(s) + Len(out) :
        (s \o out)[p] = IF p <= Len(s) THEN s[p] ELSE out[p - Len(s)]
  BY ConcatProperties
<1>4. ASSUME NEW p \in 1 .. Len(s) + Len(out), p > Len(s)
      PROVE  (s \o out)[p] # x
  <2>1. p - Len(s) \in 1 .. Len(out)
    BY <1>1, <1>4
  <2>. QED
    BY <1>1, <1>3, <1>4, <2>1
<1>5. {p \in DOMAIN (s \o out) : (s \o out)[p] = x} = {p \in DOMAIN s : s[p] = x}
  BY <1>1, <1>2, <1>3, <1>4
<1>. QED
  BY <1>5 DEF Occurrences

-----------------------------------------------------------------------------
(* Sequences of sequences, joined. *)

\* f[i] is what the first i sequences of q are, joined.
IsFlatten(f, q) == f[0] = <<>> /\ \A i \in 1 .. Len(q) : f[i] = f[i - 1] \o q[i]

\* FlattenSeq() is such a function's last value.
LEMMA FlattenIs ==
    ASSUME NEW S, NEW q \in Seq(Seq(S))
    PROVE  \E f \in [0 .. Len(q) -> Seq(S)] : IsFlatten(f, q) /\ FlattenSeq(q) = f[Len(q)]
<1>. DEFINE n == Len(q)
            g == [x \in Seq(S) \X (1 .. n) |-> x[1] \o q[x[2]]]
            Is(h) == h = [i \in 1 .. n |-> IF i = 1 THEN q[i] ELSE h[i - 1] \o q[i]]
<1>1. n \in Nat /\ <<>> \in Seq(S)
  BY EmptySeq
<1>2. \A i \in 1 .. n : q[i] \in Seq(S)
  BY ElementOfSeq
<1>3. \A a \in Seq(S), i \in 1 .. n : a \o q[i] \in Seq(S)
  BY <1>2, ConcatProperties
<1>4. g \in [Seq(S) \X (1 .. n) -> Seq(S)]
  BY <1>3
<1>5. \A a \in Seq(S), i \in 1 .. n : g[<<a, i>>] = a \o q[i]
  OBVIOUS
<1>6. n = 0 => FlattenSeq(q) = <<>>
  <2>1. n = 0 => q = <<>>
    BY EmptySeq
  <2>. QED
    BY <2>1 DEF FlattenSeq
<1>7. n # 0 => FlattenSeq(q) = (CHOOSE h : Is(h))[n]
  BY DEF FlattenSeq
<1>. HIDE DEF g
<1>8. PICK f \in [0 .. n -> Seq(S)] : IsRecursion(f, n, <<>>, g)
  <2>. HIDE DEF n
  <2>. QED
    BY <1>1, <1>4, RecursionExists, Zenon
<1>9. f[0] = <<>> /\ \A i \in 1 .. n : f[i] = f[i - 1] \o q[i]
  <2>1. \A i \in 1 .. n : i - 1 \in 0 .. n
    BY <1>1
  <2>2. \A i \in 1 .. n : f[i - 1] \in Seq(S)
    BY <2>1
  <2>. QED
    BY <1>5, <1>8, <2>2 DEF IsRecursion
<1>10. IsFlatten(f, q)
  BY <1>9 DEF IsFlatten
<1>. DEFINE first == [i \in 1 .. n |-> f[i]]
<1>11. Is(first)
  <2>1. ASSUME NEW i \in 1 .. n
        PROVE  first[i] = IF i = 1 THEN q[i] ELSE first[i - 1] \o q[i]
    <3>1. CASE i = 1
      <4>1. i - 1 = 0 /\ i \in 1 .. n
        BY <3>1
      <4>2. f[i] = <<>> \o q[i]
        BY <1>9, <4>1, Zenon
      <4>3. f[i] = q[i]
        BY <1>2, <4>1, <4>2, ConcatEmptySeq
      <4>. QED
        BY <3>1, <4>3
    <3>2. CASE i # 1
      <4>1. i - 1 \in 1 .. n
        BY <1>1, <3>2
      <4>. QED
        BY <1>9, <3>2, <4>1
    <3>. QED
      BY <3>1, <3>2
  <2>. QED
    BY <2>1
<1>12. PICK h : h = (CHOOSE k : Is(k)) /\ Is(h)
  BY <1>11
<1>13. n # 0 => h[n] = f[n]
  <2>. DEFINE T == {k \in 0 .. n : k # 0 => h[k] = f[k]}
  <2>1. 0 \in T
    BY <1>1
  <2>2. ASSUME NEW k \in 0 .. n - 1, k \in T PROVE k + 1 \in T
    <3>1. k + 1 \in 1 .. n /\ (k + 1) - 1 = k /\ k + 1 # 0 /\ k + 1 \in 0 .. n
      BY <1>1
    <3>2. h[k + 1] = IF k = 0 THEN q[k + 1] ELSE h[k] \o q[k + 1]
      <4>1. h[k + 1] = IF k + 1 = 1 THEN q[k + 1] ELSE h[(k + 1) - 1] \o q[k + 1]
        BY <1>12, <3>1, Zenon
      <4>2. k + 1 = 1 <=> k = 0
        OBVIOUS
      <4>. QED
        BY <3>1, <4>1, <4>2, Zenon
    <3>3. f[k + 1] = f[k] \o q[k + 1]
      BY <1>9, <3>1
    <3>4. CASE k = 0
      <4>1. f[k + 1] = q[k + 1]
        BY <1>2, <1>9, <3>1, <3>3, <3>4, ConcatEmptySeq
      <4>. QED
        BY <3>1, <3>2, <3>4, <4>1
    <3>5. CASE k # 0
      BY <2>2, <3>1, <3>2, <3>3, <3>5
    <3>. QED
      BY <3>4, <3>5
  <2>. HIDE DEF T
  <2>3. \A k \in 0 .. n : k \in T
    BY <1>1, <2>1, <2>2, Upwards
  <2>4. n \in T
    BY <1>1, <2>3
  <2>. QED
    BY <2>4 DEF T
<1>14. FlattenSeq(q) = f[n]
  BY <1>6, <1>7, <1>9, <1>12, <1>13
<1>. QED
  BY <1>10, <1>14

\* Any such function's last value is FlattenSeq().
LEMMA FlattenUnique ==
    ASSUME NEW S, NEW q \in Seq(Seq(S)), NEW f, IsFlatten(f, q)
    PROVE  FlattenSeq(q) = f[Len(q)] /\ FlattenSeq(q) \in Seq(S)
<1>1. Len(q) \in Nat
  OBVIOUS
<1>2. PICK h \in [0 .. Len(q) -> Seq(S)] : IsFlatten(h, q) /\ FlattenSeq(q) = h[Len(q)]
  BY FlattenIs
<1>. DEFINE T == {k \in 0 .. Len(q) : f[k] = h[k]}
<1>3. 0 \in T
  BY <1>1, <1>2 DEF IsFlatten
<1>4. ASSUME NEW k \in 0 .. Len(q) - 1, k \in T PROVE k + 1 \in T
  <2>1. k + 1 \in 1 .. Len(q) /\ (k + 1) - 1 = k /\ k + 1 \in 0 .. Len(q)
    BY <1>1
  <2>2. f[k + 1] = f[k] \o q[k + 1] /\ h[k + 1] = h[k] \o q[k + 1]
    BY <1>2, <2>1 DEF IsFlatten
  <2>. QED
    BY <1>4, <2>1, <2>2
<1>. HIDE DEF T
<1>5. \A k \in 0 .. Len(q) : k \in T
  BY <1>1, <1>3, <1>4, Upwards
<1>6. Len(q) \in T /\ Len(q) \in 0 .. Len(q)
  BY <1>1, <1>5
<1>7. f[Len(q)] = h[Len(q)]
  BY <1>6 DEF T
<1>. QED
  BY <1>2, <1>6, <1>7

\* One more sequence behind the others.
LEMMA FlattenAppend ==
    ASSUME NEW S, NEW q \in Seq(Seq(S)), NEW e \in Seq(S)
    PROVE  FlattenSeq(Append(q, e)) = FlattenSeq(q) \o e
<1>. DEFINE n == Len(q)
            r == Append(q, e)
<1>1. n \in Nat /\ r \in Seq(Seq(S)) /\ Len(r) = n + 1 /\ r[n + 1] = e
      /\ \A i \in 1 .. n : r[i] = q[i]
  BY AppendProperties
<1>2. PICK f \in [0 .. n -> Seq(S)] : IsFlatten(f, q) /\ FlattenSeq(q) = f[n]
  BY FlattenIs
<1>. HIDE DEF n, r
<1>. DEFINE h == [i \in 0 .. n + 1 |-> IF i = n + 1 THEN f[n] \o e ELSE f[i]]
<1>3. IsFlatten(h, r)
  <2>1. h[0] = <<>>
    BY <1>1, <1>2 DEF IsFlatten
  <2>2. ASSUME NEW i \in 1 .. n + 1 PROVE h[i] = h[i - 1] \o r[i]
    <3>1. CASE i = n + 1
      <4>1. i - 1 = n /\ n \in 0 .. n + 1 /\ n # n + 1 /\ i \in 0 .. n + 1
        BY <1>1, <3>1
      <4>2. h[i] = f[n] \o e /\ h[n] = f[n]
        BY <3>1, <4>1
      <4>. HIDE DEF h
      <4>. QED
        BY <1>1, <3>1, <4>1, <4>2
    <3>2. CASE i # n + 1
      <4>1. i \in 1 .. n /\ i - 1 \in 0 .. n + 1 /\ i - 1 # n + 1 /\ i \in 0 .. n + 1
        BY <1>1, <3>2
      <4>2. f[i] = f[i - 1] \o q[i]
        BY <1>2, <4>1 DEF IsFlatten, n
      <4>. QED
        BY <1>1, <3>2, <4>1, <4>2
    <3>. QED
      BY <3>1, <3>2
  <2>. HIDE DEF h
  <2>. QED
    BY <1>1, <2>1, <2>2 DEF IsFlatten
<1>4. FlattenSeq(r) = h[n + 1]
  <2>. HIDE DEF h
  <2>. QED
    BY <1>1, <1>3, FlattenUnique
<1>. QED
  BY <1>1, <1>2, <1>4 DEF r

\* One more in front of them.
LEMMA FlattenCons ==
    ASSUME NEW S, NEW q \in Seq(Seq(S)), NEW e \in Seq(S)
    PROVE  FlattenSeq(<<e>> \o q) = e \o FlattenSeq(q)
<1>. DEFINE n == Len(q)
            r == <<e>> \o q
<1>1. n \in Nat /\ r \in Seq(Seq(S)) /\ Len(r) = n + 1 /\ r[1] = e
      /\ \A i \in 2 .. n + 1 : r[i] = q[i - 1]
  <2>1. <<e>> \in Seq(Seq(S)) /\ Len(<<e>>) = 1 /\ <<e>>[1] = e
    OBVIOUS
  <2>2. r \in Seq(Seq(S)) /\ Len(r) = 1 + n
        /\ \A i \in 1 .. 1 + n : r[i] = IF i <= 1 THEN <<e>>[i] ELSE q[i - 1]
    BY <2>1, ConcatProperties
  <2>3. n \in Nat
    OBVIOUS
  <2>. HIDE DEF r, n
  <2>. QED
    BY <2>1, <2>2, <2>3
<1>2. PICK f \in [0 .. n -> Seq(S)] : IsFlatten(f, q) /\ FlattenSeq(q) = f[n]
  BY FlattenIs
<1>3. f[0] = <<>> /\ \A i \in 1 .. n : f[i] = f[i - 1] \o q[i]
  BY <1>2 DEF IsFlatten
<1>4. \A i \in 1 .. n : q[i] \in Seq(S)
  BY ElementOfSeq
<1>. HIDE DEF n, r
<1>. DEFINE h == [i \in 0 .. n + 1 |-> IF i = 0 THEN <<>> ELSE e \o f[i - 1]]
<1>5. IsFlatten(h, r)
  <2>1. h[0] = <<>>
    <3>1. 0 \in 0 .. n + 1
      BY <1>1
    <3>. QED
      BY <3>1, Zenon
  <2>2. ASSUME NEW i \in 1 .. n + 1 PROVE h[i] = h[i - 1] \o r[i]
    <3>0. h[i] = e \o f[i - 1]
      <4>1. i \in 0 .. n + 1 /\ i # 0
        BY <1>1
      <4>. QED
        BY <4>1, Zenon
    <3>1. CASE i = 1
      <4>1. h[i - 1] = <<>> /\ f[i - 1] = <<>> /\ r[i] = e
        <5>1. i - 1 = 0
          BY <3>1
        <5>. HIDE DEF h
        <5>. QED
          BY <1>1, <1>3, <2>1, <3>1, <5>1
      <4>. HIDE DEF h
      <4>. QED
        BY <3>0, <4>1, ConcatEmptySeq
    <3>2. CASE i # 1
      <4>1. i - 1 \in 1 .. n /\ (i - 1) - 1 \in 0 .. n /\ i \in 2 .. n + 1
        BY <1>1, <3>2
      <4>2. h[i - 1] = e \o f[(i - 1) - 1]
        <5>1. i - 1 \in 0 .. n + 1 /\ i - 1 # 0
          BY <1>1, <4>1
        <5>. QED
          BY <5>1, Zenon
      <4>3. r[i] = q[i - 1] /\ q[i - 1] \in Seq(S) /\ f[(i - 1) - 1] \in Seq(S)
        BY <1>1, <1>4, <4>1
      <4>4. f[i - 1] = f[(i - 1) - 1] \o q[i - 1]
        BY <1>3, <4>1
      <4>. HIDE DEF h
      <4>5. h[i - 1] \o r[i] = e \o (f[(i - 1) - 1] \o q[i - 1])
        <5>. DEFINE a == f[(i - 1) - 1]
                    b == q[i - 1]
        <5>1. a \in Seq(S) /\ b \in Seq(S)
          BY <4>3
        <5>2. (e \o a) \o b = e \o (a \o b)
          <6>. HIDE DEF a, b
          <6>. QED
            BY <5>1, ConcatAssociative, SMTT(30)
        <5>. QED
          BY <4>2, <4>3, <5>2
      <4>. QED
        BY <3>0, <4>4, <4>5
    <3>. QED
      BY <3>1, <3>2
  <2>. HIDE DEF h
  <2>. QED
    BY <1>1, <2>1, <2>2 DEF IsFlatten
<1>6. FlattenSeq(r) = h[n + 1]
  <2>. HIDE DEF h
  <2>. QED
    BY <1>1, <1>5, FlattenUnique
<1>7. n + 1 # 0 /\ n + 1 \in 0 .. n + 1 /\ (n + 1) - 1 = n
  BY <1>1
<1>. QED
  BY <1>2, <1>6, <1>7 DEF r

\* None, and one.
LEMMA FlattenFew ==
    ASSUME NEW S, NEW e \in Seq(S)
    PROVE  FlattenSeq(<<>>) = <<>> /\ FlattenSeq(<<e>>) = e
<1>1. <<>> \in Seq(Seq(S)) /\ <<>> \in Seq(S)
  BY EmptySeq
<1>2. FlattenSeq(<<>>) = <<>>
  BY DEF FlattenSeq
<1>3. <<e>> = <<e>> \o <<>>
  OBVIOUS
<1>4. FlattenSeq(<<e>> \o <<>>) = e \o <<>>
  BY <1>1, <1>2, FlattenCons
<1>. QED
  BY <1>2, <1>3, <1>4, ConcatEmptySeq

\* Some, and the others.
LEMMA FlattenSplit ==
    ASSUME NEW S, NEW q \in Seq(Seq(S)), NEW k \in 0 .. Len(q)
    PROVE  FlattenSeq(SubSeq(q, 1, k)) \o FlattenSeq(SubSeq(q, k + 1, Len(q))) = FlattenSeq(q)
<1>. DEFINE n == Len(q)
            Before(i) == FlattenSeq(SubSeq(q, 1, i))
            Behind(i) == FlattenSeq(SubSeq(q, i + 1, n))
            T == {i \in 0 .. n : Before(i) \o Behind(i) = FlattenSeq(q)}
<1>1. n \in Nat /\ \A i \in 1 .. n : q[i] \in Seq(S)
  BY ElementOfSeq
<1>2. \A i \in 0 .. n : SubSeq(q, 1, i) \in Seq(Seq(S)) /\ SubSeq(q, i + 1, n) \in Seq(Seq(S))
  BY <1>1, SubSeqProperties
<1>3. \A r \in Seq(Seq(S)) : FlattenSeq(r) \in Seq(S)
  <2>. SUFFICES ASSUME NEW r \in Seq(Seq(S)) PROVE FlattenSeq(r) \in Seq(S)
    OBVIOUS
  <2>1. PICK f \in [0 .. Len(r) -> Seq(S)] : IsFlatten(f, r) /\ FlattenSeq(r) = f[Len(r)]
    BY FlattenIs
  <2>2. Len(r) \in 0 .. Len(r)
    OBVIOUS
  <2>. QED
    BY <2>1, <2>2
<1>4. \A i \in 0 .. n : Before(i) \in Seq(S) /\ Behind(i) \in Seq(S)
  BY <1>2, <1>3
<1>5. 0 \in T
  <2>1. SubSeq(q, 1, 0) = <<>> /\ SubSeq(q, 0 + 1, n) = q
    BY SubSeqEmpty, SubSeqFull
  <2>2. Before(0) = <<>>
    BY <2>1 DEF FlattenSeq
  <2>3. Behind(0) = FlattenSeq(q)
    BY <2>1
  <2>. QED
    BY <1>1, <1>3, <2>2, <2>3, ConcatEmptySeq
<1>6. ASSUME NEW i \in 0 .. n - 1, i \in T PROVE i + 1 \in T
  <2>1. i + 1 \in 1 .. n /\ i \in 0 .. n /\ i + 1 \in 0 .. n /\ (i + 1) - 1 = i
    BY <1>1
  <2>2. SubSeq(q, 1, i + 1) = SubSeq(q, 1, i) \o <<q[i + 1]>>
    <3>1. 1 \in 1 .. Len(q) /\ i + 1 \in 1 .. Len(q)
      BY <2>1
    <3>. QED
      BY <2>1, <3>1, SubSeqRecursiveSecond
  <2>3. SubSeq(q, 1, i) \o <<q[i + 1]>> = Append(SubSeq(q, 1, i), q[i + 1])
    BY <1>1, <1>2, <2>1, AppendIsConcat
  <2>4. Before(i + 1) = Before(i) \o q[i + 1]
    BY <1>1, <1>2, <2>1, <2>2, <2>3, FlattenAppend
  <2>5. SubSeq(q, i + 1, n) = <<q[i + 1]>> \o SubSeq(q, (i + 1) + 1, n)
    <3>1. n \in i + 1 .. Len(q)
      BY <2>1
    <3>. QED
      BY <2>1, <3>1, SubSeqRecursiveFirst
  <2>6. Behind(i) = q[i + 1] \o Behind(i + 1)
    BY <1>1, <1>2, <2>1, <2>5, FlattenCons
  <2>7. (Before(i) \o q[i + 1]) \o Behind(i + 1) = Before(i) \o (q[i + 1] \o Behind(i + 1))
    <3>. DEFINE a == Before(i)
                b == q[i + 1]
                d == Behind(i + 1)
    <3>1. a \in Seq(S) /\ b \in Seq(S) /\ d \in Seq(S)
      <4>. HIDE DEF Before, Behind
      <4>. QED
        BY <1>1, <1>4, <2>1
    <3>. HIDE DEF a, b, d
    <3>2. (a \o b) \o d = a \o (b \o d)
      BY <3>1, ConcatAssociative, SMTT(30)
    <3>. QED
      BY <3>2 DEF a, b, d
  <2>8. Before(i) \o Behind(i) = FlattenSeq(q)
    BY <1>6
  <2>. HIDE DEF Before, Behind
  <2>. QED
    BY <2>1, <2>4, <2>6, <2>7, <2>8
<1>. HIDE DEF T
<1>7. \A i \in 0 .. n : i \in T
  BY <1>1, <1>5, <1>6, Upwards
<1>. QED
  BY <1>7 DEF T

-----------------------------------------------------------------------------
(* Sums of numbers, as FoldLeft() adds them up. *)

\* Adds up w over sets of positions, as FoldLeft() does.
SumsBy(it, w, n) ==
    it = [s \in SUBSET (1 .. n) |-> IF s = {} THEN 0 ELSE it[s \ {Max(s)}] + w[Max(s)]]

\* t[i] is the sum of the first i of w.
IsTotal(t, w, n) == t[0] = 0 /\ \A i \in 1 .. n : t[i] = t[i - 1] + w[i]

\* FoldLeft() adds up numbers from left to right.
LEMMA SumsAre ==
    ASSUME NEW n \in Nat, NEW w \in [1 .. n -> Nat]
    PROVE  /\ \E it : SumsBy(it, w, n)
           /\ \A it, t : SumsBy(it, w, n) /\ IsTotal(t, w, n) => it[1 .. n] = t[n]
<1>1. \E it : SumsBy(it, w, n)
  <2>. DEFINE g == [x \in Nat \X Nat |-> x[1] + x[2]]
  <2>1. g \in [Nat \X Nat -> Nat]
    OBVIOUS
  <2>2. \A i \in 1 .. n : w[i] \in Nat
    OBVIOUS
  <2>3. \A a, b \in Nat : g[<<a, b>>] = a + b
    OBVIOUS
  <2>. HIDE DEF g
  <2>4. PICK it \in [SUBSET (1 .. n) -> Nat] : FoldsBy(it, g, 0, w, n)
    <3>1. 0 \in Nat
      OBVIOUS
    <3>2. \E it \in [SUBSET (1 .. n) -> Nat] : FoldsBy(it, g, 0, w, n)
      BY <2>1, <2>2, <3>1, FoldExists, Zenon
    <3>. QED
      BY <3>2
  <2>5. ASSUME NEW s \in SUBSET (1 .. n), s # {}
        PROVE  g[<<it[s \ {Max(s)}], w[Max(s)]>>] = it[s \ {Max(s)}] + w[Max(s)]
    <3>1. Max(s) \in 1 .. n /\ s \ {Max(s)} \in SUBSET (1 .. n)
      BY <2>5, MaxIsPosition
    <3>2. w[Max(s)] \in Nat /\ it[s \ {Max(s)}] \in Nat
      BY <2>2, <3>1
    <3>. QED
      BY <2>3, <3>2
  <2>6. it = [s \in SUBSET (1 .. n) |-> IF s = {} THEN 0 ELSE g[<<it[s \ {Max(s)}], w[Max(s)]>>]]
    BY <2>4 DEF FoldsBy
  <2>7. it = [s \in SUBSET (1 .. n) |-> IF s = {} THEN 0 ELSE it[s \ {Max(s)}] + w[Max(s)]]
    BY <2>5, <2>6, Zenon
  <2>. QED
    BY <2>7 DEF SumsBy
<1>2. ASSUME NEW it, NEW t, SumsBy(it, w, n), IsTotal(t, w, n) PROVE it[1 .. n] = t[n]
  <2>. DEFINE T == {k \in 0 .. n : it[1 .. k] = t[k]}
  <2>0. \A s \in SUBSET (1 .. n) : it[s] = IF s = {} THEN 0 ELSE it[s \ {Max(s)}] + w[Max(s)]
    BY <1>2 DEF SumsBy
  <2>1. 0 \in T
    <3>1. 1 .. 0 = {} /\ {} \in SUBSET (1 .. n) /\ 0 \in 0 .. n
      OBVIOUS
    <3>2. it[1 .. 0] = 0 /\ t[0] = 0
      BY <1>2, <2>0, <3>1 DEF IsTotal
    <3>. QED
      BY <3>1, <3>2
  <2>2. ASSUME NEW k \in 0 .. n - 1, k \in T PROVE k + 1 \in T
    <3>1. k \in Nat /\ k + 1 \in 1 .. n /\ k + 1 \in 0 .. n /\ (k + 1) - 1 = k
      OBVIOUS
    <3>. DEFINE s == 1 .. k + 1
    <3>2. s \in SUBSET (1 .. k + 1) /\ k + 1 \in s /\ s \in SUBSET (1 .. n) /\ s # {}
          /\ s \ {k + 1} = 1 .. k
      BY <3>1, SMTT(30)
    <3>. HIDE DEF s
    <3>3. Max(s) = k + 1
      BY <3>1, <3>2, MaxIsLast
    <3>4. it[s] = it[1 .. k] + w[k + 1]
      BY <2>0, <3>2, <3>3
    <3>5. t[k + 1] = t[k] + w[k + 1]
      BY <1>2, <3>1 DEF IsTotal
    <3>6. it[1 .. k + 1] = t[k + 1]
      BY <2>2, <3>4, <3>5 DEF s
    <3>. QED
      BY <3>1, <3>6
  <2>. HIDE DEF T
  <2>3. \A k \in 0 .. n : k \in T
    BY <2>1, <2>2, Upwards
  <2>4. n \in T
    BY <2>3
  <2>. QED
    BY <2>4 DEF T
<1>. QED
  BY <1>1, <1>2

\* There are such sums.
LEMMA TotalsExist ==
    ASSUME NEW n \in Nat, NEW w \in [1 .. n -> Nat]
    PROVE  \E t \in [0 .. n -> Nat] : IsTotal(t, w, n)
<1>. DEFINE g == [x \in Nat \X (1 .. n) |-> x[1] + w[x[2]]]
<1>1. \A i \in 1 .. n : w[i] \in Nat
  OBVIOUS
<1>2. g \in [Nat \X (1 .. n) -> Nat]
  BY <1>1
<1>3. \A a \in Nat, i \in 1 .. n : g[<<a, i>>] = a + w[i]
  OBVIOUS
<1>. HIDE DEF g
<1>4. PICK t \in [0 .. n -> Nat] : IsRecursion(t, n, 0, g)
  <2>1. 0 \in Nat
    OBVIOUS
  <2>. QED
    BY <1>2, <2>1, RecursionExists, Zenon
<1>5. \A i \in 1 .. n : t[i] = t[i - 1] + w[i]
  <2>1. \A i \in 1 .. n : i - 1 \in 0 .. n
    OBVIOUS
  <2>2. \A i \in 1 .. n : t[i - 1] \in Nat
    BY <2>1
  <2>. QED
    BY <1>3, <1>4, <2>2 DEF IsRecursion
<1>. QED
  BY <1>4, <1>5 DEF IsRecursion, IsTotal

=============================================================================
